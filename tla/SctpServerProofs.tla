--------------------------- MODULE SctpServerProofs ---------------------------
(***************************************************************************)
(* Proofs about SctpServer, for every finite set of remotes and any number *)
(* of channels, links, users and shutdowns: packets reach the channel of   *)
(* their sender, and until the first shutdownAll there is one per remote.  *)
(***************************************************************************)
EXTENDS SctpServer, FiniteSetTheorems, TLAPS

InHand == {"register", "put"}

(* A loop past receive has a packet, and past setup the channel of its sender. *)
LoopRight ==
  \A l \in Link :
    /\ rpc[l] \in {"locate", "setup", "forward"} \cup InHand => pkt[l] \in Remote
    /\ rpc[l] \in {"forward"} \cup InHand => rso[l] \in Chan /\ peer[rso[l]] = pkt[l]
    /\ rso[l] # None => chan[rso[l]] # "unused"

(* The map has channels that exist, under their own remote. *)
MapRight ==
  \A r \in Remote : socketMap[r] # None =>
    chan[socketMap[r]] # "unused" /\ peer[socketMap[r]] = r

(* Only channels that exist have a remote, or are closed. *)
ChanRight ==
  /\ \A c \in Chan : chan[c] # "unused" => peer[c] \in Remote
  /\ \A k \in Caller \X Chan : kpc[k] # "none" => chan[k[2]] # "unused"

(* Before the first shutdownAll ... *)
Quiet == \A s \in Down : spc[s] = "none"

(* ... the mapper works, init() has made at most one link, ... *)
OneLoop ==
  /\ ~isShutdown
  /\ \A l, m \in Link : rpc[l] # "none" /\ rpc[m] # "none" => l = m
  /\ ipc = "link" \/ ~initialized => \A l \in Link : rpc[l] = "none"
  /\ ipc = "link" => initialized

(* ... and every channel is in the map, or about to be put where none is.      *)
AllMapped ==
  /\ \A c \in Chan : chan[c] # "unused" =>
       socketMap[peer[c]] = c \/ \E l \in Link : rpc[l] \in InHand /\ rso[l] = c
  /\ \A l \in Link : rpc[l] \in {"setup"} \cup InHand => socketMap[pkt[l]] = None

(* The inductive invariant. *)
IInv == TypeOK /\ LoopRight /\ MapRight /\ ChanRight /\ (Quiet => OneLoop /\ AllMapped)

-----------------------------------------------------------------------------
LEMMA InitIInv == Init => IInv
<1> SUFFICES ASSUME Init PROVE IInv
  OBVIOUS
<1>1. initialized \in BOOLEAN /\ isShutdown \in BOOLEAN
  BY Zenon DEF Init
<1>2. 0 \in 0..Cardinality(Remote)
  BY RemoteAssumption, FS_Product, FS_CardinalityType DEF Remote
<1>3. TypeOK
  <2>1. /\ ipc \in {"idle", "link", "thaw"}
        /\ link \in Link \cup {None} /\ lnk \in [Link -> {"unused", "open", "closed"}]
        /\ chan \in [Chan -> {"unused", "open", "closed"}]
        /\ peer \in [Chan -> Remote \cup {None}] /\ via \in [Chan -> Link \cup {None}]
        /\ socketMap \in [Remote -> Chan \cup {None}]
        /\ pkt \in [Link -> Remote \cup {None}] /\ rso \in [Link -> Chan \cup {None}]
    BY DEF Init
  <2> QED
    BY <1>1, <1>2, <2>1 DEF Init, TypeOK
<1>4. LoopRight /\ MapRight /\ ChanRight
  BY DEF Init, LoopRight, MapRight, ChanRight, InHand
<1>5. OneLoop /\ AllMapped
  BY DEF Init, OneLoop, AllMapped, InHand
<1> QED
  BY <1>3, <1>4, <1>5 DEF IInv

-----------------------------------------------------------------------------
(* SctpUtils.init: before a shutdown it makes a link once, for it returns at   *)
(* once while Sctp is initialized.                                             *)
LEMMA InitSteps ==
  ASSUME IInv, init \/ InitLink \/ InitThaw
  PROVE  IInv'
<1> USE DEF IInv
<1>0. UNCHANGED <<pkt, rso, chanVars, socketMap, kpc, downVars>>
  BY DEF init, InitLink, InitThaw, loopVars, mapVars
<1>1. MapRight' /\ ChanRight' /\ (Quiet' <=> Quiet)
  BY <1>0 DEF chanVars, downVars, MapRight, ChanRight, Quiet
<1>2. CASE init
  <2>1. initialized' \in BOOLEAN
    BY <1>2, Zenon DEF init
  <2>2. TypeOK'
    BY <1>0, <1>2, <2>1 DEF init, loopVars, chanVars, mapVars, downVars, TypeOK
  <2>3. LoopRight' /\ (Quiet => OneLoop' /\ AllMapped')
    BY <1>2 DEF init, loopVars, chanVars, mapVars, LoopRight, OneLoop, AllMapped
  <2> QED
    BY <1>1, <2>2, <2>3
<1>3. CASE InitLink
  <2>1. TypeOK'
    BY <1>0, <1>3 DEF InitLink, chanVars, mapVars, downVars, TypeOK
  <2>2. \A l \in Link : rpc'[l] = rpc[l] \/ rpc'[l] = "receive"
    BY <1>3 DEF InitLink, TypeOK
  <2>3. LoopRight'
    BY <1>0, <2>2 DEF chanVars, LoopRight, InHand
  <2>4. ASSUME Quiet PROVE OneLoop'
    <3>1. ~isShutdown' /\ ipc' # "link" /\ initialized' = initialized
      BY <1>3, <2>4 DEF InitLink, mapVars, OneLoop
    <3>2. \A l \in Link : rpc[l] = "none"
      BY <1>3, <2>4 DEF InitLink, OneLoop
    <3>3. initialized
      BY <1>3, <2>4 DEF InitLink, OneLoop
    <3> QED
      BY <1>3, <3>1, <3>2, <3>3 DEF InitLink, OneLoop, TypeOK
  <2>5. ASSUME Quiet PROVE AllMapped'
    BY <1>0, <1>3, <2>2, <2>5 DEF InitLink, chanVars, AllMapped, OneLoop, InHand
  <2> QED
    BY <1>1, <2>1, <2>3, <2>4, <2>5
<1>4. CASE InitThaw
  <2>1. isShutdown' \in BOOLEAN
    BY <1>4, Zenon DEF InitThaw
  <2>2. TypeOK'
    BY <1>0, <1>4, <2>1 DEF InitThaw, loopVars, chanVars, downVars, TypeOK
  <2>3. LoopRight' /\ (Quiet => OneLoop' /\ AllMapped')
    BY <1>4 DEF InitThaw, loopVars, chanVars, LoopRight, OneLoop, AllMapped
  <2> QED
    BY <1>1, <2>2, <2>3
<1> QED
  BY <1>2, <1>3, <1>4

(* The receive loop: the packet in hand and the channel found or built for it  *)
(* belong together, whatever the others do in between.                         *)
LEMMA LoopSteps ==
  ASSUME IInv, NEW l \in Link, LoopStep(l)
  PROVE  IInv'
<1> USE DEF IInv
<1>0. UNCHANGED <<linkVars, isShutdown, kpc, downVars>>
  BY DEF LoopStep, Receive, Locate, setupSocket, Register, RegisterPut, Forward, mapVars
<1>1. Quiet' <=> Quiet
  BY <1>0 DEF downVars, Quiet
<1>2. rpc[l] # "none" /\ rpc' = [rpc EXCEPT ![l] = rpc'[l]] /\ rpc'[l] # "none"
  BY DEF LoopStep, Receive, Locate, setupSocket, Register, RegisterPut, Forward, LoopGoto, TypeOK
<1>3. Quiet => OneLoop'
  BY <1>0, <1>2 DEF linkVars, OneLoop, TypeOK
<1>4. CASE Receive(l)
  <2>1. UNCHANGED <<rso, chanVars, mapVars>>
    BY <1>4 DEF Receive
  <2>2. /\ \/ rpc'[l] = "locate" /\ pkt'[l] \in Remote
           \/ rpc'[l] = "ended"
        /\ pkt' \in [Link -> Remote \cup {None}]
        /\ rpc[l] = "receive"
        /\ \A m \in Link : m # l => rpc'[m] = rpc[m] /\ pkt'[m] = pkt[m]
    BY <1>4 DEF Receive, LoopGoto, TypeOK
  <2>3. TypeOK'
    <3>1. rpc' \in [Link -> {"none", "receive", "locate", "setup", "register", "put", "forward",
                             "ended"}]
      BY <1>2, <2>2 DEF TypeOK
    <3> QED
      BY <1>0, <2>1, <2>2, <3>1 DEF linkVars, chanVars, mapVars, downVars, TypeOK
  <2>4. LoopRight' /\ MapRight' /\ ChanRight'
    BY <1>0, <2>1, <2>2 DEF chanVars, mapVars, LoopRight, MapRight, ChanRight, InHand
  <2>5. Quiet => AllMapped'
    BY <2>1, <2>2 DEF chanVars, mapVars, AllMapped, InHand
  <2> QED
    BY <1>1, <1>3, <2>3, <2>4, <2>5
<1>5. CASE Locate(l)
  <2>1. UNCHANGED <<pkt, chanVars, mapVars>> /\ rpc[l] = "locate" /\ pkt[l] \in Remote
    BY <1>5 DEF Locate, LoopRight
  <2>2. /\ rso' = [rso EXCEPT ![l] = locate(pkt[l])]
        /\ rpc'[l] = IF locate(pkt[l]) = None THEN "setup" ELSE "forward"
        /\ \A m \in Link : m # l => rpc'[m] = rpc[m] /\ rso'[m] = rso[m]
    BY <1>5 DEF Locate, LoopGoto, TypeOK
  <2>3. locate(pkt[l]) \in {None, socketMap[pkt[l]]} /\ locate(pkt[l]) \in Chan \cup {None}
    BY <2>1 DEF locate, TypeOK
  <2>4. TypeOK'
    BY <1>0, <1>2, <2>1, <2>2, <2>3 DEF linkVars, chanVars, mapVars, downVars, TypeOK
  <2>5. MapRight' /\ ChanRight'
    BY <1>0, <2>1 DEF chanVars, mapVars, MapRight, ChanRight
  <2>6. LoopRight'
    BY <2>1, <2>2, <2>3 DEF chanVars, LoopRight, MapRight, InHand, TypeOK
  <2>7. Quiet => AllMapped'
    BY <2>1, <2>2 DEF chanVars, mapVars, AllMapped, OneLoop, InHand, locate
  <2> QED
    BY <1>1, <1>3, <2>4, <2>5, <2>6, <2>7
<1>6. CASE setupSocket(l)
  <2>1. rpc[l] = "setup" /\ pkt[l] \in Remote /\ UNCHANGED <<pkt, mapVars>>
    BY <1>6 DEF setupSocket, LoopRight
  <2>2. CASE initialized
    <3>1. PICK c \in Chan :
            /\ chan[c] = "unused" /\ chan' = [chan EXCEPT ![c] = "open"]
            /\ peer' = [peer EXCEPT ![c] = pkt[l]] /\ via' = [via EXCEPT ![c] = l]
            /\ rso' = [rso EXCEPT ![l] = c] /\ rpc' = [rpc EXCEPT ![l] = "register"]
      BY <1>6, <2>2 DEF setupSocket, Unused, LoopGoto
    <3>2. TypeOK'
      BY <1>0, <2>1, <3>1 DEF linkVars, mapVars, downVars, TypeOK
    <3>3. LoopRight'
      BY <2>1, <3>1, NoneAssumption DEF LoopRight, TypeOK, InHand
    <3>4. MapRight' /\ ChanRight'
      <4>1. \A x \in Chan : chan[x] # "unused" => chan'[x] # "unused" /\ peer'[x] = peer[x]
        BY <3>1 DEF TypeOK
      <4>2. MapRight'
        BY <2>1, <4>1 DEF mapVars, MapRight, TypeOK
      <4>3. \A x \in Chan : chan'[x] # "unused" => peer'[x] \in Remote
        BY <2>1, <3>1 DEF ChanRight, TypeOK
      <4>4. \A k \in Caller \X Chan : kpc'[k] # "none" => chan'[k[2]] # "unused"
        BY <1>0, <4>1 DEF ChanRight
      <4> QED
        BY <4>2, <4>3, <4>4 DEF ChanRight
    <3>5. ASSUME Quiet PROVE AllMapped'
      <4>1. \A m \in Link : rpc'[m] \in {"setup"} \cup InHand => socketMap'[pkt'[m]] = None
        BY <2>1, <3>1, <3>5 DEF mapVars, AllMapped, InHand, TypeOK
      <4>2. ASSUME NEW x \in Chan, chan'[x] # "unused"
            PROVE  socketMap'[peer'[x]] = x \/ \E m \in Link : rpc'[m] \in InHand /\ rso'[m] = x
        <5>1. CASE x = c
          BY <3>1, <5>1 DEF TypeOK, InHand
        <5>2. CASE x # c
          <6>1. chan[x] # "unused" /\ peer'[x] = peer[x]
            BY <3>1, <4>2, <5>2 DEF TypeOK
          <6>2. ~\E m \in Link : rpc[m] \in InHand
            BY <1>2, <2>1, <3>5 DEF OneLoop, InHand
          <6> QED
            BY <2>1, <3>5, <6>1, <6>2 DEF mapVars, AllMapped
        <5> QED
          BY <5>1, <5>2
      <4> QED
        BY <4>1, <4>2 DEF AllMapped
    <3> QED
      BY <1>1, <1>3, <3>2, <3>3, <3>4, <3>5
  <2>3. CASE ~initialized
    <3>1. UNCHANGED <<rso, chanVars>> /\ rpc' = [rpc EXCEPT ![l] = "receive"]
      BY <1>6, <2>3 DEF setupSocket, LoopGoto
    <3>2. TypeOK'
      BY <1>0, <2>1, <3>1 DEF linkVars, chanVars, mapVars, downVars, TypeOK
    <3>3. LoopRight' /\ MapRight' /\ ChanRight'
      BY <1>0, <2>1, <3>1 DEF chanVars, mapVars, LoopRight, MapRight, ChanRight, InHand, TypeOK
    <3>4. ~Quiet
      BY <1>2, <2>3 DEF OneLoop
    <3> QED
      BY <1>1, <3>2, <3>3, <3>4
  <2> QED
    BY <2>2, <2>3
<1>7. CASE Register(l)
  <2>1. UNCHANGED <<pkt, rso, chanVars, mapVars>> /\ rpc[l] = "register"
    BY <1>7 DEF Register
  <2>2. rpc' = [rpc EXCEPT ![l] = IF isShutdown THEN "forward" ELSE "put"]
    BY <1>7 DEF Register, LoopGoto
  <2>3. TypeOK'
    BY <1>0, <2>1, <2>2 DEF linkVars, chanVars, mapVars, downVars, TypeOK
  <2>4. LoopRight' /\ MapRight' /\ ChanRight'
    BY <1>0, <2>1, <2>2 DEF chanVars, mapVars, LoopRight, MapRight, ChanRight, InHand, TypeOK
  <2>5. Quiet => AllMapped'
    BY <2>1, <2>2 DEF chanVars, mapVars, AllMapped, OneLoop, InHand, TypeOK
  <2> QED
    BY <1>1, <1>3, <2>3, <2>4, <2>5
<1>8. CASE RegisterPut(l)
  <2>1. /\ UNCHANGED <<pkt, rso, chanVars>> /\ rpc[l] = "put"
        /\ rpc' = [rpc EXCEPT ![l] = "forward"]
        /\ socketMap' = [socketMap EXCEPT ![pkt[l]] = rso[l]]
    BY <1>8 DEF RegisterPut, LoopGoto
  <2>2. pkt[l] \in Remote /\ rso[l] \in Chan /\ peer[rso[l]] = pkt[l] /\ chan[rso[l]] # "unused"
    BY <2>1, NoneAssumption DEF LoopRight, InHand
  <2>3. TypeOK'
    BY <1>0, <2>1, <2>2 DEF linkVars, chanVars, downVars, TypeOK
  <2>4. LoopRight' /\ ChanRight'
    BY <1>0, <2>1 DEF chanVars, LoopRight, ChanRight, InHand, TypeOK
  <2>5. MapRight'
    BY <2>1, <2>2 DEF chanVars, MapRight, TypeOK
  <2>6. ASSUME Quiet PROVE AllMapped'
    <3>1. \A m \in Link : m # l => rpc'[m] = "none"
      BY <1>2, <2>1, <2>6 DEF OneLoop, TypeOK
    <3>2. \A m \in Link : rpc'[m] \notin {"setup"} \cup InHand
      BY <2>1, <3>1 DEF InHand, TypeOK
    <3>3. ASSUME NEW x \in Chan, chan'[x] # "unused" PROVE socketMap'[peer'[x]] = x
      <4>1. chan[x] # "unused" /\ peer'[x] = peer[x] /\ peer[x] \in Remote
        BY <2>1, <3>3 DEF chanVars, ChanRight
      <4>2. CASE x = rso[l]
        BY <2>1, <2>2, <4>1, <4>2 DEF TypeOK
      <4>3. CASE x # rso[l]
        <5>1. socketMap[peer[x]] = x
          BY <1>2, <2>6, <4>1, <4>3 DEF AllMapped, OneLoop, InHand
        <5>2. socketMap[pkt[l]] = None
          BY <2>1, <2>6 DEF AllMapped, InHand
        <5> QED
          BY <2>1, <4>1, <5>1, <5>2, NoneAssumption DEF TypeOK
      <4> QED
        BY <4>2, <4>3
    <3> QED
      BY <3>2, <3>3 DEF AllMapped
  <2> QED
    BY <1>1, <1>3, <2>3, <2>4, <2>5, <2>6
<1>9. CASE Forward(l)
  <2>1. /\ UNCHANGED <<chanVars, mapVars>> /\ rpc[l] = "forward"
        /\ rpc' = [rpc EXCEPT ![l] = "receive"]
        /\ pkt' = [pkt EXCEPT ![l] = None] /\ rso' = [rso EXCEPT ![l] = None]
    BY <1>9 DEF Forward, LoopGoto
  <2>2. TypeOK'
    BY <1>0, <2>1 DEF linkVars, chanVars, mapVars, downVars, TypeOK
  <2>3. LoopRight' /\ MapRight' /\ ChanRight'
    BY <1>0, <2>1 DEF chanVars, mapVars, LoopRight, MapRight, ChanRight, InHand, TypeOK
  <2>4. Quiet => AllMapped'
    BY <2>1 DEF chanVars, mapVars, AllMapped, InHand, TypeOK
  <2> QED
    BY <1>1, <1>3, <2>2, <2>3, <2>4
<1> QED
  BY <1>4, <1>5, <1>6, <1>7, <1>8, <1>9 DEF LoopStep

(* close() and its task: a channel that exists is closed and stays in the map. *)
LEMMA CloseSteps ==
  ASSUME IInv,
         \/ \E u \in User, c \in Chan : close(u, c)
         \/ \E k \in Caller \X Chan : CloseStep(k)
  PROVE  IInv'
<1> USE DEF IInv
<1>0. UNCHANGED <<ipc, initialized, link, loopVars, peer, via, mapVars, spc, d>>
  BY DEF close, CloseStep, CloseNative, CloseLink, linkVars, chanVars, downVars
<1> DEFINE Kept ==
      /\ chan' \in [Chan -> {"unused", "open", "closed"}]
      /\ \A c \in Chan : chan'[c] = "unused" <=> chan[c] = "unused"
      /\ kpc' \in [Caller \X Chan -> {"none", "queued", "link", "resolved"}]
      /\ \A k \in Caller \X Chan : kpc'[k] # "none" => chan[k[2]] # "unused"
      /\ lnk' \in [Link -> {"unused", "open", "closed"}]
      /\ latch' \in [Down -> 0..Cardinality(Remote)]
<1>1. Kept
  <2>1. ASSUME NEW u \in User, NEW c \in Chan, close(u, c) PROVE Kept
    <3>1. <<u, c>> \in Caller \X Chan /\ <<u, c>>[2] = c
      BY DEF Caller
    <3>2. UNCHANGED <<chan, lnk, latch>> /\ chan[c] # "unused"
      BY <2>1 DEF close, linkVars, chanVars, downVars
    <3>3. kpc' = [kpc EXCEPT ![<<u, c>>] = "queued"]
      BY <2>1 DEF close
    <3>4. kpc' \in [Caller \X Chan -> {"none", "queued", "link", "resolved"}]
      BY <3>1, <3>3 DEF TypeOK
    <3>5. ASSUME NEW k \in Caller \X Chan, kpc'[k] # "none" PROVE chan[k[2]] # "unused"
      BY <3>1, <3>2, <3>3, <3>5 DEF TypeOK, ChanRight
    <3> QED
      BY <3>2, <3>4, <3>5 DEF TypeOK
  <2>2. ASSUME NEW k \in Caller \X Chan, CloseNative(k) PROVE Kept
    <3>1. k[2] \in Chan /\ chan[k[2]] # "unused" /\ UNCHANGED <<lnk, latch>>
      BY <2>2 DEF CloseNative, ChanRight, linkVars, downVars
    <3>2. /\ chan' \in [Chan -> {"unused", "open", "closed"}]
          /\ \A c \in Chan : chan'[c] = "unused" <=> chan[c] = "unused"
      BY <2>2, <3>1 DEF CloseNative, TypeOK
    <3>3. /\ kpc' \in [Caller \X Chan -> {"none", "queued", "link", "resolved"}]
          /\ \A j \in Caller \X Chan : kpc'[j] # "none" => chan[j[2]] # "unused"
      BY <2>2 DEF CloseNative, TypeOK, ChanRight
    <3> QED
      BY <3>1, <3>2, <3>3 DEF TypeOK
  <2>3. ASSUME NEW k \in Caller \X Chan, CloseLink(k) PROVE Kept
    <3>1. chan' = chan
      BY <2>3 DEF CloseLink, chanVars
    <3>2. /\ kpc' \in [Caller \X Chan -> {"none", "queued", "link", "resolved"}]
          /\ \A j \in Caller \X Chan : kpc'[j] # "none" => chan[j[2]] # "unused"
      BY <2>3 DEF CloseLink, TypeOK, ChanRight
    <3>3. lnk' \in [Link -> {"unused", "open", "closed"}]
      BY <2>3 DEF CloseLink, closeUdp, TypeOK
    <3>4. latch' \in [Down -> 0..Cardinality(Remote)]
      <4>1. Cardinality(Remote) \in Nat
        BY RemoteAssumption, FS_Product, FS_CardinalityType DEF Remote
      <4>2. CASE k[1] \in Down
        <5> DEFINE n == IF latch[k[1]] = 0 THEN 0 ELSE latch[k[1]] - 1
        <5>1. latch[k[1]] \in 0..Cardinality(Remote)
          BY <4>2 DEF TypeOK
        <5>2. n \in 0..Cardinality(Remote)
          BY <4>1, <5>1
        <5>3. latch' = [latch EXCEPT ![k[1]] = n]
          BY <2>3, <4>2 DEF CloseLink
        <5> QED
          BY <5>2, <5>3 DEF TypeOK
      <4>3. CASE k[1] \notin Down
        BY <2>3, <4>3 DEF CloseLink, TypeOK
      <4> QED
        BY <4>2, <4>3
    <3> QED
      BY <3>1, <3>2, <3>3, <3>4 DEF TypeOK
  <2> QED
    BY <2>1, <2>2, <2>3 DEF CloseStep
<1>2. TypeOK'
  BY <1>0, <1>1 DEF loopVars, mapVars, TypeOK
<1>3. LoopRight'
  BY <1>0, <1>1 DEF loopVars, LoopRight, TypeOK
<1>4. MapRight' /\ ChanRight'
  <2>1. \A k \in Caller \X Chan : k[2] \in Chan
    OBVIOUS
  <2> QED
    BY <1>0, <1>1, <2>1 DEF mapVars, MapRight, ChanRight, TypeOK
<1>5. Quiet' => OneLoop' /\ AllMapped'
  BY <1>0, <1>1 DEF loopVars, mapVars, Quiet, OneLoop, AllMapped
<1> QED
  BY <1>2, <1>3, <1>4, <1>5

(* shutdownAll: it leaves the channels and the loops alone; the map is only    *)
(* cleared, and from its first step on Quiet is over for good.                 *)
LEMMA DownSteps ==
  ASSUME IInv, NEW s \in Down, shutdownAll(s) \/ DownStep(s)
  PROVE  IInv'
<1> USE DEF IInv
<1>0. UNCHANGED <<ipc, link, loopVars, chanVars>>
  BY DEF shutdownAll, DownStep, DownLink, Freeze, Size, Iterate, Await, Clear, Thaw, Finish,
         Resolve, linkVars
<1>1. /\ spc' \in [Down -> {"none", "link", "freeze", "size", "iterate", "await", "clear", "thaw",
                            "finish", "resolve", "done", "died"}]
      /\ spc'[s] # "none"
  BY DEF shutdownAll, DownStep, DownLink, Freeze, Size, Iterate, Await, Clear, Thaw, Finish,
         Resolve, DownGoto, Reject, TypeOK
<1>2. d' \in [Down -> {"none", "pending", "resolved", "rejected"}]
  BY DEF shutdownAll, DownStep, DownLink, Freeze, Size, Iterate, Await, Clear, Thaw, Finish,
         Resolve, Reject, TypeOK
<1>3. lnk' \in [Link -> {"unused", "open", "closed"}]
  BY DEF shutdownAll, DownStep, DownLink, Freeze, Size, Iterate, Await, Clear, Thaw, Finish,
         Resolve, linkVars, closeUdp, TypeOK
<1>4. initialized' \in BOOLEAN /\ isShutdown' \in BOOLEAN
  BY Zenon DEF shutdownAll, DownStep, DownLink, Freeze, Size, Iterate, Await, Clear, Thaw, Finish,
         Resolve, linkVars, mapVars, TypeOK
<1>5. socketMap' = socketMap \/ socketMap' = [r \in Remote |-> None]
  BY DEF shutdownAll, DownStep, DownLink, Freeze, Size, Iterate, Await, Clear, Thaw, Finish,
         Resolve, mapVars
<1>6. latch' \in [Down -> 0..Cardinality(Remote)]
  <2>1. CASE Size(s)
    <3> DEFINE Used == {r \in Remote : socketMap[r] # None}
    <3>1. IsFiniteSet(Remote) /\ Used \in SUBSET Remote
      BY RemoteAssumption, FS_Product DEF Remote
    <3>2. Cardinality(Used) \in 0..Cardinality(Remote)
      BY <3>1, FS_Subset, FS_CardinalityType
    <3> QED
      BY <2>1, <3>2 DEF Size, TypeOK
  <2>2. CASE ~Size(s)
    BY <2>2 DEF shutdownAll, DownStep, DownLink, Freeze, Iterate, Await, Clear, Thaw, Finish,
                Resolve, TypeOK
  <2> QED
    BY <2>1, <2>2
<1>7. /\ kpc' \in [Caller \X Chan -> {"none", "queued", "link", "resolved"}]
      /\ \A k \in Caller \X Chan : kpc'[k] # "none" => chan[k[2]] # "unused"
  <2>1. CASE Iterate(s)
    <3>1. \A c \in Mapped : chan[c] # "unused"
      BY DEF Mapped, MapRight
    <3>2. \A k \in Caller \X Chan :
            kpc'[k] = IF k[1] = s /\ k[2] \in Mapped THEN "queued" ELSE kpc[k]
      BY <2>1 DEF Iterate
    <3>3. kpc' \in [Caller \X Chan -> {"none", "queued", "link", "resolved"}]
      BY <2>1 DEF Iterate, TypeOK
    <3> QED
      BY <3>1, <3>2, <3>3 DEF ChanRight
  <2>2. CASE ~Iterate(s)
    <3>1. kpc' = kpc
      BY <2>2 DEF shutdownAll, DownStep, DownLink, Freeze, Size, Await, Clear, Thaw, Finish, Resolve
    <3> QED
      BY <3>1 DEF TypeOK, ChanRight
  <2> QED
    BY <2>1, <2>2
<1>8. TypeOK'
  <2>1. socketMap' \in [Remote -> Chan \cup {None}]
    BY <1>5 DEF TypeOK
  <2> QED
    BY <1>0, <1>1, <1>2, <1>3, <1>4, <1>6, <1>7, <2>1 DEF loopVars, chanVars, TypeOK
<1>9. LoopRight' /\ MapRight' /\ ChanRight'
  BY <1>0, <1>5, <1>7 DEF loopVars, chanVars, LoopRight, MapRight, ChanRight
<1>10. ~Quiet'
  BY <1>1 DEF Quiet
<1> QED
  BY <1>8, <1>9, <1>10

LEMMA Stutter == IInv /\ UNCHANGED vars => IInv'
BY DEF vars, linkVars, loopVars, chanVars, mapVars, downVars, IInv, TypeOK, LoopRight, MapRight,
       ChanRight, Quiet, OneLoop, AllMapped

-----------------------------------------------------------------------------
(* What the receive loop, SctpMapper, close() and shutdownAll keep between     *)
(* them: packets are handed to the channel of their sender, and before the     *)
(* first shutdownAll a remote has one channel.                                 *)
THEOREM RoutingIsSafe == Spec => []RoutingSafe
<1>1. IInv /\ [Next]_vars => IInv'
  BY InitSteps, LoopSteps, CloseSteps, DownSteps, Stutter DEF Next
<1>2. ASSUME IInv PROVE RoutingSafe
  <2> USE <1>2 DEF IInv
  <2>1. RoutedToRemote
    BY NoneAssumption DEF LoopRight, RoutedToRemote, InHand
  <2>2. ASSUME Quiet,
               NEW b \in Chan, NEW c \in Chan,
               chan[b] # "unused", chan[c] # "unused", peer[b] = peer[c]
        PROVE  b = c
    <3>1. ASSUME NEW x \in Chan, NEW l \in Link, rpc[l] \in InHand, rso[l] = x
          PROVE  socketMap[peer[x]] = None
      BY <2>2, <3>1 DEF LoopRight, AllMapped
    <3>2. CASE socketMap[peer[b]] = b
      BY <2>2, <3>1, <3>2, NoneAssumption DEF AllMapped
    <3>3. CASE socketMap[peer[b]] # b
      <4>1. PICK l \in Link : rpc[l] \in InHand /\ rso[l] = b
        BY <2>2, <3>3 DEF AllMapped
      <4>2. socketMap[peer[c]] = None
        BY <2>2, <3>1, <4>1
      <4>3. PICK m \in Link : rpc[m] \in InHand /\ rso[m] = c
        BY <2>2, <4>2, NoneAssumption DEF AllMapped
      <4> QED
        BY <2>2, <4>1, <4>3 DEF OneLoop, InHand
    <3> QED
      BY <3>2, <3>3
  <2> QED
    BY <2>1, <2>2 DEF RoutingSafe, OneChannelPerRemote, Quiet
<1> QED
  BY InitIInv, <1>1, <1>2, PTL DEF Spec
===============================================================================
