------------------------------ MODULE SctpServer ------------------------------
(***************************************************************************)
(* The server side of a session: SctpUtils.init and shutdownAll, the       *)
(* receive loop of UdpServerLink, SctpMapper and its shutdown, and the     *)
(* close() tasks of the channels, all on the threads of one pool.          *)
(***************************************************************************)
EXTENDS Integers, FiniteSets

CONSTANTS
  Host, Port,  \* a remote is an address and a UDP port
  Chan,        \* bound: the channels that can be created
  Link,        \* bound: the UdpServerLinks that init() can create
  Down,        \* bound: calls of shutdownAll()
  User,        \* bound: those who close channels, each channel once
  None

ASSUME NoneAssumption == None \notin Chan \cup Link
ASSUME RemoteAssumption == IsFiniteSet(Host) /\ IsFiniteSet(Port)

VARIABLES
  ipc,            \* where a call of SctpUtils.init (static synchronized) is
  initialized,    \* Sctp.initialized
  link,           \* SctpUtils.link
  lnk,            \* each link: "unused", "open", "closed"
  rpc, pkt, rso,  \* its receive loop: where it is, the sender of the packet, the channel
  chan, peer, via,\* each channel: "unused", "open", "closed"; its remote; its link
  socketMap, isShutdown, \* SctpMapper
  kpc,            \* the task of the close() that the user, or a shutdown, calls on a channel
  spc, latch, d   \* shutdownAll: where it is, CountDownLatch of its mapper shutdown, promise

linkVars == <<ipc, initialized, link, lnk>>
loopVars == <<rpc, pkt, rso>>
chanVars == <<chan, peer, via>>
mapVars  == <<socketMap, isShutdown>>
downVars == <<spc, latch, d>>
vars     == <<linkVars, loopVars, chanVars, mapVars, kpc, downVars>>

Remote == Host \X Port
Caller == User \cup Down
Mapped == {socketMap[r] : r \in Remote} \ {None}

Init ==
  /\ ipc = "idle" /\ initialized = FALSE /\ link = None /\ lnk = [l \in Link |-> "unused"]
  /\ rpc = [l \in Link |-> "none"] /\ pkt = [l \in Link |-> None] /\ rso = [l \in Link |-> None]
  /\ chan = [c \in Chan |-> "unused"] /\ peer = [c \in Chan |-> None] /\ via = [c \in Chan |-> None]
  /\ socketMap = [r \in Remote |-> None] /\ isShutdown = FALSE
  /\ kpc = [k \in Caller \X Chan |-> "none"]
  /\ spc = [s \in Down |-> "none"]
  /\ latch = [s \in Down |-> 0] /\ d = [s \in Down |-> "none"]

-----------------------------------------------------------------------------
(* SctpUtils.init: Sctp.init(), ... *)
init ==
  /\ ipc = "idle" /\ ~initialized
  /\ ipc' = "link" /\ initialized' = TRUE
  /\ UNCHANGED <<link, lnk, loopVars, chanVars, mapVars, kpc, downVars>>

(* ... then a link, whose constructor starts the receive loop (the address may *)
(* be null or the UDP port taken: an exception leaves Sctp initialized), ...   *)
InitLink ==
  /\ ipc = "link"
  /\ \/ \E l \in Link :
          /\ lnk[l] = "unused" /\ lnk' = [lnk EXCEPT ![l] = "open"]
          /\ link' = l /\ rpc' = [rpc EXCEPT ![l] = "receive"] /\ ipc' = "thaw"
     \/ ipc' = "idle" /\ UNCHANGED <<link, lnk, rpc>>
  /\ UNCHANGED <<initialized, pkt, rso, chanVars, mapVars, kpc, downVars>>

(* ... then SctpMapper.setShutdown(false). *)
InitThaw ==
  /\ ipc = "thaw" /\ ipc' = "idle" /\ isShutdown' = FALSE
  /\ UNCHANGED <<initialized, link, lnk, loopVars, chanVars, socketMap, kpc, downVars>>

-----------------------------------------------------------------------------
LoopGoto(l, p) == rpc' = [rpc EXCEPT ![l] = p]

(* Bound: a packet arrives only while a channel is left for it. *)
Unused == {c \in Chan : chan[c] = "unused"}
InFlight == {l \in Link : rpc[l] \in {"locate", "setup"}}

(* udpSocket.receive: a packet, or an IOException once the socket is closed;   *)
(* then the loop ends, for close() sets isShutdown first.                      *)
ReceiveIgnoresClose(l) ==
  /\ rpc[l] = "receive" /\ Cardinality(Unused) > Cardinality(InFlight)
  /\ LoopGoto(l, "locate") /\ \E r \in Remote : pkt' = [pkt EXCEPT ![l] = r]
  /\ UNCHANGED <<rso, linkVars, chanVars, mapVars, kpc, downVars>>
Receive(l) ==
  /\ rpc[l] = "receive"
  /\ \/ /\ lnk[l] = "open" /\ Cardinality(Unused) > Cardinality(InFlight)
        /\ LoopGoto(l, "locate") /\ \E r \in Remote : pkt' = [pkt EXCEPT ![l] = r]
     \/ lnk[l] = "closed" /\ LoopGoto(l, "ended") /\ UNCHANGED pkt
  /\ UNCHANGED <<rso, linkVars, chanVars, mapVars, kpc, downVars>>

(* SctpMapper.locate(address, port): null while the mapper shuts down. *)
locateByPort(r) ==
  LET Hit == {q \in Remote : socketMap[q] # None /\ q[2] = r[2]}
  IN  IF isShutdown \/ Hit = {} THEN None ELSE socketMap[CHOOSE q \in Hit : TRUE]
locate(r) == IF isShutdown THEN None ELSE socketMap[r]

Locate(l) ==
  /\ rpc[l] = "locate"
  /\ rso' = [rso EXCEPT ![l] = locate(pkt[l])]
  /\ LoopGoto(l, IF locate(pkt[l]) = None THEN "setup" ELSE "forward")
  /\ UNCHANGED <<pkt, linkVars, chanVars, mapVars, kpc, downVars>>

(* setupSocket: build a channel on this link (any unused one, they are alike)  *)
(* and listen; SctpInitException when Sctp is not initialized.                 *)
setupSocket(l) ==
  /\ rpc[l] = "setup"
  /\ IF initialized
     THEN LET c == CHOOSE x \in Unused : TRUE
          IN  /\ Unused # {} /\ chan' = [chan EXCEPT ![c] = "open"]
              /\ peer' = [peer EXCEPT ![c] = pkt[l]] /\ via' = [via EXCEPT ![c] = l]
              /\ rso' = [rso EXCEPT ![l] = c] /\ LoopGoto(l, "register")
     ELSE LoopGoto(l, "receive") /\ UNCHANGED <<rso, chanVars>>
  /\ UNCHANGED <<pkt, linkVars, mapVars, kpc, downVars>>

(* SctpMapper.register checks isShutdown and then puts.  SctpMapper.shutdown   *)
(* does not take the monitor, so it can run in between.                        *)
RegisterForgets(l) ==
  /\ rpc[l] = "register" /\ LoopGoto(l, "forward")
  /\ UNCHANGED <<pkt, rso, linkVars, chanVars, mapVars, kpc, downVars>>
Register(l) ==
  /\ rpc[l] = "register"
  /\ LoopGoto(l, IF isShutdown THEN "forward" ELSE "put")
  /\ UNCHANGED <<pkt, rso, linkVars, chanVars, mapVars, kpc, downVars>>

RegisterPut(l) ==
  /\ rpc[l] = "put" /\ LoopGoto(l, "forward")
  /\ socketMap' = [socketMap EXCEPT ![pkt[l]] = rso[l]]
  /\ UNCHANGED <<pkt, rso, linkVars, chanVars, isShutdown, kpc, downVars>>

(* so.onConnIn: reaches usrsctp, or is logged when the channel is closed. *)
Forward(l) ==
  /\ rpc[l] = "forward" /\ LoopGoto(l, "receive")
  /\ pkt' = [pkt EXCEPT ![l] = None] /\ rso' = [rso EXCEPT ![l] = None]
  /\ UNCHANGED <<linkVars, chanVars, mapVars, kpc, downVars>>

-----------------------------------------------------------------------------
(* UdpServerLink.close: isShutdown, then udpSocket.close(). *)
closeUdp(l) == lnk' = [lnk EXCEPT ![l] = "closed"]

(* close() of a channel by its user, or by its notification listener. *)
close(u, c) ==
  /\ chan[c] # "unused" /\ kpc[<<u, c>>] = "none"
  /\ kpc' = [kpc EXCEPT ![<<u, c>>] = "queued"]
  /\ UNCHANGED <<linkVars, loopVars, chanVars, mapVars, downVars>>

(* The task: mapper.unregister(channel) removes nothing, as the map's keys are *)
(* addresses; closeNative; link.close(); resolve, whose callback counts down.  *)
CloseNative(k) ==
  /\ kpc[k] = "queued" /\ kpc' = [kpc EXCEPT ![k] = "link"]
  /\ chan' = [chan EXCEPT ![k[2]] = "closed"]
  /\ UNCHANGED <<linkVars, loopVars, peer, via, mapVars, downVars>>

CloseLinkUncapped(k) ==
  /\ kpc[k] = "link" /\ kpc' = [kpc EXCEPT ![k] = "resolved"]
  /\ closeUdp(via[k[2]])
  /\ latch' = IF k[1] \in Down THEN [latch EXCEPT ![k[1]] = @ - 1] ELSE latch
  /\ UNCHANGED <<ipc, initialized, link, loopVars, chanVars, mapVars, spc, d>>
CloseLink(k) ==
  /\ kpc[k] = "link" /\ kpc' = [kpc EXCEPT ![k] = "resolved"]
  /\ closeUdp(via[k[2]])
  /\ latch' = IF k[1] \in Down THEN [latch EXCEPT ![k[1]] = IF @ = 0 THEN 0 ELSE @ - 1] ELSE latch
  /\ UNCHANGED <<ipc, initialized, link, loopVars, chanVars, mapVars, spc, d>>

-----------------------------------------------------------------------------
DownGoto(s, p) == spc' = [spc EXCEPT ![s] = p]
(* d.reject: an IllegalStateException, which ends the task, unless pending. *)
Reject(s, next) ==
  /\ d' = [d EXCEPT ![s] = "rejected"]
  /\ DownGoto(s, IF d[s] = "pending" THEN next ELSE "died")

(* SctpUtils.shutdownAll: the task closes the link, ... *)
shutdownAll(s) ==
  /\ spc[s] = "none" /\ DownGoto(s, "link") /\ d' = [d EXCEPT ![s] = "pending"]
  /\ UNCHANGED <<linkVars, loopVars, chanVars, mapVars, kpc, latch>>

DownLink(s) ==
  /\ spc[s] = "link" /\ DownGoto(s, "freeze")
  /\ IF link = None THEN UNCHANGED lnk ELSE closeUdp(link)
  /\ UNCHANGED <<ipc, initialized, link, loopVars, chanVars, mapVars, kpc, latch, d>>

(* ... shuts the mapper down: isShutdown, socketMap.size(), close() on every   *)
(* entry, await, clear, ...                                                    *)
Freeze(s) ==
  /\ spc[s] = "freeze" /\ DownGoto(s, "size") /\ isShutdown' = TRUE
  /\ UNCHANGED <<linkVars, loopVars, chanVars, socketMap, kpc, latch, d>>

Size(s) ==
  /\ spc[s] = "size" /\ DownGoto(s, "iterate")
  /\ latch' = [latch EXCEPT ![s] = Cardinality({r \in Remote : socketMap[r] # None})]
  /\ UNCHANGED <<linkVars, loopVars, chanVars, mapVars, kpc, d>>

(* The iterator may or may not see an entry that is put while it runs: here it *)
(* sees the entries of one moment after size().                                *)
Iterate(s) ==
  /\ spc[s] = "iterate" /\ DownGoto(s, "await")
  /\ kpc' = [k \in Caller \X Chan |->
               IF k[1] = s /\ k[2] \in Mapped THEN "queued" ELSE kpc[k]]
  /\ UNCHANGED <<linkVars, loopVars, chanVars, mapVars, latch, d>>

AwaitForever(s) ==
  /\ spc[s] = "await" /\ latch[s] = 0 /\ DownGoto(s, "clear")
  /\ UNCHANGED <<linkVars, loopVars, chanVars, mapVars, kpc, latch, d>>
Await(s) ==
  /\ spc[s] = "await"
  /\ \/ latch[s] = 0 /\ DownGoto(s, "clear") /\ UNCHANGED d
     \/ latch[s] > 0 /\ Reject(s, "finish")   \* TimeoutException after CLOSE_TIMEOUT
  /\ UNCHANGED <<linkVars, loopVars, chanVars, mapVars, kpc, latch>>

Clear(s) ==
  /\ spc[s] = "clear" /\ DownGoto(s, "thaw")
  /\ socketMap' = [r \in Remote |-> None]
  /\ UNCHANGED <<linkVars, loopVars, chanVars, isShutdown, kpc, latch, d>>

Thaw(s) ==
  /\ spc[s] = "thaw" /\ DownGoto(s, "finish") /\ isShutdown' = FALSE
  /\ UNCHANGED <<linkVars, loopVars, chanVars, socketMap, kpc, latch, d>>

(* ... and calls Sctp.finish(), which cannot succeed while a socket is open    *)
(* and throws an IOException when it fails on an initialized stack.            *)
Finish(s) ==
  /\ spc[s] = "finish" /\ initialized' = FALSE
  /\ \/ (\A c \in Chan : chan[c] # "open") /\ DownGoto(s, "resolve") /\ UNCHANGED d
     \/ initialized /\ Reject(s, "resolve")
     \/ ~initialized /\ DownGoto(s, "resolve") /\ UNCHANGED d
  /\ UNCHANGED <<ipc, link, lnk, loopVars, chanVars, mapVars, kpc, latch>>

Resolve(s) ==
  /\ spc[s] = "resolve" /\ DownGoto(s, "done")
  /\ d' = [d EXCEPT ![s] = IF @ = "pending" THEN "resolved" ELSE @]
  /\ UNCHANGED <<linkVars, loopVars, chanVars, mapVars, kpc, latch>>

-----------------------------------------------------------------------------
LoopStep(l)  == Receive(l) \/ Locate(l) \/ setupSocket(l) \/ Register(l) \/ RegisterPut(l) \/ Forward(l)
CloseStep(k) == CloseNative(k) \/ CloseLink(k)
DownStep(s)  == DownLink(s) \/ Freeze(s) \/ Size(s) \/ Iterate(s) \/ Await(s) \/ Clear(s) \/ Thaw(s)
                  \/ Finish(s) \/ Resolve(s)

Next ==
  \/ init \/ InitLink \/ InitThaw
  \/ \E l \in Link : LoopStep(l)
  \/ \E u \in User, c \in Chan : close(u, c)
  \/ \E k \in Caller \X Chan : CloseStep(k)
  \/ \E s \in Down : shutdownAll(s) \/ DownStep(s)

Spec == Init /\ [][Next]_vars

(* The tasks of shutdownAll and of the receive loop go on once the pool has    *)
(* started them, and await times out.  Nothing is assumed of close() tasks, nor *)
(* of packets: a loop in receive on an open socket may wait for ever.          *)
FairSpec ==
  /\ Spec
  /\ \A l \in Link : WF_vars(LoopStep(l) /\ (rpc[l] = "receive" => lnk[l] = "closed"))
  /\ \A s \in Down : WF_vars(DownStep(s))

-----------------------------------------------------------------------------
TypeOK ==
  /\ ipc \in {"idle", "link", "thaw"} /\ initialized \in BOOLEAN /\ isShutdown \in BOOLEAN
  /\ link \in Link \cup {None} /\ lnk \in [Link -> {"unused", "open", "closed"}]
  /\ rpc \in [Link -> {"none", "receive", "locate", "setup", "register", "put", "forward", "ended"}]
  /\ pkt \in [Link -> Remote \cup {None}] /\ rso \in [Link -> Chan \cup {None}]
  /\ chan \in [Chan -> {"unused", "open", "closed"}]
  /\ peer \in [Chan -> Remote \cup {None}] /\ via \in [Chan -> Link \cup {None}]
  /\ socketMap \in [Remote -> Chan \cup {None}]
  /\ kpc \in [Caller \X Chan -> {"none", "queued", "link", "resolved"}]
  /\ spc \in [Down -> {"none", "link", "freeze", "size", "iterate", "await", "clear", "thaw",
                       "finish", "resolve", "done", "died"}]
  /\ latch \in [Down -> 0..Cardinality(Remote)]
  /\ d \in [Down -> {"none", "pending", "resolved", "rejected"}]

(* The receive loop hands a packet only to the channel of the remote that sent *)
(* it, whatever init, close and shutdown do to the mapper between its steps.   *)
RoutedToRemote ==
  \A l \in Link : rpc[l] \in {"register", "put", "forward"} =>
    rso[l] # None /\ peer[rso[l]] = pkt[l]

(* Until the first shutdownAll the receive loop creates at most one channel    *)
(* per remote: it locates, sets up and registers before the next packet.       *)
OneChannelPerRemote ==
  (\A s \in Down : spc[s] = "none") =>
    \A b, c \in Chan : chan[b] # "unused" /\ chan[c] # "unused" /\ peer[b] = peer[c] => b = c

(* Every shutdownAll() settles its promise, also when close() tasks it waits   *)
(* for never run or hang: await times out, and no later step can block.        *)
ShutdownSettles == \A s \in Down : d[s] = "pending" ~> d[s] # "pending"

(* The receive loop of a closed link ends and gives its pool thread back. *)
LoopEnds == \A l \in Link : lnk[l] = "closed" ~> rpc[l] = "ended"

(* The comment on SctpMapper.shutdown: "shuts down all remaining connections   *)
(* and closes them. Afterwards the socketMap is cleared."                      *)
ClearClosesAll ==
  [][\A s \in Down : Clear(s) => \A c \in Mapped : chan[c] = "closed"]_vars

(* The comment on UdpServerLink.close: "Do not call this method while other    *)
(* corresponding SctpSockets are still open!!!"                                *)
LinkClosedLast ==
  [][\A l \in Link : lnk[l] = "open" /\ lnk'[l] = "closed" =>
       \A c \in Chan : via[c] = l => chan[c] # "open"]_vars

(* The warning of register, unregister and locate: they do nothing "because    *)
(* SctpMapper is shutting down its connections!"                               *)
FrozenOnlyInShutdown ==
  isShutdown => \E s \in Down : spc[s] \in {"size", "iterate", "await", "clear", "thaw"}

(* Packets go to the channel of their sender, of which there is one.           *)
RoutingSafe == TypeOK /\ RoutedToRemote /\ OneChannelPerRemote
===============================================================================
