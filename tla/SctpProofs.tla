------------------------------ MODULE SctpProofs ------------------------------
(***************************************************************************)
(* Proofs about Sctp, for every set of sockets and of addresses and every  *)
(* bound: StackSafe and NoDeadEntry.                                       *)
(***************************************************************************)
EXTENDS Sctp, TLAPS

(* A socket whose creation went past malloc has an address until it is gone, *)
(* and initialized is set on a stack that is down only in the short time     *)
(* between the usrsctp_finish that succeeded and the end of finish().        *)
AllocatedHasAddr == \A s \in Sock : st[s] \in {"allocated", "open", "freed"} => addr[s] \in Addr
InitializedUntilRet == initialized /\ finPc # "ret" => stack = "up"

(* The inductive invariant. *)
IInv ==
  /\ StackTypeOK /\ AllocatedHasAddr /\ InitializedUntilRet
  /\ NoSocketWithoutStack /\ FinishTrueIsSound /\ NoDeadEntry

-----------------------------------------------------------------------------
LEMMA InitIInv == StackInit => IInv
<1> SUFFICES ASSUME StackInit PROVE IInv
  OBVIOUS
<1>1. StackTypeOK
  <2>1. 0 \in -MaxFinish..0 /\ 0 \in 0..MaxEngine
    BY BoundAssumption
  <2>2. cb \in [sock : Sock \cup {None}, addr : Addr \cup {None}]
    BY DEF StackInit, NoCallback
  <2>3. initialized \in BOOLEAN /\ leaked \in BOOLEAN /\ ok \in BOOLEAN
    BY Zenon DEF StackInit
  <2>4. /\ stack \in {"up", "down"} /\ finPc \in {"idle", "loop", "ret"} /\ count \in 0..5
        /\ sctpEngineCount \in -MaxFinish..0 /\ engines \in 0..MaxEngine
        /\ sockets \in [Addr -> Sock \cup {None}]
        /\ addr \in [Sock -> Addr \cup {None}] /\ st \in [Sock -> Life]
    BY <2>1 DEF StackInit, Life
  <2> QED
    BY <2>2, <2>3, <2>4, Zenon DEF StackTypeOK
<1>2. AllocatedHasAddr /\ InitializedUntilRet /\ FinishTrueIsSound
  BY DEF StackInit, AllocatedHasAddr, InitializedUntilRet, FinishTrueIsSound
<1>3. NoSocketWithoutStack
  BY DEF StackInit, NoSocketWithoutStack, OpenSo, HasStruct
<1>4. NoDeadEntry
  BY DEF StackInit, NoDeadEntry
<1> QED
  BY <1>1, <1>2, <1>3, <1>4 DEF IInv

(* The steps of init() and finish(): they change nothing a socket has. *)
LEMMA EngineStep ==
  ASSUME IInv, init \/ finish \/ FinishStep
  PROVE  IInv'
<1> USE DEF IInv
<1>0. UNCHANGED sockVars
  BY DEF init, finish, FinishStep, FinishTry, FinishRetry, FinishEnd
<1>1. AllocatedHasAddr' /\ NoDeadEntry'
  BY <1>0 DEF sockVars, AllocatedHasAddr, NoDeadEntry
<1>2. OpenSo' <=> OpenSo
  BY <1>0 DEF sockVars, OpenSo, HasStruct
<1>3. CASE init
  <2>1. StackTypeOK'
    <3>1. engines' \in 0..MaxEngine
      BY <1>3, BoundAssumption DEF init, StackTypeOK
    <3> QED
      BY <1>0, <1>3, <3>1 DEF init, sockVars, StackTypeOK
  <2>2. InitializedUntilRet' /\ NoSocketWithoutStack' /\ FinishTrueIsSound'
    BY <1>2, <1>3 DEF init, StackTypeOK, InitializedUntilRet, NoSocketWithoutStack, FinishTrueIsSound
  <2> QED
    BY <1>1, <2>1, <2>2
<1>4. CASE finish
  <2>1. StackTypeOK'
    <3>1. sctpEngineCount' \in -MaxFinish..0 /\ engines' \in 0..MaxEngine
      BY <1>4, BoundAssumption DEF finish, StackTypeOK
    <3>2. initialized' \in BOOLEAN /\ leaked' \in BOOLEAN /\ ok' \in BOOLEAN
      BY <1>0, <1>4, Zenon DEF finish, sockVars, StackTypeOK
    <3>3. finPc' \in {"idle", "loop", "ret"} /\ count' \in 0..5
      BY <1>4 DEF finish
    <3> QED
      BY <1>0, <1>4, <3>1, <3>2, <3>3, Zenon DEF finish, sockVars, StackTypeOK
  <2>2. InitializedUntilRet' /\ NoSocketWithoutStack' /\ FinishTrueIsSound'
    BY <1>2, <1>4 DEF finish, StackTypeOK, InitializedUntilRet, NoSocketWithoutStack, FinishTrueIsSound
  <2> QED
    BY <1>1, <2>1, <2>2
<1>5. CASE FinishTry
  <2>1. StackTypeOK'
    BY <1>0, <1>5 DEF FinishTry, finishReturns, sockVars, StackTypeOK
  <2>2. InitializedUntilRet' /\ FinishTrueIsSound'
    BY <1>5 DEF FinishTry, InitializedUntilRet, FinishTrueIsSound
  <2>3. NoSocketWithoutStack'
    BY <1>2, <1>5 DEF FinishTry, usrsctpFinishCan, NoSocketWithoutStack
  <2> QED
    BY <1>1, <2>1, <2>2, <2>3
<1>6. CASE FinishRetry
  <2>1. StackTypeOK'
    <3>1. count' \in 0..5
      BY <1>6 DEF FinishRetry, finishLoopCount, StackTypeOK
    <3>2. ok' \in BOOLEAN
      <4>1. finishReturns(count) \in BOOLEAN
        BY DEF finishReturns, StackTypeOK
      <4> QED
        BY <1>6, <4>1, Zenon DEF FinishRetry, StackTypeOK
    <3>3. finPc' \in {"idle", "loop", "ret"}
      BY <1>6 DEF FinishRetry, StackTypeOK
    <3> QED
      BY <1>0, <1>6, <3>1, <3>2, <3>3, Zenon DEF FinishRetry, sockVars, StackTypeOK
  <2>2. InitializedUntilRet' /\ NoSocketWithoutStack' /\ FinishTrueIsSound'
    BY <1>2, <1>6 DEF FinishRetry, finishReturns, StackTypeOK, InitializedUntilRet,
                      NoSocketWithoutStack, FinishTrueIsSound
  <2> QED
    BY <1>1, <2>1, <2>2
<1>7. CASE FinishEnd
  <2>1. StackTypeOK'
    BY <1>0, <1>7 DEF FinishEnd, sockVars, StackTypeOK
  <2>2. InitializedUntilRet' /\ NoSocketWithoutStack' /\ FinishTrueIsSound'
    BY <1>2, <1>7 DEF FinishEnd, InitializedUntilRet, NoSocketWithoutStack, FinishTrueIsSound
  <2> QED
    BY <1>1, <2>1, <2>2
<1> QED
  BY <1>3, <1>4, <1>5, <1>6, <1>7 DEF FinishStep

(* The steps of the sockets and of the callbacks: init() and finish() see only *)
(* whether a native socket is left.                                            *)
LEMMA SocketStep ==
  ASSUME IInv, NEW s \in Sock,
         \/ SctpChannel(s) \/ usrsctp_socket(s) \/ createSocket(s)
         \/ Sctp_closeSocket(s) \/ Sctp_remove(s) \/ CallBack(s)
  PROVE  IInv'
<1> USE DEF IInv
<1>0. UNCHANGED engineVars
  BY DEF SctpChannel, usrsctp_socket, createSocket, Sctp_closeSocket, Sctp_remove, CallBack
<1>1. InitializedUntilRet' /\ FinishTrueIsSound'
  BY <1>0 DEF engineVars, InitializedUntilRet, FinishTrueIsSound
<1>2. CASE SctpChannel(s)
  <2>1. StackTypeOK'
    BY <1>0, <1>2 DEF SctpChannel, Become, engineVars, StackTypeOK, Life
  <2>2. AllocatedHasAddr' /\ NoDeadEntry'
    BY <1>2 DEF SctpChannel, Become, StackTypeOK, AllocatedHasAddr, NoDeadEntry
  <2>3. NoSocketWithoutStack'
    BY <1>0, <1>2 DEF SctpChannel, Become, engineVars, StackTypeOK, NoSocketWithoutStack, OpenSo, HasStruct
  <2> QED
    BY <1>1, <2>1, <2>2, <2>3
<1>3. CASE usrsctp_socket(s)
  <2>1. StackTypeOK'
    <3>1. leaked' \in BOOLEAN
      BY <1>3, Zenon DEF usrsctp_socket, StackTypeOK
    <3>2. addr' \in [Sock -> Addr \cup {None}] /\ st' \in [Sock -> Life]
      BY <1>3 DEF usrsctp_socket, Become, StackTypeOK, Life
    <3> QED
      BY <1>0, <1>3, <3>1, <3>2, Zenon DEF usrsctp_socket, engineVars, StackTypeOK
  <2>2. AllocatedHasAddr'
    BY <1>3 DEF usrsctp_socket, Become, StackTypeOK, AllocatedHasAddr
  <2>3. NoDeadEntry'
    BY <1>3, NoneAssumption DEF usrsctp_socket, Become, StackTypeOK, NoDeadEntry
  <2>4. NoSocketWithoutStack'
    BY <1>0, <1>3 DEF usrsctp_socket, Become, engineVars, StackTypeOK, NoSocketWithoutStack, OpenSo, HasStruct
  <2> QED
    BY <1>1, <2>1, <2>2, <2>3, <2>4
<1>4. CASE createSocket(s)
  <2>1. addr[s] \in Addr
    BY <1>4 DEF createSocket, AllocatedHasAddr
  <2>2. StackTypeOK'
    BY <1>0, <1>4, <2>1 DEF createSocket, Become, engineVars, StackTypeOK, Life
  <2>3. AllocatedHasAddr' /\ NoDeadEntry'
    BY <1>4, <2>1 DEF createSocket, Become, StackTypeOK, AllocatedHasAddr, NoDeadEntry
  <2>4. NoSocketWithoutStack'
    BY <1>0, <1>4 DEF createSocket, Become, engineVars, StackTypeOK, NoSocketWithoutStack, OpenSo, HasStruct
  <2> QED
    BY <1>1, <2>2, <2>3, <2>4
<1>5. CASE Sctp_closeSocket(s)
  <2>1. StackTypeOK'
    BY <1>0, <1>5 DEF Sctp_closeSocket, Become, engineVars, StackTypeOK, Life
  <2>2. AllocatedHasAddr' /\ NoDeadEntry'
    BY <1>5 DEF Sctp_closeSocket, Become, StackTypeOK, AllocatedHasAddr, NoDeadEntry
  <2>3. NoSocketWithoutStack'
    BY <1>0, <1>5 DEF Sctp_closeSocket, Become, engineVars, StackTypeOK, NoSocketWithoutStack, OpenSo, HasStruct
  <2> QED
    BY <1>1, <2>1, <2>2, <2>3
<1>6. CASE Sctp_remove(s)
  <2>1. addr[s] \in Addr
    BY <1>6 DEF Sctp_remove, AllocatedHasAddr
  <2>2. StackTypeOK'
    BY <1>0, <1>6, <2>1 DEF Sctp_remove, Become, engineVars, StackTypeOK, Life
  <2>3. AllocatedHasAddr'
    BY <1>6 DEF Sctp_remove, Become, StackTypeOK, AllocatedHasAddr
  <2>4. NoDeadEntry'
    (* s could only be found under its own pointer, and that entry is gone. *)
    BY <1>6, <2>1 DEF Sctp_remove, Become, StackTypeOK, NoDeadEntry
  <2>5. NoSocketWithoutStack'
    BY <1>0, <1>6 DEF Sctp_remove, Become, engineVars, StackTypeOK, NoSocketWithoutStack, OpenSo, HasStruct
  <2> QED
    BY <1>1, <2>2, <2>3, <2>4, <2>5
<1>7. CASE CallBack(s)
  <2>1. cb' \in [sock : Sock \cup {None}, addr : Addr \cup {None}]
    BY <1>7 DEF CallBack, StackTypeOK
  <2>2. StackTypeOK'
    BY <1>0, <1>7, <2>1 DEF CallBack, engineVars, StackTypeOK
  <2>3. AllocatedHasAddr' /\ NoDeadEntry' /\ NoSocketWithoutStack'
    BY <1>0, <1>7 DEF CallBack, engineVars, AllocatedHasAddr, NoDeadEntry,
                      NoSocketWithoutStack, OpenSo, HasStruct
  <2> QED
    BY <1>1, <2>2, <2>3
<1> QED
  BY <1>2, <1>3, <1>4, <1>5, <1>6, <1>7

(* What changes neither the engines nor a socket. *)
LEMMA OtherStep ==
  ASSUME IInv, Sctp_onSctpInboundPacket \/ UNCHANGED stackVars
  PROVE  IInv'
<1> USE DEF IInv
<1>1. UNCHANGED <<engineVars, sockets, leaked, addr, st>>
  BY DEF Sctp_onSctpInboundPacket, stackVars, sockVars
<1>2. cb' \in [sock : Sock \cup {None}, addr : Addr \cup {None}]
  BY DEF Sctp_onSctpInboundPacket, NoCallback, stackVars, sockVars, StackTypeOK
<1>3. StackTypeOK'
  BY <1>1, <1>2 DEF engineVars, StackTypeOK
<1>4. AllocatedHasAddr' /\ InitializedUntilRet' /\ NoSocketWithoutStack' /\ FinishTrueIsSound' /\ NoDeadEntry'
  BY <1>1 DEF engineVars, AllocatedHasAddr, InitializedUntilRet, NoSocketWithoutStack, OpenSo,
              HasStruct, FinishTrueIsSound, NoDeadEntry
<1> QED
  BY <1>3, <1>4

-----------------------------------------------------------------------------
(* The invariant holds in every reachable state. *)
LEMMA Invariance == StackSpec => []IInv
<1>1. IInv /\ [StackNext]_stackVars => IInv'
  BY EngineStep, SocketStep, OtherStep DEF StackNext
<1> QED
  BY InitIInv, <1>1, PTL DEF StackSpec

(* However init(), finish(), createSocket and closeSocket interleave, a stack  *)
(* that is down has no native socket, a set initialized means a running stack  *)
(* between calls, and a true usrsctp_finish means the stack is down.           *)
THEOREM StackSafety == StackSpec => []StackSafe
<1>1. IInv => StackSafe
  BY DEF IInv, StackSafe, InitializedUntilRet, InitializedMeansUp
<1> QED
  BY Invariance, <1>1, PTL

(* closeSocket removes what createSocket put into Sctp.sockets, although the   *)
(* address may belong to another socket by then.                               *)
THEOREM EntriesAreAlive == StackSpec => []NoDeadEntry
<1>1. IInv => NoDeadEntry
  BY DEF IInv
<1> QED
  BY Invariance, <1>1, PTL
===============================================================================
