------------------------------ MODULE SctpSocket ------------------------------
(***************************************************************************)
(* One SctpSocket (origin/SctpSocket.java) and its native counterpart      *)
(* (net_sctp4nat_Sctp.c), used by several Java threads at once: the pool   *)
(* threads that send, shut down and close, the receive thread of a link    *)
(* that feeds packets in, and the usrsctp thread that calls back.          *)
(*                                                                         *)
(* The native struct is protected by the readers-writers scheme of         *)
(* lockPtr, unlockPtr and closeNative.  A synchronized block that calls    *)
(* nothing is one step, taken when the monitor of the socket is free; the  *)
(* block of onSctpIn calls acceptNative, so there the monitor is held over *)
(* several steps.  Everything outside a synchronized block is a step of    *)
(* its own, so that every interleaving the code permits is a behaviour.    *)
(***************************************************************************)
EXTENDS Naturals, FiniteSets

CONSTANTS
  Thread,     \* the threads that call into the socket
  NoThread,   \* the owner of a free monitor
  MaxAssoc    \* bound: associations that peers may set up on the listening socket

ASSUME ThreadAssumption == IsFiniteSet(Thread) /\ NoThread \notin Thread
ASSUME MaxAssocAssumption == MaxAssoc \in Nat

VARIABLES
  closed,        \* field closed: "no", "written" (outside the monitor) or "visible"
  ptr,           \* whether field ptr is not 0
  ptrLockCount,  \* field ptrLockCount
  isAccepted,    \* field isAccepted
  monitor,       \* the owner of the socket's monitor, when held over several steps
  registered,    \* whether Sctp.sockets maps the pointer to this socket
  pc, op,        \* where each thread is, and in which operation
  accRes,        \* what the usrsctp_accept call of a thread returned
  struct,        \* the native struct: "live" or "freed"
  so,            \* struct->so: 0 is the original usrsctp socket, n the n-th accepted
  closedSo,      \* the usrsctp sockets on which usrsctp_close has been called
  mySo,          \* the value of struct->so that a native call has read
  role,          \* socket 0: "fresh", "listening" or "connected"
  pending,       \* associations waiting to be accepted on socket 0
  accepted       \* associations accepted so far

javaVars   == <<closed, ptr, ptrLockCount, isAccepted, monitor, registered>>
threadVars == <<pc, op, accRes, mySo>>
nativeVars == <<struct, so, closedSo, role, pending, accepted>>
vars       == <<javaVars, threadVars, nativeVars>>

(* Operations that lock the pointer around one native call. *)
ReaderOp == {"connect", "listen", "shutdown", "send", "onConnIn"}
Op       == ReaderOp \cup {"data", "close", "none"}

(* Program counters of a thread: in an operation, in a nested acceptNative. *)
OpPc  == {"lock", "native", "inCall", "unlock"}
AccPc == {"accLock", "accNative", "accCall", "accClose", "accSwap", "accUnlock",
          "accFree", "accRemove", "accDone"}
Pc    == {"idle", "closeSync", "sendArgs", "found", "free", "remove"} \cup OpPc \cup AccPc

(* The locks on ptr that a thread holds: one around the native call of its     *)
(* operation (<<t, "outer">>), one around a nested usrsctp_accept ("inner").   *)
HoldsOuter(t) ==
  \/ pc[t] \in {"native", "inCall", "unlock"}
  \/ op[t] = "onConnIn" /\ pc[t] \in {"found"} \cup AccPc
HoldsInner(t) == pc[t] \in {"accNative", "accCall", "accClose", "accSwap", "accUnlock"}
Holders ==
  {h \in Thread \X {"outer", "inner"} : IF h[2] = "outer" THEN HoldsOuter(h[1]) ELSE HoldsInner(h[1])}

-----------------------------------------------------------------------------
Init ==
  /\ closed = "no" /\ ptr = TRUE /\ ptrLockCount = 0
  /\ isAccepted = FALSE /\ monitor = NoThread /\ registered = TRUE
  /\ pc = [t \in Thread |-> "idle"] /\ op = [t \in Thread |-> "none"]
  /\ accRes = [t \in Thread |-> FALSE] /\ mySo = [t \in Thread |-> 0]
  /\ struct = "live" /\ so = 0 /\ closedSo = {}
  /\ role = "fresh" /\ pending = 0 /\ accepted = 0

Goto(t, l) == pc' = [pc EXCEPT ![t] = l]
Enter(t, o, l) == op' = [op EXCEPT ![t] = o] /\ Goto(t, l)
Return(t) == Enter(t, "none", "idle")

(* A monitor is reentrant. *)
MonitorNotReentrant(t) == monitor = NoThread
MonitorFree(t) == monitor \in {NoThread, t}

(* What a synchronized read of closed may return.  Between the unsynchronized  *)
(* write in closeNative and the synchronized block that follows it, the Java   *)
(* memory model lets other threads see either value.                           *)
ReadClosed == IF closed = "written" THEN BOOLEAN ELSE {closed = "visible"}

(* lockPtr returns the pointer instead of throwing an IOException. *)
lockPtrReturnsZero(c) == ~c
lockPtrReturns(c) == ~c /\ ptr

(* unlockPtr takes the pointer to close it. *)
unlockPtrIgnoresReaders(c) == c
unlockPtrNeverTakes(c) == FALSE
unlockPtrTakes(c) == c /\ ptrLockCount - 1 = 0

(* closeNative takes the pointer to close it. *)
closeNativeIgnoresReaders == TRUE
closeNativeTakes == ptrLockCount = 0

-----------------------------------------------------------------------------
(* connectNative, shutdownNative, onConnIn: straight to lockPtr.  The argument *)
(* checks of onConnIn throw before any state is touched.                       *)
Begin(t, o) ==
  /\ pc[t] = "idle" /\ Enter(t, o, "lock")
  /\ UNCHANGED <<javaVars, nativeVars, accRes, mySo>>
connectNative(t)  == Begin(t, "connect")
shutdownNative(t) == Begin(t, "shutdown")
onConnIn(t)       == Begin(t, "onConnIn")
BeginReader(t)    == connectNative(t) \/ shutdownNative(t) \/ onConnIn(t)

listenNative(t) ==
  /\ pc[t] = "idle" /\ MonitorFree(t)
  /\ isAccepted' = FALSE
  /\ Enter(t, "listen", "lock")
  /\ UNCHANGED <<closed, ptr, ptrLockCount, monitor, registered, accRes, mySo, nativeVars>>

(* sendNative reads isAccepted without the monitor. *)
sendNative(t) ==
  /\ pc[t] = "idle"
  /\ Enter(t, "send", IF isAccepted THEN "sendArgs" ELSE "accLock")
  /\ UNCHANGED <<javaVars, nativeVars, accRes, mySo>>

(* The offset and length checks of sendNative come after the accept. *)
SendArgs(t) ==
  /\ pc[t] = "sendArgs"
  /\ \/ Goto(t, "lock") /\ UNCHANGED op
     \/ Return(t)
  /\ UNCHANGED <<javaVars, nativeVars, accRes, mySo>>

(* Sctp.onSctpInboundPacket for a data chunk: Sctp.sockets finds the socket.   *)
(* It is called on a thread of usrsctp, or on the thread of an onConnIn inside *)
(* its usrsctp_conninput call, which releases the packet only afterwards.      *)
onSctpInboundPacket(t) ==
  /\ registered
  /\ \/ pc[t] = "idle" /\ Enter(t, "data", "found")
     \/ pc[t] = "native" /\ Enter(t, "onConnIn", "found") /\ op[t] = "onConnIn"
  /\ UNCHANGED <<javaVars, nativeVars, accRes, mySo>>

(* onSctpIn is over: back to the usrsctp thread, or into usrsctp_conninput. *)
LeaveOnSctpIn(t) ==
  IF op[t] = "onConnIn" THEN Goto(t, "inCall") /\ UNCHANGED op ELSE Return(t)

(* onSctpIn: accepts in the monitor unless isAccepted, then the data callback. *)
onSctpIn(t) ==
  /\ pc[t] = "found" /\ MonitorFree(t)
  /\ IF isAccepted
     THEN LeaveOnSctpIn(t) /\ UNCHANGED monitor
     ELSE monitor' = t /\ Goto(t, "accLock") /\ UNCHANGED op
  /\ UNCHANGED <<closed, ptr, ptrLockCount, isAccepted, registered, accRes, mySo, nativeVars>>

-----------------------------------------------------------------------------
(* lockPtr, for the native call of an operation. *)
LockPtrUncounted(t) ==
  /\ pc[t] = "lock" /\ MonitorFree(t) /\ ptr
  /\ Goto(t, "native")
  /\ UNCHANGED <<javaVars, op, accRes, mySo, nativeVars>>
LockPtr(t) ==
  /\ pc[t] = "lock" /\ MonitorFree(t)
  /\ \E c \in ReadClosed :
       IF lockPtrReturns(c)
       THEN ptrLockCount' = ptrLockCount + 1 /\ Goto(t, "native") /\ UNCHANGED op
       ELSE Return(t) /\ UNCHANGED ptrLockCount
  /\ UNCHANGED <<closed, ptr, isAccepted, monitor, registered, accRes, mySo, nativeVars>>

(* lockPtr in acceptNative: the IOException leaves sendNative or onSctpIn. *)
AccLockPtr(t) ==
  /\ pc[t] = "accLock" /\ MonitorFree(t)
  /\ \E c \in ReadClosed :
       IF lockPtrReturns(c)
       THEN /\ ptrLockCount' = ptrLockCount + 1
            /\ Goto(t, "accNative") /\ UNCHANGED <<op, monitor>>
       ELSE /\ UNCHANGED ptrLockCount
            /\ IF op[t] = "send" THEN Return(t) /\ UNCHANGED monitor
               ELSE monitor' = NoThread /\ LeaveOnSctpIn(t)
  /\ UNCHANGED <<closed, ptr, isAccepted, registered, accRes, mySo, nativeVars>>

(* The native call reads struct->so (usrsctp_conninput goes by the address of  *)
(* the struct instead) ...                                                     *)
NativeReadSo(t) ==
  /\ \/ pc[t] = "native" /\ Goto(t, "inCall")
     \/ pc[t] = "accNative" /\ Goto(t, "accCall")
  /\ mySo' = IF pc[t] = "native" /\ op[t] = "onConnIn" THEN mySo ELSE [mySo EXCEPT ![t] = so]
  /\ UNCHANGED <<javaVars, nativeVars, op, accRes>>

(* ... and works on it.  usrsctp_listen and usrsctp_connect change the socket  *)
(* they are called on, or fail; a packet may bring up an association of a      *)
(* listening socket.  The call is made in a try block whose finally unlocks.   *)
NativeCallNoFinally(t) ==
  /\ pc[t] = "inCall" /\ Return(t)
  /\ UNCHANGED <<javaVars, accRes, mySo, nativeVars>>
NativeCall(t) ==
  /\ pc[t] = "inCall"
  /\ Goto(t, "unlock")
  /\ \/ op[t] = "listen" /\ mySo[t] = 0 /\ role = "fresh"
          /\ role' = "listening" /\ UNCHANGED pending
     \/ op[t] = "connect" /\ mySo[t] = 0 /\ role = "fresh"
          /\ role' = "connected" /\ UNCHANGED pending
     \/ op[t] = "onConnIn" /\ role = "listening" /\ 0 \notin closedSo
          /\ accepted + pending < MaxAssoc
          /\ pending' = pending + 1 /\ UNCHANGED role
     \/ UNCHANGED <<role, pending>>
  /\ UNCHANGED <<javaVars, op, accRes, mySo, struct, so, closedSo, accepted>>

(* JNI usrsctp_accept: the accept itself, then usrsctp_close(struct->so), then *)
(* struct->so = the accepted socket.                                           *)
NativeAccept(t) ==
  /\ pc[t] = "accCall"
  /\ \/ /\ mySo[t] = 0 /\ role = "listening" /\ pending > 0
        /\ pending' = pending - 1 /\ accepted' = accepted + 1
        /\ mySo' = [mySo EXCEPT ![t] = accepted + 1]
        /\ accRes' = [accRes EXCEPT ![t] = TRUE]
        /\ Goto(t, "accClose")
     \/ /\ mySo[t] # 0 \/ role # "listening" \/ pending = 0 \/ 0 \in closedSo
        /\ accRes' = [accRes EXCEPT ![t] = FALSE]
        /\ Goto(t, "accUnlock") /\ UNCHANGED <<pending, accepted, mySo>>
  /\ UNCHANGED <<javaVars, op, struct, so, closedSo, role>>

NativeAcceptClose(t) ==
  /\ pc[t] = "accClose"
  /\ closedSo' = closedSo \cup {so}
  /\ Goto(t, "accSwap")
  /\ UNCHANGED <<javaVars, op, accRes, mySo, struct, so, role, pending, accepted>>

NativeAcceptSwap(t) ==
  /\ pc[t] = "accSwap"
  /\ so' = mySo[t]
  /\ Goto(t, "accUnlock")
  /\ UNCHANGED <<javaVars, op, accRes, mySo, struct, closedSo, role, pending, accepted>>

(* unlockPtr.  Its "Unbalanced" exception is unreachable: BalancedLocks. *)
UnlockPtr(t) ==
  /\ MonitorFree(t)
  /\ ptrLockCount' = ptrLockCount - 1
  /\ \E c \in ReadClosed :
       /\ ptr' = (ptr /\ ~unlockPtrTakes(c))
       /\ \/ /\ pc[t] = "unlock"
             /\ IF unlockPtrTakes(c) /\ ptr THEN Goto(t, "free") /\ UNCHANGED op ELSE Return(t)
          \/ /\ pc[t] = "accUnlock"
             /\ Goto(t, IF unlockPtrTakes(c) /\ ptr THEN "accFree" ELSE "accDone")
             /\ UNCHANGED op
  /\ UNCHANGED <<closed, isAccepted, monitor, registered, accRes, mySo, nativeVars>>

(* After acceptNative: sendNative stores its result, onSctpIn stores true. *)
AccDone(t) ==
  /\ pc[t] = "accDone"
  /\ IF op[t] = "send"
     THEN isAccepted' = accRes[t] /\ Goto(t, "sendArgs") /\ UNCHANGED <<op, monitor>>
     ELSE isAccepted' = TRUE /\ monitor' = NoThread /\ LeaveOnSctpIn(t)
  /\ UNCHANGED <<closed, ptr, ptrLockCount, registered, accRes, mySo, nativeVars>>

-----------------------------------------------------------------------------
(* closeNative: the unsynchronized write, then the synchronized block. *)
closeNative(t) ==
  /\ pc[t] = "idle"
  /\ closed' = IF closed = "no" THEN "written" ELSE closed
  /\ Enter(t, "close", "closeSync")
  /\ UNCHANGED <<ptr, ptrLockCount, isAccepted, monitor, registered, accRes, mySo, nativeVars>>

CloseSyncKeepsPtr(t) ==
  /\ pc[t] = "closeSync" /\ MonitorFree(t)
  /\ closed' = "visible"
  /\ IF closeNativeTakes /\ ptr THEN Goto(t, "free") /\ UNCHANGED op ELSE Return(t)
  /\ UNCHANGED <<ptr, ptrLockCount, isAccepted, monitor, registered, accRes, mySo, nativeVars>>

CloseSync(t) ==
  /\ pc[t] = "closeSync" /\ MonitorFree(t)
  /\ closed' = "visible"
  /\ ptr' = (ptr /\ ~closeNativeTakes)
  /\ IF closeNativeTakes /\ ptr THEN Goto(t, "free") /\ UNCHANGED op ELSE Return(t)
  /\ UNCHANGED <<ptrLockCount, isAccepted, monitor, registered, accRes, mySo, nativeVars>>

(* Sctp.closeSocket: JNI usrsctp_close, which closes struct->so and frees the  *)
(* struct, and then sockets.remove.                                            *)
closeSocket(t) ==
  /\ \/ pc[t] = "free" /\ Goto(t, "remove")
     \/ pc[t] = "accFree" /\ Goto(t, "accRemove")
  /\ struct' = "freed" /\ closedSo' = closedSo \cup {so}
  /\ UNCHANGED <<javaVars, op, accRes, mySo, so, role, pending, accepted>>

SocketsRemove(t) ==
  /\ \/ pc[t] = "remove" /\ Return(t)
     \/ pc[t] = "accRemove" /\ Goto(t, "accDone") /\ UNCHANGED op
  /\ registered' = FALSE
  /\ UNCHANGED <<closed, ptr, ptrLockCount, isAccepted, monitor, accRes, mySo, nativeVars>>

-----------------------------------------------------------------------------
(* What a thread does next inside the operation it is in. *)
Step(t) ==
  \/ SendArgs(t) \/ onSctpIn(t) \/ LockPtr(t) \/ AccLockPtr(t) \/ NativeReadSo(t)
  \/ NativeCall(t) \/ NativeAccept(t) \/ NativeAcceptClose(t) \/ NativeAcceptSwap(t) \/ UnlockPtr(t)
  \/ AccDone(t) \/ CloseSync(t) \/ closeSocket(t) \/ SocketsRemove(t)

Next == \E t \in Thread :
  \/ BeginReader(t) \/ listenNative(t) \/ sendNative(t) \/ closeNative(t)
  \/ onSctpInboundPacket(t) \/ Step(t)

Spec == Init /\ [][Next]_vars

(* A thread inside an operation keeps running, and a thread that waits for the *)
(* monitor gets it in the end (strong fairness: others may take it in between). *)
FairSpec == Spec /\ \A t \in Thread : SF_vars(Step(t))

-----------------------------------------------------------------------------
TypeOK ==
  /\ closed \in {"no", "written", "visible"} /\ ptr \in BOOLEAN
  /\ ptrLockCount \in Nat /\ isAccepted \in BOOLEAN
  /\ monitor \in Thread \cup {NoThread} /\ registered \in BOOLEAN
  /\ pc \in [Thread -> Pc] /\ op \in [Thread -> Op]
  /\ accRes \in [Thread -> BOOLEAN] /\ mySo \in [Thread -> Nat]
  /\ struct \in {"live", "freed"} /\ so \in Nat /\ closedSo \subseteq Nat
  /\ role \in {"fresh", "listening", "connected"} /\ pending \in Nat /\ accepted \in Nat

(* No native call runs on a freed struct: while any thread is between lockPtr  *)
(* and unlockPtr, whatever closers do, usrsctp_close has not freed the struct. *)
NoUseAfterFree == Holders # {} => struct = "live" /\ ptr

(* ptrLockCount counts exactly the lockPtr calls not yet balanced by an        *)
(* unlockPtr, so the "Unbalanced" RuntimeException is never thrown.            *)
BalancedLocks ==
  /\ ptrLockCount = Cardinality(Holders)
  /\ \A t \in Thread : pc[t] \in {"unlock", "accUnlock"} => ptrLockCount > 0

(* The pointer is taken at most once: one thread at a time is in closeSocket,  *)
(* and none once the struct is freed, so usrsctp_close runs at most once even  *)
(* when closers race each other and the last reader.                           *)
InFree(t) == pc[t] \in {"free", "accFree"}
FreedOnce ==
  /\ \A t, u \in Thread : InFree(t) /\ InFree(u) => t = u
  /\ \A t \in Thread : InFree(t) => struct = "live" /\ ~ptr

(* No leak: once closeNative has left its synchronized block and no reader is  *)
(* left, someone has taken the pointer; and closed never stays written without *)
(* a closer that is about to enter the block.                                  *)
NoLeak ==
  /\ closed = "visible" /\ ptrLockCount = 0 => ~ptr
  /\ closed = "written" => \E t \in Thread : pc[t] = "closeSync"

(* The comment in closeNative says closed "only ever changes from false to     *)
(* true"; with it, a socket whose pointer was taken never becomes usable again *)
(* and its struct is never live again.                                         *)
ClosedForGood ==
  [][/\ closed = "visible" => closed' = "visible"
     /\ ~ptr => ~ptr' /\ ptrLockCount' = 0
     /\ struct = "freed" => struct' = "freed"]_vars

(* Once closeNative has been called, the struct is freed and the socket leaves *)
(* Sctp.sockets in the end.                                                    *)
CloseReleases == closed # "no" ~> struct = "freed" /\ ~registered

(* Every call returns: no thread waits forever for the monitor that onSctpIn   *)
(* holds while it calls acceptNative, which locks the same monitor again.      *)
CallsReturn == \A t \in Thread : pc[t] # "idle" ~> pc[t] = "idle"

(* The abstract handle that the pointer, its lock count and closed implement. *)
Handle == INSTANCE NativeHandle WITH
  User    <- Thread \X {"outer", "inner"},
  phase   <- IF ptr THEN "open" ELSE IF struct = "live" THEN "retired" ELSE "freed",
  users   <- Holders,
  closing <- CASE closed = "no" -> "no" [] closed = "written" -> "asked" [] OTHER -> "seen"

(* lockPtr, unlockPtr and closeNative implement the handle: it is retired with *)
(* its last user, freed once, and never acquired after a close that is known.  *)
ImplementsHandle == Handle!Spec

(* The class comment says that acceptNative() is executed "on the first data   *)
(* packet sent or the first data packet received": no usrsctp_accept call ends *)
(* after the association has already been accepted.                            *)
AcceptNotRepeated ==
  [][\A t \in Thread : pc[t] = "accCall" /\ pc'[t] # "accCall" => accepted = 0]_vars

(* The constructor's comment says the scheme "protects the native socket       *)
(* pointer": no reader works on a usrsctp socket that has been closed.         *)
ReadersSocketOpen ==
  \A t \in Thread :
    (pc[t] = "accCall" \/ (pc[t] = "inCall" /\ op[t] # "onConnIn")) => mySo[t] \notin closedSo


(* The native struct and its locks, whatever the threads do: no native call    *)
(* on a freed struct, every lock counted, freed at most once and not forgotten. *)
LifetimeSafe == TypeOK /\ NoUseAfterFree /\ BalancedLocks /\ FreedOnce /\ NoLeak
===============================================================================
