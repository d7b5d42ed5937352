--------------------------------- MODULE Sctp ---------------------------------
(***************************************************************************)
(* The static side of the library (origin/Sctp.java and the JNI functions  *)
(* behind it): starting and finishing the usrsctp stack, creating and      *)
(* closing native sockets, and the map Sctp.sockets through which every    *)
(* callback of the stack finds its SctpSocket.  init and finish are        *)
(* synchronized on the one Sctp instance; createSocket, closeSocket and    *)
(* the callbacks are not, and run on any thread.                           *)
(***************************************************************************)
EXTENDS Integers

CONSTANTS
  Sock,       \* the sockets that are created, each at most once
  Addr,       \* the addresses malloc may return for a native struct
  None,       \* no socket, no address
  MaxEngine,  \* bound: engines running at a time
  MaxFinish   \* bound: calls of finish()

ASSUME NoneAssumption == None \notin Sock \cup Addr
ASSUME BoundAssumption == MaxEngine \in Nat /\ MaxFinish \in Nat

VARIABLES
  initialized,      \* Sctp.initialized
  sctpEngineCount,  \* Sctp.sctpEngineCount
  engines,          \* engines that called init() and not yet finish()
  sockets,          \* Sctp.sockets: address -> socket
  stack,            \* whether usrsctp is initialized (sctp_pcb_initialized)
  leaked,           \* whether a creation that failed half way left a usrsctp socket open
  addr,             \* the native pointer of each socket
  st,               \* the life of each socket
  finPc, count, ok, \* finish(): where it is, the retries, the result of usrsctp_finish
  cb                \* a callback on its way into Java: its socket and the pointer it carries

engineVars == <<initialized, sctpEngineCount, engines, stack, finPc, count, ok>>
sockVars   == <<sockets, leaked, addr, st, cb>>
stackVars  == <<engineVars, sockVars>>

(* A socket is allocated once usrsctp_socket has returned it, open once it is  *)
(* in the map, freed between usrsctp_close and sockets.remove, then gone.      *)
(* Creation ends early as refused (SctpInitException), nullPtr (createSocket   *)
(* returned null, the constructor of SctpChannel dereferences it) or noStack   *)
(* (nullPtr because usrsctp was not initialized any more).                     *)
Life == {"new", "checked", "allocated", "open", "freed", "gone", "refused", "nullPtr", "noStack"}

HasStruct(s) == st[s] \in {"allocated", "open"}
InUse == {addr[s] : s \in {x \in Sock : HasStruct(x)}}
OpenSo == leaked \/ \E s \in Sock : HasStruct(s)
NoCallback == [sock |-> None, addr |-> None]

StackInit ==
  /\ initialized = FALSE /\ sctpEngineCount = 0 /\ engines = 0
  /\ stack = "down" /\ leaked = FALSE
  /\ sockets = [a \in Addr |-> None]
  /\ addr = [s \in Sock |-> None] /\ st = [s \in Sock |-> "new"]
  /\ finPc = "idle" /\ count = 0 /\ ok = FALSE
  /\ cb = NoCallback

Become(s, l) == st' = [st EXCEPT ![s] = l]

-----------------------------------------------------------------------------
(* Sctp.init: it does not touch sctpEngineCount. *)
init ==
  /\ finPc = "idle" /\ engines < MaxEngine
  /\ engines' = engines + 1
  /\ stack' = IF initialized THEN stack ELSE "up"
  /\ initialized' = TRUE
  /\ UNCHANGED <<sctpEngineCount, finPc, count, ok, sockVars>>

(* Sctp.finish: the caller need not have called init (shutdownAll, the tests). *)
finish ==
  /\ finPc = "idle" /\ sctpEngineCount > -MaxFinish
  /\ sctpEngineCount' = sctpEngineCount - 1
  /\ engines' = IF engines > 0 THEN engines - 1 ELSE 0
  /\ finPc' = IF sctpEngineCount' > 0 THEN "idle" ELSE "loop"
  /\ count' = 0 /\ ok' = FALSE
  /\ UNCHANGED <<initialized, stack, sockVars>>

(* What one usrsctp_finish of the library does: it refuses while sockets are   *)
(* left, and may fail on its try-lock.                                         *)
usrsctpFinishIgnoresSockets == TRUE
usrsctpFinishCan == stack = "down" \/ ~OpenSo

(* JNI usrsctp_finish: up to five more tries; true if fewer were needed. *)
finishLoopEndless(c) == c
finishLoopCount(c) == c + 1
finishReturnsAlways(c) == TRUE
finishReturns(c) == c < 5

FinishTry ==
  /\ finPc = "loop" /\ usrsctpFinishCan
  /\ stack' = "down"
  /\ finPc' = "ret" /\ ok' = finishReturns(count)
  /\ UNCHANGED <<initialized, sctpEngineCount, engines, count, sockVars>>

FinishRetryOffByOne ==
  /\ finPc = "loop" /\ stack = "up"
  /\ IF count <= 5
     THEN count' = finishLoopCount(count) /\ UNCHANGED <<finPc, ok>>
     ELSE finPc' = "ret" /\ ok' = finishReturns(count) /\ UNCHANGED count
  /\ UNCHANGED <<initialized, sctpEngineCount, engines, stack, sockVars>>
FinishRetry ==
  /\ finPc = "loop" /\ stack = "up"
  /\ IF count < 5
     THEN count' = finishLoopCount(count) /\ UNCHANGED <<finPc, ok>>
     ELSE finPc' = "ret" /\ ok' = finishReturns(count) /\ UNCHANGED count
  /\ UNCHANGED <<initialized, sctpEngineCount, engines, stack, sockVars>>

(* The end of Sctp.finish: an IOException if usrsctp_finish returned false and *)
(* initialized is still set; initialized is reset in any case.                 *)
FinishThrows == ~ok /\ initialized
FinishEndKeepsInitialized ==
  /\ finPc = "ret" /\ finPc' = "idle"
  /\ UNCHANGED <<initialized, sctpEngineCount, engines, stack, count, ok, sockVars>>
FinishEnd ==
  /\ finPc = "ret" /\ finPc' = "idle"
  /\ initialized' = FALSE
  /\ UNCHANGED <<sctpEngineCount, engines, stack, count, ok, sockVars>>

-----------------------------------------------------------------------------
(* The constructor of SctpChannel checks isInitialized ... *)
SctpChannel(s) ==
  /\ st[s] = "new"
  /\ Become(s, IF initialized THEN "checked" ELSE "refused")
  /\ UNCHANGED <<engineVars, sockets, leaked, addr, cb>>

(* ... and calls createSocket.  JNI usrsctp_socket: a struct from malloc and a *)
(* usrsctp socket; when an option cannot be set only the struct is freed.      *)
usrsctp_socket(s) ==
  /\ st[s] = "checked"
  /\ \/ /\ stack = "up"
        /\ \E a \in Addr \ InUse :
             addr' = [addr EXCEPT ![s] = a] /\ Become(s, "allocated")
        /\ UNCHANGED leaked
     \/ /\ stack = "up"
        /\ leaked' = TRUE /\ Become(s, "nullPtr") /\ UNCHANGED addr
     \/ Become(s, IF stack = "up" THEN "nullPtr" ELSE "noStack") /\ UNCHANGED <<addr, leaked>>
  /\ UNCHANGED <<engineVars, sockets, cb>>

createSocket(s) ==
  /\ st[s] = "allocated"
  /\ sockets' = [sockets EXCEPT ![addr[s]] = s]
  /\ Become(s, "open")
  /\ UNCHANGED <<engineVars, leaked, addr, cb>>

(* Sctp.closeSocket, called once per socket: JNI usrsctp_close frees the       *)
(* struct, and then the entry under its address is removed.                    *)
Sctp_closeSocket(s) ==
  /\ st[s] = "open"
  /\ Become(s, "freed")
  /\ UNCHANGED <<engineVars, sockets, leaked, addr, cb>>

Sctp_removeForgotten(s) ==
  /\ st[s] = "freed" /\ Become(s, "gone")
  /\ UNCHANGED <<engineVars, sockets, leaked, addr, cb>>
Sctp_remove(s) ==
  /\ st[s] = "freed"
  /\ sockets' = [sockets EXCEPT ![addr[s]] = None]
  /\ Become(s, "gone")
  /\ UNCHANGED <<engineVars, leaked, addr, cb>>

-----------------------------------------------------------------------------
(* usrsctp calls back with the pointer of a socket (it drops its locks around  *)
(* the call, so that a close may overtake it) ...                              *)
CallBack(s) ==
  /\ st[s] = "open" /\ cb = NoCallback
  /\ cb' = [sock |-> s, addr |-> addr[s]]
  /\ UNCHANGED <<engineVars, sockets, leaked, addr, st>>

(* ... and onSctpInboundPacket looks the pointer up and notifies what it finds. *)
Found == sockets[cb.addr]
Sctp_onSctpInboundPacket ==
  /\ cb # NoCallback /\ cb' = NoCallback
  /\ UNCHANGED <<engineVars, sockets, leaked, addr, st>>

-----------------------------------------------------------------------------
FinishStep == FinishTry \/ FinishRetry \/ FinishEnd

StackNext ==
  \/ init \/ finish \/ FinishStep
  \/ Sctp_onSctpInboundPacket
  \/ \E s \in Sock : \/ SctpChannel(s) \/ usrsctp_socket(s) \/ createSocket(s)
                     \/ Sctp_closeSocket(s) \/ Sctp_remove(s) \/ CallBack(s)

StackSpec == StackInit /\ [][StackNext]_stackVars

-----------------------------------------------------------------------------
StackTypeOK ==
  /\ initialized \in BOOLEAN /\ sctpEngineCount \in -MaxFinish..0 /\ engines \in 0..MaxEngine
  /\ stack \in {"up", "down"} /\ leaked \in BOOLEAN
  /\ sockets \in [Addr -> Sock \cup {None}]
  /\ addr \in [Sock -> Addr \cup {None}] /\ st \in [Sock -> Life]
  /\ finPc \in {"idle", "loop", "ret"} /\ count \in 0..5 /\ ok \in BOOLEAN
  /\ cb \in [sock : Sock \cup {None}, addr : Addr \cup {None}]

(* usrsctp is never taken down under a native socket: however finish() races   *)
(* the creation of sockets, a stack that is down has none.                     *)
NoSocketWithoutStack == stack = "down" => ~OpenSo

(* Between calls of init() and finish(), initialized is never set without a    *)
(* running stack, also after a finish() that failed.                           *)
InitializedMeansUp == initialized /\ finPc = "idle" => stack = "up"

(* JNI usrsctp_finish returns true only if the stack released its resources.   *)
FinishTrueIsSound == finPc = "ret" /\ ok => stack = "down"

(* closeSocket leaves no entry of its socket behind, and an entry always lies  *)
(* under the pointer of the socket it names, although addresses are reused     *)
(* while a close is still between usrsctp_close and sockets.remove.            *)
NoDeadEntry ==
  \A a \in Addr : sockets[a] # None =>
    addr[sockets[a]] = a /\ st[sockets[a]] \in {"open", "freed"}

(* finish() returns: its retries are bounded. *)
FinishReturns == finPc # "idle" ~> finPc = "idle"

(* The comment on sockets: the "List of instantiated SctpSockets mapped by     *)
(* native pointer" has every open socket under its pointer.                    *)
RegisteredWhileOpen == \A s \in Sock : st[s] = "open" => sockets[addr[s]] = s

(* The same comment, for a callback: what onSctpInboundPacket finds under the  *)
(* pointer is the socket the callback is for, or nothing.                      *)
CallbackFindsOwner == cb # NoCallback => Found \in {cb.sock, None}

(* The comment on JNI usrsctp_finish: "true if stack successfully released     *)
(* resources".                                                                 *)
FinishReportsSuccess == finPc = "ret" /\ stack = "down" => ok

(* The comment on finish(): IOException "if usrsctp stack has failed to        *)
(* shutdown".                                                                  *)
FinishReportsFailure == finPc = "ret" /\ stack = "up" => FinishThrows

(* The comment on sctpEngineCount: finish() is effectively called only "when   *)
(* the last one is performing a shutdown".                                     *)
LastEngineFinishes == [][stack = "up" /\ stack' = "down" => engines = 0]_stackVars

(* The same comment: init() is effectively called only "when there are 0       *)
(* engines currently running", so usrsctp_init never hits a running stack.     *)
InitOnStoppedStack == [][initialized' /\ ~initialized => stack = "down"]_stackVars

(* The comment on build(): SctpInitException "if usrsctp was not initialized". *)
NotInitializedRefused == \A s \in Sock : st[s] # "noStack"

(* What init(), finish() and the sockets rely on: no socket on a stack that is *)
(* down, and initialized and the result of usrsctp_finish are true.            *)
StackSafe == StackTypeOK /\ NoSocketWithoutStack /\ InitializedMeansUp /\ FinishTrueIsSound
===============================================================================
