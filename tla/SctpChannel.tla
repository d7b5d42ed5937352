------------------------------ MODULE SctpChannel ------------------------------
(***************************************************************************)
(* One SctpChannel (core/SctpChannel.java) on the client side: connect()   *)
(* and its promise, the SctpTimeoutThread it starts, the notification      *)
(* listeners that usrsctp threads run, and the tasks of send() and close() *)
(* on the thread pool.  The native socket appears with what these need:    *)
(* its association, and whether closeNative has been called.               *)
(***************************************************************************)
EXTENDS SctpNotification

CONSTANTS
  Conn,       \* calls of connect()
  Ntf,        \* usrsctp threads that deliver notifications; each closes the channel at most once
  User,       \* calls of close() by the user
  Send,       \* calls of send()
  HasRemote   \* whether the channel was built with a remote address

ASSUME RemoteAssumption == HasRemote \in BOOLEAN
ASSUME ConnAssumption == Conn \cap {"builder", "user"} = {}

VARIABLES
  assoc,         \* the association of the native socket: "none", "connecting", "up", "down"
  native,        \* the native socket: "open" or "closed"
  link,          \* the NetworkLink of the channel: "open" or "closed"
  mapped,        \* whether SctpMapper.socketMap has the channel under its remote
  listener,      \* the installed listener: of a connect(), of the builder, of the user
  cpc, d, why,   \* connect(): where it is, its promise, what settled the promise
  latch, tmo,    \* the CountDownLatch of a connect(), where its SctpTimeoutThread is
  npc, note, nl, \* a notification thread: where it is, the notification, the listener it runs
  kpc,           \* the task of a close() call
  spc            \* the task of a send() call

connVars == <<cpc, d, why, latch, tmo>>
ntfVars  == <<npc, note, nl>>
chanVars == <<assoc, native, link, mapped, listener>>
vars     == <<chanVars, connVars, ntfVars, kpc, spc>>

Closer == Ntf \cup User

Init ==
  /\ assoc = "none" /\ native = "open" /\ link = "open" /\ mapped = FALSE
  /\ listener = "builder"
  /\ cpc = [c \in Conn |-> "idle"] /\ d = [c \in Conn |-> "none"]
  /\ why = [c \in Conn |-> "none"]
  /\ latch = [c \in Conn |-> 1] /\ tmo = [c \in Conn |-> "none"]
  /\ npc = [n \in Ntf |-> "idle"] /\ note = [n \in Ntf |-> <<>>]
  /\ nl = [n \in Ntf |-> "builder"]
  /\ kpc = [k \in Closer |-> "none"] /\ spc = [x \in Send |-> "none"]

(* Deferred.resolve and reject: an IllegalStateException unless pending. *)
Settle(c, v, w) ==
  IF d[c] = "pending"
  THEN d' = [d EXCEPT ![c] = v] /\ why' = [why EXCEPT ![c] = w]
  ELSE UNCHANGED <<d, why>>

ConnGoto(c, l) == cpc' = [cpc EXCEPT ![c] = l]

-----------------------------------------------------------------------------
(* connect(): rejected at once when Sctp is not initialized (any more) ... *)
connect(c) ==
  /\ cpc[c] = "idle"
  /\ \/ /\ ConnGoto(c, "listener")
        /\ d' = [d EXCEPT ![c] = "pending"] /\ UNCHANGED why
     \/ /\ ConnGoto(c, "returned")
        /\ d' = [d EXCEPT ![c] = "rejected"] /\ why' = [why EXCEPT ![c] = "init"]
  /\ UNCHANGED <<latch, tmo, chanVars, ntfVars, kpc, spc>>

(* ... else the listener is replaced, the remote registered, ... *)
ConnectListener(c) ==
  /\ cpc[c] = "listener" /\ ConnGoto(c, "register")
  /\ listener' = c
  /\ UNCHANGED <<assoc, native, link, mapped, d, why, latch, tmo, ntfVars, kpc, spc>>

ConnectRegister(c) ==
  /\ cpc[c] = "register" /\ ConnGoto(c, "native")
  /\ mapped' = TRUE
  /\ UNCHANGED <<assoc, native, link, listener, d, why, latch, tmo, ntfVars, kpc, spc>>

(* ... and connectNative called, which throws on a closed or used socket.      *)
ConnectNative(c) ==
  /\ cpc[c] = "native"
  /\ \/ /\ native = "open" /\ assoc = "none"
        /\ assoc' = "connecting" /\ ConnGoto(c, "execute")
     \/ ConnGoto(c, "unregister") /\ UNCHANGED assoc
  /\ UNCHANGED <<native, link, mapped, listener, d, why, latch, tmo, ntfVars, kpc, spc>>

(* catch (IOException e): unregister, then reject; a reject that throws leaves *)
(* connect() without a timeout thread.                                         *)
ConnectUnregister(c) ==
  /\ cpc[c] = "unregister" /\ ConnGoto(c, "reject")
  /\ mapped' = FALSE
  /\ UNCHANGED <<assoc, native, link, listener, d, why, latch, tmo, ntfVars, kpc, spc>>

ConnectReject(c) ==
  /\ cpc[c] = "reject"
  /\ Settle(c, "rejected", "io")
  /\ ConnGoto(c, IF d[c] = "pending" THEN "execute" ELSE "threw")
  /\ UNCHANGED <<latch, tmo, chanVars, ntfVars, kpc, spc>>

ConnectExecute(c) ==
  /\ cpc[c] = "execute" /\ ConnGoto(c, "returned")
  /\ tmo' = [tmo EXCEPT ![c] = "await"]
  /\ UNCHANGED <<d, why, latch, chanVars, ntfVars, kpc, spc>>

-----------------------------------------------------------------------------
(* SctpTimeoutThread: await ends by the latch or after five seconds, then the  *)
(* latch and the promise are checked, then the promise is rejected.            *)
timeoutIgnoresLatch(c) == d[c] = "pending"
timeoutNeverRejects(c) == latch[c] = 0 /\ d[c] = "pending"
timeoutRejects(c) == latch[c] > 0 /\ d[c] = "pending"

TimeoutCheck(c) ==
  /\ tmo[c] = "await"
  /\ tmo' = [tmo EXCEPT ![c] = IF timeoutRejects(c) THEN "reject" ELSE "done"]
  /\ UNCHANGED <<cpc, d, why, latch, chanVars, ntfVars, kpc, spc>>

TimeoutReject(c) ==
  /\ tmo[c] = "reject" /\ tmo' = [tmo EXCEPT ![c] = "done"]
  /\ Settle(c, "rejected", "timeout")
  /\ UNCHANGED <<cpc, latch, chanVars, ntfVars, kpc, spc>>

-----------------------------------------------------------------------------
(* The notifications of usrsctp, and what they mean for the association. *)
NotifiesWhile(a) ==
  CASE a = "connecting" -> {AssociationChange("COMM_UP"), AssociationChange("COMM_LOST"),
                            AssociationChange("CANT_STR_ASSOC"),
                            PeerAddressChange("ADDR_UNREACHABLE")}
    [] a = "up" -> {AssociationChange("COMM_LOST"), AssociationChange("SHUTDOWN_COMP"),
                    PeerAddressChange("ADDR_UNREACHABLE"), Event("SCTP_SHUTDOWN_EVENT")}
    [] OTHER -> {}
AssocAfterState(n) == IF Len(n) = 2 THEN n[2] ELSE assoc
AssocAfter(n) ==
  IF n = AssociationChange("COMM_UP") THEN "up"
  ELSE IF Len(n) = 2 /\ n[1] = "SCTP_ASSOC_CHANGE" THEN "down" ELSE assoc

Notify(n) ==
  /\ npc[n] = "idle" /\ native = "open"
  /\ \E e \in NotifiesWhile(assoc) :
       /\ closesChannel(e) => kpc[n] = "none"
       /\ note' = [note EXCEPT ![n] = e]
       /\ assoc' = AssocAfter(e)
  /\ npc' = [npc EXCEPT ![n] = "run"]
  /\ UNCHANGED <<native, link, mapped, listener, connVars, nl, kpc, spc>>

(* onNotification reads the listener and runs its first half: countDown() for  *)
(* COMM_UP, close() for the others.  The user's listener ignores all.          *)
listenerNeverCloses(n, l) == FALSE
listenerCloses(n, l) == l # "user" /\ closesChannel(note[n])

onSctpNotification(n) ==
  /\ npc[n] = "run"
  /\ nl' = IF listener \in Conn THEN [nl EXCEPT ![n] = listener] ELSE nl
  /\ note' = IF listener \in Conn THEN note ELSE [note EXCEPT ![n] = <<>>]
  /\ latch' = IF listener \in Conn /\ resolvesConnect(note[n])
              THEN [latch EXCEPT ![listener] = 0] ELSE latch
  /\ kpc' = IF listenerCloses(n, listener) THEN [kpc EXCEPT ![n] = "queued"] ELSE kpc
  /\ npc' = [npc EXCEPT ![n] = IF listener \in Conn THEN "settle" ELSE "idle"]
  /\ UNCHANGED <<chanVars, cpc, d, why, tmo, spc>>

(* The second half settles the promise of the connect() the listener belongs   *)
(* to.  The messages for ADDR_UNREACHABLE and COMM_LOST name the remote, and a *)
(* NullPointerException takes the place of the reject if there is none.        *)
NotificationSettles(n) ==
  LET m == note[n]
  IN  /\ npc[n] = "settle"
      /\ npc' = [npc EXCEPT ![n] = "idle"]
      /\ note' = [note EXCEPT ![n] = <<>>] /\ nl' = [nl EXCEPT ![n] = "builder"]
      /\ IF resolvesConnect(m) THEN Settle(nl[n], "resolved", "up")
         ELSE IF closesChannel(m) /\ (HasRemote \/ indexOf(m, "SHUTDOWN_COMP") >= 0)
         THEN Settle(nl[n], "rejected", "forced")
         ELSE UNCHANGED <<d, why>>
      /\ UNCHANGED <<cpc, latch, tmo, chanVars, kpc, spc>>

setNotificationListener ==
  /\ listener # "user" /\ listener' = "user"
  /\ UNCHANGED <<assoc, native, link, mapped, connVars, ntfVars, kpc, spc>>

-----------------------------------------------------------------------------
KGoto(k, l) == kpc' = [kpc EXCEPT ![k] = l]

(* close() queues a task ... *)
close(k) ==
  /\ k \in User /\ kpc[k] = "none" /\ KGoto(k, "queued")
  /\ UNCHANGED <<chanVars, connVars, ntfVars, spc>>

(* ... that logs the remote (the task dies without one), calls                 *)
(* mapper.unregister(this) and removePort, which remove nothing, ...           *)
CloseLog(k) ==
  /\ kpc[k] = "queued" /\ KGoto(k, IF HasRemote THEN "native" ELSE "died")
  /\ UNCHANGED <<chanVars, connVars, ntfVars, spc>>

(* ... closes the native socket, then the link, and then resolves the promise. *)
CloseNativeSkipsLink(k) ==
  /\ kpc[k] = "native" /\ KGoto(k, "resolved")
  /\ native' = "closed"
  /\ assoc' = IF assoc = "none" THEN assoc ELSE "down"
  /\ UNCHANGED <<link, mapped, listener, connVars, ntfVars, spc>>
CloseNative(k) ==
  /\ kpc[k] = "native" /\ KGoto(k, "link")
  /\ native' = "closed"
  /\ assoc' = IF assoc = "none" THEN assoc ELSE "down"
  /\ UNCHANGED <<link, mapped, listener, connVars, ntfVars, spc>>

CloseLink(k) ==
  /\ kpc[k] = "link" /\ KGoto(k, "resolved")
  /\ link' = "closed"
  /\ UNCHANGED <<assoc, native, mapped, listener, connVars, ntfVars, spc>>

(* send(): the task rejects its promise on an IOException (closed socket) and  *)
(* dies on the IllegalArgumentException for an offset or a length out of range. *)
send(x) ==
  /\ spc[x] = "none" /\ spc' = [spc EXCEPT ![x] = "queued"]
  /\ UNCHANGED <<chanVars, connVars, ntfVars, kpc>>

SendTask(x) ==
  /\ spc[x] = "queued"
  /\ \/ native = "open" /\ spc' = [spc EXCEPT ![x] = "resolved"]
     \/ native = "closed" /\ spc' = [spc EXCEPT ![x] = "rejected"]
     \/ spc' = [spc EXCEPT ![x] = "died"]
  /\ UNCHANGED <<chanVars, connVars, ntfVars, kpc>>

-----------------------------------------------------------------------------
ConnStep(c) ==
  \/ ConnectListener(c) \/ ConnectRegister(c) \/ ConnectNative(c) \/ ConnectUnregister(c)
  \/ ConnectReject(c) \/ ConnectExecute(c)
TimeoutStep(c) == TimeoutCheck(c) \/ TimeoutReject(c)
NtfStep(n)     == onSctpNotification(n) \/ NotificationSettles(n)
CloseStep(k)   == CloseLog(k) \/ CloseNative(k) \/ CloseLink(k)

Next ==
  \/ \E c \in Conn : connect(c) \/ ConnStep(c) \/ TimeoutStep(c)
  \/ \E n \in Ntf : Notify(n) \/ NtfStep(n)
  \/ \E k \in Closer : close(k) \/ CloseStep(k)
  \/ \E x \in Send : send(x) \/ SendTask(x)
  \/ setNotificationListener

Spec == Init /\ [][Next]_vars

(* Calls run to their end; the pool runs every task; the timeout elapses. *)
FairSpec ==
  /\ Spec
  /\ \A c \in Conn : WF_vars(ConnStep(c)) /\ WF_vars(TimeoutStep(c))
  /\ \A n \in Ntf : WF_vars(NtfStep(n))
  /\ \A k \in Closer : WF_vars(CloseStep(k))
  /\ \A x \in Send : WF_vars(SendTask(x))

-----------------------------------------------------------------------------
TypeOK ==
  /\ assoc \in {"none", "connecting", "up", "down"}
  /\ native \in {"open", "closed"} /\ link \in {"open", "closed"} /\ mapped \in BOOLEAN
  /\ listener \in Conn \cup {"builder", "user"}
  /\ cpc \in [Conn -> {"idle", "listener", "register", "native", "unregister", "reject",
                       "execute", "returned", "threw"}]
  /\ d \in [Conn -> {"none", "pending", "resolved", "rejected"}]
  /\ why \in [Conn -> {"none", "init", "io", "up", "forced", "timeout"}]
  /\ latch \in [Conn -> 0..1] /\ tmo \in [Conn -> {"none", "await", "reject", "done"}]
  /\ npc \in [Ntf -> {"idle", "run", "settle"}] /\ note \in [Ntf -> Notification \cup {<<>>}]
  /\ nl \in [Ntf -> Conn \cup {"builder", "user"}]
  /\ kpc \in [Closer -> {"none", "queued", "native", "link", "resolved", "died"}]
  /\ spc \in [Send -> {"none", "queued", "resolved", "rejected", "died"}]

(* A promise of connect() that a notification rejected belongs to a channel    *)
(* that is being closed: the listener calls close() before it rejects, so the  *)
(* user never learns of a failure while nobody releases the channel.           *)
ForcedRejectIsClosing ==
  (\E c \in Conn : why[c] = "forced") => \E k \in Ntf : kpc[k] # "none"

(* When the promise of close() resolves, the native socket and the link are    *)
(* closed, whichever of several racing close() tasks did it.                   *)
CloseDoneMeansClosed ==
  \A k \in Closer : kpc[k] = "resolved" => native = "closed" /\ link = "closed"

(* Every promise of connect() is settled in the end: by a notification, an     *)
(* IOException or the timeout, also when the listener has been replaced or its *)
(* resolve or reject throws.                                                   *)
ConnectSettles == \A c \in Conn : d[c] = "pending" ~> d[c] # "pending"

(* An answer in time beats the timeout: once COMM_UP has counted the latch     *)
(* down before SctpTimeoutThread looks at it, the timeout does not reject.     *)
AnswerBeatsTimeout ==
  \A c \in Conn :
    latch[c] = 0 /\ tmo[c] \in {"none", "await"} ~> why[c] \in {"up", "forced", "io"}

(* A connect() that usrsctp gives up on releases the channel: a promise that a *)
(* notification rejected is followed by closeNative and link.close.            *)
ForcedRejectReleases ==
  (\E c \in Conn : why[c] = "forced") ~> native = "closed" /\ link = "closed"

(* The comment on close(): "corresponding entries on SctpMapper and SctpPorts  *)
(* are also removed".                                                          *)
CloseUnmaps == \A k \in Closer : kpc[k] = "resolved" => ~mapped

(* The comment on socketMap: "The Map containing all active SctpChannels"; a   *)
(* channel is active from COMM_UP until it is closed.                          *)
ActiveIsMapped ==
  assoc = "up" /\ native = "open" /\ (\A c \in Conn : cpc[c] \in {"idle", "returned"}) => mapped

(* The comment on close(): "This method closes the underlying SctpSocket and   *)
(* releases its resources on usrsctp".                                         *)
CloseCloses == \A k \in Closer : kpc[k] = "queued" ~> native = "closed"

(* The comment on send(): its promise "fires a callback once send is executed". *)
SendSettles == \A x \in Send : spc[x] = "queued" ~> spc[x] \in {"resolved", "rejected"}

(* What the promises tell the user is true: a forced reject of connect() comes *)
(* with a close(), a resolved close() with a closed socket and link.           *)
PromisesTrue == TypeOK /\ ForcedRejectIsClosing /\ CloseDoneMeansClosed
===============================================================================
