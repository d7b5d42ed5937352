--------------------------- MODULE SctpChannelProofs ---------------------------
(***************************************************************************)
(* Proofs about SctpChannel, for any number of calls of connect(), close() *)
(* and send() and any number of usrsctp threads that notify: what the      *)
(* promises of connect() and close() tell the user is true.                *)
(***************************************************************************)
EXTENDS SctpChannel, TLAPS

(* Between the two halves of a listener of connect() its close() has been      *)
(* called if the notification asks for it.                                     *)
SettlesAfterClose ==
  \A n \in Ntf : npc[n] = "settle" => /\ nl[n] \in Conn
                                      /\ closesChannel(note[n]) => kpc[n] # "none"

(* A task of close() closes the native socket, then the link, then resolves.   *)
ClosesInOrder ==
  \A k \in Closer : /\ kpc[k] \in {"link", "resolved"} => native = "closed"
                    /\ kpc[k] = "resolved" => link = "closed"

(* The inductive invariant. *)
IInv == TypeOK /\ SettlesAfterClose /\ ForcedRejectIsClosing /\ ClosesInOrder

-----------------------------------------------------------------------------
(* What usrsctp sends is one of its notifications, and leaves the association  *)
(* in one of its states.                                                       *)
LEMMA NotifiesType ==
  ASSUME NEW e \in NotifiesWhile(assoc), TypeOK
  PROVE  /\ e \in Notification
         /\ AssocAfter(e) \in {"none", "connecting", "up", "down"}
<1>1. e \in Notification
  BY DEF NotifiesWhile, Notification, AssocState, AddrState, OtherType, TypeOK
<1>2. AssocAfter(e) \in {"none", "connecting", "up", "down"}
  BY DEF AssocAfter, TypeOK
<1> QED
  BY <1>1, <1>2

(* Settle changes the promise of one connect() only, and only if pending. *)
LEMMA SettleType ==
  ASSUME TypeOK, NEW c \in Conn,
         NEW v \in {"resolved", "rejected"}, NEW w \in {"io", "up", "forced", "timeout"},
         Settle(c, v, w)
  PROVE  /\ d' \in [Conn -> {"none", "pending", "resolved", "rejected"}]
         /\ why' \in [Conn -> {"none", "init", "io", "up", "forced", "timeout"}]
         /\ w # "forced" => \A x \in Conn : why'[x] = "forced" => why[x] = "forced"
BY DEF Settle, TypeOK

LEMMA InitIInv == Init => IInv
<1> SUFFICES ASSUME Init PROVE IInv
  OBVIOUS
<1>1. mapped \in BOOLEAN
  BY Zenon DEF Init
<1>2. note \in [Ntf -> Notification \cup {<<>>}]
  BY DEF Init
<1>3. TypeOK
  BY <1>1, <1>2 DEF Init, TypeOK
<1>4. SettlesAfterClose /\ ForcedRejectIsClosing /\ ClosesInOrder
  BY DEF Init, SettlesAfterClose, ForcedRejectIsClosing, ClosesInOrder
<1> QED
  BY <1>3, <1>4 DEF IInv

-----------------------------------------------------------------------------
(* The steps of connect() and of its timeout thread leave the notifications    *)
(* and the tasks of close() alone, and reject for reasons of their own.        *)
LEMMA ConnectSteps ==
  ASSUME IInv, NEW c \in Conn, connect(c) \/ ConnStep(c) \/ TimeoutStep(c)
  PROVE  IInv'
<1> USE DEF IInv
<1>1. UNCHANGED <<native, link, ntfVars, kpc, spc>>
  BY DEF connect, ConnStep, ConnectListener, ConnectRegister, ConnectNative, ConnectUnregister,
         ConnectReject, ConnectExecute, TimeoutStep, TimeoutCheck, TimeoutReject, chanVars
<1>2. SettlesAfterClose' /\ ClosesInOrder'
  BY <1>1 DEF ntfVars, SettlesAfterClose, ClosesInOrder
<1>3. ASSUME \A x \in Conn : why'[x] = "forced" => why[x] = "forced"
      PROVE  ForcedRejectIsClosing'
  BY <1>1, <1>3 DEF ForcedRejectIsClosing
<1>4. CASE connect(c)
  <2>1. TypeOK'
    BY <1>1, <1>4 DEF connect, ConnGoto, chanVars, ntfVars, TypeOK
  <2>2. \A x \in Conn : why'[x] = "forced" => why[x] = "forced"
    BY <1>4 DEF connect, TypeOK
  <2> QED
    BY <1>2, <1>3, <2>1, <2>2
<1>5. CASE ConnectListener(c)
  <2>1. TypeOK'
    BY <1>1, <1>5 DEF ConnectListener, ConnGoto, ntfVars, TypeOK
  <2> QED
    BY <1>2, <1>3, <1>5, <2>1 DEF ConnectListener
<1>6. CASE ConnectRegister(c)
  <2>1. mapped' \in BOOLEAN
    BY <1>6, Zenon DEF ConnectRegister
  <2>2. TypeOK'
    BY <1>1, <1>6, <2>1 DEF ConnectRegister, ConnGoto, ntfVars, TypeOK
  <2> QED
    BY <1>2, <1>3, <1>6, <2>2 DEF ConnectRegister
<1>7. CASE ConnectNative(c)
  <2>1. TypeOK'
    BY <1>1, <1>7 DEF ConnectNative, ConnGoto, ntfVars, TypeOK
  <2> QED
    BY <1>2, <1>3, <1>7, <2>1 DEF ConnectNative
<1>8. CASE ConnectUnregister(c)
  <2>1. mapped' \in BOOLEAN
    BY <1>8, Zenon DEF ConnectUnregister
  <2>2. TypeOK'
    BY <1>1, <1>8, <2>1 DEF ConnectUnregister, ConnGoto, ntfVars, TypeOK
  <2> QED
    BY <1>2, <1>3, <1>8, <2>2 DEF ConnectUnregister
<1>9. CASE ConnectReject(c)
  <2>1. TypeOK'
    BY <1>1, <1>9, SettleType DEF ConnectReject, ConnGoto, chanVars, ntfVars, TypeOK
  <2> QED
    BY <1>2, <1>3, <1>9, <2>1, SettleType DEF ConnectReject
<1>10. CASE ConnectExecute(c)
  <2>1. TypeOK'
    BY <1>1, <1>10 DEF ConnectExecute, ConnGoto, chanVars, ntfVars, TypeOK
  <2> QED
    BY <1>2, <1>3, <1>10, <2>1 DEF ConnectExecute
<1>11. CASE TimeoutCheck(c)
  <2>1. TypeOK'
    BY <1>1, <1>11 DEF TimeoutCheck, chanVars, ntfVars, TypeOK
  <2> QED
    BY <1>2, <1>3, <1>11, <2>1 DEF TimeoutCheck
<1>12. CASE TimeoutReject(c)
  <2>1. TypeOK'
    BY <1>1, <1>12, SettleType DEF TimeoutReject, chanVars, ntfVars, TypeOK
  <2> QED
    BY <1>2, <1>3, <1>12, <2>1, SettleType DEF TimeoutReject
<1> QED
  BY <1>4, <1>5, <1>6, <1>7, <1>8, <1>9, <1>10, <1>11, <1>12 DEF ConnStep, TimeoutStep

(* The steps of the usrsctp threads.  onSctpNotification, the first half of a  *)
(* listener, calls close() before NotificationSettles may reject.              *)
LEMMA NotifySteps ==
  ASSUME IInv, NEW n \in Ntf, Notify(n) \/ NtfStep(n)
  PROVE  IInv'
<1> USE DEF IInv
<1>0. n \in Closer
  BY DEF Closer
<1>1. CASE Notify(n)
  <2>1. PICK e \in NotifiesWhile(assoc) : /\ note' = [note EXCEPT ![n] = e]
                                          /\ assoc' = AssocAfter(e)
    BY <1>1 DEF Notify
  <2>2. e \in Notification /\ AssocAfter(e) \in {"none", "connecting", "up", "down"}
    BY NotifiesType
  <2>3. TypeOK'
    BY <1>1, <2>1, <2>2 DEF Notify, connVars, TypeOK
  <2>4. SettlesAfterClose' /\ ForcedRejectIsClosing' /\ ClosesInOrder'
    BY <1>1, <2>1 DEF Notify, connVars, TypeOK, SettlesAfterClose, ForcedRejectIsClosing,
                      ClosesInOrder
  <2> QED
    BY <2>3, <2>4
<1>2. CASE onSctpNotification(n)
  <2>1. kpc' \in [Closer -> {"none", "queued", "native", "link", "resolved", "died"}]
    BY <1>0, <1>2 DEF onSctpNotification, TypeOK
  <2>2. \A k \in Closer : kpc'[k] = kpc[k] \/ (k = n /\ kpc'[k] = "queued")
    BY <1>0, <1>2 DEF onSctpNotification, TypeOK
  <2>3. /\ latch' \in [Conn -> 0..1] /\ nl' \in [Ntf -> Conn \cup {"builder", "user"}]
        /\ npc' \in [Ntf -> {"idle", "run", "settle"}]
    BY <1>2 DEF onSctpNotification, TypeOK
  <2>4. note' \in [Ntf -> Notification \cup {<<>>}]
    BY <1>2 DEF onSctpNotification, TypeOK
  <2>5. TypeOK'
    BY <1>2, <2>1, <2>3, <2>4 DEF onSctpNotification, chanVars, TypeOK
  <2>6. ASSUME NEW x \in Ntf, npc'[x] = "settle"
        PROVE  nl'[x] \in Conn /\ (closesChannel(note'[x]) => kpc'[x] # "none")
    <3>1. CASE x = n
      <4>1. listener \in Conn
        BY <1>2, <2>6, <3>1 DEF onSctpNotification, TypeOK
      <4>2. nl'[n] = listener /\ note' = note
        BY <1>2, <4>1 DEF onSctpNotification, TypeOK
      <4>3. closesChannel(note[n]) => listenerCloses(n, listener)
        BY <4>1, ConnAssumption DEF listenerCloses
      <4>4. closesChannel(note[n]) => kpc'[n] = "queued"
        BY <1>0, <1>2, <4>3 DEF onSctpNotification, TypeOK
      <4> QED
        BY <3>1, <4>1, <4>2, <4>4
    <3>2. CASE x # n
      <4>1. npc[x] = "settle" /\ nl'[x] = nl[x] /\ note'[x] = note[x]
        BY <1>2, <2>6, <3>2 DEF onSctpNotification, TypeOK
      <4>2. kpc'[x] = kpc[x]
        BY <2>2, <3>2 DEF Closer
      <4> QED
        BY <4>1, <4>2 DEF SettlesAfterClose
    <3> QED
      BY <3>1, <3>2
  <2>7. ForcedRejectIsClosing'
    BY <1>2, <2>2 DEF onSctpNotification, ForcedRejectIsClosing, Closer
  <2>8. ClosesInOrder'
    BY <1>2, <2>2 DEF onSctpNotification, chanVars, ClosesInOrder
  <2> QED
    BY <2>5, <2>6, <2>7, <2>8 DEF SettlesAfterClose
<1>3. CASE NotificationSettles(n)
  <2>1. nl[n] \in Conn /\ (closesChannel(note[n]) => kpc[n] # "none")
    BY <1>3 DEF NotificationSettles, SettlesAfterClose
  <2>2. /\ d' \in [Conn -> {"none", "pending", "resolved", "rejected"}]
        /\ why' \in [Conn -> {"none", "init", "io", "up", "forced", "timeout"}]
        /\ ~closesChannel(note[n]) => \A x \in Conn : why'[x] = "forced" => why[x] = "forced"
    <3>1. CASE Settle(nl[n], "resolved", "up")
      BY <2>1, <3>1, SettleType
    <3>2. CASE closesChannel(note[n]) /\ Settle(nl[n], "rejected", "forced")
      BY <2>1, <3>2, SettleType
    <3>3. CASE UNCHANGED <<d, why>>
      BY <3>3 DEF TypeOK
    <3> QED
      BY <1>3, <3>1, <3>2, <3>3 DEF NotificationSettles
  <2>3. TypeOK'
    <3>1. note' \in [Ntf -> Notification \cup {<<>>}]
      BY <1>3 DEF NotificationSettles, TypeOK
    <3> QED
      BY <1>3, <2>2, <3>1 DEF NotificationSettles, chanVars, TypeOK
  <2>4. SettlesAfterClose'
    BY <1>3 DEF NotificationSettles, TypeOK, SettlesAfterClose
  <2>5. kpc' = kpc /\ ClosesInOrder'
    BY <1>3 DEF NotificationSettles, chanVars, ClosesInOrder
  <2>6. ForcedRejectIsClosing'
    BY <2>1, <2>2, <2>5 DEF ForcedRejectIsClosing
  <2> QED
    BY <2>3, <2>4, <2>5, <2>6
<1> QED
  BY <1>1, <1>2, <1>3 DEF NtfStep

(* The steps of a task of close(): the native socket, then the link. *)
LEMMA CloseSteps ==
  ASSUME IInv, NEW k \in Closer, close(k) \/ CloseStep(k)
  PROVE  IInv'
<1> USE DEF IInv
<1>1. UNCHANGED <<connVars, ntfVars, spc, mapped, listener>>
  BY DEF close, CloseStep, CloseLog, CloseNative, CloseLink, chanVars
<1>2. \A x \in Closer : kpc'[x] = kpc[x] \/ (x = k /\ kpc'[x] # "none")
  BY DEF close, CloseStep, CloseLog, CloseNative, CloseLink, KGoto, TypeOK
<1>3. TypeOK'
  <2>1. kpc' \in [Closer -> {"none", "queued", "native", "link", "resolved", "died"}]
    BY DEF close, CloseStep, CloseLog, CloseNative, CloseLink, KGoto, TypeOK
  <2>2. /\ native' \in {"open", "closed"} /\ link' \in {"open", "closed"}
        /\ assoc' \in {"none", "connecting", "up", "down"}
    BY DEF close, CloseStep, CloseLog, CloseNative, CloseLink, chanVars, TypeOK
  <2> QED
    BY <1>1, <2>1, <2>2 DEF connVars, ntfVars, TypeOK
<1>4. SettlesAfterClose' /\ ForcedRejectIsClosing'
  BY <1>1, <1>2 DEF connVars, ntfVars, SettlesAfterClose, ForcedRejectIsClosing, Closer
<1>5. ClosesInOrder'
  <2>1. CASE close(k) \/ CloseLog(k)
    BY <2>1 DEF close, CloseLog, KGoto, chanVars, TypeOK, ClosesInOrder
  <2>2. CASE CloseNative(k)
    BY <2>2 DEF CloseNative, KGoto, TypeOK, ClosesInOrder
  <2>3. CASE CloseLink(k)
    BY <2>3 DEF CloseLink, KGoto, TypeOK, ClosesInOrder
  <2> QED
    BY <2>1, <2>2, <2>3 DEF CloseStep
<1> QED
  BY <1>3, <1>4, <1>5

(* Steps that touch neither a promise of connect() nor a task of close(). *)
LEMMA OtherSteps ==
  ASSUME IInv,
         \/ \E x \in Send : send(x) \/ SendTask(x)
         \/ setNotificationListener
         \/ UNCHANGED vars
  PROVE  IInv'
<1> USE DEF IInv
<1>1. UNCHANGED <<assoc, native, link, mapped, connVars, ntfVars, kpc>>
  BY DEF send, SendTask, setNotificationListener, vars, chanVars
<1>2. TypeOK'
  <2>1. spc' \in [Send -> {"none", "queued", "resolved", "rejected", "died"}]
    BY DEF send, SendTask, setNotificationListener, vars, TypeOK
  <2>2. listener' \in Conn \cup {"builder", "user"}
    BY DEF send, SendTask, setNotificationListener, vars, chanVars, TypeOK
  <2> QED
    BY <1>1, <2>1, <2>2 DEF connVars, ntfVars, TypeOK
<1>3. SettlesAfterClose' /\ ForcedRejectIsClosing' /\ ClosesInOrder'
  BY <1>1 DEF connVars, ntfVars, SettlesAfterClose, ForcedRejectIsClosing, ClosesInOrder
<1> QED
  BY <1>2, <1>3

-----------------------------------------------------------------------------
(* For any calls and notifications in any order: a connect() that a            *)
(* notification rejected belongs to a channel that is being closed, and a      *)
(* close() that resolved has closed the native socket and the link.            *)
THEOREM PromisesAreTrue == Spec => []PromisesTrue
<1>1. IInv /\ [Next]_vars => IInv'
  BY ConnectSteps, NotifySteps, CloseSteps, OtherSteps DEF Next
<1>2. IInv => PromisesTrue
  BY DEF IInv, PromisesTrue, ClosesInOrder, CloseDoneMeansClosed
<1> QED
  BY InitIInv, <1>1, <1>2, PTL DEF Spec
===============================================================================
