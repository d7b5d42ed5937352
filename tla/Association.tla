------------------------------ MODULE Association ------------------------------
(***************************************************************************)
(* The life of an SCTP association in usrsctp: the four-way handshake with *)
(* its state cookie, the collisions and restarts that                      *)
(* sctp_process_cookie_existing sorts out, the graceful and the abortive   *)
(* end, and the retransmission timer that INIT, COOKIE-ECHO, DATA,         *)
(* SHUTDOWN and SHUTDOWN-ACK share.  Two hosts, at most one control block  *)
(* (TCB) on each, and a network that loses, duplicates and reorders.       *)
(*                                                                         *)
(* A verification tag stands for itself and for the initial TSN drawn with *)
(* it; `nonce' for the two tie tags sctp_init_asoc draws once per TCB.     *)
(* A packet is one control chunk; a COOKIE-ECHO may bundle one DATA chunk. *)
(* DATA is counted, not carried: message k is the k-th of its TCB.         *)
(***************************************************************************)
EXTENDS Integers, FiniteSets

CONSTANTS Nodes,      \* the two hosts
          None,       \* no TCB, no cookie, no notification
          Server,     \* the host that may listen
          Senders,    \* bound: the hosts whose application sends
          MaxTag,     \* bound: verification tags drawn
          MaxMsg,     \* bound: messages sent by one TCB
          MaxRtx,     \* max_init_times = max_send_times
          MaxNet,     \* bound: packets in flight; one sent beyond it is lost
          MaxEvent    \* bound: TCBs created, calls of shutdown and close, packets
                      \* duplicated, hosts crashed, cookies expired, secrets changed, all together

Opening      == {"COOKIE_WAIT", "COOKIE_ECHOED"}
Established  == {"OPEN", "SHUTDOWN_RECEIVED", "SHUTDOWN_SENT", "SHUTDOWN_ACK_SENT"}
TimerType    == {"none", "INIT", "COOKIE", "SEND", "SHUTDOWN", "SHUTDOWNACK"}
Notification == {"COMM_UP", "RESTART", "CANT_STR_ASSOC", "COMM_LOST", "SHUTDOWN_COMP"}

(* State cookies and TCBs, whatever the bounds. *)
Cookie == [my : Nat, peer : Nat, tie : Nat, secret : Nat]
Tcb    == [state : Opening \cup Established, pending : BOOLEAN, closed : BOOLEAN,
           my : Nat, peer : Nat, nonce : Nat, rxt : TimerType, guard : BOOLEAN,
           echo : Cookie \cup {None}, queued : Nat, sent : Nat, acked : Nat,
           rcvd : Nat, err : Nat, stale : Nat, restarted : BOOLEAN]

ASSUME AssociationConstants ==
  /\ (\E a, b \in Nodes : a # b /\ Nodes = {a, b}) /\ Server \in Nodes /\ Senders \subseteq Nodes
  /\ None \notin Nodes \cup Tcb \cup Cookie \cup Notification
  /\ {MaxTag, MaxMsg, MaxRtx, MaxNet, MaxEvent} \subseteq Nat

VARIABLES tcb,      \* the TCB of each host, or None
          ep,       \* its endpoint: "listen", "idle" (bound, not listening) or "gone"
          told,     \* the last association change its application was told
          secret,   \* current and last cookie secret
          net,      \* packets in flight
          expired,  \* cookies past their life
          past,     \* history: the tags of TCBs that have ended
          used      \* how much of each bound is spent

vars == <<tcb, ep, told, secret, net, expired, past, used>>

(* The bound leaves room for k more events. *)
Within(k) == used.tcb + used.event + k <= MaxEvent

Peer(n) == CHOOSE m \in Nodes : m # n

(* sctp_init_asoc: a TCB with its tag, no peer tag yet, and its own tie tags. *)
sctp_init_asoc(my) ==
  [state |-> "COOKIE_WAIT", pending |-> FALSE, closed |-> FALSE, my |-> my, peer |-> 0,
   nonce |-> used.tcb + 1, rxt |-> "none", guard |-> FALSE, echo |-> None,
   queued |-> 0, sent |-> 0, acked |-> 0, rcvd |-> 0, err |-> 0, stale |-> 0,
   restarted |-> FALSE]

(* What is on the stream, send or sent queue. *)
HasOutput(t) == t.queued > 0 \/ t.sent > t.acked

(* ------------------------------- packets -------------------------------- *)
Packet(n, type, vtag) ==
  [to |-> Peer(n), type |-> type, vtag |-> vtag, reflected |-> FALSE,
   tag |-> 0, cookie |-> None, msg |-> 0]

sctp_send_initiate(n, t)     == [Packet(n, "INIT", 0) EXCEPT !.tag = t.my]
sctp_send_cookie_echo(n, t)  == [Packet(n, "COOKIE_ECHO", t.peer) EXCEPT !.cookie = t.echo]
sctp_send_cookie_ack(n, t)   == Packet(n, "COOKIE_ACK", t.peer)
sctp_send_shutdown(n, t)     == [Packet(n, "SHUTDOWN", t.peer) EXCEPT !.msg = t.rcvd]
sctp_send_shutdown_ack(n, t) == Packet(n, "SHUTDOWN_ACK", t.peer)
sctp_send_sack(n, t)         == [Packet(n, "SACK", t.peer) EXCEPT !.msg = t.rcvd]
sctp_send_abort_tcb(n, t)    == Packet(n, "ABORT", t.peer)
DataChunk(n, t, k)           == [Packet(n, "DATA", t.peer) EXCEPT !.tag = t.my, !.msg = k]

(* The replies that carry the tag of the packet they answer, and the T bit.   *)
(* An ABORT that answers an INIT carries the INIT's own tag instead.          *)
Reflect(n, type, p) == [Packet(n, type, p.vtag) EXCEPT !.reflected = TRUE]
sctp_send_shutdown_complete(n, t, p) ==
  IF t.state \in Opening THEN Reflect(n, "SHUTDOWN_COMPLETE", p)
                         ELSE Packet(n, "SHUTDOWN_COMPLETE", t.peer)
sctp_send_shutdown_complete2(n, p) == Reflect(n, "SHUTDOWN_COMPLETE", p)
sctp_send_abort(n, p) ==
  IF p.type = "INIT" THEN Packet(n, "ABORT", p.tag) ELSE Reflect(n, "ABORT", p)

(* sctp_handle_ootb, and the same cases of sctp_common_input_processing when   *)
(* no endpoint is bound to the port.                                          *)
sctp_handle_ootb(n, p) ==
  CASE p.type \in {"ABORT", "SHUTDOWN_COMPLETE"} -> {}
    [] p.type = "SHUTDOWN_ACK"                   -> {sctp_send_shutdown_complete2(n, p)}
    [] OTHER                                     -> {sctp_send_abort(n, p)}

(* -------------------------------- timers -------------------------------- *)
(* The five types share net->rxt_timer: a start finds it pending and returns, *)
(* a stop of another type does nothing.                                       *)
sctp_timer_start(t, type) == IF t.rxt = "none" THEN [t EXCEPT !.rxt = type] ELSE t
sctp_timer_stop(t, type)  == IF t.rxt = type THEN [t EXCEPT !.rxt = "none"] ELSE t
sctp_stop_all_cookie_timers(t) ==
  IF t.rxt \in {"INIT", "COOKIE"} THEN [t EXCEPT !.rxt = "none"] ELSE t
StartSendTimer(t) == IF t.sent > t.acked THEN sctp_timer_start(t, "SEND") ELSE t
GuardIfPending(t) == [t EXCEPT !.guard = @ \/ t.pending]
sctp_toss_old_cookies(t) == [t EXCEPT !.echo = None]

(* ------------------------------- outcomes ------------------------------- *)
(* What a handler leaves: the TCB, the packets it sends, and the association  *)
(* change it reports (None: nothing to report).                               *)
Result(t, out)       == [tcb |-> t, out |-> out, say |-> None]
Told(r, what)        == [r EXCEPT !.say = IF r.tcb # None /\ r.tcb.closed THEN None ELSE what]
Ignored(t)           == Result(t, {})
(* sctp_free_assoc *)
sctp_free_assoc(t, out, what) ==
  [tcb |-> None, out |-> out, say |-> IF t.closed THEN None ELSE what]

(* sctp_notify_assoc_change, as sctp_abort_notification asks for it. *)
sctp_abort_notification(t) == IF t.state \in Opening THEN "CANT_STR_ASSOC" ELSE "COMM_LOST"

sctp_abort_an_association(n, t) ==
  sctp_free_assoc(t, {sctp_send_abort_tcb(n, t)}, sctp_abort_notification(t))

(* Mutant: the limit is not applied. *)
NoThreshold(n, t, next) == next

(* sctp_threshold_management: one more error, and the abort beyond the limit. *)
sctp_threshold_management(n, t, next) ==
  IF t.err + 1 > MaxRtx THEN sctp_abort_an_association(n, t)
  ELSE next

(* sctp_chunk_output, at the end of every input and of every send: what is    *)
(* queued goes out once data may be sent.                                     *)
sctp_chunk_output(n, r) ==
  IF r.tcb # None /\ r.tcb.queued > 0 /\ r.tcb.state \in {"OPEN", "SHUTDOWN_RECEIVED"}
  THEN LET first == r.tcb.sent + 1
           last  == r.tcb.sent + r.tcb.queued
           t     == sctp_timer_start([r.tcb EXCEPT !.queued = 0, !.sent = last], "SEND")
       IN  [r EXCEPT !.tcb = t, !.out = @ \cup {DataChunk(n, t, k) : k \in first..last}]
  ELSE r

(* ------------------------------ handshake ------------------------------- *)
(* Mutant of DrawsTag: an INIT that crosses ours is answered with a fresh tag. *)
AlwaysFreshTag(t) == TRUE

(* sctp_send_initiate_ack.  While the TCB is still opening its own tag and TSN *)
(* are repeated, otherwise a fresh one is drawn; the cookie carries the tie    *)
(* tags of the TCB there is, and 0 if there is none.                           *)
DrawsTag(t) == t = None \/ t.state \notin Opening
sctp_send_initiate_ack(n, t, p) ==
  LET my == IF DrawsTag(t) THEN used.tag + 1 ELSE t.my
  IN  [Packet(n, "INIT_ACK", p.tag) EXCEPT
         !.tag = my,
         !.cookie = [my |-> my, peer |-> p.tag, tie |-> IF t = None THEN 0 ELSE t.nonce,
                     secret |-> secret[n].current]]

(* sctp_handle_init.  A TCB whose socket is closed answers nothing: the        *)
(* INIT-ACK is given up when the socket is NULL.                               *)
sctp_handle_init(n, t, p) ==
  IF t = None
  THEN Result(t, {IF ep[n] = "listen" THEN sctp_send_initiate_ack(n, t, p)
                                      ELSE sctp_send_abort(n, p)})
  ELSE IF t.state = "SHUTDOWN_ACK_SENT" THEN Result(t, {sctp_send_shutdown_ack(n, t)})
  ELSE Result(t, IF t.closed THEN {} ELSE {sctp_send_initiate_ack(n, t, p)})

(* sctp_process_init and sctp_process_init_ack, as far as they touch the TCB:  *)
(* the peer's tag, and with it the TSN the receiver expects.                   *)
sctp_process_init(t, tag)     == [t EXCEPT !.peer = tag, !.rcvd = 0]
(* Mutant of the latter: the INIT timer keeps the slot. *)
InitTimerKept(t, p) == [t EXCEPT !.peer = p.tag, !.rcvd = 0, !.echo = p.cookie]
sctp_process_init_ack(t, p)   ==
  [sctp_timer_stop(t, "INIT") EXCEPT !.peer = p.tag, !.rcvd = 0, !.echo = p.cookie]

(* sctp_handle_init_ack: only COOKIE_WAIT listens to it.  The COOKIE-ECHO      *)
(* leaves at once, with whatever data was queued meanwhile.  Without a socket  *)
(* and without data the TCB is freed.                                          *)
sctp_handle_init_ack(n, t, p) ==
  IF t.closed /\ ~HasOutput(t) THEN sctp_free_assoc(t, {}, None)
  ELSE IF t.state # "COOKIE_WAIT" THEN Ignored(t)
  ELSE LET u == sctp_timer_start([sctp_process_init_ack(t, p) EXCEPT
                                   !.state = "COOKIE_ECHOED", !.err = 0], "COOKIE")
           v == [u EXCEPT !.sent = @ + u.queued, !.queued = 0]
       IN  Result(v, {[sctp_send_cookie_echo(n, v) EXCEPT !.msg = v.sent]})

(* sctp_process_cookie_new: the TCB the cookie describes, OPEN at once. *)
sctp_process_cookie_new(n, c) ==
  LET t == [sctp_process_init(sctp_init_asoc(c.my), c.peer) EXCEPT !.state = "OPEN"]
  IN  Told(Result(t, {sctp_send_cookie_ack(n, t)}), "COMM_UP")

(* The cookie's two tags are the TCB's: the handshake is complete, or was.     *)
CookieMatches(n, t, c) ==
  LET opened == GuardIfPending([sctp_process_init(t, c.peer) EXCEPT !.state = "OPEN"])
      u == IF t.state \in Opening THEN opened ELSE t
      v == sctp_toss_old_cookies(sctp_stop_all_cookie_timers(u))
      r == Result(v, {sctp_send_cookie_ack(n, v)})
  IN  IF t.state \in Opening THEN Told(r, "COMM_UP") ELSE r

(* Only our tag is the same: the peer began its own INIT after it had answered *)
(* ours.  What was sent to its old tag is sent again.                          *)
CookieOfNewPeerTag(n, t, c) ==
  LET u == GuardIfPending([sctp_process_init(sctp_stop_all_cookie_timers(t), c.peer)
                             EXCEPT !.state = "OPEN"])
      v == sctp_toss_old_cookies(u)
      r == Result(v, {sctp_send_cookie_ack(n, v)}
                       \cup {DataChunk(n, v, k) : k \in (v.acked + 1)..v.sent})
  IN  IF t.state \in Opening THEN Told(r, "COMM_UP") ELSE r

(* Both tags are new and the tie tags are ours: the peer has restarted.  What  *)
(* was queued is reported back, the counters and tags start again, and         *)
(* SHUTDOWN_SENT survives unless SHUTDOWN_PENDING is set.                      *)
CookieOfRestart(n, t, c) ==
  LET u == [sctp_timer_stop(t, "INIT") EXCEPT
              !.state = IF t.pending \/ t.state # "SHUTDOWN_SENT" THEN "OPEN" ELSE @,
              !.guard = @ \/ t.pending, !.my = c.my, !.restarted = TRUE,
              !.queued = 0, !.sent = 0, !.acked = 0]
      v == sctp_toss_old_cookies(sctp_stop_all_cookie_timers(sctp_process_init(u, c.peer)))
  IN  Told(Result(v, {sctp_send_cookie_ack(n, v)}), "RESTART")

(* sctp_process_cookie_existing *)
sctp_process_cookie_existing(n, t, c) ==
  IF t.state = "SHUTDOWN_ACK_SENT" THEN Result(t, {sctp_send_shutdown_ack(n, t)})
  ELSE IF c.my = t.my /\ c.peer = t.peer THEN CookieMatches(n, t, c)
  ELSE IF c.my = t.my THEN CookieOfNewPeerTag(n, t, c)
  ELSE IF c.peer # t.peer /\ c.tie = t.nonce THEN CookieOfRestart(n, t, c)
  ELSE Ignored(t)

(* sctp_handle_cookie_ack.  Without a socket and without data the caller frees *)
(* the TCB first.                                                              *)
sctp_handle_cookie_ack(t) ==
  LET s == sctp_stop_all_cookie_timers(t)
      u == IF t.state = "COOKIE_ECHOED" THEN GuardIfPending([s EXCEPT !.state = "OPEN"]) ELSE s
      r == Result(StartSendTimer(sctp_toss_old_cookies(u)), {})
  IN  IF t.state = "COOKIE_ECHOED" THEN Told(r, "COMM_UP") ELSE r

CookieAck(t) ==
  IF t.closed /\ ~HasOutput(t) THEN sctp_free_assoc(t, {}, None)
  ELSE sctp_handle_cookie_ack([t EXCEPT !.err = 0])

(* Mutant of the next: the application is not told. *)
SilentCookieAck(t) ==
  IF t.state = "COOKIE_ECHOED"
  THEN Ignored(sctp_stop_all_cookie_timers([t EXCEPT !.state = "OPEN"])) ELSE Ignored(t)

(* A SACK or DATA for a TCB in COOKIE_ECHOED stands for the lost COOKIE-ACK. *)
ImpliesCookieAck(t) ==
  IF t.state = "COOKIE_ECHOED" THEN sctp_handle_cookie_ack([t EXCEPT !.err = 0]) ELSE Ignored(t)

(* sctp_handle_error with a STALE_COOKIE cause: back to the INIT. *)
sctp_handle_error(n, t) ==
  IF t.state # "COOKIE_ECHOED" THEN Ignored(t)
  ELSE IF t.stale + 1 > MaxRtx THEN sctp_free_assoc(t, {}, sctp_abort_notification(t))
  ELSE LET u == sctp_toss_old_cookies(sctp_stop_all_cookie_timers(t))
           v == sctp_timer_start([u EXCEPT !.state = "COOKIE_WAIT", !.stale = @ + 1], "INIT")
       IN  Result(v, {sctp_send_initiate(n, v)})

(* ------------------------- data, and the way down ------------------------ *)
(* Mutant of the next: a message is acknowledged and dropped. *)
AckedAndDropped(n, r, from, first, last) ==
  IF r.tcb.state \notin {"OPEN", "SHUTDOWN_SENT"} THEN r
  ELSE [r EXCEPT !.out = @ \cup {sctp_send_sack(n, [r.tcb EXCEPT !.rcvd = last])}]

(* sctp_process_data, for messages whose TSNs count from the one drawn with    *)
(* `from'; those of another peer are out of the window.  A closed socket has   *)
(* no reader: a new message aborts.  SHUTDOWN_SENT answers with another        *)
(* SHUTDOWN, which acknowledges as well.                                       *)
sctp_process_data(n, r, from, first, last) ==
  LET t == r.tcb
      u == [t EXCEPT !.rcvd = IF from = t.peer /\ first <= @ + 1 /\ last > @ THEN last ELSE @]
  IN  IF t.state \notin {"OPEN", "SHUTDOWN_SENT"} THEN r
      ELSE IF u.rcvd > t.rcvd /\ t.closed THEN sctp_abort_an_association(n, t)
      ELSE [r EXCEPT !.tcb = u,
                     !.out = @ \cup {IF u.state = "SHUTDOWN_SENT" THEN sctp_send_shutdown(n, u)
                                                                  ELSE sctp_send_sack(n, u)}]

(* SHUTDOWN_SENT with its SHUTDOWN, its timer and the guard. *)
ToShutdownSent(n, r) ==
  LET t == sctp_timer_start([r.tcb EXCEPT !.state = "SHUTDOWN_SENT", !.pending = FALSE,
                                          !.guard = TRUE], "SHUTDOWN")
  IN  [r EXCEPT !.tcb = t, !.out = @ \cup {sctp_send_shutdown(n, t)}]

(* Mutant of the next: no timer for the SHUTDOWN-ACK. *)
AckSentNoTimer(n, r) ==
  [r EXCEPT !.tcb = [@ EXCEPT !.state = "SHUTDOWN_ACK_SENT", !.pending = FALSE],
            !.out = @ \cup {sctp_send_shutdown_ack(n, r.tcb)}]

ToShutdownAckSent(n, r) ==
  LET t == sctp_timer_start([r.tcb EXCEPT !.state = "SHUTDOWN_ACK_SENT", !.pending = FALSE],
                            "SHUTDOWNACK")
  IN  [r EXCEPT !.tcb = t, !.out = @ \cup {sctp_send_shutdown_ack(n, t)}]

(* The end of sctp_handle_sack: with the last message acknowledged a pending   *)
(* shutdown goes ahead, and a received one is answered.                        *)
AfterLastAck(n, r) ==
  IF HasOutput(r.tcb) THEN r
  ELSE IF r.tcb.pending THEN ToShutdownSent(n, r)
  ELSE IF r.tcb.state = "SHUTDOWN_RECEIVED" THEN ToShutdownAckSent(n, r)
  ELSE r

(* sctp_express_handle_sack.  One that acknowledges nothing new only updates   *)
(* the window.                                                                 *)
sctp_express_handle_sack(n, r, k) ==
  LET t == r.tcb
      u == [t EXCEPT !.acked = k, !.err = 0]
      v == IF u.sent > u.acked THEN u ELSE sctp_timer_stop(u, "SEND")
  IN  IF k <= t.acked THEN r
      ELSE IF k > t.sent THEN sctp_abort_an_association(n, t)
      ELSE AfterLastAck(n, [r EXCEPT !.tcb = v])

(* sctp_handle_sack with nothing queued only stops the timer; in particular it *)
(* does not start a pending shutdown.                                          *)
sctp_handle_sack(n, r, k) ==
  IF HasOutput(r.tcb) THEN sctp_express_handle_sack(n, r, k)
  ELSE [r EXCEPT !.tcb = sctp_timer_stop(@, "SEND")]

(* A SACK chunk. *)
Sack(n, t, k) ==
  IF t.state = "SHUTDOWN_ACK_SENT" THEN Ignored(t)
  ELSE sctp_handle_sack(n, ImpliesCookieAck(t), k)

(* sctp_handle_shutdown *)
sctp_handle_shutdown(n, t, k) ==
  LET r == sctp_express_handle_sack(n, Ignored(t), k)
      u == IF ~t.closed /\ r.tcb.state = "OPEN"
           THEN [r.tcb EXCEPT !.state = "SHUTDOWN_RECEIVED", !.pending = FALSE] ELSE r.tcb
      v == IF u.state = "SHUTDOWN_SENT" THEN sctp_timer_stop(u, "SHUTDOWN") ELSE u
      s == [r EXCEPT !.tcb = v]
  IN  IF t.state \in Opening THEN Ignored(t)
      ELSE IF r.tcb = None THEN r
      ELSE IF HasOutput(v) THEN s
      ELSE IF v.state # "SHUTDOWN_ACK_SENT" THEN ToShutdownAckSent(n, s)
      ELSE IF t.state = "SHUTDOWN_ACK_SENT"
           THEN [s EXCEPT !.out = @ \cup {sctp_send_shutdown_ack(n, v)}]
      ELSE s

(* sctp_handle_shutdown_ack *)
sctp_handle_shutdown_ack(n, t, p) ==
  CASE t.state \in Opening -> Result(t, {sctp_send_shutdown_complete(n, t, p)})
    [] t.state \in {"SHUTDOWN_SENT", "SHUTDOWN_ACK_SENT"} ->
         sctp_free_assoc(t, {sctp_send_shutdown_complete(n, t, p)}, "SHUTDOWN_COMP")
    [] OTHER -> Ignored(t)

(* Mutant of the next: the end is not reported. *)
SilentEnd(t) == IF t.state = "SHUTDOWN_ACK_SENT" THEN sctp_free_assoc(t, {}, None) ELSE Ignored(t)

(* sctp_handle_shutdown_complete *)
sctp_handle_shutdown_complete(t) ==
  IF t.state = "SHUTDOWN_ACK_SENT" THEN sctp_free_assoc(t, {}, "SHUTDOWN_COMP") ELSE Ignored(t)

(* sctp_handle_abort *)
sctp_handle_abort(t) == sctp_free_assoc(t, {}, sctp_abort_notification(t))

(* ------------------------------ one packet ------------------------------- *)
(* The verification tag, as sctp_process_control checks it.                   *)
TagAccepted(t, p) ==
  IF p.type \in {"ABORT", "SHUTDOWN_COMPLETE"}
  THEN p.vtag = IF p.reflected THEN t.peer ELSE t.my
  ELSE p.vtag = t.my

(* The cookie carries our tag and is signed with one of our two secrets. *)
CookieSigned(n, p) ==
  p.vtag = p.cookie.my /\ p.cookie.secret \in {secret[n].current, secret[n].last}

CookieExpired(c) == c \in expired

(* sctp_handle_cookie_echo: a cookie that is not ours is dropped, one past its *)
(* life is answered with an error; then the TCB is built or confronted with    *)
(* the cookie.                                                                 *)
sctp_handle_cookie_echo(n, t, p) ==
  IF ~CookieSigned(n, p) THEN Ignored(t)
  ELSE IF CookieExpired(p.cookie) THEN Result(t, {Packet(n, "ERROR", p.cookie.peer)})
  ELSE IF t = None THEN sctp_process_cookie_new(n, p.cookie)
  ELSE sctp_process_cookie_existing(n, t, p.cookie)

(* A COOKIE-ECHO chunk: refused without a listener and on a closed socket that *)
(* has nothing to send; accepted, it is followed by the data bundled with it.  *)
CookieEcho(n, t, p) ==
  LET r == sctp_handle_cookie_echo(n, t, p)
      s == [r EXCEPT !.tcb = StartSendTimer(@)]
  IN  IF t = None /\ ep[n] # "listen" THEN Ignored(t)
      ELSE IF t # None /\ t.closed /\ ~HasOutput(t) THEN Ignored(t)
      ELSE IF \A q \in r.out : q.type # "COOKIE_ACK" THEN r
      ELSE IF p.msg > 0 THEN sctp_process_data(n, s, p.cookie.peer, 1, p.msg)
      ELSE s

(* DATA outside a control packet. *)
ReceiveData(n, t, p) ==
  IF t.state = "COOKIE_WAIT" THEN Result(t, sctp_handle_ootb(n, p))
  ELSE sctp_process_data(n, ImpliesCookieAck(t), p.tag, p.msg, p.msg)

(* sctp_process_control *)
sctp_process_control(n, t, p) ==
  IF p.type = "INIT" THEN sctp_handle_init(n, t, p)
  ELSE IF p.type = "COOKIE_ECHO" THEN CookieEcho(n, t, p)
  ELSE IF t = None THEN Result(t, sctp_handle_ootb(n, p))
  ELSE IF ~TagAccepted(t, p)
       THEN IF p.type = "SHUTDOWN_ACK" THEN Result(t, sctp_handle_ootb(n, p)) ELSE Ignored(t)
  ELSE
  CASE p.type = "INIT_ACK"          -> sctp_handle_init_ack(n, t, p)
    [] p.type = "COOKIE_ACK"        -> CookieAck(t)
    [] p.type = "ERROR"             -> sctp_handle_error(n, t)
    [] p.type = "SACK"              -> Sack(n, t, p.msg)
    [] p.type = "SHUTDOWN"          -> sctp_handle_shutdown(n, t, p.msg)
    [] p.type = "SHUTDOWN_ACK"      -> sctp_handle_shutdown_ack(n, t, p)
    [] p.type = "SHUTDOWN_COMPLETE" -> sctp_handle_shutdown_complete(t)
    [] p.type = "ABORT"             -> sctp_handle_abort(t)
    [] OTHER                        -> ReceiveData(n, t, p)

(* sctp_common_input_processing: no endpoint, no TCB; then the chunks; then    *)
(* whatever can be sent.                                                       *)
sctp_common_input_processing(n, p) ==
  IF ep[n] = "gone" THEN Result(None, sctp_handle_ootb(n, p))
  ELSE sctp_chunk_output(n, sctp_process_control(n, tcb[n], p))

(* The tag a step takes out of use. *)
Ended(n, t) == IF tcb[n] # None /\ t = None THEN {tcb[n].my} ELSE {}

(* A full network loses what is sent. *)
Sent(old, out) == IF Cardinality(old \cup out) <= MaxNet THEN old \cup out ELSE old

(* A host takes a result.  The endpoint of a closed socket goes with its TCB.  *)
Take(n, r) ==
  /\ tcb' = [tcb EXCEPT ![n] = r.tcb]
  /\ told' = [told EXCEPT ![n] = IF r.say = None THEN @ ELSE r.say]
  /\ ep' = [ep EXCEPT ![n] = IF tcb[n] # None /\ tcb[n].closed /\ r.tcb = None /\ @ = "idle"
                             THEN "gone" ELSE @]
  /\ past' = past \cup Ended(n, r.tcb)

(* A packet arrives; the network may keep a copy.  Tags and TCBs drawn while it *)
(* is handled come from the bounds.                                            *)
Receive(n, p, keep) ==
  LET r   == sctp_common_input_processing(n, p)
      tag == \E q \in r.out : q.type = "INIT_ACK" /\ q.tag = used.tag + 1
      new == tcb[n] = None /\ r.tcb # None
  IN  /\ p.to = n
      /\ tag   => used.tag < MaxTag
      /\ Within((IF keep THEN 1 ELSE 0) + (IF new THEN 1 ELSE 0))
      /\ Take(n, r)
      /\ net' = Sent(IF keep THEN net ELSE net \ {p}, r.out)
      /\ used' = [used EXCEPT !.event = @ + (IF keep THEN 1 ELSE 0),
                              !.tag   = @ + (IF tag THEN 1 ELSE 0),
                              !.tcb   = @ + (IF new THEN 1 ELSE 0)]
      /\ UNCHANGED <<secret, expired>>

Lose(p) == net' = net \ {p} /\ UNCHANGED <<tcb, ep, told, secret, expired, past, used>>

(* Time passes: a cookie under way outlives the life it was given. *)
Expire(p) ==
  /\ p.cookie # None /\ p.cookie \notin expired /\ Within(1)
  /\ expired' = expired \cup {p.cookie}
  /\ used' = [used EXCEPT !.event = @ + 1]
  /\ UNCHANGED <<tcb, ep, told, secret, net, past>>

(* -------------------------------- timers --------------------------------- *)
(* Mutant of the next: expiries are not counted. *)
Uncounted(n, t, type, p) == Result([t EXCEPT !.rxt = type], p)

(* The retransmission timer of a TCB expires (sctp_timeout_handler).           *)
Retransmit(n, t, type, p) ==
  sctp_threshold_management(n, t, Result([t EXCEPT !.rxt = type, !.err = @ + 1], p))

sctp_t1init_timer(n, t) ==
  IF t.state # "COOKIE_WAIT" THEN Ignored([t EXCEPT !.rxt = "none"])
  ELSE Retransmit(n, t, "INIT", {sctp_send_initiate(n, t)})
sctp_cookie_timer(n, t) ==
  IF t.echo # None THEN Retransmit(n, t, "COOKIE", {sctp_send_cookie_echo(n, t)})
  ELSE IF t.state = "COOKIE_ECHOED" THEN sctp_abort_an_association(n, t)
  ELSE Ignored([t EXCEPT !.rxt = "none"])
sctp_t3rxt_timer(n, t) ==
  Retransmit(n, t, IF t.state = "COOKIE_ECHOED" \/ t.sent > t.acked THEN "SEND" ELSE "none",
             IF t.state \in Opening THEN {}
             ELSE {DataChunk(n, t, k) : k \in (t.acked + 1)..t.sent})
sctp_shutdown_timer(n, t) == Retransmit(n, t, "SHUTDOWN", {sctp_send_shutdown(n, t)})
sctp_shutdownack_timer(n, t) == Retransmit(n, t, "SHUTDOWNACK", {sctp_send_shutdown_ack(n, t)})

TimerRuns(n) == tcb[n] # None /\ tcb[n].rxt # "none"
GuardRuns(n) == tcb[n] # None /\ tcb[n].guard

sctp_timeout_handler(n) ==
  LET t == tcb[n]
      r == CASE t.rxt = "INIT"     -> sctp_t1init_timer(n, t)
             [] t.rxt = "COOKIE"   -> sctp_cookie_timer(n, t)
             [] t.rxt = "SEND"     -> sctp_t3rxt_timer(n, t)
             [] t.rxt = "SHUTDOWN" -> sctp_shutdown_timer(n, t)
             [] OTHER              -> sctp_shutdownack_timer(n, t)
  IN  /\ TimerRuns(n)
      /\ Take(n, r)
      /\ net' = Sent(net, r.out)
      /\ UNCHANGED <<secret, expired, used>>

GuardExpires(n) ==
  LET r == sctp_abort_an_association(n, tcb[n])
  IN  /\ GuardRuns(n)
      /\ Take(n, r)
      /\ net' = Sent(net, r.out)
      /\ UNCHANGED <<secret, expired, used>>

(* NEWCOOKIE: the current secret becomes the last one. *)
NewCookieSecret(n) ==
  /\ ep[n] = "listen" /\ Within(1)
  /\ secret' = [secret EXCEPT ![n] = [current |-> used.secret + 1, last |-> @.current]]
  /\ used' = [used EXCEPT !.event = @ + 1, !.secret = @ + 1]
  /\ UNCHANGED <<tcb, ep, told, net, expired, past>>

(* ------------------------------ application ------------------------------ *)
Call == Within(1) /\ used' = [used EXCEPT !.event = @ + 1]

Apply(n, r) == Take(n, r) /\ net' = Sent(net, r.out) /\ UNCHANGED <<secret, expired>>
Do(n, r) == Call /\ Apply(n, r)

(* An endpoint draws its first cookie secret when it is allocated. *)
NewSecret == [current |-> used.secret + 1, last |-> used.secret + 1]

(* sctpconn_connect and sctp_send_initiate on a new socket. *)
sctpconn_connect(n) ==
  LET t == sctp_timer_start(sctp_init_asoc(used.tag + 1), "INIT")
  IN  /\ ep[n] = "gone" /\ used.tag < MaxTag /\ Within(1)
      /\ tcb' = [tcb EXCEPT ![n] = t]
      /\ ep' = [ep EXCEPT ![n] = "idle"]
      /\ net' = Sent(net, {sctp_send_initiate(n, t)})
      /\ secret' = [secret EXCEPT ![n] = NewSecret]
      /\ used' = [used EXCEPT !.tag = @ + 1, !.tcb = @ + 1, !.secret = @ + 1]
      /\ UNCHANGED <<told, expired, past>>

(* sctp_lower_sosend: refused once the socket can send no more, and in every   *)
(* state of the shutdown.                                                      *)
sctp_lower_sosend(n) ==
  /\ n \in Senders /\ tcb[n] # None /\ ~tcb[n].closed /\ ~tcb[n].pending
  /\ tcb[n].state \in Opening \cup {"OPEN"}
  /\ tcb[n].queued + tcb[n].sent < MaxMsg
  /\ Apply(n, sctp_chunk_output(n, Ignored([tcb[n] EXCEPT !.queued = @ + 1])))
  /\ UNCHANGED used

(* Mutant of the next: unacknowledged data does not delay the SHUTDOWN. *)
ShutdownAtOnce(n) ==
  /\ tcb[n] # None /\ ~tcb[n].closed /\ tcb[n].state = "OPEN"
  /\ Do(n, ToShutdownSent(n, Ignored(tcb[n])))

(* sctp_shutdown *)
sctp_shutdown(n) ==
  LET t == tcb[n]
  IN  /\ t # None /\ ~t.closed /\ ~t.pending /\ t.state \in Opening \cup {"OPEN"}
      /\ Do(n, IF t.state = "OPEN" /\ ~HasOutput(t) THEN ToShutdownSent(n, Ignored(t))
               ELSE Ignored([t EXCEPT !.pending = TRUE, !.guard = TRUE]))

(* sctp_inpcb_free, SCTP_FREE_SHOULD_USE_GRACEFUL_CLOSE. *)
GracefulClose(n, t) ==
  LET u == [t EXCEPT !.closed = TRUE]
  IN  IF t.state \in Opening /\ ~HasOutput(t) THEN sctp_free_assoc(u, {}, None)
      ELSE IF HasOutput(t) THEN Ignored([u EXCEPT !.pending = TRUE, !.guard = TRUE])
      ELSE IF t.state \in {"SHUTDOWN_SENT", "SHUTDOWN_ACK_SENT"} THEN Ignored(u)
      ELSE ToShutdownSent(n, Ignored(u))

(* sctp_inpcb_free, SCTP_FREE_SHOULD_USE_ABORT: what a linger time of 0 or      *)
(* unread data asks for.                                                        *)
AbortiveClose(n, t) ==
  sctp_free_assoc(t, IF t.state = "COOKIE_WAIT" THEN {} ELSE {sctp_send_abort_tcb(n, t)}, None)

(* sctp_close.  The listening socket is not the accepted one and stays.         *)
sctp_close(n, linger0) ==
  LET r == IF linger0 THEN AbortiveClose(n, tcb[n]) ELSE GracefulClose(n, tcb[n])
  IN  /\ IF tcb[n] = None THEN ep[n] = "idle" /\ linger0 ELSE ~tcb[n].closed
      /\ tcb' = [tcb EXCEPT ![n] = IF @ = None THEN None ELSE r.tcb]
      /\ ep' = [ep EXCEPT ![n] = IF @ = "idle" /\ (tcb[n] = None \/ r.tcb = None)
                                 THEN "gone" ELSE @]
      /\ net' = IF tcb[n] = None THEN net ELSE Sent(net, r.out)
      /\ told' = [told EXCEPT ![n] = None]
      /\ past' = past \cup Ended(n, tcb'[n])
      /\ Call
      /\ UNCHANGED <<secret, expired>>

(* The process of a host dies; a new one starts with new secrets, and listens  *)
(* if the old one did.                                                         *)
Crash(n) ==
  /\ Within(1)
  /\ tcb' = [tcb EXCEPT ![n] = None]
  /\ ep' = [ep EXCEPT ![n] = IF @ = "listen" THEN "listen" ELSE "gone"]
  /\ told' = [told EXCEPT ![n] = None]
  /\ past' = past \cup Ended(n, None)
  /\ secret' = [secret EXCEPT ![n] = NewSecret]
  /\ used' = [used EXCEPT !.event = @ + 1, !.secret = @ + 1]
  /\ UNCHANGED <<net, expired>>

(* Either one host listens and the other connects, or both connect.            *)
Init ==
  /\ tcb = [n \in Nodes |-> None]
  /\ \E listens \in BOOLEAN :
       ep = [n \in Nodes |-> IF n = Server /\ listens THEN "listen" ELSE "gone"]
  /\ told = [n \in Nodes |-> None]
  /\ secret = [n \in Nodes |-> LET i == IF n = Server THEN 1 ELSE 2
                               IN  [current |-> i, last |-> i]]
  /\ net = {}
  /\ expired = {}
  /\ past = {}
  /\ used = [tag |-> 0, tcb |-> 0, event |-> 0, secret |-> 2]

Next ==
  \/ \E n \in Nodes : \E p \in net : \E keep \in BOOLEAN : Receive(n, p, keep)
  \/ \E p \in net : Lose(p)
  \/ \E p \in net : Expire(p)
  \/ \E n \in Nodes : sctp_timeout_handler(n)
  \/ \E n \in Nodes : GuardExpires(n)
  \/ \E n \in Nodes : NewCookieSecret(n)
  \/ \E n \in Nodes : sctpconn_connect(n)
  \/ \E n \in Nodes : sctp_lower_sosend(n)
  \/ \E n \in Nodes : sctp_shutdown(n)
  \/ \E n \in Nodes : \E linger0 \in BOOLEAN : sctp_close(n, linger0)
  \/ \E n \in Nodes : Crash(n)

Spec == Init /\ [][Next]_vars

(* Timers expire and packets in flight arrive or are lost: the callout thread  *)
(* of usrsctp runs for as long as the stack is up.  Nothing is assumed of the  *)
(* application.  This is weak fairness, with the enabling conditions written   *)
(* out: a timer that stays set expires.                                        *)
FairSpec ==
  /\ Spec
  /\ \A n \in Nodes :
       /\ []<>~TimerRuns(n) \/ []<><<sctp_timeout_handler(n)>>_vars
       /\ []<>~GuardRuns(n) \/ []<><<GuardExpires(n)>>_vars

(* ------------------------------ properties ------------------------------- *)
(* Counters within their limits, states and notifications of the code. *)
TypeOK ==
  /\ \A n \in Nodes : tcb[n] # None =>
       /\ tcb[n] \in Tcb
       /\ {tcb[n].my, tcb[n].peer} \subseteq 0..MaxTag /\ tcb[n].my > 0
       /\ tcb[n].nonce \in 1..MaxEvent
       /\ {tcb[n].queued, tcb[n].sent, tcb[n].acked, tcb[n].rcvd} \subseteq 0..MaxMsg
       /\ {tcb[n].err, tcb[n].stale} \subseteq 0..MaxRtx
  /\ ep \in [Nodes -> {"listen", "idle", "gone"}]
  /\ told \in [Nodes -> Notification \cup {None}]

(* The association a TCB stands for has begun once. *)
FirstTry(t) == t.stale = 0 /\ ~t.restarted

(* No TCB waits for the peer without a timer that will act if the peer is      *)
(* silent: the retransmission timer or the shutdown guard runs in every state  *)
(* but OPEN, and in OPEN while data is unacknowledged.  The timers share one   *)
(* slot that refuses a second start, so every transition has to have stopped   *)
(* the previous one.  A stale cookie and a restart are the exceptions: in      *)
(* COOKIE_WAIT a late COOKIE-ACK stops the INIT timer, and a restart leaves    *)
(* the SEND timer of the data it drops in the slot.                            *)
SomeTimerRuns ==
  \A n \in Nodes :
    tcb[n] # None /\ (tcb[n].state # "OPEN" \/ tcb[n].sent > tcb[n].acked)
                  /\ FirstTry(tcb[n])
      => tcb[n].rxt # "none" \/ tcb[n].guard

(* The shared slot holds the timer of the state the TCB is in, so that what is *)
(* retransmitted is what the peer still has to answer.                         *)
RightTimer ==
  past = {} /\ expired = {} => \A n \in Nodes : tcb[n] # None =>
    /\ tcb[n].state = "COOKIE_WAIT" => tcb[n].rxt = "INIT"
    /\ tcb[n].state = "COOKIE_ECHOED" => tcb[n].rxt = "COOKIE" /\ tcb[n].echo # None
    /\ tcb[n].state = "SHUTDOWN_ACK_SENT" => tcb[n].rxt = "SHUTDOWNACK"
    /\ tcb[n].state = "SHUTDOWN_SENT" => tcb[n].rxt = "SHUTDOWN"

(* An application that was told its association is up is told when it ends:    *)
(* a TCB is never freed behind its back.                                       *)
NoSilentEnd ==
  \A n \in Nodes : tcb[n] = None => told[n] \notin {"COMM_UP", "RESTART"}

(* The application knows of the association exactly while it is established:   *)
(* COMM_UP or RESTART is reported with the transition to OPEN on each of its   *)
(* five ways (cookie new, cookie existing, COOKIE-ACK, DATA and SACK).         *)
ToldOfOpen ==
  \A n \in Nodes : tcb[n] # None /\ ~tcb[n].closed /\ tcb[n].stale = 0 =>
     (told[n] \in {"COMM_UP", "RESTART"} <=> tcb[n].state \in Established)

(* A TCB that is being set up or torn down gets there or goes: whatever the   *)
(* network loses, every wait ends by an answer, by the retransmission limit or *)
(* by the shutdown guard.                                                      *)
WaitsEnd ==
  \A n \in Nodes :
    (tcb[n] # None /\ (tcb[n].state # "OPEN" \/ tcb[n].pending))
      ~> (tcb[n] = None \/ ~FirstTry(tcb[n]) \/ (tcb[n].state = "OPEN" /\ ~tcb[n].pending))

(* Two TCBs with each other's tags. *)
Joined(n) ==
  /\ tcb[n] # None /\ tcb[Peer(n)] # None
  /\ tcb[n].my = tcb[Peer(n)].peer /\ tcb[n].peer = tcb[Peer(n)].my

(* An acknowledgement is true: between two joined TCBs the sender never counts *)
(* a message as acknowledged that the receiver does not have.  (Not across     *)
(* incarnations: a COOKIE-ECHO repeated after the end revives the tags.)       *)
AcksAreTrue ==
  past = {} => \A n \in Nodes : Joined(n) =>
    /\ tcb[n].acked <= tcb[Peer(n)].rcvd
    /\ tcb[Peer(n)].rcvd <= tcb[n].sent

(* A graceful end loses nothing: SHUTDOWN and SHUTDOWN-ACK are sent only when  *)
(* nothing is queued or unacknowledged, on each of their five ways.            *)
ShutdownAfterData ==
  \A n \in Nodes : tcb[n] # None /\ tcb[n].state \in {"SHUTDOWN_SENT", "SHUTDOWN_ACK_SENT"}
    => ~HasOutput(tcb[n])

(* When both hosts are OPEN they are OPEN with each other: whatever INITs and  *)
(* cookies crossed, both ended with the same pair of tags.                     *)
OpenTogether ==
  past = {} /\ expired = {} /\ (\A n \in Nodes : tcb[n] # None /\ tcb[n].state = "OPEN")
    => \A n \in Nodes : Joined(n)

(* The timer that runs is the right one. *)
TimersRight == TypeOK /\ RightTimer

(* The application hears of every beginning and of every end. *)
UserTold == NoSilentEnd /\ ToldOfOpen

(* The two ends agree: on the tags and on what was received.                   *)
EndsAgree == AcksAreTrue /\ OpenTogether
================================================================================
