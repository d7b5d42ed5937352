---------------------- MODULE AssociationHandlerProofs ----------------------
(***************************************************************************)
(* Lemmas about the handlers of Association: what each of them keeps of    *)
(* the TCB it is given, of its timer and of what its application was told, *)
(* and which packets it sends.  They speak of one host and one packet; how *)
(* the hosts and the network fit together is in AssociationProofs.         *)
(***************************************************************************)
EXTENDS Association, TLAPS

LEMMA PeerOf ==
  ASSUME NEW n \in Nodes
  PROVE  Peer(n) \in Nodes /\ Peer(n) # n /\ Peer(Peer(n)) = n
<1>1. PICK a \in Nodes, b \in Nodes : a # b /\ Nodes = {a, b}
  BY AssociationConstants, Zenon
<1>2. ASSUME NEW m \in Nodes PROVE Peer(m) \in Nodes /\ Peer(m) # m
  BY <1>1, Zenon DEF Peer
<1> QED
  BY <1>1, <1>2, Zenon

-----------------------------------------------------------------------------
Up == {"COMM_UP", "RESTART"}

(* The timer that watches a TCB in its state. *)
Slot(t) ==
  CASE t.state = "COOKIE_WAIT" -> "INIT"
    [] t.state = "COOKIE_ECHOED" -> "COOKIE"
    [] t.state = "SHUTDOWN_ACK_SENT" -> "SHUTDOWNACK"
    [] OTHER -> IF t.sent > t.acked THEN "SEND" ELSE "none"

(* What holds of a TCB while a packet is handled; w is what its application  *)
(* has been told.                                                            *)
Handled(t, w) ==
  /\ t \in Tcb
  /\ t.acked <= t.sent
  /\ t.state \in {"SHUTDOWN_SENT", "SHUTDOWN_ACK_SENT"} => ~HasOutput(t)
  /\ t.state = "SHUTDOWN_RECEIVED" => HasOutput(t)
  /\ t.state = "COOKIE_WAIT" /\ t.stale = 0 => t.sent = 0
  /\ t.closed => w \notin Up
  /\ ~t.closed /\ t.stale = 0 => (w \in Up <=> t.state \in Established)
  /\ FirstTry(t) /\ ~t.guard => t.rxt = Slot(t) /\ t.state # "SHUTDOWN_SENT"

(* Once it is handled, what may be sent has been sent. *)
TcbRight(t, w) ==
  /\ Handled(t, w)
  /\ t.state \in {"OPEN", "SHUTDOWN_RECEIVED"} => t.queued = 0

(* u differs from t in its timers, tags and counters of errors only. *)
Alike(t, u) ==
  /\ u \in Tcb /\ u.my = t.my
  /\ u.state = t.state /\ u.pending = t.pending /\ u.closed = t.closed
  /\ u.queued = t.queued /\ u.sent = t.sent /\ u.acked = t.acked
  /\ u.stale = t.stale /\ u.restarted = t.restarted

LEMMA TimerStart ==
  ASSUME NEW t \in Tcb, NEW type \in TimerType
  PROVE  LET u == sctp_timer_start(t, type) IN
         /\ Alike(t, u) /\ u.guard = t.guard /\ u.echo = t.echo
         /\ u.rxt = IF t.rxt = "none" THEN type ELSE t.rxt
<1> DEFINE u == [t EXCEPT !.rxt = type]
<1>1. u \in Tcb
  BY Zenon DEF Tcb
<1>2. Alike(t, u) /\ u.guard = t.guard /\ u.echo = t.echo /\ u.rxt = type
  BY <1>1, Zenon DEF Tcb, Alike
<1>3. Alike(t, t)
  BY Zenon DEF Alike
<1> HIDE DEF u
<1> QED
  BY <1>2, <1>3, Zenon DEF sctp_timer_start, u

LEMMA TimerStop ==
  ASSUME NEW t \in Tcb, NEW type
  PROVE  LET u == sctp_timer_stop(t, type) IN
         /\ Alike(t, u) /\ u.guard = t.guard /\ u.echo = t.echo
         /\ u.rxt = IF t.rxt = type THEN "none" ELSE t.rxt
<1> DEFINE u == [t EXCEPT !.rxt = "none"]
<1>1. u \in Tcb
  BY Zenon DEF Tcb, TimerType
<1>2. Alike(t, u) /\ u.guard = t.guard /\ u.echo = t.echo /\ u.rxt = "none"
  BY <1>1, Zenon DEF Tcb, Alike
<1>3. Alike(t, t)
  BY Zenon DEF Alike
<1> HIDE DEF u
<1> QED
  BY <1>2, <1>3, Zenon DEF sctp_timer_stop, u

LEMMA CookieTimersStop ==
  ASSUME NEW t \in Tcb
  PROVE  LET u == sctp_stop_all_cookie_timers(t) IN
         /\ Alike(t, u) /\ u.guard = t.guard /\ u.echo = t.echo
         /\ u.rxt = IF t.rxt \in {"INIT", "COOKIE"} THEN "none" ELSE t.rxt
<1> DEFINE u == [t EXCEPT !.rxt = "none"]
<1>1. u \in Tcb
  BY Zenon DEF Tcb, TimerType
<1>2. Alike(t, u) /\ u.guard = t.guard /\ u.echo = t.echo /\ u.rxt = "none"
  BY <1>1, Zenon DEF Tcb, Alike
<1>3. Alike(t, t)
  BY Zenon DEF Alike
<1> HIDE DEF u
<1> QED
  BY <1>2, <1>3, Zenon DEF sctp_stop_all_cookie_timers, u

LEMMA SendTimerStarts ==
  ASSUME NEW t \in Tcb
  PROVE  LET u == StartSendTimer(t) IN
         /\ Alike(t, u) /\ u.guard = t.guard /\ u.echo = t.echo
         /\ u.rxt = IF t.sent > t.acked /\ t.rxt = "none" THEN "SEND" ELSE t.rxt
<1>1. "SEND" \in TimerType /\ Alike(t, t)
  BY Zenon DEF TimerType, Alike
<1> QED
  BY <1>1, TimerStart, Zenon DEF StartSendTimer

LEMMA GuardStarts ==
  ASSUME NEW t \in Tcb
  PROVE  LET u == GuardIfPending(t) IN
         /\ Alike(t, u) /\ u.rxt = t.rxt /\ u.echo = t.echo
         /\ u.guard <=> t.guard \/ t.pending
<1> DEFINE g == t.guard \/ t.pending
           u == [t EXCEPT !.guard = g]
<1>1. g \in BOOLEAN
  BY Zenon DEF Tcb
<1>2. u \in Tcb
  <2> HIDE DEF g
  <2> QED
    BY <1>1, Zenon DEF Tcb
<1>3. Alike(t, u) /\ u.rxt = t.rxt /\ u.echo = t.echo /\ u.guard = g
  <2> HIDE DEF g
  <2> QED
    BY <1>2, Zenon DEF Tcb, Alike
<1>4. GuardIfPending(t) = u
  BY Zenon DEF GuardIfPending
<1> HIDE DEF u
<1> QED
  BY <1>3, <1>4, Zenon

LEMMA CookiesTossed ==
  ASSUME NEW t \in Tcb
  PROVE  LET u == sctp_toss_old_cookies(t) IN
         Alike(t, u) /\ u.rxt = t.rxt /\ u.guard = t.guard /\ u.echo = None
<1> DEFINE u == [t EXCEPT !.echo = None]
<1>1. u \in Tcb
  BY Zenon DEF Tcb
<1>2. Alike(t, u) /\ u.rxt = t.rxt /\ u.guard = t.guard /\ u.echo = None
  BY <1>1, Zenon DEF Tcb, Alike
<1> HIDE DEF u
<1> QED
  BY <1>2, Zenon DEF sctp_toss_old_cookies, u

LEMMA InitProcessed ==
  ASSUME NEW t \in Tcb, NEW tag \in Nat
  PROVE  LET u == sctp_process_init(t, tag) IN
         Alike(t, u) /\ u.rxt = t.rxt /\ u.guard = t.guard /\ u.echo = t.echo /\ u.peer = tag
<1> DEFINE u == [t EXCEPT !.peer = tag, !.rcvd = 0]
<1>1. u \in Tcb
  BY Zenon DEF Tcb
<1>2. Alike(t, u) /\ u.rxt = t.rxt /\ u.guard = t.guard /\ u.echo = t.echo /\ u.peer = tag
  BY <1>1, Zenon DEF Tcb, Alike
<1> HIDE DEF u
<1> QED
  BY <1>2, Zenon DEF sctp_process_init, u

LEMMA AlikeTwice ==
  ASSUME NEW t, NEW u, NEW v, Alike(t, u), Alike(u, v)
  PROVE  Alike(t, v)
  BY Zenon DEF Alike

-----------------------------------------------------------------------------
(* What the application was last told, once it has heard of the result r. *)
Says(r, w) == IF r.say = None THEN w ELSE r.say

Handshake == {"INIT", "INIT_ACK", "COOKIE_ECHO", "COOKIE_ACK"}

(* A packet that takes no part in the handshake. *)
Plain(q) == q.type \notin Handshake /\ q.msg \in Nat /\ q.tag \in Nat /\ q.vtag \in Nat

(* u has the tags of t, and opens or waits for its first INIT-ACK only if t does. *)
Keeps(t, u) ==
  /\ u.my = t.my /\ u.closed = t.closed /\ (u.echo = t.echo \/ u.echo = None)
  /\ u.state \in Opening => t.state \in Opening
  /\ u.state = "COOKIE_WAIT" /\ FirstTry(u) => t.state = "COOKIE_WAIT" /\ FirstTry(t)

IsResult(r) == r = [x \in {"tcb", "out", "say"} |-> r[x]]

(* The result r of handling a packet for the TCB t is right. *)
Good(t, w, r) ==
  /\ IsResult(r)
  /\ r.tcb = None => Says(r, w) \notin Up
  /\ r.tcb # None => /\ Handled(r.tcb, Says(r, w)) /\ Keeps(t, r.tcb)
                     /\ r.tcb.closed => r.say = None
Fine(t, w, r) == Good(t, w, r) /\ \A q \in r.out : Plain(q)

LEMMA Symbols ==
  None \notin Tcb /\ None \notin Cookie /\ None \notin Notification
  BY AssociationConstants, Zenon

LEMMA ResultIs ==
  ASSUME NEW t, NEW out
  PROVE  /\ IsResult(Result(t, out)) /\ Result(t, out).tcb = t
         /\ Result(t, out).out = out /\ Result(t, out).say = None
  BY Zenon DEF IsResult, Result

LEMMA ToldIs ==
  ASSUME NEW r, IsResult(r), NEW what, r.tcb # None, r.tcb.closed \in BOOLEAN
  PROVE  LET s == Told(r, what) IN
         /\ IsResult(s) /\ s.tcb = r.tcb /\ s.out = r.out
         /\ r.tcb.closed => s.say = None
         /\ ~r.tcb.closed => s.say = what
<1> DEFINE said == IF r.tcb # None /\ r.tcb.closed THEN None ELSE what
<1>1. LET s == [r EXCEPT !.say = said] IN
      IsResult(s) /\ s.tcb = r.tcb /\ s.out = r.out /\ s.say = said
  <2> HIDE DEF said
  <2> QED
    BY Zenon DEF IsResult
<1>2. Told(r, what) = [r EXCEPT !.say = said]
  BY Zenon DEF Told
<1>3. (r.tcb.closed => said = None) /\ (~r.tcb.closed => said = what)
  BY Zenon
<1> QED
  <2> HIDE DEF said
  <2> QED
    BY <1>1, <1>2, <1>3, Zenon

LEMMA FreedFine ==
  ASSUME NEW t, NEW w, Handled(t, w), NEW out, \A q \in out : Plain(q),
         NEW what, what \in Notification \ Up \/ (what = None /\ t.closed)
  PROVE  Fine(t, w, sctp_free_assoc(t, out, what)) /\ sctp_free_assoc(t, out, what).tcb = None
<1> DEFINE r == sctp_free_assoc(t, out, what)
<1>1. /\ IsResult(r) /\ r.tcb = None /\ r.out = out
      /\ r.say = IF t.closed THEN None ELSE what
  BY Zenon DEF sctp_free_assoc, IsResult
<1>2. t.closed => w \notin Up
  BY Zenon DEF Handled
<1> HIDE DEF r
<1>3. Says(r, w) \notin Up
  <2>1. CASE t.closed
    BY <1>1, <1>2, <2>1, Zenon DEF Says
  <2>2. CASE ~t.closed
    <3>1. what \notin Up /\ what # None /\ r.say = what
      BY <1>1, <2>2, Symbols, Zenon
    <3> QED
      BY <3>1, Zenon DEF Says
  <2> QED
    BY <2>1, <2>2, Zenon
<1>4. Fine(t, w, r)
  BY <1>1, <1>3, Zenon DEF Fine, Good
<1> QED
  BY <1>1, <1>4, Zenon DEF r

LEMMA PlainPackets ==
  ASSUME NEW n, NEW t \in Tcb
  PROVE  /\ Plain(sctp_send_shutdown(n, t)) /\ Plain(sctp_send_shutdown_ack(n, t))
         /\ Plain(sctp_send_sack(n, t)) /\ Plain(sctp_send_abort_tcb(n, t))
         /\ \A k \in Nat : Plain(DataChunk(n, t, k))
<1>1. t.peer \in Nat /\ t.my \in Nat /\ t.rcvd \in Nat
  BY Zenon DEF Tcb
<1> QED
  BY <1>1, Zenon DEF Plain, Handshake, Packet, sctp_send_shutdown, sctp_send_shutdown_ack,
              sctp_send_sack, sctp_send_abort_tcb, DataChunk

LEMMA AbortedFine ==
  ASSUME NEW n, NEW t, NEW w, Handled(t, w)
  PROVE  LET r == sctp_abort_an_association(n, t) IN Fine(t, w, r) /\ r.tcb = None
<1>1. t \in Tcb
  BY Zenon DEF Handled
<1>2. sctp_abort_notification(t) \in Notification \ Up
  BY Zenon DEF sctp_abort_notification, Notification, Up
<1> QED
  BY <1>1, <1>2, PlainPackets, FreedFine, Zenon DEF sctp_abort_an_association

LEMMA IgnoredFine ==
  ASSUME NEW t, NEW w, Handled(t, w), NEW out, \A q \in out : Plain(q)
  PROVE  Fine(t, w, Result(t, out))
<1>1. t # None
  BY Symbols, Zenon DEF Handled
<1>2. Keeps(t, t)
  BY Zenon DEF Keeps, FirstTry
<1> QED
  BY <1>1, <1>2, ResultIs DEF Fine, Good, Says

(* An edit of the error counter does not matter. *)
LEMMA SameHandled ==
  ASSUME NEW t, NEW w, Handled(t, w), NEW u, Alike(t, u), u.rxt = t.rxt, u.guard = t.guard
  PROVE  Handled(u, w)
  BY Zenon DEF Alike, Handled, HasOutput, FirstTry, Slot

LEMMA ErrReset ==
  ASSUME NEW t, NEW w, Handled(t, w), NEW e \in Nat
  PROVE  LET u == [t EXCEPT !.err = e] IN
         /\ Alike(t, u) /\ Handled(u, w) /\ Keeps(t, u)
         /\ u.rxt = t.rxt /\ u.guard = t.guard /\ u.echo = t.echo
<1> DEFINE u == [t EXCEPT !.err = e]
<1>0. t \in Tcb
  BY Zenon DEF Handled
<1>1. u \in Tcb
  BY <1>0, Zenon DEF Tcb
<1>2. Alike(t, u) /\ u.rxt = t.rxt /\ u.guard = t.guard /\ u.echo = t.echo
  BY <1>0, <1>1, Zenon DEF Tcb, Alike
<1> HIDE DEF u
<1>3. Handled(u, w)
  BY <1>2, SameHandled, Zenon
<1>4. Keeps(t, u)
  BY <1>2, Zenon DEF Keeps, FirstTry, Alike
<1> QED
  BY <1>2, <1>3, <1>4, Zenon DEF u

(* u is t in state s, but for its timers, tags and counters of errors. *)
Moved(t, u, s) ==
  /\ u \in Tcb /\ u.my = t.my /\ u.state = s
  /\ u.pending = t.pending /\ u.closed = t.closed
  /\ u.queued = t.queued /\ u.sent = t.sent /\ u.acked = t.acked
  /\ u.stale = t.stale /\ u.restarted = t.restarted

LEMMA StateSet ==
  ASSUME NEW t \in Tcb, NEW s \in Opening \cup Established
  PROVE  LET u == [t EXCEPT !.state = s] IN
         Moved(t, u, s) /\ u.rxt = t.rxt /\ u.guard = t.guard /\ u.echo = t.echo
<1> DEFINE u == [t EXCEPT !.state = s]
<1>1. u \in Tcb
  BY Zenon DEF Tcb
<1>2. Moved(t, u, s) /\ u.rxt = t.rxt /\ u.guard = t.guard /\ u.echo = t.echo
  BY <1>1, Zenon DEF Tcb, Moved
<1> QED
  BY <1>2, Zenon

LEMMA MovedAlike ==
  ASSUME NEW t, NEW u, NEW v, NEW s
  PROVE  /\ Alike(t, u) /\ Moved(u, v, s) => Moved(t, v, s)
         /\ Moved(t, u, s) /\ Alike(u, v) => Moved(t, v, s)
  BY Zenon DEF Alike, Moved

(* A TCB that enters OPEN with the right timer and the right notification. *)
LEMMA OpenedRight ==
  ASSUME NEW t, NEW w, Handled(t, w), NEW u, NEW x, Moved(t, u, "OPEN"),
         ~u.guard => ~t.guard,
         FirstTry(t) /\ ~t.guard => u.rxt = IF u.sent > u.acked THEN "SEND" ELSE "none",
         u.closed => x \notin Up, ~u.closed /\ u.stale = 0 => x \in Up
  PROVE  Handled(u, x)
<1>1. u \in Tcb /\ u.acked <= u.sent /\ u.state = "OPEN" /\ "OPEN" \in Established
  BY Zenon DEF Moved, Handled, Established
<1>2. FirstTry(u) /\ ~u.guard => u.rxt = Slot(u)
  <2>1. FirstTry(u) <=> FirstTry(t)
    BY Zenon DEF FirstTry, Moved
  <2>2. Slot(u) = IF u.sent > u.acked THEN "SEND" ELSE "none"
    BY <1>1, Zenon DEF Slot
  <2> QED
    BY <2>1, <2>2, Zenon
<1> QED
  BY <1>1, <1>2, Zenon DEF Handled

(* A TCB that is past its handshake keeps its timer when the cookie timers stop. *)
LEMMA SettledHandled ==
  ASSUME NEW t, NEW w, Handled(t, w), ~(t.state = "COOKIE_WAIT" /\ FirstTry(t)),
         t.state # "COOKIE_ECHOED"
  PROVE  LET y == StartSendTimer(sctp_toss_old_cookies(sctp_stop_all_cookie_timers(t))) IN
         Alike(t, y) /\ y.echo = None /\ Handled(y, w)
<1> DEFINE s == sctp_stop_all_cookie_timers(t)
           c == sctp_toss_old_cookies(s)
           y == StartSendTimer(c)
<1>0. t \in Tcb
  BY Zenon DEF Handled
<1>1. /\ Alike(t, s) /\ s.guard = t.guard /\ s.echo = t.echo
      /\ s.rxt = IF t.rxt \in {"INIT", "COOKIE"} THEN "none" ELSE t.rxt
  BY <1>0, CookieTimersStop, Zenon
<1> HIDE DEF s
<1>3. Alike(s, c) /\ c.rxt = s.rxt /\ c.guard = s.guard /\ c.echo = None
  BY <1>1, CookiesTossed, Zenon DEF Alike
<1> HIDE DEF c
<1>4. /\ Alike(c, y) /\ y.guard = c.guard /\ y.echo = c.echo
      /\ y.rxt = IF c.sent > c.acked /\ c.rxt = "none" THEN "SEND" ELSE c.rxt
  BY <1>3, SendTimerStarts, Zenon DEF Alike
<1> HIDE DEF y
<1>5. Alike(t, y)
  BY <1>1, <1>3, <1>4, AlikeTwice, Zenon
<1>6. FirstTry(t) /\ ~t.guard => y.rxt = t.rxt
  <2> SUFFICES ASSUME FirstTry(t), ~t.guard PROVE y.rxt = t.rxt
    BY Zenon
  <2>1. t.rxt = Slot(t) /\ t.state \in Established \ {"SHUTDOWN_SENT"}
    BY <1>0, Zenon DEF Handled, Tcb, Opening
  <2>2. t.state = "SHUTDOWN_ACK_SENT" => ~(t.sent > t.acked)
    BY Zenon DEF Handled, HasOutput
  <2>3. s.rxt = t.rxt /\ (t.sent > t.acked => t.rxt = "SEND")
    BY <2>1, <2>2, <1>1, Zenon DEF Slot, Established
  <2> QED
    BY <2>3, <1>1, <1>3, <1>4, Zenon DEF Alike
<1>7. Handled(y, w)
  <2>1. Slot(y) = Slot(t) /\ (FirstTry(y) <=> FirstTry(t)) /\ y.guard = t.guard
    BY <1>5, <1>1, <1>3, <1>4, Zenon DEF Alike, Slot, FirstTry
  <2> QED
    BY <2>1, <1>5, <1>6, Zenon DEF Alike, Handled, HasOutput
<1> QED
  BY <1>3, <1>4, <1>5, <1>7, Zenon DEF y, c, s

LEMMA CookieAckHandled ==
  ASSUME NEW t, NEW w, Handled(t, w), ~(t.state = "COOKIE_WAIT" /\ FirstTry(t))
  PROVE  LET r == sctp_handle_cookie_ack(t) IN Fine(t, w, r) /\ r.tcb # None
<1> DEFINE s == sctp_stop_all_cookie_timers(t)
           o == [s EXCEPT !.state = "OPEN"]
           g == GuardIfPending(o)
<1>0. t \in Tcb /\ "OPEN" \in Opening \cup Established
  BY Zenon DEF Handled, Established
<1>1. /\ Alike(t, s) /\ s.guard = t.guard /\ s.echo = t.echo
      /\ s.rxt = IF t.rxt \in {"INIT", "COOKIE"} THEN "none" ELSE t.rxt
  BY <1>0, CookieTimersStop, Zenon
<1>2. CASE t.state = "COOKIE_ECHOED"
  <2> DEFINE c == sctp_toss_old_cookies(g)
             y == StartSendTimer(c)
             r == Result(y, {})
  <2>1. Moved(s, o, "OPEN") /\ o.rxt = s.rxt /\ o.guard = s.guard
    <3> HIDE DEF s
    <3> QED
      BY <1>0, <1>1, StateSet, Zenon DEF Alike
  <2> HIDE DEF s, o
  <2>2. Alike(o, g) /\ g.rxt = o.rxt /\ (g.guard <=> o.guard \/ o.pending)
    BY <2>1, GuardStarts, Zenon DEF Moved
  <2> HIDE DEF g
  <2>3. Alike(g, c) /\ c.rxt = g.rxt /\ c.guard = g.guard /\ c.echo = None
    BY <2>2, CookiesTossed, Zenon DEF Alike
  <2> HIDE DEF c
  <2>4. /\ Alike(c, y) /\ y.guard = c.guard /\ y.echo = c.echo
        /\ y.rxt = IF c.sent > c.acked /\ c.rxt = "none" THEN "SEND" ELSE c.rxt
    BY <2>3, SendTimerStarts, Zenon DEF Alike
  <2> HIDE DEF y
  <2>5. Moved(t, y, "OPEN")
    BY <1>1, <2>1, <2>2, <2>3, <2>4, MovedAlike, Zenon
  <2>6. ~y.guard => ~t.guard
    BY <1>1, <2>1, <2>2, <2>3, <2>4, Zenon
  <2>7. FirstTry(t) /\ ~t.guard => y.rxt = IF y.sent > y.acked THEN "SEND" ELSE "none"
    <3> SUFFICES ASSUME FirstTry(t), ~t.guard
                 PROVE  y.rxt = IF y.sent > y.acked THEN "SEND" ELSE "none"
      BY Zenon
    <3>1. t.rxt = "COOKIE"
      BY <1>2, Zenon DEF Handled, Slot
    <3>2. c.rxt = "none"
      BY <3>1, <1>1, <2>1, <2>2, <2>3, Zenon
    <3> QED
      BY <3>2, <2>4, Zenon DEF Alike
  <2>8. sctp_handle_cookie_ack(t) = Told(r, "COMM_UP")
    BY <1>2, Zenon DEF sctp_handle_cookie_ack, y, c, g, o, s
  <2>9. /\ IsResult(r) /\ r.tcb = y /\ r.out = {} /\ y # None
    BY <2>4, ResultIs, Symbols DEF Alike
  <2> HIDE DEF r
  <2>10. LET z == Told(r, "COMM_UP") IN
         /\ IsResult(z) /\ z.tcb = y /\ z.out = {}
         /\ y.closed => z.say = None
         /\ ~y.closed => z.say = "COMM_UP"
    <3>1. y.closed \in BOOLEAN
      BY <2>5, Zenon DEF Moved, Tcb
    <3> QED
      BY <3>1, <2>9, ToldIs, Zenon
  <2> DEFINE z == Told(r, "COMM_UP")
  <2> HIDE DEF z
  <2>11. (y.closed => Says(z, w) \notin Up) /\ (~y.closed => Says(z, w) \in Up)
    <3>1. y.closed => w \notin Up
      BY <2>5, Zenon DEF Moved, Handled
    <3>2. None # "COMM_UP" /\ "COMM_UP" \in Up
      BY Symbols, Zenon DEF Notification, Up
    <3> QED
      BY <3>1, <3>2, <2>10, Zenon DEF Says, z
  <2>12. Handled(y, Says(z, w))
    BY <2>5, <2>6, <2>7, <2>11, OpenedRight, Zenon
  <2>13. Keeps(t, y)
    BY <2>3, <2>4, <2>5, Zenon DEF Keeps, FirstTry, Moved, Opening
  <2> QED
    BY <2>8, <2>9, <2>10, <2>12, <2>13, Zenon DEF Fine, Good, z
<1>3. CASE t.state # "COOKIE_ECHOED"
  <2> DEFINE y == StartSendTimer(sctp_toss_old_cookies(s))
             r == Result(y, {})
  <2>1. Alike(t, y) /\ y.echo = None /\ Handled(y, w)
    BY <1>3, SettledHandled, Zenon
  <2>2. sctp_handle_cookie_ack(t) = r
    BY <1>3, Zenon DEF sctp_handle_cookie_ack
  <2> HIDE DEF y
  <2>3. Keeps(t, y)
    BY <2>1, Zenon DEF Keeps, FirstTry, Alike
  <2>4. IsResult(r) /\ r.tcb = y /\ r.out = {} /\ r.say = None /\ y # None
    BY <2>1, ResultIs, Symbols DEF Alike
  <2> HIDE DEF r
  <2> QED
    BY <2>1, <2>2, <2>3, <2>4, Zenon DEF Fine, Good, Says
<1> QED
  BY <1>2, <1>3, Zenon

LEMMA ErrResetKeeps ==
  ASSUME NEW t, NEW w, Handled(t, w), NEW r, Fine([t EXCEPT !.err = 0], w, r)
  PROVE  Fine(t, w, r)
<1> DEFINE u == [t EXCEPT !.err = 0]
<1>1. Alike(t, u) /\ u.echo = t.echo
  BY ErrReset, Zenon
<1> HIDE DEF u
<1> QED
  BY <1>1, Zenon DEF Fine, Good, Keeps, FirstTry, Alike, u

LEMMA CookieAckFine ==
  ASSUME NEW t, NEW w, Handled(t, w), ~(t.state = "COOKIE_WAIT" /\ FirstTry(t))
  PROVE  Fine(t, w, CookieAck(t))
<1> DEFINE u == [t EXCEPT !.err = 0]
<1>1. Handled(u, w) /\ u.state = t.state /\ (FirstTry(u) <=> FirstTry(t))
  <2>1. Handled(u, w) /\ Alike(t, u)
    BY ErrReset, Zenon
  <2> QED
    BY <2>1, Zenon DEF Alike, FirstTry
<1>2. Fine(t, w, sctp_handle_cookie_ack(u))
  <2>1. Fine(u, w, sctp_handle_cookie_ack(u))
    <3> HIDE DEF u
    <3> QED
      BY <1>1, CookieAckHandled, Zenon
  <2> QED
    BY <2>1, ErrResetKeeps, Zenon
<1>3. t.closed => Fine(t, w, sctp_free_assoc(t, {}, None))
  BY FreedFine, Zenon
<1> QED
  BY <1>2, <1>3, Zenon DEF CookieAck

LEMMA ImpliedFine ==
  ASSUME NEW t, NEW w, Handled(t, w)
  PROVE  LET r == ImpliesCookieAck(t) IN
         Fine(t, w, r) /\ r.tcb # None /\ r.tcb.state # "COOKIE_ECHOED"
<1> DEFINE u == [t EXCEPT !.err = 0]
           r == sctp_handle_cookie_ack(u)
<1>1. CASE t.state = "COOKIE_ECHOED"
  <2>1. Handled(u, w) /\ Alike(t, u)
    BY ErrReset, Zenon
  <2>2. u.state = t.state
    BY <2>1, Zenon DEF Alike
  <2>3. Fine(u, w, r) /\ r.tcb # None
    <3> HIDE DEF u
    <3> QED
      BY <1>1, <2>1, <2>2, CookieAckHandled, Zenon
  <2>4. Fine(t, w, r)
    BY <2>3, ErrResetKeeps, Zenon
  <2>5. r.tcb.state = "OPEN"
    <3> HIDE DEF u
    <3> DEFINE s == sctp_stop_all_cookie_timers(u)
               o == [s EXCEPT !.state = "OPEN"]
               g == GuardIfPending(o)
               c == sctp_toss_old_cookies(g)
               y == StartSendTimer(c)
    <3>1. Alike(u, s)
      BY <2>1, CookieTimersStop, Zenon DEF Handled
    <3>2. o \in Tcb /\ o.state = "OPEN"
      <4> HIDE DEF s
      <4> QED
        BY <3>1, StateSet, Zenon DEF Alike, Moved, Established
    <3> HIDE DEF o
    <3>3. g \in Tcb /\ g.state = "OPEN"
      BY <3>2, GuardStarts, Zenon DEF Alike
    <3> HIDE DEF g
    <3>4. c \in Tcb /\ c.state = "OPEN"
      BY <3>3, CookiesTossed, Zenon DEF Alike
    <3> HIDE DEF c
    <3>5. y \in Tcb /\ y.state = "OPEN"
      BY <3>4, SendTimerStarts, Zenon DEF Alike
    <3>6. r = Told(Result(y, {}), "COMM_UP")
      BY <1>1, <2>2, Zenon DEF sctp_handle_cookie_ack, y, c, g, o
    <3> HIDE DEF y
    <3>7. IsResult(Result(y, {})) /\ Result(y, {}).tcb = y
      BY ResultIs, Zenon
    <3>8. y # None /\ y.closed \in BOOLEAN
      BY <3>5, Symbols, Zenon DEF Tcb
    <3> QED
      BY <3>5, <3>6, <3>7, <3>8, ToldIs
  <2> QED
    BY <1>1, <2>3, <2>4, <2>5, Zenon DEF ImpliesCookieAck
<1>2. CASE t.state # "COOKIE_ECHOED"
  <2>1. t # None /\ Ignored(t).tcb = t
    BY ResultIs, Symbols, Zenon DEF Handled, Ignored
  <2> QED
    BY <1>2, <2>1, IgnoredFine, Zenon DEF Ignored, ImpliesCookieAck
<1> QED
  BY <1>1, <1>2, Zenon

-----------------------------------------------------------------------------
(* The packets of s are those of r, and others outside the handshake. *)
OutGrows(r, s) == \A q \in s.out : q \in r.out \/ Plain(q)

LEMMA AbortGood ==
  ASSUME NEW n, NEW t, NEW w, NEW r, Good(t, w, r), r.tcb # None
  PROVE  LET s == sctp_abort_an_association(n, r.tcb) IN Fine(t, w, s) /\ s.tcb = None
<1> DEFINE u == r.tcb
           x == Says(r, w)
           s == sctp_abort_an_association(n, u)
<1>1. Handled(u, x) /\ (u.closed => r.say = None)
  BY Zenon DEF Good
<1>2. Fine(u, x, s) /\ s.tcb = None
  BY <1>1, AbortedFine, Zenon
<1>3. Says(s, w) \notin Up
  <2>1. s.say = IF u.closed THEN None ELSE sctp_abort_notification(u)
    BY Zenon DEF sctp_abort_an_association, sctp_free_assoc
  <2>2. CASE u.closed
    <3>1. Says(s, w) = w /\ x = w
      BY <1>1, <2>1, <2>2, Zenon DEF Says
    <3> QED
      BY <3>1, <1>1, <2>2, Zenon DEF Handled
  <2>3. CASE ~u.closed
    <3>1. sctp_abort_notification(u) \in Notification \ Up
      BY Zenon DEF sctp_abort_notification, Notification, Up
    <3>2. s.say = sctp_abort_notification(u)
      BY <2>1, <2>3, Zenon
    <3> HIDE DEF s
    <3> QED
      BY <3>1, <3>2, Symbols, Zenon DEF Says
  <2> QED
    BY <2>2, <2>3, Zenon
<1> QED
  BY <1>2, <1>3, Zenon DEF Fine, Good

LEMMA ProcessDataGood ==
  ASSUME NEW n, NEW t, NEW w, NEW r, Good(t, w, r), r.tcb # None,
         NEW from, NEW first, NEW last \in Nat
  PROVE  LET s == sctp_process_data(n, r, from, first, last) IN
         Good(t, w, s) /\ OutGrows(r, s)
<1> DEFINE k == IF from = r.tcb.peer /\ first <= r.tcb.rcvd + 1 /\ last > r.tcb.rcvd
                THEN last ELSE r.tcb.rcvd
           u == [r.tcb EXCEPT !.rcvd = k]
           out == {IF u.state = "SHUTDOWN_SENT" THEN sctp_send_shutdown(n, u)
                                                ELSE sctp_send_sack(n, u)}
           s == [r EXCEPT !.tcb = u, !.out = @ \cup out]
<1>1. IsResult(r) /\ Handled(r.tcb, Says(r, w)) /\ r.tcb \in Tcb /\ Keeps(t, r.tcb)
  BY Zenon DEF Good, Handled
<1>2. k \in Nat
  BY <1>1, Zenon DEF Tcb
<1>3. /\ Alike(r.tcb, u) /\ u.rxt = r.tcb.rxt /\ u.guard = r.tcb.guard /\ u.echo = r.tcb.echo
  <2> HIDE DEF k
  <2>1. u \in Tcb
    BY <1>1, <1>2, Zenon DEF Tcb
  <2> QED
    BY <1>1, <2>1, Zenon DEF Tcb, Alike
<1> HIDE DEF u
<1>4. Handled(u, Says(r, w))
  BY <1>1, <1>3, SameHandled, Zenon
<1>5. \A q \in out : Plain(q)
  BY <1>3, PlainPackets, Zenon DEF Alike
<1> HIDE DEF out
<1>6. IsResult(s) /\ s.tcb = u /\ s.out = r.out \cup out /\ s.say = r.say
  BY <1>1, Zenon DEF IsResult
<1> HIDE DEF s
<1>7. Good(t, w, s) /\ OutGrows(r, s)
  <2>1. u # None /\ Says(s, w) = Says(r, w)
    BY <1>3, <1>6, Symbols, Zenon DEF Alike, Says
  <2>2. Keeps(t, u) /\ (u.closed => s.say = None)
    BY <1>1, <1>3, <1>6, Zenon DEF Keeps, FirstTry, Alike, Good
  <2> QED
    BY <1>4, <1>5, <1>6, <2>1, <2>2, Zenon DEF Good, OutGrows
<1>8. Good(t, w, r) /\ OutGrows(r, r)
  BY Zenon DEF OutGrows
<1>9. LET a == sctp_abort_an_association(n, r.tcb) IN Good(t, w, a) /\ OutGrows(r, a)
  BY AbortGood, Zenon DEF Fine, OutGrows
<1> QED
  BY <1>7, <1>8, <1>9, Zenon DEF sctp_process_data, s, u, k, out

-----------------------------------------------------------------------------
(* v may enter a state of the shutdown: all it had to send is acknowledged and *)
(* its application knows of the association.                                   *)
Ready(v, x) ==
  /\ v \in Tcb /\ v.acked <= v.sent /\ ~HasOutput(v)
  /\ v.closed => x \notin Up
  /\ ~v.closed /\ v.stale = 0 => x \in Up

LEMMA ToShutdownSentGood ==
  ASSUME NEW n, NEW t, NEW w, NEW r, IsResult(r), Ready(r.tcb, Says(r, w)), Keeps(t, r.tcb),
         r.tcb.closed => r.say = None
  PROVE  LET s == ToShutdownSent(n, r) IN
         Good(t, w, s) /\ OutGrows(r, s) /\ s.tcb # None /\ s.tcb.state = "SHUTDOWN_SENT"
<1> DEFINE v == r.tcb
           u == [v EXCEPT !.state = "SHUTDOWN_SENT", !.pending = FALSE, !.guard = TRUE]
           y == sctp_timer_start(u, "SHUTDOWN")
           out == {sctp_send_shutdown(n, y)}
           s == [r EXCEPT !.tcb = y, !.out = @ \cup out]
<1>1. v \in Tcb
  BY Zenon DEF Ready
<1>2. u \in Tcb
  <2> HIDE DEF v
  <2> QED
    BY <1>1, Zenon DEF Tcb, Established
<1>3. /\ u.state = "SHUTDOWN_SENT" /\ u.guard = TRUE /\ u.my = v.my /\ u.echo = v.echo
      /\ u.closed = v.closed /\ u.stale = v.stale /\ u.restarted = v.restarted
      /\ u.queued = v.queued /\ u.sent = v.sent /\ u.acked = v.acked
  BY <1>1, Zenon DEF Tcb
<1> HIDE DEF u
<1>4. Alike(u, y) /\ y.guard = u.guard /\ y.echo = u.echo
  BY <1>2, TimerStart, Zenon DEF TimerType
<1> HIDE DEF y
<1>5. Handled(y, Says(r, w))
  <2>1. y \in Tcb /\ y.acked <= y.sent /\ ~HasOutput(y) /\ y.guard
    BY <1>3, <1>4, Zenon DEF Alike, Ready, HasOutput
  <2>2. (y.closed => Says(r, w) \notin Up) /\ (~y.closed /\ y.stale = 0 => Says(r, w) \in Up)
    BY <1>3, <1>4, Zenon DEF Alike, Ready
  <2>3. y.state = "SHUTDOWN_SENT" /\ "SHUTDOWN_SENT" \in Established
    BY <1>3, <1>4, Zenon DEF Alike, Established
  <2> QED
    BY <2>1, <2>2, <2>3, Zenon DEF Handled
<1>6. IsResult(s) /\ s.tcb = y /\ s.out = r.out \cup out /\ s.say = r.say
  BY Zenon DEF IsResult
<1>7. \A q \in out : Plain(q)
  BY <1>4, PlainPackets, Zenon DEF Alike
<1>8. s = ToShutdownSent(n, r)
  BY Zenon DEF ToShutdownSent, y, u
<1> HIDE DEF out, s
<1>9. y # None /\ Says(s, w) = Says(r, w) /\ (y.closed => s.say = None)
  BY <1>3, <1>4, <1>6, Symbols, Zenon DEF Alike, Says
<1>10. Keeps(t, y) /\ y.state = "SHUTDOWN_SENT"
  BY <1>3, <1>4, Zenon DEF Keeps, FirstTry, Alike, Opening
<1> QED
  BY <1>5, <1>6, <1>7, <1>8, <1>9, <1>10, Zenon DEF Good, OutGrows

LEMMA ToShutdownAckSentGood ==
  ASSUME NEW n, NEW t, NEW w, NEW r, IsResult(r), Ready(r.tcb, Says(r, w)), Keeps(t, r.tcb),
         r.tcb.closed => r.say = None, FirstTry(r.tcb) /\ ~r.tcb.guard => r.tcb.rxt = "none"
  PROVE  LET s == ToShutdownAckSent(n, r) IN
         Good(t, w, s) /\ OutGrows(r, s) /\ s.tcb # None /\ s.tcb.state = "SHUTDOWN_ACK_SENT"
<1> DEFINE v == r.tcb
           u == [v EXCEPT !.state = "SHUTDOWN_ACK_SENT", !.pending = FALSE]
           y == sctp_timer_start(u, "SHUTDOWNACK")
           out == {sctp_send_shutdown_ack(n, y)}
           s == [r EXCEPT !.tcb = y, !.out = @ \cup out]
<1>1. v \in Tcb
  BY Zenon DEF Ready
<1>2. u \in Tcb
  <2> HIDE DEF v
  <2> QED
    BY <1>1, Zenon DEF Tcb, Established
<1>3. /\ u.state = "SHUTDOWN_ACK_SENT" /\ u.guard = v.guard /\ u.my = v.my /\ u.echo = v.echo
      /\ u.closed = v.closed /\ u.stale = v.stale /\ u.restarted = v.restarted
      /\ u.queued = v.queued /\ u.sent = v.sent /\ u.acked = v.acked /\ u.rxt = v.rxt
  BY <1>1, Zenon DEF Tcb
<1> HIDE DEF u
<1>4. /\ Alike(u, y) /\ y.guard = u.guard /\ y.echo = u.echo
      /\ y.rxt = IF u.rxt = "none" THEN "SHUTDOWNACK" ELSE u.rxt
  BY <1>2, TimerStart, Zenon DEF TimerType
<1> HIDE DEF y
<1>5. Handled(y, Says(r, w))
  <2>1. y \in Tcb /\ y.acked <= y.sent /\ ~HasOutput(y)
    BY <1>3, <1>4, Zenon DEF Alike, Ready, HasOutput
  <2>2. (y.closed => Says(r, w) \notin Up) /\ (~y.closed /\ y.stale = 0 => Says(r, w) \in Up)
    BY <1>3, <1>4, Zenon DEF Alike, Ready
  <2>3. y.state = "SHUTDOWN_ACK_SENT" /\ "SHUTDOWN_ACK_SENT" \in Established
    BY <1>3, <1>4, Zenon DEF Alike, Established
  <2>4. FirstTry(y) /\ ~y.guard => y.rxt = Slot(y)
    BY <1>3, <1>4, <2>3, Zenon DEF Alike, FirstTry, Slot
  <2> QED
    BY <2>1, <2>2, <2>3, <2>4, Zenon DEF Handled
<1>6. IsResult(s) /\ s.tcb = y /\ s.out = r.out \cup out /\ s.say = r.say
  BY Zenon DEF IsResult
<1>7. \A q \in out : Plain(q)
  BY <1>4, PlainPackets, Zenon DEF Alike
<1>8. s = ToShutdownAckSent(n, r)
  BY Zenon DEF ToShutdownAckSent, y, u
<1> HIDE DEF out, s
<1>9. y # None /\ Says(s, w) = Says(r, w) /\ (y.closed => s.say = None)
  BY <1>3, <1>4, <1>6, Symbols, Zenon DEF Alike, Says
<1>10. Keeps(t, y) /\ y.state = "SHUTDOWN_ACK_SENT"
  BY <1>3, <1>4, Zenon DEF Keeps, FirstTry, Alike, Opening
<1> QED
  BY <1>5, <1>6, <1>7, <1>8, <1>9, <1>10, Zenon DEF Good, OutGrows

LEMMA ExpressSackGood ==
  ASSUME NEW n, NEW t, NEW w, NEW r, Good(t, w, r), r.tcb # None,
         r.tcb.state # "COOKIE_ECHOED", NEW k \in Nat
  PROVE  LET s == sctp_express_handle_sack(n, r, k) IN Good(t, w, s) /\ OutGrows(r, s)
<1> DEFINE c == r.tcb
           x == Says(r, w)
           u == [c EXCEPT !.acked = k, !.err = 0]
           v == IF u.sent > u.acked THEN u ELSE sctp_timer_stop(u, "SEND")
           q == [r EXCEPT !.tcb = v]
<1>1. IsResult(r) /\ Handled(c, x) /\ c \in Tcb /\ Keeps(t, c) /\ (c.closed => r.say = None)
  BY Zenon DEF Good, Handled
<1>2. Good(t, w, r) /\ OutGrows(r, r)
  BY Zenon DEF OutGrows
<1>3. LET a == sctp_abort_an_association(n, c) IN Good(t, w, a) /\ OutGrows(r, a)
  BY AbortGood, Zenon DEF Fine, OutGrows
<1>4. ASSUME ~(k <= c.acked), ~(k > c.sent)
      PROVE  LET s == AfterLastAck(n, q) IN Good(t, w, s) /\ OutGrows(r, s)
  <2> HIDE DEF c, x
  <2>1. u \in Tcb
    BY <1>1, Zenon DEF Tcb
  <2>2. /\ u.state = c.state /\ u.guard = c.guard /\ u.my = c.my /\ u.echo = c.echo
        /\ u.closed = c.closed /\ u.stale = c.stale /\ u.restarted = c.restarted
        /\ u.queued = c.queued /\ u.sent = c.sent /\ u.acked = k /\ u.rxt = c.rxt
        /\ u.pending = c.pending
    BY <1>1, Zenon DEF Tcb
  <2> HIDE DEF u
  <2>3. /\ v \in Tcb /\ v.state = c.state /\ v.guard = c.guard /\ v.my = c.my /\ v.echo = c.echo
        /\ v.closed = c.closed /\ v.stale = c.stale /\ v.restarted = c.restarted
        /\ v.queued = c.queued /\ v.sent = c.sent /\ v.acked = k /\ v.pending = c.pending
        /\ v.rxt = IF ~(c.sent > k) /\ c.rxt = "SEND" THEN "none" ELSE c.rxt
    BY <2>1, <2>2, TimerStop DEF Alike
  <2> HIDE DEF v
  <2>4. c.sent \in Nat /\ c.acked \in Nat /\ v.acked <= v.sent /\ c.sent > c.acked
    BY <1>1, <1>4, <2>3 DEF Tcb
  <2>5. c.state \in {"COOKIE_WAIT", "OPEN", "SHUTDOWN_RECEIVED"}
        /\ (c.state = "COOKIE_WAIT" => c.stale # 0)
    <3>1. HasOutput(c) /\ c.sent # 0
      BY <2>4 DEF HasOutput
    <3> QED
      BY <1>1, <3>1, Zenon DEF Handled, Tcb, Opening, Established, c
  <2>6. IsResult(q) /\ q.tcb = v /\ q.out = r.out /\ q.say = r.say
    BY <1>1, Zenon DEF IsResult
  <2> HIDE DEF q
  <2>7. Says(q, w) = x /\ Keeps(t, v) /\ (v.closed => q.say = None) /\ OutGrows(r, q)
    BY <1>1, <2>3, <2>6, Zenon DEF Says, Keeps, FirstTry, OutGrows, x
  <2>8. FirstTry(v) /\ ~v.guard =>
          v.rxt = (IF v.sent > v.acked THEN "SEND" ELSE "none") /\ v.state # "COOKIE_WAIT"
    <3> SUFFICES ASSUME FirstTry(v), ~v.guard
                 PROVE  v.rxt = (IF v.sent > v.acked THEN "SEND" ELSE "none")
                        /\ v.state # "COOKIE_WAIT"
      BY Zenon
    <3>1. FirstTry(c) /\ ~c.guard /\ c.stale = 0
      BY <2>3, Zenon DEF FirstTry
    <3>2. c.rxt = Slot(c) /\ c.state \in {"OPEN", "SHUTDOWN_RECEIVED"}
      BY <3>1, <2>5, <1>1, Zenon DEF Handled
    <3>3. c.rxt = "SEND"
      BY <3>2, <2>4, Zenon DEF Slot
    <3> QED
      BY <3>2, <3>3, <2>3, Zenon
  <2>9. ASSUME HasOutput(v) \/ (~v.pending /\ v.state # "SHUTDOWN_RECEIVED")
        PROVE  Good(t, w, q)
    <3>1. (v.closed => x \notin Up)
          /\ (~v.closed /\ v.stale = 0 => (x \in Up <=> v.state \in Established))
      BY <1>1, <2>3, Zenon DEF Handled
    <3>2. FirstTry(v) /\ ~v.guard => v.rxt = Slot(v) /\ v.state # "SHUTDOWN_SENT"
      BY <2>8, <2>3, <2>5, Zenon DEF Slot
    <3>3. v.state \in {"COOKIE_WAIT", "OPEN", "SHUTDOWN_RECEIVED"}
          /\ (v.state = "COOKIE_WAIT" => v.stale # 0)
      BY <2>3, <2>5, Zenon
    <3>4. Handled(v, x)
      BY <2>3, <2>4, <2>9, <3>1, <3>2, <3>3, Zenon DEF Handled
    <3> QED
      BY <2>3, <2>6, <2>7, <3>4, Symbols, Zenon DEF Good
  <2>10. ~HasOutput(v) => Ready(v, x)
    <3>1. (v.closed => x \notin Up) /\ (~v.closed /\ v.stale = 0 => x \in Up)
      <4>1. c.stale = 0 => c.state \in Established
        BY <2>5, Zenon DEF Established
      <4> QED
        BY <1>1, <2>3, <4>1, Zenon DEF Handled
    <3> QED
      BY <2>3, <2>4, <3>1, Zenon DEF Ready
  <2>11. CASE HasOutput(v)
    BY <2>6, <2>7, <2>9, <2>11, Zenon DEF AfterLastAck
  <2>12. CASE ~HasOutput(v) /\ v.pending
    <3>1. Good(t, w, ToShutdownSent(n, q)) /\ OutGrows(q, ToShutdownSent(n, q))
      BY <2>6, <2>7, <2>10, <2>12, ToShutdownSentGood, Zenon
    <3> QED
      BY <2>6, <2>12, <3>1, Zenon DEF AfterLastAck, OutGrows
  <2>13. CASE ~HasOutput(v) /\ ~v.pending /\ v.state = "SHUTDOWN_RECEIVED"
    <3>1. FirstTry(v) /\ ~v.guard => v.rxt = "none"
      BY <2>8, <2>13, Zenon DEF HasOutput
    <3>2. Good(t, w, ToShutdownAckSent(n, q)) /\ OutGrows(q, ToShutdownAckSent(n, q))
      BY <2>6, <2>7, <2>10, <2>13, <3>1, ToShutdownAckSentGood, Zenon
    <3> QED
      BY <2>6, <2>13, <3>2, Zenon DEF AfterLastAck, OutGrows
  <2>14. CASE ~HasOutput(v) /\ ~v.pending /\ v.state # "SHUTDOWN_RECEIVED"
    BY <2>6, <2>7, <2>9, <2>14, Zenon DEF AfterLastAck
  <2> QED
    BY <2>11, <2>12, <2>13, <2>14, Zenon
<1> QED
  BY <1>2, <1>3, <1>4, Zenon DEF sctp_express_handle_sack

LEMMA FineFrom ==
  ASSUME NEW t, NEW w, NEW r, NEW s, Good(t, w, s), OutGrows(r, s), \A q \in r.out : Plain(q)
  PROVE  Fine(t, w, s)
  BY Zenon DEF Fine, OutGrows

LEMMA SackFine ==
  ASSUME NEW n, NEW t, NEW w, Handled(t, w), NEW k \in Nat
  PROVE  Fine(t, w, Sack(n, t, k))
<1> DEFINE r == ImpliesCookieAck(t)
           c == r.tcb
           v == sctp_timer_stop(c, "SEND")
           s == [r EXCEPT !.tcb = v]
<1>1. Fine(t, w, r) /\ c # None /\ c.state # "COOKIE_ECHOED"
  BY ImpliedFine, Zenon
<1> HIDE DEF r
<1>2. /\ IsResult(r) /\ Handled(c, Says(r, w)) /\ c \in Tcb /\ Keeps(t, c)
      /\ (c.closed => r.say = None) /\ \A q \in r.out : Plain(q)
  BY <1>1, Zenon DEF Fine, Good, Handled
<1>3. Fine(t, w, sctp_express_handle_sack(n, r, k))
  <2>1. Good(t, w, r)
    BY <1>1, Zenon DEF Fine
  <2>2. Good(t, w, sctp_express_handle_sack(n, r, k))
        /\ OutGrows(r, sctp_express_handle_sack(n, r, k))
    BY <1>1, <2>1, ExpressSackGood, Zenon
  <2> QED
    BY <1>2, <2>2, FineFrom, Zenon
<1>4. ASSUME ~HasOutput(c) PROVE Fine(t, w, s)
  <2>1. /\ Alike(c, v) /\ v.guard = c.guard /\ v.echo = c.echo
        /\ v.rxt = IF c.rxt = "SEND" THEN "none" ELSE c.rxt
    BY <1>2, TimerStop, Zenon
  <2>2. IsResult(s) /\ s.tcb = v /\ s.out = r.out /\ s.say = r.say
    BY <1>2, Zenon DEF IsResult
  <2> HIDE DEF v, s
  <2>3. Handled(v, Says(r, w))
    <3>1. FirstTry(c) /\ ~c.guard => c.rxt # "SEND"
      BY <1>2, <1>4, Zenon DEF Handled, Slot, HasOutput
    <3>2. Slot(v) = Slot(c) /\ (FirstTry(v) <=> FirstTry(c))
      BY <2>1, Zenon DEF Alike, Slot, FirstTry
    <3> QED
      BY <1>2, <2>1, <3>1, <3>2, Zenon DEF Handled, Alike, HasOutput
  <2>4. Keeps(t, v) /\ (v.closed => s.say = None) /\ Says(s, w) = Says(r, w) /\ v # None
    BY <1>2, <2>1, <2>2, Symbols, Zenon DEF Keeps, FirstTry, Alike, Says
  <2> QED
    BY <1>2, <2>2, <2>3, <2>4, Zenon DEF Fine, Good
<1>5. Fine(t, w, Ignored(t))
  BY IgnoredFine, Zenon DEF Ignored
<1> QED
  BY <1>3, <1>4, <1>5, Zenon DEF Sack, sctp_handle_sack, r, s, v

LEMMA ShutdownFine ==
  ASSUME NEW n, NEW t, NEW w, Handled(t, w), NEW k \in Nat
  PROVE  Fine(t, w, sctp_handle_shutdown(n, t, k))
<1> DEFINE r == sctp_express_handle_sack(n, Ignored(t), k)
           c == r.tcb
           x == Says(r, w)
           o == [c EXCEPT !.state = "SHUTDOWN_RECEIVED", !.pending = FALSE]
           u == IF ~t.closed /\ c.state = "OPEN" THEN o ELSE c
           v == IF u.state = "SHUTDOWN_SENT" THEN sctp_timer_stop(u, "SHUTDOWN") ELSE u
           s == [r EXCEPT !.tcb = v]
           out == {sctp_send_shutdown_ack(n, v)}
<1>1. Fine(t, w, Ignored(t)) /\ Ignored(t).tcb = t /\ Ignored(t).out = {} /\ t # None
  BY IgnoredFine, ResultIs, Symbols, Zenon DEF Ignored, Handled
<1>2. ASSUME t.state \in Opening PROVE Fine(t, w, sctp_handle_shutdown(n, t, k))
  BY <1>1, <1>2, Zenon DEF sctp_handle_shutdown
<1>3. ASSUME t.state \notin Opening PROVE Fine(t, w, sctp_handle_shutdown(n, t, k))
  <2>1. Good(t, w, r) /\ OutGrows(Ignored(t), r)
    <3>1. Good(t, w, Ignored(t)) /\ t.state # "COOKIE_ECHOED"
      BY <1>1, <1>3, Zenon DEF Fine, Opening
    <3> QED
      BY <1>1, <3>1, ExpressSackGood, Zenon
  <2>2. Fine(t, w, r)
    BY <1>1, <2>1, FineFrom, Zenon
  <2>3. CASE c = None
    BY <1>3, <2>2, <2>3, Zenon DEF sctp_handle_shutdown
  <2>4. CASE c # None
    <3> HIDE DEF r
    <3>1. /\ IsResult(r) /\ Handled(c, x) /\ c \in Tcb /\ Keeps(t, c)
          /\ (c.closed => r.say = None) /\ \A q \in r.out : Plain(q)
      BY <2>2, <2>4, Zenon DEF Fine, Good, Handled
    <3>2. c.state \in Established /\ c.closed = t.closed
      BY <1>3, <3>1, Zenon DEF Keeps, FirstTry, Tcb
    <3> HIDE DEF c, x
    <3>3. o \in Tcb
      BY <3>1, Zenon DEF Tcb, Established
    <3>4. /\ o.state = "SHUTDOWN_RECEIVED" /\ o.guard = c.guard /\ o.my = c.my /\ o.echo = c.echo
          /\ o.closed = c.closed /\ o.stale = c.stale /\ o.restarted = c.restarted
          /\ o.queued = c.queued /\ o.sent = c.sent /\ o.acked = c.acked /\ o.rxt = c.rxt
      BY <3>1, Zenon DEF Tcb
    <3> HIDE DEF o
    <3>5. /\ u \in Tcb /\ u.guard = c.guard /\ u.my = c.my /\ u.echo = c.echo
          /\ u.closed = c.closed /\ u.stale = c.stale /\ u.restarted = c.restarted
          /\ u.queued = c.queued /\ u.sent = c.sent /\ u.acked = c.acked /\ u.rxt = c.rxt
          /\ u.state = IF ~t.closed /\ c.state = "OPEN" THEN "SHUTDOWN_RECEIVED" ELSE c.state
      <4>1. CASE ~t.closed /\ c.state = "OPEN"
        BY <4>1, <3>3, <3>4, Zenon
      <4>2. CASE ~(~t.closed /\ c.state = "OPEN")
        BY <4>2, <3>1, Zenon
      <4> QED
        BY <4>1, <4>2, Zenon
    <3> HIDE DEF u
    <3>6. /\ v \in Tcb /\ v.guard = c.guard /\ v.my = c.my /\ v.echo = c.echo
          /\ v.closed = c.closed /\ v.stale = c.stale /\ v.restarted = c.restarted
          /\ v.queued = c.queued /\ v.sent = c.sent /\ v.acked = c.acked /\ v.state = u.state
          /\ (c.state # "SHUTDOWN_SENT" => v.rxt = c.rxt)
      BY <3>5, TimerStop DEF Alike
    <3> HIDE DEF v
    <3>7. IsResult(s) /\ s.tcb = v /\ s.out = r.out /\ s.say = r.say
      BY <3>1, Zenon DEF IsResult
    <3>8. sctp_handle_shutdown(n, t, k) =
            IF HasOutput(v) THEN s
            ELSE IF v.state # "SHUTDOWN_ACK_SENT" THEN ToShutdownAckSent(n, s)
            ELSE IF t.state = "SHUTDOWN_ACK_SENT" THEN [s EXCEPT !.out = @ \cup out]
            ELSE s
      BY <1>3, <2>4, Zenon DEF sctp_handle_shutdown, r, c, u, v, o
    <3> HIDE DEF s
    <3>9. /\ Keeps(t, v) /\ (v.closed => s.say = None) /\ Says(s, w) = x /\ v # None
          /\ \A q \in s.out : Plain(q)
      <4>1. v.state \notin Opening /\ v.state # "COOKIE_WAIT"
        BY <3>2, <3>5, <3>6, Zenon DEF Opening, Established
      <4> QED
        BY <3>1, <3>6, <3>7, <4>1, Symbols, Zenon DEF Keeps, Says, x
    <3>10. v.acked <= v.sent /\ (v.closed => x \notin Up) /\ (~v.closed /\ v.stale = 0 => x \in Up)
      BY <3>1, <3>2, <3>6, Zenon DEF Handled
    <3>11. (FirstTry(v) <=> FirstTry(c)) /\ (HasOutput(v) <=> HasOutput(c))
      BY <3>6, Zenon DEF FirstTry, HasOutput
    <3>12. CASE HasOutput(v)
      <4>1. c.state \in {"OPEN", "SHUTDOWN_RECEIVED"}
        BY <3>1, <3>2, <3>11, <3>12, Zenon DEF Handled, Established
      <4>2. v.state \in {"OPEN", "SHUTDOWN_RECEIVED"} /\ v.state \in Established
        BY <3>5, <3>6, <4>1, Zenon DEF Established
      <4>3. Slot(v) = Slot(c)
        BY <4>1, <4>2, <3>6, Zenon DEF Slot
      <4>4. Handled(v, x)
        BY <3>1, <3>6, <3>10, <3>11, <3>12, <4>1, <4>2, <4>3, Zenon DEF Handled
      <4> QED
        BY <3>7, <3>8, <3>9, <3>12, <4>4, Zenon DEF Fine, Good
    <3>13. CASE ~HasOutput(v) /\ v.state # "SHUTDOWN_ACK_SENT"
      <4>1. FirstTry(v) /\ ~v.guard => v.rxt = "none"
        <5> SUFFICES ASSUME FirstTry(v), ~v.guard PROVE v.rxt = "none"
          BY Zenon
        <5>1. c.rxt = Slot(c) /\ c.state # "SHUTDOWN_SENT" /\ c.state # "SHUTDOWN_RECEIVED"
          BY <3>1, <3>6, <3>11, <3>13, Zenon DEF Handled
        <5>2. c.state = "OPEN"
          BY <5>1, <3>2, <3>5, <3>6, <3>13, Zenon DEF Established
        <5> QED
          BY <5>1, <5>2, <3>6, <3>11, <3>13, Zenon DEF Slot, HasOutput
      <4>2. Ready(v, x)
        BY <3>6, <3>10, <3>13, Zenon DEF Ready
      <4>3. Good(t, w, ToShutdownAckSent(n, s)) /\ OutGrows(s, ToShutdownAckSent(n, s))
        BY <3>7, <3>9, <4>1, <4>2, ToShutdownAckSentGood, Zenon
      <4> QED
        BY <3>8, <3>9, <3>13, <4>3, FineFrom, Zenon
    <3>14. CASE ~HasOutput(v) /\ v.state = "SHUTDOWN_ACK_SENT"
      <4> DEFINE z == [s EXCEPT !.out = @ \cup out]
      <4>1. c.state = "SHUTDOWN_ACK_SENT"
        BY <3>5, <3>6, <3>14, Zenon
      <4>2. Slot(v) = Slot(c)
        BY <4>1, <3>14, Zenon DEF Slot
      <4>3. Handled(v, x)
        BY <3>1, <3>6, <3>11, <3>14, <4>1, <4>2, Zenon DEF Handled
      <4>4. \A q \in out : Plain(q)
        BY <3>6, PlainPackets, Zenon
      <4> HIDE DEF out
      <4>5. IsResult(z) /\ z.tcb = v /\ z.out = s.out \cup out /\ z.say = s.say
        BY <3>7, Zenon DEF IsResult
      <4>6. Fine(t, w, s)
        BY <3>7, <3>9, <4>3, Zenon DEF Fine, Good
      <4> HIDE DEF z
      <4>7. Fine(t, w, z)
        BY <3>9, <4>3, <4>4, <4>5, Zenon DEF Fine, Good, Says
      <4> QED
        BY <3>8, <3>14, <4>6, <4>7, Zenon DEF z
    <3> QED
      BY <3>12, <3>13, <3>14, Zenon
  <2> QED
    BY <2>3, <2>4, Zenon
<1> QED
  BY <1>2, <1>3, Zenon

-----------------------------------------------------------------------------
LEMMA OotbPlain ==
  ASSUME NEW n, NEW p, p.vtag \in Nat, p.tag \in Nat, NEW q \in sctp_handle_ootb(n, p)
  PROVE  Plain(q)
  BY DEF sctp_handle_ootb, sctp_send_shutdown_complete2, sctp_send_abort, Reflect, Packet,
         Plain, Handshake

LEMMA ShutdownAckFine ==
  ASSUME NEW n, NEW t, NEW w, Handled(t, w), NEW p, p.vtag \in Nat
  PROVE  Fine(t, w, sctp_handle_shutdown_ack(n, t, p))
<1> DEFINE q == sctp_send_shutdown_complete(n, t, p)
<1>1. t.peer \in Nat
  BY Zenon DEF Handled, Tcb
<1>2. Plain(q)
  BY <1>1, Zenon DEF sctp_send_shutdown_complete, Reflect, Packet, Plain, Handshake
<1> HIDE DEF q
<1>3. "SHUTDOWN_COMP" \in Notification \ Up
  BY Zenon DEF Notification, Up
<1>4. Fine(t, w, Result(t, {q})) /\ Fine(t, w, Ignored(t))
  BY <1>2, IgnoredFine, Zenon DEF Ignored
<1>5. Fine(t, w, sctp_free_assoc(t, {q}, "SHUTDOWN_COMP"))
  BY <1>2, <1>3, FreedFine, Zenon
<1> QED
  BY <1>4, <1>5, Zenon DEF sctp_handle_shutdown_ack, q

LEMMA EndFine ==
  ASSUME NEW t, NEW w, Handled(t, w)
  PROVE  Fine(t, w, sctp_handle_shutdown_complete(t)) /\ Fine(t, w, sctp_handle_abort(t))
<1>1. "SHUTDOWN_COMP" \in Notification \ Up /\ sctp_abort_notification(t) \in Notification \ Up
  BY Zenon DEF Notification, Up, sctp_abort_notification
<1>2. Fine(t, w, Ignored(t))
  BY IgnoredFine, Zenon DEF Ignored
<1>3. Fine(t, w, sctp_free_assoc(t, {}, "SHUTDOWN_COMP"))
      /\ Fine(t, w, sctp_free_assoc(t, {}, sctp_abort_notification(t)))
  BY <1>1, FreedFine, Zenon
<1> QED
  BY <1>2, <1>3, Zenon DEF sctp_handle_shutdown_complete, sctp_handle_abort

LEMMA ReceiveDataFine ==
  ASSUME NEW n, NEW t, NEW w, Handled(t, w), NEW p, p.vtag \in Nat, p.tag \in Nat, p.msg \in Nat
  PROVE  Fine(t, w, ReceiveData(n, t, p))
<1> DEFINE r == ImpliesCookieAck(t)
           s == sctp_process_data(n, r, p.tag, p.msg, p.msg)
<1>1. Fine(t, w, r) /\ r.tcb # None
  BY ImpliedFine, Zenon
<1> HIDE DEF r
<1>2. Good(t, w, s) /\ OutGrows(r, s)
  BY <1>1, ProcessDataGood, Zenon DEF Fine
<1> HIDE DEF s
<1>3. Fine(t, w, s)
  BY <1>1, <1>2, FineFrom, Zenon DEF Fine
<1>4. Fine(t, w, Result(t, sctp_handle_ootb(n, p)))
  BY OotbPlain, IgnoredFine, Zenon
<1> QED
  BY <1>3, <1>4, Zenon DEF ReceiveData, s, r

(* An INIT for the TCB u. *)
InitOf(n, u, q) ==
  /\ q.type = "INIT" /\ q.to = Peer(n) /\ q.tag = u.my
  /\ q.msg \in Nat /\ q.tag \in Nat /\ q.vtag \in Nat

LEMMA InitIs ==
  ASSUME NEW n, NEW t \in Tcb
  PROVE  InitOf(n, t, sctp_send_initiate(n, t))
<1>1. t.my \in Nat
  BY Zenon DEF Tcb
<1> QED
  BY <1>1, Zenon DEF InitOf, sctp_send_initiate, Packet

(* The stale-cookie error: the TCB ends, or sends its INIT again. *)
LEMMA ErrorGood ==
  ASSUME NEW n, NEW t, NEW w, Handled(t, w)
  PROVE  LET r == sctp_handle_error(n, t) IN
         /\ Good(t, w, r)
         /\ (\A q \in r.out : Plain(q))
            \/ (/\ r.tcb # None /\ r.tcb.state = "COOKIE_WAIT"
                /\ \A q \in r.out : InitOf(n, r.tcb, q))
<1> DEFINE s == sctp_stop_all_cookie_timers(t)
           c == sctp_toss_old_cookies(s)
           e == [c EXCEPT !.state = "COOKIE_WAIT", !.stale = @ + 1]
           v == sctp_timer_start(e, "INIT")
           r == Result(v, {sctp_send_initiate(n, v)})
<1>1. Fine(t, w, Ignored(t))
  BY IgnoredFine, Zenon DEF Ignored
<1>2. Fine(t, w, sctp_free_assoc(t, {}, sctp_abort_notification(t)))
  <2>1. sctp_abort_notification(t) \in Notification \ Up
    BY Zenon DEF Notification, Up, sctp_abort_notification
  <2> QED
    BY <2>1, FreedFine, Zenon
<1>3. ASSUME t.state = "COOKIE_ECHOED"
      PROVE  /\ Good(t, w, r) /\ r.tcb # None /\ r.tcb.state = "COOKIE_WAIT"
             /\ \A q \in r.out : InitOf(n, r.tcb, q)
  <2>1. t \in Tcb /\ Alike(t, s)
    BY CookieTimersStop, Zenon DEF Handled
  <2> HIDE DEF s
  <2>2. Alike(s, c) /\ c.echo = None
    BY <2>1, CookiesTossed, Zenon DEF Alike
  <2> HIDE DEF c
  <2>3. c \in Tcb /\ c.stale + 1 \in Nat
    BY <2>2 DEF Alike, Tcb
  <2>4. e \in Tcb
    BY <2>3, Zenon DEF Tcb, Opening
  <2>5. /\ e.state = "COOKIE_WAIT" /\ e.my = c.my /\ e.echo = c.echo
        /\ e.closed = c.closed /\ e.stale = c.stale + 1 /\ e.restarted = c.restarted
        /\ e.queued = c.queued /\ e.sent = c.sent /\ e.acked = c.acked
    BY <2>3, Zenon DEF Tcb
  <2> HIDE DEF e
  <2>6. Alike(e, v) /\ v.echo = e.echo
    BY <2>4, TimerStart, Zenon DEF TimerType
  <2> HIDE DEF v
  <2>7. /\ v \in Tcb /\ v.state = "COOKIE_WAIT" /\ v.my = t.my /\ v.echo = None
        /\ v.closed = t.closed /\ v.sent = t.sent /\ v.acked = t.acked /\ v.stale = t.stale + 1
    BY <2>1, <2>2, <2>5, <2>6, Zenon DEF Alike
  <2>8. v.stale # 0
    BY <2>1, <2>7 DEF Tcb
  <2>9. Handled(v, w)
    BY <2>7, <2>8, Zenon DEF Handled, FirstTry
  <2>10. Keeps(t, v)
    BY <1>3, <2>7, <2>8, Zenon DEF Keeps, FirstTry, Opening
  <2>11. IsResult(r) /\ r.tcb = v /\ r.out = {sctp_send_initiate(n, v)} /\ r.say = None /\ v # None
    BY <2>7, ResultIs, Symbols
  <2> HIDE DEF r
  <2>12. Good(t, w, r)
    BY <2>9, <2>10, <2>11, Zenon DEF Good, Says
  <2> QED
    BY <2>7, <2>11, <2>12, InitIs, Zenon
<1> QED
  BY <1>1, <1>2, <1>3, Zenon DEF sctp_handle_error, Fine, r, v, e, c, s

-----------------------------------------------------------------------------
(* The result r of accepting the cookie c: the TCB has the cookie's tag, has   *)
(* left the handshake, and answers to the peer's tag in the cookie.            *)
AckOf(c, q) ==
  q.type = "COOKIE_ACK" /\ q.vtag = c.peer /\ q.msg \in Nat /\ q.tag \in Nat /\ q.vtag \in Nat

Accepted(c, w, r) ==
  /\ IsResult(r)
  /\ r.tcb # None /\ Handled(r.tcb, Says(r, w)) /\ (r.tcb.closed => r.say = None)
  /\ r.tcb.state \notin Opening /\ r.tcb.my = c.my /\ r.tcb.echo = None
  /\ \A q \in r.out : Plain(q) \/ AckOf(c, q)

(* The association has ended instead. *)
EndsAs(w, r) ==
  IsResult(r) /\ r.tcb = None /\ Says(r, w) \notin Up /\ \A q \in r.out : Plain(q)

LEMMA AckIs ==
  ASSUME NEW n, NEW c, NEW v \in Tcb, v.peer = c.peer
  PROVE  AckOf(c, sctp_send_cookie_ack(n, v))
<1>1. v.peer \in Nat
  BY Zenon DEF Tcb
<1> QED
  BY <1>1, Zenon DEF AckOf, sctp_send_cookie_ack, Packet

LEMMA SaidIs ==
  ASSUME NEW v \in Tcb, NEW y \in Tcb, y.closed = v.closed, NEW out, NEW what \in Up, NEW w,
         v.closed => w \notin Up
  PROVE  LET s == [Told(Result(v, out), what) EXCEPT !.tcb = y] IN
         /\ IsResult(s) /\ s.tcb = y /\ s.out = out /\ y # None
         /\ (y.closed => s.say = None) /\ (y.closed => Says(s, w) \notin Up)
         /\ (~y.closed => Says(s, w) \in Up)
<1> DEFINE r == Result(v, out)
           a == Told(r, what)
           s == [a EXCEPT !.tcb = y]
<1>1. IsResult(r) /\ r.tcb = v /\ r.out = out /\ v # None /\ y # None /\ v.closed \in BOOLEAN
  BY ResultIs, Symbols DEF Tcb
<1> HIDE DEF r
<1>2. IsResult(a) /\ a.out = out /\ (v.closed => a.say = None) /\ (~v.closed => a.say = what)
  BY <1>1, ToldIs, Zenon
<1> HIDE DEF a
<1>3. IsResult(s) /\ s.tcb = y /\ s.out = a.out /\ s.say = a.say
  BY <1>2, Zenon DEF IsResult
<1> HIDE DEF s
<1>4. what # None
  BY Symbols, Zenon DEF Up, Notification
<1>5. (y.closed => s.say = None) /\ (~y.closed => s.say = what)
  BY <1>2, <1>3, Zenon
<1>6. (y.closed => Says(s, w) \notin Up) /\ (~y.closed => Says(s, w) \in Up)
  BY <1>4, <1>5, Zenon DEF Says
<1> QED
  BY <1>1, <1>2, <1>3, <1>5, <1>6, Zenon DEF s, a, r

LEMMA CookieNewAccepted ==
  ASSUME NEW n, NEW c \in Cookie, NEW w, w \notin Up, used.tcb \in Nat
  PROVE  LET r == sctp_process_cookie_new(n, c) IN
         Accepted(c, w, [r EXCEPT !.tcb = StartSendTimer(@)])
         /\ \E q \in r.out : q.type = "COOKIE_ACK"
<1> DEFINE i == sctp_init_asoc(c.my)
           o == sctp_process_init(i, c.peer)
           v == [o EXCEPT !.state = "OPEN"]
           y == StartSendTimer(v)
           out == {sctp_send_cookie_ack(n, v)}
           r == Told(Result(v, out), "COMM_UP")
           s == [r EXCEPT !.tcb = y]
<1>1. c.my \in Nat /\ c.peer \in Nat
  BY Zenon DEF Cookie
<1>2. /\ i \in Tcb /\ i.my = c.my /\ i.echo = None /\ i.closed = FALSE /\ i.sent = 0 /\ i.acked = 0
      /\ i.rxt = "none"
  <2>1. i \in Tcb
    BY <1>1 DEF sctp_init_asoc, Tcb, Opening, TimerType
  <2> QED
    BY <2>1, Zenon DEF sctp_init_asoc
<1> HIDE DEF i
<1>3. Alike(i, o) /\ o.rxt = i.rxt /\ o.echo = i.echo /\ o.peer = c.peer
  BY <1>1, <1>2, InitProcessed, Zenon
<1> HIDE DEF o
<1>4. Moved(o, v, "OPEN") /\ v.rxt = o.rxt /\ v.echo = o.echo /\ v.peer = o.peer
  <2>1. o \in Tcb
    BY <1>3, Zenon DEF Alike
  <2>2. v.peer = o.peer
    BY <2>1, Zenon DEF Tcb
  <2> QED
    BY <2>1, <2>2, StateSet, Zenon DEF Established
<1> HIDE DEF v
<1>5. Alike(v, y) /\ y.echo = v.echo
      /\ y.rxt = IF v.sent > v.acked /\ v.rxt = "none" THEN "SEND" ELSE v.rxt
  BY <1>4, SendTimerStarts, Zenon DEF Moved
<1> HIDE DEF y
<1>6. /\ v \in Tcb /\ v.closed = FALSE /\ v.peer = c.peer
      /\ y \in Tcb /\ y.state = "OPEN" /\ y.closed = FALSE /\ y.my = c.my /\ y.echo = None
      /\ y.rxt = "none" /\ y.sent = 0 /\ y.acked = 0
  BY <1>2, <1>3, <1>4, <1>5 DEF Alike, Moved
<1>7. [r EXCEPT !.tcb = StartSendTimer(@)] = s /\ r = sctp_process_cookie_new(n, c)
  <2>1. r = sctp_process_cookie_new(n, c)
    BY Zenon DEF sctp_process_cookie_new, v, o, i
  <2> HIDE DEF out
  <2>2. Result(v, out).tcb = v /\ IsResult(Result(v, out)) /\ v # None
    BY <1>6, ResultIs, Symbols, Zenon
  <2> DEFINE b == Result(v, out)
  <2> HIDE DEF b
  <2>3. b.tcb = v /\ IsResult(b) /\ b.tcb # None /\ b.tcb.closed \in BOOLEAN
    BY <1>6, <2>2, Zenon DEF b
  <2>4. r.tcb = v
    BY <2>3, ToldIs, Zenon DEF b
  <2> QED
    BY <2>1, <2>4, Zenon DEF y
<1>8. /\ IsResult(s) /\ s.tcb = y /\ s.out = out /\ y # None
      /\ (y.closed => s.say = None) /\ Says(s, w) \in Up
  <2> HIDE DEF out
  <2>1. "COMM_UP" \in Up /\ y.closed = v.closed
    BY <1>6, Zenon DEF Up
  <2> QED
    BY <1>6, <2>1, SaidIs
<1>9. r.out = out
  <2> HIDE DEF out
  <2> DEFINE b == Result(v, out)
  <2>1. b.tcb = v /\ b.out = out /\ IsResult(b) /\ v # None
    BY <1>6, ResultIs, Symbols
  <2> HIDE DEF b
  <2>2. IsResult(b) /\ b.tcb # None /\ b.tcb.closed \in BOOLEAN
    BY <1>6, <2>1, Zenon
  <2> QED
    BY <2>1, <2>2, ToldIs, Zenon DEF b
<1>10. AckOf(c, sctp_send_cookie_ack(n, v))
  BY <1>6, AckIs, Zenon
<1>11. \E q \in r.out : q.type = "COOKIE_ACK"
  BY <1>9, <1>10, Zenon DEF AckOf
<1> HIDE DEF r, s
<1>12. Handled(y, Says(s, w))
  BY <1>6, <1>8 DEF Handled, HasOutput, Slot, FirstTry, Established
<1>13. \A q \in s.out : AckOf(c, q)
  BY <1>8, <1>10, Zenon
<1>14. Accepted(c, w, s)
  BY <1>6, <1>8, <1>12, <1>13, Zenon DEF Accepted, Opening
<1> QED
  BY <1>7, <1>11, <1>14, Zenon

LEMMA StartedIs ==
  ASSUME NEW v \in Tcb, NEW out
  PROVE  LET s == [Result(v, out) EXCEPT !.tcb = StartSendTimer(@)] IN
         /\ IsResult(s) /\ s.tcb = StartSendTimer(v) /\ s.out = out /\ s.say = None
         /\ s.tcb # None /\ Result(v, out).out = out
<1> DEFINE b == Result(v, out)
           y == StartSendTimer(v)
           s == [b EXCEPT !.tcb = y]
<1>1. b.tcb = v /\ b.out = out /\ IsResult(b) /\ b.say = None
  BY ResultIs, Zenon
<1>2. y # None
  BY SendTimerStarts, Symbols, Zenon DEF Alike
<1> HIDE DEF b, y
<1>3. IsResult(s) /\ s.tcb = y /\ s.out = out /\ s.say = None
  BY <1>1, Zenon DEF IsResult
<1>4. [b EXCEPT !.tcb = StartSendTimer(@)] = s
  BY <1>1, Zenon DEF y
<1> HIDE DEF s
<1> QED
  BY <1>1, <1>2, <1>3, <1>4, Zenon DEF b, y

LEMMA StartedSaid ==
  ASSUME NEW v \in Tcb, NEW out, NEW what \in Up, NEW w, v.closed => w \notin Up
  PROVE  LET r == Told(Result(v, out), what)
             s == [r EXCEPT !.tcb = StartSendTimer(@)]
             y == StartSendTimer(v) IN
         /\ IsResult(s) /\ s.tcb = y /\ s.out = out /\ y # None /\ r.out = out
         /\ (y.closed => s.say = None) /\ (y.closed => Says(s, w) \notin Up)
         /\ (~y.closed => Says(s, w) \in Up)
<1> DEFINE b == Result(v, out)
           r == Told(b, what)
           y == StartSendTimer(v)
           s == [r EXCEPT !.tcb = y]
<1>1. b.tcb = v /\ b.out = out /\ IsResult(b) /\ b.tcb # None /\ b.tcb.closed \in BOOLEAN
  BY ResultIs, Symbols DEF Tcb
<1>2. y \in Tcb /\ y.closed = v.closed
  BY SendTimerStarts, Zenon DEF Alike
<1>3. r.tcb = v /\ r.out = out
  <2> HIDE DEF b
  <2> QED
    BY <1>1, ToldIs, Zenon
<1>4. [r EXCEPT !.tcb = StartSendTimer(@)] = s
  <2> HIDE DEF r
  <2> QED
    BY <1>3, Zenon
<1>5. /\ IsResult(s) /\ s.tcb = y /\ s.out = out /\ y # None
      /\ (y.closed => s.say = None) /\ (y.closed => Says(s, w) \notin Up)
      /\ (~y.closed => Says(s, w) \in Up)
  <2> HIDE DEF y
  <2> QED
    BY <1>2, SaidIs, Zenon
<1> HIDE DEF r, y, s
<1> QED
  BY <1>3, <1>4, <1>5, Zenon DEF r, y

LEMMA PeerKept ==
  ASSUME NEW t \in Tcb, NEW s \in Opening \cup Established
  PROVE  /\ sctp_toss_old_cookies(t).peer = t.peer
         /\ sctp_stop_all_cookie_timers(t).peer = t.peer
         /\ GuardIfPending(t).peer = t.peer
         /\ [t EXCEPT !.state = s].peer = t.peer
<1> DEFINE g == t.guard \/ t.pending
<1>1. [t EXCEPT !.guard = g].peer = t.peer
  <2> HIDE DEF g
  <2> QED
    BY Zenon DEF Tcb
<1>2. GuardIfPending(t) = [t EXCEPT !.guard = g]
  BY Zenon DEF GuardIfPending
<1>3. sctp_toss_old_cookies(t).peer = t.peer
  BY Zenon DEF sctp_toss_old_cookies, Tcb
<1>4. sctp_stop_all_cookie_timers(t).peer = t.peer
  BY Zenon DEF sctp_stop_all_cookie_timers, Tcb
<1>5. [t EXCEPT !.state = s].peer = t.peer
  BY Zenon DEF Tcb
<1> QED
  BY <1>1, <1>2, <1>3, <1>4, <1>5, Zenon

LEMMA CookieMatchesAccepted ==
  ASSUME NEW n, NEW t, NEW w, Handled(t, w), NEW c \in Cookie, c.my = t.my, c.peer = t.peer
  PROVE  LET r == CookieMatches(n, t, c) IN
         Accepted(c, w, [r EXCEPT !.tcb = StartSendTimer(@)])
         /\ \E q \in r.out : q.type = "COOKIE_ACK"
<1>0. t \in Tcb /\ c.peer \in Nat /\ "OPEN" \in Opening \cup Established
  BY Zenon DEF Handled, Cookie, Established
<1>1. CASE t.state \in Opening
  <2> DEFINE i == sctp_process_init(t, c.peer)
             o == [i EXCEPT !.state = "OPEN"]
             g == GuardIfPending(o)
             k == sctp_stop_all_cookie_timers(g)
             v == sctp_toss_old_cookies(k)
             y == StartSendTimer(v)
             out == {sctp_send_cookie_ack(n, v)}
             r == Told(Result(v, out), "COMM_UP")
             s == [r EXCEPT !.tcb = StartSendTimer(@)]
  <2>0. r = CookieMatches(n, t, c)
    BY <1>1, Zenon DEF CookieMatches
  <2>1. Alike(t, i) /\ i.rxt = t.rxt /\ i.guard = t.guard /\ i.peer = c.peer
    BY <1>0, InitProcessed, Zenon
  <2> HIDE DEF i
  <2>2. Moved(i, o, "OPEN") /\ o.rxt = i.rxt /\ o.guard = i.guard /\ o.peer = c.peer
    BY <1>0, <2>1, StateSet, PeerKept, Zenon DEF Alike
  <2> HIDE DEF o
  <2>3. Alike(o, g) /\ g.rxt = o.rxt /\ (g.guard <=> o.guard \/ o.pending) /\ g.peer = c.peer
    <3>1. o \in Tcb
      BY <2>2, Zenon DEF Moved
    <3> QED
      BY <1>0, <2>2, <3>1, GuardStarts, PeerKept, Zenon
  <2> HIDE DEF g
  <2>4. /\ Alike(g, k) /\ k.guard = g.guard /\ k.peer = c.peer
        /\ k.rxt = IF g.rxt \in {"INIT", "COOKIE"} THEN "none" ELSE g.rxt
    <3>1. g \in Tcb
      BY <2>3, Zenon DEF Alike
    <3> QED
      BY <1>0, <2>3, <3>1, CookieTimersStop, PeerKept, Zenon
  <2> HIDE DEF k
  <2>5. Alike(k, v) /\ v.rxt = k.rxt /\ v.guard = k.guard /\ v.echo = None /\ v.peer = c.peer
    <3>1. k \in Tcb
      BY <2>4, Zenon DEF Alike
    <3> QED
      BY <1>0, <2>4, <3>1, CookiesTossed, PeerKept, Zenon
  <2> HIDE DEF v
  <2>6. /\ Alike(v, y) /\ y.guard = v.guard /\ y.echo = v.echo
        /\ y.rxt = IF v.sent > v.acked /\ v.rxt = "none" THEN "SEND" ELSE v.rxt
    BY <2>5, SendTimerStarts, Zenon DEF Alike
  <2> HIDE DEF y
  <2>7. Moved(t, y, "OPEN") /\ Moved(t, v, "OPEN")
    BY <2>1, <2>2, <2>3, <2>4, <2>5, <2>6, MovedAlike, Zenon
  <2>8. ~y.guard => ~t.guard
    BY <2>1, <2>2, <2>3, <2>4, <2>5, <2>6, Zenon
  <2>9. FirstTry(t) /\ ~t.guard => y.rxt = IF y.sent > y.acked THEN "SEND" ELSE "none"
    <3> SUFFICES ASSUME FirstTry(t), ~t.guard
                 PROVE  y.rxt = IF y.sent > y.acked THEN "SEND" ELSE "none"
      BY Zenon
    <3>1. t.rxt \in {"INIT", "COOKIE"}
      BY <1>1, Zenon DEF Handled, Slot, Opening
    <3>2. v.rxt = "none"
      BY <3>1, <2>1, <2>2, <2>3, <2>4, <2>5, Zenon
    <3> QED
      BY <3>2, <2>6, Zenon DEF Alike
  <2>10. AckOf(c, sctp_send_cookie_ack(n, v))
    BY <2>5, AckIs, Zenon DEF Alike
  <2>11. \A q \in out : AckOf(c, q)
    BY <2>10, Zenon
  <2>12. \E q \in out : q.type = "COOKIE_ACK"
    BY <2>10, Zenon DEF AckOf
  <2> HIDE DEF out
  <2>13. /\ IsResult(s) /\ s.tcb = y /\ s.out = out /\ y # None /\ r.out = out
         /\ (y.closed => s.say = None) /\ (y.closed => Says(s, w) \notin Up)
         /\ (~y.closed => Says(s, w) \in Up)
    <3>1. v \in Tcb /\ "COMM_UP" \in Up
      BY <2>7, Zenon DEF Moved, Up
    <3>2. v.closed => w \notin Up
      BY <2>7, Zenon DEF Moved, Handled
    <3> QED
      BY <3>1, <3>2, StartedSaid, Zenon DEF y
  <2> HIDE DEF r, s
  <2>14. Handled(y, Says(s, w))
    BY <2>7, <2>8, <2>9, <2>13, OpenedRight, Zenon
  <2>15. Accepted(c, w, s)
    BY <2>5, <2>6, <2>7, <2>11, <2>13, <2>14, Zenon DEF Accepted, Moved, Opening
  <2> QED
    BY <2>0, <2>12, <2>13, <2>15, Zenon DEF s
<1>2. CASE t.state \notin Opening
  <2> DEFINE k == sctp_stop_all_cookie_timers(t)
             v == sctp_toss_old_cookies(k)
             y == StartSendTimer(v)
             out == {sctp_send_cookie_ack(n, v)}
             s == [Result(v, out) EXCEPT !.tcb = StartSendTimer(@)]
  <2>0. Result(v, out) = CookieMatches(n, t, c)
    BY <1>2, Zenon DEF CookieMatches
  <2>1. Alike(t, y) /\ y.echo = None /\ Handled(y, w)
    BY <1>2, SettledHandled, Zenon DEF Opening
  <2>2. Alike(t, k) /\ k.peer = t.peer
    BY <1>0, CookieTimersStop, PeerKept, Zenon
  <2> HIDE DEF k
  <2>3. v \in Tcb /\ v.peer = c.peer
    <3>1. k \in Tcb
      BY <2>2, Zenon DEF Alike
    <3> QED
      BY <1>0, <2>2, <3>1, CookiesTossed, PeerKept, Zenon DEF Alike
  <2> HIDE DEF v
  <2>4. AckOf(c, sctp_send_cookie_ack(n, v))
    BY <2>3, AckIs, Zenon
  <2>5. \A q \in out : AckOf(c, q)
    BY <2>4, Zenon
  <2>6. \E q \in out : q.type = "COOKIE_ACK"
    BY <2>4, Zenon DEF AckOf
  <2> HIDE DEF out
  <2>7. IsResult(s) /\ s.tcb = y /\ s.out = out /\ s.say = None /\ s.tcb # None
        /\ Result(v, out).out = out
    BY <2>3, StartedIs, Zenon
  <2> HIDE DEF s, y
  <2>8. Accepted(c, w, s)
    BY <1>2, <2>1, <2>5, <2>7, Zenon DEF Accepted, Says, Alike
  <2> QED
    BY <2>0, <2>6, <2>7, <2>8, Zenon DEF s
<1> QED
  BY <1>1, <1>2, Zenon

LEMMA NewPeerTagAccepted ==
  ASSUME NEW n, NEW t, NEW w, Handled(t, w), NEW c \in Cookie, c.my = t.my,
         t.state # "SHUTDOWN_ACK_SENT"
  PROVE  LET r == CookieOfNewPeerTag(n, t, c) IN
         Accepted(c, w, [r EXCEPT !.tcb = StartSendTimer(@)])
         /\ \E q \in r.out : q.type = "COOKIE_ACK"
<1> DEFINE k == sctp_stop_all_cookie_timers(t)
           i == sctp_process_init(k, c.peer)
           o == [i EXCEPT !.state = "OPEN"]
           g == GuardIfPending(o)
           v == sctp_toss_old_cookies(g)
           y == StartSendTimer(v)
           data == {DataChunk(n, v, m) : m \in (v.acked + 1)..v.sent}
           out == {sctp_send_cookie_ack(n, v)} \cup data
           r == Result(v, out)
           said == Told(r, "COMM_UP")
<1>0. t \in Tcb /\ c.peer \in Nat /\ "OPEN" \in Opening \cup Established
  BY Zenon DEF Handled, Cookie, Established
<1>1. CookieOfNewPeerTag(n, t, c) = IF t.state \in Opening THEN said ELSE r
  BY Zenon DEF CookieOfNewPeerTag
<1>2. /\ Alike(t, k) /\ k.guard = t.guard
      /\ k.rxt = IF t.rxt \in {"INIT", "COOKIE"} THEN "none" ELSE t.rxt
  BY <1>0, CookieTimersStop, Zenon
<1> HIDE DEF k
<1>3. Alike(k, i) /\ i.rxt = k.rxt /\ i.guard = k.guard /\ i.peer = c.peer
  BY <1>0, <1>2, InitProcessed, Zenon DEF Alike
<1> HIDE DEF i
<1>4. Moved(i, o, "OPEN") /\ o.rxt = i.rxt /\ o.guard = i.guard /\ o.peer = c.peer
  BY <1>0, <1>3, StateSet, PeerKept, Zenon DEF Alike
<1> HIDE DEF o
<1>5. Alike(o, g) /\ g.rxt = o.rxt /\ (g.guard <=> o.guard \/ o.pending) /\ g.peer = c.peer
  <2>1. o \in Tcb
    BY <1>4, Zenon DEF Moved
  <2> QED
    BY <1>0, <1>4, <2>1, GuardStarts, PeerKept, Zenon
<1> HIDE DEF g
<1>6. Alike(g, v) /\ v.rxt = g.rxt /\ v.guard = g.guard /\ v.echo = None /\ v.peer = c.peer
  <2>1. g \in Tcb
    BY <1>5, Zenon DEF Alike
  <2> QED
    BY <1>0, <1>5, <2>1, CookiesTossed, PeerKept, Zenon
<1> HIDE DEF v
<1>7. /\ Alike(v, y) /\ y.guard = v.guard /\ y.echo = v.echo
      /\ y.rxt = IF v.sent > v.acked /\ v.rxt = "none" THEN "SEND" ELSE v.rxt
  BY <1>6, SendTimerStarts, Zenon DEF Alike
<1>8. Moved(t, y, "OPEN") /\ Moved(t, v, "OPEN")
  <2> HIDE DEF y
  <2> QED
    BY <1>2, <1>3, <1>4, <1>5, <1>6, <1>7, MovedAlike, Zenon
<1>9. ~y.guard => ~t.guard
  BY <1>2, <1>3, <1>4, <1>5, <1>6, <1>7, Zenon
<1>10. FirstTry(t) /\ ~t.guard => y.rxt = IF y.sent > y.acked THEN "SEND" ELSE "none"
  <2> SUFFICES ASSUME FirstTry(t), ~t.guard
               PROVE  y.rxt = IF y.sent > y.acked THEN "SEND" ELSE "none"
    BY Zenon
  <2> HIDE DEF y
  <2>1. t.rxt = Slot(t) /\ t.state \notin {"SHUTDOWN_SENT", "SHUTDOWN_ACK_SENT"}
    BY Zenon DEF Handled
  <2>2. v.rxt = "none" \/ v.rxt = IF t.sent > t.acked THEN "SEND" ELSE "none"
    BY <2>1, <1>0, <1>2, <1>3, <1>4, <1>5, <1>6 DEF Slot, Tcb, Opening, Established
  <2>3. y.sent = t.sent /\ y.acked = t.acked /\ v.sent = t.sent /\ v.acked = t.acked
    BY <1>8, Zenon DEF Moved
  <2> QED
    BY <2>2, <2>3, <1>7, Zenon
<1>11. \A q \in data : Plain(q)
  <2>1. v \in Tcb /\ v.acked \in Nat /\ v.sent \in Nat
    BY <1>8, Zenon DEF Moved, Tcb
  <2>2. \A m \in (v.acked + 1)..v.sent : m \in Nat
    BY <2>1
  <2> QED
    BY <2>1, <2>2, PlainPackets, Zenon
<1> HIDE DEF data
<1>12. AckOf(c, sctp_send_cookie_ack(n, v))
  BY <1>6, AckIs, Zenon DEF Alike
<1>13. (\A q \in out : Plain(q) \/ AckOf(c, q)) /\ \E q \in out : q.type = "COOKIE_ACK"
  BY <1>11, <1>12, Zenon DEF AckOf
<1> HIDE DEF out
<1>14. v \in Tcb /\ "COMM_UP" \in Up /\ (v.closed => w \notin Up)
  BY <1>8, Zenon DEF Moved, Up, Handled
<1>15. CASE t.state \in Opening
  <2> DEFINE s == [said EXCEPT !.tcb = StartSendTimer(@)]
  <2>1. /\ IsResult(s) /\ s.tcb = y /\ s.out = out /\ y # None /\ said.out = out
        /\ (y.closed => s.say = None) /\ (y.closed => Says(s, w) \notin Up)
        /\ (~y.closed => Says(s, w) \in Up)
    BY <1>14, StartedSaid, Zenon
  <2> HIDE DEF s, said, y
  <2>2. Handled(y, Says(s, w))
    BY <1>8, <1>9, <1>10, <2>1, OpenedRight, Zenon
  <2>3. Accepted(c, w, s)
    BY <1>6, <1>7, <1>8, <1>13, <2>1, <2>2, Zenon DEF Accepted, Moved, Opening
  <2> QED
    BY <1>1, <1>13, <1>15, <2>1, <2>3, Zenon DEF s
<1>16. CASE t.state \notin Opening
  <2> DEFINE s == [r EXCEPT !.tcb = StartSendTimer(@)]
  <2>1. /\ IsResult(s) /\ s.tcb = y /\ s.out = out /\ s.say = None /\ s.tcb # None /\ r.out = out
    BY <1>14, StartedIs
  <2> HIDE DEF s, r, y
  <2>2. (y.closed => w \notin Up) /\ (~y.closed /\ y.stale = 0 => w \in Up)
    <3>1. t.state \in Established
      BY <1>0, <1>16, Zenon DEF Tcb
    <3> QED
      BY <3>1, <1>8, Zenon DEF Moved, Handled
  <2>3. Handled(y, w)
    BY <1>8, <1>9, <1>10, <2>2, OpenedRight, Zenon
  <2>4. Accepted(c, w, s)
    BY <1>6, <1>7, <1>8, <1>13, <2>1, <2>3, Zenon DEF Accepted, Moved, Opening, Says
  <2> QED
    BY <1>1, <1>13, <1>16, <2>1, <2>4, Zenon DEF s
<1> QED
  BY <1>15, <1>16, Zenon

LEMMA RestartAccepted ==
  ASSUME NEW n, NEW t, NEW w, Handled(t, w), NEW c \in Cookie, t.state # "SHUTDOWN_ACK_SENT"
  PROVE  LET r == CookieOfRestart(n, t, c) IN
         Accepted(c, w, [r EXCEPT !.tcb = StartSendTimer(@)])
         /\ \E q \in r.out : q.type = "COOKIE_ACK"
<1> DEFINE a == sctp_timer_stop(t, "INIT")
           st == IF t.pending \/ t.state # "SHUTDOWN_SENT" THEN "OPEN" ELSE a.state
           gd == a.guard \/ t.pending
           u == [a EXCEPT !.state = st, !.guard = gd, !.my = c.my, !.restarted = TRUE,
                          !.queued = 0, !.sent = 0, !.acked = 0]
           i == sctp_process_init(u, c.peer)
           k == sctp_stop_all_cookie_timers(i)
           v == sctp_toss_old_cookies(k)
           y == StartSendTimer(v)
           out == {sctp_send_cookie_ack(n, v)}
           r == Told(Result(v, out), "RESTART")
           s == [r EXCEPT !.tcb = StartSendTimer(@)]
<1>0. t \in Tcb /\ c.peer \in Nat /\ c.my \in Nat /\ "OPEN" \in Opening \cup Established
  BY Zenon DEF Handled, Cookie, Established
<1>1. r = CookieOfRestart(n, t, c)
  BY Zenon DEF CookieOfRestart
<1>2. Alike(t, a)
  BY <1>0, TimerStop, Zenon
<1> HIDE DEF a
<1>3. a \in Tcb /\ gd \in BOOLEAN /\ st \in {"OPEN", "SHUTDOWN_SENT"}
  BY <1>2, Zenon DEF Alike, Tcb
<1>4. /\ u \in Tcb /\ u.state = st /\ u.my = c.my /\ u.restarted = TRUE /\ u.closed = a.closed
      /\ u.queued = 0 /\ u.sent = 0 /\ u.acked = 0 /\ u.stale = a.stale
  <2> HIDE DEF gd, st
  <2>1. st \in Opening \cup Established
    BY <1>3, Zenon DEF Established
  <2>2. u \in Tcb
    BY <1>0, <1>3, <2>1, Zenon DEF Tcb
  <2> QED
    BY <1>3, <2>2, Zenon DEF Tcb
<1> HIDE DEF u
<1>5. Alike(u, i) /\ i.peer = c.peer
  BY <1>0, <1>4, InitProcessed, Zenon
<1> HIDE DEF i
<1>6. Alike(i, k) /\ k.peer = c.peer
  <2>1. i \in Tcb
    BY <1>5, Zenon DEF Alike
  <2> QED
    BY <1>0, <1>5, <2>1, CookieTimersStop, PeerKept, Zenon
<1> HIDE DEF k
<1>7. Alike(k, v) /\ v.echo = None /\ v.peer = c.peer
  <2>1. k \in Tcb
    BY <1>6, Zenon DEF Alike
  <2> QED
    BY <1>0, <1>6, <2>1, CookiesTossed, PeerKept, Zenon
<1> HIDE DEF v
<1>8. Alike(v, y) /\ y.echo = v.echo
  BY <1>7, SendTimerStarts, Zenon DEF Alike
<1>9. Alike(u, v) /\ Alike(u, y)
  <2> HIDE DEF y
  <2> QED
    BY <1>5, <1>6, <1>7, <1>8, AlikeTwice, Zenon
<1>10. AckOf(c, sctp_send_cookie_ack(n, v))
  BY <1>7, AckIs, Zenon DEF Alike
<1>11. (\A q \in out : AckOf(c, q)) /\ \E q \in out : q.type = "COOKIE_ACK"
  BY <1>10, Zenon DEF AckOf
<1> HIDE DEF out
<1>12. /\ IsResult(s) /\ s.tcb = y /\ s.out = out /\ y # None /\ r.out = out
       /\ (y.closed => s.say = None) /\ (y.closed => Says(s, w) \notin Up)
       /\ (~y.closed => Says(s, w) \in Up)
  <2>1. v \in Tcb /\ "RESTART" \in Up
    BY <1>9, Zenon DEF Alike, Up
  <2>2. v.closed = t.closed
    BY <1>2, <1>4, <1>9, Zenon DEF Alike
  <2>3. v.closed => w \notin Up
    BY <2>2, Zenon DEF Handled
  <2> QED
    BY <2>1, <2>3, StartedSaid, Zenon
<1> HIDE DEF r, s, y
<1>13. /\ y \in Tcb /\ y.state \in {"OPEN", "SHUTDOWN_SENT"} /\ y.my = c.my /\ y.restarted = TRUE
       /\ y.queued = 0 /\ y.sent = 0 /\ y.acked = 0
  <2> HIDE DEF st
  <2> QED
    BY <1>3, <1>4, <1>9, Zenon DEF Alike
<1>14. Handled(y, Says(s, w))
  <2>1. ~HasOutput(y) /\ ~FirstTry(y) /\ y.state \in Established
    BY <1>13 DEF HasOutput, FirstTry, Established
  <2> QED
    BY <1>12, <1>13, <2>1 DEF Handled
<1>15. Accepted(c, w, s)
  BY <1>7, <1>8, <1>11, <1>12, <1>13, <1>14, Zenon DEF Accepted, Opening
<1> QED
  BY <1>1, <1>11, <1>12, <1>15, Zenon DEF s

LEMMA DataAccepted ==
  ASSUME NEW n, NEW c, NEW w, NEW s, Accepted(c, w, s), NEW last \in Nat
  PROVE  LET z == sctp_process_data(n, s, c.peer, 1, last) IN
         Accepted(c, w, z) \/ EndsAs(w, z)
<1> DEFINE z == sctp_process_data(n, s, c.peer, 1, last)
<1>1. Good(s.tcb, w, s) /\ s.tcb # None
  BY Zenon DEF Accepted, Good, Keeps
<1>2. Good(s.tcb, w, z) /\ OutGrows(s, z)
  BY <1>1, ProcessDataGood, Zenon
<1>3. z.tcb = None => \A q \in z.out : Plain(q)
  <2>1. s.tcb \in Tcb
    BY Zenon DEF Accepted, Handled
  <2> DEFINE a == sctp_abort_an_association(n, s.tcb)
             k == IF c.peer = s.tcb.peer /\ 1 <= s.tcb.rcvd + 1 /\ last > s.tcb.rcvd
                  THEN last ELSE s.tcb.rcvd
             u == [s.tcb EXCEPT !.rcvd = k]
             out == {IF u.state = "SHUTDOWN_SENT" THEN sctp_send_shutdown(n, u)
                                                  ELSE sctp_send_sack(n, u)}
             e == [s EXCEPT !.tcb = u, !.out = @ \cup out]
  <2>2. z = s \/ z = a \/ z = e
    BY Zenon DEF sctp_process_data
  <2>3. u # None
    <3>1. k \in Nat
      BY <2>1, Zenon DEF Tcb
    <3> HIDE DEF k
    <3>2. u \in Tcb
      BY <2>1, <3>1, Zenon DEF Tcb
    <3> QED
      BY <3>2, Symbols, Zenon
  <2> HIDE DEF u, out
  <2>4. e.tcb = u
    BY Zenon DEF Accepted, IsResult
  <2>5. \A q \in a.out : Plain(q)
    BY <1>1, AbortGood, Zenon DEF Fine
  <2> QED
    BY <1>1, <2>2, <2>3, <2>4, <2>5, Zenon
<1> HIDE DEF z
<1>4. ASSUME z.tcb = None PROVE EndsAs(w, z)
  BY <1>2, <1>3, <1>4, Zenon DEF Good, EndsAs
<1>5. ASSUME z.tcb # None PROVE Accepted(c, w, z)
  BY <1>2, <1>5, Zenon DEF Good, Accepted, Keeps, OutGrows
<1> QED
  BY <1>4, <1>5, Zenon DEF z

(* What COOKIE-ECHO leaves: the TCB as it was, or the one the cookie asks for. *)
Unmoved(t, r) == IsResult(r) /\ r.tcb = t /\ r.say = None /\ \A q \in r.out : Plain(q)

LEMMA UnmovedIs ==
  ASSUME NEW t, NEW out, \A q \in out : Plain(q)
  PROVE  Unmoved(t, Result(t, out)) /\ \A q \in Result(t, out).out : q.type # "COOKIE_ACK"
  BY ResultIs DEF Unmoved, Plain, Handshake

LEMMA IgnoredIs ==
  ASSUME NEW t
  PROVE  Unmoved(t, Ignored(t)) /\ \A q \in Ignored(t).out : q.type # "COOKIE_ACK"
  BY UnmovedIs, Zenon DEF Ignored

LEMMA CookieEchoRight ==
  ASSUME NEW n, NEW t, NEW w, t # None => Handled(t, w), t = None => w \notin Up,
         NEW p, p.cookie \in Cookie, p.msg \in Nat, used.tcb \in Nat
  PROVE  LET r == CookieEcho(n, t, p) IN
         Unmoved(t, r) \/ Accepted(p.cookie, w, r) \/ EndsAs(w, r)
<1> DEFINE c == p.cookie
           r == sctp_handle_cookie_echo(n, t, p)
           s == [r EXCEPT !.tcb = StartSendTimer(@)]
           error == Packet(n, "ERROR", c.peer)
<1>1. Plain(error)
  BY Zenon DEF Packet, Plain, Handshake, Cookie
<1>2. t # None => Plain(sctp_send_shutdown_ack(n, t))
  BY PlainPackets, Zenon DEF Handled
<1> HIDE DEF error
<1>3. \/ Unmoved(t, r) /\ \A q \in r.out : q.type # "COOKIE_ACK"
      \/ Accepted(c, w, s) /\ \E q \in r.out : q.type = "COOKIE_ACK"
  <2>1. CASE ~CookieSigned(n, p)
    BY <2>1, IgnoredIs, Zenon DEF sctp_handle_cookie_echo
  <2>2. CASE CookieSigned(n, p) /\ CookieExpired(c)
    BY <1>1, <2>2, UnmovedIs, Zenon DEF sctp_handle_cookie_echo, error
  <2>3. CASE CookieSigned(n, p) /\ ~CookieExpired(c) /\ t = None
    <3>1. r = sctp_process_cookie_new(n, c)
      BY <2>3, Zenon DEF sctp_handle_cookie_echo
    <3> QED
      BY <2>3, <3>1, CookieNewAccepted, Zenon
  <2>4. CASE CookieSigned(n, p) /\ ~CookieExpired(c) /\ t # None
    <3>1. r = sctp_process_cookie_existing(n, t, c)
      BY <2>4, Zenon DEF sctp_handle_cookie_echo
    <3> HIDE DEF r
    <3>2. Handled(t, w)
      BY <2>4, Zenon
    <3>3. CASE t.state = "SHUTDOWN_ACK_SENT"
      BY <1>2, <2>4, <3>1, <3>3, UnmovedIs, Zenon DEF sctp_process_cookie_existing
    <3>4. CASE t.state # "SHUTDOWN_ACK_SENT" /\ c.my = t.my /\ c.peer = t.peer
      <4>1. r = CookieMatches(n, t, c)
        BY <3>1, <3>4, Zenon DEF sctp_process_cookie_existing
      <4> QED
        BY <3>2, <3>4, <4>1, CookieMatchesAccepted, Zenon
    <3>5. CASE t.state # "SHUTDOWN_ACK_SENT" /\ c.my = t.my /\ c.peer # t.peer
      <4>1. r = CookieOfNewPeerTag(n, t, c)
        BY <3>1, <3>5, Zenon DEF sctp_process_cookie_existing
      <4> QED
        BY <3>2, <3>5, <4>1, NewPeerTagAccepted, Zenon
    <3>6. CASE t.state # "SHUTDOWN_ACK_SENT" /\ c.my # t.my /\ c.peer # t.peer /\ c.tie = t.nonce
      <4>1. r = CookieOfRestart(n, t, c)
        BY <3>1, <3>6, Zenon DEF sctp_process_cookie_existing
      <4> QED
        BY <3>2, <3>6, <4>1, RestartAccepted, Zenon
    <3>7. CASE t.state # "SHUTDOWN_ACK_SENT" /\ c.my # t.my /\ ~(c.peer # t.peer /\ c.tie = t.nonce)
      BY <3>1, <3>7, IgnoredIs, Zenon DEF sctp_process_cookie_existing
    <3> QED
      BY <3>3, <3>4, <3>5, <3>6, <3>7, Zenon
  <2> QED
    BY <2>1, <2>2, <2>3, <2>4, Zenon
<1>4. Unmoved(t, Ignored(t))
  BY IgnoredIs, Zenon
<1>5. ASSUME Accepted(c, w, s)
      PROVE  LET z == sctp_process_data(n, s, c.peer, 1, p.msg) IN
             Accepted(c, w, z) \/ EndsAs(w, z)
  <2> HIDE DEF s, c
  <2> QED
    BY <1>5, DataAccepted, Zenon
<1> HIDE DEF r, s
<1>6. CookieEcho(n, t, p) =
        IF t = None /\ ep[n] # "listen" THEN Ignored(t)
        ELSE IF t # None /\ t.closed /\ ~HasOutput(t) THEN Ignored(t)
        ELSE IF \A q \in r.out : q.type # "COOKIE_ACK" THEN r
        ELSE IF p.msg > 0 THEN sctp_process_data(n, s, c.peer, 1, p.msg)
        ELSE s
  BY Zenon DEF CookieEcho, r, s
<1> QED
  <2> HIDE DEF c
  <2> DEFINE z == sctp_process_data(n, s, c.peer, 1, p.msg)
  <2> HIDE DEF z
  <2>1. CASE \A q \in r.out : q.type # "COOKIE_ACK"
    BY <1>3, <1>4, <1>6, <2>1, Zenon DEF c
  <2>2. CASE ~\A q \in r.out : q.type # "COOKIE_ACK"
    <3>1. Accepted(c, w, s)
      BY <1>3, <2>2, Zenon
    <3>2. CookieEcho(n, t, p) \in {Ignored(t), z, s}
      BY <1>6, <2>2, Zenon DEF z
    <3>3. Accepted(c, w, z) \/ EndsAs(w, z)
      BY <1>5, <3>1, Zenon DEF z
    <3> QED
      BY <1>4, <3>1, <3>2, <3>3, Zenon DEF c
  <2> QED
    BY <2>1, <2>2, Zenon

-----------------------------------------------------------------------------
(* The answer to the INIT p, with the tag of the TCB t or a fresh one. *)
InitAckOf(n, t, p, q) ==
  /\ q.type = "INIT_ACK" /\ q.to = Peer(n) /\ q.vtag = p.tag
  /\ q.cookie \in Cookie /\ q.cookie.peer = p.tag /\ q.tag = q.cookie.my
  /\ q.cookie.my = used.tag + 1 \/ (t # None /\ q.cookie.my = t.my)
  /\ q.msg \in Nat /\ q.tag \in Nat /\ q.vtag \in Nat

LEMMA InitAckIs ==
  ASSUME NEW n, NEW t, t # None => t \in Tcb, NEW p, p.tag \in Nat, used.tag \in Nat,
         secret[n].current \in Nat
  PROVE  InitAckOf(n, t, p, sctp_send_initiate_ack(n, t, p))
<1> DEFINE my == IF DrawsTag(t) THEN used.tag + 1 ELSE t.my
           tie == IF t = None THEN 0 ELSE t.nonce
           c == [my |-> my, peer |-> p.tag, tie |-> tie, secret |-> secret[n].current]
           q == [Packet(n, "INIT_ACK", p.tag) EXCEPT !.tag = my, !.cookie = c]
<1>1. my \in Nat /\ tie \in Nat /\ (my = used.tag + 1 \/ (t # None /\ my = t.my))
  BY DEF DrawsTag, Tcb
<1>2. q = sctp_send_initiate_ack(n, t, p)
  BY Zenon DEF sctp_send_initiate_ack
<1> HIDE DEF my, tie
<1>3. c \in Cookie /\ c.peer = p.tag /\ c.my = my
  BY <1>1, Zenon DEF Cookie
<1> HIDE DEF c
<1>4. /\ q.type = "INIT_ACK" /\ q.to = Peer(n) /\ q.vtag = p.tag /\ q.cookie = c
      /\ q.tag = my /\ q.msg = 0
  BY Zenon DEF Packet
<1> HIDE DEF q
<1> QED
  BY <1>1, <1>2, <1>3, <1>4 DEF InitAckOf

LEMMA InitHandled ==
  ASSUME NEW n, NEW t, t # None => t \in Tcb, NEW p, p.tag \in Nat, p.vtag \in Nat,
         p.type = "INIT", used.tag \in Nat, secret[n].current \in Nat
  PROVE  LET r == sctp_handle_init(n, t, p) IN
         /\ IsResult(r) /\ r.tcb = t /\ r.say = None
         /\ \A q \in r.out : Plain(q) \/ InitAckOf(n, t, p, q)
<1> DEFINE a == sctp_send_initiate_ack(n, t, p)
           b == sctp_send_abort(n, p)
           d == sctp_send_shutdown_ack(n, t)
<1>1. InitAckOf(n, t, p, a)
  BY InitAckIs, Zenon
<1>2. Plain(b)
  BY Zenon DEF sctp_send_abort, Packet, Plain, Handshake
<1>3. t # None => Plain(d)
  BY PlainPackets, Zenon
<1> HIDE DEF a, b, d
<1>4. PICK out : sctp_handle_init(n, t, p) = Result(t, out)
                 /\ \A q \in out : Plain(q) \/ InitAckOf(n, t, p, q)
  <2>1. CASE t = None /\ ep[n] = "listen"
    BY <1>1, <2>1 DEF sctp_handle_init, a
  <2>2. CASE t = None /\ ep[n] # "listen"
    BY <1>2, <2>2, SMTT(60) DEF sctp_handle_init, b
  <2>3. CASE t # None /\ t.state = "SHUTDOWN_ACK_SENT"
    BY <1>3, <2>3 DEF sctp_handle_init, d
  <2>4. CASE t # None /\ t.state # "SHUTDOWN_ACK_SENT" /\ t.closed
    BY <2>4 DEF sctp_handle_init
  <2>5. CASE t # None /\ t.state # "SHUTDOWN_ACK_SENT" /\ ~t.closed
    BY <1>1, <2>5 DEF sctp_handle_init, a
  <2> QED
    BY <2>1, <2>2, <2>3, <2>4, <2>5, Zenon
<1> QED
  BY <1>4, ResultIs

(* A COOKIE-ECHO with the cookie c. *)
EchoOf(c, q) ==
  q.type = "COOKIE_ECHO" /\ q.cookie = c /\ q.msg \in Nat /\ q.tag \in Nat /\ q.vtag \in Nat

(* The TCB v answers the INIT-ACK p that t waited for. *)
Echoes(t, p, v) ==
  /\ t.state = "COOKIE_WAIT" /\ v.state = "COOKIE_ECHOED"
  /\ v.my = t.my /\ v.echo = p.cookie

LEMMA InitAckHandled ==
  ASSUME NEW n, NEW t, NEW w, Handled(t, w), NEW p, p.tag \in Nat, p.cookie \in Cookie
  PROVE  LET r == sctp_handle_init_ack(n, t, p) IN
         \/ Fine(t, w, r)
         \/ /\ IsResult(r) /\ r.say = None /\ r.tcb # None /\ Handled(r.tcb, w)
            /\ Echoes(t, p, r.tcb) /\ \A q \in r.out : EchoOf(p.cookie, q)
<1> DEFINE a == sctp_timer_stop(t, "INIT")
           b == sctp_process_init_ack(t, p)
           d == [b EXCEPT !.state = "COOKIE_ECHOED", !.err = 0]
           u == sctp_timer_start(d, "COOKIE")
           all == u.sent + u.queued
           v == [u EXCEPT !.sent = all, !.queued = 0]
           q1 == [sctp_send_cookie_echo(n, v) EXCEPT !.msg = v.sent]
           r == Result(v, {q1})
<1>0. t \in Tcb
  BY Zenon DEF Handled
<1>1. t.closed => Fine(t, w, sctp_free_assoc(t, {}, None))
  BY FreedFine, Zenon
<1>2. Fine(t, w, Ignored(t))
  BY IgnoredFine, Zenon DEF Ignored
<1>3. ASSUME t.state = "COOKIE_WAIT"
      PROVE  /\ IsResult(r) /\ r.say = None /\ r.tcb # None /\ Handled(r.tcb, w)
             /\ Echoes(t, p, r.tcb) /\ \A q \in r.out : EchoOf(p.cookie, q)
  <2>1. /\ Alike(t, a) /\ a.guard = t.guard
        /\ a.rxt = IF t.rxt = "INIT" THEN "none" ELSE t.rxt
    BY <1>0, TimerStop, Zenon
  <2>2. /\ b \in Tcb /\ b.echo = p.cookie /\ b.rxt = a.rxt /\ b.guard = a.guard /\ b.my = a.my
        /\ b.closed = a.closed /\ b.stale = a.stale /\ b.restarted = a.restarted
        /\ b.queued = a.queued /\ b.sent = a.sent /\ b.acked = a.acked
    <3>1. b = [a EXCEPT !.peer = p.tag, !.rcvd = 0, !.echo = p.cookie]
      BY Zenon DEF sctp_process_init_ack
    <3> HIDE DEF a, b
    <3>2. a \in Tcb
      BY <2>1, Zenon DEF Alike
    <3>3. b \in Tcb
      BY <3>1, <3>2, Zenon DEF Tcb
    <3> QED
      BY <3>1, <3>2, <3>3, Zenon DEF Tcb
  <2> HIDE DEF a, b
  <2>3. /\ d \in Tcb /\ d.state = "COOKIE_ECHOED" /\ d.echo = b.echo /\ d.rxt = b.rxt
        /\ d.guard = b.guard /\ d.my = b.my
        /\ d.closed = b.closed /\ d.stale = b.stale /\ d.restarted = b.restarted
        /\ d.queued = b.queued /\ d.sent = b.sent /\ d.acked = b.acked
    <3>1. d \in Tcb
      BY <2>2, Zenon DEF Tcb, Opening
    <3> QED
      BY <2>2, <3>1, Zenon DEF Tcb
  <2> HIDE DEF d
  <2>4. /\ Alike(d, u) /\ u.guard = d.guard /\ u.echo = d.echo
        /\ u.rxt = IF d.rxt = "none" THEN "COOKIE" ELSE d.rxt
    BY <2>3, TimerStart, Zenon DEF TimerType
  <2> HIDE DEF u
  <2>5. u \in Tcb /\ all \in Nat
    BY <2>4 DEF Alike, Tcb
  <2>6. /\ v \in Tcb /\ v.state = u.state /\ v.echo = u.echo /\ v.rxt = u.rxt
        /\ v.guard = u.guard /\ v.my = u.my
        /\ v.closed = u.closed /\ v.stale = u.stale /\ v.restarted = u.restarted
        /\ v.queued = 0 /\ v.sent = all /\ v.acked = u.acked
    <3> HIDE DEF all
    <3>1. v \in Tcb
      BY <2>5, Zenon DEF Tcb
    <3> QED
      BY <2>5, <3>1, Zenon DEF Tcb
  <2> HIDE DEF v
  <2>7. /\ v.state = "COOKIE_ECHOED" /\ v.my = t.my /\ v.echo = p.cookie /\ v.closed = t.closed
        /\ v.stale = t.stale /\ v.restarted = t.restarted /\ v.guard = t.guard
        /\ v.acked = t.acked /\ v.sent = t.sent + t.queued
        /\ (t.rxt = "INIT" => v.rxt = "COOKIE")
    BY <2>1, <2>2, <2>3, <2>4, <2>6 DEF Alike
  <2>8. v.acked <= v.sent
    BY <1>0, <2>7 DEF Tcb, Handled
  <2>9. FirstTry(v) /\ ~v.guard => v.rxt = Slot(v)
    BY <1>3, <2>7, Zenon DEF FirstTry, Handled, Slot
  <2>10. (v.closed => w \notin Up)
         /\ (~v.closed /\ v.stale = 0 => (w \in Up <=> v.state \in Established))
    BY <1>3, <2>7, Zenon DEF Handled, Established
  <2>11. Handled(v, w)
    BY <2>6, <2>7, <2>8, <2>9, <2>10, Zenon DEF Handled
  <2>12. EchoOf(p.cookie, q1)
    <3>1. v.peer \in Nat /\ v.sent \in Nat
      BY <2>6, Zenon DEF Tcb
    <3> QED
      BY <2>7, <3>1, Zenon DEF EchoOf, sctp_send_cookie_echo, Packet
  <2> HIDE DEF q1
  <2>13. IsResult(r) /\ r.say = None /\ r.tcb = v /\ r.out = {q1} /\ v # None
    BY <2>6, ResultIs, Symbols
  <2> QED
    BY <1>3, <2>7, <2>11, <2>12, <2>13, Zenon DEF Echoes
<1>4. sctp_handle_init_ack(n, t, p) = IF t.closed /\ ~HasOutput(t) THEN sctp_free_assoc(t, {}, None)
                                      ELSE IF t.state # "COOKIE_WAIT" THEN Ignored(t) ELSE r
  BY Zenon DEF sctp_handle_init_ack
<1> HIDE DEF r
<1> QED
  BY <1>1, <1>2, <1>3, <1>4, Zenon

-----------------------------------------------------------------------------
LEMMA ChunkOutputRight ==
  ASSUME NEW n, NEW r, IsResult(r), NEW x, r.tcb # None => Handled(r.tcb, x)
  PROVE  LET s == sctp_chunk_output(n, r) IN
         /\ IsResult(s) /\ s.say = r.say /\ OutGrows(r, s)
         /\ r.tcb = None => s.tcb = None
         /\ r.tcb # None =>
              /\ s.tcb # None /\ TcbRight(s.tcb, x) /\ s.tcb.state = r.tcb.state
              /\ s.tcb.my = r.tcb.my /\ s.tcb.echo = r.tcb.echo /\ s.tcb.closed = r.tcb.closed
              /\ s.tcb.stale = r.tcb.stale /\ s.tcb.restarted = r.tcb.restarted
<1> DEFINE c == r.tcb
           sends == c # None /\ c.queued > 0 /\ c.state \in {"OPEN", "SHUTDOWN_RECEIVED"}
           first == c.sent + 1
           last == c.sent + c.queued
           u == [c EXCEPT !.queued = 0, !.sent = last]
           v == sctp_timer_start(u, "SEND")
           data == {DataChunk(n, v, k) : k \in first..last}
           s == [r EXCEPT !.tcb = v, !.out = @ \cup data]
<1>1. sctp_chunk_output(n, r) = IF sends THEN s ELSE r
  BY Zenon DEF sctp_chunk_output
<1>2. CASE ~sends
  <2>1. OutGrows(r, r)
    BY Zenon DEF OutGrows
  <2>2. c # None => TcbRight(c, x)
    <3> SUFFICES ASSUME c # None PROVE TcbRight(c, x)
      BY Zenon
    <3>1. Handled(c, x) /\ c.queued \in Nat
      BY Zenon DEF Handled, Tcb
    <3> QED
      BY <1>2, <3>1 DEF TcbRight
  <2> QED
    BY <1>1, <1>2, <2>1, <2>2, Zenon
<1>3. CASE sends
  <2>1. Handled(c, x) /\ c \in Tcb /\ c.sent \in Nat /\ c.acked \in Nat /\ c.queued \in Nat
    BY <1>3, Zenon DEF Handled, Tcb
  <2>2. first \in Nat /\ last \in Nat /\ last > c.sent
    BY <1>3, <2>1
  <2>3. /\ u \in Tcb /\ u.state = c.state /\ u.echo = c.echo /\ u.rxt = c.rxt
        /\ u.guard = c.guard /\ u.my = c.my
        /\ u.closed = c.closed /\ u.stale = c.stale /\ u.restarted = c.restarted
        /\ u.queued = 0 /\ u.sent = last /\ u.acked = c.acked
    <3> HIDE DEF last
    <3>1. u \in Tcb
      BY <2>1, <2>2, Zenon DEF Tcb
    <3> QED
      BY <2>1, <3>1, Zenon DEF Tcb
  <2> HIDE DEF u
  <2>4. /\ Alike(u, v) /\ v.guard = u.guard /\ v.echo = u.echo
        /\ v.rxt = IF u.rxt = "none" THEN "SEND" ELSE u.rxt
    BY <2>3, TimerStart, Zenon DEF TimerType
  <2> HIDE DEF v
  <2>5. /\ v \in Tcb /\ v.state = c.state /\ v.echo = c.echo /\ v.guard = c.guard /\ v.my = c.my
        /\ v.closed = c.closed /\ v.stale = c.stale /\ v.restarted = c.restarted
        /\ v.queued = 0 /\ v.sent = last /\ v.acked = c.acked
        /\ v.rxt = IF c.rxt = "none" THEN "SEND" ELSE c.rxt
    BY <2>3, <2>4, Zenon DEF Alike
  <2>6. v.acked <= v.sent /\ v.sent > v.acked
    BY <2>1, <2>2, <2>5 DEF Handled
  <2>7. FirstTry(v) /\ ~v.guard => v.rxt = Slot(v)
    <3> SUFFICES ASSUME FirstTry(v), ~v.guard PROVE v.rxt = Slot(v)
      BY Zenon
    <3>1. c.rxt = Slot(c)
      BY <2>1, <2>5, Zenon DEF Handled, FirstTry
    <3>2. c.rxt \in {"SEND", "none"} /\ Slot(v) = "SEND"
      BY <1>3, <2>5, <2>6, <3>1, Zenon DEF Slot
    <3> QED
      BY <2>5, <3>2, Zenon
  <2>8. HasOutput(v) /\ v.state \in {"OPEN", "SHUTDOWN_RECEIVED"}
    BY <1>3, <2>5, <2>6, Zenon DEF HasOutput
  <2>9. (v.closed => x \notin Up)
        /\ (~v.closed /\ v.stale = 0 => (x \in Up <=> v.state \in Established))
    BY <2>1, <2>5, Zenon DEF Handled
  <2>10. TcbRight(v, x)
    BY <2>5, <2>6, <2>7, <2>8, <2>9, Zenon DEF TcbRight, Handled
  <2>11. \A q \in data : Plain(q)
    <3>1. \A k \in first..last : k \in Nat
      BY <2>2
    <3> QED
      BY <2>5, <3>1, PlainPackets, Zenon
  <2> HIDE DEF data
  <2>12. IsResult(s) /\ s.tcb = v /\ s.out = r.out \cup data /\ s.say = r.say
    BY Zenon DEF IsResult
  <2> HIDE DEF s
  <2>13. OutGrows(r, s)
    BY <2>11, <2>12, Zenon DEF OutGrows
  <2> QED
    BY <1>1, <1>3, <2>5, <2>10, <2>12, <2>13, Symbols, Zenon
<1> QED
  BY <1>2, <1>3, Zenon

(* u has the tags of t, and opens or waits for its first INIT-ACK only if t    *)
(* does, whether or not the socket was closed in between.                      *)
Follows(t, u) ==
  /\ u.my = t.my /\ (u.echo = t.echo \/ u.echo = None)
  /\ u.state \in Opening => t.state \in Opening
  /\ u.state = "COOKIE_WAIT" /\ FirstTry(u) => t.state = "COOKIE_WAIT" /\ FirstTry(t)

(* How the TCB and the packets of the result r come from the TCB t and the     *)
(* packet p.                                                                   *)
Links(n, t, p, r) ==
  /\ r.tcb # None =>
       \/ t # None /\ Follows(t, r.tcb)
       \/ t # None /\ p.type = "INIT_ACK" /\ p.vtag = t.my /\ Echoes(t, p, r.tcb)
       \/ /\ p.type = "COOKIE_ECHO" /\ r.tcb.my = p.cookie.my /\ r.tcb.echo = None
          /\ r.tcb.state \notin Opening
  /\ \A q \in r.out :
       \/ Plain(q)
       \/ r.tcb # None /\ r.tcb.state = "COOKIE_WAIT" /\ InitOf(n, r.tcb, q)
       \/ r.tcb # None /\ r.tcb.echo # None /\ EchoOf(r.tcb.echo, q)
       \/ p.type = "INIT" /\ InitAckOf(n, t, p, q)
       \/ p.type = "COOKIE_ECHO" /\ AckOf(p.cookie, q)

(* What a result says of its host. *)
Sound(w, r) ==
  /\ IsResult(r)
  /\ r.tcb = None => Says(r, w) \notin Up
  /\ r.tcb # None => Handled(r.tcb, Says(r, w))

LEMMA FineLinks ==
  ASSUME NEW n, NEW t, t # None, NEW w, NEW p, NEW r, Fine(t, w, r)
  PROVE  Sound(w, r) /\ Links(n, t, p, r)
  BY Zenon DEF Fine, Good, Sound, Links, Keeps, Follows

LEMMA UnmovedLinks ==
  ASSUME NEW n, NEW t, NEW w, t # None => Handled(t, w), t = None => w \notin Up,
         NEW p, NEW r, Unmoved(t, r)
  PROVE  Sound(w, r) /\ Links(n, t, p, r)
<1>1. t # None => Follows(t, t)
  BY Zenon DEF Follows
<1> QED
  BY <1>1, Zenon DEF Unmoved, Sound, Says, Links

LEMMA ControlRight ==
  ASSUME NEW n, NEW t, NEW w, t # None => Handled(t, w), t = None => w \notin Up,
         NEW p, p.tag \in Nat, p.vtag \in Nat, p.msg \in Nat,
         p.type \in {"INIT_ACK", "COOKIE_ECHO"} => p.cookie \in Cookie,
         p.type = "COOKIE_ACK" /\ t # None /\ p.vtag = t.my
           => ~(t.state = "COOKIE_WAIT" /\ FirstTry(t)),
         used.tag \in Nat, used.tcb \in Nat, secret[n].current \in Nat
  PROVE  LET r == sctp_process_control(n, t, p) IN Sound(w, r) /\ Links(n, t, p, r)
<1> DEFINE r == sctp_process_control(n, t, p)
<1>1. CASE p.type = "INIT"
  <2>1. r = sctp_handle_init(n, t, p)
    BY <1>1, Zenon DEF sctp_process_control
  <2> HIDE DEF r
  <2>2. t # None => t \in Tcb
    BY Zenon DEF Handled
  <2>3. /\ IsResult(r) /\ r.tcb = t /\ r.say = None
        /\ \A q \in r.out : Plain(q) \/ InitAckOf(n, t, p, q)
    BY <1>1, <2>1, <2>2, InitHandled
  <2>4. Sound(w, r)
    BY <2>3, Zenon DEF Sound, Says
  <2>5. Links(n, t, p, r)
    BY <1>1, <2>3, Zenon DEF Links, Follows
  <2> QED
    BY <2>4, <2>5, Zenon DEF r
<1>2. CASE p.type = "COOKIE_ECHO"
  <2>1. r = CookieEcho(n, t, p)
    BY <1>2, Zenon DEF sctp_process_control
  <2> HIDE DEF r
  <2>2. Unmoved(t, r) \/ Accepted(p.cookie, w, r) \/ EndsAs(w, r)
    BY <1>2, <2>1, CookieEchoRight, Zenon
  <2>3. CASE Unmoved(t, r)
    BY <2>3, UnmovedLinks, Zenon DEF r
  <2>4. CASE Accepted(p.cookie, w, r)
    BY <1>2, <2>4, Zenon DEF Accepted, Sound, Links, r
  <2>5. CASE EndsAs(w, r)
    BY <1>2, <2>5, Zenon DEF EndsAs, Sound, Links, r
  <2> QED
    BY <2>2, <2>3, <2>4, <2>5, Zenon
<1>3. CASE p.type \notin {"INIT", "COOKIE_ECHO"} /\ t = None
  <2>1. r = Result(t, sctp_handle_ootb(n, p))
    BY <1>3, Zenon DEF sctp_process_control
  <2>2. Unmoved(t, Result(t, sctp_handle_ootb(n, p)))
    BY OotbPlain, UnmovedIs, Zenon
  <2> QED
    BY <2>1, <2>2, UnmovedLinks, Zenon
<1>4. CASE p.type \notin {"INIT", "COOKIE_ECHO"} /\ t # None /\ ~TagAccepted(t, p)
  <2>1. r = Result(t, sctp_handle_ootb(n, p)) \/ r = Ignored(t)
    BY <1>4, Zenon DEF sctp_process_control
  <2>2. Unmoved(t, Result(t, sctp_handle_ootb(n, p))) /\ Unmoved(t, Ignored(t))
    BY OotbPlain, UnmovedIs, IgnoredIs, Zenon
  <2> QED
    BY <2>1, <2>2, UnmovedLinks, Zenon
<1>5. CASE p.type \notin {"INIT", "COOKIE_ECHO"} /\ t # None /\ TagAccepted(t, p)
  <2>0. Handled(t, w)
    BY <1>5, Zenon
  <2>1. CASE p.type = "INIT_ACK"
    <3>1. r = sctp_handle_init_ack(n, t, p) /\ p.vtag = t.my
      BY <1>5, <2>1, Zenon DEF sctp_process_control, TagAccepted
    <3> HIDE DEF r
    <3>2. \/ Fine(t, w, r)
          \/ /\ IsResult(r) /\ r.say = None /\ r.tcb # None /\ Handled(r.tcb, w)
             /\ Echoes(t, p, r.tcb) /\ \A q \in r.out : EchoOf(p.cookie, q)
      BY <2>0, <2>1, <3>1, InitAckHandled, Zenon
    <3>3. CASE Fine(t, w, r)
      BY <1>5, <3>3, FineLinks, Zenon DEF r
    <3>4. CASE /\ IsResult(r) /\ r.say = None /\ r.tcb # None /\ Handled(r.tcb, w)
               /\ Echoes(t, p, r.tcb) /\ \A q \in r.out : EchoOf(p.cookie, q)
      <4>1. Sound(w, r)
        BY <3>4, Zenon DEF Sound, Says
      <4>2. Links(n, t, p, r)
        BY <1>5, <2>1, <3>1, <3>4, Symbols, Zenon DEF Links, Echoes
      <4> QED
        BY <4>1, <4>2, Zenon DEF r
    <3> QED
      BY <3>2, <3>3, <3>4, Zenon
  <2>2. CASE p.type = "ERROR"
    <3>1. r = sctp_handle_error(n, t)
      BY <1>5, <2>2, Zenon DEF sctp_process_control
    <3> HIDE DEF r
    <3>2. /\ Good(t, w, r)
          /\ (\A q \in r.out : Plain(q))
             \/ (/\ r.tcb # None /\ r.tcb.state = "COOKIE_WAIT"
                 /\ \A q \in r.out : InitOf(n, r.tcb, q))
      BY <2>0, <3>1, ErrorGood, Zenon
    <3>3. Sound(w, r) /\ Links(n, t, p, r)
      BY <1>5, <3>2, Zenon DEF Good, Sound, Links, Keeps, Follows
    <3> QED
      BY <3>3, Zenon DEF r
  <2>3. CASE p.type \notin {"INIT_ACK", "ERROR"}
    <3>1. Fine(t, w, r)
      <4>1. CASE p.type = "COOKIE_ACK"
        <5>1. r = CookieAck(t) /\ p.vtag = t.my
          BY <1>5, <4>1, Zenon DEF sctp_process_control, TagAccepted
        <5> QED
          BY <1>5, <2>0, <4>1, <5>1, CookieAckFine, Zenon
      <4>2. CASE p.type = "SACK"
        BY <1>5, <2>0, <4>2, SackFine, Zenon DEF sctp_process_control
      <4>3. CASE p.type = "SHUTDOWN"
        BY <1>5, <2>0, <4>3, ShutdownFine, Zenon DEF sctp_process_control
      <4>4. CASE p.type = "SHUTDOWN_ACK"
        BY <1>5, <2>0, <4>4, ShutdownAckFine, Zenon DEF sctp_process_control
      <4>5. CASE p.type \in {"SHUTDOWN_COMPLETE", "ABORT"}
        BY <1>5, <2>0, <4>5, EndFine, Zenon DEF sctp_process_control
      <4>6. CASE p.type \notin {"COOKIE_ACK", "SACK", "SHUTDOWN", "SHUTDOWN_ACK",
                                "SHUTDOWN_COMPLETE", "ABORT"}
        BY <1>5, <2>0, <2>3, <4>6, ReceiveDataFine, Zenon DEF sctp_process_control
      <4> QED
        BY <4>1, <4>2, <4>3, <4>4, <4>5, <4>6, Zenon
    <3> QED
      BY <1>5, <3>1, FineLinks, Zenon
  <2> QED
    BY <2>1, <2>2, <2>3, Zenon
<1> QED
  BY <1>1, <1>2, <1>3, <1>4, <1>5, Zenon
==============================================================================
