-------------------------- MODULE AssociationProofs --------------------------
(***************************************************************************)
(* Proofs about Association, for every bound and every network.  The       *)
(* inductive invariant says what holds of a TCB and its application        *)
(* (HostRight) and what the packets in flight and the cookies kept say of  *)
(* the tag of a host that still waits for its first INIT-ACK (NetRight):   *)
(* without it a COOKIE-ACK could reach a TCB in COOKIE_WAIT and stop the   *)
(* timer of its INIT.                                                      *)
(***************************************************************************)
EXTENDS AssociationHandlerProofs

(* The host n still waits for the answer to the first INIT of its TCB. *)
Waits(n) == tcb[n] # None /\ tcb[n].state = "COOKIE_WAIT" /\ FirstTry(tcb[n])

(* A cookie was drawn from the tags in use. *)
CookieOld(c) == c \in Cookie /\ c.my <= used.tag /\ c.peer <= used.tag

(* A packet in flight names tags that were drawn, and an INIT-ACK the tag that *)
(* its cookie gives as the peer's.                                             *)
PacketOld(q) ==
  /\ q.msg \in Nat /\ q.tag \in Nat /\ q.vtag \in Nat
  /\ q.type = "INIT" => q.tag <= used.tag
  /\ q.type \in {"INIT_ACK", "COOKIE_ECHO"} => CookieOld(q.cookie)
  /\ q.type = "INIT_ACK" => q.vtag = q.cookie.peer
  /\ q.type = "COOKIE_ACK" => q.vtag <= used.tag

TcbOld(t) == t.my <= used.tag /\ (t.echo # None => CookieOld(t.echo))

(* The tag x of a host n that waits for an INIT-ACK is only on its way to the  *)
(* peer in an INIT, or back to n in an INIT-ACK.                               *)
TagUnanswered(n, x, q) ==
  /\ q.type = "INIT" /\ q.tag = x => q.to = Peer(n)
  /\ q.type = "INIT_ACK" /\ q.vtag = x => q.to = n
  /\ q.type = "COOKIE_ECHO" => q.cookie.peer # x
  /\ q.type = "COOKIE_ACK" => q.vtag # x

(* The tags, TCBs, events and secrets used so far. *)
Counters ==
  /\ used = [x \in {"tag", "tcb", "event", "secret"} |-> used[x]]
  /\ {used.tag, used.tcb, used.event, used.secret} \subseteq Nat

Shape ==
  /\ Counters
  /\ DOMAIN tcb = Nodes /\ DOMAIN told = Nodes /\ DOMAIN ep = Nodes /\ DOMAIN secret = Nodes
  /\ \A n \in Nodes : {secret[n].current, secret[n].last} \subseteq Nat

HostRight ==
  \A n \in Nodes :
    /\ IF tcb[n] = None THEN told[n] \notin Up ELSE TcbRight(tcb[n], told[n])
    /\ ep[n] = "gone" => tcb[n] = None

NetRight ==
  /\ \A q \in net : PacketOld(q)
  /\ \A n \in Nodes : tcb[n] # None => TcbOld(tcb[n])
  /\ \A m, n \in Nodes :
       m # n /\ Waits(n) /\ tcb[m] # None /\ tcb[m].state \in Opening => tcb[m].my # tcb[n].my
  /\ \A n \in Nodes : Waits(n) =>
       /\ \A q \in net : TagUnanswered(n, tcb[n].my, q)
       /\ \A m \in Nodes : tcb[m] # None /\ tcb[m].echo # None
                             => tcb[m].echo.peer # tcb[n].my

IInv == Shape /\ HostRight /\ NetRight

-----------------------------------------------------------------------------
LEMMA NetStep ==
  ASSUME NetRight, NEW n \in Nodes, NEW p, NEW r, DOMAIN tcb = Nodes, used.tag \in Nat,
         \A m \in Nodes : tcb[m] # None => tcb[m].my \in Nat,
         p.type \in Handshake => p \in net /\ p.to = n,
         Links(n, tcb[n], p, r),
         tcb' = [tcb EXCEPT ![n] = r.tcb],
         \A q \in net' : q \in net \/ q \in r.out,
         used'.tag \in Nat, used.tag <= used'.tag,
         \A q \in r.out : q.type = "INIT_ACK" => q.tag <= used'.tag
  PROVE  NetRight'
<1> DEFINE t == tcb[n]
           u == r.tcb
<1>0. tcb'[n] = u /\ (\A m \in Nodes : m # n => tcb'[m] = tcb[m]) /\ None \notin Cookie
  BY Symbols, Zenon
<1>1. \A c : CookieOld(c) => CookieOld(c)'
  BY DEF CookieOld, Cookie
<1>2. \A q : PacketOld(q) => PacketOld(q)'
  <2> SUFFICES ASSUME NEW q, PacketOld(q) PROVE PacketOld(q)'
    BY Zenon
  <2> QED
    BY <1>1 DEF PacketOld
<1>3. p.type \in Handshake => PacketOld(p)
  BY Zenon DEF NetRight
<1>4. u # None => TcbOld(u)'
  <2> SUFFICES ASSUME u # None PROVE TcbOld(u)'
    BY Zenon
  <2>1. CASE t # None /\ Follows(t, u)
    <3>1. TcbOld(t)
      BY <2>1, Zenon DEF NetRight
    <3> QED
      BY <1>1, <2>1, <3>1 DEF TcbOld, Follows
  <2>2. CASE t # None /\ p.type = "INIT_ACK" /\ p.vtag = t.my /\ Echoes(t, p, u)
    <3>1. TcbOld(t) /\ CookieOld(p.cookie)
      BY <1>3, <2>2, Zenon DEF NetRight, PacketOld, Handshake
    <3> QED
      BY <1>1, <2>2, <3>1 DEF TcbOld, Echoes
  <2>3. CASE p.type = "COOKIE_ECHO" /\ u.my = p.cookie.my /\ u.echo = None
    <3>1. CookieOld(p.cookie)
      BY <1>3, <2>3, Zenon DEF PacketOld, Handshake
    <3> QED
      BY <1>1, <2>3, <3>1, Zenon DEF TcbOld, CookieOld
  <2> QED
    BY <2>1, <2>2, <2>3, Zenon DEF Links
<1>5. ASSUME NEW q \in r.out PROVE PacketOld(q)'
  <2>1. CASE Plain(q)
    BY <2>1, Zenon DEF Plain, PacketOld, Handshake
  <2>2. CASE u # None /\ InitOf(n, u, q)
    BY <1>4, <2>2, Zenon DEF InitOf, PacketOld, TcbOld
  <2>3. CASE u # None /\ u.echo # None /\ EchoOf(u.echo, q)
    BY <1>4, <2>3, Zenon DEF EchoOf, PacketOld, TcbOld
  <2>4. CASE p.type = "INIT" /\ InitAckOf(n, t, p, q)
    <3>1. p.tag <= used.tag /\ p.tag \in Nat
      BY <1>3, <2>4, Zenon DEF PacketOld, Handshake
    <3>2. q.tag <= used'.tag
      BY <2>4, Zenon DEF InitAckOf
    <3>3. CookieOld(q.cookie)'
      BY <2>4, <3>1, <3>2 DEF InitAckOf, CookieOld
    <3> QED
      BY <2>4, <3>3, Zenon DEF InitAckOf, PacketOld
  <2>5. CASE p.type = "COOKIE_ECHO" /\ AckOf(p.cookie, q)
    <3>1. CookieOld(p.cookie)
      BY <1>3, <2>5, Zenon DEF PacketOld, Handshake
    <3>2. CookieOld(p.cookie)'
      BY <1>1, <3>1, Zenon
    <3> QED
      BY <2>5, <3>2, Zenon DEF AckOf, PacketOld, CookieOld
  <2> QED
    BY <2>1, <2>2, <2>3, <2>4, <2>5, Zenon DEF Links
<1>6. ASSUME NEW m \in Nodes, Waits(m)' PROVE Waits(m) /\ tcb'[m].my = tcb[m].my
  <2>1. CASE m # n
    BY <1>0, <1>6, <2>1, Zenon DEF Waits
  <2>2. CASE m = n
    <3>1. u # None /\ u.state = "COOKIE_WAIT" /\ FirstTry(u)
      BY <1>0, <1>6, <2>2, Zenon DEF Waits
    <3>2. t # None /\ Follows(t, u)
      BY <3>1, Zenon DEF Links, Echoes, Opening
    <3> QED
      BY <1>0, <2>2, <3>1, <3>2, Zenon DEF Follows, Waits
  <2> QED
    BY <2>1, <2>2, Zenon
<1>7. u # None /\ u.state \in Opening => t # None /\ t.state \in Opening /\ u.my = t.my
  BY Zenon DEF Links, Follows, Echoes, Opening
<1>8. ASSUME NEW m \in Nodes, NEW k \in Nodes, m # k, Waits(k)', tcb'[m] # None,
             tcb'[m].state \in Opening
      PROVE  tcb'[m].my # tcb'[k].my
  <2>1. Waits(k) /\ tcb'[k].my = tcb[k].my
    BY <1>6, <1>8, Zenon
  <2>2. tcb[m] # None /\ tcb[m].state \in Opening /\ tcb'[m].my = tcb[m].my
    <3>1. CASE m = n
      BY <1>0, <1>7, <1>8, <3>1, Zenon
    <3>2. CASE m # n
      BY <1>0, <1>8, <3>2, Zenon
    <3> QED
      BY <3>1, <3>2, Zenon
  <2> QED
    BY <1>8, <2>1, <2>2 DEF NetRight
<1>9. ASSUME NEW k \in Nodes, Waits(k)', NEW m \in Nodes, tcb'[m] # None, tcb'[m].echo # None
      PROVE  tcb'[m].echo.peer # tcb'[k].my
  <2>1. Waits(k) /\ tcb'[k].my = tcb[k].my
    BY <1>6, <1>9, Zenon
  <2>2. CASE m # n
    <3>1. tcb'[m] = tcb[m] /\ tcb[m] # None /\ tcb[m].echo # None
      BY <1>0, <1>9, <2>2, Zenon
    <3> QED
      BY <2>1, <3>1, Zenon DEF NetRight
  <2>3. CASE m = n /\ t # None /\ Follows(t, u)
    <3>1. t.echo # None /\ u.echo = t.echo /\ tcb'[m] = u
      BY <1>0, <1>9, <2>3, Zenon DEF Follows
    <3> QED
      BY <2>1, <2>3, <3>1 DEF NetRight
  <2>4. CASE m = n /\ p.type = "INIT_ACK" /\ Echoes(t, p, u)
    <3>1. p \in net /\ p.to = n /\ p.vtag = p.cookie.peer
      BY <1>3, <2>4, Zenon DEF PacketOld, Handshake
    <3>2. u.echo = p.cookie /\ tcb'[n] = u
      BY <1>0, <2>4, Zenon DEF Echoes
    <3>3. k # n
      BY <1>0, <1>9, <2>4, Zenon DEF Echoes, Waits
    <3>4. p.vtag = tcb[k].my => p.to = k
      BY <2>1, <2>4, <3>1, Zenon DEF NetRight, TagUnanswered
    <3> QED
      BY <2>1, <2>4, <3>1, <3>2, <3>3, <3>4, Zenon
  <2>5. CASE m = n /\ u.echo = None
    BY <1>0, <1>9, <2>5, Zenon
  <2> QED
    BY <1>0, <1>9, <2>2, <2>3, <2>4, <2>5, Zenon DEF Links
<1>10. ASSUME NEW k \in Nodes, Waits(k)', NEW q \in net'
       PROVE  TagUnanswered(k, tcb'[k].my, q)
  <2>1. Waits(k) /\ tcb'[k].my = tcb[k].my
    BY <1>6, <1>10, Zenon
  <2> DEFINE x == tcb[k].my
  <2>2. CASE q \in net
    BY <2>1, <2>2, Zenon DEF NetRight
  <2>3. CASE q \in r.out
    <3>1. CASE Plain(q)
      BY <3>1, Zenon DEF Plain, TagUnanswered, Handshake
    <3>2. CASE u # None /\ u.state = "COOKIE_WAIT" /\ InitOf(n, u, q)
      <4>1. k # n => q.tag # x
        <5> SUFFICES ASSUME k # n PROVE q.tag # x
          BY Zenon
        <5>1. t # None /\ t.state \in Opening /\ u.my = t.my
          BY <1>7, <3>2, Zenon DEF Opening
        <5>2. t.my # x
          BY <2>1, <5>1, Zenon DEF NetRight
        <5> QED
          BY <3>2, <5>1, <5>2, Zenon DEF InitOf
      <4> QED
        BY <2>1, <3>2, <4>1, Zenon DEF InitOf, TagUnanswered
    <3>3. CASE u # None /\ u.echo # None /\ EchoOf(u.echo, q)
      <4>1. u.echo.peer # tcb'[k].my
        BY <1>0, <1>9, <1>10, <3>3, Zenon
      <4> QED
        BY <3>3, <4>1, Zenon DEF EchoOf, TagUnanswered
    <3>4. CASE p.type = "INIT" /\ InitAckOf(n, t, p, q)
      <4>1. p \in net /\ p.to = n
        BY <3>4, Zenon DEF Handshake
      <4>2. p.tag = x => n = Peer(k)
        BY <2>1, <3>4, <4>1, Zenon DEF NetRight, TagUnanswered
      <4>3. Peer(Peer(k)) = k
        BY PeerOf, Zenon
      <4>4. q.vtag = x => q.to = k
        BY <3>4, <4>2, <4>3, Zenon DEF InitAckOf
      <4> QED
        BY <2>1, <3>4, <4>4, Zenon DEF InitAckOf, TagUnanswered
    <3>5. CASE p.type = "COOKIE_ECHO" /\ AckOf(p.cookie, q)
      <4>1. p \in net
        BY <3>5, Zenon DEF Handshake
      <4>2. p.cookie.peer # x
        BY <2>1, <3>5, <4>1, Zenon DEF NetRight, TagUnanswered
      <4> QED
        BY <2>1, <3>5, <4>2, Zenon DEF AckOf, TagUnanswered
    <3> QED
      BY <2>3, <3>1, <3>2, <3>3, <3>4, <3>5, Zenon DEF Links
  <2> QED
    BY <2>2, <2>3, Zenon
<1>11. \A q \in net' : PacketOld(q)'
  BY <1>2, <1>5, Zenon DEF NetRight
<1>12. ASSUME NEW m \in Nodes, tcb'[m] # None PROVE TcbOld(tcb[m])'
  <2>1. CASE m = n
    BY <1>0, <1>4, <1>12, <2>1, Zenon DEF TcbOld
  <2>2. CASE m # n
    <3>1. tcb'[m] = tcb[m] /\ tcb[m] # None
      BY <1>0, <1>12, <2>2, Zenon
    <3>2. TcbOld(tcb[m]) /\ tcb[m].my \in Nat
      BY <3>1, Zenon DEF NetRight
    <3>3. CookieOld(tcb[m].echo) => CookieOld(tcb[m].echo)'
      BY <1>1, <3>1, Zenon DEF CookieOld
    <3> QED
      BY <3>1, <3>2, <3>3 DEF TcbOld
  <2> QED
    BY <2>1, <2>2, Zenon
<1> QED
  BY <1>8, <1>9, <1>10, <1>11, <1>12, Zenon DEF NetRight

-----------------------------------------------------------------------------
(* What a whole step leaves of its host. *)
Settled(w, r) ==
  /\ IsResult(r)
  /\ r.tcb = None => Says(r, w) \notin Up
  /\ r.tcb # None => TcbRight(r.tcb, Says(r, w))

LEMMA OutputSettled ==
  ASSUME NEW n, NEW t, NEW w, NEW p, NEW r, Sound(w, r), Links(n, t, p, r)
  PROVE  LET s == sctp_chunk_output(n, r) IN Settled(w, s) /\ Links(n, t, p, s)
<1> DEFINE s == sctp_chunk_output(n, r)
           x == Says(r, w)
<1>1. /\ IsResult(s) /\ s.say = r.say /\ OutGrows(r, s)
      /\ r.tcb = None => s.tcb = None
      /\ r.tcb # None =>
           /\ s.tcb # None /\ TcbRight(s.tcb, x) /\ s.tcb.state = r.tcb.state
           /\ s.tcb.my = r.tcb.my /\ s.tcb.echo = r.tcb.echo /\ s.tcb.closed = r.tcb.closed
           /\ s.tcb.stale = r.tcb.stale /\ s.tcb.restarted = r.tcb.restarted
  BY ChunkOutputRight, Zenon DEF Sound
<1> HIDE DEF s
<1>2. Settled(w, s)
  BY <1>1, Zenon DEF Sound, Settled, Says
<1>3. ASSUME s.tcb # None
      PROVE  \/ t # None /\ Follows(t, s.tcb)
             \/ t # None /\ p.type = "INIT_ACK" /\ p.vtag = t.my /\ Echoes(t, p, s.tcb)
             \/ /\ p.type = "COOKIE_ECHO" /\ s.tcb.my = p.cookie.my /\ s.tcb.echo = None
                /\ s.tcb.state \notin Opening
  BY <1>1, <1>3, Zenon DEF Links, Follows, Echoes, FirstTry
<1>4. ASSUME NEW q \in s.out
      PROVE  \/ Plain(q)
             \/ s.tcb # None /\ s.tcb.state = "COOKIE_WAIT" /\ InitOf(n, s.tcb, q)
             \/ s.tcb # None /\ s.tcb.echo # None /\ EchoOf(s.tcb.echo, q)
             \/ p.type = "INIT" /\ InitAckOf(n, t, p, q)
             \/ p.type = "COOKIE_ECHO" /\ AckOf(p.cookie, q)
  <2>1. q \in r.out \/ Plain(q)
    BY <1>1, Zenon DEF OutGrows
  <2> QED
    BY <1>1, <2>1, Zenon DEF Links, InitOf, EchoOf
<1>5. Links(n, t, p, s)
  BY <1>3, <1>4, Zenon DEF Links
<1> QED
  BY <1>2, <1>5, Zenon DEF s

LEMMA InputRight ==
  ASSUME IInv, NEW n \in Nodes, NEW p \in net, p.to = n
  PROVE  LET r == sctp_common_input_processing(n, p) IN
         /\ Settled(told[n], r) /\ Links(n, tcb[n], p, r)
         /\ ep[n] = "gone" => r.tcb = None
<1> DEFINE t == tcb[n]
           w == told[n]
           r == sctp_common_input_processing(n, p)
<1>1. /\ p.tag \in Nat /\ p.vtag \in Nat /\ p.msg \in Nat
      /\ p.type \in {"INIT_ACK", "COOKIE_ECHO"} => p.cookie \in Cookie
  BY Zenon DEF IInv, NetRight, PacketOld, CookieOld
<1>2. used.tag \in Nat /\ used.tcb \in Nat /\ secret[n].current \in Nat
  BY Zenon DEF IInv, Shape, Counters
<1>3. (t = None => w \notin Up) /\ (t # None => Handled(t, w)) /\ (ep[n] = "gone" => t = None)
  BY Zenon DEF IInv, HostRight, TcbRight
<1>4. p.type = "COOKIE_ACK" /\ t # None /\ p.vtag = t.my
        => ~(t.state = "COOKIE_WAIT" /\ FirstTry(t))
  BY Zenon DEF IInv, NetRight, Waits, TagUnanswered
<1>5. CASE ep[n] = "gone"
  <2> DEFINE z == Result(None, sctp_handle_ootb(n, p))
  <2>1. r = z /\ z.tcb = None
    BY <1>5, ResultIs, Zenon DEF sctp_common_input_processing
  <2>2. Unmoved(t, z)
    BY <1>1, <1>3, <1>5, OotbPlain, UnmovedIs, Zenon
  <2> HIDE DEF z
  <2>3. Sound(w, z) /\ Links(n, t, p, z)
    BY <1>3, <2>2, UnmovedLinks, Zenon
  <2> QED
    BY <2>1, <2>3, Zenon DEF Sound, Settled
<1>6. CASE ep[n] # "gone"
  <2> DEFINE z == sctp_process_control(n, t, p)
  <2>1. Sound(w, z) /\ Links(n, t, p, z)
    BY <1>1, <1>2, <1>3, <1>4, ControlRight, Zenon
  <2>2. r = sctp_chunk_output(n, z)
    BY <1>6, Zenon DEF sctp_common_input_processing
  <2> HIDE DEF z
  <2> QED
    BY <1>6, <2>1, <2>2, OutputSettled, Zenon
<1> QED
  BY <1>5, <1>6, Zenon

-----------------------------------------------------------------------------
(* A step that no packet starts. *)
NoPacket == [type |-> "none"]

LEMMA FineSettled ==
  ASSUME NEW n, NEW t, t # None, NEW w, NEW p, NEW r, Fine(t, w, r),
         r.tcb # None => (r.tcb.state \in {"OPEN", "SHUTDOWN_RECEIVED"} => r.tcb.queued = 0)
  PROVE  Settled(w, r) /\ Links(n, t, p, r)
<1>1. Sound(w, r) /\ Links(n, t, p, r)
  BY FineLinks, Zenon
<1> QED
  BY <1>1, Zenon DEF Sound, Settled, TcbRight

LEMMA TimerSet ==
  ASSUME NEW t, NEW w, TcbRight(t, w), NEW type \in TimerType, NEW e \in Nat,
         FirstTry(t) /\ ~t.guard => type = Slot(t)
  PROVE  LET u == [t EXCEPT !.rxt = type, !.err = e] IN
         /\ u \in Tcb /\ TcbRight(u, w) /\ Follows(t, u)
         /\ u.my = t.my /\ u.state = t.state /\ u.echo = t.echo
<1> DEFINE u == [t EXCEPT !.rxt = type, !.err = e]
<1>0. t \in Tcb /\ Handled(t, w)
  BY Zenon DEF TcbRight, Handled
<1>1. u \in Tcb
  BY <1>0, Zenon DEF Tcb
<1>2. Alike(t, u) /\ u.rxt = type /\ u.guard = t.guard /\ u.echo = t.echo
  BY <1>0, <1>1, Zenon DEF Tcb, Alike
<1> HIDE DEF u
<1>3. Handled(u, w)
  BY <1>0, <1>2, Zenon DEF Alike, Handled, HasOutput, FirstTry, Slot
<1>4. TcbRight(u, w) /\ Follows(t, u)
  BY <1>2, <1>3, Zenon DEF TcbRight, Alike, Follows, FirstTry
<1> QED
  BY <1>1, <1>2, <1>4, Zenon DEF u, Alike

(* The packets a timer of the TCB t may send. *)
Repeats(n, t, q) ==
  \/ Plain(q)
  \/ t.state = "COOKIE_WAIT" /\ InitOf(n, t, q)
  \/ t.echo # None /\ EchoOf(t.echo, q)

LEMMA RetransmitRight ==
  ASSUME NEW n, NEW t, NEW w, TcbRight(t, w), NEW type \in TimerType,
         FirstTry(t) /\ ~t.guard => type = Slot(t),
         NEW out, \A q \in out : Repeats(n, t, q)
  PROVE  LET r == Retransmit(n, t, type, out) IN
         Settled(w, r) /\ Links(n, t, NoPacket, r)
<1> DEFINE e == t.err + 1
           u == [t EXCEPT !.rxt = type, !.err = e]
           a == sctp_abort_an_association(n, t)
           z == Result(u, out)
           r == Retransmit(n, t, type, out)
<1>1. Handled(t, w) /\ t \in Tcb /\ t # None /\ e \in Nat
  BY Symbols DEF TcbRight, Handled, Tcb
<1>2. r = IF t.err + 1 > MaxRtx THEN a ELSE z
  BY Zenon DEF Retransmit, sctp_threshold_management
<1>3. Settled(w, a) /\ Links(n, t, NoPacket, a)
  <2>1. Fine(t, w, a) /\ a.tcb = None
    BY <1>1, AbortedFine, Zenon
  <2> QED
    BY <1>1, <2>1, FineSettled, Zenon
<1>4. Settled(w, z) /\ Links(n, t, NoPacket, z)
  <2> HIDE DEF e
  <2>1. /\ u \in Tcb /\ TcbRight(u, w) /\ Follows(t, u)
        /\ u.my = t.my /\ u.state = t.state /\ u.echo = t.echo
    BY <1>1, TimerSet, Zenon
  <2> HIDE DEF u
  <2>2. IsResult(z) /\ z.tcb = u /\ z.out = out /\ z.say = None /\ u # None
    BY <2>1, ResultIs, Symbols
  <2> HIDE DEF z
  <2>3. Settled(w, z)
    BY <2>1, <2>2, Zenon DEF Settled, Says
  <2>4. Links(n, t, NoPacket, z)
    BY <1>1, <2>1, <2>2, Zenon DEF Links, Repeats, InitOf
  <2> QED
    BY <2>3, <2>4, Zenon
<1> HIDE DEF a, z
<1> QED
  BY <1>2, <1>3, <1>4, Zenon

LEMMA EchoIs ==
  ASSUME NEW n, NEW t \in Tcb
  PROVE  EchoOf(t.echo, sctp_send_cookie_echo(n, t))
<1>1. t.peer \in Nat
  BY Zenon DEF Tcb
<1> QED
  BY <1>1, Zenon DEF EchoOf, sctp_send_cookie_echo, Packet

(* A timer that finds nothing to do is stopped. *)
LEMMA StoppedRight ==
  ASSUME NEW n, NEW t, NEW w, TcbRight(t, w), FirstTry(t) => t.guard
  PROVE  LET r == Ignored([t EXCEPT !.rxt = "none"]) IN
         Settled(w, r) /\ Links(n, t, NoPacket, r)
<1> DEFINE u == [t EXCEPT !.rxt = "none"]
           r == Result(u, {})
<1>1. Handled(t, w) /\ t \in Tcb /\ t # None
  BY Symbols, Zenon DEF TcbRight, Handled
<1>2. u \in Tcb
  BY <1>1, Zenon DEF Tcb, TimerType
<1>3. Alike(t, u) /\ u.guard = t.guard /\ u.echo = t.echo
  BY <1>1, <1>2, Zenon DEF Tcb, Alike
<1> HIDE DEF u
<1>4. TcbRight(u, w) /\ Follows(t, u)
  BY <1>1, <1>3, Zenon DEF Alike, Handled, HasOutput, FirstTry, TcbRight, Follows
<1>5. IsResult(r) /\ r.tcb = u /\ r.out = {} /\ r.say = None /\ u # None
  BY <1>2, ResultIs, Symbols
<1> HIDE DEF r
<1>6. Settled(w, r) /\ Links(n, t, NoPacket, r)
  BY <1>1, <1>4, <1>5, Zenon DEF Settled, Says, Links
<1> QED
  BY <1>6, Zenon DEF Ignored, r, u

(* sctp_timeout_handler, its choice of the timer's type. *)
TimerResult(n, t) ==
  CASE t.rxt = "INIT"     -> sctp_t1init_timer(n, t)
    [] t.rxt = "COOKIE"   -> sctp_cookie_timer(n, t)
    [] t.rxt = "SEND"     -> sctp_t3rxt_timer(n, t)
    [] t.rxt = "SHUTDOWN" -> sctp_shutdown_timer(n, t)
    [] OTHER              -> sctp_shutdownack_timer(n, t)

LEMMA TimersRightly ==
  ASSUME NEW n, NEW t, NEW w, TcbRight(t, w), t.rxt # "none"
  PROVE  Settled(w, TimerResult(n, t)) /\ Links(n, t, NoPacket, TimerResult(n, t))
<1> DEFINE Right(r) == Settled(w, r) /\ Links(n, t, NoPacket, r)
<1>1. Handled(t, w) /\ t \in Tcb /\ t # None /\ t.sent \in Nat /\ t.acked \in Nat
  BY Symbols, Zenon DEF TcbRight, Handled, Tcb
<1>2. FirstTry(t) /\ ~t.guard => t.rxt = Slot(t)
  BY <1>1, Zenon DEF Handled
<1>3. {"none", "INIT", "COOKIE", "SEND", "SHUTDOWN", "SHUTDOWNACK"} \subseteq TimerType
  BY Zenon DEF TimerType
<1>4. CASE t.rxt = "INIT"
  <2>1. CASE t.state # "COOKIE_WAIT"
    <3>1. FirstTry(t) => t.guard
      BY <1>2, <1>4, <2>1, Zenon DEF Slot
    <3>2. Right(Ignored([t EXCEPT !.rxt = "none"]))
      BY <3>1, StoppedRight, Zenon
    <3> QED
      BY <1>4, <2>1, <3>2, Zenon DEF TimerResult, sctp_t1init_timer
  <2>2. CASE t.state = "COOKIE_WAIT"
    <3> DEFINE out == {sctp_send_initiate(n, t)}
    <3>1. \A q \in out : Repeats(n, t, q)
      BY <1>1, <2>2, InitIs, Zenon DEF Repeats
    <3> HIDE DEF out
    <3>2. Right(Retransmit(n, t, "INIT", out))
      BY <1>2, <1>3, <1>4, <3>1, RetransmitRight, Zenon
    <3> QED
      BY <1>4, <2>2, <3>2, Zenon DEF TimerResult, sctp_t1init_timer, out
  <2> QED
    BY <2>1, <2>2, Zenon
<1>5. CASE t.rxt = "COOKIE"
  <2>1. CASE t.echo # None
    <3> DEFINE out == {sctp_send_cookie_echo(n, t)}
    <3>1. \A q \in out : Repeats(n, t, q)
      BY <1>1, <2>1, EchoIs, Zenon DEF Repeats
    <3> HIDE DEF out
    <3>2. Right(Retransmit(n, t, "COOKIE", out))
      BY <1>2, <1>3, <1>5, <3>1, RetransmitRight, Zenon
    <3> QED
      BY <1>5, <2>1, <3>2, Zenon DEF TimerResult, sctp_cookie_timer, out
  <2>2. CASE t.echo = None /\ t.state = "COOKIE_ECHOED"
    <3>1. Fine(t, w, sctp_abort_an_association(n, t)) /\ sctp_abort_an_association(n, t).tcb = None
      BY <1>1, AbortedFine, Zenon
    <3>2. Right(sctp_abort_an_association(n, t))
      BY <1>1, <3>1, FineSettled, Zenon
    <3> QED
      BY <1>5, <2>2, <3>2, Zenon DEF TimerResult, sctp_cookie_timer
  <2>3. CASE t.echo = None /\ t.state # "COOKIE_ECHOED"
    <3>1. FirstTry(t) => t.guard
      BY <1>2, <1>5, <2>3, Zenon DEF Slot
    <3>2. Right(Ignored([t EXCEPT !.rxt = "none"]))
      BY <3>1, StoppedRight, Zenon
    <3> QED
      BY <1>5, <2>3, <3>2, Zenon DEF TimerResult, sctp_cookie_timer
  <2> QED
    BY <2>1, <2>2, <2>3, Zenon
<1>6. CASE t.rxt = "SEND"
  <2> DEFINE type == IF t.state = "COOKIE_ECHOED" \/ t.sent > t.acked THEN "SEND" ELSE "none"
             out == IF t.state \in Opening THEN {}
                    ELSE {DataChunk(n, t, k) : k \in (t.acked + 1)..t.sent}
  <2>1. \A q \in out : Repeats(n, t, q)
    <3>1. \A k \in (t.acked + 1)..t.sent : k \in Nat
      BY <1>1
    <3> QED
      BY <1>1, <3>1, PlainPackets, Zenon DEF Repeats
  <2>2. type \in TimerType /\ (FirstTry(t) /\ ~t.guard => type = Slot(t))
    BY <1>2, <1>3, <1>6, Zenon DEF Slot
  <2> HIDE DEF type, out
  <2>3. Right(Retransmit(n, t, type, out))
    BY <2>1, <2>2, RetransmitRight, Zenon
  <2> QED
    BY <1>6, <2>3, Zenon DEF TimerResult, sctp_t3rxt_timer, type, out
<1>7. CASE t.rxt = "SHUTDOWN"
  <2> DEFINE out == {sctp_send_shutdown(n, t)}
  <2>1. \A q \in out : Repeats(n, t, q)
    BY <1>1, PlainPackets, Zenon DEF Repeats
  <2> HIDE DEF out
  <2>2. Right(Retransmit(n, t, "SHUTDOWN", out))
    BY <1>2, <1>3, <1>7, <2>1, RetransmitRight, Zenon
  <2> QED
    BY <1>7, <2>2, Zenon DEF TimerResult, sctp_shutdown_timer, out
<1>8. CASE t.rxt \notin {"INIT", "COOKIE", "SEND", "SHUTDOWN"}
  <2> DEFINE out == {sctp_send_shutdown_ack(n, t)}
  <2>1. \A q \in out : Repeats(n, t, q)
    BY <1>1, PlainPackets, Zenon DEF Repeats
  <2>2. t.rxt = "SHUTDOWNACK"
    BY <1>1, <1>8, Zenon DEF Tcb, TimerType
  <2> HIDE DEF out
  <2>3. Right(Retransmit(n, t, "SHUTDOWNACK", out))
    BY <1>2, <1>3, <2>1, <2>2, RetransmitRight, Zenon
  <2> QED
    BY <1>8, <2>2, <2>3, Zenon DEF TimerResult, sctp_shutdownack_timer, out
<1> QED
  BY <1>4, <1>5, <1>6, <1>7, <1>8, Zenon

-----------------------------------------------------------------------------
LEMMA QueuedRight ==
  ASSUME NEW n, NEW t, NEW w, TcbRight(t, w), t.state \in Opening \cup {"OPEN"}
  PROVE  LET r == sctp_chunk_output(n, Ignored([t EXCEPT !.queued = @ + 1])) IN
         Settled(w, r) /\ Links(n, t, NoPacket, r)
<1> DEFINE k == t.queued + 1
           u == [t EXCEPT !.queued = k]
           r == Result(u, {})
<1>1. Handled(t, w) /\ t \in Tcb /\ t # None /\ k \in Nat
  BY Symbols DEF TcbRight, Handled, Tcb
<1> HIDE DEF k
<1>2. u \in Tcb
  BY <1>1, Zenon DEF Tcb
<1>3. /\ u.my = t.my /\ u.state = t.state /\ u.closed = t.closed /\ u.sent = t.sent
      /\ u.acked = t.acked /\ u.stale = t.stale /\ u.restarted = t.restarted
      /\ u.rxt = t.rxt /\ u.guard = t.guard /\ u.echo = t.echo
  BY <1>1, <1>2, Zenon DEF Tcb
<1> HIDE DEF u
<1>4. Handled(u, w) /\ Follows(t, u)
  BY <1>1, <1>2, <1>3, Zenon DEF Handled, FirstTry, Slot, Follows, Opening
<1>5. IsResult(r) /\ r.tcb = u /\ r.out = {} /\ r.say = None /\ u # None
  BY <1>2, ResultIs, Symbols, Zenon
<1> HIDE DEF r
<1>6. Sound(w, r) /\ Links(n, t, NoPacket, r)
  BY <1>1, <1>4, <1>5, Zenon DEF Sound, Says, Links
<1>7. Ignored([t EXCEPT !.queued = @ + 1]) = r
  BY Zenon DEF Ignored, r, u, k
<1> QED
  BY <1>6, <1>7, OutputSettled, Zenon

(* A shutdown that has to wait: the guard runs from now on. *)
LEMMA PendingRight ==
  ASSUME NEW n, NEW t, NEW w, TcbRight(t, w)
  PROVE  LET r == Ignored([t EXCEPT !.pending = TRUE, !.guard = TRUE]) IN
         Settled(w, r) /\ Links(n, t, NoPacket, r)
<1> DEFINE u == [t EXCEPT !.pending = TRUE, !.guard = TRUE]
           r == Result(u, {})
<1>1. Handled(t, w) /\ t \in Tcb /\ t # None
  BY Symbols, Zenon DEF TcbRight, Handled
<1>2. u \in Tcb
  BY <1>1, Zenon DEF Tcb
<1>3. /\ u.my = t.my /\ u.state = t.state /\ u.closed = t.closed /\ u.queued = t.queued
      /\ u.sent = t.sent /\ u.acked = t.acked /\ u.stale = t.stale
      /\ u.restarted = t.restarted /\ u.guard /\ u.echo = t.echo
  BY <1>1, <1>2, Zenon DEF Tcb
<1> HIDE DEF u
<1>4. TcbRight(u, w) /\ Follows(t, u)
  BY <1>1, <1>2, <1>3, Zenon DEF TcbRight, Handled, HasOutput, FirstTry, Follows
<1>5. IsResult(r) /\ r.tcb = u /\ r.out = {} /\ r.say = None /\ u # None
  BY <1>2, ResultIs, Symbols, Zenon
<1> HIDE DEF r
<1>6. Settled(w, r) /\ Links(n, t, NoPacket, r)
  BY <1>1, <1>4, <1>5, Zenon DEF Settled, Says, Links
<1> QED
  BY <1>6, Zenon DEF Ignored, r, u

LEMMA ShutdownRight ==
  ASSUME NEW n, NEW t, NEW w, TcbRight(t, w)
  PROVE  LET r == IF t.state = "OPEN" /\ ~HasOutput(t) THEN ToShutdownSent(n, Ignored(t))
                  ELSE Ignored([t EXCEPT !.pending = TRUE, !.guard = TRUE]) IN
         Settled(w, r) /\ Links(n, t, NoPacket, r)
<1>1. CASE t.state = "OPEN" /\ ~HasOutput(t)
  <2> DEFINE z == Ignored(t)
             s == ToShutdownSent(n, z)
  <2>1. Handled(t, w) /\ t # None /\ Keeps(t, t)
    BY Symbols, Zenon DEF TcbRight, Handled, Keeps
  <2>2. IsResult(z) /\ z.tcb = t /\ z.out = {} /\ z.say = None
    BY ResultIs, Zenon DEF Ignored
  <2>3. Ready(t, w) /\ Says(z, w) = w
    BY <1>1, <2>1, <2>2, Zenon DEF Ready, Handled, Established, Says
  <2> HIDE DEF z
  <2>4. Good(t, w, s) /\ OutGrows(z, s) /\ s.tcb # None /\ s.tcb.state = "SHUTDOWN_SENT"
    BY <2>1, <2>2, <2>3, ToShutdownSentGood, Zenon
  <2> HIDE DEF s
  <2>5. Fine(t, w, s)
    BY <2>2, <2>4, Zenon DEF Fine, OutGrows
  <2>6. Settled(w, s) /\ Links(n, t, NoPacket, s)
    BY <2>1, <2>4, <2>5, FineSettled, Zenon
  <2> QED
    BY <1>1, <2>6, Zenon DEF s, z
<1>2. CASE ~(t.state = "OPEN" /\ ~HasOutput(t))
  BY <1>2, PendingRight, Zenon
<1> QED
  BY <1>1, <1>2, Zenon

(* What sctp_close leaves, when its application hears no more. *)
LEMMA CloseRight ==
  ASSUME NEW n, NEW t, NEW w, TcbRight(t, w), NEW linger0 \in BOOLEAN
  PROVE  LET r == IF linger0 THEN AbortiveClose(n, t) ELSE GracefulClose(n, t) IN
         (r.tcb # None => TcbRight(r.tcb, None)) /\ Links(n, t, NoPacket, r)
<1> DEFINE Right(r) == (r.tcb # None => TcbRight(r.tcb, None)) /\ Links(n, t, NoPacket, r)
           u == [t EXCEPT !.closed = TRUE]
<1>0. None \notin Up
  BY Symbols, Zenon DEF Up, Notification
<1>1. Handled(t, w) /\ t \in Tcb /\ t # None
  BY Symbols, Zenon DEF TcbRight, Handled
<1>2. u \in Tcb
  BY <1>1, Zenon DEF Tcb
<1>3. /\ u.my = t.my /\ u.state = t.state /\ u.closed /\ u.queued = t.queued
      /\ u.sent = t.sent /\ u.acked = t.acked /\ u.stale = t.stale /\ u.rxt = t.rxt
      /\ u.restarted = t.restarted /\ u.guard = t.guard /\ u.echo = t.echo
  BY <1>1, <1>2, Zenon DEF Tcb
<1> HIDE DEF u
<1>4. TcbRight(u, None)
  BY <1>0, <1>1, <1>2, <1>3, Zenon DEF TcbRight, Handled, HasOutput, FirstTry, Slot
<1>5. Follows(t, u) /\ u # None
  BY <1>2, <1>3, Symbols, Zenon DEF Follows, FirstTry
<1>6. ASSUME NEW z, Links(n, u, NoPacket, z) PROVE Links(n, t, NoPacket, z)
  <2>1. ASSUME NEW v, Follows(u, v) PROVE Follows(t, v)
    BY <1>3, <2>1, Zenon DEF Follows, FirstTry
  <2> QED
    BY <1>1, <1>6, <2>1, Zenon DEF Links, NoPacket
<1>7. CASE linger0
  <2> DEFINE out == IF t.state = "COOKIE_WAIT" THEN {} ELSE {sctp_send_abort_tcb(n, t)}
             z == sctp_free_assoc(t, out, None)
  <2>1. \A q \in out : Plain(q)
    BY <1>1, PlainPackets, Zenon
  <2> HIDE DEF out
  <2>2. z.tcb = None /\ z.out = out
    BY Zenon DEF sctp_free_assoc
  <2> HIDE DEF z
  <2>3. Right(z)
    BY <2>1, <2>2, Zenon DEF Links
  <2> QED
    BY <1>7, <2>3, Zenon DEF AbortiveClose, z, out
<1>8. CASE ~linger0
  <2> DEFINE z == GracefulClose(n, t)
  <2>1. CASE t.state \in Opening /\ ~HasOutput(t)
    <3>1. z = sctp_free_assoc(u, {}, None)
      BY <2>1, Zenon DEF GracefulClose, u
    <3> HIDE DEF z
    <3>2. z.tcb = None /\ z.out = {}
      BY <3>1, Zenon DEF sctp_free_assoc
    <3>3. Right(z)
      BY <3>2, Zenon DEF Links
    <3> QED
      BY <1>8, <3>3, Zenon DEF z
  <2>2. CASE HasOutput(t)
    <3> DEFINE v == [u EXCEPT !.pending = TRUE, !.guard = TRUE]
    <3>1. z = Ignored(v)
      BY <2>2, Zenon DEF GracefulClose, u
    <3>2. Settled(None, Ignored(v)) /\ Links(n, u, NoPacket, Ignored(v))
      BY <1>4, PendingRight, Zenon
    <3> HIDE DEF v, z
    <3>3. z.say = None
      BY <3>1, ResultIs, Zenon DEF Ignored
    <3>4. Right(z)
      BY <1>6, <3>1, <3>2, <3>3, Zenon DEF Settled, Says
    <3> QED
      BY <1>8, <3>4, Zenon DEF z
  <2>3. CASE ~HasOutput(t) /\ t.state \in {"SHUTDOWN_SENT", "SHUTDOWN_ACK_SENT"}
    <3>1. z = Result(u, {})
      BY <2>3, Zenon DEF GracefulClose, Ignored, u, Opening
    <3> HIDE DEF z
    <3>2. z.tcb = u /\ z.out = {}
      BY <3>1, ResultIs, Zenon
    <3>3. Right(z)
      BY <1>1, <1>4, <1>5, <3>2, Zenon DEF Links
    <3> QED
      BY <1>8, <3>3, Zenon DEF z
  <2>4. CASE ~HasOutput(t) /\ t.state \notin {"SHUTDOWN_SENT", "SHUTDOWN_ACK_SENT"} \cup Opening
    <3> DEFINE y == Ignored(u)
               s == ToShutdownSent(n, y)
    <3>1. z = s
      BY <2>4, Zenon DEF GracefulClose, u
    <3>2. IsResult(y) /\ y.tcb = u /\ y.out = {} /\ y.say = None
      BY ResultIs, Zenon DEF Ignored
    <3>3. Ready(u, None) /\ Says(y, None) = None /\ Keeps(u, u)
      BY <1>0, <1>1, <1>2, <1>3, <2>4, <3>2, Zenon DEF Ready, Handled, Says, HasOutput, Keeps
    <3> HIDE DEF y, z
    <3>4. Good(u, None, s) /\ OutGrows(y, s) /\ s.tcb # None /\ s.tcb.state = "SHUTDOWN_SENT"
      BY <3>2, <3>3, ToShutdownSentGood
    <3> HIDE DEF s
    <3>5. Fine(u, None, s)
      BY <3>2, <3>4, Zenon DEF Fine, OutGrows
    <3>6. Settled(None, s) /\ Links(n, u, NoPacket, s)
      BY <1>5, <3>4, <3>5, FineSettled, Zenon
    <3>7. s.say = None
      BY <1>3, <3>4, Zenon DEF Good, Keeps
    <3>8. Right(s)
      BY <1>6, <3>6, <3>7, Zenon DEF Settled, Says
    <3> QED
      BY <1>8, <3>1, <3>8, Zenon DEF z
  <2> QED
    BY <2>1, <2>2, <2>3, <2>4, Zenon
<1> QED
  BY <1>7, <1>8, Zenon

-----------------------------------------------------------------------------
LEMMA SentIs ==
  ASSUME NEW old, NEW out, NEW q \in Sent(old, out)
  PROVE  q \in old \/ q \in out
  BY Zenon DEF Sent

LEMMA TakeRight ==
  ASSUME Shape, HostRight, NEW n \in Nodes, NEW r, Settled(told[n], r), Take(n, r),
         ep[n] = "gone" => r.tcb = None
  PROVE  HostRight' /\ DOMAIN tcb' = Nodes /\ DOMAIN told' = Nodes /\ DOMAIN ep' = Nodes
<1>1. /\ DOMAIN tcb' = Nodes /\ DOMAIN told' = Nodes /\ DOMAIN ep' = Nodes
      /\ tcb'[n] = r.tcb /\ told'[n] = Says(r, told[n])
      /\ ep'[n] = "gone" => r.tcb = None
      /\ \A m \in Nodes : m # n => tcb'[m] = tcb[m] /\ told'[m] = told[m] /\ ep'[m] = ep[m]
  BY Zenon DEF Shape, Take, Says
<1>2. ASSUME NEW m \in Nodes
      PROVE  /\ IF tcb'[m] = None THEN told'[m] \notin Up ELSE TcbRight(tcb'[m], told'[m])
             /\ ep'[m] = "gone" => tcb'[m] = None
  <2>1. CASE m = n
    BY <1>1, <2>1, Zenon DEF Settled
  <2>2. CASE m # n
    BY <1>1, <2>2, Zenon DEF HostRight
  <2> QED
    BY <2>1, <2>2, Zenon
<1> QED
  BY <1>1, <1>2, Zenon DEF HostRight

LEMMA InitRight ==
  Init => IInv
<1> SUFFICES ASSUME Init PROVE IInv
  BY Zenon
<1>1. Shape
  BY DEF Init, Shape, Counters
<1>2. \A n \in Nodes : tcb[n] = None /\ told[n] = None
  BY Zenon DEF Init
<1>3. HostRight
  BY <1>2, Symbols, Zenon DEF HostRight, Up, Notification
<1>4. NetRight
  BY <1>2, Zenon DEF Init, NetRight, Waits
<1> QED
  BY <1>1, <1>3, <1>4, Zenon DEF IInv

(* A step of the host n with the result r. *)
LEMMA StepRight ==
  ASSUME IInv, NEW n \in Nodes, NEW p, NEW r, Take(n, r), Settled(told[n], r),
         Links(n, tcb[n], p, r), ep[n] = "gone" => r.tcb = None,
         p.type \in Handshake => p \in net /\ p.to = n,
         \A q \in net' : q \in net \/ q \in r.out,
         UNCHANGED secret, Counters', used.tag <= used'.tag,
         \A q \in r.out : q.type = "INIT_ACK" => q.tag <= used'.tag
  PROVE  IInv'
<1>1. Shape /\ HostRight /\ NetRight /\ used.tag \in Nat
  BY Zenon DEF IInv, Shape, Counters
<1>2. HostRight' /\ DOMAIN tcb' = Nodes /\ DOMAIN told' = Nodes /\ DOMAIN ep' = Nodes
  BY <1>1, TakeRight, Zenon
<1>3. used'.tag \in Nat
  BY Zenon DEF Counters
<1>4. Shape'
  BY <1>1, <1>2, <1>3, Zenon DEF Shape
<1>5. NetRight'
  <2>1. \A m \in Nodes : tcb[m] # None => tcb[m].my \in Nat
    BY <1>1, Zenon DEF HostRight, TcbRight, Handled, Tcb
  <2>2. tcb' = [tcb EXCEPT ![n] = r.tcb] /\ DOMAIN tcb = Nodes
    BY <1>1, Zenon DEF Take, Shape
  <2> QED
    BY <1>1, <1>3, <2>1, <2>2, NetStep, Zenon
<1> QED
  BY <1>2, <1>4, <1>5, Zenon DEF IInv

LEMMA CountersSame ==
  ASSUME Counters, UNCHANGED used
  PROVE  Counters' /\ used'.tag = used.tag
  BY Zenon DEF Counters

LEMMA CountersCall ==
  ASSUME Counters, Call
  PROVE  Counters' /\ used'.tag = used.tag /\ used'.tag \in Nat
  BY DEF Counters, Call

(* Only an INIT is answered with an INIT-ACK. *)
LEMMA NoInitAck ==
  ASSUME NEW n, NEW t, NEW p, p.type # "INIT", NEW r, Links(n, t, p, r), NEW q \in r.out
  PROVE  q.type # "INIT_ACK"
  BY Zenon DEF Links, Plain, InitOf, EchoOf, AckOf, Handshake

LEMMA ReceiveKeeps ==
  ASSUME IInv, NEW n \in Nodes, NEW p \in net, NEW keep \in BOOLEAN, Receive(n, p, keep)
  PROVE  IInv'
<1> DEFINE r == sctp_common_input_processing(n, p)
           tag == \E q \in r.out : q.type = "INIT_ACK" /\ q.tag = used.tag + 1
           i == IF keep THEN 1 ELSE 0
           j == IF tag THEN 1 ELSE 0
           k == IF tcb[n] = None /\ r.tcb # None THEN 1 ELSE 0
           old == IF keep THEN net ELSE net \ {p}
<1>1. /\ p.to = n /\ Take(n, r) /\ net' = Sent(old, r.out) /\ UNCHANGED secret
      /\ used' = [used EXCEPT !.event = @ + i, !.tag = @ + j, !.tcb = @ + k]
  BY Zenon DEF Receive
<1>2. /\ Settled(told[n], r) /\ Links(n, tcb[n], p, r)
      /\ ep[n] = "gone" => r.tcb = None
  BY <1>1, InputRight, Zenon
<1>3. i \in Nat /\ j \in Nat /\ k \in Nat
  BY Zenon
<1>4. Counters /\ used.tag \in Nat
  BY Zenon DEF IInv, Shape, Counters
<1>5. Counters' /\ used'.tag = used.tag + j
  <2> HIDE DEF i, j, k
  <2>1. /\ used = [x \in {"tag", "tcb", "event", "secret"} |-> used[x]]
        /\ used.tcb \in Nat /\ used.event \in Nat /\ used.secret \in Nat
    BY <1>4, Zenon DEF Counters
  <2>2. used' = [x \in {"tag", "tcb", "event", "secret"} |-> used'[x]]
    BY <1>1, <2>1, Zenon
  <2>3. /\ used'.tag = used.tag + j /\ used'.tcb = used.tcb + k
        /\ used'.event = used.event + i /\ used'.secret = used.secret
    BY <1>1, <2>1, Zenon
  <2> QED
    BY <1>3, <1>4, <2>1, <2>2, <2>3 DEF Counters
<1> HIDE DEF r
<1>6. ASSUME NEW q \in r.out, q.type = "INIT_ACK" PROVE q.tag <= used'.tag
  <2>1. InitAckOf(n, tcb[n], p, q)
    BY <1>2, <1>6, Zenon DEF Links, Plain, InitOf, EchoOf, AckOf, Handshake
  <2>2. CASE q.tag = used.tag + 1
    <3>1. tag
      BY <1>6, <2>2, Zenon
    <3> QED
      BY <1>4, <1>5, <2>2, <3>1
  <2>3. CASE tcb[n] # None /\ q.tag = tcb[n].my
    <3>1. q.tag <= used.tag /\ q.tag \in Nat
      BY <2>1, <2>3, Zenon DEF IInv, NetRight, TcbOld, InitAckOf
    <3> QED
      BY <1>3, <1>4, <1>5, <3>1
  <2> QED
    BY <2>1, <2>2, <2>3, Zenon DEF InitAckOf
<1>7. used.tag <= used'.tag
  BY <1>3, <1>4, <1>5
<1>8. \A q \in net' : q \in net \/ q \in r.out
  BY <1>1, SentIs, Zenon
<1> HIDE DEF tag, i, j, k, old
<1> QED
  BY <1>1, <1>2, <1>5, <1>6, <1>7, <1>8, StepRight, Zenon

(* A step of a host with a TCB that no packet starts. *)
LEMMA OwnStep ==
  ASSUME IInv, NEW n \in Nodes, tcb[n] # None, NEW r, Take(n, r), Settled(told[n], r),
         Links(n, tcb[n], NoPacket, r), net' = Sent(net, r.out), UNCHANGED secret,
         Counters', used'.tag = used.tag
  PROVE  IInv'
<1>1. used.tag \in Nat /\ ep[n] # "gone"
  BY Zenon DEF IInv, Shape, Counters, HostRight
<1>2. NoPacket.type \notin Handshake /\ NoPacket.type # "INIT"
  BY Zenon DEF NoPacket, Handshake
<1>3. \A q \in net' : q \in net \/ q \in r.out
  BY SentIs, Zenon
<1>4. \A q \in r.out : q.type # "INIT_ACK"
  BY <1>2, NoInitAck, Zenon
<1> QED
  BY <1>1, <1>2, <1>3, <1>4, StepRight

LEMMA HostIs ==
  ASSUME IInv, NEW n \in Nodes, tcb[n] # None
  PROVE  TcbRight(tcb[n], told[n]) /\ Counters
  BY Zenon DEF IInv, HostRight, Shape

LEMMA TimeoutKeeps ==
  ASSUME IInv, NEW n \in Nodes, sctp_timeout_handler(n)
  PROVE  IInv'
<1> DEFINE r == TimerResult(n, tcb[n])
<1>1. /\ tcb[n] # None /\ tcb[n].rxt # "none" /\ Take(n, r) /\ net' = Sent(net, r.out)
      /\ UNCHANGED secret /\ UNCHANGED used
  BY Zenon DEF sctp_timeout_handler, TimerRuns, TimerResult
<1>2. TcbRight(tcb[n], told[n]) /\ Counters' /\ used'.tag = used.tag
  BY <1>1, HostIs, CountersSame, Zenon
<1>3. Settled(told[n], r) /\ Links(n, tcb[n], NoPacket, r)
  BY <1>1, <1>2, TimersRightly, Zenon
<1> HIDE DEF r
<1> QED
  BY <1>1, <1>2, <1>3, OwnStep, Zenon

LEMMA GuardKeeps ==
  ASSUME IInv, NEW n \in Nodes, GuardExpires(n)
  PROVE  IInv'
<1> DEFINE r == sctp_abort_an_association(n, tcb[n])
<1>1. /\ tcb[n] # None /\ Take(n, r) /\ net' = Sent(net, r.out)
      /\ UNCHANGED secret /\ UNCHANGED used
  BY Zenon DEF GuardExpires, GuardRuns
<1>2. TcbRight(tcb[n], told[n]) /\ Counters' /\ used'.tag = used.tag
  BY <1>1, HostIs, CountersSame, Zenon
<1>3. Fine(tcb[n], told[n], r) /\ r.tcb = None
  BY <1>2, AbortedFine, Zenon DEF TcbRight
<1> HIDE DEF r
<1>4. Settled(told[n], r) /\ Links(n, tcb[n], NoPacket, r)
  BY <1>1, <1>3, FineSettled, Zenon
<1> QED
  BY <1>1, <1>2, <1>4, OwnStep, Zenon

LEMMA SendKeeps ==
  ASSUME IInv, NEW n \in Nodes, sctp_lower_sosend(n)
  PROVE  IInv'
<1> DEFINE r == sctp_chunk_output(n, Ignored([tcb[n] EXCEPT !.queued = @ + 1]))
<1>1. /\ tcb[n] # None /\ Take(n, r) /\ net' = Sent(net, r.out)
      /\ tcb[n].state \in Opening \cup {"OPEN"} /\ UNCHANGED secret /\ UNCHANGED used
  BY Zenon DEF sctp_lower_sosend, Apply
<1>2. TcbRight(tcb[n], told[n]) /\ Counters' /\ used'.tag = used.tag
  BY <1>1, HostIs, CountersSame, Zenon
<1>3. Settled(told[n], r) /\ Links(n, tcb[n], NoPacket, r)
  BY <1>1, <1>2, QueuedRight, Zenon
<1> HIDE DEF r
<1> QED
  BY <1>1, <1>2, <1>3, OwnStep, Zenon

LEMMA ShutdownKeeps ==
  ASSUME IInv, NEW n \in Nodes, sctp_shutdown(n)
  PROVE  IInv'
<1> DEFINE t == tcb[n]
           r == IF t.state = "OPEN" /\ ~HasOutput(t) THEN ToShutdownSent(n, Ignored(t))
                ELSE Ignored([t EXCEPT !.pending = TRUE, !.guard = TRUE])
<1>1. tcb[n] # None /\ Take(n, r) /\ net' = Sent(net, r.out) /\ UNCHANGED secret /\ Call
  BY Zenon DEF sctp_shutdown, Do, Apply
<1>2. TcbRight(tcb[n], told[n]) /\ Counters' /\ used'.tag = used.tag
  BY <1>1, HostIs, CountersCall, Zenon
<1>3. Settled(told[n], r) /\ Links(n, tcb[n], NoPacket, r)
  BY <1>2, ShutdownRight, Zenon
<1> HIDE DEF r
<1> QED
  BY <1>1, <1>2, <1>3, OwnStep, Zenon

-----------------------------------------------------------------------------
(* The application or the process gives the TCB up or closes it; it hears no   *)
(* more.                                                                       *)
LEMMA GivenUp ==
  ASSUME IInv, NEW n \in Nodes, NEW r, Links(n, tcb[n], NoPacket, r),
         r.tcb # None => TcbRight(r.tcb, None),
         tcb' = [tcb EXCEPT ![n] = r.tcb], told' = [told EXCEPT ![n] = None],
         DOMAIN ep' = Nodes, \A m \in Nodes : m # n => ep'[m] = ep[m],
         ep'[n] = "gone" => r.tcb = None,
         \A q \in net' : q \in net \/ q \in r.out,
         Counters', used'.tag = used.tag,
         DOMAIN secret' = Nodes, \A m \in Nodes : {secret'[m].current, secret'[m].last} \subseteq Nat
  PROVE  IInv'
<1>1. /\ DOMAIN tcb = Nodes /\ DOMAIN told = Nodes /\ HostRight /\ NetRight
      /\ used.tag \in Nat /\ None \notin Up
  BY Symbols, Zenon DEF IInv, Shape, Counters, Up, Notification
<1>2. Shape'
  BY <1>1, Zenon DEF Shape
<1>3. ASSUME NEW m \in Nodes
      PROVE  /\ IF tcb'[m] = None THEN told'[m] \notin Up ELSE TcbRight(tcb'[m], told'[m])
             /\ ep'[m] = "gone" => tcb'[m] = None
  <2>1. CASE m = n
    BY <1>1, <2>1, Zenon
  <2>2. CASE m # n
    BY <1>1, <2>2, Zenon DEF HostRight
  <2> QED
    BY <2>1, <2>2, Zenon
<1>4. HostRight'
  BY <1>3, Zenon DEF HostRight
<1>5. NetRight'
  <2>1. \A m \in Nodes : tcb[m] # None => tcb[m].my \in Nat
    BY <1>1, Zenon DEF HostRight, TcbRight, Handled, Tcb
  <2>2. NoPacket.type \notin Handshake /\ NoPacket.type # "INIT"
    BY Zenon DEF NoPacket, Handshake
  <2>3. \A q \in r.out : q.type # "INIT_ACK"
    BY <2>2, NoInitAck, Zenon
  <2>4. used'.tag \in Nat /\ used.tag <= used'.tag
    BY <1>1
  <2>5. NoPacket.type \in Handshake => NoPacket \in net /\ NoPacket.to = n
    BY <2>2, Zenon
  <2>6. \A q \in r.out : q.type = "INIT_ACK" => q.tag <= used'.tag
    BY <2>3, Zenon
  <2> QED
    BY <1>1, <2>1, <2>4, <2>5, <2>6, NetStep, Zenon
<1> QED
  BY <1>2, <1>4, <1>5, Zenon DEF IInv

LEMMA NothingLeft ==
  ASSUME NEW n, NEW t
  PROVE  LET r == Result(None, {}) IN
         r.tcb = None /\ r.out = {} /\ Links(n, t, NoPacket, r)
<1> DEFINE r == Result(None, {})
<1>1. r.tcb = None /\ r.out = {}
  BY ResultIs, Zenon
<1> HIDE DEF r
<1> QED
  BY <1>1, Zenon DEF Links, r

LEMMA CloseKeeps ==
  ASSUME IInv, NEW n \in Nodes, NEW linger0 \in BOOLEAN, sctp_close(n, linger0)
  PROVE  IInv'
<1> DEFINE s == IF linger0 THEN AbortiveClose(n, tcb[n]) ELSE GracefulClose(n, tcb[n])
           r == IF tcb[n] = None THEN Result(None, {}) ELSE s
<1>1. /\ DOMAIN tcb = Nodes /\ DOMAIN ep = Nodes /\ Counters /\ DOMAIN secret = Nodes
      /\ \A m \in Nodes : {secret[m].current, secret[m].last} \subseteq Nat
  BY Zenon DEF IInv, Shape
<1>2. (r.tcb # None => TcbRight(r.tcb, None)) /\ Links(n, tcb[n], NoPacket, r)
  <2>1. CASE tcb[n] = None
    BY <2>1, NothingLeft, Zenon
  <2>2. CASE tcb[n] # None
    <3>1. TcbRight(tcb[n], told[n])
      BY <2>2, HostIs, Zenon
    <3> QED
      BY <2>2, <3>1, CloseRight, Zenon
  <2> QED
    BY <2>1, <2>2, Zenon
<1>3. /\ tcb' = [tcb EXCEPT ![n] = r.tcb] /\ told' = [told EXCEPT ![n] = None]
      /\ Call /\ UNCHANGED secret
  <2>1. Result(None, {}).tcb = None
    BY ResultIs, Zenon
  <2> QED
    BY <1>1, <2>1, Zenon DEF sctp_close
<1>4. /\ DOMAIN ep' = Nodes /\ \A m \in Nodes : m # n => ep'[m] = ep[m]
      /\ ep'[n] = "gone" => r.tcb = None
  <2>1. ep[n] = "gone" => tcb[n] = None
    BY Zenon DEF IInv, HostRight
  <2>2. Result(None, {}).tcb = None
    BY ResultIs, Zenon
  <2> QED
    BY <1>1, <2>1, <2>2, Zenon DEF sctp_close
<1>5. \A q \in net' : q \in net \/ q \in r.out
  <2>1. net' = IF tcb[n] = None THEN net ELSE Sent(net, s.out)
    BY Zenon DEF sctp_close
  <2> QED
    BY <2>1, SentIs, Zenon
<1>6. Counters' /\ used'.tag = used.tag
  BY <1>1, <1>3, CountersCall, Zenon
<1> HIDE DEF r
<1> QED
  BY <1>1, <1>2, <1>3, <1>4, <1>5, <1>6, GivenUp, Zenon

LEMMA CrashKeeps ==
  ASSUME IInv, NEW n \in Nodes, Crash(n)
  PROVE  IInv'
<1> DEFINE r == Result(None, {})
<1>1. /\ DOMAIN tcb = Nodes /\ DOMAIN ep = Nodes /\ Counters /\ DOMAIN secret = Nodes
      /\ used.secret \in Nat
      /\ \A m \in Nodes : {secret[m].current, secret[m].last} \subseteq Nat
  BY Zenon DEF IInv, Shape, Counters
<1>2. r.tcb = None /\ r.out = {} /\ Links(n, tcb[n], NoPacket, r)
  BY NothingLeft, Zenon
<1>3. /\ tcb' = [tcb EXCEPT ![n] = r.tcb] /\ told' = [told EXCEPT ![n] = None]
      /\ net' = net /\ used' = [used EXCEPT !.event = @ + 1, !.secret = @ + 1]
  BY <1>2, Zenon DEF Crash
<1>4. DOMAIN ep' = Nodes /\ \A m \in Nodes : m # n => ep'[m] = ep[m]
  BY <1>1, Zenon DEF Crash
<1>5. /\ DOMAIN secret' = Nodes
      /\ \A m \in Nodes : {secret'[m].current, secret'[m].last} \subseteq Nat
  BY <1>1 DEF Crash, NewSecret
<1>6. Counters' /\ used'.tag = used.tag
  <2>1. /\ used = [x \in {"tag", "tcb", "event", "secret"} |-> used[x]]
        /\ used.tag \in Nat /\ used.tcb \in Nat /\ used.event \in Nat
    BY <1>1, Zenon DEF Counters
  <2>2. used' = [x \in {"tag", "tcb", "event", "secret"} |-> used'[x]]
    BY <1>3, <2>1, Zenon
  <2>3. /\ used'.tag = used.tag /\ used'.tcb = used.tcb
        /\ used'.event = used.event + 1 /\ used'.secret = used.secret + 1
    BY <1>3, <2>1, Zenon
  <2> QED
    BY <1>1, <2>1, <2>2, <2>3 DEF Counters
<1> HIDE DEF r
<1> QED
  BY <1>2, <1>3, <1>4, <1>5, <1>6, GivenUp, Zenon

LEMMA ConnectKeeps ==
  ASSUME IInv, NEW n \in Nodes, sctpconn_connect(n)
  PROVE  IInv'
<1> DEFINE x == used.tag + 1
           i == sctp_init_asoc(x)
           t == sctp_timer_start(i, "INIT")
           q0 == sctp_send_initiate(n, t)
<1>1. /\ Shape /\ HostRight /\ NetRight /\ DOMAIN tcb = Nodes /\ DOMAIN ep = Nodes
      /\ DOMAIN secret = Nodes /\ Counters
      /\ used.tag \in Nat /\ used.tcb \in Nat /\ used.secret \in Nat /\ used.event \in Nat
  BY Zenon DEF IInv, Shape, Counters
<1>2. /\ ep[n] = "gone" /\ tcb' = [tcb EXCEPT ![n] = t] /\ ep' = [ep EXCEPT ![n] = "idle"]
      /\ net' = Sent(net, {q0}) /\ secret' = [secret EXCEPT ![n] = NewSecret]
      /\ used' = [used EXCEPT !.tag = @ + 1, !.tcb = @ + 1, !.secret = @ + 1]
      /\ UNCHANGED told
  BY Zenon DEF sctpconn_connect
<1>3. tcb[n] = None /\ told[n] \notin Up
  BY <1>1, <1>2, Zenon DEF HostRight
<1>4. /\ i \in Tcb /\ i.state = "COOKIE_WAIT" /\ i.my = x /\ i.closed = FALSE /\ i.echo = None
      /\ i.rxt = "none" /\ i.queued = 0 /\ i.sent = 0 /\ i.acked = 0 /\ i.stale = 0
  <2> DEFINE k == used.tcb + 1
  <2>1. /\ x \in Nat /\ k \in Nat /\ 0 \in Nat /\ "none" \in TimerType
        /\ "COOKIE_WAIT" \in Opening \cup Established
    BY <1>1 DEF TimerType, Opening
  <2> HIDE DEF x, k
  <2>2. i \in Tcb
    BY <2>1, Zenon DEF sctp_init_asoc, Tcb, k
  <2> QED
    BY <2>2, Zenon DEF sctp_init_asoc
<1>5. /\ t \in Tcb /\ t.state = "COOKIE_WAIT" /\ t.my = x /\ t.closed = FALSE /\ t.echo = None
      /\ t.rxt = "INIT" /\ t.queued = 0 /\ t.sent = 0 /\ t.acked = 0 /\ t.stale = 0
  <2> HIDE DEF i
  <2> QED
    BY <1>4, TimerStart DEF TimerType, Alike
<1> HIDE DEF i, t
<1>6. TcbRight(t, told[n]) /\ t # None
  BY <1>3, <1>5, Symbols DEF TcbRight, Handled, HasOutput, Slot, Established
<1>7. InitOf(n, t, q0)
  BY <1>5, InitIs, Zenon
<1> HIDE DEF q0
<1>8. Counters' /\ used'.tag = x
  <2>1. used = [y \in {"tag", "tcb", "event", "secret"} |-> used[y]]
    BY <1>1, Zenon DEF Counters
  <2>2. used' = [y \in {"tag", "tcb", "event", "secret"} |-> used'[y]]
    BY <1>2, <2>1, Zenon
  <2>3. /\ used'.tag = used.tag + 1 /\ used'.tcb = used.tcb + 1
        /\ used'.event = used.event /\ used'.secret = used.secret + 1
    BY <1>2, <2>1, Zenon
  <2> QED
    BY <1>1, <2>2, <2>3 DEF Counters
<1>9. Shape'
  <2>1. /\ DOMAIN secret' = Nodes
        /\ \A m \in Nodes : {secret'[m].current, secret'[m].last} \subseteq Nat
    BY <1>1, <1>2 DEF NewSecret, Shape
  <2> QED
    BY <1>1, <1>2, <1>8, <2>1, Zenon DEF Shape
<1>10. tcb'[n] = t /\ (\A m \in Nodes : m # n => tcb'[m] = tcb[m])
  BY <1>1, <1>2, Zenon
<1>11. HostRight'
  <2>1. ASSUME NEW m \in Nodes
        PROVE  /\ IF tcb'[m] = None THEN told'[m] \notin Up ELSE TcbRight(tcb'[m], told'[m])
               /\ ep'[m] = "gone" => tcb'[m] = None
    <3>1. CASE m = n
      BY <1>1, <1>2, <1>6, <1>10, <3>1, Zenon
    <3>2. CASE m # n
      BY <1>1, <1>2, <1>10, <3>2, Zenon DEF HostRight
    <3> QED
      BY <3>1, <3>2, Zenon
  <2> QED
    BY <2>1, Zenon DEF HostRight
<1>12. ASSUME NEW c, CookieOld(c) PROVE CookieOld(c)' /\ c.peer # x /\ c.my # x
  BY <1>1, <1>8, <1>12 DEF CookieOld, Cookie
<1>13. ASSUME NEW q \in net'
       PROVE  PacketOld(q)' /\ (q \in net \/ q = q0)
  <2>1. q \in net \/ q = q0
    BY <1>2, SentIs, Zenon
  <2>2. CASE q \in net
    <3>1. PacketOld(q)
      BY <1>1, <2>2, Zenon DEF NetRight
    <3> QED
      BY <1>1, <1>8, <1>12, <2>2, <3>1 DEF PacketOld
  <2>3. CASE q = q0
    BY <1>1, <1>5, <1>7, <1>8, <2>3 DEF PacketOld, InitOf
  <2> QED
    BY <2>1, <2>2, <2>3, Zenon
<1>14. ASSUME NEW m \in Nodes, m # n, tcb[m] # None
       PROVE  /\ TcbOld(tcb[m]) /\ tcb[m].my # x
              /\ tcb[m].echo # None => tcb[m].echo.peer # x
  <2>1. TcbOld(tcb[m]) /\ tcb[m].my \in Nat
    BY <1>1, <1>14, Zenon DEF NetRight, HostRight, TcbRight, Handled, Tcb
  <2> QED
    BY <1>1, <1>12, <2>1 DEF TcbOld
<1>15. ASSUME NEW m \in Nodes, tcb'[m] # None PROVE TcbOld(tcb[m])'
  <2>1. CASE m = n
    BY <1>1, <1>5, <1>8, <1>10, <2>1 DEF TcbOld
  <2>2. CASE m # n
    <3>1. TcbOld(tcb[m]) /\ tcb'[m] = tcb[m] /\ tcb[m].my \in Nat
      BY <1>1, <1>10, <1>14, <1>15, <2>2, Zenon DEF HostRight, TcbRight, Handled, Tcb
    <3> QED
      BY <1>1, <1>8, <1>12, <3>1 DEF TcbOld
  <2> QED
    BY <2>1, <2>2, Zenon
<1>16. ASSUME NEW k \in Nodes, k # n, Waits(k)' PROVE Waits(k) /\ tcb'[k].my = tcb[k].my
  BY <1>10, <1>16, Zenon DEF Waits
<1>17. ASSUME NEW m \in Nodes, NEW k \in Nodes, m # k, Waits(k)', tcb'[m] # None,
              tcb'[m].state \in Opening
       PROVE  tcb'[m].my # tcb'[k].my
  <2>1. CASE k = n
    BY <1>5, <1>10, <1>14, <1>17, <2>1, Zenon
  <2>2. CASE k # n /\ m = n
    <3>1. tcb[k] # None /\ tcb'[k] = tcb[k]
      BY <1>10, <1>17, <2>2, Zenon DEF Waits
    <3> QED
      BY <1>5, <1>10, <1>14, <2>2, <3>1, Zenon
  <2>3. CASE k # n /\ m # n
    BY <1>1, <1>10, <1>16, <1>17, <2>3 DEF NetRight
  <2> QED
    BY <2>1, <2>2, <2>3, Zenon
<1>18. ASSUME NEW k \in Nodes, Waits(k)', NEW q \in net'
       PROVE  TagUnanswered(k, tcb'[k].my, q)
  <2>1. CASE k = n /\ q \in net
    <3>1. PacketOld(q)
      BY <1>1, <2>1, Zenon DEF NetRight
    <3> QED
      BY <1>1, <1>5, <1>10, <1>12, <2>1, <3>1 DEF PacketOld, TagUnanswered
  <2>2. CASE k = n /\ q = q0
    BY <1>7, <2>2, Zenon DEF InitOf, TagUnanswered
  <2>3. CASE k # n /\ q \in net
    BY <1>1, <1>16, <1>18, <2>3, Zenon DEF NetRight
  <2>4. CASE k # n /\ q = q0
    <3>1. tcb[k] # None /\ tcb'[k] = tcb[k]
      BY <1>10, <1>18, <2>4, Zenon DEF Waits
    <3>2. tcb[k].my # x
      BY <1>14, <2>4, <3>1, Zenon
    <3> QED
      BY <1>5, <1>7, <2>4, <3>1, <3>2, Zenon DEF InitOf, TagUnanswered
  <2> QED
    BY <1>13, <2>1, <2>2, <2>3, <2>4, Zenon
<1>19. ASSUME NEW k \in Nodes, Waits(k)', NEW m \in Nodes, tcb'[m] # None, tcb'[m].echo # None
       PROVE  tcb'[m].echo.peer # tcb'[k].my
  <2>1. m # n /\ tcb'[m] = tcb[m]
    BY <1>5, <1>10, <1>19, Zenon
  <2>2. CASE k = n
    BY <1>5, <1>10, <1>14, <1>19, <2>1, <2>2, Zenon
  <2>3. CASE k # n
    BY <1>1, <1>16, <1>19, <2>1, <2>3, Zenon DEF NetRight
  <2> QED
    BY <2>2, <2>3, Zenon
<1>20. NetRight'
  BY <1>13, <1>15, <1>17, <1>18, <1>19, Zenon DEF NetRight
<1> QED
  BY <1>9, <1>11, <1>20, Zenon DEF IInv

(* A step that leaves the hosts alone. *)
LEMMA QuietStep ==
  ASSUME IInv, UNCHANGED <<tcb, ep, told>>, \A q \in net' : q \in net,
         Counters', used'.tag = used.tag,
         DOMAIN secret' = Nodes, \A m \in Nodes : {secret'[m].current, secret'[m].last} \subseteq Nat
  PROVE  IInv'
<1>1. Shape'
  BY Zenon DEF IInv, Shape
<1>2. HostRight'
  BY Zenon DEF IInv, HostRight
<1>3. \A c : CookieOld(c) => CookieOld(c)'
  BY Zenon DEF CookieOld
<1>4. ASSUME NEW q \in net' PROVE PacketOld(q)'
  <2>1. PacketOld(q)
    BY Zenon DEF IInv, NetRight
  <2> QED
    BY <1>3, <2>1, Zenon DEF PacketOld
<1>5. ASSUME NEW m \in Nodes, tcb[m] # None PROVE TcbOld(tcb[m])'
  <2>1. TcbOld(tcb[m])
    BY <1>5, Zenon DEF IInv, NetRight
  <2> QED
    BY <1>3, <2>1, Zenon DEF TcbOld
<1>6. \A m \in Nodes : Waits(m)' <=> Waits(m)
  BY Zenon DEF Waits
<1>7. NetRight'
  BY <1>4, <1>5, <1>6, Zenon DEF IInv, NetRight
<1> QED
  BY <1>1, <1>2, <1>7, Zenon DEF IInv

LEMMA TimeKeeps ==
  ASSUME IInv, NEW p \in net, Lose(p) \/ Expire(p)
  PROVE  IInv'
<1>1. Shape /\ Counters
  BY Zenon DEF IInv, Shape
<1>2. CASE Lose(p)
  BY <1>1, <1>2, CountersSame, QuietStep, Zenon DEF Lose, Shape
<1>3. CASE Expire(p)
  <2>1. Counters' /\ used'.tag = used.tag
    BY <1>1, <1>3 DEF Expire, Counters
  <2> QED
    BY <1>1, <1>3, <2>1, QuietStep, Zenon DEF Expire, Shape
<1> QED
  BY <1>2, <1>3, Zenon

LEMMA SecretKeeps ==
  ASSUME IInv, NEW n \in Nodes, NewCookieSecret(n)
  PROVE  IInv'
<1>1. Shape /\ Counters /\ used.secret \in Nat /\ used.event \in Nat
  BY Zenon DEF IInv, Shape, Counters
<1>2. Counters' /\ used'.tag = used.tag
  <2>1. used = [x \in {"tag", "tcb", "event", "secret"} |-> used[x]]
    BY <1>1, Zenon DEF Counters
  <2>2. used' = [used EXCEPT !.event = @ + 1, !.secret = @ + 1]
    BY Zenon DEF NewCookieSecret
  <2>3. used' = [x \in {"tag", "tcb", "event", "secret"} |-> used'[x]]
    BY <2>1, <2>2, Zenon
  <2>4. /\ used'.tag = used.tag /\ used'.tcb = used.tcb
        /\ used'.event = used.event + 1 /\ used'.secret = used.secret + 1
    BY <2>1, <2>2, Zenon
  <2> QED
    BY <1>1, <2>3, <2>4 DEF Counters
<1>3. /\ DOMAIN secret' = Nodes
      /\ \A m \in Nodes : {secret'[m].current, secret'[m].last} \subseteq Nat
  BY <1>1 DEF NewCookieSecret, Shape
<1> QED
  BY <1>2, <1>3, QuietStep, Zenon DEF NewCookieSecret

-----------------------------------------------------------------------------
LEMMA NextKeeps ==
  ASSUME IInv, [Next]_vars
  PROVE  IInv'
<1>1. ASSUME NEW n \in Nodes, NEW p \in net, NEW keep \in BOOLEAN, Receive(n, p, keep) PROVE IInv'
  BY <1>1, ReceiveKeeps, Zenon
<1>2. ASSUME NEW p \in net, Lose(p) PROVE IInv'
  BY <1>2, TimeKeeps, Zenon
<1>3. ASSUME NEW p \in net, Expire(p) PROVE IInv'
  BY <1>3, TimeKeeps, Zenon
<1>4. ASSUME NEW n \in Nodes, sctp_timeout_handler(n) PROVE IInv'
  BY <1>4, TimeoutKeeps, Zenon
<1>5. ASSUME NEW n \in Nodes, GuardExpires(n) PROVE IInv'
  BY <1>5, GuardKeeps, Zenon
<1>6. ASSUME NEW n \in Nodes, NewCookieSecret(n) PROVE IInv'
  BY <1>6, SecretKeeps, Zenon
<1>7. ASSUME NEW n \in Nodes, sctpconn_connect(n) PROVE IInv'
  BY <1>7, ConnectKeeps, Zenon
<1>8. ASSUME NEW n \in Nodes, sctp_lower_sosend(n) PROVE IInv'
  BY <1>8, SendKeeps, Zenon
<1>9. ASSUME NEW n \in Nodes, sctp_shutdown(n) PROVE IInv'
  BY <1>9, ShutdownKeeps, Zenon
<1>10. ASSUME NEW n \in Nodes, NEW linger0 \in BOOLEAN, sctp_close(n, linger0) PROVE IInv'
  BY <1>10, CloseKeeps, Zenon
<1>11. ASSUME NEW n \in Nodes, Crash(n) PROVE IInv'
  BY <1>11, CrashKeeps, Zenon
<1>12. ASSUME UNCHANGED vars PROVE IInv'
  <2>1. Shape /\ Counters
    BY Zenon DEF IInv, Shape
  <2> QED
    BY <1>12, <2>1, CountersSame, QuietStep, Zenon DEF vars, Shape
<1> QED
  BY <1>1, <1>2, <1>3, <1>4, <1>5, <1>6, <1>7, <1>8, <1>9, <1>10, <1>11, <1>12, Zenon DEF Next

(* The invariant that carries the three theorems below. *)
THEOREM AssociationInvariant == Spec => []IInv
  BY InitRight, NextKeeps, PTL DEF Spec

(* The application hears of every beginning and of every end, whatever the     *)
(* bounds: COMM_UP or RESTART is reported on every way into an established     *)
(* state, and a TCB whose application was told so is never freed without a     *)
(* notification (sctp_notify_assoc_change, sctp_abort_notification), in every  *)
(* order of packets, losses, duplicates, crossing handshakes, timeouts,        *)
(* crashes and calls.                                                          *)
THEOREM ApplicationIsTold == Spec => []UserTold
<1>1. IInv => UserTold
  BY Zenon DEF IInv, HostRight, TcbRight, Handled, UserTold, NoSilentEnd, ToldOfOpen, Up
<1> QED
  BY <1>1, AssociationInvariant, PTL

(* A graceful end loses nothing, whatever the bounds: no way into SHUTDOWN_SENT *)
(* or SHUTDOWN_ACK_SENT (SACK, SHUTDOWN, the shutdown call, close, an implied   *)
(* COOKIE-ACK) is taken while data is queued or unacknowledged.                 *)
THEOREM ShutdownIsAfterData == Spec => []ShutdownAfterData
<1>1. IInv => ShutdownAfterData
  BY Zenon DEF IInv, HostRight, TcbRight, Handled, ShutdownAfterData
<1> QED
  BY <1>1, AssociationInvariant, PTL

(* Every wait is watched, whatever the bounds: while the association is not    *)
(* open, or data is unacknowledged, the retransmission timer or the shutdown   *)
(* guard of a TCB runs, although five timer types share one slot and a start   *)
(* that finds it taken does nothing.                                           *)
THEOREM WaitsAreTimed == Spec => []SomeTimerRuns
<1>1. IInv => SomeTimerRuns
  <2> SUFFICES ASSUME IInv, NEW n \in Nodes, tcb[n] # None,
                      tcb[n].state # "OPEN" \/ tcb[n].sent > tcb[n].acked, FirstTry(tcb[n]),
                      ~tcb[n].guard
               PROVE  tcb[n].rxt # "none"
    BY Zenon DEF SomeTimerRuns
  <2>1. TcbRight(tcb[n], told[n])
    BY HostIs, Zenon
  <2>2. /\ tcb[n].rxt = Slot(tcb[n]) /\ tcb[n].state # "SHUTDOWN_SENT"
        /\ tcb[n].state = "SHUTDOWN_RECEIVED" => tcb[n].sent > tcb[n].acked
    BY <2>1 DEF TcbRight, Handled, HasOutput
  <2>3. tcb[n].state \in Opening \cup Established
    BY <2>1, Zenon DEF TcbRight, Handled, Tcb
  <2> QED
    BY <2>2, <2>3, Zenon DEF Slot, Opening, Established
<1> QED
  BY <1>1, AssociationInvariant, PTL
==============================================================================
