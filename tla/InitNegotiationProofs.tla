------------------------ MODULE InitNegotiationProofs ------------------------
(***************************************************************************)
(* Proofs about InitNegotiation.  Without an option set in between, what a  *)
(* TCB uses once the peer's INIT or INIT-ACK is read is a function of the   *)
(* two endpoints; each chunk under way, each cookie and each TCB is shown   *)
(* to hold what that function needs of it.                                  *)
(***************************************************************************)
EXTENDS InitNegotiation, TLAPS

LEMMA OtherHost ==
  ASSUME NEW h \in Host
  PROVE  Other(h) \in Host /\ Other(h) # h /\ Other(Other(h)) = h
  BY Zenon DEF Host, Other

-----------------------------------------------------------------------------
(* What the two endpoints come to: the extensions both have, and the streams *)
(* that h may open.                                                          *)
Common(f, g) ==
  IF "auth" \in f \cap g THEN f \cap g ELSE (f \cap g) \ {"asconf"}
Shared == Common(ep["A"].feat, ep["B"].feat)
Least(x, y) == IF x > y THEN y ELSE x
Narrow(h) == Least(ep[h].os, ep[Other(h)].mis)

(* ASCONF is never without AUTH. *)
Sensible(f) == f \subseteq Feature /\ ("asconf" \in f => "auth" \in f)

EpRight(e, h) ==
  /\ e = [x \in {"feat", "os", "mis", "extra", "addrs", "adapt", "secret"} |-> e[x]]
  /\ Sensible(e.feat) /\ e.os \in Nat /\ e.mis \in Nat /\ e.adapt = Indication(h)

(* What shows in every INIT and INIT-ACK of h. *)
Made(h, m) ==
  /\ m.tag \in Nat \ {0} /\ m.os \in Nat /\ m.mis \in Nat
  /\ m.adapt = Indication(h) /\ m.extra = ep[h].extra /\ m.chunks \subseteq Chunk
InitOf(h, m) ==
  /\ Made(h, m) /\ ~Refused(m)
  /\ ~touched => PeerSupports(m) = ep[h].feat /\ m.os = ep[h].os /\ m.mis = ep[h].mis
AckOf(h, m) ==
  /\ Made(h, m)
  /\ ~touched => /\ PeerSupports(m) \in {ep[h].feat, Shared}
                 /\ m.os = Narrow(h) /\ m.mis = ep[h].mis
CookieOf(h, c) ==
  InitOf(Other(h), c.init) /\ AckOf(h, c.ack) /\ c.init.extra \notin Fatal

PacketRight(p) ==
  /\ p.to \in Host /\ p.type \in {"INIT", "INIT_ACK", "COOKIE_ECHO", "COOKIE_ACK", "ABORT"}
  /\ p.body.ext # {} => p.type \in {"INIT", "INIT_ACK"}
  /\ p.type = "INIT" => InitOf(Other(p.to), p.body)
  /\ p.type = "INIT_ACK" => AckOf(Other(p.to), p.body) /\ CookieOf(Other(p.to), p.cookie)
  /\ p.type = "COOKIE_ECHO" => CookieOf(p.to, p.cookie)

IsTcb(t) ==
  t = [x \in {"state", "my", "peer", "nonce", "feat", "os", "out", "real", "in", "maxin",
              "key", "peer_key", "peer_chunks", "peer_hmac_id", "adapt", "scope", "nets",
              "primary", "src", "crossed"} |-> t[x]]

(* A TCB as it can be built, whatever the peer. *)
Built(t) ==
  /\ IsTcb(t) /\ t.state \in {"COOKIE_WAIT", "COOKIE_ECHOED", "OPEN"}
  /\ Sensible(t.feat) /\ t.peer_chunks \subseteq Chunk
  /\ t.my \in Nat \ {0} /\ t.peer \in Nat
  /\ t.os \in Nat /\ t.out \in Nat /\ t.real \in Nat /\ t.in \in Nat /\ t.maxin \in Nat
  /\ t.in <= t.maxin /\ t.primary \in t.nets

(* What the INIT or the INIT-ACK of the peer has left in it. *)
PeerRead(h, t) ==
  /\ t.adapt = Indication(Other(h)) /\ ep[Other(h)].extra \notin Fatal
  /\ "asconf" \in t.feat => Chunk \subseteq t.peer_chunks

(* The functions of the endpoints. *)
Waiting(h, t) == t.feat = ep[h].feat /\ t.os = ep[h].os /\ t.out = ep[h].os /\ t.real = ep[h].os
Agreed(h, t) ==
  /\ t.feat = Shared /\ t.os = Narrow(h) /\ t.out = Narrow(h) /\ t.in = Narrow(Other(h))
  /\ t.out <= t.real

TcbRight(h, t) ==
  /\ Built(t)
  /\ t.state = "COOKIE_WAIT" => t.peer = 0
  /\ t.state # "COOKIE_WAIT" => PeerRead(h, t)
  /\ ~touched => /\ t.maxin = ep[h].mis
                 /\ t.state = "COOKIE_WAIT" => Waiting(h, t)
                 /\ t.state # "COOKIE_WAIT" => Agreed(h, t)

(* Tags and nonces were drawn.  A cookie that names the TCB of its maker as  *)
(* its tie while that TCB still waits for an INIT-ACK has the tag of it: so  *)
(* it cannot be the cookie of a restart.                                     *)
Drawn(t, d) == t.nonce \in Nat /\ t.nonce <= d /\ t.my <= d
Tie(t, d, c) ==
  /\ c.tie \in Nat /\ c.tie <= d /\ c.ack.tag <= d
  /\ t # None /\ t.state = "COOKIE_WAIT" /\ c.tie = t.nonce => c.ack.tag = t.my
TieRight(p) ==
  /\ p.type = "INIT_ACK" => Tie(asoc[Other(p.to)], drawn, p.cookie)
  /\ p.type = "COOKIE_ECHO" => Tie(asoc[p.to], drawn, p.cookie)

EpsRight == ep = [h \in Host |-> ep[h]] /\ \A h \in Host : EpRight(ep[h], h)
Now == drawn \in Nat /\ touched \in BOOLEAN /\ EpsRight
HostRight(h) == asoc[h] # None => TcbRight(h, asoc[h]) /\ Drawn(asoc[h], drawn)

(* The inductive invariant. *)
IInv ==
  /\ Now /\ events \in 0..MaxEvents
  /\ asoc = [h \in Host |-> asoc[h]] /\ \A h \in Host : HostRight(h)
  /\ \A p \in net : PacketRight(p) /\ TieRight(p)
-----------------------------------------------------------------------------
LEMMA BodyIs ==
  ASSUME NEW tag, NEW o, NEW i, NEW f, NEW random, NEW chunks, NEW adapt, NEW extra, NEW addrs
  PROVE  LET m == Body(tag, o, i, f, random, chunks, adapt, extra, addrs) IN
         /\ m.tag = tag /\ m.os = o /\ m.mis = i /\ m.adapt = adapt
         /\ m.ecn = ("ecn" \in f) /\ m.prsctp = ("prsctp" \in f) /\ m.ext = SupportedChunkExt(f)
         /\ m.random = (IF "auth" \in f THEN random ELSE 0)
         /\ m.chunks = (IF "auth" \in f THEN chunks ELSE {})
         /\ m.extra = extra /\ m.addrs = addrs
  BY Zenon DEF Body

(* Which extensions the list of chunk types stands for. *)
LEMMA ChunkExt ==
  ASSUME NEW f
  PROVE  LET x == SupportedChunkExt(f) IN
         /\ "AUTHENTICATION" \in x <=> "auth" \in f
         /\ "ASCONF" \in x <=> "asconf" \in f
         /\ "ASCONF_ACK" \in x <=> "asconf" \in f
         /\ "FORWARD_CUM_TSN" \in x <=> "prsctp" \in f
         /\ "STREAM_RESET" \in x <=> "reconfig" \in f
         /\ "IDATA" \in x <=> "idata" \in f
         /\ "NR_SELECTIVE_ACK" \in x <=> "nrsack" \in f
         /\ "PACKET_DROPPED" \in x <=> "pktdrop" \in f
  BY Zenon DEF SupportedChunkExt

(* A chunk offers the extensions it was made for, if it can be authenticated. *)
LEMMA OffersWhatItHas ==
  ASSUME NEW tag, NEW o, NEW i, NEW f, NEW random, NEW chunks, NEW adapt, NEW extra, NEW addrs,
         Sensible(f), random # 0, "asconf" \in f => Chunk \subseteq chunks
  PROVE  PeerSupports(Body(tag, o, i, f, random, chunks, adapt, extra, addrs)) = f
<1> DEFINE m == Body(tag, o, i, f, random, chunks, adapt, extra, addrs)
<1>1. /\ m.ecn = ("ecn" \in f) /\ m.prsctp = ("prsctp" \in f) /\ m.ext = SupportedChunkExt(f)
      /\ m.random = (IF "auth" \in f THEN random ELSE 0)
      /\ m.chunks = (IF "auth" \in f THEN chunks ELSE {})
  BY Zenon DEF Body
<1> HIDE DEF m
<1>2. /\ "AUTHENTICATION" \in m.ext /\ m.random # 0 <=> "auth" \in f
      /\ {"ASCONF", "ASCONF_ACK"} \subseteq m.ext \cap m.chunks <=> "asconf" \in f
      /\ m.prsctp \/ "FORWARD_CUM_TSN" \in m.ext <=> "prsctp" \in f
      /\ m.ecn <=> "ecn" \in f
      /\ "STREAM_RESET" \in m.ext <=> "reconfig" \in f
      /\ "IDATA" \in m.ext <=> "idata" \in f
      /\ "NR_SELECTIVE_ACK" \in m.ext <=> "nrsack" \in f
      /\ "PACKET_DROPPED" \in m.ext <=> "pktdrop" \in f
  BY <1>1, ChunkExt, Zenon DEF Sensible, Chunk
<1>3. ASSUME NEW x PROVE x \in PeerSupports(m) <=> x \in f
  BY <1>2, ZenonT(60) DEF PeerSupports, Sensible, Feature
<1> QED
  BY <1>3, Zenon DEF m

(* The INIT of an endpoint does not contradict itself. *)
LEMMA NothingRefused ==
  ASSUME NEW tag, NEW o, NEW i, NEW f, NEW random, NEW chunks, NEW adapt, NEW extra, NEW addrs,
         Sensible(f), "asconf" \in f => Chunk \subseteq chunks
  PROVE  ~Refused(Body(tag, o, i, f, random, chunks, adapt, extra, addrs))
<1> DEFINE m == Body(tag, o, i, f, random, chunks, adapt, extra, addrs)
<1>1. m.ext = SupportedChunkExt(f) /\ m.chunks = (IF "auth" \in f THEN chunks ELSE {})
  BY Zenon DEF Body
<1> HIDE DEF m
<1>2. ~Refused(m)
  BY <1>1, ChunkExt, Zenon DEF Sensible, Chunk, Refused
<1> QED
  BY <1>2, Zenon DEF m

LEMMA CommonIs ==
  ASSUME NEW f, NEW g, Sensible(f), Sensible(g)
  PROVE  /\ Common(f, g) = Common(g, f) /\ Sensible(Common(f, g))
         /\ Common(f, Common(f, g)) = Common(f, g)
         /\ Common(Common(f, g), f) = Common(f, g)
         /\ Common(Common(f, g), g) = Common(f, g)
         /\ "auth" \in Common(f, g) <=> "auth" \in f /\ "auth" \in g
         /\ Common(f, g) \subseteq f \cap g
<1>1. /\ "auth" \in Common(f, g) <=> "auth" \in f /\ "auth" \in g
      /\ Common(f, g) \subseteq f \cap g
      /\ "asconf" \in Common(f, g) <=> "asconf" \in f \cap g /\ "auth" \in f \cap g
      /\ \A x : x # "asconf" => (x \in Common(f, g) <=> x \in f \cap g)
  BY Zenon DEF Common
<1>2. f \cap g = g \cap f
  BY Zenon
<1>3. Common(f, g) = Common(g, f)
  BY <1>2, Zenon DEF Common
<1>4. Sensible(Common(f, g))
  BY <1>1, Zenon DEF Sensible
<1>5. f \cap Common(f, g) = Common(f, g) /\ Common(f, g) \cap f = Common(f, g)
      /\ Common(f, g) \cap g = Common(f, g)
  BY <1>1, Zenon
<1>6. "auth" \notin Common(f, g) => Common(f, g) \ {"asconf"} = Common(f, g)
  BY <1>4, Zenon DEF Sensible
<1> DEFINE c == Common(f, g)
<1>7. c = Common(f, g)
  BY Zenon
<1> HIDE DEF c
<1>8. Common(f, c) = c /\ Common(c, f) = c /\ Common(c, g) = c
  BY <1>5, <1>6, <1>7, Zenon DEF Common
<1> QED
  BY <1>1, <1>3, <1>4, <1>7, <1>8, Zenon

LEMMA SharedIs ==
  ASSUME NEW h \in Host
  PROVE  Shared = Common(ep[h].feat, ep[Other(h)].feat)
                  \/ Shared = Common(ep[Other(h)].feat, ep[h].feat)
  BY Zenon DEF Host, Other, Shared

-----------------------------------------------------------------------------
(* What reading an INIT or an INIT-ACK does to a TCB. *)
LEMMA ProcessInit ==
  ASSUME NEW t, Built(t), NEW m, m.tag \in Nat \ {0}, m.os \in Nat, m.mis \in Nat
  PROVE  LET u == sctp_process_init(t, m) IN
         /\ Built(u) /\ u.peer = m.tag
         /\ u.os = Least(t.os, m.mis) /\ u.out = Least(t.os, m.mis)
         /\ u.in = Least(t.maxin, m.os)
         /\ u.state = t.state /\ u.my = t.my /\ u.feat = t.feat /\ u.real = t.real
         /\ u.maxin = t.maxin /\ u.peer_chunks = t.peer_chunks /\ u.adapt = t.adapt
         /\ u.nets = t.nets /\ u.primary = t.primary /\ u.nonce = t.nonce
<1> DEFINE u == sctp_process_init(t, m)
<1>1. IsTcb(u)
  BY Zenon DEF Built, IsTcb, sctp_process_init
<1>2. /\ u.peer = m.tag
      /\ u.os = Least(t.os, m.mis) /\ u.out = Least(t.os, m.mis)
      /\ u.in = Least(t.maxin, m.os)
      /\ u.state = t.state /\ u.my = t.my /\ u.feat = t.feat /\ u.real = t.real
      /\ u.maxin = t.maxin /\ u.peer_chunks = t.peer_chunks /\ u.adapt = t.adapt
      /\ u.nets = t.nets /\ u.primary = t.primary /\ u.nonce = t.nonce
  BY Zenon DEF Built, IsTcb, sctp_process_init, Least
<1>3. Least(t.os, m.mis) \in Nat /\ Least(t.maxin, m.os) \in Nat /\ Least(t.maxin, m.os) <= t.maxin
  BY DEF Built, Least
<1> HIDE DEF u
<1>4. Built(u)
  BY <1>1, <1>2, <1>3, Zenon DEF Built
<1> QED
  BY <1>2, <1>4, Zenon DEF u

Loaded(t, m, u) ==
  /\ Built(u) /\ u.feat = Common(t.feat, PeerSupports(m))
  /\ u.adapt = PeersAdaptation(t, m)
  /\ "asconf" \in u.feat => Chunk \subseteq u.peer_chunks
  /\ u.state = t.state /\ u.my = t.my /\ u.peer = t.peer /\ u.os = t.os /\ u.out = t.out
  /\ u.real = t.real /\ u.in = t.in /\ u.maxin = t.maxin

LEMMA Load ==
  ASSUME NEW t, Built(t), NEW m, m.chunks \subseteq Chunk, NEW src
  PROVE  Loaded(t, m, sctp_load_addresses_from_init(t, m, src))
<1> DEFINE u == sctp_load_addresses_from_init(t, m, src)
           nets == SweptNets(t, m, src)
<1>1. IsTcb(u)
  BY ZenonT(60) DEF Built, IsTcb, sctp_load_addresses_from_init
<1>2. /\ u.feat = CommonFeatures(t, m) /\ u.adapt = PeersAdaptation(t, m)
      /\ u.nets = nets
      /\ u.primary = (IF t.primary \in nets THEN t.primary ELSE src)
      /\ u.peer_chunks = (IF m.random # 0 THEN m.chunks ELSE t.peer_chunks)
      /\ u.state = t.state /\ u.my = t.my /\ u.peer = t.peer /\ u.os = t.os /\ u.out = t.out
      /\ u.real = t.real /\ u.in = t.in /\ u.maxin = t.maxin
  BY Zenon DEF Built, IsTcb, sctp_load_addresses_from_init
<1>3. src \in nets
  BY Zenon DEF SweptNets
<1>4. u.feat = Common(t.feat, PeerSupports(m))
  BY <1>2, Zenon DEF CommonFeatures, Common
<1>5. Sensible(u.feat)
  BY <1>4, Zenon DEF Common, Sensible, Built
<1>6. "asconf" \in u.feat => Chunk \subseteq m.chunks /\ m.random # 0
<2>1. "asconf" \in u.feat => "asconf" \in PeerSupports(m) /\ "auth" \in PeerSupports(m)
  BY <1>4, Zenon DEF Common
<2>2. "asconf" \in PeerSupports(m) => Chunk \subseteq m.chunks
  BY Zenon DEF PeerSupports, Chunk
<2>3. "auth" \in PeerSupports(m) => m.random # 0
  BY Zenon DEF PeerSupports
<2> QED
  BY <2>1, <2>2, <2>3, Zenon
<1> HIDE DEF u, nets
<1>7. u.primary \in u.nets /\ u.peer_chunks \subseteq Chunk
  BY <1>2, <1>3, Zenon DEF Built
<1>8. Built(u)
  BY <1>1, <1>2, <1>5, <1>7, Zenon DEF Built
<1>9. "asconf" \in u.feat => Chunk \subseteq u.peer_chunks
  BY <1>2, <1>6, Zenon
<1>10. Loaded(t, m, u)
  BY <1>2, <1>4, <1>8, <1>9, Zenon DEF Loaded
<1> QED
  BY <1>10, Zenon DEF u

(* Both together, with a chunk of the peer. *)
LEMMA ReadPeer ==
  ASSUME NEW h \in Host, NEW t, Built(t), NEW m, Made(Other(h), m), NEW src
  PROVE  LET u == sctp_load_addresses_from_init(sctp_process_init(t, m), m, src) IN
         /\ Built(u) /\ u.feat = Common(t.feat, PeerSupports(m)) /\ u.peer = m.tag
         /\ u.adapt = (IF t.state # "OPEN" THEN Indication(Other(h)) ELSE t.adapt)
         /\ "asconf" \in u.feat => Chunk \subseteq u.peer_chunks
         /\ u.os = Least(t.os, m.mis) /\ u.out = Least(t.os, m.mis)
         /\ u.in = Least(t.maxin, m.os)
         /\ u.state = t.state /\ u.my = t.my /\ u.real = t.real /\ u.maxin = t.maxin
<1> DEFINE v == sctp_process_init(t, m)
           u == sctp_load_addresses_from_init(v, m, src)
<1>1. /\ Built(v) /\ v.peer = m.tag
      /\ v.os = Least(t.os, m.mis) /\ v.out = Least(t.os, m.mis)
      /\ v.in = Least(t.maxin, m.os)
      /\ v.state = t.state /\ v.my = t.my /\ v.feat = t.feat /\ v.real = t.real
      /\ v.maxin = t.maxin /\ v.adapt = t.adapt
  BY ProcessInit DEF Made
<1> HIDE DEF v
<1>2. /\ Built(u) /\ u.feat = Common(v.feat, PeerSupports(m))
      /\ u.adapt = PeersAdaptation(v, m)
      /\ "asconf" \in u.feat => Chunk \subseteq u.peer_chunks
      /\ u.state = v.state /\ u.my = v.my /\ u.peer = v.peer /\ u.os = v.os /\ u.out = v.out
      /\ u.real = v.real /\ u.in = v.in /\ u.maxin = v.maxin
  <2>1. Loaded(v, m, u)
    BY <1>1, Load, Zenon DEF Made
  <2> QED
    BY <2>1, Zenon DEF Loaded
<1>3. PeersAdaptation(v, m) = (IF t.state # "OPEN" THEN Indication(Other(h)) ELSE t.adapt)
  BY <1>1 DEF PeersAdaptation, Made, Indication
<1> HIDE DEF u
<1>4. /\ Built(u) /\ u.feat = Common(t.feat, PeerSupports(m)) /\ u.peer = m.tag
      /\ u.adapt = (IF t.state # "OPEN" THEN Indication(Other(h)) ELSE t.adapt)
      /\ "asconf" \in u.feat => Chunk \subseteq u.peer_chunks
      /\ u.os = Least(t.os, m.mis) /\ u.out = Least(t.os, m.mis)
      /\ u.in = Least(t.maxin, m.os)
      /\ u.state = t.state /\ u.my = t.my /\ u.real = t.real /\ u.maxin = t.maxin
  BY <1>1, <1>2, <1>3, Zenon
<1> QED
  BY <1>4, Zenon DEF u, v

(* The functions of the endpoints come out whichever chunk was read. *)
LEMMA ComesToAgree ==
  ASSUME EpsRight, NEW h \in Host,
         NEW f \in {ep[h].feat, Shared}, NEW g \in {ep[Other(h)].feat, Shared},
         NEW o \in {ep[h].os, Narrow(h)}, NEW q \in {ep[Other(h)].os, Narrow(Other(h))}
  PROVE  /\ Common(f, g) = Shared
         /\ Least(o, ep[Other(h)].mis) = Narrow(h)
         /\ Least(ep[h].mis, q) = Narrow(Other(h))
         /\ Narrow(h) <= o /\ Narrow(h) \in Nat
<1> DEFINE x == ep[h].feat
           y == ep[Other(h)].feat
<1>1. /\ Sensible(x) /\ Sensible(y) /\ ep[h].os \in Nat /\ ep[h].mis \in Nat
      /\ ep[Other(h)].os \in Nat /\ ep[Other(h)].mis \in Nat
  BY OtherHost, Zenon DEF EpsRight, EpRight
<1>2. Shared = Common(x, y)
  BY <1>1, SharedIs, CommonIs
<1>3. Common(x, y) = Shared /\ Common(x, Shared) = Shared /\ Common(Shared, y) = Shared
  BY <1>1, <1>2, CommonIs
<1>4. Common(Shared, Shared) = Shared
<2>1. Sensible(Shared)
  BY <1>1, <1>2, CommonIs, Zenon
<2>2. "auth" \notin Shared => Shared \ {"asconf"} = Shared
  BY <2>1, Zenon DEF Sensible
<2>3. Shared \cap Shared = Shared
  BY Zenon
<2> QED
  BY <2>2, <2>3, Zenon DEF Common
<1>5. Common(f, g) = Shared
  BY <1>3, <1>4, Zenon
<1>6. Narrow(Other(h)) = Least(ep[Other(h)].os, ep[h].mis)
  BY OtherHost, Zenon DEF Narrow
<1>7. /\ Least(o, ep[Other(h)].mis) = Narrow(h) /\ Narrow(h) <= o /\ Narrow(h) \in Nat
  BY <1>1 DEF Least, Narrow
<1>8. Least(ep[h].mis, q) = Narrow(Other(h))
  BY <1>1, <1>6 DEF Least
<1> QED
  BY <1>5, <1>7, <1>8, Zenon

-----------------------------------------------------------------------------
(* What a handler of h leaves of a TCB t, and what it sends. *)
SentRight(h, r, q) ==
  /\ PacketRight(q) /\ q.to = Other(h)
  /\ q.type = "INIT_ACK" => Tie(r.tcb, drawn + r.drawn, q.cookie)
  /\ q.type = "COOKIE_ECHO" => Tie(asoc[Other(h)], drawn + r.drawn, q.cookie)
Good(h, t, r) ==
  /\ r.drawn \in {0, 2}
  /\ r.tcb # None => TcbRight(h, r.tcb) /\ Drawn(r.tcb, drawn + r.drawn)
  /\ r.tcb # None /\ r.tcb.state = "COOKIE_WAIT" => r.tcb = t
  /\ \A q \in r.out : SentRight(h, r, q)

(* What it starts from. *)
Given(h, t, p) ==
  /\ Now /\ PacketRight(p) /\ p.to = h /\ TieRight(p)
  /\ t = asoc[h] /\ HostRight(h)

LEMMA PacketIs ==
  ASSUME NEW h \in Host, NEW type, NEW vtag, NEW src, NEW dst, NEW body, NEW report, NEW cookie
  PROVE  LET q == Packet(h, type, vtag, src, dst, body, report, cookie) IN
         q.to = Other(h) /\ q.type = type /\ q.body = body /\ q.cookie = cookie
  BY Zenon DEF Packet

LEMMA ResultIs ==
  ASSUME NEW t, NEW out, NEW d
  PROVE  Result(t, out, d).tcb = t /\ Result(t, out, d).out = out /\ Result(t, out, d).drawn = d
  BY Zenon DEF Result

(* Packets without parameters. *)
LEMMA PlainPacket ==
  ASSUME NEW h \in Host, NEW type \in {"COOKIE_ACK", "ABORT"}, NEW vtag, NEW src, NEW dst,
         NEW cookie, NEW r
  PROVE  SentRight(h, r, Packet(h, type, vtag, src, dst, NoBody, FALSE, cookie))
<1> DEFINE q == Packet(h, type, vtag, src, dst, NoBody, FALSE, cookie)
<1>1. q.to = Other(h) /\ q.type = type /\ q.body = NoBody
  BY Zenon DEF Packet
<1>2. NoBody.ext = {}
  BY Zenon DEF NoBody, Body, SupportedChunkExt
<1> HIDE DEF q
<1>3. SentRight(h, r, q)
  BY <1>1, <1>2, OtherHost, Zenon DEF SentRight, PacketRight
<1> QED
  BY <1>3, Zenon DEF q

LEMMA IgnoredGood ==
  ASSUME NEW h \in Host, NEW t, NEW p, Given(h, t, p)
  PROVE  Good(h, t, Ignored(t))
<1>1. Ignored(t).tcb = t /\ Ignored(t).out = {} /\ Ignored(t).drawn = 0
  BY ResultIs DEF Ignored
<1>2. drawn + 0 = drawn
  BY DEF Given, Now
<1> DEFINE r == Ignored(t)
<1> HIDE DEF r
<1>3. Good(h, t, r)
  BY <1>1, <1>2, Zenon DEF Good, Given, HostRight, r
<1> QED
  BY <1>3, Zenon DEF r

LEMMA AbortGood ==
  ASSUME NEW h \in Host, NEW t, NEW s, NEW p
  PROVE  Good(h, t, sctp_abort_association(h, s, p))
<1> DEFINE r == sctp_abort_association(h, s, p)
           q(v) == Packet(h, "ABORT", v, p.dst, p.src, NoBody, FALSE, None)
<1>1. r.tcb = None /\ r.drawn = 0 /\ \E v : r.out = {q(v)}
<2>1. r.tcb = None /\ r.drawn = 0
  BY Zenon DEF sctp_abort_association, Result
<2>2. CASE s = None
  <3> DEFINE v == IF p.type = "INIT" THEN p.body.tag ELSE p.vtag
  <3>1. r.out = {q(v)}
    BY <2>2, Zenon DEF sctp_abort_association, sctp_send_abort, Result
  <3> QED
    BY <2>1, <3>1, Zenon
<2>3. CASE s # None
  <3> DEFINE v == IF s.peer = 0 THEN p.body.tag ELSE s.peer
  <3>1. r.out = {q(v)}
    BY <2>3, Zenon DEF sctp_abort_association, Result
  <3> QED
    BY <2>1, <3>1, Zenon
<2> QED
  BY <2>2, <2>3, Zenon
<1> HIDE DEF r
<1>2. \A k \in r.out : SentRight(h, r, k)
<2>1. ASSUME NEW v PROVE SentRight(h, r, q(v))
  BY PlainPacket, Zenon
<2> HIDE DEF q
<2> QED
  BY <1>1, <2>1, Zenon
<1>3. Good(h, t, r)
  BY <1>1, <1>2, Zenon DEF Good
<1> QED
  BY <1>3, Zenon DEF r

(* sctp_send_initiate_ack: the cookie it makes. *)
LEMMA InitAckGood ==
  ASSUME NEW h \in Host, NEW t, NEW p, Given(h, t, p), p.type = "INIT"
  PROVE  Good(h, t, sctp_send_initiate_ack(h, t, p))
<1> DEFINE fresh == t = None \/ t.state = "OPEN"
           tag == IF fresh THEN drawn + 1 ELSE t.my
           to == IF t = None THEN p.src ELSE t.primary
           addrs == sctp_add_addresses_to_i_ia(ep[h], CookieScope(t, p))
           body == Body(tag, WantedStreams(h, t, p), ep[h].mis, OffersOwn(h, t), drawn + 2,
                        AuthChunks(ep[h]), ep[h].adapt, ep[h].extra, addrs)
           cookie == [init |-> p.body, ack |-> body, tie |-> IF t = None THEN 0 ELSE t.nonce,
                      address |-> to, scope |-> CookieScope(t, p), secret |-> ep[h].secret]
           report == sctp_arethere_unrecognized_parameters(p.body).report
           q == Packet(h, "INIT_ACK", p.body.tag, p.dst, to, body, report, cookie)
           r == Result(t, {q}, 2)
           refuse == \/ t # None /\ t.state # "COOKIE_WAIT" /\ sctp_are_there_new_addresses(t, p)
                     \/ AbortFlag(p.body)
<1>1. sctp_send_initiate_ack(h, t, p) = IF refuse THEN Result(t, {sctp_send_abort(h, p)}, 0) ELSE r
  BY Zenon DEF sctp_send_initiate_ack
<1> HIDE DEF refuse
<1>2. CASE refuse
<2> DEFINE s == Result(t, {sctp_send_abort(h, p)}, 0)
<2>1. s.tcb = t /\ s.drawn = 0 /\ s.out = {sctp_send_abort(h, p)}
  BY Zenon DEF Result
<2>2. SentRight(h, s, sctp_send_abort(h, p))
  BY PlainPacket, Zenon DEF sctp_send_abort
<2>3. drawn + 0 = drawn
  BY DEF Given, Now
<2> HIDE DEF s
<2>4. Good(h, t, s)
  BY <2>1, <2>2, <2>3, Zenon DEF Good, Given, HostRight
<2> QED
  BY <1>1, <1>2, <2>4, Zenon DEF s
<1>3. CASE ~refuse
<2>1. /\ EpsRight /\ drawn \in Nat /\ InitOf(Other(h), p.body)
      /\ t # None => TcbRight(h, t) /\ Drawn(t, drawn)
  BY <1>3, Zenon DEF Given, Now, PacketRight, HostRight
<2>2. p.body.extra \notin Fatal
  BY <1>3, Zenon DEF refuse, AbortFlag, sctp_arethere_unrecognized_parameters
<2>3. /\ tag \in Nat \ {0} /\ tag <= drawn + 2
      /\ t # None /\ t.state = "COOKIE_WAIT" => tag = t.my
  BY <2>1 DEF TcbRight, Built, Drawn
<2>4. WantedStreams(h, t, p) \in Nat /\ (~touched => WantedStreams(h, t, p) = Narrow(h))
  <3>1. /\ ep[h].os \in Nat /\ ep[Other(h)].mis \in Nat /\ p.body.mis \in Nat
        /\ ~touched => p.body.mis = ep[Other(h)].mis
    BY <2>1, OtherHost, Zenon DEF EpsRight, EpRight, InitOf, Made
  <3>2. CASE t = None
    BY <3>1, <3>2, Zenon DEF WantedStreams, Narrow, Least
  <3>3. CASE t # None
    <4>1. /\ t.os \in Nat /\ t.out \in Nat
          /\ ~touched => t.os = t.out /\ t.os \in {ep[h].os, Narrow(h)}
      BY <2>1, <3>3, Zenon DEF TcbRight, Built, Waiting, Agreed
    <4> QED
      BY <3>1, <3>3, <4>1, Zenon DEF WantedStreams, Narrow, Least
  <3> QED
    BY <3>2, <3>3, Zenon
<2>5. /\ Sensible(OffersOwn(h, t)) /\ AuthChunks(ep[h]) \subseteq Chunk
      /\ ~touched => OffersOwn(h, t) \in {ep[h].feat, Shared}
  BY <2>1, Zenon DEF OffersOwn, TcbRight, Built, Waiting, Agreed, EpsRight, EpRight, AuthChunks, Chunk
<2>6. ~touched /\ "asconf" \in OffersOwn(h, t) => Chunk \subseteq AuthChunks(ep[h])
  <3>1. Sensible(ep["A"].feat) /\ Sensible(ep["B"].feat)
    BY <2>1, Zenon DEF EpsRight, EpRight, Host
  <3>2. Shared \subseteq ep[h].feat
    BY <3>1, CommonIs DEF Shared, Host
  <3> QED
    BY <2>5, <3>2, Zenon DEF AuthChunks, Chunk
<2>7. ~touched => PeerSupports(body) = OffersOwn(h, t)
  <3>1. drawn + 2 # 0
    BY <2>1
  <3> QED
    BY <2>5, <2>6, <3>1, OffersWhatItHas
<2>8. /\ body.tag = tag /\ body.os = WantedStreams(h, t, p) /\ body.mis = ep[h].mis
      /\ body.adapt = ep[h].adapt /\ body.extra = ep[h].extra
      /\ body.chunks = (IF "auth" \in OffersOwn(h, t) THEN AuthChunks(ep[h]) ELSE {})
  BY Zenon DEF Body
<2>9. /\ cookie.init = p.body /\ cookie.ack = body
      /\ cookie.tie = (IF t = None THEN 0 ELSE t.nonce)
  BY Zenon
<2>10. q.to = Other(h) /\ q.type = "INIT_ACK" /\ q.body = body /\ q.cookie = cookie
  BY Zenon DEF Packet
<2>11. r.tcb = t /\ r.out = {q} /\ r.drawn = 2
  BY Zenon DEF Result
<2> HIDE DEF body, cookie, q, r, tag
<2>12. AckOf(h, body)
  <3>1. ep[h].mis \in Nat /\ ep[h].adapt = Indication(h)
    BY <2>1, Zenon DEF EpsRight, EpRight
  <3>2. Made(h, body)
    BY <2>3, <2>4, <2>5, <2>8, <3>1, Zenon DEF Made
  <3> QED
    BY <2>4, <2>5, <2>7, <2>8, <3>2, Zenon DEF AckOf
<2>13. CookieOf(h, cookie)
  BY <2>1, <2>2, <2>9, <2>12, Zenon DEF CookieOf
<2>14. PacketRight(q)
  BY <2>10, <2>12, <2>13, OtherHost, Zenon DEF PacketRight
<2>15. Tie(t, drawn + 2, cookie)
  BY <2>1, <2>3, <2>8, <2>9 DEF Tie, Drawn
<2>16. SentRight(h, r, q)
  BY <2>10, <2>11, <2>14, <2>15, Zenon DEF SentRight
<2>17. Good(h, t, r)
  <3>1. t # None => Drawn(t, drawn + 2)
    BY <2>1 DEF Drawn, TcbRight, Built
  <3> QED
    BY <2>1, <2>11, <2>16, <3>1, Zenon DEF Good
<2> QED
  BY <1>1, <1>3, <2>17, Zenon
<1> QED
  BY <1>2, <1>3, Zenon

LEMMA InitGood ==
  ASSUME NEW h \in Host, NEW t, NEW p, Given(h, t, p), p.type = "INIT"
  PROVE  Good(h, t, sctp_handle_init(h, t, p))
  BY AbortGood, InitAckGood, Zenon DEF sctp_handle_init

(* A TCB that has read a chunk of the peer and is not OPEN before that. *)
Reader(h, t) ==
  /\ Built(t) /\ ep[Other(h)].extra \notin Fatal
  /\ t.state # "OPEN" \/ t.adapt = Indication(Other(h))
  /\ ~touched => /\ t.maxin = ep[h].mis /\ t.feat \in {ep[h].feat, Shared}
                 /\ t.os \in {ep[h].os, Narrow(h)} /\ Narrow(h) <= t.real
HasRead(h, t, u) ==
  /\ Built(u) /\ PeerRead(h, u) /\ u.my = t.my
  /\ ~touched => u.maxin = ep[h].mis /\ Agreed(h, u)

LEMMA ReadRight ==
  ASSUME NEW h \in Host, EpsRight, NEW t, Reader(h, t), NEW m, NEW src,
         InitOf(Other(h), m) \/ AckOf(Other(h), m)
  PROVE  HasRead(h, t, sctp_load_addresses_from_init(sctp_process_init(t, m), m, src))
<1> DEFINE u == sctp_load_addresses_from_init(sctp_process_init(t, m), m, src)
<1>0. /\ Built(t) /\ ep[Other(h)].extra \notin Fatal
      /\ t.state # "OPEN" \/ t.adapt = Indication(Other(h))
      /\ ~touched => /\ t.maxin = ep[h].mis /\ t.feat \in {ep[h].feat, Shared}
                     /\ t.os \in {ep[h].os, Narrow(h)} /\ Narrow(h) <= t.real
  BY Zenon DEF Reader
<1>1. Made(Other(h), m)
  BY Zenon DEF InitOf, AckOf
<1>2. /\ Built(u) /\ u.feat = Common(t.feat, PeerSupports(m)) /\ u.peer = m.tag
      /\ u.adapt = (IF t.state # "OPEN" THEN Indication(Other(h)) ELSE t.adapt)
      /\ "asconf" \in u.feat => Chunk \subseteq u.peer_chunks
      /\ u.os = Least(t.os, m.mis) /\ u.out = Least(t.os, m.mis)
      /\ u.in = Least(t.maxin, m.os)
      /\ u.state = t.state /\ u.my = t.my /\ u.real = t.real /\ u.maxin = t.maxin
  BY <1>0, <1>1, ReadPeer
<1> HIDE DEF u
<1>3. ~touched => Agreed(h, u)
  <2>1. ~touched => /\ PeerSupports(m) \in {ep[Other(h)].feat, Shared}
                    /\ m.os \in {ep[Other(h)].os, Narrow(Other(h))}
                    /\ m.mis = ep[Other(h)].mis
    BY Zenon DEF InitOf, AckOf
  <2>2. ~touched => /\ Common(t.feat, PeerSupports(m)) = Shared
                    /\ Least(t.os, m.mis) = Narrow(h) /\ Least(t.maxin, m.os) = Narrow(Other(h))
    BY <1>0, <2>1, ComesToAgree, Zenon
  <2> QED
    BY <1>0, <1>2, <2>2, Zenon DEF Agreed
<1>4. PeerRead(h, u)
  BY <1>0, <1>2, Zenon DEF PeerRead
<1>5. HasRead(h, t, u)
  BY <1>0, <1>2, <1>3, <1>4, Zenon DEF HasRead
<1> QED
  BY <1>5, Zenon DEF u

LEMMA NarrowFits ==
  ASSUME EpsRight, NEW h \in Host
  PROVE  Narrow(h) \in Nat /\ Narrow(h) <= ep[h].os
  BY OtherHost DEF EpsRight, EpRight, Narrow, Least

(* sctp_process_init_ack *)
LEMMA InitAckRead ==
  ASSUME NEW h \in Host, NEW t, NEW p, Given(h, t, p), p.type = "INIT_ACK", t # None
  PROVE  Good(h, t, sctp_process_init_ack(h, t, p))
<1> DEFINE w == sctp_load_addresses_from_init(sctp_process_init(t, p.body), p.body, p.src)
           u == NegotiatedHmac(w, p.body)
           v == [u EXCEPT !.state = "COOKIE_ECHOED"]
           q == Packet(h, "COOKIE_ECHO", v.peer, p.dst, p.src, NoBody, FALSE, p.cookie)
           r == Result(v, {q}, 0)
           refuse == AbortFlag(p.body) \/ Refused(p.body)
<1>1. sctp_process_init_ack(h, t, p) =
        IF t.state # "COOKIE_WAIT" THEN Ignored(t)
        ELSE IF refuse THEN sctp_abort_association(h, [t EXCEPT !.peer = p.body.tag], p)
        ELSE r
  BY Zenon DEF sctp_process_init_ack
<1>2. Good(h, t, Ignored(t))
  BY IgnoredGood, Zenon
<1>3. Good(h, t, sctp_abort_association(h, [t EXCEPT !.peer = p.body.tag], p))
  BY AbortGood, Zenon
<1>4. CASE t.state = "COOKIE_WAIT" /\ ~refuse
<2>1. /\ EpsRight /\ drawn \in Nat /\ AckOf(Other(h), p.body) /\ CookieOf(Other(h), p.cookie)
      /\ TcbRight(h, t) /\ Drawn(t, drawn) /\ Tie(asoc[Other(h)], drawn, p.cookie)
  BY Zenon DEF Given, Now, PacketRight, HostRight, TieRight
<2>2. ep[Other(h)].extra \notin Fatal
  BY <1>4, <2>1, Zenon DEF AbortFlag, sctp_arethere_unrecognized_parameters, AckOf, Made
<2>3. ~touched => /\ t.maxin = ep[h].mis /\ t.feat \in {ep[h].feat, Shared}
                  /\ t.os \in {ep[h].os, Narrow(h)} /\ Narrow(h) <= t.real
  BY <1>4, <2>1, NarrowFits, Zenon DEF TcbRight, Waiting
<2>4. /\ Built(w) /\ PeerRead(h, w) /\ w.my = t.my
      /\ ~touched => w.maxin = ep[h].mis /\ Agreed(h, w)
  <3>1. Reader(h, t)
    BY <1>4, <2>1, <2>2, <2>3, Zenon DEF TcbRight, Reader
  <3>2. HasRead(h, t, w)
    BY <2>1, <3>1, ReadRight, Zenon
  <3> QED
    BY <3>2, Zenon DEF HasRead
<2>5. w.nonce = t.nonce
  BY <2>1, Zenon DEF TcbRight, Built, IsTcb, sctp_load_addresses_from_init, sctp_process_init
<2> HIDE DEF w
<2>6. /\ IsTcb(v) /\ v.state = "COOKIE_ECHOED"
      /\ v.my = w.my /\ v.peer = w.peer /\ v.nonce = w.nonce /\ v.feat = w.feat /\ v.os = w.os
      /\ v.out = w.out /\ v.real = w.real /\ v.in = w.in /\ v.maxin = w.maxin
      /\ v.peer_chunks = w.peer_chunks /\ v.adapt = w.adapt /\ v.nets = w.nets
      /\ v.primary = w.primary
  BY <2>4, Zenon DEF Built, IsTcb, NegotiatedHmac
<2>7. q.to = Other(h) /\ q.type = "COOKIE_ECHO" /\ q.body = NoBody /\ q.cookie = p.cookie
  BY Zenon DEF Packet
<2>8. NoBody.ext = {}
  BY Zenon DEF NoBody, Body, SupportedChunkExt
<2>9. r.tcb = v /\ r.out = {q} /\ r.drawn = 0
  BY Zenon DEF Result
<2> HIDE DEF v, q, r
<2>10. TcbRight(h, v)
  BY <2>4, <2>6, Zenon DEF TcbRight, Built, PeerRead, Agreed
<2>11. PacketRight(q)
  BY <2>1, <2>7, <2>8, OtherHost, Zenon DEF PacketRight
<2>12. drawn + 0 = drawn
  BY <2>1
<2>13. SentRight(h, r, q)
  BY <2>1, <2>7, <2>9, <2>11, <2>12, Zenon DEF SentRight
<2>14. Good(h, t, r)
  BY <2>1, <2>4, <2>5, <2>6, <2>9, <2>10, <2>12, <2>13, Zenon DEF Good, Drawn
<2> QED
  BY <1>1, <1>4, <2>14, Zenon
<1> QED
  BY <1>1, <1>2, <1>3, <1>4, Zenon

LEMMA CookieAckRight ==
  ASSUME NEW h \in Host, NEW t, NEW p, NEW r
  PROVE  \A q \in CookieAck(h, t, p) : SentRight(h, r, q)
  BY PlainPacket, Zenon DEF CookieAck

(* sctp_init_asoc *)
LEMMA NewTcb ==
  ASSUME NEW h \in Host, NEW my, NEW scope
  PROVE  LET s == sctp_init_asoc(h, my, scope) IN
         /\ IsTcb(s) /\ s.state = "COOKIE_WAIT" /\ s.my = my /\ s.nonce = my
         /\ s.peer = 0 /\ s.feat = ep[h].feat /\ s.os = ep[h].os /\ s.out = ep[h].os
         /\ s.real = ep[h].os /\ s.in = 0 /\ s.maxin = ep[h].mis /\ s.peer_chunks = {}
         /\ s.primary = scope
<1> DEFINE s == sctp_init_asoc(h, my, scope)
<1>1. IsTcb(s)
  BY Zenon DEF sctp_init_asoc, IsTcb
<1>2. /\ s.state = "COOKIE_WAIT" /\ s.my = my /\ s.nonce = my
      /\ s.peer = 0 /\ s.feat = ep[h].feat /\ s.os = ep[h].os /\ s.out = ep[h].os
      /\ s.real = ep[h].os /\ s.in = 0 /\ s.maxin = ep[h].mis /\ s.peer_chunks = {}
      /\ s.primary = scope
  BY Zenon DEF sctp_init_asoc
<1> QED
  BY <1>1, <1>2, Zenon

(* sctp_process_cookie_new *)
LEMMA CookieNewGood ==
  ASSUME NEW h \in Host, NEW p, Given(h, None, p), p.type = "COOKIE_ECHO"
  PROVE  Good(h, None, sctp_process_cookie_new(h, p))
<1> DEFINE c == p.cookie
           s == sctp_init_asoc(h, c.ack.tag, c.scope)
           t == [s EXCEPT !.os = c.ack.os, !.real = c.ack.os, !.nets = {c.address},
                          !.primary = c.address, !.src = p.dst, !.crossed = c.tie # 0]
           u == sctp_load_addresses_from_init(sctp_process_init(t, c.init), c.init, c.address)
           v == [sctp_auth_get_cookie_params(u, c.ack) EXCEPT !.state = "OPEN"]
           r == Result(v, CookieAck(h, v, p), 0)
<1>1. sctp_process_cookie_new(h, p) = IF Refused(c.init) THEN Ignored(None) ELSE r
  BY Zenon DEF sctp_process_cookie_new
<1>2. /\ EpsRight /\ drawn \in Nat /\ CookieOf(h, c) /\ Tie(asoc[h], drawn, c)
  BY Zenon DEF Given, Now, PacketRight, TieRight
<1>3. ~Refused(c.init) /\ InitOf(Other(h), c.init) /\ AckOf(h, c.ack)
  BY <1>2, Zenon DEF CookieOf, InitOf
<1>4. ep[Other(h)].extra \notin Fatal
  BY <1>2, <1>3, Zenon DEF CookieOf, InitOf, Made
<1>5. /\ IsTcb(t) /\ t.state = "COOKIE_WAIT" /\ t.my = c.ack.tag /\ t.nonce = c.ack.tag
      /\ t.peer = 0 /\ t.feat = ep[h].feat /\ t.os = c.ack.os /\ t.out = ep[h].os
      /\ t.real = c.ack.os /\ t.in = 0 /\ t.maxin = ep[h].mis /\ t.peer_chunks = {}
      /\ t.nets = {c.address} /\ t.primary = c.address
<2>1. /\ IsTcb(s) /\ s.state = "COOKIE_WAIT" /\ s.my = c.ack.tag /\ s.nonce = c.ack.tag
      /\ s.peer = 0 /\ s.feat = ep[h].feat /\ s.out = ep[h].os
      /\ s.in = 0 /\ s.maxin = ep[h].mis /\ s.peer_chunks = {}
  BY NewTcb
<2> HIDE DEF s
<2>2. IsTcb(t)
  BY <2>1, ZenonT(60) DEF IsTcb
<2>3. /\ t.state = s.state /\ t.my = s.my /\ t.nonce = s.nonce
      /\ t.peer = s.peer /\ t.feat = s.feat /\ t.os = c.ack.os /\ t.out = s.out
      /\ t.real = c.ack.os /\ t.in = s.in /\ t.maxin = s.maxin /\ t.peer_chunks = s.peer_chunks
      /\ t.nets = {c.address} /\ t.primary = c.address
  BY <2>1, Zenon DEF IsTcb
<2> HIDE DEF t
<2> QED
  BY <2>1, <2>2, <2>3, Zenon
<1> HIDE DEF t
<1>6. Built(t)
  BY <1>2, <1>3, <1>5 DEF Built, EpsRight, EpRight, AckOf, Made
<1>7. ~touched => /\ t.maxin = ep[h].mis /\ t.feat \in {ep[h].feat, Shared}
                  /\ t.os \in {ep[h].os, Narrow(h)} /\ Narrow(h) <= t.real
  BY <1>2, <1>3, <1>5, NarrowFits, SMTT(60) DEF AckOf
<1>8. /\ Built(u) /\ PeerRead(h, u) /\ u.my = t.my
      /\ ~touched => u.maxin = ep[h].mis /\ Agreed(h, u)
  <2>1. Reader(h, t)
    BY <1>4, <1>5, <1>6, <1>7, Zenon DEF Reader
  <2>2. HasRead(h, t, u)
    BY <1>2, <1>3, <2>1, ReadRight, Zenon
  <2> QED
    BY <2>2, Zenon DEF HasRead
<1>9. u.nonce = t.nonce
  BY <1>6, Zenon DEF Built, IsTcb, sctp_load_addresses_from_init, sctp_process_init
<1> HIDE DEF u
<1>10. /\ IsTcb(v) /\ v.state = "OPEN"
       /\ v.my = u.my /\ v.peer = u.peer /\ v.nonce = u.nonce /\ v.feat = u.feat /\ v.os = u.os
       /\ v.out = u.out /\ v.real = u.real /\ v.in = u.in /\ v.maxin = u.maxin
       /\ v.peer_chunks = u.peer_chunks /\ v.adapt = u.adapt /\ v.nets = u.nets
       /\ v.primary = u.primary
  BY <1>8, Zenon DEF Built, IsTcb, sctp_auth_get_cookie_params
<1>11. r.tcb = v /\ r.out = CookieAck(h, v, p) /\ r.drawn = 0
  BY Zenon DEF Result
<1> HIDE DEF v, r
<1>12. TcbRight(h, v)
  BY <1>8, <1>10, Zenon DEF TcbRight, Built, PeerRead, Agreed
<1>13. Drawn(v, drawn + 0)
  <2>1. v.my = c.ack.tag /\ v.nonce = c.ack.tag
    BY <1>5, <1>8, <1>9, <1>10, Zenon
  <2>2. c.ack.tag \in Nat /\ c.ack.tag <= drawn
    BY <1>2, <1>3, Zenon DEF Tie, AckOf, Made
  <2> QED
    BY <1>2, <2>1, <2>2 DEF Drawn
<1>14. Good(h, None, r)
  BY <1>10, <1>11, <1>12, <1>13, CookieAckRight, Zenon DEF Good
<1> QED
  BY <1>1, <1>3, <1>14, Zenon

(* sctp_process_cookie_existing.  Changing the state, the tag and the mark of *)
(* a TCB leaves the rest as it is.                                           *)
Restated(t, u) ==
  /\ IsTcb(u)
  /\ u.peer = t.peer /\ u.feat = t.feat /\ u.os = t.os /\ u.nonce = t.nonce
  /\ u.out = t.out /\ u.real = t.real /\ u.in = t.in /\ u.maxin = t.maxin
  /\ u.peer_chunks = t.peer_chunks /\ u.adapt = t.adapt /\ u.nets = t.nets
  /\ u.primary = t.primary

LEMMA RestatedRight ==
  ASSUME NEW h \in Host, NEW t, NEW u, Restated(t, u), Built(t), PeerRead(h, t),
         u.state = "OPEN", u.my \in Nat \ {0},
         ~touched => t.maxin = ep[h].mis /\ Agreed(h, t)
  PROVE  TcbRight(h, u)
  BY Zenon DEF Restated, TcbRight, Built, PeerRead, Agreed

(* What holds when a cookie comes back to a host with a TCB. *)
Echoed(h, t, p) ==
  /\ EpsRight /\ drawn \in Nat /\ CookieOf(h, p.cookie) /\ Tie(t, drawn, p.cookie)
  /\ TcbRight(h, t) /\ Drawn(t, drawn)
  /\ ~Refused(p.cookie.init) /\ InitOf(Other(h), p.cookie.init) /\ AckOf(h, p.cookie.ack)
  /\ ep[Other(h)].extra \notin Fatal

LEMMA EchoedNow ==
  ASSUME NEW h \in Host, NEW t, NEW p, Given(h, t, p), p.type = "COOKIE_ECHO", t # None
  PROVE  Echoed(h, t, p)
<1>1. /\ EpsRight /\ drawn \in Nat /\ CookieOf(h, p.cookie) /\ Tie(t, drawn, p.cookie)
      /\ TcbRight(h, t) /\ Drawn(t, drawn)
  BY Zenon DEF Given, Now, PacketRight, HostRight, TieRight
<1>2. ~Refused(p.cookie.init) /\ InitOf(Other(h), p.cookie.init) /\ AckOf(h, p.cookie.ack)
  BY <1>1, Zenon DEF CookieOf, InitOf
<1>3. ep[Other(h)].extra \notin Fatal
  BY <1>1, <1>2, Zenon DEF CookieOf, InitOf, Made
<1> QED
  BY <1>1, <1>2, <1>3, Zenon DEF Echoed

LEMMA OpenedGood ==
  ASSUME NEW h \in Host, NEW t, NEW v, NEW w, NEW p, drawn \in Nat, TcbRight(h, v),
         v.state = "OPEN", Drawn(v, drawn)
  PROVE  Good(h, t, Result(v, CookieAck(h, w, p), 0))
<1> DEFINE r == Result(v, CookieAck(h, w, p), 0)
<1>1. r.tcb = v /\ r.out = CookieAck(h, w, p) /\ r.drawn = 0
  BY Zenon DEF Result
<1> HIDE DEF r
<1>2. drawn + 0 = drawn
  OBVIOUS
<1>3. Good(h, t, r)
  BY <1>1, <1>2, CookieAckRight, Zenon DEF Good
<1> QED
  BY <1>3, Zenon DEF r

LEMMA CookieMatchesGood ==
  ASSUME NEW h \in Host, NEW t, NEW p, Echoed(h, t, p), p.cookie.init.tag = t.peer
  PROVE  Good(h, t, CookieMatches(h, t, p))
<1> DEFINE c == p.cookie
           s == sctp_process_init(t, c.init)
           u == IF t.state = "OPEN" THEN t ELSE [s EXCEPT !.state = "OPEN"]
           v == sctp_load_addresses_from_init(u, c.init, c.address)
           w == [v EXCEPT !.crossed = @ \/ t.state # "OPEN"]
<1>1. CookieMatches(h, t, p) = Result(w, CookieAck(h, v, p), 0)
  BY Zenon DEF CookieMatches, Echoed
<1>2. /\ EpsRight /\ Built(t) /\ t.state # "COOKIE_WAIT" /\ PeerRead(h, t)
      /\ Made(Other(h), c.init)
      /\ ~touched => t.maxin = ep[h].mis /\ Agreed(h, t)
  BY Zenon DEF Echoed, TcbRight, InitOf, Made
<1>3. /\ Built(u) /\ u.state = "OPEN" /\ u.feat = t.feat /\ u.adapt = t.adapt
      /\ u.my = t.my /\ u.nonce = t.nonce /\ u.real = t.real /\ u.maxin = t.maxin
      /\ ~touched => u.os = Narrow(h) /\ u.out = Narrow(h) /\ u.in = Narrow(Other(h))
<2>1. CASE t.state = "OPEN"
  BY <1>2, <2>1, Zenon DEF Agreed
<2>2. CASE t.state # "OPEN"
  <3>1. /\ Built(s) /\ s.os = Least(t.os, c.init.mis) /\ s.out = Least(t.os, c.init.mis)
        /\ s.in = Least(t.maxin, c.init.os)
        /\ s.my = t.my /\ s.feat = t.feat /\ s.real = t.real
        /\ s.maxin = t.maxin /\ s.adapt = t.adapt /\ s.nonce = t.nonce
    BY <1>2, ProcessInit, SMTT(60) DEF Made
  <3>2. ~touched => s.os = Narrow(h) /\ s.out = Narrow(h) /\ s.in = Narrow(Other(h))
    <4>1. ~touched => /\ t.os \in {ep[h].os, Narrow(h)} /\ t.maxin = ep[h].mis
                      /\ c.init.os \in {ep[Other(h)].os, Narrow(Other(h))}
                      /\ c.init.mis = ep[Other(h)].mis
      BY <1>2, Zenon DEF Agreed, Echoed, InitOf
    <4>2. ~touched => /\ Least(t.os, c.init.mis) = Narrow(h)
                      /\ Least(t.maxin, c.init.os) = Narrow(Other(h))
      BY <1>2, <4>1, ComesToAgree, Zenon
    <4> QED
      BY <3>1, <4>2, Zenon
  <3> HIDE DEF s
  <3>3. /\ Restated(s, u) /\ u.state = "OPEN" /\ u.my = s.my
    BY <2>2, <3>1, Zenon DEF Restated, Built, IsTcb
  <3> HIDE DEF u
  <3>4. Built(u)
    BY <3>1, <3>3, Zenon DEF Built, Restated
  <3> QED
    BY <3>1, <3>2, <3>3, <3>4, Zenon DEF Restated
<2> QED
  BY <2>1, <2>2, Zenon
<1> HIDE DEF u
<1>4. /\ Built(v) /\ v.feat = Common(u.feat, PeerSupports(c.init))
      /\ v.adapt = PeersAdaptation(u, c.init)
      /\ "asconf" \in v.feat => Chunk \subseteq v.peer_chunks
      /\ v.state = u.state /\ v.my = u.my /\ v.peer = u.peer /\ v.os = u.os /\ v.out = u.out
      /\ v.real = u.real /\ v.in = u.in /\ v.maxin = u.maxin
  <2>1. Loaded(u, c.init, v)
    BY <1>2, <1>3, Load, Zenon DEF Made
  <2> QED
    BY <2>1, Zenon DEF Loaded
<1>5. v.nonce = u.nonce
  BY <1>3, Zenon DEF Built, IsTcb, sctp_load_addresses_from_init
<1> HIDE DEF v
<1>6. PeerRead(h, v)
  BY <1>2, <1>3, <1>4, Zenon DEF PeerRead, PeersAdaptation
<1>7. ~touched => v.maxin = ep[h].mis /\ Agreed(h, v)
  <2>1. ~touched => Common(t.feat, PeerSupports(c.init)) = Shared
    <3>1. ~touched => t.feat = Shared /\ PeerSupports(c.init) = ep[Other(h)].feat
      BY <1>2, Zenon DEF Agreed, Echoed, InitOf
    <3> QED
      BY <1>2, <3>1, ComesToAgree, Zenon
  <2> QED
    BY <1>2, <1>3, <1>4, <2>1, Zenon DEF Agreed
<1>8. Restated(v, w) /\ w.state = "OPEN" /\ w.my = v.my
  BY <1>3, <1>4, Zenon DEF Restated, Built, IsTcb
<1> HIDE DEF w
<1>9. TcbRight(h, w)
  BY <1>4, <1>6, <1>7, <1>8, RestatedRight, Zenon DEF Built
<1>10. Drawn(w, drawn)
  BY <1>3, <1>4, <1>5, <1>8, Zenon DEF Drawn, Restated, Echoed
<1> QED
  BY <1>1, <1>8, <1>9, <1>10, OpenedGood, Zenon DEF Echoed

LEMMA CookieOfNewPeerTagGood ==
  ASSUME NEW h \in Host, NEW t, NEW p, Echoed(h, t, p)
  PROVE  Good(h, t, CookieOfNewPeerTag(h, t, p))
<1> DEFINE c == p.cookie
           u == sctp_process_init(t, c.init)
           w == sctp_load_addresses_from_init(u, c.init, c.address)
           v == [w EXCEPT !.state = "OPEN", !.crossed = TRUE]
<1>1. CookieOfNewPeerTag(h, t, p) = Result(v, CookieAck(h, v, p), 0)
  BY Zenon DEF CookieOfNewPeerTag, Echoed
<1>2. /\ EpsRight /\ Built(t) /\ InitOf(Other(h), c.init) /\ ep[Other(h)].extra \notin Fatal
      /\ t.state # "OPEN" \/ t.adapt = Indication(Other(h))
  BY Zenon DEF Echoed, TcbRight, PeerRead
<1>3. ~touched => /\ t.maxin = ep[h].mis /\ t.feat \in {ep[h].feat, Shared}
                  /\ t.os \in {ep[h].os, Narrow(h)} /\ Narrow(h) <= t.real
  BY <1>2, NarrowFits, Zenon DEF Echoed, TcbRight, Waiting, Agreed
<1>4. /\ Built(w) /\ PeerRead(h, w) /\ w.my = t.my
      /\ ~touched => w.maxin = ep[h].mis /\ Agreed(h, w)
  <2>1. Reader(h, t)
    BY <1>2, <1>3, Zenon DEF Reader
  <2>2. HasRead(h, t, w)
    BY <1>2, <2>1, ReadRight, Zenon
  <2> QED
    BY <2>2, Zenon DEF HasRead
<1>5. w.nonce = t.nonce
  BY <1>2, Zenon DEF Built, IsTcb, sctp_load_addresses_from_init, sctp_process_init
<1> HIDE DEF w
<1>6. IsTcb(v)
  BY <1>4, Zenon DEF Built, IsTcb
<1>7. Restated(w, v) /\ v.state = "OPEN" /\ v.my = w.my
  BY <1>4, <1>6, Zenon DEF Restated, Built, IsTcb
<1> HIDE DEF v
<1>8. TcbRight(h, v)
  BY <1>4, <1>7, RestatedRight, Zenon DEF Built
<1>9. Drawn(v, drawn)
  BY <1>4, <1>5, <1>7, Zenon DEF Drawn, Restated, Echoed
<1> QED
  BY <1>1, <1>7, <1>8, <1>9, OpenedGood, Zenon DEF Echoed

(* A restart is known by a tie, so that the TCB does not wait for an INIT-ACK. *)
LEMMA CookieOfRestartGood ==
  ASSUME NEW h \in Host, NEW t, t # None, NEW p, Echoed(h, t, p),
         p.cookie.ack.tag # t.my, p.cookie.tie = t.nonce
  PROVE  Good(h, t, CookieOfRestart(h, t, p))
<1> DEFINE c == p.cookie
           s == [t EXCEPT !.os = c.ack.os]
           x == sctp_process_init(s, c.init)
           u == [x EXCEPT !.my = c.ack.tag, !.state = "OPEN", !.crossed = TRUE]
           v == sctp_load_addresses_from_init(u, c.init, c.address)
<1>1. CookieOfRestart(h, t, p) = Result(v, CookieAck(h, v, p), 0)
  BY Zenon DEF CookieOfRestart, Echoed
<1>2. /\ EpsRight /\ Built(t) /\ t.state # "COOKIE_WAIT" /\ PeerRead(h, t)
      /\ Made(Other(h), c.init) /\ Made(h, c.ack)
      /\ ~touched => t.maxin = ep[h].mis /\ Agreed(h, t)
  BY Zenon DEF Echoed, TcbRight, InitOf, AckOf, Tie
<1>3. /\ IsTcb(s) /\ s.os = c.ack.os /\ s.state = t.state /\ s.my = t.my /\ s.peer = t.peer
      /\ s.feat = t.feat /\ s.nonce = t.nonce /\ s.out = t.out /\ s.real = t.real
      /\ s.in = t.in /\ s.maxin = t.maxin /\ s.peer_chunks = t.peer_chunks
      /\ s.adapt = t.adapt /\ s.nets = t.nets /\ s.primary = t.primary
  BY <1>2, Zenon DEF Built, IsTcb
<1> HIDE DEF s
<1>4. Built(s)
  BY <1>2, <1>3, Zenon DEF Built, Made
<1>5. /\ Built(x) /\ x.os = Least(s.os, c.init.mis) /\ x.out = Least(s.os, c.init.mis)
      /\ x.in = Least(s.maxin, c.init.os) /\ x.feat = s.feat /\ x.real = s.real
      /\ x.maxin = s.maxin /\ x.adapt = s.adapt /\ x.nonce = s.nonce
<2> DEFINE m == c.init
<2>1. m.tag \in Nat \ {0} /\ m.os \in Nat /\ m.mis \in Nat
  BY <1>2, Zenon DEF Made
<2> HIDE DEF m
<2> DEFINE y == sctp_process_init(s, m)
<2>2. /\ Built(y) /\ y.os = Least(s.os, m.mis) /\ y.out = Least(s.os, m.mis)
      /\ y.in = Least(s.maxin, m.os) /\ y.feat = s.feat /\ y.real = s.real
      /\ y.maxin = s.maxin /\ y.adapt = s.adapt /\ y.nonce = s.nonce
  BY <1>4, <2>1, ProcessInit
<2> QED
  BY <2>2, Zenon DEF m
<1> HIDE DEF x
<1>6. IsTcb(u)
  BY <1>5, Zenon DEF Built, IsTcb
<1>7. Restated(x, u) /\ u.state = "OPEN" /\ u.my = c.ack.tag
  BY <1>5, <1>6, Zenon DEF Restated, Built, IsTcb
<1> HIDE DEF u
<1>8. Built(u)
  BY <1>2, <1>5, <1>7, Zenon DEF Built, Restated, Made
<1>9. /\ Built(v) /\ v.feat = Common(u.feat, PeerSupports(c.init))
      /\ v.adapt = PeersAdaptation(u, c.init)
      /\ "asconf" \in v.feat => Chunk \subseteq v.peer_chunks
      /\ v.state = u.state /\ v.my = u.my /\ v.peer = u.peer /\ v.os = u.os /\ v.out = u.out
      /\ v.real = u.real /\ v.in = u.in /\ v.maxin = u.maxin
  <2>1. Loaded(u, c.init, v)
    BY <1>2, <1>8, Load, Zenon DEF Made
  <2> QED
    BY <2>1, Zenon DEF Loaded
<1>10. v.nonce = u.nonce
  BY <1>8, Zenon DEF Built, IsTcb, sctp_load_addresses_from_init
<1> HIDE DEF v
<1>11. PeerRead(h, v)
  BY <1>2, <1>3, <1>5, <1>7, <1>9, Zenon DEF PeerRead, PeersAdaptation, Restated
<1>12. ~touched => v.maxin = ep[h].mis /\ Agreed(h, v)
  <2>1. ~touched => /\ t.feat = Shared /\ PeerSupports(c.init) = ep[Other(h)].feat
                    /\ c.ack.os = Narrow(h) /\ t.maxin = ep[h].mis
                    /\ c.init.mis = ep[Other(h)].mis /\ c.init.os = ep[Other(h)].os
    BY <1>2, Zenon DEF Agreed, Echoed, InitOf, AckOf
  <2>2. ~touched => /\ Common(t.feat, PeerSupports(c.init)) = Shared
                    /\ Least(c.ack.os, c.init.mis) = Narrow(h)
                    /\ Least(t.maxin, c.init.os) = Narrow(Other(h))
    BY <1>2, <2>1, ComesToAgree, Zenon
  <2>3. ~touched => Narrow(h) <= t.real
    BY <1>2, Zenon DEF Agreed
  <2>4. /\ v.feat = Common(t.feat, PeerSupports(c.init)) /\ v.real = t.real
        /\ v.os = Least(c.ack.os, c.init.mis) /\ v.out = Least(c.ack.os, c.init.mis)
        /\ v.in = Least(t.maxin, c.init.os) /\ v.maxin = t.maxin
    BY <1>3, <1>5, <1>7, <1>9 DEF Restated
  <2> QED
    BY <1>2, <2>2, <2>3, <2>4, Zenon DEF Agreed
<1>13. TcbRight(h, v)
  BY <1>7, <1>9, <1>11, <1>12, Zenon DEF TcbRight
<1>14. Drawn(v, drawn)
  <2>1. v.my = c.ack.tag /\ v.nonce = t.nonce
    BY <1>3, <1>5, <1>7, <1>9, <1>10, Zenon DEF Restated
  <2> QED
    BY <2>1, Zenon DEF Drawn, Echoed, Tie
<1> QED
  BY <1>1, <1>7, <1>9, <1>13, <1>14, OpenedGood, Zenon DEF Echoed

LEMMA CookieExistingGood ==
  ASSUME NEW h \in Host, NEW t, NEW p, Given(h, t, p), p.type = "COOKIE_ECHO", t # None
  PROVE  Good(h, t, sctp_process_cookie_existing(h, t, p))
<1>1. Echoed(h, t, p)
  BY EchoedNow, Zenon
<1>2. Good(h, t, Ignored(t))
  BY IgnoredGood, Zenon
<1> QED
  BY <1>1, <1>2, CookieMatchesGood, CookieOfNewPeerTagGood, CookieOfRestartGood, Zenon
     DEF sctp_process_cookie_existing

(* sctp_handle_cookie_ack *)
LEMMA CookieAckGood ==
  ASSUME NEW h \in Host, NEW t, NEW p, Given(h, t, p), t # None
  PROVE  Good(h, t, sctp_handle_cookie_ack(t))
<1> DEFINE u == [t EXCEPT !.state = "OPEN"]
<1>1. CASE t.state # "COOKIE_ECHOED"
  BY <1>1, IgnoredGood, Zenon DEF sctp_handle_cookie_ack
<1>2. CASE t.state = "COOKIE_ECHOED"
<2>1. TcbRight(h, t) /\ Drawn(t, drawn) /\ drawn \in Nat
  BY Zenon DEF Given, HostRight, Now
<2>2. Restated(t, u) /\ u.state = "OPEN" /\ u.my = t.my
  BY <2>1, Zenon DEF TcbRight, Built, IsTcb, Restated
<2>3. sctp_handle_cookie_ack(t) = Result(u, {}, 0)
  BY <1>2, Zenon DEF sctp_handle_cookie_ack, Ignored
<2> HIDE DEF u
<2>4. TcbRight(h, u)
  BY <1>2, <2>1, <2>2, RestatedRight, Zenon DEF TcbRight, Built
<2>5. Drawn(u, drawn + 0)
  BY <2>1, <2>2 DEF Drawn, Restated
<2> DEFINE r == Result(u, {}, 0)
<2>6. r.tcb = u /\ r.out = {} /\ r.drawn = 0
  BY Zenon DEF Result
<2> HIDE DEF r
<2>7. Good(h, t, r)
  BY <2>2, <2>4, <2>5, <2>6, Zenon DEF Good
<2> QED
  BY <2>3, <2>7, Zenon DEF r
<1> QED
  BY <1>1, <1>2, Zenon

LEMMA HandleGood ==
  ASSUME NEW h \in Host, NEW t, NEW p, Given(h, t, p)
  PROVE  Good(h, t, Handle(h, t, p))
<1>1. Good(h, t, Ignored(t))
  BY IgnoredGood, Zenon
<1>2. CASE p.type = "INIT"
  BY <1>2, InitGood, Zenon DEF Handle
<1>3. CASE p.type = "COOKIE_ECHO"
  BY <1>1, <1>3, CookieNewGood, CookieExistingGood, Zenon DEF Handle
<1>4. CASE p.type \notin {"INIT", "COOKIE_ECHO"}
<2>1. CASE t = None \/ p.vtag # t.my
  BY <1>1, <1>4, <2>1, Zenon DEF Handle
<2>2. CASE t # None /\ p.vtag = t.my
  <3>1. CASE p.type = "INIT_ACK"
    BY <2>2, <3>1, InitAckRead, Zenon DEF Handle
  <3>2. CASE p.type = "COOKIE_ACK"
    BY <2>2, <3>2, CookieAckGood, Zenon DEF Handle
  <3>3. CASE p.type = "ABORT"
    <4>1. Handle(h, t, p) = Result(None, {}, 0)
      BY <2>2, <3>3, Zenon DEF Handle, Ignored
    <4> DEFINE r == Result(None, {}, 0)
    <4>2. r.tcb = None /\ r.out = {} /\ r.drawn = 0
      BY Zenon DEF Result
    <4> HIDE DEF r
    <4>3. Good(h, t, r)
      BY <4>2, Zenon DEF Good
    <4> QED
      BY <4>1, <4>3, Zenon DEF r
  <3> QED
    BY <1>4, <3>1, <3>2, <3>3, Zenon DEF Given, PacketRight
<2> QED
  BY <2>1, <2>2, Zenon
<1> QED
  BY <1>2, <1>3, <1>4, Zenon

-----------------------------------------------------------------------------
(* Chunks and TCBs stay right while what they say of the endpoints does. *)
Kept ==
  /\ \A h \in Host : ep[h].extra = ep'[h].extra
  /\ touched => touched'
  /\ ~touched' => \A h \in Host : /\ ep'[h].feat = ep[h].feat
                                  /\ ep'[h].os = ep[h].os /\ ep'[h].mis = ep[h].mis

LEMMA FunctionsKept ==
  ASSUME Kept, ~touched', NEW h \in Host
  PROVE  Shared' = Shared /\ Narrow(h)' = Narrow(h)
  BY OtherHost, Zenon DEF Kept, Shared, Narrow, Host

LEMMA ChunksKept ==
  ASSUME Kept, NEW h \in Host, NEW m
  PROVE  (InitOf(h, m) => InitOf(h, m)') /\ (AckOf(h, m) => AckOf(h, m)')
<1>1. Made(h, m) => Made(h, m)'
  BY Zenon DEF Made, Kept
<1>2. ~touched' => ~touched /\ ep'[h].feat = ep[h].feat /\ ep'[h].os = ep[h].os
                   /\ ep'[h].mis = ep[h].mis
  BY Zenon DEF Kept
<1>3. InitOf(h, m) => InitOf(h, m)'
  BY <1>1, <1>2, Zenon DEF InitOf
<1>4. AckOf(h, m) => AckOf(h, m)'
  BY <1>1, <1>2, FunctionsKept, Zenon DEF AckOf
<1> QED
  BY <1>3, <1>4, Zenon

LEMMA PacketKept ==
  ASSUME Kept, NEW p, PacketRight(p)
  PROVE  PacketRight(p)'
<1>1. p.to \in Host /\ Other(p.to) \in Host /\ Other(Other(p.to)) = p.to
  BY OtherHost, Zenon DEF PacketRight
<1>2. ASSUME NEW h \in Host, NEW c, CookieOf(h, c) PROVE CookieOf(h, c)'
  BY <1>2, ChunksKept, OtherHost, Zenon DEF CookieOf
<1> QED
  BY <1>1, <1>2, ChunksKept, Zenon DEF PacketRight

LEMMA TcbKept ==
  ASSUME Kept, NEW h \in Host, NEW t, TcbRight(h, t)
  PROVE  TcbRight(h, t)'
<1>1. ~touched' => ~touched /\ ep'[h].feat = ep[h].feat /\ ep'[h].os = ep[h].os
                   /\ ep'[h].mis = ep[h].mis
  BY Zenon DEF Kept
<1>2. PeerRead(h, t) => PeerRead(h, t)'
  BY OtherHost, Zenon DEF PeerRead, Kept
<1>3. ~touched' => (Waiting(h, t) => Waiting(h, t)')
  BY <1>1, Zenon DEF Waiting
<1>4. ~touched' => (Agreed(h, t) => Agreed(h, t)')
  BY FunctionsKept, OtherHost, Zenon DEF Agreed
<1> QED
  BY <1>1, <1>2, <1>3, <1>4, Zenon DEF TcbRight

(* Nothing was set: the endpoints keep their options. *)
LEMMA NothingSet ==
  ASSUME UNCHANGED <<ep, touched>>
  PROVE  Kept /\ (EpsRight => EpsRight')
  BY Zenon DEF Kept, EpsRight

LEMMA TieKept ==
  ASSUME NEW d \in Nat, NEW e \in Nat, d <= e, NEW c, c.ack.tag \in Nat, NEW t, NEW u, Tie(t, d, c),
         u # None /\ u.state = "COOKIE_WAIT" => u = t
  PROVE  Tie(u, e, c)
  BY DEF Tie

(* What was drawn stays drawn. *)
LEMMA DrawnStays ==
  ASSUME NEW h, NEW t, TcbRight(h, t), NEW d \in Nat, NEW e \in Nat, d <= e, Drawn(t, d)
  PROVE  Drawn(t, e)
<1>1. Built(t)
  BY Zenon DEF TcbRight
<1>2. t.my \in Nat
  BY <1>1, Zenon DEF Built
<1> QED
  BY <1>1, <1>2 DEF Drawn, Built

(* The tag in a cookie. *)
LEMMA CookieTag ==
  ASSUME NEW p, PacketRight(p), p.type \in {"INIT_ACK", "COOKIE_ECHO"}
  PROVE  p.cookie.ack.tag \in Nat
  BY Zenon DEF PacketRight, CookieOf, AckOf, Made

(* What host h adds to the network, with TCB t and d values drawn. *)
Adds(h, t, d) ==
  \A p \in net' \ net :
    /\ PacketRight(p) /\ p.to = Other(h)
    /\ p.type = "INIT_ACK" => Tie(t, drawn + d, p.cookie)
    /\ p.type = "COOKIE_ECHO" => Tie(asoc[Other(h)], drawn + d, p.cookie)

(* One host's TCB and the network change, and d values are drawn. *)
LEMMA StepKeeps ==
  ASSUME IInv, NEW h \in Host, NEW t, NEW d \in {0, 2}, UNCHANGED <<ep, touched>>,
         asoc' = [asoc EXCEPT ![h] = t], drawn' = drawn + d, events' \in 0..MaxEvents,
         t # None => TcbRight(h, t) /\ Drawn(t, drawn + d),
         t # None /\ t.state = "COOKIE_WAIT" => t = asoc[h] \/ t.nonce > drawn,
         Adds(h, t, d)
  PROVE  IInv'
<1>1. Kept /\ EpsRight'
  BY NothingSet, Zenon DEF IInv, Now
<1>2. drawn \in Nat /\ drawn' \in Nat /\ drawn <= drawn'
  BY DEF IInv, Now
<1>3. Now'
  BY <1>1, <1>2, Zenon DEF IInv, Now
<1>4. /\ asoc' = [k \in Host |-> asoc'[k]] /\ asoc'[h] = t
      /\ \A k \in Host : k # h => asoc'[k] = asoc[k]
  BY Zenon DEF IInv
<1>5. ASSUME NEW k \in Host PROVE HostRight(k)'
<2>1. CASE k = h
  <3>1. t # None => TcbRight(h, t)'
    BY <1>1, TcbKept, Zenon
  <3> QED
    BY <1>4, <2>1, <3>1, Zenon DEF HostRight, TcbRight, Drawn
<2>2. CASE k # h
  <3>1. asoc[k] # None => TcbRight(k, asoc[k]) /\ Drawn(asoc[k], drawn)
    BY Zenon DEF IInv, HostRight
  <3>2. asoc[k] # None => Drawn(asoc[k], drawn')
    BY <1>2, <3>1, DrawnStays, Zenon
  <3>3. PICK s : s = asoc[k]
    BY Zenon
  <3>4. s # None => TcbRight(k, s)'
    BY <1>1, <3>1, <3>3, TcbKept, Zenon
  <3>5. asoc'[k] = s
    BY <1>4, <2>2, <3>3, Zenon
  <3> QED
    BY <3>2, <3>3, <3>4, <3>5, Zenon DEF HostRight, TcbRight, Drawn
<2> QED
  BY <2>1, <2>2, Zenon
<1>6. ASSUME NEW k \in Host, NEW c, c.ack.tag \in Nat, Tie(asoc[k], drawn, c)
      PROVE  Tie(asoc'[k], drawn', c)
<2>1. CASE k # h
  BY <1>2, <1>4, <1>6, <2>1, TieKept, Zenon
<2>2. CASE k = h /\ ~(t # None /\ t.state = "COOKIE_WAIT")
  BY <1>2, <1>4, <1>6, <2>2, TieKept, Zenon
<2>3. CASE k = h /\ t # None /\ t.state = "COOKIE_WAIT" /\ t = asoc[h]
  BY <1>2, <1>4, <1>6, <2>3, TieKept, Zenon
<2>4. CASE k = h /\ t # None /\ t.state = "COOKIE_WAIT" /\ t.nonce > drawn
  BY <1>2, <1>4, <1>6, <2>4 DEF Tie, Drawn
<2> QED
  BY <2>1, <2>2, <2>3, <2>4, Zenon
<1>7. ASSUME NEW p \in net' PROVE PacketRight(p)' /\ TieRight(p)'
<2>1. CASE p \in net
  <3>1. PacketRight(p) /\ TieRight(p)
    BY <2>1, Zenon DEF IInv
  <3>2. PacketRight(p)'
    BY <1>1, <3>1, PacketKept, Zenon
  <3>3. p.to \in Host /\ Other(p.to) \in Host
    BY <3>1, OtherHost, Zenon DEF PacketRight
  <3>4. p.type = "INIT_ACK" => Tie(asoc'[Other(p.to)], drawn', p.cookie)
    BY <1>6, <3>1, <3>3, CookieTag, Zenon DEF TieRight
  <3>5. p.type = "COOKIE_ECHO" => Tie(asoc'[p.to], drawn', p.cookie)
    BY <1>6, <3>1, <3>3, CookieTag, Zenon DEF TieRight
  <3> QED
    BY <3>2, <3>4, <3>5, Zenon DEF TieRight, Tie
<2>2. CASE p \notin net
  <3>0. /\ PacketRight(p) /\ p.to = Other(h)
        /\ p.type = "INIT_ACK" => Tie(t, drawn + d, p.cookie)
        /\ p.type = "COOKIE_ECHO" => Tie(asoc[Other(h)], drawn + d, p.cookie)
    BY <2>2, Zenon DEF Adds
  <3>1. PacketRight(p)'
    BY <1>1, <3>0, PacketKept, Zenon
  <3>2. p.to = Other(h) /\ Other(p.to) = h /\ Other(h) # h /\ Other(h) \in Host
    BY <3>0, OtherHost, Zenon
  <3>3. p.type = "INIT_ACK" => Tie(asoc'[Other(p.to)], drawn', p.cookie)
    BY <1>4, <3>0, <3>2, Zenon
  <3>4. p.type = "COOKIE_ECHO" => Tie(asoc'[p.to], drawn', p.cookie)
    BY <1>4, <3>0, <3>2, Zenon
  <3> QED
    BY <3>1, <3>3, <3>4, Zenon DEF TieRight, Tie
<2> QED
  BY <2>1, <2>2, Zenon
<1> QED
  BY <1>3, <1>4, <1>5, <1>7, Zenon DEF IInv

LEMMA SpendIs ==
  ASSUME events \in 0..MaxEvents, Spend \/ UNCHANGED events
  PROVE  events' \in 0..MaxEvents
  BY NegotiationConstants DEF Spend

(* Deliver: the handlers. *)
LEMMA DeliverKeeps ==
  ASSUME IInv, NEW p \in net, NEW copy \in BOOLEAN, Deliver(p, copy)
  PROVE  IInv'
<1> DEFINE h == p.to
           r == IF p.dst \in ep[h].addrs THEN Handle(h, asoc[h], p) ELSE Ignored(asoc[h])
<1>1. h \in Host /\ Given(h, asoc[h], p)
  BY Zenon DEF IInv, Given, PacketRight
<1>2. Good(h, asoc[h], r)
  BY <1>1, HandleGood, IgnoredGood, Zenon
<1>3. /\ asoc' = [asoc EXCEPT ![h] = r.tcb] /\ drawn' = drawn + r.drawn
      /\ net' = (IF copy THEN net ELSE net \ {p}) \cup r.out /\ UNCHANGED <<ep, touched>>
      /\ Spend \/ UNCHANGED events
  BY Zenon DEF Deliver
<1> HIDE DEF h, r
<1>4. events' \in 0..MaxEvents
  BY <1>3, SpendIs, Zenon DEF IInv
<1>5. /\ r.drawn \in {0, 2}
      /\ r.tcb # None => TcbRight(h, r.tcb) /\ Drawn(r.tcb, drawn + r.drawn)
      /\ r.tcb # None /\ r.tcb.state = "COOKIE_WAIT" => r.tcb = asoc[h]
  BY <1>2, Zenon DEF Good
<1>6. Adds(h, r.tcb, r.drawn)
  <2>1. ASSUME NEW q \in net', q \notin net PROVE q \in r.out
    BY <1>3, <2>1, Zenon
  <2> QED
    BY <1>2, <2>1, Zenon DEF Adds, Good, SentRight
<1>7. PICK k, t, d : k = h /\ t = r.tcb /\ d = r.drawn
  BY Zenon
<1>8. /\ k \in Host /\ d \in {0, 2} /\ UNCHANGED <<ep, touched>>
      /\ asoc' = [asoc EXCEPT ![k] = t] /\ drawn' = drawn + d
      /\ t # None => TcbRight(k, t) /\ Drawn(t, drawn + d)
      /\ t # None /\ t.state = "COOKIE_WAIT" => t = asoc[k]
      /\ Adds(k, t, d)
  BY <1>1, <1>3, <1>5, <1>6, <1>7, Zenon
<1> QED
  BY <1>4, <1>8, StepKeeps, Zenon

(* Connect: the first INIT. *)
LEMMA ConnectKeeps ==
  ASSUME IInv, NEW h \in Host, NEW c, Connect(h, c)
  PROVE  IInv'
<1> DEFINE s == sctp_init_asoc(h, drawn + 1, c)
           u == sctp_initialize_auth_params(h, s, drawn + 2)
           t == [u EXCEPT !.nets = {c}]
           addrs == sctp_add_addresses_to_i_ia(ep[h], t.scope)
           body == Body(t.my, t.os, t.maxin, t.feat, t.key.random, t.key.chunks, ep[h].adapt,
                        ep[h].extra, addrs)
           q == Packet(h, "INIT", 0, t.src, t.primary, body, FALSE, None)
<1>1. /\ asoc' = [asoc EXCEPT ![h] = t] /\ drawn' = drawn + 2
      /\ net' = net \cup {sctp_send_initiate(h, t)} /\ UNCHANGED <<ep, touched>>
      /\ Spend \/ UNCHANGED events
  BY Zenon DEF Connect
<1>2. sctp_send_initiate(h, t) = q
  BY Zenon DEF sctp_send_initiate
<1>3. EpsRight /\ drawn \in Nat /\ EpRight(ep[h], h)
  BY Zenon DEF IInv, Now, EpsRight
<1>4. /\ IsTcb(s) /\ s.state = "COOKIE_WAIT" /\ s.my = drawn + 1 /\ s.nonce = drawn + 1
      /\ s.peer = 0 /\ s.feat = ep[h].feat /\ s.os = ep[h].os /\ s.out = ep[h].os
      /\ s.real = ep[h].os /\ s.in = 0 /\ s.maxin = ep[h].mis /\ s.peer_chunks = {}
      /\ s.primary = c
  BY NewTcb, SMTT(60)
<1> HIDE DEF s
<1>5. /\ IsTcb(t) /\ t.state = s.state /\ t.my = s.my /\ t.nonce = s.nonce
      /\ t.peer = s.peer /\ t.feat = s.feat /\ t.os = s.os /\ t.out = s.out
      /\ t.real = s.real /\ t.in = s.in /\ t.maxin = s.maxin /\ t.peer_chunks = s.peer_chunks
      /\ t.primary = s.primary /\ t.nets = {c} /\ t.key = Key(drawn + 2, AuthChunks(ep[h]))
  BY <1>4, Zenon DEF IsTcb, sctp_initialize_auth_params
<1> HIDE DEF t
<1>6. t.key.random = drawn + 2 /\ t.key.chunks = AuthChunks(ep[h])
  BY <1>5 DEF Key
<1>7. TcbRight(h, t) /\ Drawn(t, drawn + 2) /\ t.nonce > drawn
<2>1. Built(t)
  BY <1>3, <1>4, <1>5 DEF Built, EpRight
<2>2. Waiting(h, t)
  BY <1>4, <1>5, Zenon DEF Waiting
<2>3. TcbRight(h, t)
  BY <1>4, <1>5, <2>1, <2>2, Zenon DEF TcbRight
<2> QED
  BY <1>3, <1>4, <1>5, <2>3 DEF Drawn
<1>8. InitOf(h, body)
<2>1. /\ Sensible(t.feat) /\ t.key.random # 0
      /\ "asconf" \in t.feat => Chunk \subseteq t.key.chunks
  BY <1>3, <1>4, <1>5, <1>6 DEF EpRight, AuthChunks, Chunk
<2>2. PeerSupports(body) = t.feat
  BY <2>1, OffersWhatItHas
<2>3. ~Refused(body)
  BY <2>1, NothingRefused, Zenon
<2>4. /\ body.tag = t.my /\ body.os = t.os /\ body.mis = t.maxin
      /\ body.adapt = ep[h].adapt /\ body.extra = ep[h].extra
      /\ body.chunks = (IF "auth" \in t.feat THEN t.key.chunks ELSE {})
  BY Zenon DEF Body
<2> HIDE DEF body
<2>5. Made(h, body)
  BY <1>3, <1>4, <1>5, <1>6, <2>4 DEF Made, EpRight, AuthChunks, Chunk
<2> QED
  BY <1>4, <1>5, <2>2, <2>3, <2>4, <2>5, Zenon DEF InitOf
<1>9. q.to = Other(h) /\ q.type = "INIT" /\ q.body = body
  BY Zenon DEF Packet
<1> HIDE DEF q, body
<1>10. PacketRight(q)
  BY <1>8, <1>9, OtherHost, Zenon DEF PacketRight
<1>11. events' \in 0..MaxEvents
  BY <1>1, SpendIs, Zenon DEF IInv
<1>12. Adds(h, t, 2)
  BY <1>1, <1>2, <1>9, <1>10, Zenon DEF Adds
<1> QED
  BY <1>1, <1>7, <1>11, <1>12, StepKeeps, Zenon

(* The steps that change an endpoint. *)
LEMMA EndpointStep ==
  ASSUME IInv, Kept, EpsRight', touched' \in BOOLEAN, events' \in 0..MaxEvents,
         UNCHANGED <<net, drawn>>, asoc' = [h \in Host |-> asoc'[h]],
         \A h \in Host : asoc'[h] # None => asoc'[h] = asoc[h]
  PROVE  IInv'
<1>1. Now'
  BY Zenon DEF IInv, Now
<1>2. ASSUME NEW h \in Host PROVE HostRight(h)'
<2>1. PICK s : s = asoc[h]
  BY Zenon
<2>2. s # None => TcbRight(h, s) /\ Drawn(s, drawn)
  BY <2>1, Zenon DEF IInv, HostRight
<2>3. s # None => TcbRight(h, s)'
  BY <2>2, TcbKept, Zenon
<2>4. asoc'[h] # None => asoc'[h] = s
  BY <2>1, Zenon
<2> QED
  BY <2>2, <2>3, <2>4, Zenon DEF HostRight, TcbRight, Drawn
<1>3. ASSUME NEW p \in net' PROVE PacketRight(p)' /\ TieRight(p)'
<2>1. PacketRight(p) /\ TieRight(p) /\ p.to \in Host /\ Other(p.to) \in Host
  BY OtherHost, Zenon DEF IInv, PacketRight
<2>2. PacketRight(p)'
  BY <2>1, PacketKept, Zenon
<2> QED
  BY <2>1, <2>2, Zenon DEF TieRight, Tie
<1> QED
  BY <1>1, <1>2, <1>3, Zenon DEF IInv

LEMMA VanishKeeps ==
  ASSUME IInv, NEW h \in Host, NEW a, Vanish(h, a)
  PROVE  IInv'
<1>1. /\ asoc' = [asoc EXCEPT ![h] = None]
      /\ ep' = [ep EXCEPT ![h].addrs = a, ![h].secret = @ + 1]
      /\ UNCHANGED <<net, drawn, touched>> /\ Spend
  BY Zenon DEF Vanish
<1>2. /\ ep = [k \in Host |-> ep[k]] /\ EpsRight /\ asoc = [k \in Host |-> asoc[k]]
      /\ \A k \in Host : EpRight(ep[k], k)
  BY Zenon DEF IInv, Now, EpsRight
<1>3. /\ asoc' = [k \in Host |-> asoc'[k]]
      /\ \A k \in Host : asoc'[k] # None => asoc'[k] = asoc[k]
  BY <1>1, <1>2, Zenon
<1>4. /\ ep' = [k \in Host |-> ep'[k]] /\ \A k \in Host : k # h => ep'[k] = ep[k]
      /\ ep'[h] = [ep[h] EXCEPT !.addrs = a, !.secret = @ + 1]
  BY <1>1, <1>2, Zenon
<1>5. PICK e : e = ep[h]
  BY Zenon
<1>6. EpRight(e, h)
  BY <1>2, <1>5, Zenon
<1> DEFINE f == [e EXCEPT !.addrs = a, !.secret = @ + 1]
<1>7. f = [x \in {"feat", "os", "mis", "extra", "addrs", "adapt", "secret"} |-> f[x]]
  BY <1>6, Zenon DEF EpRight
<1>8. f.feat = e.feat /\ f.os = e.os /\ f.mis = e.mis /\ f.extra = e.extra /\ f.adapt = e.adapt
  BY <1>6, Zenon DEF EpRight
<1> HIDE DEF f
<1>9. EpRight(f, h)
  BY <1>6, <1>7, <1>8, Zenon DEF EpRight
<1>10. ep'[h] = f
  BY <1>4, <1>5, Zenon DEF f
<1>11. EpsRight'
  BY <1>2, <1>4, <1>9, <1>10 DEF EpsRight, EpRight
<1>12. Kept
  BY <1>1, <1>4, <1>5, <1>8, <1>10, Zenon DEF Kept
<1>13. events' \in 0..MaxEvents /\ touched' \in BOOLEAN
  BY <1>1, SpendIs, Zenon DEF IInv, Now
<1> QED
  BY <1>1, <1>3, <1>11, <1>12, <1>13, EndpointStep, Zenon

(* An option is set while nothing depends on it, or `touched' tells. *)
LEMMA SetOptionKeeps ==
  ASSUME IInv, NEW h \in Host, SetOption(h)
  PROVE  IInv'
<1>1. /\ touched' = (touched \/ net # {} \/ \E k \in Host : asoc[k] # None)
      /\ UNCHANGED <<asoc, net, drawn>> /\ Spend
  BY Zenon DEF SetOption
<1>2. /\ ep = [k \in Host |-> ep[k]] /\ \A k \in Host : EpRight(ep[k], k)
      /\ asoc = [k \in Host |-> asoc[k]] /\ touched \in BOOLEAN /\ drawn \in Nat
  BY Zenon DEF IInv, Now, EpsRight
<1>3. PICK e : e = ep[h]
  BY Zenon
<1>4. EpRight(e, h)
  BY <1>2, <1>3, Zenon
<1>5. PICK f : /\ ep' = [ep EXCEPT ![h] = f] /\ EpRight(f, h) /\ f.extra = e.extra
<2>1. CASE \E g \in FeatureSets \ {ep[h].feat} : ep' = [ep EXCEPT ![h].feat = g]
  <3>1. PICK g \in FeatureSets : ep' = [ep EXCEPT ![h].feat = g]
    BY <2>1, Zenon
  <3> DEFINE f == [e EXCEPT !.feat = g]
  <3>2. /\ f = [x \in {"feat", "os", "mis", "extra", "addrs", "adapt", "secret"} |-> f[x]]
        /\ f.feat = g /\ f.os = e.os /\ f.mis = e.mis /\ f.extra = e.extra /\ f.adapt = e.adapt
    BY <1>4, Zenon DEF EpRight
  <3>3. ep' = [ep EXCEPT ![h] = f]
    BY <1>3, <3>1, Zenon
  <3>4. Sensible(g)
    BY NegotiationConstants, Zenon DEF Sensible
  <3> HIDE DEF f
  <3>5. EpRight(f, h)
    BY <1>4, <3>2, <3>4, Zenon DEF EpRight
  <3> QED
    BY <3>2, <3>3, <3>5, Zenon
<2>2. CASE \E o \in Streams \ {ep[h].os} : ep' = [ep EXCEPT ![h].os = o]
  <3>1. PICK o \in Streams : ep' = [ep EXCEPT ![h].os = o]
    BY <2>2, Zenon
  <3> DEFINE f == [e EXCEPT !.os = o]
  <3>2. /\ f = [x \in {"feat", "os", "mis", "extra", "addrs", "adapt", "secret"} |-> f[x]]
        /\ f.feat = e.feat /\ f.os = o /\ f.mis = e.mis /\ f.extra = e.extra /\ f.adapt = e.adapt
    BY <1>4, Zenon DEF EpRight
  <3>3. ep' = [ep EXCEPT ![h] = f]
    BY <1>3, <3>1, Zenon
  <3>4. o \in Nat
    BY NegotiationConstants, Zenon
  <3> HIDE DEF f
  <3>5. EpRight(f, h)
    BY <1>4, <3>2, <3>4, Zenon DEF EpRight
  <3> QED
    BY <3>2, <3>3, <3>5, Zenon
<2>3. CASE \E i \in Streams \ {ep[h].mis} : ep' = [ep EXCEPT ![h].mis = i]
  <3>1. PICK i \in Streams : ep' = [ep EXCEPT ![h].mis = i]
    BY <2>3, Zenon
  <3> DEFINE f == [e EXCEPT !.mis = i]
  <3>2. /\ f = [x \in {"feat", "os", "mis", "extra", "addrs", "adapt", "secret"} |-> f[x]]
        /\ f.feat = e.feat /\ f.os = e.os /\ f.mis = i /\ f.extra = e.extra /\ f.adapt = e.adapt
    BY <1>4, Zenon DEF EpRight
  <3>3. ep' = [ep EXCEPT ![h] = f]
    BY <1>3, <3>1, Zenon
  <3>4. i \in Nat
    BY NegotiationConstants, Zenon
  <3> HIDE DEF f
  <3>5. EpRight(f, h)
    BY <1>4, <3>2, <3>4, Zenon DEF EpRight
  <3> QED
    BY <3>2, <3>3, <3>5, Zenon
<2> QED
  BY <2>1, <2>2, <2>3, Zenon DEF SetOption
<1>6. /\ ep' = [k \in Host |-> ep'[k]] /\ ep'[h] = f
      /\ \A k \in Host : k # h => ep'[k] = ep[k]
  BY <1>2, <1>5, Zenon
<1>7. EpsRight'
  BY <1>2, <1>5, <1>6, Zenon DEF EpsRight, EpRight
<1>8. events' \in 0..MaxEvents /\ touched' \in BOOLEAN
  BY <1>1, <1>2, SpendIs, Zenon DEF IInv
<1>9. CASE touched'
<2>1. Kept
  BY <1>3, <1>5, <1>6, <1>9, Zenon DEF Kept
<2> QED
  BY <1>1, <1>2, <1>7, <1>8, <2>1, EndpointStep, Zenon
<1>10. CASE ~touched'
<2>1. net' = {} /\ \A k \in Host : asoc'[k] = None
  BY <1>1, <1>10, Zenon
<2>2. Now'
  BY <1>1, <1>2, <1>7, <1>8, Zenon DEF Now
<2>3. asoc' = [k \in Host |-> asoc'[k]]
  BY <1>1, <1>2, Zenon
<2> QED
  BY <1>8, <2>1, <2>2, <2>3, Zenon DEF IInv, HostRight
<1> QED
  BY <1>9, <1>10, Zenon

LEMMA InitRight ==
  Init => IInv
<1> SUFFICES ASSUME Init PROVE IInv
  BY Zenon
<1>1. ASSUME NEW h \in Host, NEW e \in ConnEndpoint(h) \cup IpEndpoint(h) PROVE EpRight(e, h)
<2>1. PICK f, o, i, x, a : /\ e = Endpoint(f, o, i, x, a, Indication(h))
                           /\ Sensible(f) /\ o \in Nat /\ i \in Nat
  <3>1. CASE e \in ConnEndpoint(h)
    BY <3>1, NegotiationConstants DEF ConnEndpoint, Sensible
  <3>2. CASE e \in IpEndpoint(h)
    <4>1. PICK x, a : e = Endpoint({}, 1, 1, x, a, Indication(h))
      BY <3>2 DEF IpEndpoint
    <4>2. Sensible({}) /\ 1 \in Nat
      BY Zenon DEF Sensible
    <4> QED
      BY <4>1, <4>2, Zenon
  <3> QED
    BY <1>1, <3>1, <3>2, Zenon
<2> QED
  BY <2>1, Zenon DEF EpRight, Endpoint
<1>2. EpsRight
<2>1. /\ ep = [h \in Host |-> ep[h]]
      /\ ep["A"] \in ConnEndpoint("A") \cup IpEndpoint("A")
      /\ ep["B"] \in ConnEndpoint("B") \cup IpEndpoint("B")
  <3>1. CASE ep \in [A : ConnEndpoint("A"), B : ConnEndpoint("B")]
    BY <3>1, Zenon DEF Host
  <3>2. CASE ep \in [A : IpEndpoint("A"), B : IpEndpoint("B")]
    BY <3>2, Zenon DEF Host
  <3> QED
    BY <3>1, <3>2, Zenon DEF Init
<2>2. \A h \in Host : ep[h] \in ConnEndpoint(h) \cup IpEndpoint(h)
  BY <2>1, Zenon DEF Host
<2> QED
  BY <1>1, <2>1, <2>2, Zenon DEF EpsRight
<1>3. Now
  BY <1>2, Zenon DEF Init, Now
<1>4. events \in 0..MaxEvents
  BY NegotiationConstants DEF Init
<1>5. /\ asoc = [h \in Host |-> asoc[h]] /\ \A h \in Host : HostRight(h)
      /\ net = {}
  BY Zenon DEF Init, HostRight
<1> QED
  BY <1>3, <1>4, <1>5, Zenon DEF IInv

LEMMA NextKeeps ==
  IInv /\ [Next]_vars => IInv'
<1> SUFFICES ASSUME IInv, [Next]_vars PROVE IInv'
  BY Zenon
<1>1. ASSUME NEW h \in Host, NEW c \in Class, Connect(h, c) PROVE IInv'
  BY <1>1, ConnectKeeps, Zenon
<1>2. ASSUME NEW p \in net, NEW copy \in BOOLEAN, Deliver(p, copy) PROVE IInv'
  BY <1>2, DeliverKeeps, Zenon
<1>3. ASSUME NEW h \in Host, NEW a \in SUBSET Class, Vanish(h, a) PROVE IInv'
  BY <1>3, VanishKeeps, Zenon
<1>4. ASSUME NEW h \in Host, SetOption(h) PROVE IInv'
  BY <1>4, SetOptionKeeps, Zenon
<1>5. CASE UNCHANGED vars
<2>1. /\ UNCHANGED <<ep, touched, net, drawn, asoc, events>>
  BY <1>5, Zenon DEF vars
<2>2. Kept /\ EpsRight'
  BY <2>1, NothingSet, Zenon DEF IInv, Now
<2> QED
  BY <2>1, <2>2, EndpointStep, Zenon DEF IInv, Now
<1> QED
  BY <1>1, <1>2, <1>3, <1>4, <1>5, Zenon DEF Next

-----------------------------------------------------------------------------
(* The invariant holds of every behaviour, whatever the endpoints offer and   *)
(* however many connects, restarts, duplicates and options there are.         *)
THEOREM NegotiationInvariant == Spec => []IInv
<1>1. Init => IInv
  BY InitRight, Zenon
<1>2. IInv /\ [Next]_vars => IInv'
  BY NextKeeps, Zenon
<1> QED
  BY <1>1, <1>2, PTL DEF Spec

(* Two hosts that are OPEN with each other use the same extensions, fit each   *)
(* other's streams and have heard the other's adaptation indication, whatever  *)
(* INITs crossed and whoever restarted (sctp_process_init,                     *)
(* sctp_load_addresses_from_init, sctp_send_initiate_ack and the cookie         *)
(* handlers).                                                                   *)
THEOREM NegotiationAgrees == Spec => []EndsAgree
<1>1. IInv => EndsAgree
  <2> SUFFICES ASSUME IInv PROVE EndsAgree
    BY Zenon
  <2>1. ASSUME NEW h \in Host, asoc[h] # None PROVE TcbRight(h, asoc[h]) /\ Built(asoc[h])
    BY <2>1, Zenon DEF IInv, HostRight, TcbRight
  <2>2. TypeOK
    <3>1. \A h \in Host : asoc[h] # None =>
            /\ asoc[h].state \in {"COOKIE_WAIT", "COOKIE_ECHOED", "OPEN"}
            /\ asoc[h].feat \subseteq Feature /\ asoc[h].peer_chunks \subseteq Chunk
            /\ asoc[h].in <= asoc[h].maxin /\ asoc[h].primary \in asoc[h].nets
      BY <2>1, Zenon DEF Built, Sensible
    <3>2. \A p \in net : p.to \in Host /\ p.body.ext # {} => p.type \in {"INIT", "INIT_ACK"}
      BY Zenon DEF IInv, PacketRight
    <3> QED
      BY <3>1, <3>2, Zenon DEF TypeOK, IInv, Now
  <2>3. FeaturesAgree
    BY <2>1, Zenon DEF FeaturesAgree, Settled, Joined, TcbRight, Agreed, Host
  <2>4. StreamsFit
    <3>1. EpsRight
      BY Zenon DEF IInv, Now
    <3>2. ASSUME NEW h \in Host, ~touched, asoc[h] # None PROVE asoc[h].out <= asoc[h].real
      BY <2>1, <3>1, <3>2 DEF TcbRight, Waiting, Agreed, EpsRight, EpRight
    <3>3. ASSUME Settled, NEW h \in Host
          PROVE  asoc[h].out = Narrow(h) /\ asoc[Other(h)].in = Narrow(h) /\ Narrow(h) \in Nat
      BY <2>1, <3>1, <3>3, OtherHost, NarrowFits, Zenon DEF Settled, Joined, TcbRight, Agreed
    <3>4. Settled => asoc["A"].out <= asoc["B"].in /\ asoc["B"].out <= asoc["A"].in
      BY <3>3 DEF Host, Other
    <3> QED
      BY <3>2, <3>4, Zenon DEF StreamsFit
  <2>5. IndicationHeard
    <3>1. \A h \in Host : ep[Other(h)].adapt = Indication(Other(h))
      BY OtherHost, Zenon DEF IInv, Now, EpsRight, EpRight
    <3> QED
      BY <2>1, <3>1, Zenon DEF IndicationHeard, Joined, TcbRight, PeerRead
  <2> QED
    BY <2>2, <2>3, <2>4, <2>5, Zenon DEF EndsAgree
<1> QED
  BY <1>1, NegotiationInvariant, PTL

(* ASCONF is never in use without AUTH and a peer that authenticates both of   *)
(* its chunks, whatever options are set meanwhile, and no association opens    *)
(* with a peer whose parameters forbid it (sctp_load_addresses_from_init,      *)
(* sctp_arethere_unrecognized_parameters).                                     *)
THEOREM OpensRightly == Spec => []OpenRight
<1>1. IInv => OpenRight
  <2> SUFFICES ASSUME IInv, NEW h \in Host, asoc[h] # None, asoc[h].state = "OPEN"
               PROVE  /\ "asconf" \in asoc[h].feat =>
                           "auth" \in asoc[h].feat /\ Chunk \subseteq asoc[h].peer_chunks
                      /\ ep[Other(h)].extra \notin Fatal
    BY Zenon DEF OpenRight, AsconfIsAuthenticated, FatalRefused
  <2> QED
    BY Zenon DEF IInv, HostRight, TcbRight, Built, Sensible, PeerRead
<1> QED
  BY <1>1, NegotiationInvariant, PTL
==============================================================================
