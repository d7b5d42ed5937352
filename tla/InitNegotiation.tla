---------------------------- MODULE InitNegotiation ----------------------------
(***************************************************************************)
(* What INIT and INIT-ACK settle in usrsctp besides the tags: the           *)
(* extensions both ends use, the number of streams, the random values the   *)
(* AUTH keys are made of, the adaptation indication and the addresses.      *)
(* The server keeps nothing between its INIT-ACK and the COOKIE-ECHO: it    *)
(* rebuilds its side from the cookie and from the endpoint as it is then.   *)
(* Two hosts that may both connect, vanish and come back, and whose         *)
(* applications may change the endpoint's options at any time.              *)
(*                                                                         *)
(* A chunk is a record of its parameters (0, {} or an empty sequence: not   *)
(* there); `extra' holds parameters a newer peer adds in front of the       *)
(* addresses.  HMAC lists hold SHA-1 only in this build and are left out:   *)
(* they are there when RANDOM is.  Cookie secrets and lifetimes are in      *)
(* module Association.                                                      *)
(***************************************************************************)
EXTENDS Integers, FiniteSets

CONSTANTS None,          \* no TCB, no cookie
          FeatureSets,   \* what an endpoint may have switched on
          Streams,       \* its wish for outgoing and its limit for incoming streams
          Extras,        \* parameters an endpoint may add
          AddressSets,   \* address classes of an endpoint bound to IP addresses
          MaxEvents      \* bound: connects after the first, packets duplicated, hosts
                         \* that vanish, options set, all together

Host == {"A", "B"}
Feature == {"ecn", "prsctp", "auth", "asconf", "reconfig", "idata", "nrsack", "pktdrop"}
Unknown == {"stop", "stop_report", "skip", "skip_report"}
Fatal   == {"hostname", "badsize"}
Class   == {"global", "private", "loopback", "conn"}
Other(h) == IF h = "A" THEN "B" ELSE "A"

ASSUME NegotiationConstants ==
  /\ FeatureSets \subseteq SUBSET Feature
  /\ \A f \in FeatureSets : "asconf" \in f => "auth" \in f
  /\ Streams \subseteq Nat \ {0} /\ Extras \subseteq {"none"} \cup Unknown \cup Fatal
  /\ AddressSets \subseteq SUBSET Class /\ MaxEvents \in Nat

VARIABLES ep,      \* the endpoint of each host
          asoc,    \* its TCB, or None
          net,     \* packets in flight
          drawn,   \* tags and random values drawn so far
          touched, \* history: an option was set while a handshake or a TCB was there
          events   \* how much of MaxEvents is spent

vars == <<ep, asoc, net, drawn, touched, events>>

(* sctp_auth_add_chunk and sctp_auth_delete_chunk, as the ASCONF option uses   *)
(* them: ASCONF and ASCONF-ACK must be authenticated.                          *)
AuthChunks(e) == IF "asconf" \in e.feat THEN {"ASCONF", "ASCONF_ACK"} ELSE {}

Endpoint(f, o, i, x, a, d) ==
  [feat |-> f, os |-> o, mis |-> i, extra |-> x, addrs |-> a, adapt |-> d,
   secret |-> 0]

(* ------------------------------- addresses ------------------------------- *)
(* sctp_is_address_in_scope *)
sctp_is_address_in_scope(c, scope) ==
  CASE c = "loopback" -> scope = "loopback"
    [] c = "private"  -> scope \in {"loopback", "private"}
    [] c = "global"   -> scope # "conn"
    [] c = "conn"     -> scope = "conn"


(* sctp_add_addresses_to_i_ia: those in scope, if there are two; never AF_CONN. *)
sctp_add_addresses_to_i_ia(e, scope) ==
  LET in == {c \in e.addrs \ {"conn"} : sctp_is_address_in_scope(c, scope)}
  IN  IF Cardinality(in) > 1 THEN in ELSE {}

(* -------------------------------- chunks --------------------------------- *)
(* The chunk types of SUPPORTED_CHUNK_EXT. *)
SupportedChunkExt(f) ==
  (IF "prsctp" \in f THEN {"FORWARD_CUM_TSN"} ELSE {})
  \cup (IF {"prsctp", "idata"} \subseteq f THEN {"IFORWARD_CUM_TSN"} ELSE {})
  \cup (IF "auth" \in f THEN {"AUTHENTICATION"} ELSE {})
  \cup (IF "asconf" \in f THEN {"ASCONF", "ASCONF_ACK"} ELSE {})
  \cup (IF "reconfig" \in f THEN {"STREAM_RESET"} ELSE {})
  \cup (IF "idata" \in f THEN {"IDATA"} ELSE {})
  \cup (IF "nrsack" \in f THEN {"NR_SELECTIVE_ACK"} ELSE {})
  \cup (IF "pktdrop" \in f THEN {"PACKET_DROPPED"} ELSE {})

(* The body INIT and INIT-ACK share. *)
Body(tag, o, i, f, random, chunks, adapt, extra, addrs) ==
  [tag |-> tag, os |-> o, mis |-> i, adapt |-> adapt,
   ecn |-> "ecn" \in f, prsctp |-> "prsctp" \in f, ext |-> SupportedChunkExt(f),
   random |-> IF "auth" \in f THEN random ELSE 0,
   chunks |-> IF "auth" \in f THEN chunks ELSE {},
   extra |-> extra, addrs |-> addrs]
NoBody == Body(0, 0, 0, {}, 0, {}, 0, "none", {})

Packet(h, type, vtag, src, dst, body, report, cookie) ==
  [to |-> Other(h), type |-> type, vtag |-> vtag, src |-> src, dst |-> dst,
   body |-> body, report |-> report, cookie |-> cookie]

(* sctp_send_initiate: everything from the TCB. *)
sctp_send_initiate(h, t) ==
  Packet(h, "INIT", 0, t.src, t.primary,
         Body(t.my, t.os, t.maxin, t.feat, t.key.random, t.key.chunks, ep[h].adapt,
              ep[h].extra, sctp_add_addresses_to_i_ia(ep[h], t.scope)), FALSE, None)

(* A local or a remote key: RANDOM and the chunk list that goes with it. *)
Key(random, chunks) == [random |-> random, chunks |-> chunks]
KeyOf(m) == Key(m.random, m.chunks)

(* sctp_init_asoc: the TCB takes its settings from the endpoint. *)
sctp_init_asoc(h, my, scope) ==
  [state |-> "COOKIE_WAIT", my |-> my, peer |-> 0, nonce |-> my,
   feat |-> ep[h].feat, os |-> ep[h].os, out |-> ep[h].os, real |-> ep[h].os, in |-> 0,
   maxin |-> ep[h].mis,
   key |-> Key(0, {}), peer_key |-> Key(0, {}), peer_chunks |-> {}, peer_hmac_id |-> FALSE,
   adapt |-> 0, scope |-> scope, nets |-> {}, primary |-> scope, src |-> scope, crossed |-> FALSE]

(* sctp_initialize_auth_params, for a TCB that connects. *)
sctp_initialize_auth_params(h, t, random) ==
  [t EXCEPT !.key = Key(random, AuthChunks(ep[h]))]

(* --------------------------- reading a chunk ----------------------------- *)
(* sctp_arethere_unrecognized_parameters: [abort, report]. *)
sctp_arethere_unrecognized_parameters(m) ==
  [abort |-> m.extra \in Fatal, report |-> m.extra \in {"stop_report", "skip_report"}]

(* sctp_validate_init_auth_params, for the INIT. *)
sctp_validate_init_auth_params(m) ==
  LET asconf == {"ASCONF", "ASCONF_ACK"} \cap m.ext # {}
      auth   == m.random # 0
  IN  /\ m.chunks # {} => auth
      /\ asconf => auth /\ {"ASCONF", "ASCONF_ACK"} \subseteq m.chunks

(* sctp_are_there_new_addresses *)
sctp_are_there_new_addresses(t, p) ==
  ~({p.src} \cup (IF t.scope = "conn" THEN {} ELSE p.body.addrs)) \subseteq t.nets

(* Mutant of the next: INIT's stream limit of the peer is not applied. *)
KeepsAllStreams(t, m) ==
  [t EXCEPT !.peer = m.tag, !.in = IF t.maxin > m.os THEN m.os ELSE t.maxin]

(* sctp_process_init: the peer's tag, and each direction as wide as both allow. *)
sctp_process_init(t, m) ==
  LET o == IF t.os > m.mis THEN m.mis ELSE t.os
  IN  [t EXCEPT !.peer = m.tag, !.os = o, !.out = o,
                !.in = IF t.maxin > m.os THEN m.os ELSE t.maxin]

(* The extensions the chunk offers; AUTH takes its parameters as well. *)
PeerSupports(m) ==
  (IF m.ecn THEN {"ecn"} ELSE {})
  \cup (IF m.prsctp \/ "FORWARD_CUM_TSN" \in m.ext THEN {"prsctp"} ELSE {})
  \cup (IF "AUTHENTICATION" \in m.ext /\ m.random # 0 THEN {"auth"} ELSE {})
  \cup (IF {"ASCONF", "ASCONF_ACK"} \subseteq m.ext \cap m.chunks THEN {"asconf"} ELSE {})
  \cup (IF "STREAM_RESET" \in m.ext THEN {"reconfig"} ELSE {})
  \cup (IF "IDATA" \in m.ext THEN {"idata"} ELSE {})
  \cup (IF "NR_SELECTIVE_ACK" \in m.ext THEN {"nrsack"} ELSE {})
  \cup (IF "PACKET_DROPPED" \in m.ext THEN {"pktdrop"} ELSE {})

(* Mutant of the next: what the peer offers is not looked at. *)
KeepsOwn(t, m) == t.feat

(* Both must have it, and ASCONF goes with AUTH. *)
CommonFeatures(t, m) ==
  LET f == t.feat \cap PeerSupports(m)
  IN  IF "auth" \in f THEN f ELSE f \ {"asconf"}

(* Its parameters contradict each other: -31, -32, -33. *)
Refused(m) ==
  LET auth == "AUTHENTICATION" \in m.ext
  IN  \/ m.chunks # {} /\ ~auth
      \/ "ASCONF" \in m.ext /\ (~auth \/ ~{"ASCONF", "ASCONF_ACK"} \subseteq m.chunks)

(* Mutant of the next: the source of the chunk is not counted. *)
OnlyListed(t, m, src) == m.addrs
(* Mutant of the next: paths that are no longer listed stay. *)
KeepsPaths(t, m, src) == t.nets \cup {src} \cup m.addrs

(* The source and the listed addresses, up to a parameter that ends the        *)
(* reading; the other paths are swept out.                                      *)
SweptNets(t, m, src) ==
  {src} \cup (IF t.scope = "conn" \/ m.extra \in {"stop", "stop_report"} THEN {} ELSE m.addrs)

(* Mutant of the next: the indication of a peer is never taken over. *)
NoAdaptation(t, m) == t.adapt
(* An association that is OPEN does not take another indication. *)
PeersAdaptation(t, m) == IF t.state # "OPEN" /\ m.adapt # 0 THEN m.adapt ELSE t.adapt

(* sctp_load_addresses_from_init *)
sctp_load_addresses_from_init(t, m, src) ==
  [t EXCEPT !.nets = SweptNets(t, m, src),
            !.primary = IF @ \in SweptNets(t, m, src) THEN @ ELSE src,
            !.feat = CommonFeatures(t, m),
            !.adapt = PeersAdaptation(t, m),
            !.peer_key = KeyOf(m),
            !.peer_chunks = IF m.random # 0 THEN m.chunks ELSE @]

(* sctp_auth_get_cookie_params: a TCB made from a cookie takes the key of the   *)
(* INIT-ACK in it, and negotiates the HMAC.                                     *)
sctp_auth_get_cookie_params(t, ack) ==
  [t EXCEPT !.key = KeyOf(ack), !.peer_hmac_id = t.peer_key.random # 0 /\ ack.random # 0]

(* ------------------------------- handlers -------------------------------- *)
(* What a handler leaves: the TCB, the packets it sends and the draws it made. *)
Result(t, out, d) == [tcb |-> t, out |-> out, drawn |-> d]
Ignored(t)        == Result(t, {}, 0)

sctp_send_abort(h, p) ==
  Packet(h, "ABORT", IF p.type = "INIT" THEN p.body.tag ELSE p.vtag, p.dst, p.src, NoBody, FALSE, None)
sctp_abort_association(h, t, p) ==
  Result(None, {IF t = None THEN sctp_send_abort(h, p)
                ELSE Packet(h, "ABORT", IF t.peer = 0 THEN p.body.tag ELSE t.peer,
                            p.dst, p.src, NoBody, FALSE, None)}, 0)

OffersOwn(h, t) == IF t = None THEN ep[h].feat ELSE t.feat

(* The streams it will open: no more than the INIT allows. *)
WantedStreams(h, t, p) ==
  LET want == IF t = None THEN ep[h].os ELSE IF t.out > t.os THEN t.out ELSE t.os
  IN  IF p.body.mis < want THEN p.body.mis ELSE want

(* The scope its addresses are listed for, from the two addresses of the INIT. *)
CookieScope(t, p) == IF t = None THEN p.dst ELSE t.scope

(* Mutant of the next: a parameter that forbids the association is passed over. *)
NothingFatal(m) == FALSE
AbortFlag(m) == sctp_arethere_unrecognized_parameters(m).abort

(* sctp_send_initiate_ack.  A TCB past COOKIE_WAIT takes no new address.  The   *)
(* tag is the TCB's own while it is opening; RANDOM is always a new one.  With   *)
(* a TCB the answer goes to its primary path.                                    *)
sctp_send_initiate_ack(h, t, p) ==
  LET fresh == t = None \/ t.state = "OPEN"
      tag   == IF fresh THEN drawn + 1 ELSE t.my
      to    == IF t = None THEN p.src ELSE t.primary
      body  == Body(tag, WantedStreams(h, t, p), ep[h].mis, OffersOwn(h, t), drawn + 2,
                    AuthChunks(ep[h]), ep[h].adapt, ep[h].extra,
                    sctp_add_addresses_to_i_ia(ep[h], CookieScope(t, p)))
      cookie == [init |-> p.body, ack |-> body, tie |-> IF t = None THEN 0 ELSE t.nonce,
                 address |-> to, scope |-> CookieScope(t, p), secret |-> ep[h].secret]
  IN  IF \/ t # None /\ t.state # "COOKIE_WAIT" /\ sctp_are_there_new_addresses(t, p)
         \/ AbortFlag(p.body)
      THEN Result(t, {sctp_send_abort(h, p)}, 0)
      ELSE Result(t, {Packet(h, "INIT_ACK", p.body.tag, p.dst, to, body,
                             sctp_arethere_unrecognized_parameters(p.body).report, cookie)}, 2)

(* sctp_handle_init *)
sctp_handle_init(h, t, p) ==
  IF ~sctp_validate_init_auth_params(p.body) THEN sctp_abort_association(h, t, p)
  ELSE sctp_send_initiate_ack(h, t, p)

(* Mutant of the next: the HMAC is not negotiated. *)
NoHmac(t, m) == t
NegotiatedHmac(t, m) == [t EXCEPT !.peer_hmac_id = m.random # 0 /\ t.key.random # 0]

(* sctp_handle_init_ack and sctp_process_init_ack *)
sctp_process_init_ack(h, t, p) ==
  LET u == NegotiatedHmac(sctp_load_addresses_from_init(sctp_process_init(t, p.body), p.body, p.src),
                          p.body)
      v == [u EXCEPT !.state = "COOKIE_ECHOED"]
  IN  IF t.state # "COOKIE_WAIT" THEN Ignored(t)
      ELSE IF AbortFlag(p.body) \/ Refused(p.body)
      THEN sctp_abort_association(h, [t EXCEPT !.peer = p.body.tag], p)
      ELSE Result(v, {Packet(h, "COOKIE_ECHO", v.peer, p.dst, p.src, NoBody, FALSE, p.cookie)}, 0)

CookieAck(h, t, p) == {Packet(h, "COOKIE_ACK", t.peer, p.dst, p.src, NoBody, FALSE, None)}

(* sctp_process_cookie_new: the endpoint is read again, the INIT of the cookie  *)
(* is processed, and the key comes from the INIT-ACK in it.                      *)
sctp_process_cookie_new(h, p) ==
  LET c == p.cookie
      t == [sctp_init_asoc(h, c.ack.tag, c.scope) EXCEPT
              !.os = c.ack.os, !.real = c.ack.os, !.nets = {c.address}, !.primary = c.address, !.src = p.dst,
              !.crossed = c.tie # 0]
      u == sctp_load_addresses_from_init(sctp_process_init(t, c.init), c.init, c.address)
      v == [sctp_auth_get_cookie_params(u, c.ack) EXCEPT !.state = "OPEN"]
  IN  IF Refused(c.init) THEN Ignored(None) ELSE Result(v, CookieAck(h, v, p), 0)

(* sctp_process_cookie_existing: the handshake completes or was complete; the   *)
(* peer's tag is new; the peer has restarted.                                    *)
CookieMatches(h, t, p) ==
  LET c == p.cookie
      u == IF t.state = "OPEN" THEN t
           ELSE [sctp_process_init(t, c.init) EXCEPT !.state = "OPEN"]
      v == sctp_load_addresses_from_init(u, c.init, c.address)
  IN  IF Refused(c.init) THEN Ignored(u)
      ELSE Result([v EXCEPT !.crossed = @ \/ t.state # "OPEN"], CookieAck(h, v, p), 0)

CookieOfNewPeerTag(h, t, p) ==
  LET c == p.cookie
      u == sctp_process_init(t, c.init)
      v == [sctp_load_addresses_from_init(u, c.init, c.address) EXCEPT
              !.state = "OPEN", !.crossed = TRUE]
  IN  IF Refused(c.init) THEN Ignored(u) ELSE Result(v, CookieAck(h, v, p), 0)

CookieOfRestart(h, t, p) ==
  LET c == p.cookie
      u == [sctp_process_init([t EXCEPT !.os = c.ack.os], c.init) EXCEPT
              !.my = c.ack.tag, !.state = "OPEN", !.crossed = TRUE]
      v == sctp_load_addresses_from_init(u, c.init, c.address)
  IN  IF Refused(c.init) THEN Ignored(u) ELSE Result(v, CookieAck(h, v, p), 0)

sctp_process_cookie_existing(h, t, p) ==
  LET c == p.cookie
  IN  IF c.ack.tag = t.my /\ c.init.tag = t.peer THEN CookieMatches(h, t, p)
      ELSE IF c.ack.tag = t.my THEN CookieOfNewPeerTag(h, t, p)
      ELSE IF c.init.tag # t.peer /\ c.tie = t.nonce THEN CookieOfRestart(h, t, p)
      ELSE Ignored(t)

sctp_handle_cookie_ack(t) ==
  Ignored(IF t.state = "COOKIE_ECHOED" THEN [t EXCEPT !.state = "OPEN"] ELSE t)

(* The handler of a packet.  The tag is checked first, and the signature of a   *)
(* cookie.                                                                       *)
Handle(h, t, p) ==
  IF p.type = "INIT" THEN sctp_handle_init(h, t, p)
  ELSE IF p.type = "COOKIE_ECHO"
  THEN IF p.cookie.secret # ep[h].secret THEN Ignored(t)
       ELSE IF t = None THEN sctp_process_cookie_new(h, p)
       ELSE sctp_process_cookie_existing(h, t, p)
  ELSE IF t = None \/ p.vtag # t.my THEN Ignored(t)
  ELSE
  CASE p.type = "INIT_ACK" -> sctp_process_init_ack(h, t, p)
    [] p.type = "COOKIE_ACK" -> sctp_handle_cookie_ack(t)
    [] p.type = "ABORT" -> Ignored(None)

(* -------------------------------- actions -------------------------------- *)
Spend == events < MaxEvents /\ events' = events + 1

(* Extensions and streams vary for hosts on AF_CONN, addresses and unknown      *)
(* parameters, of the newer host A, for hosts on IP addresses.                    *)
Indication(h) == IF h = "A" THEN 1 ELSE 2
ConnEndpoint(h) ==
  {Endpoint(f, o, i, "none", {"conn"}, Indication(h)) : f \in FeatureSets, o \in Streams, i \in Streams}
IpEndpoint(h) ==
  {Endpoint({}, 1, 1, x, a, Indication(h)) :
     x \in IF h = "A" THEN Extras ELSE {"none"}, a \in AddressSets}

Init ==
  /\ ep \in [A : ConnEndpoint("A"), B : ConnEndpoint("B")]
            \cup [A : IpEndpoint("A"), B : IpEndpoint("B")]
  /\ asoc = [h \in Host |-> None]
  /\ net = {} /\ drawn = 0 /\ touched = FALSE /\ events = 0

(* connect: sctp_aloc_assoc, sctp_initialize_auth_params, sctp_send_initiate. *)
Connect(h, c) ==
  LET t == [sctp_initialize_auth_params(h, sctp_init_asoc(h, drawn + 1, c), drawn + 2)
              EXCEPT !.nets = {c}]
  IN  /\ asoc[h] = None /\ c \in ep[h].addrs \cap ep[Other(h)].addrs
      /\ IF drawn = 0 THEN UNCHANGED events ELSE Spend
      /\ asoc' = [asoc EXCEPT ![h] = t]
      /\ net' = net \cup {sctp_send_initiate(h, t)}
      /\ drawn' = drawn + 2
      /\ UNCHANGED <<ep, touched>>

(* A packet arrives if its address is still the host's; the network may keep a  *)
(* copy of it.                                                                   *)
Deliver(p, copy) ==
  LET r == IF p.dst \in ep[p.to].addrs THEN Handle(p.to, asoc[p.to], p) ELSE Ignored(asoc[p.to])
  IN  /\ IF copy THEN Spend ELSE UNCHANGED events
      /\ asoc' = [asoc EXCEPT ![p.to] = r.tcb]
      /\ net' = (IF copy THEN net ELSE net \ {p}) \cup r.out
      /\ drawn' = drawn + r.drawn
      /\ UNCHANGED <<ep, touched>>

(* The host stops and starts again, with a new secret and perhaps with other    *)
(* addresses.                                                                    *)
Vanish(h, a) ==
  /\ Spend /\ asoc[h] # None
  /\ a \in IF ep[h].addrs = {"conn"} THEN {{"conn"}} ELSE AddressSets
  /\ asoc' = [asoc EXCEPT ![h] = None]
  /\ ep' = [ep EXCEPT ![h].addrs = a, ![h].secret = @ + 1]
  /\ UNCHANGED <<net, drawn, touched>>

(* An option of the endpoint: an extension or SCTP_INITMSG. *)
SetOption(h) ==
  /\ Spend /\ ep[h].addrs = {"conn"}
  /\ \/ \E f \in FeatureSets \ {ep[h].feat} : ep' = [ep EXCEPT ![h].feat = f]
     \/ \E o \in Streams \ {ep[h].os} : ep' = [ep EXCEPT ![h].os = o]
     \/ \E i \in Streams \ {ep[h].mis} : ep' = [ep EXCEPT ![h].mis = i]
  /\ touched' = (touched \/ net # {} \/ \E k \in Host : asoc[k] # None)
  /\ UNCHANGED <<asoc, net, drawn>>

Next ==
  \/ \E h \in Host, c \in Class : Connect(h, c)
  \/ \E p \in net, copy \in BOOLEAN : Deliver(p, copy)
  \/ \E h \in Host, a \in SUBSET Class : Vanish(h, a)
  \/ \E h \in Host : SetOption(h)

Spec == Init /\ [][Next]_vars

(* ------------------------------- properties ------------------------------ *)
Chunk == {"ASCONF", "ASCONF_ACK"}

(* Every TCB is one the code can build: its counts are within the limits and    *)
(* its primary path is one of its paths.                                        *)
TypeOK ==
  /\ \A h \in Host : asoc[h] # None =>
       /\ asoc[h].state \in {"COOKIE_WAIT", "COOKIE_ECHOED", "OPEN"}
       /\ asoc[h].feat \subseteq Feature /\ asoc[h].peer_chunks \subseteq Chunk
       /\ asoc[h].in <= asoc[h].maxin /\ asoc[h].primary \in asoc[h].nets
  /\ \A p \in net : p.to \in Host /\ p.body.ext # {} => p.type \in {"INIT", "INIT_ACK"}
  /\ drawn \in Nat /\ touched \in BOOLEAN /\ events \in 0..MaxEvents

(* Both ends are OPEN, and with each other. *)
Joined ==
  /\ \A h \in Host : asoc[h] # None /\ asoc[h].state = "OPEN"
  /\ asoc["A"].my = asoc["B"].peer /\ asoc["B"].my = asoc["A"].peer
(* No option was set since the handshake began.  An INIT-ACK is made of what    *)
(* the TCB has and of what the endpoint has, and the TCB of a cookie of what    *)
(* the endpoint has later: with a change in between the two ends may differ.    *)
Settled == Joined /\ ~touched

(* Once both ends are OPEN they use the same extensions                         *)
(* (sctp_load_addresses_from_init): one would else send I-DATA, NR-SACK or      *)
(* FORWARD-TSN chunks the other does not take, collisions and restarts          *)
(* included.                                                                    *)
FeaturesAgree == Settled => asoc["A"].feat = asoc["B"].feat

(* Neither end sends on a stream the other has not allocated, and none it has   *)
(* not allocated itself (sctp_process_init, sctp_send_initiate_ack).            *)
StreamsFit ==
  /\ Settled => asoc["A"].out <= asoc["B"].in /\ asoc["B"].out <= asoc["A"].in
  /\ ~touched => \A h \in Host : asoc[h] # None => asoc[h].out <= asoc[h].real

(* ASCONF is in use only with AUTH, and only with a peer that authenticates     *)
(* both of its chunks, whatever was set or restarted in between.                *)
AsconfIsAuthenticated ==
  \A h \in Host : asoc[h] # None /\ asoc[h].state = "OPEN" /\ "asconf" \in asoc[h].feat =>
    "auth" \in asoc[h].feat /\ Chunk \subseteq asoc[h].peer_chunks

(* With AUTH in use each end holds the key the other computes with, and knows   *)
(* the HMAC (sctp_auth_get_cookie_params, sctp_process_init_ack), unless the    *)
(* handshake crossed another one.                                               *)
KeysAgree ==
  Settled /\ "auth" \in asoc["A"].feat /\ ~asoc["A"].crossed /\ ~asoc["B"].crossed =>
    \A h \in Host : asoc[h].key = asoc[Other(h)].peer_key /\ asoc[h].peer_hmac_id

(* The peer's random key is the peer's: sctp_auth.h describes peer_random so.   *)
(* It is not after two INITs crossed, as sctp_send_initiate_ack draws another   *)
(* RANDOM for a TCB that has sent one in its INIT.                              *)
PeerRandomIsThePeers ==
  Settled /\ "auth" \in asoc["A"].feat =>
    \A h \in Host : asoc[h].peer_key = asoc[Other(h)].key

(* Each end has heard the other's adaptation indication, whichever chunk        *)
(* brought it.                                                                   *)
IndicationHeard == Joined => \A h \in Host : asoc[h].adapt = ep[Other(h)].adapt

(* After the handshake every path leads to an address the peer has (the sweep   *)
(* of sctp_load_addresses_from_init), a restart with fewer addresses included;  *)
(* and to none outside the scope of the association, unless two handshakes      *)
(* that chose different scopes crossed.                                         *)
PathsArePeers ==
  Joined =>
    /\ \A h \in Host : asoc[h].nets \subseteq ep[Other(h)].addrs
    /\ asoc["A"].crossed \/ asoc["B"].crossed
       \/ \A h \in Host, c \in Class :
            c \in asoc[h].nets => sctp_is_address_in_scope(c, asoc[h].scope)

(* No association opens with a peer whose INIT or INIT-ACK holds a parameter    *)
(* that forbids it (sctp_arethere_unrecognized_parameters).                     *)
FatalRefused ==
  \A h \in Host : asoc[h] # None /\ asoc[h].state = "OPEN" => ep[Other(h)].extra \notin Fatal

(* The two ends come to the same result, within what both can do.               *)
EndsAgree == TypeOK /\ FeaturesAgree /\ StreamsFit /\ IndicationHeard

(* What needs AUTH has it, and what forbids an association does.                *)
OpenRight == AsconfIsAuthenticated /\ FatalRefused

(* What each end knows of the other is true: its key and its addresses.         *)
PeersKnown == KeysAgree /\ PathsArePeers
=============================================================================
