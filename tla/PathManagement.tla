--------------------------- MODULE PathManagement ---------------------------
(***************************************************************************)
(* The destination addresses ("nets", "paths") of one usrsctp association: *)
(* the heartbeats and timers that watch them, the error counters that take *)
(* them down and bring them back, the primary and the alternate path, the  *)
(* user's path options and the peer's ASCONF chunks that change them.      *)
(*                                                                         *)
(* A heartbeat or its acknowledgment on the way is a token in air of its   *)
(* path: "cur" carries the random values of the last heartbeat sent to the *)
(* unconfirmed path, "old" those of an earlier one, "zero" is a heartbeat  *)
(* of a confirmed path.  Tokens are lost, duplicated and overtaken.        *)
(* Congestion windows, which order the candidates in                       *)
(* sctp_find_alternate_net, are left open: any candidate may be taken.     *)
(***************************************************************************)
EXTENDS Naturals, Sequences, SequencesExt, FiniteSetsExt, TLC

CONSTANTS
  Addr,          \* the peer's addresses, numbered from 1
  Initial,       \* how many of them it may list in INIT or INIT-ACK
  Routed,        \* the addresses with a route
  Thresholds,    \* the values a user gives a threshold
  max_send_times,\* errors in a row that end the association
  hb_maxburst,   \* heartbeats sent at once when the association opens
  MtuSizes,      \* the table sctp_mtu_sizes
  DefaultMtu,    \* the MTU of a new path
  RouteMtu,      \* the MTU of the route
  UserMtu,       \* the MTU a user who disables discovery gives
  Cmt,           \* the values of sctp_cmt_on_off: concurrent multipath transfer
  MaxAsconf,     \* bound: ASCONF chunks of the peer
  MaxEvents      \* bound: messages, calls, ASCONFs, MTU raises, losses, copies

VARIABLES
  inp,        \* the endpoint's defaults
  asoc,       \* the association's defaults, counters, primary and alternate
  nets,       \* the list asoc.nets
  net,        \* per address: the sctp_nets structure, air, told
  data,       \* addresses with chunks outstanding
  asconfs,    \* the ASCONF chunks the peer has sent, by serial number
  events,     \* how many of the events MaxEvents bounds have happened
  ret         \* the last call and what it answered

vars == <<inp, asoc, nets, net, data, asconfs, events, ret>>

NoAddr == 0
Listed == ToSet(nets)
MaxErr == Max(Thresholds) + 1
Flags == {"REACHABLE", "PF", "UNCONFIRMED", "REQ_PRIMARY", "NOHB", "NO_PMTUD"}

Gone == [state |-> {}, err |-> 0, fail |-> 0, pf |-> 0, hb |-> FALSE,
         pmtu |-> FALSE, resp |-> FALSE, rand |-> "zero", mtu |-> 0,
         port |-> 0, told |-> TRUE, lame |-> FALSE, air |-> {}]

Up(n) == "REACHABLE" \in n.state
PF(n) == "PF" \in n.state
Unconfirmed(n) == "UNCONFIRMED" \in n.state
NoHb(n) == "NOHB" \in n.state

-----------------------------------------------------------------------------
(* Timers and heartbeats of one path.  Each operator takes the path and    *)
(* returns it changed.                                                     *)

StartHb(n) ==
  IF NoHb(n) /\ ~Unconfirmed(n) THEN n ELSE [n EXCEPT !.hb = TRUE, !.lame = FALSE]

StopHb(n) == [n EXCEPT !.hb = FALSE]
\* Mutation: the timer is stopped and not started again.
StopsForGood(n) == StopHb(n)

RestartHb(n) == StartHb(StopHb(n))

StartPmtu(n) == IF "NO_PMTUD" \in n.state THEN n ELSE [n EXCEPT !.pmtu = TRUE]
StopPmtu(n) == [n EXCEPT !.pmtu = FALSE]

\* What is on the way becomes an answer to an earlier heartbeat.
Outdate(air) == { IF t = "cur" THEN "old" ELSE t : t \in air }

sctp_send_hb(n) ==
  IF Unconfirmed(n)
  THEN [n EXCEPT !.rand = "cur", !.resp = FALSE, !.air = Outdate(@) \cup {"cur"}]
  ELSE [n EXCEPT !.rand = "zero", !.resp = FALSE, !.air = Outdate(@) \cup {"zero"}]

\* INTERFACE_UP and INTERFACE_DOWN tell the user; told is what they know.
RaiseUp(n) == [n EXCEPT !.state = @ \cup {"REACHABLE"}, !.told = TRUE]
\* Mutation: the user is not told.
TakeDownSilently(n) == [n EXCEPT !.state = @ \ {"REACHABLE"}]

TakeDown(n) == [n EXCEPT !.state = @ \ {"REACHABLE"}, !.told = FALSE]

EnterPf(n) == RestartHb(sctp_send_hb([n EXCEPT !.state = @ \cup {"PF"}]))

\* Mutation: a path that goes down stays potentially failed.
CountErrorKeepsPf(n) ==
  LET m == [n EXCEPT !.err = Min({@ + 1, MaxErr})]
  IN  IF m.err > m.fail THEN (IF Up(m) THEN TakeDown(m) ELSE m)
      ELSE IF m.pf < m.fail /\ m.err > m.pf /\ ~PF(m) THEN EnterPf(m) ELSE m

\* The path's part of sctp_threshold_management: one more error.
CountError(n) ==
  LET m == [n EXCEPT !.err = Min({@ + 1, MaxErr})]
  IN  IF m.err > m.fail
      THEN IF Up(m) THEN TakeDown([m EXCEPT !.state = @ \ {"REQ_PRIMARY", "PF"}])
                    ELSE m
      ELSE IF m.pf < m.fail /\ m.err > m.pf /\ ~PF(m) THEN EnterPf(m) ELSE m

\* The association's part: too many errors in a row end it.
Overall(a) ==
  LET n == a.overall + 1
  IN  [a EXCEPT !.overall = n, !.open = IF n > max_send_times THEN "aborted" ELSE @]

-----------------------------------------------------------------------------
(* The list of paths, the primary and the alternate.  s holds nets, net    *)
(* and asoc together.                                                      *)

State == [asoc |-> asoc, nets |-> nets, net |-> net]

Usable(n) == Up(n) /\ ~Unconfirmed(n)

\* The paths a walk of the list from a visits: those behind it, then all.
Walk(L, a) ==
  LET i == IF a \in ToSet(L) THEN CHOOSE i \in 1..Len(L) : L[i] = a ELSE 1
  IN  SubSeq(L, i + 1, Len(L)) \o L

NextPath(s, a) ==
  LET first  == SelectSeq(Walk(s.nets, a), LAMBDA b : Usable(s.net[b]) /\ b \in Routed)
      second == SelectSeq(Walk(s.nets, a), LAMBDA b : ~Unconfirmed(s.net[b]) /\ b # a)
  IN  IF first # <<>> THEN Head(first) ELSE IF second # <<>> THEN Head(second) ELSE a

LargestCwnd(s) == { b \in ToSet(s.nets) : Usable(s.net[b]) }

LeastErrors(s, a) ==
  LET B == { b \in LargestCwnd(s) : PF(s.net[b]) }
      errors(b) == s.net[b].err + (IF b = a THEN 1 ELSE 0)
  IN  { b \in B : \A d \in B : errors(b) <= errors(d) }

PfAware(s, a) ==
  LET C == { b \in LargestCwnd(s) : ~PF(s.net[b]) }
  IN  IF C # {} THEN C ELSE IF LeastErrors(s, a) # {} THEN LeastErrors(s, a) ELSE {a}

sctp_find_alternate_net(s, a, mode) ==
  CASE Len(s.nets) = 1 -> {Head(s.nets)}
    [] Len(s.nets) # 1 /\ mode = 2 -> PfAware(s, a)
    [] Len(s.nets) # 1 /\ mode = 1 /\ LargestCwnd(s) # {} -> LargestCwnd(s)
    [] OTHER -> {NextPath(s, a)}

\* Mutation: the entry is inserted at the head and not removed.
ToHeadTwice(L, a) == <<a>> \o L

ToHead(L, a) == <<a>> \o Remove(L, a)

\* Where a new path goes: behind the routed ones, all on one interface.
Place(L, a) ==
  LET bare == { i \in 2..Len(L) : L[i] \notin Routed }
  IN  IF a \notin Routed \/ L = <<>> THEN Append(L, a)
      ELSE IF Head(L) \notin Routed THEN <<a>> \o L
      ELSE IF bare = {} THEN Append(L, a)
      ELSE InsertAt(L, Min(bare) - 1, a)

NewNet(a, confirmed, as, old) ==
  [state |-> {"REACHABLE"} \cup (IF confirmed THEN {} ELSE {"UNCONFIRMED"})
             \cup (IF as.hbon THEN {} ELSE {"NOHB"})
             \cup (IF as.pmtud THEN {} ELSE {"NO_PMTUD"}),
   err |-> 0, fail |-> as.fail, pf |-> as.pf, hb |-> FALSE, pmtu |-> FALSE,
   resp |-> FALSE, rand |-> "zero", port |-> as.port, told |-> TRUE,
   mtu |-> DefaultMtu - (IF as.port # 0 THEN 1 ELSE 0), lame |-> FALSE, air |-> old.air]

\* asoc.smallest_mtu follows a path whose MTU is smaller.
sctp_pathmtu_adjustment(as, mtu) == [as EXCEPT !.smallest = mtu]
\* Mutation: only a new path's MTU counts, not a changed one.
ShrinkNot(as, mtu) == as

Shrink(as, mtu) == IF mtu < as.smallest THEN sctp_pathmtu_adjustment(as, mtu) ELSE as

sctp_add_remote_addr(s, a, confirmed, first) ==
  LET n  == NewNet(a, confirmed, s.asoc, s.net[a])
      as == IF first THEN [s.asoc EXCEPT !.smallest = n.mtu] ELSE Shrink(s.asoc, n.mtu)
      p  == IF \/ as.primary = NoAddr
               \/ as.primary \notin Routed /\ a \in Routed /\ confirmed
            THEN a ELSE as.primary
  IN  [asoc |-> [as EXCEPT !.primary = p], nets |-> ToHead(Place(s.nets, a), p),
       net |-> [s.net EXCEPT ![a] = n]]

\* Mutation: the primary keeps pointing to the path removed.
RemoveKeepsPrimary(s, a) ==
  {[s EXCEPT !.nets = Remove(@, a), !.net[a] = [Gone EXCEPT !.air = Outdate(s.net[a].air)],
             !.asoc.alternate = IF @ = a THEN NoAddr ELSE @]}

\* The states after a path is removed: one for each primary that may follow.
sctp_remove_net(s, a) ==
  LET r == [s EXCEPT !.nets = Remove(@, a),
                     !.net[a] = [Gone EXCEPT !.air = Outdate(s.net[a].air)]]
      P == IF a = s.asoc.primary THEN sctp_find_alternate_net(r, Head(r.nets), 0)
                                 ELSE {s.asoc.primary}
  IN  { [r EXCEPT !.asoc.primary = p,
                  !.asoc.alternate = IF @ = a THEN NoAddr ELSE @] : p \in P }

\* The list of one address is left alone: "last" is the answer -1.
sctp_del_remote_addr(s, a) ==
  IF a \in ToSet(s.nets) /\ Len(s.nets) >= 2 THEN sctp_remove_net(s, a) ELSE {s}

\* Mutation: an unconfirmed path becomes primary at once.
PrimaryUnconfirmed(s, a) ==
  [s EXCEPT !.asoc.primary = a, !.nets = ToHead(@, a),
            !.asoc.alternate = IF PF(s.net[a]) THEN @ ELSE NoAddr]

sctp_set_primary_addr(s, a) ==
  IF Unconfirmed(s.net[a])
  THEN [s EXCEPT !.net[a].state = @ \cup {"REQ_PRIMARY"}]
  ELSE [s EXCEPT !.asoc.primary = a,
                 !.asoc.alternate = IF PF(s.net[a]) THEN @ ELSE NoAddr,
                 !.nets = ToHead(@, a)]

-----------------------------------------------------------------------------
(* The user's path options.  o is the structure the user passes; o.addr =  *)
(* NoAddr is the wildcard address: the whole association, or the endpoint  *)
(* before there is one.                                                    *)

\* A new retransmission limit decides anew whether the path is up or PF.
Reassess(n, fail, pf) ==
  LET m == IF PF(n)
           THEN IF n.err > fail \/ n.err <= pf THEN [n EXCEPT !.state = @ \ {"PF"}] ELSE n
           ELSE IF n.err <= fail /\ n.err > pf THEN EnterPf(n) ELSE n
      k == IF Up(m) /\ m.err > fail THEN TakeDown(m)
           ELSE IF ~Up(m) /\ m.err <= fail THEN RaiseUp(m) ELSE m
  IN  [k EXCEPT !.fail = fail, !.pf = pf]

\* PF means more than pf errors, so with pf unchanged only the limit can end it.
SppThreshold(n, o) == IF o.rxt # 0 THEN Reassess(n, o.rxt, n.pf) ELSE n

\* One address.  The timer is started before NOHB is cleared, so that of a
\* confirmed path that had heartbeats disabled stays off: lame records it.
SppHeartbeat(n, o) ==
  LET off == IF o.hb # "disable" THEN n
             ELSE [(IF ~Unconfirmed(n) /\ ~NoHb(n) THEN StopHb(n) ELSE n)
                    EXCEPT !.state = @ \cup {"NOHB"}]
      r   == RestartHb(off)
      on  == IF o.hb # "enable" THEN off
             ELSE [r EXCEPT !.state = @ \ {"NOHB"}, !.lame = ~r.hb]
  IN  IF o.demand THEN StartHb(sctp_send_hb(on)) ELSE on

SppPmtud(n, o) ==
  LET off == IF o.pmtud # "disable" \/ o.mtu = 0 THEN n
             ELSE [StopPmtu(n) EXCEPT !.state = @ \cup {"NO_PMTUD"}, !.mtu = o.mtu]
  IN  IF o.pmtud # "enable" THEN off
      ELSE [(IF off.pmtu THEN off ELSE StartPmtu(off)) EXCEPT !.state = @ \ {"NO_PMTUD"}]

SppNet(s, o) ==
  LET n == SppThreshold(SppPmtud(SppHeartbeat(s.net[o.addr], o), o), o)
  IN  [s EXCEPT !.net[o.addr] = n, !.asoc = Shrink(@, n.mtu)]

\* The whole association: NOHB is cleared before the timers are started.
SppAsocHeartbeat(n, o) ==
  CASE o.hb = "enable" -> RestartHb([n EXCEPT !.state = @ \ {"NOHB"}])
    [] o.hb = "disable" /\ ~NoHb(n) ->
         LET m == [n EXCEPT !.state = @ \cup {"NOHB"}]
         IN  IF Unconfirmed(m) THEN m ELSE StopHb(m)
    [] OTHER -> n

SppAsocPmtud(s, o) ==
  [s EXCEPT !.net = [a \in Addr |-> IF a \in ToSet(s.nets) THEN SppPmtud(@[a], o) ELSE @[a]],
            !.asoc.pmtud = CASE o.pmtud = "disable" /\ o.mtu # 0 -> FALSE
                             [] o.pmtud = "enable" -> TRUE
                             [] OTHER -> @,
            !.asoc.smallest = IF o.pmtud = "disable" /\ o.mtu # 0 THEN Min({@, o.mtu}) ELSE @]

SppAsoc(s, o) ==
  LET f(n) == SppAsocHeartbeat(SppThreshold(n, o), o)
      r == [s EXCEPT !.net = [a \in Addr |-> IF a \in ToSet(s.nets) THEN f(@[a]) ELSE @[a]],
                     !.asoc.fail = IF o.rxt # 0 THEN o.rxt ELSE @,
                     !.asoc.hbon = IF o.hb = "" THEN @ ELSE o.hb = "enable"]
  IN  SppAsocPmtud(r, o)

SppEndpoint(i, o) ==
  [i EXCEPT !.fail = IF o.rxt # 0 THEN o.rxt ELSE @,
            !.hbon = IF o.hb = "" THEN @ ELSE o.hb = "enable",
            !.pmtud = IF o.pmtud = "" THEN @ ELSE o.pmtud = "enable"]

ThldsNet(s, o) == [s EXCEPT !.net[o.addr] = Reassess(@, o.fail, o.pf)]

\* Mutation: the paths are changed and the association's defaults are not.
ThldsPathsOnly(s, o) ==
  [s EXCEPT !.net = [a \in Addr |-> IF a \in ToSet(s.nets) THEN Reassess(@[a], o.fail, o.pf)
                                    ELSE @[a]]]

ThldsAsoc(s, o) ==
  [s EXCEPT !.net = [a \in Addr |-> IF a \in ToSet(s.nets) THEN Reassess(@[a], o.fail, o.pf)
                                    ELSE @[a]],
            !.asoc.fail = o.fail, !.asoc.pf = o.pf]

\* What getsockopt reads for the same three scopes.
GetSpp(a) ==
  IF asoc.open = "none" THEN [rxt |-> inp.fail, hb |-> inp.hbon, pmtud |-> inp.pmtud]
  ELSE IF a = NoAddr THEN [rxt |-> asoc.fail, hb |-> asoc.hbon, pmtud |-> asoc.pmtud]
  ELSE [rxt |-> net[a].fail, hb |-> ~NoHb(net[a]), pmtud |-> "NO_PMTUD" \notin net[a].state]

GetThlds(a) ==
  IF asoc.open = "none" THEN <<inp.fail, inp.pf>>
  ELSE IF a = NoAddr THEN <<asoc.fail, asoc.pf>> ELSE <<net[a].fail, net[a].pf>>

GetEncaps(a) ==
  IF asoc.open = "none" THEN inp.port
  ELSE IF a = NoAddr THEN asoc.port ELSE net[a].port

GetPeerAddrInfo(a) ==
  IF Unconfirmed(net[a]) THEN "UNCONFIRMED" ELSE IF Up(net[a]) THEN "ACTIVE" ELSE "INACTIVE"

-----------------------------------------------------------------------------
(* Actions                                                                 *)

NoCall == [op |-> "none"]

\* The state becomes s; what is not in s and not named stays.
Becomes(s) ==
  asoc' = s.asoc /\ nets' = s.nets /\ net' = s.net

Init ==
  /\ inp = [fail |-> Max(Thresholds), pf |-> Max(Thresholds), hbon |-> TRUE,
            pmtud |-> TRUE, port |-> 0]
  /\ \E cmt \in Cmt : asoc =
            [open |-> "none", cmt |-> cmt, fail |-> 0, pf |-> 0, hbon |-> TRUE, pmtud |-> TRUE,
             port |-> 0, smallest |-> 0, overall |-> 0, primary |-> NoAddr,
             alternate |-> NoAddr, seqin |-> 0]
  /\ nets = <<>> /\ net = [a \in Addr |-> Gone] /\ data = {} /\ asconfs = <<>>
  /\ events = 0 /\ ret = NoCall

\* sctp_start_net_timers: timers for every path, heartbeats for the first
\* hb_maxburst unconfirmed ones.
sctp_start_net_timers(s) ==
  LET fresh == SelectSeq(s.nets, LAMBDA a : Unconfirmed(s.net[a]))
      probed == ToSet(SubSeq(fresh, 1, Min({hb_maxburst, Len(fresh)})))
      start(a) == StartHb(StartPmtu(s.net[a]))
  IN  [s EXCEPT !.net = [a \in Addr |->
         IF a \notin ToSet(s.nets) THEN s.net[a]
         ELSE IF a \in probed THEN sctp_send_hb(start(a)) ELSE start(a)]]

\* The association opens with the endpoint's defaults and the peer's addresses,
\* of which the one it was set up with is confirmed.
Open ==
  /\ asoc.open = "none"
  /\ \E k \in Initial :
     LET as == [asoc EXCEPT !.open = "open", !.fail = inp.fail, !.pf = inp.pf,
                            !.hbon = inp.hbon, !.pmtud = inp.pmtud, !.port = inp.port]
         s0 == [asoc |-> as, nets |-> <<>>, net |-> net]
         add(s, a) == sctp_add_remote_addr(s, a, a = 1, a = 1)
         all == FoldLeft(add, s0, [i \in 1..k |-> i])
     IN  Becomes(sctp_start_net_timers(all))
  /\ ret' = NoCall
  /\ UNCHANGED <<inp, data, asconfs, events>>

\* The heartbeat timer of path a: an unanswered heartbeat counts as an error;
\* idle says whether nothing was sent on it for the heartbeat interval.
HeartbeatTimer(a) ==
  /\ asoc.open = "open" /\ a \in Listed /\ net[a].hb
  /\ \E idle \in IF a \in data THEN BOOLEAN ELSE {TRUE} :
       LET n == StopHb(net[a])
           m == IF n.resp THEN n ELSE CountError(n)
           k == IF /\ ~NoHb(m)
                   /\ ~(~PF(n) /\ PF(m))
                   /\ idle \/ PF(m)
                THEN sctp_send_hb(m) ELSE m
           as == IF n.resp \/ Unconfirmed(n) THEN asoc ELSE Overall(asoc)
       IN  /\ asoc' = as
           /\ net' = [net EXCEPT ![a] = IF as.open # "open" THEN m
                                        ELSE IF NoHb(k) THEN k ELSE StartHb(k)]
  /\ ret' = NoCall
  /\ UNCHANGED <<inp, nets, data, asconfs, events>>

\* Mutation: any answer confirms an unconfirmed path.
ConfirmsAny(n, t) == Unconfirmed(n)

\* An answer confirms a path when it carries the path's random values.
Confirms(n, t) == Unconfirmed(n) /\ t = n.rand

\* A HEARTBEAT-ACK for path a with the random values t arrives, at once or
\* after any delay; a copy of it may come again.
sctp_handle_heartbeat_ack(a, t) ==
  /\ asoc.open = "open" /\ a \in Addr /\ t \in net[a].air
  /\ \E again \in IF events < MaxEvents THEN BOOLEAN ELSE {FALSE} :
       /\ events' = IF again THEN events + 1 ELSE events
       /\ LET air == IF again THEN net[a].air ELSE net[a].air \ {t}
              n == [net[a] EXCEPT !.air = air]
              confirms == Confirms(n, t)
              prim == confirms /\ "REQ_PRIMARY" \in n.state
              c == IF confirms
                   THEN RestartHb([n EXCEPT !.state = @ \ {"UNCONFIRMED", "REQ_PRIMARY"}])
                   ELSE n
              u == IF Up(c) THEN c ELSE RaiseUp(c)
              k == [u EXCEPT !.err = 0, !.resp = TRUE, !.state = @ \ {"PF"}]
          IN  IF a \notin Listed
              THEN net' = [net EXCEPT ![a] = n] /\ asoc' = [asoc EXCEPT !.overall = 0] /\ nets' = nets
              ELSE /\ net' = [net EXCEPT ![a] = IF n.err > 0 THEN RestartHb(k) ELSE k]
                   /\ nets' = IF prim THEN ToHead(nets, a) ELSE nets
                   /\ asoc' = [asoc EXCEPT !.overall = 0,
                                 !.primary = IF prim THEN a ELSE @,
                                 !.alternate = IF prim \/ a = asoc.primary THEN NoAddr ELSE @]
  /\ ret' = NoCall
  /\ UNCHANGED <<inp, data, asconfs>>

\* The network loses a heartbeat or its acknowledgment.
Lose(a, t) ==
  /\ t \in net[a].air /\ events < MaxEvents
  /\ net' = [net EXCEPT ![a].air = @ \ {t}]
  /\ events' = events + 1 /\ ret' = NoCall
  /\ UNCHANGED <<inp, asoc, nets, data, asconfs>>

\* Data goes to the alternate while there is one, else to the primary, or to
\* the confirmed path the user asked for.
SendData(a) ==
  /\ asoc.open = "open" /\ a \in Listed \ data /\ events < MaxEvents
  /\ \/ a = IF asoc.alternate # NoAddr THEN asoc.alternate ELSE asoc.primary
     \/ ~Unconfirmed(net[a])
  /\ data' = data \cup {a}
  /\ events' = events + 1 /\ ret' = NoCall
  /\ UNCHANGED <<inp, asoc, nets, net, asconfs>>

\* The retransmission timer of a path with chunks outstanding: the chunks
\* move to the alternate path; probe says the peer's window is closed.
sctp_t3rxt_timer(a) ==
  /\ asoc.open = "open" /\ a \in data /\ a \in Listed
  /\ \E probe, late \in BOOLEAN :
       LET n == IF probe THEN net[a] ELSE CountError(net[a])
           as == IF probe \/ ~Unconfirmed(n) THEN Overall(asoc) ELSE asoc
           m == IF ~probe /\ a # asoc.primary /\ ~PF(n) /\ late THEN sctp_send_hb(n) ELSE n
           s == [State EXCEPT !.net[a] = m, !.asoc = as]
           mode == IF ~asoc.cmt THEN 0 ELSE IF m.pf < m.fail THEN 2 ELSE 1
       IN  IF as.open # "open"
           THEN net' = [net EXCEPT ![a] = n] /\ asoc' = as /\ data' = data
           ELSE \E alt \in sctp_find_alternate_net(s, a, mode) :
                  /\ data' = (data \ {a}) \cup {alt}
                  /\ net' = s.net
                  /\ asoc' = [as EXCEPT !.alternate =
                       IF (~Up(m) \/ PF(m)) /\ a = as.primary /\ alt # a THEN alt ELSE @]
  /\ ret' = NoCall
  /\ UNCHANGED <<inp, nets, asconfs, events>>

\* A SACK acknowledges data last sent to path a.
DataAcked(a) ==
  /\ asoc.open = "open" /\ a \in data /\ a \in Listed
  /\ LET n == [net[a] EXCEPT !.err = 0]
         u == IF Up(n) THEN n ELSE RaiseUp(n)
     IN  net' = [net EXCEPT ![a] =
                   IF PF(u) THEN RestartHb([u EXCEPT !.state = @ \ {"PF"}]) ELSE u]
  /\ asoc' = [asoc EXCEPT !.overall = 0,
                          !.alternate = IF a = asoc.primary THEN NoAddr ELSE @]
  /\ data' = data \ {a}
  /\ ret' = NoCall
  /\ UNCHANGED <<inp, nets, asconfs, events>>

\* The path MTU timer: the next usual size, but no more than the route's MTU.
sctp_get_next_mtu(v) ==
  LET larger == { m \in MtuSizes : m > v } IN IF larger = {} THEN v ELSE Min(larger)

sctp_pathmtu_timer(a) ==
  /\ asoc.open = "open" /\ a \in Listed /\ net[a].pmtu /\ events < MaxEvents
  /\ LET n == StopPmtu(net[a])
         next == sctp_get_next_mtu(n.mtu)
         m == IF next > n.mtu /\ n.port = 0 THEN [n EXCEPT !.mtu = Min({next, RouteMtu})] ELSE n
     IN  net' = [net EXCEPT ![a] = StartPmtu(m)]
  /\ events' = events + 1 /\ ret' = NoCall
  /\ UNCHANGED <<inp, asoc, nets, data, asconfs>>

\* The peer asks for an address to be added, deleted (NoAddr: all but the
\* one it sends from) or made primary.
AsconfParams == [op : {"add", "del", "prim"}, addr : Addr] \cup {[op |-> "del", addr |-> NoAddr]}

PeerSendsAsconf ==
  /\ asoc.open = "open" /\ Len(asconfs) < MaxAsconf /\ events < MaxEvents
  /\ \E p \in AsconfParams : asconfs' = Append(asconfs, p)
  /\ events' = events + 1 /\ ret' = NoCall
  /\ UNCHANGED <<inp, asoc, nets, net, data>>

\* Mutation: the new path's heartbeat timer is not started.
AddWithoutTimer(s, a) ==
  LET r == sctp_add_remote_addr(s, a, FALSE, FALSE)
  IN  [r EXCEPT !.net[a] = sctp_send_hb(StartPmtu(@))]

sctp_process_asconf_add_ip(s, a) ==
  LET r == sctp_add_remote_addr(s, a, FALSE, FALSE)
  IN  [r EXCEPT !.net[a] = sctp_send_hb(StartHb(StartPmtu(@)))]

sctp_asconf_del_remote_addrs_except(s, src) ==
  LET del(S, a) == UNION { sctp_remove_net(r, a) : r \in S }
  IN  FoldLeft(del, {s}, Remove(s.nets, src))

sctp_process_asconf_delete_ip(s, a, src) ==
  CASE a = src -> {s}
    [] a = NoAddr -> sctp_asconf_del_remote_addrs_except(s, src)
    [] OTHER -> sctp_del_remote_addr(s, a)

sctp_process_asconf_set_primary(s, a) ==
  IF a \notin ToSet(s.nets) THEN s
  ELSE LET r == sctp_set_primary_addr(s, a)
           p == r.net[r.asoc.primary]
       IN  IF Up(p) /\ ~PF(p) THEN [r EXCEPT !.asoc.alternate = NoAddr] ELSE r

\* Mutation: the chunk carried out last is carried out again.
Repeats(i) == i \in {asoc.seqin, asoc.seqin + 1}

NextSerial(i) == i = asoc.seqin + 1

\* Any ASCONF sent so far arrives, from address src: early, late or again.
\* Only the one with the next serial number is carried out.  (An address
\* that is already known is not added again: the handler would use a path
\* pointer it has not set.)
sctp_handle_asconf(i, src) ==
  /\ asoc.open = "open" /\ i \in 1..Len(asconfs) /\ src \in Listed
  /\ LET p == asconfs[i]
         s == [State EXCEPT !.asoc.seqin = i, !.asoc.overall = 0]
     IN  IF ~NextSerial(i)
         THEN asoc' = [asoc EXCEPT !.overall = 0] /\ UNCHANGED <<nets, net>>
         ELSE CASE p.op = "add" ->
                     p.addr \notin Listed /\ Becomes(sctp_process_asconf_add_ip(s, p.addr))
                [] p.op = "del" ->
                     /\ data \subseteq IF p.addr = NoAddr THEN {src} ELSE Addr \ {p.addr}
                     /\ \E r \in sctp_process_asconf_delete_ip(s, p.addr, src) : Becomes(r)
                [] OTHER -> Becomes(sctp_process_asconf_set_primary(s, p.addr))
  /\ ret' = NoCall
  /\ UNCHANGED <<inp, data, asconfs, events>>

-----------------------------------------------------------------------------
(* setsockopt                                                              *)

Spp == [op : {"spp"}, addr : Addr \cup {NoAddr}, hb : {"", "enable", "disable"},
        demand : BOOLEAN, pmtud : {""}, mtu : {0}, rxt : {0}]
   \cup [op : {"spp"}, addr : Addr \cup {NoAddr}, hb : {""}, demand : {FALSE},
        pmtud : {"enable", "disable"}, mtu : {0, UserMtu}, rxt : {0}]
   \cup [op : {"spp"}, addr : Addr \cup {NoAddr}, hb : {""}, demand : {FALSE},
        pmtud : {""}, mtu : {0}, rxt : Thresholds]
   \cup [op : {"spp"}, addr : Addr \cup {NoAddr}, hb : {"both"}, demand : {FALSE},
        pmtud : {""}, mtu : {0}, rxt : {0}]
Thlds == [op : {"thlds"}, addr : Addr \cup {NoAddr}, fail : Thresholds,
          pf : {0, 1}, cp : BOOLEAN]
Encaps == [op : {"encaps"}, addr : Addr \cup {NoAddr}, port : {0, 1}]
Prim == [op : {"primary"}, addr : Addr]

\* An address that is neither the wildcard nor a path of the association, or
\* both an option and its opposite, is an error and changes nothing.
BadCall(o) ==
  \/ asoc.open = "open" /\ o.addr \notin Listed \cup {NoAddr}
  \/ o.op = "spp" /\ o.hb = "both"

SetPeerAddrParams(o) ==
  IF asoc.open = "none" THEN inp' = SppEndpoint(inp, o) /\ UNCHANGED <<asoc, nets, net>>
  ELSE inp' = inp /\ Becomes(IF o.addr = NoAddr THEN SppAsoc(State, o) ELSE SppNet(State, o))

\* A spt_pathcpthld other than 0xffff (o.cp) is an error that keeps the TCB
\* lock: the association stands still.
SetPeerAddrThlds(o) ==
  IF asoc.open = "none"
  THEN /\ inp' = IF o.cp THEN inp ELSE [inp EXCEPT !.fail = o.fail, !.pf = o.pf]
       /\ UNCHANGED <<asoc, nets, net>>
  ELSE /\ inp' = inp
       /\ Becomes(IF o.cp THEN [State EXCEPT !.asoc.open = "stuck"]
                  ELSE IF o.addr = NoAddr THEN ThldsAsoc(State, o) ELSE ThldsNet(State, o))

SetEncapsPort(o) ==
  IF asoc.open = "none" THEN inp' = [inp EXCEPT !.port = o.port] /\ UNCHANGED <<asoc, nets, net>>
  ELSE inp' = inp /\ Becomes(IF o.addr = NoAddr THEN [State EXCEPT !.asoc.port = o.port]
                             ELSE [State EXCEPT !.net[o.addr].port = o.port])

SetPrimaryAddr(o) ==
  /\ inp' = inp
  /\ IF asoc.open = "none" \/ o.addr = asoc.primary \/ Unconfirmed(net[o.addr])
     THEN UNCHANGED <<asoc, nets, net>>
     ELSE LET r == sctp_set_primary_addr(State, o.addr)
              n == net[o.addr]
          IN  Becomes(IF ~PF(n) /\ Up(n) THEN [r EXCEPT !.asoc.alternate = NoAddr] ELSE r)

Failed(o) ==
  \/ BadCall(o)
  \/ o.op = "thlds" /\ o.cp
  \/ o.op = "primary" /\ (asoc.open = "none" \/ Unconfirmed(net[o.addr]))

usrsctp_setsockopt(o) ==
  /\ asoc.open \in {"none", "open"} /\ events < MaxEvents
  /\ events' = events + 1
  /\ ret' = o @@ [ok |-> ~Failed(o)]
  /\ IF BadCall(o) THEN UNCHANGED <<inp, asoc, nets, net>>
     ELSE CASE o.op = "spp" -> SetPeerAddrParams(o)
            [] o.op = "thlds" -> SetPeerAddrThlds(o)
            [] o.op = "encaps" -> SetEncapsPort(o)
            [] OTHER -> SetPrimaryAddr(o)
  /\ UNCHANGED <<data, asconfs>>

Next ==
  \/ Open
  \/ \E a \in Addr : \/ HeartbeatTimer(a) \/ SendData(a) \/ sctp_t3rxt_timer(a)
                     \/ DataAcked(a) \/ sctp_pathmtu_timer(a)
  \/ \E a \in Addr, t \in {"cur", "old", "zero"} :
       sctp_handle_heartbeat_ack(a, t) \/ Lose(a, t)
  \/ PeerSendsAsconf
  \/ \E i \in 1..MaxAsconf, src \in Addr : sctp_handle_asconf(i, src)
  \/ \E o \in Spp \cup Thlds \cup Encaps \cup Prim : usrsctp_setsockopt(o)

Spec == Init /\ [][Next]_vars

\* Timers expire, and the answer to the last heartbeat arrives unless it is
\* one of the bounded number the network loses.
Fairness ==
  \A a \in Addr :
    /\ WF_vars(HeartbeatTimer(a))
    /\ WF_vars(\E t \in {"cur", "zero"} : sctp_handle_heartbeat_ack(a, t))

FairSpec == Spec /\ Fairness

-----------------------------------------------------------------------------
(* Properties                                                              *)

TypeOK ==
  /\ asoc.open \in {"none", "open", "aborted", "stuck"}
  /\ IsInjective(nets) /\ Listed \subseteq Addr /\ data \subseteq Addr
  /\ \A a \in Addr : /\ net[a].state \subseteq Flags
                     /\ net[a].err \in 0..MaxErr
                     /\ net[a].air \subseteq {"cur", "old", "zero"}

\* A path is reachable exactly while its error counter does not exceed its
\* failure threshold, and potentially failed exactly while the counter is
\* above the PF threshold but not above the other, whichever of the timers,
\* acknowledgments and threshold options moved the three last.
StateMatchesErrors ==
  \A a \in Listed :
    /\ Up(net[a]) <=> net[a].err <= net[a].fail
    /\ PF(net[a]) <=> net[a].pf < net[a].err /\ net[a].err <= net[a].fail

\* The user has been told: the last INTERFACE_UP or INTERFACE_DOWN of a path
\* agrees with its state.
UserKnows == \A a \in Listed : net[a].told = Up(net[a])

\* Heartbeats go on: a path that has them enabled has its timer running,
\* except one whose heartbeats were enabled again for that address alone.
HeartbeatsGoOn ==
  asoc.open = "open" =>
    \A a \in Listed : ~NoHb(net[a]) => net[a].hb \/ net[a].lame

\* The primary and the alternate, if there is one, are paths of the
\* association, also after the peer deleted addresses.
PrimaryIsAPath ==
  asoc.open # "none" =>
    asoc.primary \in Listed /\ asoc.alternate \in Listed \cup {NoAddr}

\* The primary never moves to an unconfirmed path, be it by an option, an
\* ASCONF or a deletion, unless no path is confirmed.
PrimaryMovesToConfirmed ==
  [][nets # <<>> /\ asoc'.primary # asoc.primary /\ Unconfirmed(net'[asoc'.primary])
       => \A a \in ToSet(nets') : Unconfirmed(net'[a])]_vars

\* No packet is larger than any path carries: the size messages are cut to
\* never exceeds the MTU of a path.
SmallestMtuFits ==
  asoc.open # "none" => \A a \in Listed : asoc.smallest <= net[a].mtu

\* What getsockopt reads right after a successful setsockopt is what was set
\* (disabling path MTU discovery needs an MTU, and is ignored without one).
ReadsBack ==
  ret.op # "none" /\ ret.ok =>
    CASE ret.op = "spp" ->
           /\ ret.rxt # 0 => GetSpp(ret.addr).rxt = ret.rxt
           /\ ret.hb # "" => GetSpp(ret.addr).hb = (ret.hb = "enable")
           /\ ret.pmtud # "" /\ ret.mtu # 0 => GetSpp(ret.addr).pmtud = (ret.pmtud = "enable")
      [] ret.op = "thlds" -> GetThlds(ret.addr) = <<ret.fail, ret.pf>>
      [] ret.op = "encaps" -> GetEncaps(ret.addr) = ret.port
      [] OTHER -> asoc.primary = ret.addr /\ GetPeerAddrInfo(ret.addr) # "UNCONFIRMED"

\* A path is confirmed only by the answer to the last heartbeat sent to it:
\* not by an earlier, late one, nor by one sent before the address was
\* deleted and added again.
ConfirmedByLastHeartbeat ==
  [][\A a \in Listed : Unconfirmed(net[a]) /\ a \in ToSet(nets') /\ ~Unconfirmed(net'[a])
       => "cur" \in net[a].air]_vars

\* An ASCONF chunk is carried out once: serial numbers go up by one, and a
\* chunk that comes again changes no path.
AsconfOnce ==
  [][asoc'.seqin \in {asoc.seqin, asoc.seqin + 1}
     /\ (ToSet(nets') # ToSet(nets) /\ nets # <<>> => asoc'.seqin = asoc.seqin + 1)]_vars

Watched(a) ==
  asoc.open = "open" /\ a \in Listed \ data /\ ~NoHb(net[a]) /\ ~net[a].lame

\* A path that is down, potentially failed or unconfirmed comes back when
\* its heartbeats are answered at last, unless heartbeats are switched off or
\* displaced by data, the peer deletes the address or the association ends.
PathsRecover ==
  \A a \in Addr :
    Watched(a) /\ (~Up(net[a]) \/ PF(net[a]) \/ Unconfirmed(net[a]))
      ~> ~Watched(a) \/ (Up(net[a]) /\ ~PF(net[a]) /\ ~Unconfirmed(net[a]))


\* The flags, counters, timers and sizes of a path fit each other, what the
\* user was told and what the user set.
PathsConsistent ==
  TypeOK /\ StateMatchesErrors /\ UserKnows /\ HeartbeatsGoOn /\ SmallestMtuFits /\ ReadsBack

\* The primary is always a path, and never a worse one than necessary.
PrimaryRight == []PrimaryIsAPath /\ PrimaryMovesToConfirmed

\* Late answers to heartbeats and repeated ASCONF chunks have no effect.
OldChunksIgnored == ConfirmedByLastHeartbeat /\ AsconfOnce
=============================================================================
