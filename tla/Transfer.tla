------------------------------- MODULE Transfer -------------------------------
(***************************************************************************)
(* The sending half of an association of usrsctp: the queues of chunks     *)
(* waiting to be sent and to be acknowledged, the accounting of what is in *)
(* flight, the congestion and the peer's receive window, the T3 timers,    *)
(* fast retransmission, window probes, revoked gap acknowledgements and    *)
(* partial reliability (sctp_indata.c, sctp_output.c, sctp_timer.c,        *)
(* sctp_cc_functions.c).  All DATA chunks have one size.  The TCB lock     *)
(* is held through a handler, so each is one action; the peer, the network *)
(* and the clock act in between.  All destinations stay reachable and      *)
(* concurrent multipath transfer is off, its default.                      *)
(***************************************************************************)
EXTENDS Integers, Sequences, SequencesExt, FiniteSets

CONSTANTS NetCounts,   \* numbers of destinations an association may start with
          PerPacket,   \* chunks that fit into one packet
          Windows,     \* sizes of the peer's receive buffer
          ChunkOh,     \* sctp_peer_chunk_oh: what a chunk is charged beyond its size
          SwsSender,   \* sctp_sws_sender: smaller windows count as closed
          InitialCwnd, \* the congestion window of a new destination
          MaxBurst,    \* asoc->max_burst and asoc->fr_max_burst
          NoDelay,     \* the setting of SCTP_NODELAY, one of these
          Policies,    \* reliability of a message: subset of {"none", "ttl", "rtx"}
          NrSack,      \* whether the peer may send NR-SACKs, one of these
          Lengths,     \* numbers of fragments of a reliable message
          PrLengths,   \* numbers of fragments of one that may be abandoned
          MaxPr,       \* bound: messages that may be abandoned
          MaxTsn,      \* bound: chunks sent
          MaxPackets,  \* bound: packets on the way in each direction
          Faults,      \* what may go wrong, see the actions
          MaxEvents    \* bound: how often it does

UNSENT  == 0   \* SCTP_DATAGRAM_UNSENT
SENT    == 1   \* SCTP_DATAGRAM_SENT; 2 and 3 are sent and struck once or twice
RESEND  == 4   \* SCTP_DATAGRAM_RESEND
ACKED   == 5   \* SCTP_DATAGRAM_ACKED
MARKED  == 6   \* SCTP_DATAGRAM_MARKED
SKIP    == 7   \* SCTP_FORWARD_TSN_SKIP
NRACKED == 8   \* SCTP_DATAGRAM_NR_ACKED
Huge    == 999 \* what an unsigned window holds after going below zero
NoNet   == 0   \* a null destination; the first one is the primary destination

Size    == 2                    \* the size of a DATA chunk
Payload == PerPacket * Size     \* net->mtu without the headers of a packet
Mtu     == Payload + 1          \* net->mtu

ASSUME TransferAssumption ==
  /\ NetCounts \subseteq {1, 2} /\ {PerPacket, SwsSender, MaxBurst} \subseteq Nat \ {0}
  /\ {ChunkOh, MaxPr, MaxTsn, MaxPackets, MaxEvents} \subseteq Nat
  /\ InitialCwnd \in Nat \ {0} /\ InitialCwnd + 4 * Mtu + MaxTsn * Size < Huge
  /\ Policies \subseteq {"none", "ttl", "rtx"} /\ Policies # {}
  /\ NrSack \subseteq BOOLEAN /\ NoDelay \subseteq BOOLEAN /\ Windows \subseteq Nat /\ Lengths \cup PrLengths \subseteq 1 .. 3
  /\ Faults \subseteq {"lose", "overtake", "repeat", "corrupt", "renege", "output", "early"}

VARIABLES asoc,     \* the sender's struct sctp_association
          expired,  \* whether the lifetime of the messages with one is over
          data,     \* packets on the way to the peer, oldest first
          acks,     \* SACKs and packet drop reports on the way back
          peer,     \* the receiver: cumulative TSN, TSNs above it, unread ones
          events    \* faults so far

vars == <<asoc, expired, data, acks, peer, events>>

Least(a, b)   == IF a < b THEN a ELSE b
Largest(a, b) == IF a > b THEN a ELSE b
Nets(s)       == DOMAIN s.nets
InFlight(c)   == c.sent < RESEND
Prsctp(c)     == c.policy # "none"

\* A fold over the positions of the sent queue or over the destinations.
EachSent(Op(_, _), s) == FoldLeft(Op, s, [i \in 1 .. Len(s.sent_queue) |-> i])
EachNet(Op(_, _), s)  == FoldLeft(Op, s, [n \in 1 .. Len(s.nets) |-> n])

-------------------------------------------------------------------------------
(* Flight size, windows and timers.                                         *)

sctp_ucount_decr(v) == Largest(v - 1, 0)

\* sctp_flight_size_decrease and sctp_total_flight_decrease on the i-th sent chunk.
OutOfFlight(s, i) ==
  LET n == s.sent_queue[i].whoTo IN
  [s EXCEPT !.nets[n].flight_size = Largest(@ - Size, 0),
            !.sent_queue[i].window_probe = FALSE,
            !.total_flight = Largest(@ - Size, 0),
            !.total_flight_count = IF s.total_flight >= Size THEN Largest(@ - 1, 0) ELSE 0]

\* sctp_flight_size_increase and sctp_total_flight_increase on the i-th sent chunk.
IntoFlight(s, i) ==
  [s EXCEPT !.nets[s.sent_queue[i].whoTo].flight_size = @ + Size,
            !.total_flight = @ + Size, !.total_flight_count = @ + 1]

\* A window below the silly window threshold is taken for a closed one.
Usable(w) == IF w < SwsSender THEN 0 ELSE w

\* What of the advertised window a_rwnd is left beyond the chunks in flight.
PeersRwnd(s, a_rwnd) ==
  Usable(Largest(a_rwnd - (s.total_flight + s.total_flight_count * ChunkOh), 0))

\* peers_rwnd after a chunk is charged to it.
Charged(s) == [s EXCEPT !.peers_rwnd = Usable(Largest(@ - (Size + ChunkOh), 0))]

\* A chunk no longer in flight gives its share of the peer's window back.
Credited(s) == [s EXCEPT !.peers_rwnd = @ + Size + ChunkOh]

\* The inflation of cwnd for a revoked chunk is taken back.
Deflated(s, i) ==
  LET c == s.sent_queue[i] IN
  IF ~c.chunk_was_revoked THEN s
  ELSE [s EXCEPT !.nets[c.whoTo].cwnd = IF @ >= Size THEN @ - Size ELSE Huge,
                 !.sent_queue[i].chunk_was_revoked = FALSE]

\* sctp_timer_start for SCTP_TIMER_TYPE_SEND.  What is on its way to n when the
\* timer starts is older than a round trip when it expires.
TimerStart(s, n) ==
  IF n = NoNet \/ (n # NoNet /\ s.nets[n].rxt_timer) THEN s
  ELSE [s EXCEPT !.nets[n].rxt_timer = TRUE, !.nets[n].restarted = TRUE,
                 !.num_send_timers_up = @ + 1]

\* sctp_timer_stop for SCTP_TIMER_TYPE_SEND; the count drops even if none was pending.
TimerStop(s, n) ==
  [s EXCEPT !.nets[n].rxt_timer = FALSE, !.num_send_timers_up = Largest(@ - 1, 0)]

\* The TSN new data will have: the head of the send queue or the next one assigned.
NextNew(s) ==
  IF s.send_queue = <<>> THEN s.sending_seq ELSE Head(s.send_queue).tsn

-------------------------------------------------------------------------------
(* Congestion control, the default module of sctp_cc_functions.c.           *)

\* sctp_cwnd_update_after_sack_common for one destination with net_ack units.
GrownCwnd(net) ==
  IF net.cwnd <= net.ssthresh
  THEN IF net.flight_size + net.net_ack >= net.cwnd
       THEN [net EXCEPT !.cwnd = @ + Least(net.net_ack, 2 * Mtu)]
       ELSE net
  ELSE LET acked == net.partial_bytes_acked + net.net_ack IN
       IF net.flight_size + net.net_ack >= net.cwnd /\ acked >= net.cwnd
       THEN [net EXCEPT !.partial_bytes_acked = acked - net.cwnd, !.cwnd = @ + Mtu]
       ELSE [net EXCEPT !.partial_bytes_acked = acked]

\* sctp_cwnd_update_after_sack: no growth in fast recovery that goes on.
sctp_cwnd_update_after_sack(s, accum_moved, will_exit) ==
  IF (s.fast_retran_loss_recovery /\ ~will_exit) \/ ~accum_moved THEN s
  ELSE [s EXCEPT !.nets = [n \in Nets(s) |->
          IF s.nets[n].net_ack = 0 THEN s.nets[n] ELSE GrownCwnd(s.nets[n])]]

\* sctp_cwnd_update_after_fr: the first strike-out enters fast recovery, once
\* for every destination that lost a chunk before the flag is set.
sctp_cwnd_update_after_fr(s) ==
  LET Halve(t, n) ==
        IF t.fast_retran_loss_recovery \/ t.nets[n].net_ack = 0 THEN t
        ELSE LET half == Largest(t.nets[n].cwnd \div 2, 2 * Mtu) IN
             TimerStart(TimerStop(
               [t EXCEPT !.nets[n].ssthresh = half, !.nets[n].cwnd = half,
                         !.nets[n].partial_bytes_acked = 0,
                         !.fast_retran_loss_recovery = TRUE,
                         !.fast_recovery_tsn = NextNew(t) - 1], n), n)
  IN EachNet(Halve, s)

\* sctp_cwnd_update_after_timeout.
sctp_cwnd_update_after_timeout(s, n) ==
  [s EXCEPT !.nets[n].ssthresh = Largest(s.nets[n].cwnd \div 2, 4 * Mtu),
            !.nets[n].cwnd = Mtu, !.nets[n].partial_bytes_acked = 0]

-------------------------------------------------------------------------------
(* Partial reliability.                                                     *)

\* The message of a chunk is given up when its lifetime or its number of
\* retransmissions is exceeded; the limit of the model is no retransmission.
TtlOver(c) == c.policy = "ttl" /\ expired
RtxOver(c) == c.policy = "rtx" /\ c.snd_count > 0

\* One sent chunk of an abandoned message.
Skipped(s, i) ==
  LET c == s.sent_queue[i]
      t == IF c.data /\ InFlight(c) THEN OutOfFlight(s, i) ELSE s
      u == IF c.data THEN Credited(t) ELSE t
  IN [u EXCEPT !.sent_queue[i].sent = SKIP, !.sent_queue[i].data = FALSE,
               !.abandoned = @ \cup {c.tsn}]

\* The positions sctp_release_pr_sctp_chunk walks from the i-th sent chunk: to
\* the next last fragment, whatever message it belongs to.
Fragments(s, i) ==
  LET ends == {j \in i .. Len(s.sent_queue) : s.sent_queue[j].last} IN
  i .. (IF ends = {} THEN Len(s.sent_queue) ELSE CHOOSE j \in ends : \A k \in ends : j <= k)

\* The fragments at the head of the send queue that belong to message m.
Unsent(s, m) ==
  LET others == {j \in 1 .. Len(s.send_queue) : s.send_queue[j].msg # m} IN
  IF others = {} THEN s.send_queue
  ELSE SubSeq(s.send_queue, 1, (CHOOSE j \in others : \A k \in others : j <= k) - 1)

NewChunk(tsn, msg, policy, last) ==
  [tsn |-> tsn, msg |-> msg, policy |-> policy, last |-> last, sent |-> UNSENT,
   whoTo |-> NoNet, snd_count |-> 0, window_probe |-> FALSE,
   chunk_was_revoked |-> FALSE, doing_fast_retransmit |-> FALSE,
   fast_retran_tsn |-> 0, no_fr_allowed |-> FALSE, fwd_tsn_cnt |-> 0, data |-> TRUE,
   fresh |-> FALSE]

\* sctp_release_pr_sctp_chunk, the send queue: the fragments rest at its head
\* move to the sent queue without their data.
SkipUnsent(s, rest) ==
  [s EXCEPT !.send_queue = SubSeq(@, Len(rest) + 1, Len(@)),
            !.sent_queue = @ \o [k \in DOMAIN rest |-> [rest[k] EXCEPT !.sent = SKIP, !.data = FALSE]],
            !.abandoned = @ \cup {rest[k].tsn : k \in DOMAIN rest}]

\* sctp_release_pr_sctp_chunk, the stream: what is left of the message there goes,
\* and a last fragment is marked or put behind the others as a placeholder.
SkipStream(s, rest, msg, policy) ==
  IF s.stream = <<>> \/ (s.stream # <<>> /\ Head(s.stream).msg # msg) THEN s
  ELSE IF rest # <<>>
  THEN [s EXCEPT !.stream = Tail(@), !.sent_queue[Len(s.sent_queue)].last = TRUE]
  ELSE [s EXCEPT !.stream = Tail(@),
                 !.sent_queue = Append(@, [NewChunk(s.sending_seq, msg, policy, TRUE)
                                             EXCEPT !.sent = SKIP, !.data = FALSE]),
                 !.sending_seq = @ + 1, !.pr_sctp_cnt = @ + 1,
                 !.abandoned = @ \cup {s.sending_seq}]

SkipRest(s, rest, msg, policy) ==
  IF \E k \in DOMAIN rest : rest[k].last THEN SkipUnsent(s, rest)
  ELSE SkipStream(SkipUnsent(s, rest), rest, msg, policy)

\* sctp_release_pr_sctp_chunk on the i-th sent chunk: its message is given up
\* on the sent queue and, if its end is not there, on the send queue and the stream.
SkippedFrom(s, i) ==
  FoldLeft(Skipped, s, [k \in 1 .. Cardinality(Fragments(s, i)) |-> i + k - 1])
sctp_release_pr_sctp_chunk(s, i) ==
  LET c == s.sent_queue[i]
      Unended(t) == SkipRest(t, Unsent(t, c.msg), c.msg, c.policy) IN
  IF \E j \in Fragments(s, i) : s.sent_queue[j].last THEN SkippedFrom(s, i)
  ELSE Unended(SkippedFrom(s, i))

\* sctp_try_advance_peer_ack_point, the i-th sent chunk, c before and c2 after its
\* lifetime was looked at: the point passes abandoned and irrevocably
\* acknowledged chunks only.
PointPasses(c, c2) == c.sent \in {SKIP, RESEND, NRACKED} /\ Prsctp(c) /\ c2.sent # RESEND
PointOver(a, i, s) ==
  LET c == a.s.sent_queue[i] IN
  IF ~PointPasses(c, s.sent_queue[i]) THEN [a EXCEPT !.done = TRUE]
  ELSE [s    |-> [s EXCEPT !.advanced_peer_ack_point = Largest(@, c.tsn)],
        lchk |-> IF c.tsn >= s.advanced_peer_ack_point THEN i ELSE a.lchk,
        done |-> i = Len(a.s.sent_queue)]

\* sctp_try_advance_peer_ack_point: the advanced point moves over the chunks at
\* the head of the sent queue; lchk is the position of the last one passed, 0 if
\* there is none.
sctp_try_advance_peer_ack_point(s) ==
  LET Lapsed(c) == c.sent = RESEND /\ TtlOver(c)
      Step(a, i) ==
        IF a.done \/ i > Len(a.s.sent_queue) THEN a
        ELSE PointOver(a, i, IF Lapsed(a.s.sent_queue[i])
                             THEN sctp_release_pr_sctp_chunk(a.s, i) ELSE a.s)
  IN FoldLeft(Step, [s |-> s, lchk |-> 0, done |-> FALSE], [i \in 1 .. MaxTsn |-> i])

\* send_forward_tsn: a FORWARD-TSN for the advanced point is put on the control queue.
send_forward_tsn(s) ==
  [s EXCEPT !.forward_tsn = s.advanced_peer_ack_point,
            !.sent_queue = [i \in DOMAIN @ |->
               IF @[i].tsn = s.advanced_peer_ack_point
               THEN [@[i] EXCEPT !.fwd_tsn_cnt = 0] ELSE @[i]]]

\* The timer for the last chunk passed.
WatchPassed(s, lchk) == IF lchk = 0 THEN s ELSE TimerStart(s, s.sent_queue[lchk].whoTo)

\* The end of both SACK handlers: the advanced point follows the cumulative
\* acknowledgement and then the abandoned chunks, announced when it moved or
\* when three SACKs reported gaps above it.
Announced(a, cum, before) ==
  LET s == a.s IN
  IF /\ s.advanced_peer_ack_point > cum
     /\ \/ s.advanced_peer_ack_point > before
        \/ a.lchk # 0 /\ s.sent_queue[a.lchk].fwd_tsn_cnt >= 3
  THEN send_forward_tsn(s) ELSE s
AdvancePoint(s, cum) ==
  LET t == [s EXCEPT !.advanced_peer_ack_point = Largest(@, cum)]
      Tell(a) == WatchPassed(Announced(a, cum, t.advanced_peer_ack_point), a.lchk) IN
  IF t.pr_sctp_cnt = 0 THEN t ELSE Tell(sctp_try_advance_peer_ack_point(t))

-------------------------------------------------------------------------------
(* What a SACK does: sctp_express_handle_sack and sctp_handle_sack.         *)

\* What both handlers reset for every destination when they start.
Fresh(s, cum) ==
  [s EXCEPT !.nets = [n \in DOMAIN @ |-> [@[n] EXCEPT !.net_ack = 0, !.saw_newack = FALSE,
                                                      !.highest_newack = 0]],
            !.highest_gap = cum, !.biggest_newly_acked = cum]

\* One chunk covered by the cumulative acknowledgement.
CumAcked(s, i) ==
  LET c == s.sent_queue[i]
      t == IF InFlight(c) THEN OutOfFlight(s, i) ELSE s
      u == IF c.sent < ACKED
           THEN [t EXCEPT !.nets[c.whoTo].net_ack = @ + Size, !.nets[c.whoTo].saw_newack = TRUE]
           ELSE t
      v == IF c.sent = RESEND
           THEN [u EXCEPT !.sent_queue_retran_cnt = sctp_ucount_decr(@)] ELSE u
  IN Deflated(v, i)

Covered(s, cum) == Cardinality({i \in DOMAIN s.sent_queue : s.sent_queue[i].tsn <= cum})

\* The covered chunks are accounted for and leave the sent queue.
DropCovered(s, cum) ==
  LET k == Covered(s, cum)
      t == FoldLeft(CumAcked, s, [i \in 1 .. k |-> i])
  IN [t EXCEPT !.sent_queue = SubSeq(@, k + 1, Len(@))]

\* With an empty sent queue nothing is in flight.
NothingInFlight(s) ==
  [s EXCEPT !.nets = [n \in DOMAIN @ |-> [@[n] EXCEPT !.flight_size = 0,
                                                      !.partial_bytes_acked = 0]],
            !.total_flight = 0, !.total_flight_count = 0]

\* sctp_window_probe_recovery on the first chunk sent as a window probe.
sctp_window_probe_recovery(s) ==
  LET probes == {i \in DOMAIN s.sent_queue : s.sent_queue[i].window_probe} IN
  IF probes = {} THEN s
  ELSE LET i == CHOOSE j \in probes : \A k \in probes : j <= k
           c == s.sent_queue[i]
           t == [s EXCEPT !.sent_queue[i].window_probe = FALSE]
       IN IF c.sent >= ACKED \/ ~c.data THEN t
          ELSE [OutOfFlight(t, i) EXCEPT !.sent_queue[i].sent = RESEND,
                                         !.sent_queue_retran_cnt = @ + 1]

\* sctp_fs_audit: is something in flight although the counters say nothing is?
sctp_fs_audit(s) ==
  /\ s.pr_sctp_cnt < Len(s.sent_queue)
  /\ \E i \in DOMAIN s.sent_queue : InFlight(s.sent_queue[i])

\* The counters computed anew from the sent queue.
Rebuilt(s) ==
  LET flying(n) == Cardinality({i \in DOMAIN s.sent_queue :
                      InFlight(s.sent_queue[i]) /\ s.sent_queue[i].whoTo = n})
      all == Cardinality({i \in DOMAIN s.sent_queue : InFlight(s.sent_queue[i])})
  IN [s EXCEPT !.nets = [n \in DOMAIN @ |-> [@[n] EXCEPT !.flight_size = Size * flying(n)]],
               !.total_flight = Size * all, !.total_flight_count = all,
               !.sent_queue_retran_cnt = Cardinality({i \in DOMAIN s.sent_queue :
                                            s.sent_queue[i].sent = RESEND})]

\* Recovery of the window probe sent to n, when the window has opened.
ProbeRecovered(s, n, recover) ==
  IF recover /\ s.nets[n].window_probe THEN sctp_window_probe_recovery(s) ELSE s

\* The loop at label again of sctp_express_handle_sack: a running timer is
\* restarted, and started without being counted.
ExpressTimer(s, n) ==
  IF s.nets[n].flight_size > 0 \/ s.nets[n].window_probe
  THEN [s EXCEPT !.nets[n].rxt_timer = TRUE, !.nets[n].restarted = TRUE,
                 !.nets[n].window_probe = FALSE]
  ELSE IF s.nets[n].rxt_timer THEN TimerStop(s, n) ELSE s
ExpressTimers(s, recover) ==
  LET Net(t, n) == ExpressTimer(ProbeRecovered(t, n, recover), n) IN EachNet(Net, s)

\* The same loop of sctp_handle_sack: the probe stays marked while nothing flies.
SackTimer(s, n) ==
  IF s.nets[n].flight_size > 0 THEN [TimerStart(s, n) EXCEPT !.nets[n].window_probe = FALSE]
  ELSE IF s.nets[n].window_probe THEN TimerStart(s, n)
  ELSE IF s.nets[n].rxt_timer THEN TimerStop(s, n) ELSE s
SackTimers(s, recover) ==
  LET Net(t, n) == SackTimer(ProbeRecovered(t, n, recover), n) IN EachNet(Net, s)

\* The counters are rebuilt, and the loop repeated, when nothing is in flight
\* although chunks are unacknowledged and none is marked for retransmission.
Audited(before, after, recover) ==
  LET flying    == \E n \in Nets(after) : after.nets[n].flight_size > 0
      recovered == recover /\ \E n \in Nets(before) : before.nets[n].window_probe
  IN ~flying /\ after.sent_queue # <<>> /\ after.sent_queue_retran_cnt = 0 /\ ~recovered

AuditedExpress(s, recover) ==
  LET Again(t) == IF Audited(s, t, recover)
                  THEN ExpressTimers(IF sctp_fs_audit(t) THEN Rebuilt(t) ELSE t, recover) ELSE t
  IN Again(ExpressTimers(s, recover))

AuditedSack(s, recover) ==
  LET Again(t) == IF Audited(s, t, recover)
                  THEN SackTimers(IF sctp_fs_audit(t) THEN Rebuilt(t) ELSE t, recover) ELSE t
  IN Again(SackTimers(s, recover))

\* sctp_express_handle_sack: only a cumulative acknowledgement that is not older
\* than the last one.
CumulativelyAcked(s, cum) ==
  LET Emptied(t) == IF t.sent_queue = <<>> THEN NothingInFlight(t) ELSE t IN
  [Emptied(sctp_cwnd_update_after_sack(DropCovered(Fresh(s, cum), cum), TRUE, FALSE))
     EXCEPT !.last_acked_seq = cum]
sctp_express_handle_sack(s, cum, rwnd) ==
  LET same    == cum = s.last_acked_seq
      Windowed(t) == [t EXCEPT !.peers_rwnd = PeersRwnd(t, rwnd)]
      Finish(t)   == LET opens == t.peers_rwnd > s.peers_rwnd IN
                     IF same /\ ~opens THEN t
                     ELSE AdvancePoint(AuditedExpress(t, opens /\ ~same), cum) IN
  IF cum < s.last_acked_seq THEN s
  ELSE Finish(Windowed(IF same THEN s ELSE CumulativelyAcked(s, cum)))

\* A slip: the data of a chunk is freed on a gap ack the peer may take back.
FreedAlways(s, i, nr) == [s EXCEPT !.sent_queue[i].data = FALSE]

\* An irrevocably acknowledged chunk gives up its data.
Freed(s, i, nr) ==
  IF nr /\ s.sent_queue[i].sent # NRACKED
  THEN [s EXCEPT !.sent_queue[i].sent = NRACKED, !.sent_queue[i].data = FALSE] ELSE s

\* One chunk reported above the cumulative acknowledgement, sctp_process_segment_range.
GapAcked(s, i, nr) ==
  LET c == s.sent_queue[i]
      n == c.whoTo
      t == IF ~InFlight(c) THEN s
           ELSE [OutOfFlight(s, i) EXCEPT
                   !.biggest_newly_acked = Largest(@, c.tsn),
                   !.nets[n].saw_newack = @ \/ ~c.chunk_was_revoked,
                   !.nets[n].highest_newack = Largest(@, c.tsn),
                   !.nets[n].net_ack = @ + Size]
      u == IF c.sent > RESEND THEN t
           ELSE [t EXCEPT !.highest_gap = Largest(@, c.tsn),
                          !.sent_queue_retran_cnt =
                              IF c.sent = RESEND THEN sctp_ucount_decr(@) ELSE @]
      v == IF c.sent \in {SKIP, NRACKED} THEN u
           ELSE [u EXCEPT !.sent_queue[i].sent = MARKED]
  IN Freed(Deflated(v, i), i, nr)

\* sctp_handle_segments: the revocable blocks, then the irrevocable ones.
sctp_handle_segments(s, gaps, nr_gaps) ==
  LET Gap(t, i) == IF t.sent_queue[i].tsn \in gaps THEN GapAcked(t, i, FALSE) ELSE t
      Nr(t, i)  == IF t.sent_queue[i].tsn \in nr_gaps THEN GapAcked(t, i, TRUE) ELSE t
  IN EachSent(Nr, EachSent(Gap, s))

\* A slip: a revoked chunk is not put back into flight.
RevokedUncounted(s, i) ==
  LET n == s.sent_queue[i].whoTo IN
  [s EXCEPT !.sent_queue[i].sent = SENT, !.sent_queue[i].chunk_was_revoked = TRUE,
            !.nets[n].cwnd = @ + Size]

\* A chunk reported before and not by this SACK is in flight again, and the
\* congestion window inflated for it.
Revoked(s, i) ==
  LET n == s.sent_queue[i].whoTo IN
  [IntoFlight(s, i) EXCEPT !.sent_queue[i].sent = SENT,
                           !.sent_queue[i].chunk_was_revoked = TRUE,
                           !.nets[n].cwnd = @ + Size]

\* sctp_check_for_revoked, up to the highest TSN the SACK reports.
sctp_check_for_revoked(s, biggest) ==
  LET Check(t, i) ==
        LET c == t.sent_queue[i] IN
        IF c.tsn > biggest THEN t
        ELSE IF c.sent = ACKED THEN Revoked(t, i)
        ELSE IF c.sent = MARKED THEN [t EXCEPT !.sent_queue[i].sent = ACKED] ELSE t
  IN EachSent(Check, s)

\* A SACK without blocks after one with blocks revokes every one of them.
RevokeAll(s) ==
  LET Check(t, i) == IF t.sent_queue[i].sent = ACKED THEN Revoked(t, i) ELSE t
  IN [EachSent(Check, s) EXCEPT !.saw_sack_with_frags = FALSE]

\* Does a SACK count as a strike against the chunk?
Strikes(s, c, accum_moved) ==
  \/ accum_moved /\ s.fast_retran_loss_recovery
  \/ /\ ~(accum_moved /\ s.fast_retran_loss_recovery)
     /\ IF c.doing_fast_retransmit THEN s.biggest_newly_acked >= c.fast_retran_tsn
        ELSE c.tsn <= s.biggest_newly_acked

\* The third strike: the chunk leaves flight and is marked for fast
\* retransmission, unless its retransmissions are used up.
StruckOut(s, i) ==
  LET n == s.sent_queue[i].whoTo
      t == Credited(OutOfFlight([s EXCEPT !.sent_queue[i].sent = RESEND,
                                          !.nets[n].net_ack = @ + Size], i))
  IN IF RtxOver(s.sent_queue[i])
     THEN [(IF t.sent_queue[i].data THEN sctp_release_pr_sctp_chunk(t, i) ELSE t)
             EXCEPT !.nets[n].net_ack = @ + Size]
     ELSE [t EXCEPT !.sent_queue_retran_cnt = @ + 1,
                    !.sent_queue[i].doing_fast_retransmit = TRUE,
                    !.sent_queue[i].fast_retran_tsn = NextNew(t)]

\* sctp_strike_gap_ack_chunks.
sctp_strike_gap_ack_chunks(s, biggest, accum_moved) ==
  LET Strike(t, i) ==
        LET c == t.sent_queue[i] IN
        IF c.no_fr_allowed \/ c.tsn > biggest THEN t
        ELSE IF TtlOver(c) /\ c.sent < ACKED
        THEN IF c.data THEN sctp_release_pr_sctp_chunk(t, i) ELSE t
        ELSE IF c.tsn > t.highest_gap THEN t
        ELSE IF c.sent = SKIP
        THEN [t EXCEPT !.sent_queue[i].fwd_tsn_cnt = Least(@ + 1, 3)]
        ELSE IF \/ c.sent >= RESEND \/ ~t.nets[c.whoTo].saw_newack
                \/ c.tsn > t.nets[c.whoTo].highest_newack \/ ~Strikes(t, c, accum_moved)
        THEN t
        ELSE IF c.sent + 1 < RESEND THEN [t EXCEPT !.sent_queue[i].sent = @ + 1]
        ELSE StruckOut(t, i)
  IN EachSent(Strike, s)

\* sctp_handle_sack, from the cumulative acknowledgement to the last block: the
\* timers of all destinations stop when the former moved.
Acknowledged(s, sack) ==
  LET k     == Covered(s, sack.cum)
      gone  == {i \in 1 .. k : Prsctp(s.sent_queue[i])}
      t     == DropCovered(Fresh(s, sack.cum), sack.cum)
      any   == sack.gaps \cup sack.nr # {}
      u     == IF ~any THEN t
               ELSE sctp_handle_segments(
                      [t EXCEPT !.nets = [n \in DOMAIN @ |->
                          [@[n] EXCEPT !.saw_newack = FALSE, !.highest_newack = sack.cum]]],
                      sack.gaps, sack.nr)
      v     == IF k = 0 THEN u ELSE EachNet(TimerStop, u)
  IN [v EXCEPT !.last_acked_seq = sack.cum,
               !.pr_sctp_cnt = Largest(@ - Cardinality(gone), 0)]

\* sctp_handle_sack, revocation and growth of the congestion windows.
Reconsidered(s, sack, biggest, accum_moved, will_exit) ==
  LET t == IF sack.gaps # {}
           THEN [sctp_check_for_revoked(s, biggest) EXCEPT !.saw_sack_with_frags = TRUE]
           ELSE IF s.saw_sack_with_frags THEN RevokeAll(s) ELSE s
      u == sctp_cwnd_update_after_sack([t EXCEPT !.saw_sack_with_nr_frags = sack.nr # {}],
                                       accum_moved, will_exit)
  IN IF u.sent_queue = <<>> THEN NothingInFlight(EachNet(TimerStop, u)) ELSE u

\* sctp_handle_sack, fast retransmission and the exit from fast recovery.
FastRetransmit(s, sack, biggest, accum_moved, will_exit) ==
  LET t == [s EXCEPT !.nets = [n \in DOMAIN @ |-> [@[n] EXCEPT !.net_ack = 0]]]
      u == IF sack.gaps \cup sack.nr = {} THEN t
           ELSE sctp_strike_gap_ack_chunks(t, biggest, accum_moved)
      v == sctp_cwnd_update_after_fr(u)
  IN IF will_exit THEN [v EXCEPT !.fast_retran_loss_recovery = FALSE] ELSE v

\* sctp_handle_sack.
sctp_handle_sack(s, sack) ==
  IF sack.cum < s.last_acked_seq THEN s
  ELSE IF s.sent_queue = <<>> /\ s.send_queue = <<>> /\ s.stream = <<>>
  THEN [NothingInFlight(EachNet(TimerStop, s)) EXCEPT
          !.peers_rwnd = Usable(sack.rwnd), !.sent_queue_retran_cnt = 0]
  ELSE LET moved   == Covered(s, sack.cum) > 0
           reports == sack.gaps \cup sack.nr \cup {sack.cum}
           biggest == CHOOSE t \in reports : \A r \in reports : r <= t
           exits   == s.fast_retran_loss_recovery /\ moved /\ sack.cum >= s.fast_recovery_tsn
           Windowed(u) == [u EXCEPT !.peers_rwnd = PeersRwnd(u, sack.rwnd)]
           Finish(u)   == AdvancePoint(AuditedSack(u, u.peers_rwnd > s.peers_rwnd), sack.cum)
       IN Finish(Windowed(FastRetransmit(
            Reconsidered(Acknowledged(s, sack), sack, biggest, moved, exits),
            sack, biggest, moved, exits)))

-------------------------------------------------------------------------------
(* Output.  The packets of a handler are collected in wire; after limit of     *)
(* them the output function fails.                                          *)

\* The size of all data the association still holds, total_output_queue_size.
Held(s) ==
  Size * (  Cardinality({i \in DOMAIN s.sent_queue : s.sent_queue[i].data})
          + Len(s.send_queue) + FoldLeft(LAMBDA a, m : a + m.left, 0, s.stream))

\* sctp_fill_outqueue for one destination: up to a packet of fragments moves
\* from the stream to the send queue and gets its TSNs.
sctp_fill_outqueue(s) ==
  LET Move(t, k) ==
        IF t.stream = <<>> THEN t
        ELSE LET m == Head(t.stream) IN
             [t EXCEPT !.send_queue = Append(@, NewChunk(t.sending_seq, m.msg, m.policy, m.left = 1)),
                       !.sending_seq = @ + 1,
                       !.pr_sctp_cnt = IF m.policy = "none" THEN @ ELSE @ + 1,
                       !.stream = IF m.left = 1 THEN Tail(@)
                                  ELSE <<[m EXCEPT !.left = @ - 1]>> \o Tail(@)]
  IN FoldLeft(Move, s, [k \in 1 .. PerPacket |-> k])

\* sctp_med_chunk_output, filling the send queue: not while it holds chunks
\* without a destination, and only for destinations with an open window.
FillOut(s) ==
  LET Fill(t, n) ==
        LET u == [t EXCEPT !.nets[n].window_probe = FALSE] IN
        IF u.nets[n].flight_size >= u.nets[n].cwnd THEN u ELSE sctp_fill_outqueue(u)
  IN IF (\E i \in DOMAIN s.send_queue : s.send_queue[i].whoTo = NoNet) \/ s.stream = <<>>
     THEN s ELSE EachNet(Fill, s)

\* sctp_clean_up_datalist: the first k chunks of the send queue were sent to n.
sctp_clean_up_datalist(s, k, n) ==
  LET Move(t, j) ==
        LET c == [Head(t.send_queue) EXCEPT !.sent = SENT, !.snd_count = 1, !.whoTo = n, !.fresh = TRUE,
                     !.fast_retran_tsn = Head(t.send_queue).tsn, !.chunk_was_revoked = FALSE]
            above == {i \in DOMAIN t.sent_queue : t.sent_queue[i].tsn > c.tsn}
            at    == Len(t.sent_queue) - Cardinality(above) + 1
            u     == [t EXCEPT !.send_queue = Tail(@), !.sent_queue = InsertAt(@, at, c)]
        IN Charged(IntoFlight(u, at))
  IN FoldLeft(Move, s, [j \in 1 .. k |-> j])

\* sctp_med_chunk_output: how many chunks of the send queue fit into the next
\* packet to the primary destination; a closed window lets one through when
\* nothing is in flight.
Bundle(s, no_data) ==
  IF no_data \/ s.nets[1].flight_size >= s.nets[1].cwnd THEN 0
  ELSE LET room == IF Payload <= s.peers_rwnd THEN PerPacket
                   ELSE IF s.total_flight > 0 THEN s.peers_rwnd \div Size ELSE 1
       IN Least(room, Len(s.send_queue))

\* sctp_med_chunk_output: the chunks of the control queue put in front of the data.
Control(s) == IF s.forward_tsn = 0 THEN 0 ELSE 1

\* sctp_med_chunk_output, the packet: the timer is started before the output,
\* whose failure leaves the chunks on the send queue; sctp_clean_up_ctl then
\* forgets the FORWARD-TSN whether it was sent or not.
PacketOut(s, k) ==
  LET ok == Len(s.wire) < s.limit
      probe == k > 0 /\ Payload > s.peers_rwnd /\ s.total_flight = 0
      t == IF probe THEN [s EXCEPT !.send_queue[1].window_probe = TRUE,
                                   !.nets[1].window_probe = TRUE]
           ELSE [s EXCEPT !.send_queue = [i \in DOMAIN @ |->
                   IF i <= k THEN [@[i] EXCEPT !.window_probe = FALSE] ELSE @[i]]]
      u == IF k > 0 THEN TimerStart(t, 1) ELSE t
      tsns == [i \in 1 .. k |-> u.send_queue[i].tsn]
      v == IF ok THEN sctp_clean_up_datalist(u, k, 1) ELSE u
  IN [v EXCEPT !.num_out = IF ~ok THEN 0 ELSE k + Control(s),
               !.wire = IF ok THEN @ \o <<[tsns |-> Range(tsns), forward |-> s.forward_tsn]>> ELSE @,
               !.forward_tsn = 0]

\* sctp_med_chunk_output.
sctp_med_chunk_output(s, control_only) ==
  LET no_data == control_only \/ (s.peers_rwnd = 0 /\ s.total_flight > 0)
      t == IF no_data THEN s ELSE FillOut(s)
      k == Bundle(t, no_data)
  IN IF k + Control(t) = 0 THEN [t EXCEPT !.num_out = 0] ELSE PacketOut(t, k)

\* sctp_chunk_retransmission: the chunks waiting for retransmission, in order.
Waiting(s) == {i \in DOMAIN s.sent_queue : s.sent_queue[i].sent = RESEND /\ s.sent_queue[i].data}

\* With too small a window and data in flight only the first missing chunk may go.
Withheld(s, i) ==
  s.peers_rwnd < Payload /\ s.total_flight > 0 /\ s.sent_queue[i].tsn # s.last_acked_seq + 1

\* A full congestion window holds back all but fast retransmissions.
Sendable(s, i) ==
  LET c == s.sent_queue[i] IN
  c.doing_fast_retransmit \/ s.nets[c.whoTo].flight_size < s.nets[c.whoTo].cwnd

\* The packet that starts with the i-th chunk: with a window that takes a full
\* packet, later chunks for the same destination are bundled with it.
Bundled(s, i) ==
  LET same == {j \in Waiting(s) : j > i /\ s.sent_queue[j].whoTo = s.sent_queue[i].whoTo}
      few  == {j \in same : Cardinality({k \in same : k <= j}) < PerPacket}
  IN {i} \cup (IF s.peers_rwnd < Payload THEN {} ELSE few)

\* One chunk of a packet that was sent again.
Resent(s, i, first, started) ==
  LET c == s.sent_queue[i]
      t == [Deflated(s, i) EXCEPT !.sent_queue[i].sent = SENT, !.sent_queue[i].fresh = TRUE,
              !.sent_queue[i].snd_count = Least(@ + 1, 2),
              !.sent_queue_retran_cnt = sctp_ucount_decr(@)]
      u == Charged(IntoFlight(t, i))
  IN IF i = first /\ c.doing_fast_retransmit /\ i = 1 /\ ~started
     THEN TimerStart(TimerStop(u, c.whoTo), c.whoTo) ELSE u

\* sctp_chunk_retransmission: one packet.  The result is negative when there is
\* nothing to retransmit, positive when the caller is to stop.
sctp_chunk_retransmission(s) ==
  LET ok    == Len(s.wire) < s.limit
      cands == {i \in Waiting(s) : Withheld(s, i) \/ Sendable(s, i)} IN
  IF s.sent_queue = <<>>
  THEN [s EXCEPT !.num_out = 0, !.ret = IF s.forward_tsn = 0 THEN 0 ELSE -1]
  ELSE IF cands = {} THEN [s EXCEPT !.num_out = 0, !.ret = 0]
  ELSE LET i == CHOOSE j \in cands : \A k \in cands : j <= k
           n == s.sent_queue[i].whoTo
           one_chunk == s.peers_rwnd < Payload
           p == IF s.peers_rwnd = 0 /\ s.total_flight = 0
                THEN [s EXCEPT !.sent_queue[i].window_probe = TRUE, !.nets[n].window_probe = TRUE]
                ELSE s
           list == SetToSortSeq(Bundled(s, i), LAMBDA a, b : a < b)
           t == TimerStart(p, n)
           u == FoldLeft(LAMBDA a, j : Resent(a, j, i, ~s.nets[n].rxt_timer), t, list)
       IN IF Withheld(s, i) THEN [s EXCEPT !.num_out = 0, !.ret = 1]
          ELSE IF ~ok THEN [t EXCEPT !.num_out = 0, !.ret = 1]
          ELSE [u EXCEPT !.num_out = Len(list),
                         !.fast = @ + (IF s.sent_queue[i].doing_fast_retransmit THEN 1 ELSE 0),
                         !.ret = IF one_chunk /\ u.sent_queue_retran_cnt > 0 THEN 1 ELSE 0,
                         !.wire = @ \o <<[tsns |-> {s.sent_queue[j].tsn : j \in Bundled(s, i)},
                                          forward |-> 0]>>]

\* sctp_timer_validation: without any T3 timer the primary destination gets one.
sctp_timer_validation(s) ==
  IF \E n \in Nets(s) : s.nets[n].rxt_timer THEN s ELSE TimerStart(s, 1)

UnSent(s) == Held(s) - s.total_flight

\* The loop of sctp_chunk_output over the chunks to be retransmitted; from the
\* T3 timer it sends a single packet.
AfterRetransmission(s, from) ==
  IF s.ret > 0
  THEN [s |-> sctp_timer_validation(sctp_med_chunk_output(s, TRUE)), next |-> "return"]
  ELSE IF s.ret < 0 THEN [s |-> s, next |-> "data"]
  ELSE IF from = "T3" THEN [s |-> sctp_med_chunk_output(s, TRUE), next |-> "return"]
  ELSE IF s.fast >= MaxBurst THEN [s |-> s, next |-> "return"]
  ELSE [s |-> s, next |-> IF s.num_out = 0 THEN "data" ELSE "loop"]
RetransmitLoop(s, from) ==
  LET Round(a, k) ==
        IF a.next # "loop" THEN a
        ELSE IF a.s.sent_queue_retran_cnt = 0 THEN [a EXCEPT !.next = "data"]
        ELSE AfterRetransmission(sctp_chunk_retransmission(a.s), from)
  IN FoldLeft(Round, [s |-> s, next |-> "loop"], [k \in 1 .. MaxTsn + 2 |-> k])

\* The loop of sctp_chunk_output over new data, a burst of packets.
BurstEnds(s, from) ==
  \/ from = "user" /\ ~s.nodelay /\ UnSent(s) < Payload /\ s.total_flight > 0
  \/ s.forward_tsn = 0 /\ s.send_queue = <<>> /\ s.stream = <<>>
  \/ UnSent(s) <= 0 \/ s.num_out = 0
DataLoop(s, from) ==
  LET Sent(t)     == [s |-> t, done |-> BurstEnds(t, from)]
      Round(a, k) == IF a.done THEN a ELSE Sent(sctp_med_chunk_output(a.s, FALSE))
  IN FoldLeft(Round, [s |-> s, done |-> FALSE], [k \in 1 .. MaxBurst |-> k]).s

\* sctp_chunk_output.
sctp_chunk_output(s, from) ==
  IF UnSent(s) <= 0 /\ s.forward_tsn = 0 /\ s.sent_queue_retran_cnt = 0 THEN s
  ELSE LET Then(a) == IF a.next = "return" THEN a.s ELSE DataLoop(a.s, from) IN
       Then(RetransmitLoop(s, from))

\* The end of sctp_process_control and of data processing for an incoming packet.
TriggerSend(s) ==
  IF s.forward_tsn # 0 \/ (UnSent(s) # 0 /\ (s.peers_rwnd > 0 \/ s.total_flight = 0))
  THEN sctp_chunk_output(s, "control") ELSE s

\* The end of sctp_lower_sosend: the message is on its stream, now it may go out.
SendIfAllowed(s) ==
  LET queue_only == s.nets[1].flight_size > s.nets[1].cwnd
      nagle      == ~s.nodelay /\ s.total_flight > 0 /\ UnSent(s) < Payload
  IN IF \/ ~queue_only /\ ~nagle /\ s.peers_rwnd > 0 /\ UnSent(s) # 0
        \/ ~queue_only /\ s.peers_rwnd = 0 /\ s.total_flight = 0
     THEN sctp_chunk_output(s, "user")
     ELSE IF s.forward_tsn # 0 THEN sctp_med_chunk_output(s, TRUE) ELSE s

-------------------------------------------------------------------------------
(* The T3 timer.                                                            *)

\* sctp_find_alternate_net when every destination is reachable.
Alternate(s, n) == IF Len(s.nets) = 1 THEN n ELSE 3 - n

\* sctp_mark_all_for_resend, one chunk on its way to n that is old enough.
MarkedForResend(s, i, n) ==
  LET c   == s.sent_queue[i]
      alt == Alternate(s, n)
      t   == IF ~InFlight(c) THEN s
             ELSE [Credited(OutOfFlight(Deflated(s, i), i)) EXCEPT !.marked = TRUE,
                     !.sent_queue_retran_cnt = @ + 1]
  IN IF TtlOver(c) \/ RtxOver(c)
     THEN [(IF c.data THEN sctp_release_pr_sctp_chunk(s, i) ELSE s) EXCEPT !.marked = TRUE]
     ELSE [t EXCEPT !.sent_queue[i].sent = RESEND,
                    !.sent_queue[i].doing_fast_retransmit = FALSE,
                    !.sent_queue[i].no_fr_allowed = alt # n,
                    !.sent_queue[i].whoTo = alt,
                    !.sent_queue[i].fast_retran_tsn = IF alt # n THEN @ ELSE NextNew(t)]

\* sctp_mark_all_for_resend, after the walk: the flight is rebuilt if path and
\* association disagree on what left it, and the count of retransmissions is
\* replaced by what the walk saw, which passed over the young chunks.
ResendCounted(s, t, n, young) ==
  LET counted == {i \in DOMAIN t.sent_queue : t.sent_queue[i].sent = RESEND /\ i \notin young}
      differ  == s.nets[n].flight_size - t.nets[n].flight_size # s.total_flight - t.total_flight
  IN [(IF differ THEN Rebuilt(t) ELSE t) EXCEPT !.sent_queue_retran_cnt = Cardinality(counted)]

\* sctp_mark_all_for_resend: chunks younger than the smoothed round trip are
\* passed over, except for a probe.
sctp_mark_all_for_resend(s, n, win_probe, old) ==
  LET Mine(t, i)  == t.sent_queue[i].whoTo = n /\ t.sent_queue[i].sent < ACKED
      mine        == {i \in DOMAIN s.sent_queue : Mine(s, i)}
      young       == IF win_probe \/ old THEN {} ELSE {i \in mine : s.sent_queue[i].fresh}
      Mark(t, i)  == IF Mine(t, i) /\ i \notin young THEN MarkedForResend(t, i, n) ELSE t
  IN ResendCounted(s, EachSent(Mark, [s EXCEPT !.marked = FALSE]), n, young)

\* sctp_t3rxt_timer.
sctp_t3rxt_timer(s, n, old) ==
  LET win_probe  == s.peers_rwnd = 0 /\ s.total_flight < Mtu
      Slowed(t)  == IF t.marked /\ ~win_probe THEN sctp_cwnd_update_after_timeout(t, n) ELSE t
      Forward(a) == IF a.s.advanced_peer_ack_point <= a.s.last_acked_seq THEN a.s
                    ELSE WatchPassed(send_forward_tsn(a.s), a.lchk)
  IN Forward(sctp_try_advance_peer_ack_point(Slowed(
       [sctp_mark_all_for_resend(s, n, win_probe, old)
          EXCEPT !.fast_retran_loss_recovery = FALSE])))

\* The SCTP_TIMER_TYPE_SEND case of sctp_timeout_handler; its end is a safeguard.
Stopped(s, n) ==
  [s EXCEPT !.nets[n].rxt_timer = FALSE, !.num_send_timers_up = Largest(@ - 1, 0)]
Safeguarded(s) ==
  IF s.num_send_timers_up = 0 /\ s.sent_queue # <<>>
  THEN TimerStart(s, Head(s.sent_queue).whoTo) ELSE s

\* A slip: what the timeout marked is not sent.
SendTimeoutUnsent(s, n, old) == Safeguarded(sctp_t3rxt_timer(Stopped(s, n), n, old))

SendTimeout(s, n, old) ==
  Safeguarded(sctp_chunk_output(sctp_t3rxt_timer(Stopped(s, n), n, old), "T3"))

-------------------------------------------------------------------------------
(* Reports of dropped packets.                                              *)

\* process_chunk_drop for a chunk of a packet that reached the peer damaged.
process_chunk_drop(s, tsn) ==
  LET at == {i \in DOMAIN s.sent_queue : s.sent_queue[i].tsn = tsn /\ s.sent_queue[i].sent < ACKED}
      Dropped(i) ==
        LET n == s.sent_queue[i].whoTo
            t == TimerStart(TimerStop(s, n), n)
            u == IF InFlight(s.sent_queue[i]) THEN OutOfFlight(t, i) ELSE t
        IN [u EXCEPT !.sent_queue[i].sent = RESEND,
                     !.sent_queue[i].doing_fast_retransmit = TRUE,
                     !.sent_queue[i].fast_retran_tsn = NextNew(s)]
      t == IF at = {} THEN s ELSE Dropped(CHOOSE i \in at : TRUE)
  IN IF at # {} /\ s.peers_rwnd = 0 THEN s
     ELSE [t EXCEPT !.sent_queue_retran_cnt =
              Cardinality({i \in DOMAIN t.sent_queue : t.sent_queue[i].sent = RESEND})]

\* sctp_handle_packet_dropped: the chunks of the packet, then the window the
\* report carries, where a chunk has no overhead.
sctp_handle_packet_dropped(s, report) ==
  LET list   == SetToSortSeq(report.tsns, LAMBDA a, b : a < b)
      t      == FoldLeft(process_chunk_drop, s, list)
      a_rwnd == Largest(report.bottle_bw - report.on_queue, 0)
  IN IF report.bottle_bw = 0 \/ report.on_queue = 0 THEN t
     ELSE [t EXCEPT !.peers_rwnd = IF a_rwnd = 0 THEN 0
                                   ELSE Usable(Largest(a_rwnd - t.total_flight, 0))]

-------------------------------------------------------------------------------
(* The peer: it keeps what fits into its buffer, answers every packet, and   *)
(* may drop what it has only reported as received out of order.              *)

Occupied(p) == (Cardinality(p.got) + p.unread) * (Size + ChunkOh)
Room(p)     == Largest(p.window - Occupied(p), 0)

\* The chunks above the cumulative TSN that continue it are delivered in order.
InOrder(p) ==
  LET run == {t \in p.got : \A u \in p.cum + 1 .. t : u \in p.got}
  IN [p EXCEPT !.cum = @ + Cardinality(run), !.got = @ \ run, !.unread = @ + Cardinality(run)]

Take(p, tsn) ==
  IF tsn <= p.cum \/ tsn \in p.got \/ Room(p) = 0 THEN p
  ELSE InOrder([p EXCEPT !.got = @ \cup {tsn}])

\* Chunks a FORWARD-TSN passes over are delivered with those below it.
Skip(p, tsn) ==
  IF tsn <= p.cum THEN p
  ELSE LET below == {t \in p.got : t <= tsn} IN
       InOrder([p EXCEPT !.cum = tsn, !.got = @ \ below, !.unread = @ + Cardinality(below)])

Arrived(p, packet) ==
  Skip(FoldLeft(Take, p, SetToSortSeq(packet.tsns, LAMBDA a, b : a < b)), packet.forward)

Sack(p) == [tsns |-> {}, cum |-> p.cum, rwnd |-> Room(p),
            gaps |-> IF p.nr THEN {} ELSE p.got, nr |-> IF p.nr THEN p.got ELSE {},
            bottle_bw |-> 0, on_queue |-> 0]

\* sctp_send_packet_dropped: the packet, the buffer and what is in it.
sctp_send_packet_dropped(p, packet) ==
  [tsns |-> packet.tsns, cum |-> 0, rwnd |-> 0, gaps |-> {}, nr |-> {}, bottle_bw |-> p.window,
   on_queue |-> IF Room(p) = 0 THEN p.window ELSE Occupied(p)]

-------------------------------------------------------------------------------
(* The specification.                                                       *)

NewNet(w) == [flight_size |-> 0, cwnd |-> InitialCwnd, ssthresh |-> w,
           partial_bytes_acked |-> 0, rxt_timer |-> FALSE, window_probe |-> FALSE,
           restarted |-> FALSE, net_ack |-> 0, saw_newack |-> FALSE, highest_newack |-> 0]

Init ==
  /\ \E k \in NetCounts, nodelay \in NoDelay, nr \in NrSack, w \in Windows :
       /\ asoc = [nets |-> [n \in 1 .. k |-> NewNet(w)], sent_queue |-> <<>>, send_queue |-> <<>>,
                  stream |-> <<>>, total_flight |-> 0, total_flight_count |-> 0,
                  sent_queue_retran_cnt |-> 0, peers_rwnd |-> w, last_acked_seq |-> 0,
                  sending_seq |-> 1, advanced_peer_ack_point |-> 0, pr_sctp_cnt |-> 0,
                  saw_sack_with_frags |-> FALSE, saw_sack_with_nr_frags |-> FALSE,
                  fast_retran_loss_recovery |-> FALSE, fast_recovery_tsn |-> 0,
                  num_send_timers_up |-> 0, forward_tsn |-> 0, nodelay |-> nodelay,
                  highest_gap |-> 0, biggest_newly_acked |-> 0, num_out |-> 0, ret |-> 0,
                  fast |-> 0, marked |-> FALSE, limit |-> 0, wire |-> <<>>,
                  msgs |-> 0, prs |-> 0, abandoned |-> {}]
       /\ peer = [cum |-> 0, got |-> {}, unread |-> 0, nr |-> nr, window |-> w,
                  fickle |-> "renege" \in Faults]
  /\ expired = FALSE /\ data = <<>> /\ acks = <<>> /\ events = 0

\* Local variables of the handlers do not outlive them.  A chunk is fresh when it
\* was sent after the timer of its destination was last started.
Settled(s) ==
  [s EXCEPT
     !.sent_queue = [i \in DOMAIN @ |-> [@[i] EXCEPT !.fresh =
                       @ /\ s.sent_queue[i].whoTo # NoNet /\ ~s.nets[s.sent_queue[i].whoTo].restarted]],
     !.nets = [n \in DOMAIN @ |-> [@[n] EXCEPT !.restarted = FALSE, !.net_ack = 0,
                                         !.saw_newack = FALSE, !.highest_newack = 0]],
     !.highest_gap = 0, !.biggest_newly_acked = 0,
     !.num_out = 0, !.ret = 0, !.fast = 0, !.marked = FALSE,
                      !.limit = 0, !.wire = <<>>]

\* A handler turns the association into Op(s) with room for limit packets; an
\* output function that fails is a fault.
Plenty == 2 * MaxTsn + 2
Queued(way, packets) == SubSeq(way \o packets, 1, Least(Len(way) + Len(packets), MaxPackets))
Handler(s, fault, limit) ==
  /\ asoc' = Settled(s) /\ data' = Queued(data, s.wire)
  /\ events' = IF fault \/ limit # Plenty THEN events + 1 ELSE events
Limits == {Plenty} \cup (IF "output" \in Faults /\ events < MaxEvents THEN {0, 1} ELSE {})
Ready(limit) == [asoc EXCEPT !.limit = limit]

Pending == FoldLeft(LAMBDA a, m : a + m.left, 0, asoc.stream)

\* sctp_lower_sosend: a message is put on its stream.
Send(policy, length, limit) ==
  /\ asoc.sending_seq + Pending + length - 1 <= MaxTsn
  /\ length \in (IF policy = "none" THEN Lengths ELSE PrLengths)
  /\ policy # "none" => asoc.prs < MaxPr
  /\ policy = "ttl" => ~expired
  /\ LET m == [msg |-> asoc.msgs + 1, policy |-> policy, left |-> length] IN
     Handler(SendIfAllowed([Ready(limit) EXCEPT !.msgs = @ + 1,
                                                !.prs = @ + (IF policy = "none" THEN 0 ELSE 1),
                                                !.stream = Append(@, m)]), FALSE, limit)
  /\ UNCHANGED <<expired, acks, peer>>

\* sctp_process_control for a SACK or NR-SACK: the express path takes those
\* without blocks when nothing unusual has been seen.
HandleAck(s, ack) ==
  IF ack.bottle_bw # 0 THEN sctp_handle_packet_dropped(s, ack)
  ELSE IF /\ s.pr_sctp_cnt = 0 /\ ack.gaps \cup ack.nr = {} /\ ack.cum >= s.last_acked_seq
          /\ ~s.saw_sack_with_frags /\ ~s.saw_sack_with_nr_frags /\ s.sent_queue # <<>>
  THEN sctp_express_handle_sack(s, ack.cum, ack.rwnd)
  ELSE sctp_handle_sack(s, ack)

\* The k-th packet on the way back arrives, and stays there if it is repeated.
ReceiveAck(k, again, limit) ==
  /\ k \in DOMAIN acks
  /\ k = 1 \/ ("overtake" \in Faults /\ events < MaxEvents)
  /\ again => ("repeat" \in Faults /\ events < MaxEvents)
  /\ LET fault == k # 1 \/ again IN
     /\ fault => limit = Plenty
     /\ Handler(TriggerSend(HandleAck(Ready(limit), acks[k])), fault, limit)
  /\ acks' = IF again THEN acks ELSE RemoveAt(acks, k)
  /\ UNCHANGED <<expired, peer>>

\* The T3 timer of a destination expires: with packets still on their way a fault.
T3(n, old, limit) ==
  LET early == data # <<>> \/ acks # <<>> IN
  /\ n \in Nets(asoc) /\ asoc.nets[n].rxt_timer
  /\ early => "early" \in Faults /\ events < MaxEvents /\ limit = Plenty
  /\ ~early => old
  /\ Handler(SendTimeout(Ready(limit), n, old), early, limit)
  /\ UNCHANGED <<expired, acks, peer>>

\* A packet reaches the peer, or the second one before the first.
Deliver(k) ==
  /\ k \in DOMAIN data
  /\ k = 1 \/ ("overtake" \in Faults /\ events < MaxEvents)
  /\ peer' = Arrived(peer, data[k]) /\ acks' = Queued(acks, <<Sack(peer')>>)
  /\ data' = RemoveAt(data, k) /\ events' = IF k = 1 THEN events ELSE events + 1
  /\ UNCHANGED <<asoc, expired>>

\* The peer's user reads everything delivered; a closed window is reopened.
Read ==
  /\ peer.unread > 0
  /\ peer' = [peer EXCEPT !.unread = 0] /\ acks' = Queued(acks, <<Sack(peer')>>)
  /\ UNCHANGED <<asoc, expired, data, events>>

Fault(kind) == kind \in Faults /\ events < MaxEvents /\ events' = events + 1

Lose ==
  /\ Fault("lose")
  /\ \/ data # <<>> /\ data' = Tail(data) /\ UNCHANGED acks
     \/ acks # <<>> /\ acks' = Tail(acks) /\ UNCHANGED data
  /\ UNCHANGED <<asoc, expired, peer>>

Corrupt ==
  /\ Fault("corrupt") /\ data # <<>>
  /\ acks' = Queued(acks, <<sctp_send_packet_dropped(peer, Head(data))>>) /\ data' = Tail(data)
  /\ UNCHANGED <<asoc, expired, peer>>

Renege ==
  /\ peer.fickle /\ ~peer.nr /\ peer.got # {}
  /\ peer' = [peer EXCEPT !.got = {}, !.fickle = FALSE]
  /\ UNCHANGED <<asoc, expired, data, acks, events>>

Expire ==
  /\ "ttl" \in Policies /\ ~expired /\ expired' = TRUE
  /\ UNCHANGED <<asoc, data, acks, peer, events>>

Next ==
  \/ \E p \in Policies, l \in 1 .. 3, limit \in Limits : Send(p, l, limit)
  \/ \E k \in {1, 2}, again \in BOOLEAN, limit \in Limits : ReceiveAck(k, again, limit)
  \/ \E n \in 1 .. 2, old \in BOOLEAN, limit \in Limits : T3(n, old, limit)
  \/ \E k \in {1, 2} : Deliver(k)
  \/ Read \/ Lose \/ Corrupt \/ Renege \/ Expire

Spec == Init /\ [][Next]_vars

\* Timers expire, packets that are not lost arrive and the peer's user reads: weak
\* fairness, with what enables each step spelt out.
T3Pending     == data = <<>> /\ acks = <<>> /\ \E n \in Nets(asoc) : asoc.nets[n].rxt_timer
T3Expires     == \E n \in 1 .. 2 : T3(n, TRUE, Plenty)
AckPending    == acks # <<>>
FairSpec ==
  /\ Spec
  /\ []<>~T3Pending \/ []<><<T3Expires>>_vars
  /\ []<>~AckPending \/ []<><<ReceiveAck(1, FALSE, Plenty)>>_vars
  /\ WF_vars(Deliver(1)) /\ WF_vars(Read)

-------------------------------------------------------------------------------
(* Properties.                                                              *)

\* Types: only chunks that were handed to the network are on the sent queue.
TypeOK ==
  /\ asoc.total_flight \in 0 .. Size * MaxTsn /\ asoc.sent_queue_retran_cnt \in 0 .. MaxTsn
  /\ asoc.sending_seq \in 1 .. MaxTsn + 1 /\ asoc.peers_rwnd \in Nat
  /\ \A n \in Nets(asoc) : asoc.nets[n].cwnd \in Nat /\ asoc.nets[n].rxt_timer \in BOOLEAN
  /\ \A i \in DOMAIN asoc.sent_queue : asoc.sent_queue[i].sent \in SENT .. NRACKED
  /\ expired \in BOOLEAN /\ events \in 0 .. MaxEvents

Flying(n) == {i \in DOMAIN asoc.sent_queue :
                InFlight(asoc.sent_queue[i]) /\ asoc.sent_queue[i].whoTo = n}

\* The flight size of each path and of the association, which every branch of
\* sctp_handle_sack, sctp_mark_all_for_resend, sctp_chunk_retransmission and
\* sctp_release_pr_sctp_chunk adjusts on its own, equals the chunks of the sent
\* queue that are in flight.
FlightAccounts ==
  /\ \A n \in Nets(asoc) : asoc.nets[n].flight_size = Size * Cardinality(Flying(n))
  /\ asoc.total_flight_count = Cardinality({i \in DOMAIN asoc.sent_queue : InFlight(asoc.sent_queue[i])})
  /\ asoc.total_flight = Size * asoc.total_flight_count

\* The sender still holds the data of t.
HasData(t) ==
  \/ \E i \in DOMAIN asoc.send_queue : asoc.send_queue[i].tsn = t
  \/ \E i \in DOMAIN asoc.sent_queue : asoc.sent_queue[i].tsn = t /\ asoc.sent_queue[i].data

\* sctp_handle_sack and sctp_express_handle_sack free the data of a chunk only when
\* the peer cannot ask for it again: it is below the peer's cumulative TSN, the
\* peer holds it and promised not to renege, or the sender gave it up.
NothingLost ==
  \A t \in 1 .. asoc.sending_seq - 1 :
    \/ t <= peer.cum \/ t \in asoc.abandoned \/ (peer.nr /\ t \in peer.got) \/ HasData(t)

\* The point the FORWARD-TSN of send_forward_tsn moves the peer to passes only
\* chunks that were given up or are at the peer for good, whatever old SACKs,
\* revocations and timeouts came between; only partially reliable chunks are
\* ever given up.
AdvanceSafe ==
  /\ \A t \in 1 .. asoc.advanced_peer_ack_point :
       t <= peer.cum \/ t \in asoc.abandoned \/ (peer.nr /\ t \in peer.got)
  /\ \A i \in DOMAIN asoc.sent_queue :
       asoc.sent_queue[i].sent = SKIP => Prsctp(asoc.sent_queue[i])

\* As long as a chunk is neither acknowledged nor given up some path's
\* retransmission timer runs, after every handler and also when its output failed.
Watched ==
  (\E i \in DOMAIN asoc.sent_queue : asoc.sent_queue[i].sent < ACKED)
     => \E n \in Nets(asoc) : asoc.nets[n].rxt_timer

Drained == asoc.stream = <<>> /\ asoc.send_queue = <<>> /\ asoc.sent_queue = <<>>

\* Once the bounded losses, failures and reorderings are over, all queued data is
\* sent and acknowledged or given up: no closed window, window probe, lost SACK
\* or timeout leaves the sender waiting for good.
Drains == []<>Drained

\* The sender forgets and skips only what the peer cannot need any more.
KeepsWhatIsNeeded == TypeOK /\ NothingLost /\ AdvanceSafe

\* Data that is under way is watched by a timer, and all of it gets through.
NeverStuck == []Watched /\ Drains
===============================================================================
