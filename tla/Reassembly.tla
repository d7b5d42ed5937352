------------------------------ MODULE Reassembly ------------------------------
(***************************************************************************)
(* The receiver of user messages in usrsctp (sctp_indata.c): DATA and      *)
(* I-DATA chunks arrive in any order and more than once, are recorded in   *)
(* the bitmaps of MappingArray, wait in the queues of their stream, are    *)
(* reassembled, and reach the application through the receive callback,    *)
(* the way net_sctp4nat_Sctp.c uses the library.  FORWARD-TSN chunks skip  *)
(* messages the sender has given up, and an outgoing stream reset of the   *)
(* sender holds back what follows it.                                      *)
(*                                                                         *)
(* The sender is the one of this library: it numbers the fragments of its  *)
(* messages and sends them (wire); the network may deliver any of them at  *)
(* any time.  A handler is an operator from a receiver state s to the next *)
(* one.  Every fragment has one unit of data, so the length of a message   *)
(* is the number of its fragments, and its data the sequence of their TSNs.*)
(***************************************************************************)
EXTENDS MappingArray, Sequences, SequencesExt

CONSTANTS
  Streams,        \* stream identifiers
  MaxMsg, MaxTsn, \* messages and TSNs of a behaviour
  Idata,          \* values of idata_supported
  Features,       \* of {"none", "forward", "reset"}: what the peer uses besides data
  RcvLimit,       \* SCTP_SB_LIMIT_RCV of the socket
  PdConfigured,   \* partial_delivery_point of the endpoint
  Msize,          \* MSIZE, the overhead charged for an mbuf
  MaxChunks,      \* sctp_max_chunks_on_queue
  SackFreq,       \* sack_freq
  MaxBundle       \* DATA chunks of one packet

VARIABLES s, wire, idata, feature, reset, skipped, sack
vars == <<s, wire, idata, feature, reset, skipped, sack>>

PdPoint == Min({RcvLimit \div 2, PdConfigured})
NoneSeen == -1          \* 0xffffffff in fsn_included, top_fsn and last_mid_delivered
-------------------------------------------------------------------------------
(* What the sender puts on the wire.  sched says to which message each TSN      *)
(* belongs: fragments of one message are in order, a stream sends its messages *)
(* one after the other, and DATA does not interleave messages at all.           *)

Scheds(n, data) ==
  {f \in [1..n -> 1..MaxMsg] :
     /\ \A t \in 1..n : f[t] <= Max({0} \cup {f[u] : u \in 1..(t - 1)}) + 1
     /\ data => \A t \in 1..(n - 1) : f[t] <= f[t + 1]}

(* sctp_move_to_outqueue numbers the messages of a stream; a reset of the stream *)
(* (at a TSN r, 0 for none) starts again from 0.                                  *)
MessageId(f, kind, r, m, data) ==
  IF data /\ kind[m].uno THEN 0
  ELSE Cardinality({k \in 1..(m - 1) :
         /\ kind[k] = kind[m]
         /\ ~(r.sid = kind[m].sid /\ \E t \in 1..r.at : f[t] = k
                                  /\ \A u \in DOMAIN f : f[u] = m => u > r.at)})
Chunk(f, kind, r, t, data) ==
  LET m == f[t]  frags == {u \in DOMAIN f : f[u] = m} IN
  [tsn |-> t, msg |-> m, sid |-> kind[m].sid, uno |-> kind[m].uno,
   mid |-> MessageId(f, kind, r, m, data),
   fsn |-> IF data THEN t ELSE Cardinality({u \in frags : u < t}),
   first |-> t = Min(frags), last |-> t = Max(frags), data |-> <<t>>]

NoReset == [at |-> 0, sid |-> CHOOSE sid \in Streams : TRUE, state |-> "done"]
Resets(n) == IF feature # "reset" THEN {NoReset}
             ELSE [at : 1..n, sid : Streams, state : {"unsent"}]
Frag(t)  == wire[t]
Whole(m) == SelectSeq(wire, LAMBDA c : c.msg = m)
Sent     == {c.msg : c \in Range(wire)}
NotFragmented(c) == c.first /\ c.last
-------------------------------------------------------------------------------
(* Controls (struct sctp_queued_to_read), and the queues they are on.             *)

sctp_build_readq_entry(c) ==
  [sid |-> c.sid, mid |-> c.mid, uno |-> c.uno, nf |-> NotFragmented(c), tsn |-> c.tsn,
   inc |-> NoneSeen, top |-> NoneSeen, data |-> <<>>, len |-> 0, reasm |-> <<>>,
   ffs |-> FALSE, lfs |-> FALSE, end |-> FALSE, pdapi |-> FALSE, onstrm |-> FALSE,
   onread |-> FALSE]

MinusFloor(a, b) == IF a > b THEN a - b ELSE 0
NewId(r) == Min((0..(2 * MaxTsn)) \ DOMAIN r.ctl)
WithControl(r, id, c) == [r EXCEPT !.ctl = [i \in DOMAIN @ \cup {id} |->
                                               IF i = id THEN c ELSE @[i]]]
Set(r, id, c)         == [r EXCEPT !.ctl[id] = c]
Free(r, id)           == [r EXCEPT !.ctl = [i \in DOMAIN @ \ {id} |-> @[i]]]
Unqueue(r, id)        ==
  LET c == r.ctl[id] IN
  IF c.uno THEN [r EXCEPT !.uno[c.sid] = Remove(@, id), !.ctl[id].onstrm = FALSE]
           ELSE [r EXCEPT !.inq[c.sid] = Remove(@, id), !.ctl[id].onstrm = FALSE]

(* size_on_all_streams and its counter are never taken below zero.                *)
TakeOffStreams(r, len) ==
  [r EXCEPT !.sos = MinusFloor(@, len), !.cos = MinusFloor(@, 1)]
UnqueueUncounted(r, id) == Unqueue(r, id)
UnqueueOrdered(r, id)  == TakeOffStreams(Unqueue(r, id), r.ctl[id].len)

(* sctp_calc_rwnd and sctp_set_rwnd. *)
sctp_calc_rwnd(r) ==
  IF r.sb = 0 /\ r.sor = 0 /\ r.sos = 0 THEN RcvLimit
  ELSE LET space == MinusFloor(MinusFloor(RcvLimit - r.sb, r.sor + r.cor * Msize),
                               r.sos + r.cos * Msize)
           calc  == MinusFloor(space, r.sb * Msize) IN
       IF space = 0 THEN 0 ELSE IF calc < r.sb * Msize THEN 1 ELSE calc
sctp_set_rwnd(r) == [r EXCEPT !.rwnd = sctp_calc_rwnd(r)]

(* The application is given what a control holds once the message is complete or *)
(* there is enough of it for a partial delivery; a complete one is then freed.    *)
sctp_invoke_recv_callback(r, id) ==
  LET c == r.ctl[id]
      handed == [r EXCEPT
                   !.out[c.sid] = Append(@, [mid |-> c.mid, uno |-> c.uno, data |-> c.data,
                                             eor |-> c.end]),
                   !.sb = @ - Len(c.data),
                   !.ctl[id].data = <<>>, !.ctl[id].len = 0] IN
  IF ~c.end /\ c.len < PdPoint THEN r
  ELSE IF c.end THEN Free([handed EXCEPT !.readq = Remove(@, id)], id)
  ELSE handed

sctp_add_to_readq(r, id, end) ==
  LET c == r.ctl[id] IN
  IF c.data = <<>> THEN Free(r, id)
  ELSE sctp_invoke_recv_callback(
         [r EXCEPT !.sb = @ + Len(c.data), !.readq = Append(@, id),
                   !.ctl[id].len = Len(c.data), !.ctl[id].onread = TRUE,
                   !.ctl[id].end = @ \/ end], id)

(* sctp_place_control_in_stream: the control's place is after the smaller message *)
(* identifiers; -1, here FALSE, when its own is taken.                             *)
Insert(q, x, before(_)) ==
  LET n == Cardinality({i \in 1..Len(q) : before(q[i])}) IN
  SubSeq(q, 1, n) \o <<x>> \o SubSeq(q, n + 1, Len(q))
CanPlace(r, id) ==
  LET c == r.ctl[id] IN
  IF c.uno THEN IF idata THEN \A i \in Range(r.uno[c.sid]) : r.ctl[i].mid # c.mid
                         ELSE r.uno[c.sid] = <<>>
  ELSE \A i \in Range(r.inq[c.sid]) : r.ctl[i].mid # c.mid
sctp_place_control_in_stream(r, id) ==
  LET c == r.ctl[id]
      before(i) == r.ctl[i].mid < c.mid
      placed == [c EXCEPT !.onstrm = TRUE, !.end = @ \/ c.nf, !.ffs = @ \/ c.nf,
                          !.lfs = @ \/ c.nf] IN
  IF c.uno /\ ~idata
  THEN [Set(r, id, [c EXCEPT !.onstrm = TRUE]) EXCEPT !.uno[c.sid] = <<id>>]
  ELSE IF c.uno THEN [Set(r, id, placed) EXCEPT !.uno[c.sid] = Insert(@, id, before)]
  ELSE [Set(r, id, placed) EXCEPT !.inq[c.sid] = Insert(@, id, before)]

sctp_abort_in_reasm(r) == [r EXCEPT !.abort = TRUE]
-------------------------------------------------------------------------------
(* Merging a fragment that follows what a control already has.                    *)

PartialGoesOn(r, id) == r
EndPartial(r, id) ==
  LET c == r.ctl[id] IN
  [r EXCEPT !.ctl[id].pdapi = FALSE, !.strm[c.sid].pd = @ /\ ~c.pdapi]

Added(r, id, k) == IF r.ctl[id].data = <<>> THEN 0 ELSE Len(k.data)

sctp_add_chk_to_control(r, id, k) ==
  LET c   == r.ctl[id]
      r1  == sctp_mark_non_revokable(
               [r EXCEPT !.ctl[id].data = @ \o k.data, !.ctl[id].len = @ + Len(k.data),
                         !.ctl[id].inc = k.fsn,
                         !.ctl[id].ffs = @ \/ k.first,
                         !.ctl[id].tsn = IF k.first THEN k.tsn ELSE @,
                         !.sb  = IF c.onread THEN @ + Len(k.data) ELSE @,
                         !.sor = @ - Len(k.data), !.cor = @ - 1], k.tsn)
      ended == [r1 EXCEPT !.ctl[id].end = TRUE, !.ctl[id].lfs = TRUE] IN
  IF ~k.last THEN r1
  ELSE IF ~(c.onstrm /\ c.onread) THEN ended
  ELSE IF c.uno THEN Unqueue(EndPartial(ended, id), id)
  ELSE UnqueueOrdered(EndPartial(ended, id), id)

(* A fragment takes its place among those that wait (FALSE: the place is taken).  *)
FreePlace(c, k)    == \A i \in 1..Len(c.reasm) : c.reasm[i].fsn # k.fsn
InsertChunk(r, id, k) ==
  LET before(x) == x.fsn < k.fsn IN
  [r EXCEPT !.ctl[id].reasm = Insert(@, k, before), !.sor = @ + Len(k.data), !.cor = @ + 1]
PopChunk(r, id) == [r EXCEPT !.ctl[id].reasm = Tail(@)]
NextOfAny(c)    == c.reasm # <<>>
NextFits(c)     == c.reasm # <<>> /\ c.reasm[1].fsn = c.inc + 1

(* Unordered messages of old DATA share one control per stream.  A first fragment  *)
(* earlier than the one the control has takes its place.                           *)
SwapFirst(r, id, k) ==
  LET c == r.ctl[id] IN
  [r |-> [r EXCEPT !.ctl[id].data = k.data, !.ctl[id].len = Len(k.data),
                   !.ctl[id].inc = k.fsn, !.ctl[id].tsn = k.tsn],
   k |-> [k EXCEPT !.data = c.data, !.fsn = c.inc, !.tsn = c.tsn]]
PlaceOld(r, id, k) ==
  IF ~FreePlace(r.ctl[id], k) THEN sctp_abort_in_reasm(r)
  ELSE LET top == r.ctl[id].reasm = <<>> \/ Last(r.ctl[id].reasm).fsn < k.fsn IN
       [InsertChunk(r, id, k) EXCEPT !.ctl[id].top = IF top THEN k.fsn ELSE @]
sctp_inject_old_unordered_data(r, id, k) ==
  LET c == r.ctl[id] IN
  IF ~k.first THEN PlaceOld(r, id, k)
  ELSE IF ~c.ffs
  THEN sctp_mark_non_revokable(
         [r EXCEPT !.ctl[id] = [c EXCEPT !.ffs = TRUE, !.inc = k.fsn, !.top = k.fsn,
                                         !.tsn = k.tsn, !.data = k.data,
                                         !.len = Len(k.data)]], k.tsn)
  ELSE IF k.fsn > c.inc THEN PlaceOld(r, id, k)
  ELSE IF k.fsn = c.inc \/ c.pdapi THEN sctp_abort_in_reasm(r)
  ELSE LET w == SwapFirst(r, id, k) IN PlaceOld(w.r, id, w.k)

(* The fragments that follow are merged; when the message is complete it leaves the *)
(* control, and what is left over goes on in a control of its own.                  *)
SplitForgets(r, id) ==
  LET c == r.ctl[id]  nid == NewId(r)
      blank == [c EXCEPT !.reasm = <<>>, !.data = <<>>, !.len = 0, !.ffs = FALSE, !.end = FALSE] IN
  [id |-> nid,
   r  |-> WithControl([r EXCEPT !.ctl[id].reasm = <<>>, !.ctl[id].onstrm = FALSE,
                                !.uno[c.sid] = Append(Remove(@, id), nid)], nid, blank)]
SplitOld(r, id) ==
  LET c     == r.ctl[id]
      nid   == NewId(r)
      k     == c.reasm[1]
      blank == [sctp_build_readq_entry([k EXCEPT !.sid = c.sid, !.mid = c.mid]) EXCEPT
                  !.uno = TRUE, !.nf = c.nf, !.tsn = c.tsn, !.top = c.top, !.onstrm = TRUE]
      nc    == IF ~k.first THEN [blank EXCEPT !.reasm = c.reasm]
               ELSE [blank EXCEPT !.reasm = Tail(c.reasm), !.ffs = TRUE, !.inc = k.fsn,
                                  !.data = k.data, !.len = Len(k.data), !.tsn = k.tsn]
      r1    == WithControl([r EXCEPT !.ctl[id].reasm = <<>>,
                                     !.uno[c.sid] = Append(Remove(@, id), nid),
                                     !.ctl[id].onstrm = FALSE], nid, nc)
      r2    == sctp_mark_non_revokable([r1 EXCEPT !.sor = @ - Len(k.data), !.cor = @ - 1], k.tsn)
  IN  [id |-> nid, r |-> IF k.first THEN r2 ELSE r1]
HandUp(r, id) == IF r.ctl[id].onread THEN sctp_invoke_recv_callback(r, id)
                 ELSE sctp_add_to_readq(r, id, r.ctl[id].end)

Rest(r, id) == IF r.ctl[id].reasm # <<>> THEN SplitOld(r, id) ELSE [id |-> id, r |-> r]
Unqueued(r, id) == IF r.ctl[id].onstrm THEN Unqueue(r, id) ELSE r
HandUpOld(w, id) == [w EXCEPT !.r = HandUp(Unqueued(EndPartial(@, id), id), id)]

RECURSIVE sctp_handle_old_unordered_data(_, _)
RECURSIVE GoOnOld(_, _)
GoOnOld(w, id) ==
  IF w.id # id /\ w.r.ctl[w.id].ffs /\ w.r.ctl[w.id].reasm # <<>>
  THEN sctp_handle_old_unordered_data(w.r, w.id)
  ELSE [r |-> w.r, done |-> TRUE]
RECURSIVE MergedOld(_, _)
MergedOld(r, id) ==
  IF ~r.ctl[id].end THEN sctp_handle_old_unordered_data(r, id)
  ELSE GoOnOld(HandUpOld(Rest(r, id), id), id)
sctp_handle_old_unordered_data(r, id) ==
  LET c == r.ctl[id] IN
  IF c.ffs /\ NextFits(c)
  THEN MergedOld(sctp_add_chk_to_control(PopChunk(r, id), id, c.reasm[1]), id)
  ELSE IF c.ffs /\ c.len > PdPoint /\ ~r.strm[c.sid].pd
  THEN [r |-> sctp_add_to_readq([r EXCEPT !.strm[c.sid].pd = TRUE, !.ctl[id].pdapi = TRUE],
                                id, c.end),
        done |-> FALSE]
  ELSE [r |-> r, done |-> TRUE]
-------------------------------------------------------------------------------
(* sctp_deliver_reasm_check: what can be handed up on a stream, unordered first.   *)

RECURSIVE DeliverUnordered(_, _)
DeliverUnordered(r, q) ==
  IF q = <<>> THEN r
  ELSE LET id == q[1]  c == r.ctl[id]
           r1 == IF c.onstrm THEN Unqueue(r, id) ELSE r IN
       IF c.end
       THEN DeliverUnordered(IF c.onread THEN r1 ELSE sctp_add_to_readq(r1, id, TRUE), Tail(q))
       ELSE IF c.len >= PdPoint /\ ~r.strm[c.sid].pd
       THEN sctp_add_to_readq([r EXCEPT !.strm[c.sid].pd = TRUE, !.ctl[id].pdapi = TRUE],
                              id, FALSE)
       ELSE DeliverUnordered(r, Tail(q))

(* The head of the queue was being partially delivered and is now complete.         *)
FinishHead(r, sid) ==
  IF r.inq[sid] = <<>> THEN r
  ELSE LET id == r.inq[sid][1]  c == r.ctl[id]
           r1 == UnqueueOrdered(r, id)
           both == r.strm[sid].pd /\ c.pdapi
           r2 == [r1 EXCEPT !.strm[sid].pd = @ /\ ~both, !.ctl[id].pdapi = @ /\ ~both] IN
       IF c.mid # r.strm[sid].last \/ ~c.end THEN r
       ELSE IF c.onread THEN r2
       ELSE sctp_add_to_readq(r2, id, TRUE)

RECURSIVE DeliverMore(_, _, _)
DeliverMore(r, sid, n) ==
  LET id   == r.inq[sid][1]
      c    == r.ctl[id]
      next == r.strm[sid].last + 1
      r1   == IF c.end THEN UnqueueOrdered(r, id) ELSE r
      r2   == IF c.nf THEN sctp_mark_non_revokable(r1, c.tsn) ELSE r1
      r3   == [IF c.onread THEN r2 ELSE sctp_add_to_readq(r2, id, c.end)
                 EXCEPT !.strm[sid].last = next] IN
  IF r.inq[sid] = <<>> \/ c.mid # next \/ ~c.ffs THEN [r |-> r, n |-> n]
  ELSE IF ~c.nf /\ ~c.end /\ (c.len < PdPoint \/ r.strm[sid].pd) THEN [r |-> r, n |-> n]
  ELSE IF c.end /\ c.lfs THEN DeliverMore(r3, sid, n + 1)
  ELSE [r |-> [r3 EXCEPT !.strm[sid].pd = TRUE, !.ctl[id].pdapi = TRUE],
        n |-> IF c.end THEN n + 1 ELSE n]

DeliverOrdered(r, sid) ==
  IF r.inq[sid] = <<>> \/ r.strm[sid].pd THEN [r |-> r, n |-> 0] ELSE DeliverMore(r, sid, 0)
AfterUnordered(r, sid) ==
  IF r.strm[sid].pd THEN [r |-> r, n |-> 0] ELSE DeliverOrdered(FinishHead(r, sid), sid)
AfterOld(r, old, sid) ==
  AfterUnordered(IF old.done \/ old.r.strm[sid].pd THEN old.r
                 ELSE DeliverUnordered(r, r.uno[sid]), sid)
sctp_deliver_reasm_check(r, sid) ==
  LET q == r.uno[sid] IN
  AfterOld(r, IF ~idata /\ q # <<>> THEN sctp_handle_old_unordered_data(r, q[1])
              ELSE [r |-> r, done |-> q = <<>>], sid)
-------------------------------------------------------------------------------
(* Queueing what arrived: a whole message in its stream, a fragment in its control. *)

RECURSIVE DeliverFollowing(_, _)
DeliverFollowing(r, sid) ==
  LET id == r.inq[sid][1]  c == r.ctl[id]
      up == [UnqueueOrdered(r, id) EXCEPT !.strm[sid].last = @ + 1] IN
  IF r.inq[sid] = <<>> \/ c.mid # r.strm[sid].last + 1 THEN [r |-> r, reasm |-> FALSE]
  ELSE IF c.nf
  THEN DeliverFollowing(sctp_add_to_readq(sctp_mark_non_revokable(up, c.tsn), id, TRUE), sid)
  ELSE [r |-> r, reasm |-> TRUE]

sctp_queue_data_to_stream(r, id) ==
  LET c   == r.ctl[id]
      now == [r EXCEPT !.strm[c.sid].last = @ + 1]
      inq == [r EXCEPT !.sos = @ + c.len, !.cos = @ + 1] IN
  IF r.strm[c.sid].last > c.mid THEN [r |-> sctp_abort_in_reasm(r), reasm |-> FALSE]
  ELSE IF c.mid = r.strm[c.sid].last + 1
  THEN DeliverFollowing(sctp_add_to_readq(sctp_mark_non_revokable(now, c.tsn), id, TRUE), c.sid)
  ELSE IF CanPlace(inq, id) THEN [r |-> sctp_place_control_in_stream(inq, id), reasm |-> FALSE]
  ELSE [r |-> sctp_abort_in_reasm(inq), reasm |-> FALSE]

(* The checks of a fragment that is not the first one of its message.              *)
BadFragment(c, k) ==
  \/ (idata \/ c.ffs) /\ c.inc >= k.fsn
  \/ c.lfs /\ (k.last \/ k.fsn > c.top)
  \/ ~FreePlace(c, k)

RECURSIVE MergeFollowing(_, _)
MergeFollowing(r, id) ==
  LET c  == r.ctl[id]  k == c.reasm[1]
      r1 == sctp_add_chk_to_control(PopChunk(r, id), id, k)
      r2 == [r1 EXCEPT !.sos = @ + Added(r, id, k)] IN
  IF ~c.ffs \/ ~NextFits(c) THEN [r |-> r, wake |-> FALSE]
  ELSE LET rest == MergeFollowing(r2, id) IN
       [r |-> rest.r, wake |-> rest.wake \/ c.onread]

WakeNobody(w, id) == w.r
Wake(w, id) == IF w.wake THEN sctp_invoke_recv_callback(w.r, id) ELSE w.r
FirstFragment(r, id, k) ==
  sctp_mark_non_revokable(
    [r EXCEPT !.ctl[id].ffs = TRUE, !.ctl[id].tsn = k.tsn, !.ctl[id].inc = k.fsn,
              !.ctl[id].data = k.data, !.ctl[id].len = Len(k.data),
              !.sos = @ + Len(k.data)], k.tsn)
LaterFragment(r, id, k) ==
  LET c == r.ctl[id] IN
  InsertChunk([r EXCEPT !.ctl[id].top = IF c.lfs THEN @ ELSE Larger(@, k.fsn),
                        !.ctl[id].lfs = @ \/ k.last], id, k)

sctp_queue_data_for_reasm(r0, id, k, created) ==
  LET c0 == r0.ctl[id]
      r  == IF ~created THEN r0
            ELSE sctp_place_control_in_stream([r0 EXCEPT !.cos = IF c0.uno THEN @ ELSE @ + 1], id)
      c  == r.ctl[id] IN
  IF \/ created /\ ~CanPlace(r0, id)
     \/ created /\ k.tsn = r0.cum + 1 /\ ~idata /\ ~k.first
  THEN sctp_abort_in_reasm(r0)
  ELSE IF ~idata /\ c.uno THEN sctp_inject_old_unordered_data(r, id, k)
  ELSE IF k.first
  THEN IF c.ffs THEN sctp_abort_in_reasm(r)
       ELSE Wake(MergeFollowing(FirstFragment(r, id, k), id), id)
  ELSE IF BadFragment(c, k) THEN sctp_abort_in_reasm(r)
  ELSE Wake(MergeFollowing(LaterFragment(r, id, k), id), id)

(* sctp_find_reasm_entry: the control a fragment belongs to, if there is one.      *)
FindHead(r, sid, mid, uno) ==
  LET q == IF uno THEN r.uno[sid] ELSE r.inq[sid] IN {q[i] : i \in {1} \cap DOMAIN q}
sctp_find_reasm_entry(r, sid, mid, uno) ==
  IF uno /\ ~idata THEN {r.uno[sid][i] : i \in {1} \cap DOMAIN r.uno[sid]}
  ELSE {i \in Range(IF uno THEN r.uno[sid] ELSE r.inq[sid]) : r.ctl[i].mid = mid}
-------------------------------------------------------------------------------
(* sctp_process_a_data_chunk, in the order of its checks.                           *)

Duplicate(r) == [r EXCEPT !.dup = TRUE, !.ssack = TRUE]

Inconsistent(r, k, found) ==
  \E i \in found : IF ~NotFragmented(k) THEN FALSE
                   ELSE \/ ~k.uno \/ idata
                        \/ k.tsn = r.ctl[i].inc + 1 /\ ~r.ctl[i].end

NoRoom(r) == r.cos + r.cor >= MaxChunks \/ r.rwnd <= 0
DumpedAlways(r, k, found) == NoRoom(r)
Dumped(r, k, found) ==
  /\ NoRoom(r)
  /\ IF ~idata THEN k.tsn > Highest(r)
     ELSE \A i \in found : k.fsn > r.ctl[i].top

AlreadyDelivered(r, k) ==
  k.first /\ r.resets = <<>> /\ ~k.uno /\ r.strm[k.sid].last >= k.mid

CreateControl(r, id, k) ==
  WithControl(r, id,
    IF ~NotFragmented(k) THEN sctp_build_readq_entry(k)
    ELSE [sctp_build_readq_entry(k) EXCEPT
            !.data = k.data, !.len = Len(k.data), !.end = TRUE, !.lfs = TRUE, !.ffs = TRUE,
            !.inc = k.fsn, !.top = k.fsn])

ExpressAlways(r, k) ==
  NotFragmented(k) /\ r.resets = <<>> /\ (k.uno \/ k.mid > r.strm[k.sid].last)
Express(r, k) ==
  /\ NotFragmented(k) /\ r.resets = <<>>
  /\ k.uno \/ (k.mid = r.strm[k.sid].last + 1 /\ r.inq[k.sid] = <<>>)
ExpressDelivery(r, id, k) ==
  LET up == sctp_add_to_readq(SetNonRevokable(r, k.tsn), id, TRUE) IN
  IF k.uno THEN up ELSE [up EXCEPT !.strm[k.sid].last = @ + 1]

(* While a stream reset waits for its TSN, whole messages after that TSN wait too.  *)
HeldBack(r, k) == NotFragmented(k) /\ r.resets # <<>> /\ k.tsn > r.resets[1].tsn
HoldBack(r, id) ==
  LET before(i) == r.ctl[i].tsn < r.ctl[id].tsn IN
  [r EXCEPT !.pend = Insert(@, id, before)]

AdvanceCum(r, t) == IF t = r.cum + 1 THEN [r EXCEPT !.cum = t] ELSE r

sctp_reset_in_stream(r, sids) ==
  [r EXCEPT !.strm = [sid \in Streams |-> IF sid \in sids THEN [@[sid] EXCEPT !.last = NoneSeen]
                                          ELSE @[sid]]]

CheckReasm(w, sid) ==
  IF w.reasm /\ ~w.r.abort THEN sctp_deliver_reasm_check(w.r, sid).r ELSE w.r

(* The messages held back are queued when the reset is done, as ordered ones.       *)
RECURSIVE Release(_)
Release(r) ==
  LET id == r.pend[1] IN
  IF r.pend = <<>> \/ r.abort THEN r
  ELSE Release(CheckReasm(sctp_queue_data_to_stream([r EXCEPT !.pend = Tail(@)], id),
                          r.ctl[id].sid))
DeferredReset(r) ==
  IF r.resets = <<>> \/ r.cum < r.resets[1].tsn THEN r
  ELSE Release([sctp_reset_in_stream(r, {r.resets[1].sid}) EXCEPT !.resets = Tail(@)])

Queue(r, id, k, created) ==
  LET m == SetRevokable(r, k.tsn) IN
  IF HeldBack(r, k) THEN [r |-> HoldBack(m, id), reasm |-> FALSE]
  ELSE IF ~NotFragmented(k)
  THEN [r |-> sctp_queue_data_for_reasm(m, id, k, created), reasm |-> TRUE]
  ELSE IF k.uno
  THEN [r |-> sctp_add_to_readq(sctp_mark_non_revokable(m, k.tsn), id, TRUE), reasm |-> FALSE]
  ELSE sctp_queue_data_to_stream(m, id)

Placed(r, id, k, created) ==
  IF Express(r, k) THEN [r |-> ExpressDelivery(r, id, k), reasm |-> FALSE]
  ELSE Queue(r, id, k, created)
Advanced(w, k) ==
  IF w.r.abort THEN w.r ELSE DeferredReset(CheckReasm([w EXCEPT !.r = AdvanceCum(@, k.tsn)], k.sid))
Deliver(r, k, found) ==
  LET created == found = {}
      id      == IF created THEN NewId(r) ELSE CHOOSE i \in found : TRUE IN
  Advanced(Placed(IF created THEN CreateControl(r, id, k) ELSE r, id, k, created), k)

RoomInMap(r, k) == IF Gap(r, k.tsn) >= r.size * Octet
                   THEN sctp_expand_mapping_array(r, Gap(r, k.tsn)) ELSE r

sctp_process_a_data_chunk(r, k) ==
  LET found == sctp_find_reasm_entry(r, k.sid, k.mid, k.uno)
      own   == IF NotFragmented(k) THEN {} ELSE found
      r1    == RoomInMap(r, k) IN
  IF r.cum >= k.tsn THEN Duplicate(r)
  ELSE IF Gap(r, k.tsn) >= ArrayMax * Octet THEN r
  ELSE IF Present(r, k.tsn) THEN Duplicate(r1)
  ELSE IF Inconsistent(r, k, found) THEN sctp_abort_in_reasm(r1)
  ELSE IF Dumped(r, k, own) THEN [sctp_set_rwnd(r1) EXCEPT !.break = TRUE]
  ELSE IF AlreadyDelivered(r, k) THEN sctp_abort_in_reasm(r1)
  ELSE Deliver(r1, k, own)
-------------------------------------------------------------------------------
(* sctp_process_data and sctp_sack_check: the chunks of a packet, then the decision *)
(* to acknowledge at once or to start the delayed-acknowledgement timer.            *)

RECURSIVE ProcessChunks(_, _)
ProcessChunks(r, ks) ==
  IF ks = <<>> \/ r.abort \/ r.break THEN r
  ELSE ProcessChunks(sctp_process_a_data_chunk(r, ks[1]), Tail(ks))

SackOf(r) == [cum |-> r.cum, gaps |-> GapBlocks(r), rwnd |-> r.rwnd]
sctp_send_sack(r) ==
  [sctp_set_rwnd(sctp_slide_mapping_arrays(r)) EXCEPT !.pkts = 0, !.dup = FALSE, !.ssack = FALSE]

(* The state after sctp_sack_check; a SACK has left when its timer is not running.  *)
sctp_sack_check(r0, wasGap) ==
  LET r    == sctp_slide_mapping_arrays(r0)
      isGap == Highest(r) > r.cum IN
  IF r.ssack \/ (wasGap /\ ~isGap) \/ r.dup \/ isGap \/ r.pkts >= SackFreq
  THEN [sctp_send_sack(r) EXCEPT !.dack = FALSE]
  ELSE [r EXCEPT !.dack = TRUE]

sctp_process_data(r, ks) ==
  ProcessChunks([sctp_set_rwnd(r) EXCEPT !.pkts = @ + 1, !.break = FALSE], ks)
-------------------------------------------------------------------------------
(* FORWARD-TSN: the peer has given up everything up to a TSN.  entries are the      *)
(* <<stream, mid, unordered>> it lists.                                             *)

sctp_reset_a_control(r, id, t) ==
  [r EXCEPT !.ctl[id].inc = t, !.ctl[id].data = <<>>, !.readq = Remove(@, id),
            !.ctl[id].onread = FALSE]

(* Fragments of a skipped message are dropped; an old unordered control may hold    *)
(* fragments of a later message, which it goes on with.                             *)
Skippable(r, id, uno, t) ==
  LET q == r.ctl[id].reasm
      past(i) == uno /\ ~idata /\ q[i].tsn > t IN
  SubSeq(q, 1, Cardinality({i \in 1..Len(q) : \A j \in 1..i : ~past(j)}))
GoOnWithRest(r, id, sid, t) ==
  LET r1 == sctp_reset_a_control(r, id, t)
      k  == r1.ctl[id].reasm[1]
      r2 == IF k.first THEN sctp_add_chk_to_control(PopChunk(r1, id), id, k) ELSE r1 IN
  sctp_deliver_reasm_check(r2, sid).r
DropControl(r, id) ==
  LET c  == r.ctl[id]
      r1 == IF c.uno THEN Unqueue(r, id) ELSE UnqueueOrdered(r, id) IN
  IF c.onread THEN r1 ELSE Free(r1, id)
sctp_flush_reassm_for_str_seq(r, sid, mid, uno, t) ==
  LET found == sctp_find_reasm_entry(r, sid, mid, uno)
      id    == CHOOSE i \in found : TRUE
      c     == r.ctl[id]
      gone  == Skippable(r, id, uno, t)
      lost  == Len(FlattenSeq([i \in 1..Len(gone) |-> gone[i].data]))
      r1    == [r EXCEPT !.ctl[id].reasm = SubSeq(@, Len(gone) + 1, Len(@)),
                         !.sor = @ - lost, !.cor = @ - Len(gone)] IN
  IF found = {} THEN r
  ELSE IF ~idata /\ uno /\ c.inc > t THEN r
  ELSE IF r1.ctl[id].reasm # <<>> THEN GoOnWithRest(r1, id, sid, t)
  ELSE DropControl(r1, id)

(* Partial delivery of a skipped message is aborted: the application is told.       *)
AbortPartial(r, sid, mid) ==
  LET q  == SelectSeq(r.readq, LAMBDA i : r.ctl[i].sid = sid /\ r.ctl[i].mid >= mid)
      id == q[1]
      r1 == [r EXCEPT !.ctl[id].end = TRUE] IN
  IF q = <<>> \/ r.ctl[id].mid # mid THEN r
  ELSE [IF ~r1.ctl[id].onstrm THEN r1 ELSE IF r1.ctl[id].uno THEN Unqueue(r1, id)
        ELSE UnqueueOrdered(r1, id)
          EXCEPT !.out[sid] = Append(@, [mid |-> mid, uno |-> r.ctl[id].uno, data |-> <<>>,
                                         eor |-> TRUE])]

(* sctp_kick_prsctp_reorder_queue: what was queued behind the skipped message.      *)
RECURSIVE KickSkipped(_, _, _)
KickSkipped(r, sid, q) ==
  LET id == q[1]  c == r.ctl[id]
      up == sctp_add_to_readq(sctp_mark_non_revokable(UnqueueOrdered(r, id), c.tsn), id, TRUE) IN
  IF q = <<>> \/ c.mid > r.strm[sid].last THEN [r |-> r, check |-> FALSE]
  ELSE IF c.nf THEN KickSkipped(up, sid, Tail(q))
  ELSE IF c.ffs THEN [r |-> [r EXCEPT !.strm[sid].last = c.mid - 1], check |-> TRUE]
  ELSE KickSkipped(r, sid, Tail(q))
RECURSIVE KickFollowing(_, _, _)
KickFollowing(r, sid, q) ==
  LET id == q[1]  c == r.ctl[id]
      up == [UnqueueOrdered(r, id) EXCEPT !.strm[sid].last = c.mid] IN
  IF q = <<>> \/ c.mid # r.strm[sid].last + 1 THEN [r |-> r, check |-> FALSE]
  ELSE IF c.nf
  THEN KickFollowing(sctp_add_to_readq(sctp_mark_non_revokable(up, c.tsn), id, TRUE),
                     sid, Tail(q))
  ELSE IF c.ffs THEN [r |-> r, check |-> TRUE]
  ELSE KickFollowing(r, sid, Tail(q))
CheckKicked(b, sid) == IF b.check THEN sctp_deliver_reasm_check(b.r, sid).r ELSE b.r

(* What the check has handed up keeps the stream at or after mid.                  *)
KickOn(a, sid, mid) ==
  LET d == sctp_deliver_reasm_check(a.r, sid) IN
  IF a.check THEN [d EXCEPT !.r.strm[sid].last = Larger(@, mid)] ELSE [r |-> a.r, n |-> 1]
KickRest(d, sid) ==
  IF d.n = 0 THEN d.r
  ELSE CheckKicked(KickFollowing(d.r, sid, d.r.inq[sid]), sid)
sctp_kick_prsctp_reorder_queue(r, sid) ==
  KickRest(KickOn(KickSkipped(r, sid, r.inq[sid]), sid, r.strm[sid].last), sid)

RECURSIVE FlushUpTo(_, _, _, _, _, _)
FlushUpTo(r, sid, cur, mid, uno, t) ==
  IF cur > mid THEN r
  ELSE FlushUpTo(sctp_flush_reassm_for_str_seq(r, sid, cur, uno, t), sid, cur + 1, mid, uno, t)
SkipEntry(r, e, t) ==
  LET r1 == AbortPartial(FlushUpTo(r, e.sid, r.strm[e.sid].last, e.mid, e.uno, t), e.sid, e.mid)
  IN  sctp_kick_prsctp_reorder_queue([r1 EXCEPT !.strm[e.sid].last = Larger(@, e.mid)], e.sid)
RECURSIVE SkipEntries(_, _, _)
SkipEntries(r, es, t) ==
  IF es = <<>> THEN r ELSE SkipEntries(SkipEntry(r, es[1], t), Tail(es), t)
FlushUnordered(r, t) ==
  LET one(sid, acc) == sctp_flush_reassm_for_str_seq(acc, sid, 0, TRUE, t) IN
  IF idata THEN r ELSE FoldSet(one, r, Streams)

sctp_handle_forward_tsn(r, t, es) ==
  IF r.cum >= t THEN r
  ELSE IF Gap(r, t) >= r.size * Octet /\ Gap(r, t) > RcvLimit - r.sb
  THEN [r EXCEPT !.cum = t, !.abort = TRUE]
  ELSE sctp_slide_mapping_arrays(SkipEntries(FlushUnordered(ForwardMaps(r, t), t), es, t))
-------------------------------------------------------------------------------
(* The behaviours: any of the chunks sent may arrive at any time, again and again.  *)

Receiver ==
  [cum |-> 0, base |-> 1, size |-> ArraySize, map |-> {}, nr |-> {}, himap |-> 0, hinr |-> 0,
   strm |-> [sid \in Streams |-> [last |-> NoneSeen, pd |-> FALSE]],
   inq |-> [sid \in Streams |-> <<>>], uno |-> [sid \in Streams |-> <<>>],
   ctl |-> [i \in {} |-> 0], readq |-> <<>>, pend |-> <<>>, resets |-> <<>>,
   sos |-> 0, cos |-> 0, sor |-> 0, cor |-> 0, sb |-> 0, rwnd |-> RcvLimit,
   dup |-> FALSE, ssack |-> FALSE, pkts |-> 0, dack |-> FALSE, break |-> FALSE,
   abort |-> FALSE, out |-> [sid \in Streams |-> <<>>]]

Init ==
  /\ s = Receiver
  /\ skipped = {}
  /\ sack = [cum |-> 0, gaps |-> {}, rwnd |-> RcvLimit]
  /\ idata \in Idata
  /\ feature \in {x \in Features : x = "forward" => ~idata}
  /\ reset \in Resets(MaxTsn)
  /\ \E f \in Scheds(MaxTsn, ~idata) :
     \E kind \in [1..Max(Range(f)) -> [sid : Streams, uno : BOOLEAN]] :
       /\ kind[1].sid = Min(Streams)
       /\ feature = "reset" => \A m \in DOMAIN kind : ~kind[m].uno
       /\ \A m, k \in DOMAIN kind : m < k /\ kind[m].sid = kind[k].sid =>
            \A t, u \in DOMAIN f : f[t] = m /\ f[u] = k => t < u
       /\ \A m \in DOMAIN kind : kind[m].sid = reset.sid =>
            \A t, u \in DOMAIN f : f[t] = m /\ f[u] = m => (t <= reset.at <=> u <= reset.at)
       /\ wire = [t \in DOMAIN f |-> Chunk(f, kind, reset, t, ~idata)]

(* Data of a stream being reset is sent only after the reset.                       *)
OnTheWay(t) ==
  reset.sid = wire[t].sid /\ t > reset.at /\ reset.at > 0 =>
    reset.state # "unsent" /\ s.resets = <<>>
Bundles ==
  {b \in UNION {[1..n -> DOMAIN wire] : n \in 1..MaxBundle} :
     /\ \A i \in 1..(Len(b) - 1) : b[i] < b[i + 1]
     /\ \A i \in 1..Len(b) : OnTheWay(b[i])}

Acknowledged(r) ==
  /\ s' = r
  /\ sack' = IF r.abort \/ r.dack THEN sack ELSE SackOf(r)

DataAcked(r) == IF r.abort THEN r ELSE sctp_sack_check(r, Highest(s) > s.cum)
ReceiveData ==
  \E b \in Bundles :
    /\ ~s.abort
    /\ Acknowledged(DataAcked(sctp_process_data(s, [i \in 1..Len(b) |-> Frag(b[i])])))
    /\ UNCHANGED <<wire, idata, feature, reset, skipped>>

ForwardAcked(r) ==
  IF r.abort THEN r ELSE sctp_sack_check([r EXCEPT !.ssack = TRUE], Highest(r) > r.cum)

(* The peer gives up whole messages; its own view of what is acknowledged, known,   *)
(* may be old.                                                                      *)
ForwardTsn ==
  \E known \in 0..s.cum, t \in DOMAIN wire :
    LET msgs == {wire[u].msg : u \in (known + 1)..t}
        es   == SelectSeq([i \in 1..(t - known) |-> wire[known + i]], LAMBDA c : idata \/ ~c.uno) IN
    /\ feature = "forward" /\ ~s.abort /\ t > s.cum
    /\ \A u \in DOMAIN wire : wire[u].msg \in msgs => u <= t
    /\ skipped' = skipped \cup msgs
    /\ Acknowledged(ForwardAcked(sctp_handle_forward_tsn(s, t, es)))
    /\ UNCHANGED <<wire, idata, feature, reset>>

(* sctp_handle_str_reset_request_out; the peer has had all of the stream's data     *)
(* acknowledged.                                                                    *)
ResetRequest ==
  /\ reset.state = "unsent" /\ ~s.abort
  /\ \A t \in 1..reset.at : wire[t].sid = reset.sid => t <= s.cum
  /\ reset' = [reset EXCEPT !.state = "sent"]
  /\ s' = IF s.cum >= reset.at THEN sctp_reset_in_stream(s, {reset.sid})
          ELSE [s EXCEPT !.resets = Append(@, [tsn |-> reset.at, sid |-> reset.sid])]
  /\ UNCHANGED <<wire, idata, feature, skipped, sack>>

DelayedAck ==
  /\ s.dack /\ ~s.abort
  /\ Acknowledged([sctp_send_sack(s) EXCEPT !.dack = FALSE])
  /\ UNCHANGED <<wire, idata, feature, reset, skipped>>

Next == ReceiveData \/ ForwardTsn \/ ResetRequest \/ DelayedAck

Spec == Init /\ [][Next]_vars
-------------------------------------------------------------------------------
Flat(q) == FlattenSeq([i \in 1..Len(q) |-> q[i].data])
Pieces(sid, uno) == SelectSeq(s.out[sid], LAMBDA p : p.uno = uno)
Tsns(sid) == Flat(SelectSeq(wire, LAMBDA c : c.sid = sid /\ ~c.uno))
Handed == UNION {Range(Flat(s.out[sid])) : sid \in Streams}
Held ==
  UNION {Range(s.ctl[i].data) \cup Range(Flat(s.ctl[i].reasm)) : i \in DOMAIN s.ctl}
Skipped == {t \in DOMAIN wire : wire[t].msg \in skipped}

(* What the receiver records is within its bounds, and no TSN is in both bitmaps.   *)
TypeOK ==
  /\ s.cum \in 0..MaxTsn /\ s.base \in 1..(MaxTsn + 1) /\ s.map \cap s.nr = {}
  /\ \A id \in DOMAIN s.ctl : s.ctl[id].sid \in Streams /\ s.ctl[id].len \in 0..MaxTsn

(* A skip (FORWARD-TSN) while the one control of old unordered fragments holds       *)
(* pieces of several messages confuses the two; the README describes it.             *)
Fragile == skipped # {} /\ \E t \in DOMAIN wire : wire[t].uno /\ ~NotFragmented(wire[t])

(* A correct peer is never aborted, however its chunks are lost, reordered and       *)
(* repeated: none of the consistency checks of sctp_indata.c (sctp_abort_in_reasm)   *)
(* mistakes a legal sequence of fragments for an illegal one.                        *)
NoAbort == s.abort => Fragile

(* The ordered messages of a stream reach the receive callback one after the other:  *)
(* what was handed up is a prefix of what was sent on the stream.                     *)
InOrder ==
  \A sid \in Streams : skipped = {} => IsPrefix(Flat(Pieces(sid, FALSE)), Tsns(sid))

(* The weaker order the code keeps: the ordered messages of a stream start in the    *)
(* order they were sent, and the pieces of each message come in theirs.               *)
StartsInOrder ==
  \A sid \in Streams : skipped = {} =>
    LET d == Flat(Pieces(sid, FALSE))
        starts(x) == SelectSeq(x, LAMBDA t : wire[t].first)
        own(x, m) == SelectSeq(x, LAMBDA t : wire[t].msg = m) IN
    /\ IsPrefix(starts(d), starts(Tsns(sid)))
    /\ \A m \in Sent : IsPrefix(own(d, m), own(Tsns(sid), m))

(* Every piece given to the receive callback is a run of consecutive fragments of    *)
(* one message, and is marked as the end of a record exactly when it is its end.     *)
WholeMessages ==
  \A sid \in Streams : \A i \in 1..Len(s.out[sid]) :
    LET p == s.out[sid][i]  d == p.data
        between(t, u) == {v \in (t + 1)..(u - 1) : wire[v].msg = wire[t].msg} IN
    d # <<>> =>
      /\ \A j \in 1..(Len(d) - 1) :
           wire[d[j]].msg = wire[d[j + 1]].msg /\ d[j] < d[j + 1] /\ between(d[j], d[j + 1]) = {}
      /\ skipped = {} => (p.eor <=> wire[Last(d)].last)

(* No fragment reaches the application twice, although chunks are repeated before    *)
(* and after the bitmaps slide.                                                       *)
OnlyOnce ==
  \A sid \in Streams : LET d == Flat(s.out[sid]) IN Cardinality(Range(d)) = Len(d)

(* What a SACK has acknowledged, cumulatively or in a gap block, was handed up or is *)
(* still held by a control: the sender may forget it.                                 *)
NothingLost ==
  ~s.abort /\ ~Fragile => (1..sack.cum) \cup sack.gaps \subseteq Handed \cup Held \cup Skipped

(* When everything has arrived everything has been handed up and nothing is left on  *)
(* a queue: no message waits for a wakeup that does not come.  After a skip this is   *)
(* claimed for ordered messages of streams without an aborted partial delivery.       *)
AllDelivered ==
  ~s.abort /\ s.cum = MaxTsn /\ s.resets = <<>> =>
    /\ {t \in (1..MaxTsn) \ Skipped :
          skipped # {} => ~wire[t].uno /\ ~s.strm[wire[t].sid].pd} \subseteq Handed
    /\ skipped = {} => DOMAIN s.ctl = {} /\ \A sid \in Streams : ~s.strm[sid].pd

(* A SACK tells the truth: its gap blocks are exactly the TSNs received above the    *)
(* cumulative one, whatever the bitmaps went through (sctp_slide_mapping_arrays,      *)
(* sctp_expand_mapping_array, sctp_mark_non_revokable).                               *)
SackTruth ==
  ~s.dack /\ ~s.abort =>
    sack.cum = s.cum /\ sack.gaps = {t \in DOMAIN wire : t > s.cum /\ Present(s, t)}

(* cnt_on_all_streams and cnt_on_reasm_queue count what is on the queues: they       *)
(* limit what the receiver takes (sctp_max_chunks_on_queue).                          *)
CountsRight ==
  ~s.abort =>
   /\ s.cos = Cardinality({i \in DOMAIN s.ctl : s.ctl[i].onstrm /\ ~s.ctl[i].uno})
   /\ s.cor = Cardinality(UNION {{<<i, j>> : j \in 1..Len(s.ctl[i].reasm)} : i \in DOMAIN s.ctl})

(* A stream is in partial delivery exactly while one of its controls is: the flag    *)
(* pd_api_started neither outlives the message nor is shared by two.                  *)
OnePartial ==
  ~s.abort => \A sid \in Streams :
    s.strm[sid].pd <=> Cardinality({i \in DOMAIN s.ctl : s.ctl[i].sid = sid /\ s.ctl[i].pdapi}) = 1

(* The TSN that would advance the cumulative one is never dropped for lack of room:  *)
(* without that a full receiver could never make room again.                          *)
AcceptsNext ==
  ~s.abort /\ s.cum < MaxTsn /\ ~idata =>
    ~sctp_process_data(s, <<Frag(s.cum + 1)>>).break

(* What the application is given: each fragment once, whole messages, in order.       *)
DeliveredRight == OnlyOnce /\ WholeMessages /\ StartsInOrder

(* What the peer is told it may forget is what the receiver has.                      *)
AcksRight == SackTruth /\ NothingLost

(* The receiver's own records stay right, so that it neither aborts a correct peer    *)
(* nor refuses what it needs.                                                         *)
ReceiverSound == TypeOK /\ NoAbort /\ CountsRight /\ OnePartial /\ AcceptsNext
===============================================================================
