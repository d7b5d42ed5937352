--------------------------- MODULE StreamScheduler ---------------------------
(***************************************************************************)
(* The outgoing streams of an association of usrsctp and the schedulers    *)
(* that decide which of them may put its next fragment on the send queue   *)
(* (netinet/sctp_ss_functions.c, and sctp_fill_outqueue and                *)
(* sctp_move_to_outqueue of netinet/sctp_output.c).  Data is counted in    *)
(* units of one fragment.  The TCB lock is held through sctp_fill_outqueue *)
(* but a sender only takes the send lock, so sends fall between its steps. *)
(***************************************************************************)
EXTENDS Integers, Sequences, FiniteSets

CONSTANTS Streams,    \* number of outgoing streams, with identifiers 0..Streams-1
          Net,        \* the destinations of the association
          Pin,        \* what messages may be pinned to: destinations or None
          None,       \* a null pointer
          Forever,    \* the result of a search that does not end
          IData,      \* whether the peer accepts I-DATA chunks
          Start,      \* the scheduler the association starts with, one of these
          Priority,   \* the values of the option SCTP_SS_VALUE
          MaxMsg,     \* bound: messages sent
          MaxLen,     \* bound: length of a message in fragments
          Space,      \* bound: fragments that fit into one packet
          MaxReconf,  \* bound: changes of the scheduler or of the number of streams
          Failure     \* allocations that may fail: subset of {"chunk", "mbuf", "prepend"}

Stream    == 0 .. Streams - 1
Scheduler == {"default", "rr", "rrp", "prio", "fb", "fcfs"}

ASSUME SchedulerAssumption ==
  /\ Streams \in Nat \ {0}
  /\ Start \subseteq Scheduler /\ IData \in BOOLEAN
  /\ Failure \subseteq {"chunk", "mbuf", "prepend"}
  /\ None \notin Stream \cup Net /\ Pin \subseteq Net \cup {None}

VARIABLES ss,       \* asoc->ss_functions
          outq,     \* strmout[s].outqueue
          wheel,    \* ss_data.out.wheel
          list,     \* ss_data.out.list, pairs of a stream and a message
          linked,   \* messages whose ss_next pointers are not null
          last,     \* ss_data.last_out_stream
          locked,   \* ss_data.locked_on_sending
          param,    \* the word that ss_params.prio.priority and ss_params.fb.rounds share
          mid,      \* strmout[s].next_mid_ordered
          sendq,    \* asoc->send_queue, in the order of the TSNs
          fill,     \* the running sctp_fill_outqueue, or None
          msgs,     \* number of messages sent so far
          reconfs   \* number of changes so far

queues == <<outq, wheel, list, linked>>
choice == <<last, locked, param>>
vars   == <<ss, queues, choice, mid, sendq, fill, msgs, reconfs>>

Message  == [id : 1..MaxMsg, net : Net \cup {None}, len : 0..MaxLen, taken : BOOLEAN,
             complete : BOOLEAN, discard : BOOLEAN]
Fragment == [id : 1..MaxMsg, sid : Stream, mid : 0..MaxMsg, first : BOOLEAN, last : BOOLEAN]

TypeOK ==
  /\ ss \in Scheduler
  /\ outq \in [Stream -> Seq(Message)] /\ wheel \in Seq(Stream) /\ list \in Seq(Stream \X (1..MaxMsg))
  /\ linked \subseteq 1..MaxMsg
  /\ last \in Stream \cup {None} /\ locked \in Stream \cup {None}
  /\ param \in [Stream -> -65536 .. 65535]
  /\ mid \in [Stream -> 0..MaxMsg] /\ sendq \in Seq(Fragment)
  /\ \/ fill = None
     \/ fill \in [net : Net, strq : Stream \cup {None, Forever}, room : 0..Space,
                  step : {"select", "move", "scheduled"}, stop : BOOLEAN]
  /\ msgs \in 0..MaxMsg /\ reconfs \in 0..MaxReconf

-----------------------------------------------------------------------------
(* TAILQ operations on the wheel *)
OnWheel(w, s) == \E i \in DOMAIN w : w[i] = s
FirstOf(w)    == IF w = <<>> THEN None ELSE Head(w)
LastOf(w)     == IF w = <<>> THEN None ELSE w[Len(w)]
IndexOf(w, s) == CHOOSE i \in DOMAIN w : w[i] = s

(* The next_spoke pointers of a stream that is not on the wheel are null. *)
NextOf(w, s) ==
  IF OnWheel(w, s) /\ IndexOf(w, s) < Len(w) THEN w[IndexOf(w, s) + 1] ELSE None
PrevOf(w, s) ==
  IF OnWheel(w, s) /\ IndexOf(w, s) > 1 THEN w[IndexOf(w, s) - 1] ELSE None
InsertBefore(w, s, P(_)) ==
  LET n == Cardinality({i \in DOMAIN w : \A j \in 1..i : P(w[j])})
  IN  SubSeq(w, 1, n) \o <<s>> \o SubSeq(w, n + 1, Len(w))

(* The priority is the low half of the word, the rounds are the whole of it. *)
PriorityOf(p)     == p % 65536
WithPriority(p, v) == p - (p % 65536) + v

-----------------------------------------------------------------------------
(* sctp_ss_*_add: what the wheel is once stream s is added to it *)
sctp_ss_default_add(w, q, s) == IF q[s] # <<>> /\ ~OnWheel(w, s) THEN Append(w, s) ELSE w

sctp_ss_rr_add(w, q, s) ==
  IF q[s] # <<>> /\ ~OnWheel(w, s) THEN InsertBefore(w, s, LAMBDA t : t < s) ELSE w

sctp_ss_prio_add(w, q, s, p) ==
  IF q[s] # <<>> /\ ~OnWheel(w, s)
  THEN InsertBefore(w, s, LAMBDA t : PriorityOf(p[t]) < PriorityOf(p[s])) ELSE w

sctp_ss_fb_rounds(w, q, s, p) ==
  IF q[s] # <<>> /\ ~OnWheel(w, s) /\ p[s] < 0 THEN [p EXCEPT ![s] = Head(q[s]).len] ELSE p

AddToWheel(m, w, q, s, p) ==
  CASE m \in {"default", "fb"} -> sctp_ss_default_add(w, q, s)
    [] m \in {"rr", "rrp"}     -> sctp_ss_rr_add(w, q, s)
    [] m = "prio"              -> sctp_ss_prio_add(w, q, s, p)
    [] m = "fcfs"              -> w

AddParam(m, w, q, s, p) == IF m = "fb" THEN sctp_ss_fb_rounds(w, q, s, p) ELSE p

sctp_ss_fcfs_add(l, lk, s, id) == IF id \in lk THEN l ELSE Append(l, <<s, id>>)

(* Mutant: the stream stays on the wheel. *)
RemoveNothing(w, q, s) == w

(* sctp_ss_*_remove of an empty stream: last_out_stream steps back on the wheel *)
RemoveFromWheel(w, q, s) ==
  IF q[s] = <<>> /\ OnWheel(w, s)
  THEN LET i == IndexOf(w, s) IN SubSeq(w, 1, i - 1) \o SubSeq(w, i + 1, Len(w))
  ELSE w

sctp_ss_default_remove(w, q, s, l) ==
  LET back == IF PrevOf(w, s) # None THEN PrevOf(w, s) ELSE LastOf(w)
  IN  IF q[s] = <<>> /\ OnWheel(w, s) /\ l = s
      THEN IF back = s THEN None ELSE back
      ELSE l

sctp_ss_prio_remove(w, q, s, l) == sctp_ss_default_remove(w, q, s, l)
sctp_ss_fb_remove(w, q, s, l)   == sctp_ss_default_remove(w, q, s, l)

sctp_ss_fcfs_remove(l, id) == SelectSeq(l, LAMBDA e : e[2] # id)

(* sctp_ss_*_init: every stream with data is added, in the order of the streams; *)
(* first come first served adds the n-th messages of all streams for n = 1, 2... *)
InitWheel(m, q, p) ==
  LET added[n \in 0..Streams] ==        \* the streams 0..n-1 have been added
        IF n = 0 THEN [w |-> <<>>, p |-> p]
        ELSE LET a == added[n - 1]
             IN  [w |-> AddToWheel(m, a.w, q, n - 1, a.p), p |-> AddParam(m, a.w, q, n - 1, a.p)]
  IN  added[Streams]

sctp_ss_fcfs_init(q, lk) ==
  LET order == [k \in 1 .. MaxMsg * Streams |-> <<(k - 1) % Streams, (k - 1) \div Streams + 1>>]
      there == SelectSeq(order, LAMBDA e : e[2] <= Len(q[e[1]]))
      added[n \in 0..Len(there)] ==
        IF n = 0 THEN <<>>
        ELSE LET e == there[n] IN sctp_ss_fcfs_add(added[n - 1], lk, e[1], q[e[1]][e[2]].id)
  IN  added[Len(there)]

-----------------------------------------------------------------------------
(* The head of the stream is meant for another destination. *)
Elsewhere(q, s, n) == q[s] # <<>> /\ Head(q[s]).net \notin {None, n}

(* The streams a select looks at, in order: those after last_out_stream and then *)
(* from the start of the wheel; with priorities only those of one priority.      *)
DefaultTurn(w, l) ==
  IF OnWheel(w, l)
  THEN SubSeq(w, IndexOf(w, l) + 1, Len(w)) \o SubSeq(w, 1, IndexOf(w, l)) ELSE w

(* From position i on, as long as the priority stays the same. *)
SamePriority(w, p, i) ==
  SubSeq(w, i, i - 1 + Cardinality({j \in i..Len(w) : \A k \in i..j :
                                     PriorityOf(p[w[k]]) = PriorityOf(p[w[i]])}))

PrioTurn(w, p, l) ==
  (IF OnWheel(w, l) THEN Tail(SamePriority(w, p, IndexOf(w, l))) ELSE <<>>) \o SamePriority(w, p, 1)

(* The search ends at a stream that may be served, or with a null result when it *)
(* is back at last_out_stream; Forever when it is never back there.              *)
Search(turn, q, n, l) ==
  LET able == SelectSeq(turn, LAMBDA s : ~Elsewhere(q, s, n))
  IN  CASE able # <<>>                           -> Head(able)
        [] able = <<>> /\ (turn = <<>> \/ OnWheel(turn, l)) -> None
        [] OTHER                                 -> Forever

sctp_ss_default_select(n) ==
  IF locked # None THEN locked ELSE Search(DefaultTurn(wheel, last), outq, n, last)

sctp_ss_rrp_select == last

sctp_ss_prio_select(n) == Search(PrioTurn(wheel, param, last), outq, n, last)

(* The first stream after last_out_stream with the fewest rounds left. *)
sctp_ss_fb_select(n) ==
  LET start == IF last = None \/ Len(wheel) <= 1 THEN FirstOf(wheel) ELSE NextOf(wheel, last)
      from  == IF start = None THEN 1 ELSE IndexOf(wheel, start)
      turn  == SubSeq(wheel, from, Len(wheel)) \o SubSeq(wheel, 1, from - 1)
      able  == {i \in DOMAIN turn : param[turn[i]] >= 0 /\ outq[turn[i]] # <<>> /\ ~Elsewhere(outq, turn[i], n)}
      best  == {i \in able : \A j \in able : param[turn[i]] <= param[turn[j]]}
  IN  IF \A i \in able : i > Len(wheel) + 1 - from     \* the search ends at the end of the wheel
      THEN None ELSE turn[CHOOSE i \in best : \A j \in best : i <= j]

sctp_ss_fcfs_select(n) ==
  LET here == SelectSeq(list, LAMBDA e : ~Elsewhere(outq, e[1], n))
  IN  IF here = <<>> THEN None ELSE Head(here)[1]

Select(n) ==
  CASE ss \in {"default", "rr"} -> sctp_ss_default_select(n)
    [] ss = "rrp"               -> sctp_ss_rrp_select
    [] ss = "prio"              -> sctp_ss_prio_select(n)
    [] ss = "fb"                -> sctp_ss_fb_select(n)
    [] ss = "fcfs"              -> sctp_ss_fcfs_select(n)

IsEmpty == IF ss = "fcfs" THEN list = <<>> ELSE wheel = <<>>

-----------------------------------------------------------------------------
(* sctp_ss_prio_init_stream and sctp_ss_fb_init_stream *)
InitParam(m) == IF m = "fb" THEN -1 ELSE 0

Init ==
  /\ ss \in Start
  /\ outq = [s \in Stream |-> <<>>] /\ wheel = <<>> /\ list = <<>> /\ linked = {}
  /\ last = None /\ locked = None
  /\ param = [s \in Stream |-> InitParam(ss)]
  /\ mid = [s \in Stream |-> 0] /\ sendq = <<>> /\ fill = None /\ msgs = 0 /\ reconfs = 0

(* The last message of stream s is still being copied in (last_msg_incomplete). *)
Begun(s) == outq[s] # <<>> /\ ~LastOf(outq[s]).complete

(* A queue of stream s changed from outside: the scheduler is told. *)
Queued(s, q, id) ==
  /\ outq' = q
  /\ wheel' = AddToWheel(ss, wheel, q, s, param)
  /\ param' = AddParam(ss, wheel, q, s, param)
  /\ list' = IF ss = "fcfs" THEN sctp_ss_fcfs_add(list, linked, s, id) ELSE list
  /\ linked' = IF ss = "fcfs" THEN linked \cup {id} ELSE linked

(* The fragments of a message that have left. *)
Fragments(id) == SelectSeq(sendq, LAMBDA f : f.id = id)

(* A message is begun: the whole of it, or the part the user has copied in so far. *)
Enqueue(s, n, len, complete) ==
  /\ msgs < MaxMsg
  /\ IData \/ ~\E t \in Stream \ {s} : Begun(t)      \* stream_locked on another stream
  /\ msgs' = msgs + 1
  /\ LET sp == [id |-> msgs + 1, net |-> n, len |-> len, taken |-> FALSE,
                complete |-> complete, discard |-> FALSE]
     IN  Queued(s, [outq EXCEPT ![s] = Append(@, sp)], sp.id)
  /\ UNCHANGED <<ss, last, locked, mid, sendq, fill, reconfs>>

sctp_msg_append(s, n, len) == Enqueue(s, n, len, TRUE)

sctp_lower_sosend(s, n, len) == ~Begun(s) /\ Enqueue(s, n, len, FALSE)

(* sctp_lower_sosend goes on with the message it had begun: more data, perhaps its end. *)
SendMore(s, len, complete) ==
  LET k == Len(outq[s]) IN
  /\ Begun(s)
  /\ Len(Fragments(outq[s][k].id)) + outq[s][k].len + len <= MaxLen
  /\ outq' = [outq EXCEPT ![s][k].len = @ + len, ![s][k].complete = complete]
  /\ UNCHANGED <<ss, wheel, list, linked, choice, mid, sendq, fill, msgs, reconfs>>

-----------------------------------------------------------------------------
(* sctp_med_chunk_output fills the send queue for destination n. *)
BeginFill(n) ==
  /\ fill = None /\ ~IsEmpty
  /\ fill' = [net |-> n, strq |-> None, room |-> Space, step |-> "select", stop |-> FALSE]
  /\ UNCHANGED <<ss, queues, choice, mid, sendq, msgs, reconfs>>

SelectStream ==
  /\ fill # None /\ fill.step = "select" /\ ~fill.stop
  /\ fill' = [fill EXCEPT !.strq = Select(fill.net), !.step = "move"]
  /\ UNCHANGED <<ss, queues, choice, mid, sendq, msgs, reconfs>>

(* The loop of sctp_fill_outqueue has a stream to serve. *)
Serving == fill # None /\ fill.step = "move" /\ fill.room > 0 /\ fill.strq \in Stream

Moved(giveup) == fill' = [fill EXCEPT !.step = "scheduled", !.stop = giveup]

(* Mutants of MoveFragment: the message id counts fragments; some_taken is not set. *)
MidPerFragment ==
  LET s == fill.strq IN
  /\ Serving /\ outq[s] # <<>> /\ Head(outq[s]).len > 0
  /\ sendq' = Append(sendq, [id |-> Head(outq[s]).id, sid |-> s, mid |-> mid[s],
                             first |-> ~Head(outq[s]).taken, last |-> FALSE])
  /\ mid' = [mid EXCEPT ![s] = @ + 1]
  /\ outq' = [outq EXCEPT ![s][1].len = @ - 1, ![s][1].taken = TRUE]
  /\ Moved(FALSE)
  /\ UNCHANGED <<ss, wheel, list, linked, choice, msgs, reconfs>>

TakenForgotten ==
  LET s == fill.strq IN
  /\ Serving /\ outq[s] # <<>> /\ Head(outq[s]).len > 0
  /\ sendq' = Append(sendq, [id |-> Head(outq[s]).id, sid |-> s, mid |-> mid[s],
                             first |-> TRUE, last |-> FALSE])
  /\ outq' = [outq EXCEPT ![s][1].len = @ - 1]
  /\ Moved(FALSE)
  /\ UNCHANGED <<ss, wheel, list, linked, choice, mid, msgs, reconfs>>

(* The message is done: off its queue, and the scheduler is told. *)
DropHead(s, q) ==
  /\ outq' = [q EXCEPT ![s] = Tail(@)]
  /\ wheel' = RemoveFromWheel(wheel, outq', s)
  /\ last' = CASE ss \in {"default", "rr", "rrp"} -> sctp_ss_default_remove(wheel, outq', s, last)
               [] ss = "prio" -> sctp_ss_prio_remove(wheel, outq', s, last)
               [] ss = "fb"   -> sctp_ss_fb_remove(wheel, outq', s, last)
               [] ss = "fcfs" -> last
  /\ list' = sctp_ss_fcfs_remove(list, Head(q[s]).id)
  /\ linked' = linked \ {Head(q[s]).id}

(* A complete message without data left is freed and the next one looked at. *)
MoveFrees ==
  LET s == fill.strq IN
  /\ Serving
  /\ outq[s] # <<>> /\ Head(outq[s]).complete /\ Head(outq[s]).len = 0
  /\ DropHead(s, outq)
  /\ UNCHANGED <<ss, locked, param, mid, sendq, fill, msgs, reconfs>>

(* How much of a message may leave: of an incomplete one perhaps nothing. *)
sctp_can_we_split_this(sp) == IF sp.complete THEN {1} ELSE {0, 1}

(* The returns of sctp_move_to_outqueue that move nothing. *)
MoveNothing ==
  LET s == fill.strq IN
  /\ Serving
  /\ \/ outq[s] = <<>> /\ Moved(FALSE) /\ UNCHANGED outq
     \/ /\ outq[s] # <<>> /\ ~Head(outq[s]).complete
        /\ \/ Head(outq[s]).len = 0
           \/ ~Head(outq[s]).discard /\ 0 \in sctp_can_we_split_this(Head(outq[s]))
        /\ Moved(TRUE) /\ UNCHANGED outq
     \/ /\ outq[s] # <<>> /\ Head(outq[s]).discard /\ Head(outq[s]).len > 0
        /\ outq' = [outq EXCEPT ![s][1].len = 0, ![s][1].taken = TRUE]
        /\ Moved(TRUE)
  /\ UNCHANGED <<ss, wheel, list, linked, choice, mid, sendq, msgs, reconfs>>

(* The chunk, with its flags and its message id; its TSN is its place in the queue. *)
Chunk(sp, s, begins, ends) ==
  [id |-> sp.id, sid |-> s, mid |-> mid[s], first |-> begins, last |-> ends]

(* One fragment of the head message gets its flags, its message id and its TSN. *)
MoveFragment ==
  LET s    == fill.strq
      sp   == Head(outq[s])
      ends == sp.complete /\ sp.len = 1
      rest == [sp EXCEPT !.len = @ - 1, !.taken = ~ends \/ @]
      q    == [outq EXCEPT ![s][1] = rest]
  IN
  /\ Serving
  /\ outq[s] # <<>> /\ sp.len > 0 /\ ~sp.discard
  /\ sendq' = Append(sendq, Chunk(sp, s, ~sp.taken, ends))
  /\ mid' = [mid EXCEPT ![s] = IF ends THEN @ + 1 ELSE @]
  /\ IF ends THEN DropHead(s, q) ELSE outq' = q /\ UNCHANGED <<wheel, list, linked, last>>
  /\ Moved(FALSE)
  /\ UNCHANGED <<ss, locked, param, msgs, reconfs>>

(* sctp_release_pr_sctp_chunk gives up the head message of stream s, of which a  *)
(* part is on its way.  Its last fragment on the send queue becomes the end of   *)
(* it, or a chunk that stands for the end gets the next TSN; without memory for  *)
(* that chunk there is no end.                                                   *)
DiscardRest(s) ==
  LET sp   == Head(outq[s])
      mine == {i \in DOMAIN sendq : sendq[i].id = sp.id}
  IN
  /\ fill = None /\ outq[s] # <<>> /\ ~sp.discard
  /\ mine # {} /\ \A i \in mine : ~sendq[i].last
  /\ \/ /\ \/ \E i \in mine : i + 1 \notin mine /\ sendq' = [sendq EXCEPT ![i].last = TRUE]
           \/ sendq' = Append(sendq, Chunk(sp, s, FALSE, TRUE))
        /\ mid' = [mid EXCEPT ![s] = @ + 1]
     \/ "chunk" \in Failure /\ UNCHANGED <<sendq, mid>>
  /\ outq' = [outq EXCEPT ![s][1].discard = TRUE, ![s][1].len = 0]
  /\ UNCHANGED <<ss, wheel, list, linked, choice, fill, msgs, reconfs>>

(* An allocation fails.  A copy or a header mbuf that cannot be had restores the *)
(* message; a chunk that cannot be had leaves some_taken set; the fragment whose *)
(* header cannot be prepended is lost.                                           *)
MoveFails(f) ==
  LET s    == fill.strq
      sp   == Head(outq[s])
      ends == sp.complete /\ sp.len = 1
  IN
  /\ Serving
  /\ outq[s] # <<>> /\ sp.len > 0 /\ ~sp.discard
  /\ outq' = CASE f = "mbuf"    -> outq
               [] f = "chunk"   -> [outq EXCEPT ![s][1].taken = ~ends \/ @]
               [] f = "prepend" -> [outq EXCEPT ![s][1].taken = ~ends \/ @, ![s][1].len = @ - 1]
  /\ Moved(TRUE)
  /\ UNCHANGED <<ss, wheel, list, linked, choice, mid, sendq, msgs, reconfs>>

(* Mutants: the lock is never set; the lock outlives the message. *)
LockNever(s)  == None
LockAlways(s) == s

(* sctp_ss_*_scheduled *)
LockOn(s) == IF ~IData /\ outq[s] # <<>> /\ Head(outq[s]).taken THEN s ELSE None

sctp_ss_fb_scheduled(s) ==
  LET less(t) == IF param[t] - param[s] < 0 THEN 0 ELSE param[t] - param[s]
  IN  [t \in Stream |->
         IF t = s THEN IF outq[s] # <<>> THEN Head(outq[s]).len ELSE -1
         ELSE IF OnWheel(wheel, t) THEN less(t) ELSE param[t]]

(* The stream that was served is noted. *)
Scheduled ==
  LET s == fill.strq IN
  /\ fill # None /\ fill.step = "scheduled"
  /\ last' = s /\ locked' = LockOn(s)
  /\ param' = IF ss = "fb" THEN sctp_ss_fb_scheduled(s) ELSE param
  /\ fill' = [fill EXCEPT !.step = "select", !.room = @ - 1]
  /\ UNCHANGED <<ss, queues, mid, sendq, msgs, reconfs>>

sctp_ss_rrp_packet_done(n) == Search(DefaultTurn(wheel, last), outq, n, last)

(* The loop ends; round robin per packet moves on to the next stream. *)
PacketDone ==
  /\ fill # None
  /\ \/ fill.step = "select" /\ fill.stop
     \/ fill.step = "move" /\ (fill.room = 0 \/ fill.strq = None)
  /\ ss = "rrp" => sctp_ss_rrp_packet_done(fill.net) # Forever
  /\ last' = IF ss = "rrp" THEN sctp_ss_rrp_packet_done(fill.net) ELSE last
  /\ fill' = None
  /\ UNCHANGED <<ss, queues, locked, param, mid, sendq, msgs, reconfs>>

-----------------------------------------------------------------------------
(* The option SCTP_PLUGGABLE_SS: clear of the old scheduler, init of the new one. *)
sctp_ss_prio_clear ==
  [s \in Stream |-> IF OnWheel(wheel, s) THEN WithPriority(param[s], 0) ELSE param[s]]
sctp_ss_fb_clear ==
  [s \in Stream |-> IF OnWheel(wheel, s) THEN -1 ELSE param[s]]

ClearParam ==
  CASE ss = "prio" -> sctp_ss_prio_clear [] ss = "fb" -> sctp_ss_fb_clear [] OTHER -> param

PluggableSs(m) ==
  /\ fill = None /\ reconfs < MaxReconf
  /\ ss' = m /\ reconfs' = reconfs + 1
  /\ wheel' = IF m = "fcfs" THEN <<>> ELSE InitWheel(m, outq, ClearParam).w
  /\ param' = IF m = "fcfs" THEN ClearParam ELSE InitWheel(m, outq, ClearParam).p
  /\ list' = IF m = "fcfs" THEN sctp_ss_fcfs_init(outq, linked) ELSE <<>>
  /\ linked' = IF m = "fcfs" THEN linked \cup {list'[i][2] : i \in DOMAIN list'} ELSE linked
  /\ last' = IF ss = "fcfs" /\ m = "fcfs" THEN last ELSE None
  /\ locked' = IF m = "fcfs" THEN locked ELSE None
  /\ UNCHANGED <<outq, mid, sendq, fill, msgs>>

(* The option SCTP_SS_VALUE; sctp_ss_prio_remove leaves a stream with data where it is. *)
SsValue(s, v) ==
  /\ fill = None /\ ss = "prio"
  /\ param' = [param EXCEPT ![s] = WithPriority(@, v)]
  /\ wheel' = sctp_ss_prio_add(wheel, outq, s, param')
  /\ UNCHANGED <<ss, outq, list, linked, last, locked, mid, sendq, fill, msgs, reconfs>>

(* sctp_send_str_reset_req moves the streams to a larger array: clear without the *)
(* values, init.                                                                   *)
AddStreams ==
  /\ fill = None /\ reconfs < MaxReconf
  /\ reconfs' = reconfs + 1
  /\ wheel' = IF ss = "fcfs" THEN wheel ELSE InitWheel(ss, outq, param).w
  /\ param' = IF ss = "fcfs" THEN param ELSE InitWheel(ss, outq, param).p
  /\ list' = IF ss = "fcfs" THEN sctp_ss_fcfs_init(outq, linked) ELSE list
  /\ last' = IF ss = "fcfs" THEN last ELSE None
  /\ locked' = IF ss = "fcfs" THEN locked ELSE None
  /\ UNCHANGED <<ss, outq, linked, mid, sendq, fill, msgs>>

-----------------------------------------------------------------------------
User ==
  \/ \E s \in Stream, n \in Pin, len \in 1..MaxLen :
       sctp_msg_append(s, n, len) \/ sctp_lower_sosend(s, n, len)
  \/ \E s \in Stream, len \in 1..MaxLen, complete \in BOOLEAN : SendMore(s, len, complete)
  \/ \E s \in Stream : DiscardRest(s)
  \/ \E m \in Scheduler : PluggableSs(m)
  \/ \E s \in Stream, v \in Priority : SsValue(s, v)
  \/ AddStreams

Output ==
  \/ \E n \in Net : BeginFill(n)
  \/ SelectStream \/ MoveFrees \/ MoveNothing \/ MoveFragment \/ Scheduled \/ PacketDone

Next == User \/ Output \/ \E f \in Failure : MoveFails(f)

Spec == Init /\ [][Next]_vars

(* sctp_chunk_output runs again on every SACK and timer; a failed allocation may recur. *)
FairSpec == Spec /\ WF_vars(Output) /\ SF_vars(MoveFragment)
-----------------------------------------------------------------------------
(* A stream is on the wheel exactly while it has messages, whatever senders do  *)
(* between the steps of sctp_fill_outqueue: a stream that is missing from the   *)
(* wheel is never served again, an empty one on it breaks the select loops.     *)
WheelHasData ==
  ss # "fcfs" => /\ \A s \in Stream : OnWheel(wheel, s) <=> outq[s] # <<>>
                 /\ \A i, j \in DOMAIN wheel : wheel[i] = wheel[j] => i = j

(* Each message leaves as one first fragment and then others, and none follows  *)
(* its last directly; a message after which another one of its stream has left  *)
(* has had its end.  So the receiver can put messages together, although        *)
(* sctp_move_to_outqueue may give up in the middle, senders append to messages, *)
(* mbufs may be missing and sctp_release_pr_sctp_chunk gives up the rest.       *)
FragmentsWellFormed ==
  \A i \in DOMAIN sendq :
    /\ sendq[i].first <=> ~\E j \in DOMAIN sendq : j < i /\ sendq[j].id = sendq[i].id
    /\ sendq[i].last => i + 1 \notin DOMAIN sendq \/ sendq[i + 1].id # sendq[i].id
    /\ \A j \in DOMAIN sendq : i < j /\ sendq[i].sid = sendq[j].sid /\ sendq[i].id # sendq[j].id =>
         \E k \in DOMAIN sendq : sendq[k].id = sendq[i].id /\ sendq[k].last

(* The order of the messages of a stream is kept: message ids and TSNs grow     *)
(* together, and all fragments of a message carry one message id.               *)
StreamOrder ==
  \A i, j \in DOMAIN sendq :
    i < j /\ sendq[i].sid = sendq[j].sid =>
      /\ sendq[i].id <= sendq[j].id
      /\ sendq[i].id = sendq[j].id => sendq[i].mid = sendq[j].mid
      /\ sendq[i].id # sendq[j].id /\ sendq[i].last => sendq[i].mid < sendq[j].mid

(* Without I-DATA the fragments of a message have consecutive TSNs ("I must get *)
(* a complete message i.e. FIRST/MIDDLE and LAST to the out queue in one pass", *)
(* sctp_med_chunk_output): once a message has begun no other gets a TSN.        *)
MessagesNotInterleaved ==
  \A i \in 2..Len(sendq) : sendq[i].id # sendq[i - 1].id => sendq[i - 1].last

(* The lock on the sending stream keeps messages whole under the schedulers that *)
(* look at it and under first come first served, as long as the streams are not  *)
(* set up anew.                                                                  *)
LockKeepsMessagesWhole ==
  reconfs = 0 /\ ~IData /\ ss \in {"default", "rr", "fcfs"} =>
    \A i \in 2..Len(sendq) : sendq[i].id # sendq[i - 1].id => sendq[i - 1].last

(* Whatever the scheduler, once the user has completed all messages, each of     *)
(* them reaches the send queue or is given up, although selections take turns     *)
(* with sends and with failures.  First come first served loses sight of messages *)
(* that were queued when it was set up anew: their ss_next pointers are not null. *)
Drains ==
  LET Stuck == \E s \in Stream : \E i \in DOMAIN outq[s] : ~outq[s][i].complete
      Lost  == ss = "fcfs" /\ reconfs > 0
  IN  ~Stuck /\ ~Lost ~> (\A s \in Stream : outq[s] = <<>>) \/ Stuck \/ Lost

(* The scheduler's own state fits the queues of the streams: whom it serves    *)
(* has data, and the lock keeps it on a message until its end.                 *)
WheelRight == TypeOK /\ WheelHasData /\ LockKeepsMessagesWhole
==============================================================================
