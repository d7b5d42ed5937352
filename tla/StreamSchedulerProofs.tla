------------------------ MODULE StreamSchedulerProofs ------------------------
(***************************************************************************)
(* Proofs about StreamScheduler, for any number of streams and messages,   *)
(* every scheduler and every destination: the order in which fragments get *)
(* their TSNs is one the receiver can put messages together from, and each *)
(* message leaves whole.  Nothing is used of how a scheduler selects.      *)
(***************************************************************************)
EXTENDS StreamScheduler, TLAPS

Msg  == [id : Nat, net : Net \cup {None}, len : Nat, taken : BOOLEAN, complete : BOOLEAN,
         discard : BOOLEAN]
Frag == [id : Nat, sid : Stream, mid : Nat, first : BOOLEAN, last : BOOLEAN]

QueueType ==
  /\ msgs \in Nat /\ mid \in [Stream -> Nat]
  /\ outq \in [Stream -> Seq(Msg)] /\ sendq \in Seq(Frag)

(* Messages are queued with growing identifiers, no two alike. *)
IdsGrow ==
  /\ \A s \in Stream : \A i, j \in DOMAIN outq[s] : i < j => outq[s][i].id < outq[s][j].id
  /\ \A s, t \in Stream : \A i \in DOMAIN outq[s], j \in DOMAIN outq[t] :
       outq[s][i].id = outq[t][j].id => s = t
  /\ \A s \in Stream : \A i \in DOMAIN outq[s] : outq[s][i].id <= msgs

(* What has left a stream is older than what waits there, or a part of its     *)
(* head, which then has the message id that comes next unless it is given up.  *)
SentBefore ==
  \A i \in DOMAIN sendq :
    /\ sendq[i].id <= msgs
    /\ sendq[i].mid <= mid[sendq[i].sid]
    /\ sendq[i].last => sendq[i].mid < mid[sendq[i].sid]
    /\ \A s \in Stream : \A k \in DOMAIN outq[s] : sendq[i].id = outq[s][k].id =>
         s = sendq[i].sid /\ (outq[s][k].discard \/ (sendq[i].mid = mid[s] /\ ~sendq[i].last))
    /\ \A k \in DOMAIN outq[sendq[i].sid] : sendq[i].id <= outq[sendq[i].sid][k].id

OrderInv == QueueType /\ IdsGrow /\ SentBefore /\ StreamOrder

-----------------------------------------------------------------------------
LEMMA FragFields ==
  ASSUME QueueType, NEW i \in DOMAIN sendq
  PROVE  /\ sendq[i] \in Frag /\ sendq[i].id \in Nat /\ sendq[i].sid \in Stream
         /\ sendq[i].mid \in Nat
<1>1. sendq[i] \in Frag
  BY DEF QueueType
<1> QED
  BY <1>1, Zenon DEF Frag

LEMMA MsgFields ==
  ASSUME QueueType, NEW s \in Stream, NEW k \in DOMAIN outq[s]
  PROVE  outq[s][k] \in Msg /\ outq[s][k].id \in Nat /\ outq[s][k].len \in Nat
<1>1. outq[s] \in Seq(Msg)
  BY Zenon DEF QueueType
<1>2. outq[s][k] \in Msg
  BY <1>1
<1> QED
  BY <1>2, Zenon DEF Msg

LEMMA InitOrder == Init => OrderInv
<1> SUFFICES ASSUME Init PROVE OrderInv
  BY Zenon
<1>1. QueueType
  BY DEF Init, QueueType
<1>2. IdsGrow /\ SentBefore /\ StreamOrder
  BY DEF Init, IdsGrow, SentBefore, StreamOrder
<1> QED
  BY <1>1, <1>2, Zenon DEF OrderInv

(* Messages may change in place, and the first of a stream may go. *)
Shrinks(off) ==
  \A s \in Stream :
    /\ Len(outq[s]) = Len(outq'[s]) + off[s]
    /\ \A k \in DOMAIN outq'[s] : /\ outq'[s][k].id = outq[s][k + off[s]].id
                                  /\ outq[s][k + off[s]].discard => outq'[s][k].discard

Stays == [t \in Stream |-> 0]

LEMMA ShrinkPlace ==
  ASSUME QueueType, NEW off \in [Stream -> {0, 1}], Shrinks(off), outq' \in [Stream -> Seq(Msg)],
         NEW s \in Stream, NEW k \in DOMAIN outq'[s]
  PROVE  /\ k \in Nat \ {0} /\ off[s] \in Nat /\ k + off[s] \in DOMAIN outq[s]
         /\ outq'[s][k].id = outq[s][k + off[s]].id
         /\ outq[s][k + off[s]].discard => outq'[s][k].discard
<1>1. outq[s] \in Seq(Msg) /\ outq'[s] \in Seq(Msg) /\ off[s] \in {0, 1}
  BY Zenon DEF QueueType
<1>2. /\ Len(outq[s]) = Len(outq'[s]) + off[s]
      /\ outq'[s][k].id = outq[s][k + off[s]].id
      /\ outq[s][k + off[s]].discard => outq'[s][k].discard
  BY Zenon DEF Shrinks
<1> QED
  BY <1>1, <1>2

LEMMA ShrinkIds ==
  ASSUME QueueType, IdsGrow, NEW off \in [Stream -> {0, 1}], Shrinks(off),
         outq' \in [Stream -> Seq(Msg)], msgs' = msgs
  PROVE  IdsGrow'
<1>1. ASSUME NEW s \in Stream, NEW i \in DOMAIN outq'[s], NEW j \in DOMAIN outq'[s], i < j
      PROVE  outq'[s][i].id < outq'[s][j].id
  <2>1. i + off[s] < j + off[s]
    BY ShrinkPlace, <1>1
  <2>2. i + off[s] \in DOMAIN outq[s] /\ j + off[s] \in DOMAIN outq[s]
    BY ShrinkPlace, Zenon
  <2>3. outq[s][i + off[s]].id < outq[s][j + off[s]].id
    BY <2>1, <2>2, Zenon DEF IdsGrow
  <2>4. outq'[s][i].id = outq[s][i + off[s]].id
    BY ShrinkPlace, Zenon
  <2>5. outq'[s][j].id = outq[s][j + off[s]].id
    BY ShrinkPlace, Zenon
  <2> QED
    BY <2>3, <2>4, <2>5, Zenon
<1>2. ASSUME NEW s \in Stream, NEW t \in Stream,
             NEW i \in DOMAIN outq'[s], NEW j \in DOMAIN outq'[t],
             outq'[s][i].id = outq'[t][j].id
      PROVE  s = t
  <2>1. PICK a \in DOMAIN outq[s] : outq'[s][i].id = outq[s][a].id
    <3>1. i + off[s] \in DOMAIN outq[s] /\ outq'[s][i].id = outq[s][i + off[s]].id
      BY ShrinkPlace, Zenon
    <3> QED
      BY <3>1, Zenon
  <2>2. PICK b \in DOMAIN outq[t] : outq'[t][j].id = outq[t][b].id
    <3>1. j + off[t] \in DOMAIN outq[t] /\ outq'[t][j].id = outq[t][j + off[t]].id
      BY ShrinkPlace, Zenon
    <3> QED
      BY <3>1, Zenon
  <2>3. outq[s][a].id = outq[t][b].id
    BY <1>2, <2>1, <2>2, Zenon
  <2> QED
    BY <2>3, Zenon DEF IdsGrow
<1>3. ASSUME NEW s \in Stream, NEW i \in DOMAIN outq'[s] PROVE outq'[s][i].id <= msgs'
  <2>1. i + off[s] \in DOMAIN outq[s] /\ outq'[s][i].id = outq[s][i + off[s]].id
    BY ShrinkPlace, Zenon
  <2> QED
    BY <2>1, Zenon DEF IdsGrow
<1> QED
  BY <1>1, <1>2, <1>3, Zenon DEF IdsGrow

LEMMA ShrinkOrder ==
  ASSUME OrderInv, NEW off \in [Stream -> {0, 1}], Shrinks(off),
         outq' \in [Stream -> Seq(Msg)], UNCHANGED <<sendq, mid, msgs>>
  PROVE  OrderInv'
<1> USE DEF OrderInv
<1>1. QueueType'
  BY Zenon DEF QueueType
<1>2. IdsGrow'
  BY ShrinkIds, Zenon
<1>3. SentBefore'
  <2>1. ASSUME NEW i \in DOMAIN sendq, NEW s \in Stream, NEW k \in DOMAIN outq'[s]
        PROVE  /\ sendq[i].id = outq'[s][k].id =>
                    /\ s = sendq[i].sid
                    /\ outq'[s][k].discard \/ (sendq[i].mid = mid[s] /\ ~sendq[i].last)
               /\ s = sendq[i].sid => sendq[i].id <= outq'[s][k].id
    <3>1. PICK a \in DOMAIN outq[s] : /\ outq'[s][k].id = outq[s][a].id
                                      /\ outq[s][a].discard => outq'[s][k].discard
      BY ShrinkPlace, Zenon
    <3>2. /\ sendq[i].id = outq[s][a].id =>
               /\ s = sendq[i].sid
               /\ outq[s][a].discard \/ (sendq[i].mid = mid[s] /\ ~sendq[i].last)
          /\ s = sendq[i].sid => sendq[i].id <= outq[s][a].id
      BY Zenon DEF SentBefore
    <3> QED
      BY <3>1, <3>2, Zenon
  <2> QED
    BY <2>1, FragFields DEF SentBefore
<1>4. StreamOrder'
  BY DEF StreamOrder
<1> QED
  BY <1>1, <1>2, <1>3, <1>4, Zenon

(* A new message goes to the end of its stream. *)
LEMMA EnqueueOrder ==
  ASSUME OrderInv, NEW s \in Stream, NEW sp \in Msg, sp.id = msgs + 1,
         outq' = [outq EXCEPT ![s] = Append(@, sp)], msgs' = msgs + 1, UNCHANGED <<sendq, mid>>
  PROVE  OrderInv'
<1> USE DEF OrderInv
<1>0. ASSUME NEW t \in Stream, NEW k \in DOMAIN outq'[t]
      PROVE  \/ k \in DOMAIN outq[t] /\ outq'[t][k] = outq[t][k]
             \/ t = s /\ k = Len(outq[s]) + 1 /\ outq'[t][k] = sp
  BY DEF QueueType
<1>1. QueueType'
  BY DEF QueueType
<1>2. IdsGrow'
  <2>1. ASSUME NEW t \in Stream, NEW k \in DOMAIN outq'[t]
        PROVE  outq'[t][k].id <= msgs'
    BY <1>0, MsgFields DEF IdsGrow, QueueType
  <2>2. ASSUME NEW t \in Stream, NEW i \in DOMAIN outq'[t], NEW j \in DOMAIN outq'[t], i < j
        PROVE  outq'[t][i].id < outq'[t][j].id
    <3>1. i \in DOMAIN outq[t] /\ outq'[t][i] = outq[t][i] /\ outq[t][i].id \in Nat
      <4>1. outq[t] \in Seq(Msg) /\ i \in Nat /\ j \in Nat
        BY <1>1 DEF QueueType
      <4>2. j <= Len(outq[t]) + 1
        BY <1>0, <4>1
      <4>3. i \in DOMAIN outq[t] /\ outq'[t][i] = outq[t][i]
        BY <1>0, <2>2, <4>1, <4>2
      <4> QED
        BY <4>3, MsgFields, Zenon
    <3>2. CASE j \in DOMAIN outq[t] /\ outq'[t][j] = outq[t][j]
      BY <2>2, <3>1, <3>2, Zenon DEF IdsGrow
    <3>3. CASE outq'[t][j] = sp
      <4>1. outq[t][i].id <= msgs
        BY <3>1, Zenon DEF IdsGrow
      <4> QED
        BY <3>1, <3>3, <4>1, SMTT(60) DEF QueueType
    <3> QED
      BY <1>0, <3>2, <3>3, Zenon
  <2>3. ASSUME NEW t \in Stream, NEW u \in Stream,
               NEW i \in DOMAIN outq'[t], NEW j \in DOMAIN outq'[u],
               outq'[t][i].id = outq'[u][j].id
        PROVE  t = u
    <3>1. ASSUME NEW v \in Stream, NEW k \in DOMAIN outq[v] PROVE outq[v][k].id < sp.id
      <4>1. outq[v][k].id <= msgs /\ outq[v][k].id \in Nat
        BY MsgFields, Zenon DEF IdsGrow
      <4> QED
        BY <4>1 DEF QueueType
    <3>2. CASE i \in DOMAIN outq[t] /\ outq'[t][i] = outq[t][i]
      <4>1. outq[t][i].id < sp.id /\ outq[t][i].id \in Nat
        BY <3>1, <3>2, MsgFields, Zenon
      <4>2. j \in DOMAIN outq[u] /\ outq'[u][j] = outq[u][j]
        BY <1>0, <2>3, <3>2, <4>1 DEF QueueType
      <4> QED
        BY <2>3, <3>2, <4>2 DEF IdsGrow
    <3>3. CASE t = s /\ outq'[t][i] = sp
      <4>1. CASE j \in DOMAIN outq[u] /\ outq'[u][j] = outq[u][j]
        <5>1. outq[u][j].id < sp.id /\ outq[u][j].id \in Nat
          BY <3>1, <4>1, MsgFields, Zenon
        <5> QED
          BY <2>3, <3>3, <4>1, <5>1 DEF QueueType
      <4> QED
        BY <1>0, <3>3, <4>1, Zenon
    <3> QED
      BY <1>0, <3>2, <3>3, Zenon
  <2> QED
    BY <2>1, <2>2, <2>3, Zenon DEF IdsGrow
<1>3. SentBefore'
  <2>1. ASSUME NEW i \in DOMAIN sendq, NEW t \in Stream, NEW k \in DOMAIN outq'[t]
        PROVE  /\ sendq[i].id = outq'[t][k].id =>
                    /\ t = sendq[i].sid
                    /\ outq'[t][k].discard \/ (sendq[i].mid = mid[t] /\ ~sendq[i].last)
               /\ t = sendq[i].sid => sendq[i].id <= outq'[t][k].id
    <3>1. CASE k \in DOMAIN outq[t] /\ outq'[t][k] = outq[t][k]
      BY <3>1, SMTT(60) DEF SentBefore
    <3>2. CASE outq'[t][k] = sp
      <4>1. sendq[i].id <= msgs /\ sendq[i].id \in Nat
        BY FragFields, Zenon DEF SentBefore
      <4> QED
        BY <3>2, <4>1, SMTT(60) DEF QueueType
    <3> QED
      BY <1>0, <3>1, <3>2, Zenon
  <2>2. \A i \in DOMAIN sendq : sendq[i].id <= msgs'
    BY FragFields DEF SentBefore, QueueType
  <2> QED
    BY <2>1, <2>2, FragFields DEF SentBefore
<1>4. StreamOrder'
  BY DEF StreamOrder
<1> QED
  BY <1>1, <1>2, <1>3, <1>4, Zenon

(* A fragment f of the head of stream s leaves; with the last one the head goes *)
(* or is given up.                                                              *)
Leaves(s, f, off) ==
  /\ s \in Stream /\ f \in Frag /\ off \in [Stream -> {0, 1}]
  /\ Shrinks(off) /\ outq' \in [Stream -> Seq(Msg)]
  /\ outq[s] # <<>> /\ f.id = outq[s][1].id /\ f.sid = s /\ f.mid = mid[s]
  /\ ~outq[s][1].discard
  /\ \A t \in Stream : off[t] = 1 => t = s
  /\ f.last => off[s] = 1 \/ outq'[s][1].discard
  /\ sendq' = Append(sendq, f)
  /\ mid' = [mid EXCEPT ![s] = IF f.last THEN @ + 1 ELSE @]
  /\ msgs' = msgs

(* Where the messages waiting after that were before it. *)
LEMMA LeavesPlace ==
  ASSUME QueueType, IdsGrow, NEW s, NEW f, NEW off, Leaves(s, f, off), NEW t \in Stream,
         NEW k \in DOMAIN outq'[t]
  PROVE  \E a \in DOMAIN outq[t] :
           /\ outq'[t][k].id = outq[t][a].id
           /\ outq[t][a].discard => outq'[t][k].discard
           /\ t = s => f.id <= outq[t][a].id
           /\ t = s /\ f.last => f.id < outq[t][a].id \/ outq'[t][k].discard
<1>1. /\ k \in Nat \ {0} /\ off[t] \in {0, 1} /\ k + off[t] \in DOMAIN outq[t]
      /\ outq'[t][k].id = outq[t][k + off[t]].id
      /\ outq[t][k + off[t]].discard => outq'[t][k].discard
  <2>1. outq[t] \in Seq(Msg) /\ outq'[t] \in Seq(Msg) /\ off[t] \in {0, 1}
    BY Zenon DEF QueueType, Leaves
  <2>2. /\ Len(outq[t]) = Len(outq'[t]) + off[t]
        /\ outq'[t][k].id = outq[t][k + off[t]].id
        /\ outq[t][k + off[t]].discard => outq'[t][k].discard
    BY Zenon DEF Shrinks, Leaves
  <2> QED
    BY <2>1, <2>2
<1> DEFINE a == k + off[t]
<1>2. /\ a \in DOMAIN outq[t] /\ outq'[t][k].id = outq[t][a].id /\ a \in Nat
      /\ outq[t][a].discard => outq'[t][k].discard
  BY <1>1
<1>3. 1 <= a
  BY <1>1
<1>4. t = s /\ f.last => 1 < a \/ outq'[t][k].discard
  <2>1. CASE k = 1
    BY <1>1, <2>1 DEF Leaves
  <2>2. CASE 1 < k
    BY <1>1, <2>2
  <2> QED
    BY <1>1, <2>1, <2>2
<1> HIDE DEF a
<1>5. ASSUME t = s PROVE 1 \in DOMAIN outq[t] /\ f.id = outq[t][1].id
  <2>1. s \in Stream /\ outq[s] # <<>> /\ f.id = outq[s][1].id
    BY Zenon DEF Leaves
  <2>2. outq[s] \in Seq(Msg)
    BY <2>1, Zenon DEF QueueType
  <2> QED
    BY <1>5, <2>1, <2>2
<1>6. ASSUME t = s, 1 < a PROVE f.id < outq[t][a].id
  BY <1>2, <1>5, <1>6, Zenon DEF IdsGrow
<1>7. ASSUME t = s PROVE f.id <= outq[t][a].id
  <2>1. CASE a = 1
    <3>1. f.id = outq[t][a].id /\ outq[t][a].id \in Nat
      BY <1>2, <1>5, <1>7, <2>1, MsgFields, Zenon
    <3> QED
      BY <3>1
  <2>2. CASE 1 < a
    <3>1. f.id < outq[t][a].id /\ f.id \in Nat /\ outq[t][a].id \in Nat
      BY <1>2, <1>6, <1>7, <2>2, MsgFields, Zenon DEF Frag, Leaves
    <3> QED
      BY <3>1
  <2> QED
    BY <1>2, <1>3, <2>1, <2>2
<1> QED
  BY <1>2, <1>4, <1>6, <1>7, Zenon

(* What was sent before from that stream. *)
LEMMA LeavesAfter ==
  ASSUME QueueType, SentBefore, NEW s, NEW f, NEW off, Leaves(s, f, off),
         NEW i \in DOMAIN sendq, sendq[i].sid = s
  PROVE  /\ sendq[i].id <= f.id
         /\ sendq[i].id = f.id => sendq[i].mid = f.mid /\ ~sendq[i].last
         /\ sendq[i].last => sendq[i].mid < f.mid
<1>1. s \in Stream /\ outq[s] \in Seq(Msg) /\ outq[s] # <<>> /\ f.id = outq[s][1].id /\ f.mid = mid[s]
  BY Zenon DEF QueueType, Leaves
<1>2. 1 \in DOMAIN outq[s]
  BY <1>1
<1>3. sendq[i].id <= outq[s][1].id
  BY <1>1, <1>2, Zenon DEF SentBefore
<1>4. sendq[i].id = outq[s][1].id => sendq[i].mid = mid[s] /\ ~sendq[i].last
  <2>1. ~outq[s][1].discard
    BY Zenon DEF Leaves
  <2> QED
    BY <1>1, <1>2, <2>1, Zenon DEF SentBefore
<1>5. sendq[i].last => sendq[i].mid < mid[s]
  BY Zenon DEF SentBefore
<1> QED
  BY <1>1, <1>3, <1>4, <1>5, Zenon

(* Message ids only grow, and do when a message has left. *)
LEMMA LeavesMid ==
  ASSUME QueueType, NEW s, NEW f, NEW off, Leaves(s, f, off)
  PROVE  /\ mid' \in [Stream -> Nat]
         /\ \A t \in Stream : /\ mid[t] \in Nat /\ mid'[t] \in Nat /\ mid[t] <= mid'[t]
                              /\ ~(t = s /\ f.last) => mid'[t] = mid[t]
                              /\ t = s /\ f.last => mid[t] < mid'[t]
<1>1. f.last \in BOOLEAN
  BY Zenon DEF Frag, Leaves
<1>2. s \in Stream /\ mid \in [Stream -> Nat] /\ mid' = [mid EXCEPT ![s] = IF f.last THEN @ + 1 ELSE @]
  BY Zenon DEF QueueType, Leaves
<1> QED
  BY <1>1, <1>2

LEMMA LeavesSent ==
  ASSUME QueueType, NEW s, NEW f, NEW off, Leaves(s, f, off)
  PROVE  /\ sendq' \in Seq(Frag)
         /\ \A i \in DOMAIN sendq' : \/ i \in DOMAIN sendq /\ sendq'[i] = sendq[i]
                                     \/ i = Len(sendq) + 1 /\ sendq'[i] = f
         /\ \A i, j \in DOMAIN sendq' : i < j => i \in DOMAIN sendq /\ sendq'[i] = sendq[i]
<1>1. f \in Frag /\ sendq \in Seq(Frag) /\ sendq' = Append(sendq, f)
  BY Zenon DEF QueueType, Leaves
<1>2. sendq' \in Seq(Frag) /\ Len(sendq) \in Nat /\ Len(sendq') = Len(sendq) + 1
  BY <1>1
<1>3. ASSUME NEW i \in DOMAIN sendq'
      PROVE  /\ i \in 1 .. Len(sendq) + 1
             /\ i <= Len(sendq) => i \in DOMAIN sendq /\ sendq'[i] = sendq[i]
             /\ i = Len(sendq) + 1 => sendq'[i] = f
  BY <1>1
<1>4. ASSUME NEW i \in DOMAIN sendq'
      PROVE  \/ i \in DOMAIN sendq /\ sendq'[i] = sendq[i]
             \/ i = Len(sendq) + 1 /\ sendq'[i] = f
  BY <1>2, <1>3
<1>5. ASSUME NEW i \in DOMAIN sendq', NEW j \in DOMAIN sendq', i < j
      PROVE  i \in DOMAIN sendq /\ sendq'[i] = sendq[i]
  BY <1>2, <1>3, <1>5
<1> QED
  BY <1>2, <1>4, <1>5, Zenon

LEMMA FragmentOrder ==
  ASSUME OrderInv, NEW s, NEW f, NEW off, Leaves(s, f, off)
  PROVE  OrderInv'
<1>1. QueueType /\ IdsGrow /\ SentBefore /\ StreamOrder
  BY Zenon DEF OrderInv
<1>2. /\ mid' \in [Stream -> Nat]
      /\ \A t \in Stream : /\ mid[t] \in Nat /\ mid'[t] \in Nat /\ mid[t] <= mid'[t]
                           /\ ~(t = s /\ f.last) => mid'[t] = mid[t]
                           /\ t = s /\ f.last => mid[t] < mid'[t]
  BY <1>1, LeavesMid, Zenon
<1>3. /\ sendq' \in Seq(Frag)
      /\ \A i \in DOMAIN sendq' : \/ i \in DOMAIN sendq /\ sendq'[i] = sendq[i]
                                  \/ i = Len(sendq) + 1 /\ sendq'[i] = f
      /\ \A i, j \in DOMAIN sendq' : i < j => i \in DOMAIN sendq /\ sendq'[i] = sendq[i]
  BY <1>1, LeavesSent, Zenon
<1>4. /\ s \in Stream /\ f.id \in Nat /\ f.sid = s /\ f.mid = mid[s] /\ f.last \in BOOLEAN /\ msgs' = msgs
      /\ 1 \in DOMAIN outq[s] /\ f.id = outq[s][1].id
  <2>1. s \in Stream /\ f.id \in Nat /\ f.last \in BOOLEAN
    BY Zenon DEF Frag, Leaves
  <2>2. f.sid = s /\ f.mid = mid[s] /\ msgs' = msgs /\ outq[s] # <<>> /\ f.id = outq[s][1].id
    BY Zenon DEF Leaves
  <2>3. outq[s] \in Seq(Msg)
    BY <1>1, <2>1, Zenon DEF QueueType
  <2> QED
    BY <2>1, <2>2, <2>3
<1>5. QueueType'
  BY <1>1, <1>2, <1>3, <1>4, Zenon DEF QueueType, Leaves
<1>6. IdsGrow'
  BY <1>1, <1>4, ShrinkIds, Zenon DEF Leaves
<1>7. ASSUME NEW i \in DOMAIN sendq, NEW t \in Stream, NEW k \in DOMAIN outq'[t]
      PROVE  /\ sendq[i].id = outq'[t][k].id =>
                  /\ t = sendq[i].sid
                  /\ outq'[t][k].discard \/ (sendq[i].mid = mid'[t] /\ ~sendq[i].last)
             /\ t = sendq[i].sid => sendq[i].id <= outq'[t][k].id
  <2>1. PICK a \in DOMAIN outq[t] :
             /\ outq'[t][k].id = outq[t][a].id
             /\ outq[t][a].discard => outq'[t][k].discard
             /\ t = s => f.id <= outq[t][a].id
             /\ t = s /\ f.last => f.id < outq[t][a].id \/ outq'[t][k].discard
    BY <1>1, LeavesPlace
  <2>2. /\ sendq[i].id = outq[t][a].id =>
             /\ t = sendq[i].sid
             /\ outq[t][a].discard \/ (sendq[i].mid = mid[t] /\ ~sendq[i].last)
        /\ t = sendq[i].sid => sendq[i].id <= outq[t][a].id
    BY <1>1, Zenon DEF SentBefore
  <2>3. sendq[i].id = outq[t][a].id => ~(t = s /\ f.last) \/ outq'[t][k].discard
    <3>1. ASSUME sendq[i].id = outq[t][a].id, t = s, f.last, ~outq'[t][k].discard PROVE FALSE
      <4>1. sendq[i].sid = s
        BY <2>2, <3>1, Zenon
      <4>2. sendq[i].id <= f.id
        BY <1>1, <4>1, LeavesAfter, Zenon
      <4>3. f.id < sendq[i].id /\ sendq[i].id \in Nat
        BY <1>1, <2>1, <3>1, FragFields, Zenon
      <4> QED
        BY <1>4, <4>2, <4>3
    <3> QED
      BY <3>1, Zenon
  <2>4. sendq[i].id = outq[t][a].id => mid'[t] = mid[t] \/ outq'[t][k].discard
    BY <1>2, <2>3, Zenon
  <2> QED
    BY <2>1, <2>2, <2>4, Zenon
<1>8. ASSUME NEW t \in Stream, NEW k \in DOMAIN outq'[t]
      PROVE  /\ f.id = outq'[t][k].id =>
                  t = s /\ (outq'[t][k].discard \/ (f.mid = mid'[t] /\ ~f.last))
             /\ t = s => f.id <= outq'[t][k].id
  <2>1. PICK a \in DOMAIN outq[t] :
             /\ outq'[t][k].id = outq[t][a].id
             /\ outq[t][a].discard => outq'[t][k].discard
             /\ t = s => f.id <= outq[t][a].id
             /\ t = s /\ f.last => f.id < outq[t][a].id \/ outq'[t][k].discard
    BY <1>1, LeavesPlace
  <2>2. f.id = outq[t][a].id => t = s
    <3>1. \A x, y \in Stream : \A i \in DOMAIN outq[x], j \in DOMAIN outq[y] :
            outq[x][i].id = outq[y][j].id => x = y
      BY <1>1, Zenon DEF IdsGrow
    <3>2. s \in Stream /\ 1 \in DOMAIN outq[s] /\ a \in DOMAIN outq[t]
      BY <1>4, Zenon
    <3>3. outq[s][1].id = outq[t][a].id => s = t
      BY <3>1, <3>2, Zenon
    <3> QED
      BY <1>4, <3>3, Zenon
  <2>3. f.id = outq[t][a].id => ~f.last \/ outq'[t][k].discard
    BY <1>4, <2>1, <2>2
  <2>4. t = s /\ ~f.last => f.mid = mid'[t]
    BY <1>2, <1>4, Zenon
  <2>5. ASSUME f.id = outq'[t][k].id
        PROVE  t = s /\ (outq'[t][k].discard \/ (f.mid = mid'[t] /\ ~f.last))
    <3>1. f.id = outq[t][a].id
      BY <2>1, <2>5, Zenon
    <3>2. t = s /\ (~f.last \/ outq'[t][k].discard)
      BY <2>2, <2>3, <3>1, Zenon
    <3> QED
      BY <2>4, <3>2, Zenon
  <2>6. t = s => f.id <= outq'[t][k].id
    BY <2>1, Zenon
  <2> QED
    BY <2>5, <2>6, Zenon
<1>9. ASSUME NEW i \in DOMAIN sendq
      PROVE  /\ sendq[i].id <= msgs' /\ sendq[i].mid <= mid'[sendq[i].sid]
             /\ sendq[i].last => sendq[i].mid < mid'[sendq[i].sid]
  <2>1. sendq[i].sid \in Stream /\ sendq[i].mid \in Nat
    BY <1>1, FragFields, Zenon
  <2>2. /\ sendq[i].id <= msgs /\ sendq[i].mid <= mid[sendq[i].sid]
        /\ sendq[i].last => sendq[i].mid < mid[sendq[i].sid]
    BY <1>1, Zenon DEF SentBefore
  <2>3. /\ mid[sendq[i].sid] \in Nat /\ mid'[sendq[i].sid] \in Nat
        /\ mid[sendq[i].sid] <= mid'[sendq[i].sid]
    BY <1>2, <2>1, Zenon
  <2> QED
    BY <1>4, <2>1, <2>2, <2>3
<1>10. f.id <= msgs' /\ f.mid <= mid'[s] /\ (f.last => f.mid < mid'[s])
  <2>1. f.id <= msgs
    BY <1>1, <1>4, Zenon DEF IdsGrow
  <2> QED
    BY <1>2, <1>4, <2>1, Zenon
<1>11. SentBefore'
  <2>1. ASSUME NEW i \in DOMAIN sendq'
        PROVE  (/\ sendq[i].id <= msgs
                /\ sendq[i].mid <= mid[sendq[i].sid]
                /\ sendq[i].last => sendq[i].mid < mid[sendq[i].sid]
                /\ \A t \in Stream : \A k \in DOMAIN outq[t] : sendq[i].id = outq[t][k].id =>
                     /\ t = sendq[i].sid
                     /\ outq[t][k].discard \/ (sendq[i].mid = mid[t] /\ ~sendq[i].last)
                /\ \A k \in DOMAIN outq[sendq[i].sid] :
                     sendq[i].id <= outq[sendq[i].sid][k].id)'
    <3>1. CASE i \in DOMAIN sendq /\ sendq'[i] = sendq[i]
      <4>1. sendq[i].sid \in Stream
        BY <1>1, <3>1, FragFields, Zenon
      <4> QED
        BY <1>7, <1>9, <3>1, <4>1
    <3>2. CASE sendq'[i] = f
      BY <1>4, <1>8, <1>10, <3>2, Zenon
    <3> QED
      BY <1>3, <3>1, <3>2, Zenon
  <2> QED
    BY <2>1, Zenon DEF SentBefore
<1>12. StreamOrder'
  <2>1. ASSUME NEW i \in DOMAIN sendq', NEW j \in DOMAIN sendq', i < j,
               sendq'[i].sid = sendq'[j].sid
        PROVE  /\ sendq'[i].id <= sendq'[j].id
               /\ sendq'[i].id = sendq'[j].id => sendq'[i].mid = sendq'[j].mid
               /\ sendq'[i].id # sendq'[j].id /\ sendq'[i].last => sendq'[i].mid < sendq'[j].mid
    <3>1. i \in DOMAIN sendq /\ sendq'[i] = sendq[i]
      BY <1>3, <2>1, Zenon
    <3>2. CASE j \in DOMAIN sendq /\ sendq'[j] = sendq[j]
      BY <1>1, <2>1, <3>1, <3>2 DEF StreamOrder
    <3>3. CASE sendq'[j] = f
      <4>1. sendq[i].sid = s
        BY <1>4, <2>1, <3>1, <3>3, Zenon
      <4>2. /\ sendq[i].id <= f.id
            /\ sendq[i].id = f.id => sendq[i].mid = f.mid /\ ~sendq[i].last
            /\ sendq[i].last => sendq[i].mid < f.mid
        BY <1>1, <3>1, <4>1, LeavesAfter, Zenon
      <4> QED
        BY <3>1, <3>3, <4>2, Zenon
    <3> QED
      BY <1>3, <3>2, <3>3, Zenon
  <2> QED
    BY <2>1, Zenon DEF StreamOrder
<1> QED
  BY <1>5, <1>6, <1>11, <1>12, Zenon DEF OrderInv

(* The last fragment of the head of stream s is made its end, the rest given up. *)
Ends(s, i) ==
  /\ s \in Stream /\ outq[s] # <<>> /\ Shrinks(Stays)
  /\ outq' \in [Stream -> Seq(Msg)] /\ outq'[s][1].discard
  /\ i \in DOMAIN sendq /\ sendq[i].id = outq[s][1].id
  /\ sendq' = [sendq EXCEPT ![i].last = TRUE]
  /\ mid' = [mid EXCEPT ![s] = @ + 1]
  /\ msgs' = msgs

LEMMA EndsSent ==
  ASSUME QueueType, NEW s, NEW i, Ends(s, i)
  PROVE  /\ sendq' \in Seq(Frag) /\ DOMAIN sendq' = DOMAIN sendq
         /\ \A j \in DOMAIN sendq :
              /\ sendq'[j].id = sendq[j].id /\ sendq'[j].sid = sendq[j].sid
              /\ sendq'[j].mid = sendq[j].mid /\ sendq'[j].first = sendq[j].first
              /\ j # i => sendq'[j].last = sendq[j].last
              /\ j = i => sendq'[j].last
<1>1. sendq \in Seq(Frag) /\ i \in DOMAIN sendq /\ sendq' = [sendq EXCEPT ![i].last = TRUE]
  BY Zenon DEF QueueType, Ends
<1>2. \A j \in DOMAIN sendq : sendq[j] \in Frag
  BY <1>1
<1>3. [sendq[i] EXCEPT !.last = TRUE] \in Frag
  BY <1>1, <1>2, Zenon DEF Frag
<1>4. sendq' = [sendq EXCEPT ![i] = [sendq[i] EXCEPT !.last = TRUE]]
  BY <1>1, Zenon
<1>5. sendq' \in Seq(Frag) /\ DOMAIN sendq' = DOMAIN sendq
  BY <1>1, <1>3, <1>4
<1>6. ASSUME NEW j \in DOMAIN sendq
      PROVE  /\ sendq'[j].id = sendq[j].id /\ sendq'[j].sid = sendq[j].sid
             /\ sendq'[j].mid = sendq[j].mid /\ sendq'[j].first = sendq[j].first
             /\ j # i => sendq'[j].last = sendq[j].last
             /\ j = i => sendq'[j].last
  <2>1. CASE j = i
    <3>1. sendq'[j] = [sendq[i] EXCEPT !.last = TRUE] /\ sendq[i] \in Frag
      BY <1>1, <1>2, <1>4, <2>1, Zenon
    <3> QED
      BY <2>1, <3>1, Zenon DEF Frag
  <2>2. CASE j # i
    <3>1. sendq'[j] = sendq[j]
      BY <1>1, <1>4, <2>2, Zenon
    <3> QED
      BY <2>2, <3>1, Zenon
  <2> QED
    BY <2>1, <2>2, Zenon
<1> QED
  BY <1>5, <1>6, Zenon

LEMMA EndsOrder ==
  ASSUME OrderInv, NEW s, NEW i, Ends(s, i)
  PROVE  OrderInv'
<1>1. QueueType /\ IdsGrow /\ SentBefore /\ StreamOrder
  BY Zenon DEF OrderInv
<1>2. /\ sendq' \in Seq(Frag) /\ DOMAIN sendq' = DOMAIN sendq
      /\ \A j \in DOMAIN sendq :
           /\ sendq'[j].id = sendq[j].id /\ sendq'[j].sid = sendq[j].sid
           /\ sendq'[j].mid = sendq[j].mid /\ sendq'[j].first = sendq[j].first
           /\ j # i => sendq'[j].last = sendq[j].last
           /\ j = i => sendq'[j].last
  BY <1>1, EndsSent, Zenon
<1>3. /\ s \in Stream /\ i \in DOMAIN sendq /\ 1 \in DOMAIN outq[s]
      /\ sendq[i].id = outq[s][1].id /\ msgs' = msgs /\ outq'[s][1].discard
  <2>1. s \in Stream /\ outq[s] # <<>> /\ outq[s] \in Seq(Msg)
    BY <1>1, Zenon DEF QueueType, Ends
  <2>2. 1 \in DOMAIN outq[s]
    BY <2>1
  <2> QED
    BY <2>1, <2>2, Zenon DEF Ends
<1>4. \A t \in Stream : /\ mid[t] \in Nat /\ mid'[t] \in Nat
                        /\ mid'[t] = IF t = s THEN mid[t] + 1 ELSE mid[t]
  <2>1. mid \in [Stream -> Nat] /\ mid' = [mid EXCEPT ![s] = @ + 1]
    BY <1>1, Zenon DEF QueueType, Ends
  <2> QED
    BY <1>3, <2>1
<1>5. QueueType'
  BY <1>1, <1>2, <1>3, <1>4, Zenon DEF QueueType, Ends
<1>6. IdsGrow'
  <2>1. Stays \in [Stream -> {0, 1}]
    BY Zenon DEF Stays
  <2> QED
    BY <1>1, <1>3, <2>1, ShrinkIds, Zenon DEF Ends
<1>7. ASSUME NEW t \in Stream, NEW k \in DOMAIN outq'[t]
      PROVE  /\ k \in DOMAIN outq[t] /\ outq'[t][k].id = outq[t][k].id
             /\ outq[t][k].discard => outq'[t][k].discard
  <2>1. outq[t] \in Seq(Msg) /\ outq'[t] \in Seq(Msg)
    BY <1>1, <1>5, Zenon DEF QueueType
  <2>2. /\ Len(outq[t]) = Len(outq'[t]) + 0 /\ outq'[t][k].id = outq[t][k + 0].id
        /\ outq[t][k + 0].discard => outq'[t][k].discard
    BY Zenon DEF Ends, Shrinks, Stays
  <2> QED
    BY <2>1, <2>2
<1>8. sendq[i].sid = s
  BY <1>1, <1>3, Zenon DEF SentBefore
<1>9. ASSUME NEW j \in DOMAIN sendq, sendq[j].sid = s
      PROVE  sendq[j].id <= sendq[i].id /\ sendq[j].id \in Nat /\ sendq[i].id \in Nat
  <2>1. sendq[j].id <= outq[s][1].id
    BY <1>1, <1>3, <1>9, Zenon DEF SentBefore
  <2> QED
    BY <1>1, <1>3, <2>1, FragFields, Zenon
<1>10. ASSUME NEW j \in DOMAIN sendq, NEW t \in Stream, NEW k \in DOMAIN outq'[t]
       PROVE  /\ sendq'[j].id = outq'[t][k].id =>
                   /\ t = sendq'[j].sid
                   /\ outq'[t][k].discard \/ (sendq'[j].mid = mid'[t] /\ ~sendq'[j].last)
              /\ t = sendq'[j].sid => sendq'[j].id <= outq'[t][k].id
  <2>1. /\ sendq'[j].id = sendq[j].id /\ sendq'[j].sid = sendq[j].sid
        /\ sendq'[j].mid = sendq[j].mid /\ (j # i => sendq'[j].last = sendq[j].last)
    BY <1>2, Zenon
  <2>2. /\ k \in DOMAIN outq[t] /\ outq'[t][k].id = outq[t][k].id
        /\ outq[t][k].discard => outq'[t][k].discard
    BY <1>7, Zenon
  <2>3. /\ sendq[j].id = outq[t][k].id =>
             /\ t = sendq[j].sid
             /\ outq[t][k].discard \/ (sendq[j].mid = mid[t] /\ ~sendq[j].last)
        /\ t = sendq[j].sid => sendq[j].id <= outq[t][k].id
    BY <1>1, <2>2, Zenon DEF SentBefore
  <2>4. ASSUME sendq[j].id = outq[t][k].id
        PROVE  outq'[t][k].discard \/ (sendq'[j].mid = mid'[t] /\ ~sendq'[j].last)
    <3>1. CASE t # s
      <4>1. j # i /\ mid'[t] = mid[t]
        BY <1>4, <1>8, <2>3, <2>4, <3>1, Zenon
      <4> QED
        BY <2>1, <2>2, <2>3, <2>4, <4>1, Zenon
    <3>2. CASE t = s
      <4>1. sendq[j].id <= outq[s][1].id /\ outq[s][1].id \in Nat
        BY <1>1, <1>3, <1>9, <2>3, <2>4, <3>2, MsgFields, Zenon
      <4>2. CASE k = 1
        BY <1>3, <3>2, <4>2, Zenon
      <4>3. CASE k # 1
        <5>1. 1 < k
          <6>1. outq[s] \in Seq(Msg)
            BY <1>1, <1>3, Zenon DEF QueueType
          <6> QED
            BY <2>2, <3>2, <4>3, <6>1
        <5>2. outq[s][1].id < outq[s][k].id
          BY <1>1, <1>3, <2>2, <3>2, <5>1, Zenon DEF IdsGrow
        <5> QED
          BY <1>1, <2>2, <2>4, <3>2, <4>1, <5>2, MsgFields, SMTT(60)
      <4> QED
        BY <4>2, <4>3, Zenon
    <3> QED
      BY <3>1, <3>2, Zenon
  <2> QED
    BY <2>1, <2>2, <2>3, <2>4, Zenon
<1>11. ASSUME NEW j \in DOMAIN sendq
       PROVE  /\ sendq'[j].id <= msgs' /\ sendq'[j].mid <= mid'[sendq'[j].sid]
              /\ sendq'[j].last => sendq'[j].mid < mid'[sendq'[j].sid]
              /\ sendq'[j].sid \in Stream
  <2>1. /\ sendq'[j].id = sendq[j].id /\ sendq'[j].sid = sendq[j].sid
        /\ sendq'[j].mid = sendq[j].mid /\ (j # i => sendq'[j].last = sendq[j].last)
    BY <1>2, Zenon
  <2>2. sendq[j].sid \in Stream /\ sendq[j].mid \in Nat
    BY <1>1, FragFields, Zenon
  <2>3. /\ sendq[j].id <= msgs /\ sendq[j].mid <= mid[sendq[j].sid]
        /\ sendq[j].last => sendq[j].mid < mid[sendq[j].sid]
    BY <1>1, Zenon DEF SentBefore
  <2>4. /\ mid[sendq[j].sid] \in Nat /\ mid'[sendq[j].sid] \in Nat
        /\ mid'[sendq[j].sid] = IF sendq[j].sid = s THEN mid[sendq[j].sid] + 1 ELSE mid[sendq[j].sid]
    BY <1>4, <2>2, Zenon
  <2>5. sendq[j].mid <= mid'[sendq[j].sid]
    BY <2>2, <2>3, <2>4
  <2>6. sendq'[j].last => sendq[j].mid < mid'[sendq[j].sid]
    <3>1. CASE j = i
      BY <1>8, <2>2, <2>3, <2>4, <3>1
    <3>2. CASE j # i
      <4>1. sendq'[j].last => sendq[j].mid < mid[sendq[j].sid]
        BY <2>1, <2>3, <3>2, Zenon
      <4> QED
        BY <2>2, <2>4, <4>1
    <3> QED
      BY <3>1, <3>2, Zenon
  <2> QED
    BY <1>3, <2>1, <2>2, <2>3, <2>5, <2>6, Zenon
<1>12. SentBefore'
  BY <1>2, <1>10, <1>11 DEF SentBefore
<1>13. StreamOrder'
  <2>1. ASSUME NEW j \in DOMAIN sendq, NEW l \in DOMAIN sendq, j < l, sendq[j].sid = sendq[l].sid
        PROVE  /\ sendq[j].id <= sendq[l].id
               /\ sendq[j].id = sendq[l].id => sendq[j].mid = sendq[l].mid
               /\ sendq[j].id # sendq[l].id /\ sendq'[j].last => sendq[j].mid < sendq[l].mid
    <3>1. /\ sendq[j].id <= sendq[l].id
          /\ sendq[j].id = sendq[l].id => sendq[j].mid = sendq[l].mid
          /\ sendq[j].id # sendq[l].id /\ sendq[j].last => sendq[j].mid < sendq[l].mid
      BY <1>1, <2>1, Zenon DEF StreamOrder
    <3>2. CASE j = i
      <4>1. sendq[l].id <= sendq[i].id /\ sendq[l].id \in Nat /\ sendq[i].id \in Nat
        BY <1>8, <1>9, <2>1, <3>2, Zenon
      <4> QED
        BY <3>1, <3>2, <4>1
    <3>3. CASE j # i
      BY <1>2, <3>1, <3>3, Zenon
    <3> QED
      BY <3>2, <3>3, Zenon
  <2>2. \A j \in DOMAIN sendq : /\ sendq'[j].id = sendq[j].id /\ sendq'[j].sid = sendq[j].sid
                                /\ sendq'[j].mid = sendq[j].mid
    BY <1>2, Zenon
  <2> QED
    BY <1>2, <2>1, <2>2 DEF StreamOrder
<1> QED
  BY <1>5, <1>6, <1>12, <1>13, Zenon DEF OrderInv

-----------------------------------------------------------------------------
(* A message changes in place. *)
LEMMA PlaceChange ==
  ASSUME QueueType, NEW s \in Stream, NEW k \in DOMAIN outq[s], NEW m \in Msg,
         m.id = outq[s][k].id, outq[s][k].discard => m.discard,
         outq' = [outq EXCEPT ![s] = [outq[s] EXCEPT ![k] = m]]
  PROVE  /\ outq' \in [Stream -> Seq(Msg)] /\ Stays \in [Stream -> {0, 1}] /\ Shrinks(Stays)
         /\ DOMAIN outq'[s] = DOMAIN outq[s] /\ outq'[s][k] = m
<1>1. outq \in [Stream -> Seq(Msg)] /\ outq[s] \in Seq(Msg)
  BY Zenon DEF QueueType
<1>2. [outq[s] EXCEPT ![k] = m] \in Seq(Msg) /\ Len([outq[s] EXCEPT ![k] = m]) = Len(outq[s])
  BY <1>1
<1>3. outq' \in [Stream -> Seq(Msg)]
  BY <1>1, <1>2, Zenon
<1>4. ASSUME NEW t \in Stream
      PROVE  /\ Len(outq[t]) = Len(outq'[t]) /\ Len(outq[t]) \in Nat
             /\ \A j \in DOMAIN outq'[t] : j + 0 = j /\ outq'[t][j].id = outq[t][j].id
                                           /\ (outq[t][j].discard => outq'[t][j].discard)
  <2>1. CASE t = s
    <3>1. outq'[t] = [outq[s] EXCEPT ![k] = m]
      BY <1>1, <2>1, Zenon
    <3> QED
      BY <1>1, <1>2, <2>1, <3>1
  <2>2. CASE t # s
    <3>1. outq'[t] = outq[t] /\ outq[t] \in Seq(Msg)
      BY <1>1, <2>2, Zenon
    <3> QED
      BY <3>1
  <2> QED
    BY <2>1, <2>2, Zenon
<1>5. Stays \in [Stream -> {0, 1}] /\ \A t \in Stream : Stays[t] = 0
  BY Zenon DEF Stays
<1>6. Shrinks(Stays)
  BY <1>4, <1>5 DEF Shrinks
<1>7. DOMAIN outq'[s] = DOMAIN outq[s] /\ outq'[s][k] = m
  BY <1>1, Zenon
<1> QED
  BY <1>3, <1>5, <1>6, <1>7, Zenon

(* The first message of stream s goes. *)
Goes(s) == [t \in Stream |-> IF t = s THEN 1 ELSE 0]

LEMMA HeadGoes ==
  ASSUME QueueType, NEW s \in Stream, outq[s] # <<>>,
         outq' = [outq EXCEPT ![s] = Tail(outq[s])]
  PROVE  outq' \in [Stream -> Seq(Msg)] /\ Goes(s) \in [Stream -> {0, 1}] /\ Shrinks(Goes(s))
<1>1. outq \in [Stream -> Seq(Msg)] /\ outq[s] \in Seq(Msg)
  BY Zenon DEF QueueType
<1>2. /\ Tail(outq[s]) \in Seq(Msg) /\ Len(outq[s]) = Len(Tail(outq[s])) + 1
      /\ \A j \in DOMAIN Tail(outq[s]) : Tail(outq[s])[j] = outq[s][j + 1]
  BY <1>1
<1>3. outq' \in [Stream -> Seq(Msg)]
  BY <1>1, <1>2, Zenon
<1>4. Goes(s) \in [Stream -> {0, 1}] /\ \A t \in Stream : Goes(s)[t] = IF t = s THEN 1 ELSE 0
  BY Zenon DEF Goes
<1>5. ASSUME NEW t \in Stream
      PROVE  /\ Len(outq[t]) = Len(outq'[t]) + Goes(s)[t]
             /\ \A j \in DOMAIN outq'[t] :
                  /\ outq'[t][j].id = outq[t][j + Goes(s)[t]].id
                  /\ outq[t][j + Goes(s)[t]].discard => outq'[t][j].discard
  <2>1. CASE t = s
    <3>1. outq'[t] = Tail(outq[s]) /\ Goes(s)[t] = 1
      BY <1>1, <1>4, <2>1, Zenon
    <3> QED
      BY <1>2, <2>1, <3>1, Zenon
  <2>2. CASE t # s
    <3>1. outq'[t] = outq[t] /\ outq[t] \in Seq(Msg) /\ Goes(s)[t] = 0
      BY <1>1, <1>4, <2>2, Zenon
    <3>2. Len(outq[t]) = Len(outq'[t]) + Goes(s)[t]
      <4>1. Len(outq[t]) \in Nat /\ Len(outq[t]) + 0 = Len(outq[t])
        BY <3>1
      <4> QED
        BY <3>1, <4>1, Zenon
    <3>3. \A j \in DOMAIN outq[t] : j + Goes(s)[t] = j
      BY <3>1
    <3> QED
      BY <3>1, <3>2, <3>3, Zenon
  <2> QED
    BY <2>1, <2>2, Zenon
<1>6. Shrinks(Goes(s))
  BY <1>5, Zenon DEF Shrinks
<1> QED
  BY <1>3, <1>4, <1>6, Zenon

-----------------------------------------------------------------------------
(* The actions *)

LEMMA UnchangedOrder ==
  ASSUME OrderInv, UNCHANGED <<outq, sendq, mid, msgs>>
  PROVE  OrderInv'
  BY SMTT(60) DEF OrderInv, QueueType, IdsGrow, SentBefore, StreamOrder

LEMMA EnqueueStep ==
  ASSUME OrderInv, NEW s \in Stream, NEW n \in Pin, NEW len \in 1..MaxLen,
         NEW complete \in BOOLEAN, Enqueue(s, n, len, complete)
  PROVE  OrderInv'
<1> DEFINE sp == [id |-> msgs + 1, net |-> n, len |-> len, taken |-> FALSE,
                  complete |-> complete, discard |-> FALSE]
<1>1. sp \in Msg
  BY SchedulerAssumption DEF OrderInv, QueueType, Msg
<1>2. /\ outq' = [outq EXCEPT ![s] = Append(@, sp)] /\ msgs' = msgs + 1
      /\ UNCHANGED <<sendq, mid>>
  BY Zenon DEF Enqueue, Queued
<1>3. sp.id = msgs + 1
  BY Zenon
<1> HIDE DEF sp
<1> QED
  BY <1>1, <1>2, <1>3, EnqueueOrder, Zenon

LEMMA MsgGrows ==
  ASSUME NEW r \in Msg, NEW len \in Nat, NEW complete \in BOOLEAN
  PROVE  /\ [r EXCEPT !.len = @ + len, !.complete = complete] \in Msg
         /\ [r EXCEPT !.len = @ + len, !.complete = complete].id = r.id
         /\ [r EXCEPT !.len = @ + len, !.complete = complete].discard = r.discard
<1>1. r.len + len \in Nat
  BY DEF Msg
<1>2. [r EXCEPT !.len = r.len + len, !.complete = complete] \in Msg
  BY <1>1, Zenon DEF Msg
<1> QED
  BY <1>2, Zenon DEF Msg

LEMMA SendMoreStep ==
  ASSUME OrderInv, NEW s \in Stream, NEW len \in 1..MaxLen, NEW complete \in BOOLEAN,
         SendMore(s, len, complete)
  PROVE  OrderInv'
<1> DEFINE k == Len(outq[s])
           m == [outq[s][k] EXCEPT !.len = @ + len, !.complete = complete]
<1>1. QueueType
  BY Zenon DEF OrderInv
<1>2. k \in DOMAIN outq[s]
  <2>1. outq[s] \in Seq(Msg) /\ outq[s] # <<>>
    BY <1>1, Zenon DEF QueueType, SendMore, Begun
  <2> QED
    BY <2>1
<1>3. outq[s][k] \in Msg
  BY <1>1, <1>2, MsgFields, Zenon
<1>4. m \in Msg /\ m.id = outq[s][k].id /\ m.discard = outq[s][k].discard
  <2>1. len \in Nat
    OBVIOUS
  <2> QED
    BY <1>3, <2>1, MsgGrows, ZenonT(60)
<1>5. outq' = [outq EXCEPT ![s] = [outq[s] EXCEPT ![k] = m]]
  <2>1. outq \in [Stream -> Seq(Msg)] /\ outq[s] \in Seq(Msg)
    BY <1>1, Zenon DEF QueueType
  <2>2. outq' = [outq EXCEPT ![s][k].len = @ + len, ![s][k].complete = complete]
    BY Zenon DEF SendMore
  <2> QED
    BY <1>2, <1>3, <2>1, <2>2, Zenon DEF Msg
<1>6. UNCHANGED <<sendq, mid, msgs>>
  BY Zenon DEF SendMore
<1> HIDE DEF k, m
<1>7. outq' \in [Stream -> Seq(Msg)] /\ Stays \in [Stream -> {0, 1}] /\ Shrinks(Stays)
  BY <1>1, <1>2, <1>4, <1>5, PlaceChange, Zenon
<1> QED
  BY <1>6, <1>7, ShrinkOrder, Zenon

LEMMA ChunkFields ==
  ASSUME QueueType, NEW sp \in Msg, NEW s \in Stream, NEW ends \in BOOLEAN, NEW first \in BOOLEAN
  PROVE  LET f == Chunk(sp, s, first, ends)
         IN  /\ f \in Frag /\ f.id = sp.id /\ f.sid = s /\ f.mid = mid[s]
             /\ f.first <=> first
             /\ f.last <=> ends
<1>1. sp.id \in Nat /\ mid[s] \in Nat
  BY Zenon DEF Msg, QueueType
<1>2. Chunk(sp, s, first, ends) \in Frag
  BY <1>1, Zenon DEF Chunk, Frag
<1> QED
  BY <1>2, Zenon DEF Chunk

(* What the guards of the actions say of the head of stream s. *)
LEMMA HeadFacts ==
  ASSUME QueueType, NEW s \in Stream, outq[s] # <<>>
  PROVE  /\ outq[s] \in Seq(Msg) /\ 1 \in DOMAIN outq[s] /\ outq[s][1] \in Msg
         /\ Head(outq[s]) = outq[s][1]
<1>1. outq[s] \in Seq(Msg)
  BY Zenon DEF QueueType
<1>2. 1 \in DOMAIN outq[s]
  BY <1>1
<1> QED
  BY <1>1, <1>2

(* Edits of the head that keep its identity. *)
LEMMA HeadEdit ==
  ASSUME QueueType, NEW s \in Stream, outq[s] # <<>>, NEW m \in Msg,
         m.id = outq[s][1].id, outq[s][1].discard => m.discard,
         outq' = [outq EXCEPT ![s] = [outq[s] EXCEPT ![1] = m]]
  PROVE  /\ outq' \in [Stream -> Seq(Msg)] /\ Stays \in [Stream -> {0, 1}] /\ Shrinks(Stays)
         /\ outq'[s][1] = m
<1>1. 1 \in DOMAIN outq[s]
  BY HeadFacts, Zenon
<1> QED
  BY <1>1, PlaceChange, Zenon

LEMMA MsgMoves ==
  ASSUME NEW r \in Msg, NEW len \in Nat, NEW b \in BOOLEAN
  PROVE  /\ [r EXCEPT !.len = len, !.taken = b] \in Msg
         /\ [r EXCEPT !.len = len, !.taken = b].id = r.id
         /\ [r EXCEPT !.len = len, !.taken = b].discard = r.discard
<1>1. [r EXCEPT !.len = len, !.taken = b] \in Msg
  BY Zenon DEF Msg
<1>2. /\ [r EXCEPT !.len = len, !.taken = b].id = r.id
      /\ [r EXCEPT !.len = len, !.taken = b].discard = r.discard
  BY Zenon DEF Msg
<1> QED
  BY <1>1, <1>2, Zenon

LEMMA MsgTaken ==
  ASSUME NEW r \in Msg, NEW b \in BOOLEAN
  PROVE  /\ [r EXCEPT !.taken = b] \in Msg
         /\ [r EXCEPT !.taken = b].id = r.id /\ [r EXCEPT !.taken = b].discard = r.discard
<1>1. [r EXCEPT !.taken = b] \in Msg
  BY Zenon DEF Msg
<1>2. [r EXCEPT !.taken = b].id = r.id /\ [r EXCEPT !.taken = b].discard = r.discard
  BY Zenon DEF Msg
<1> QED
  BY <1>1, <1>2, Zenon

LEMMA MsgGivenUp ==
  ASSUME NEW r \in Msg
  PROVE  /\ [r EXCEPT !.discard = TRUE, !.len = 0] \in Msg
         /\ [r EXCEPT !.discard = TRUE, !.len = 0].id = r.id
         /\ [r EXCEPT !.discard = TRUE, !.len = 0].discard
<1>1. [r EXCEPT !.discard = TRUE, !.len = 0] \in Msg
  BY Zenon DEF Msg
<1>2. /\ [r EXCEPT !.discard = TRUE, !.len = 0].id = r.id
      /\ [r EXCEPT !.discard = TRUE, !.len = 0].discard
  BY Zenon DEF Msg
<1> QED
  BY <1>1, <1>2, Zenon

LEMMA MsgLoses ==
  ASSUME NEW r \in Msg, NEW len \in Nat, NEW b \in BOOLEAN
  PROVE  /\ [r EXCEPT !.taken = b, !.len = len] \in Msg
         /\ [r EXCEPT !.taken = b, !.len = len].id = r.id
         /\ [r EXCEPT !.taken = b, !.len = len].discard = r.discard
<1>1. [r EXCEPT !.taken = b, !.len = len] \in Msg
  BY Zenon DEF Msg
<1>2. /\ [r EXCEPT !.taken = b, !.len = len].id = r.id
      /\ [r EXCEPT !.taken = b, !.len = len].discard = r.discard
  BY Zenon DEF Msg
<1> QED
  BY <1>1, <1>2, Zenon

LEMMA MoveFreesStep ==
  ASSUME OrderInv, MoveFrees
  PROVE  OrderInv'
<1> DEFINE s == fill.strq
<1>1. QueueType
  BY Zenon DEF OrderInv
<1>2. s \in Stream /\ outq[s] # <<>>
  BY Zenon DEF MoveFrees, Serving
<1>3. outq' = [outq EXCEPT ![s] = Tail(outq[s])]
  BY Zenon DEF MoveFrees, DropHead
<1>4. UNCHANGED <<sendq, mid, msgs>>
  BY Zenon DEF MoveFrees
<1> HIDE DEF s
<1>5. outq' \in [Stream -> Seq(Msg)] /\ Goes(s) \in [Stream -> {0, 1}] /\ Shrinks(Goes(s))
  BY <1>1, <1>2, <1>3, HeadGoes, Zenon
<1> QED
  BY <1>4, <1>5, ShrinkOrder, Zenon

LEMMA MoveNothingStep ==
  ASSUME OrderInv, MoveNothing
  PROVE  OrderInv'
<1> DEFINE s == fill.strq
<1>1. QueueType
  BY Zenon DEF OrderInv
<1>2. UNCHANGED <<sendq, mid, msgs>> /\ s \in Stream
  BY Zenon DEF MoveNothing, Serving
<1>3. \/ UNCHANGED outq
      \/ outq[s] # <<>> /\ outq' = [outq EXCEPT ![s][1].len = 0, ![s][1].taken = TRUE]
  BY Zenon DEF MoveNothing
<1>4. CASE UNCHANGED outq
  BY <1>2, <1>4, UnchangedOrder, Zenon
<1>5. CASE outq[s] # <<>> /\ outq' = [outq EXCEPT ![s][1].len = 0, ![s][1].taken = TRUE]
  <2> DEFINE m == [outq[s][1] EXCEPT !.len = 0, !.taken = TRUE]
  <2>1. outq[s] \in Seq(Msg) /\ 1 \in DOMAIN outq[s] /\ outq[s][1] \in Msg
    BY <1>1, <1>2, <1>5, HeadFacts, Zenon
  <2>2. m \in Msg /\ m.id = outq[s][1].id /\ m.discard = outq[s][1].discard
    BY <2>1, MsgMoves, Zenon
  <2>3. outq' = [outq EXCEPT ![s] = [outq[s] EXCEPT ![1] = m]]
    BY <1>1, <1>2, <1>5, <2>1, Zenon DEF QueueType
  <2> HIDE DEF m, s
  <2>4. outq' \in [Stream -> Seq(Msg)] /\ Stays \in [Stream -> {0, 1}] /\ Shrinks(Stays)
    BY <1>1, <1>2, <1>5, <2>2, <2>3, HeadEdit, ZenonT(60)
  <2> QED
    BY <1>2, <2>4, ShrinkOrder, Zenon
<1> QED
  BY <1>3, <1>4, <1>5, Zenon

LEMMA MoveFailsStep ==
  ASSUME OrderInv, NEW f \in Failure, MoveFails(f)
  PROVE  OrderInv'
<1> DEFINE s    == fill.strq
           sp   == outq[s][1]
           some == ~(sp.complete /\ sp.len = 1) \/ sp.taken
<1>1. QueueType
  BY Zenon DEF OrderInv
<1>2. s \in Stream /\ outq[s] # <<>> /\ Head(outq[s]).len > 0 /\ UNCHANGED <<sendq, mid, msgs>>
  BY Zenon DEF MoveFails, Serving
<1>3. outq[s] \in Seq(Msg) /\ 1 \in DOMAIN outq[s] /\ outq[s][1] \in Msg /\ Head(outq[s]) = outq[s][1]
  BY <1>1, <1>2, HeadFacts, Zenon
<1>4. some \in BOOLEAN /\ sp.len - 1 \in Nat
  BY <1>2, <1>3 DEF Msg
<1>5. f \in {"mbuf", "chunk", "prepend"}
  BY SchedulerAssumption, Zenon
<1>6. CASE f = "mbuf"
  <2>1. outq' = outq
    BY <1>6, Zenon DEF MoveFails
  <2> QED
    BY <1>2, <2>1, UnchangedOrder, Zenon
<1>7. CASE f = "chunk"
  <2> DEFINE m == [sp EXCEPT !.taken = some]
  <2>1. m \in Msg /\ m.id = outq[s][1].id /\ m.discard = outq[s][1].discard
    BY <1>3, <1>4, MsgTaken, Zenon
  <2>2. outq' = [outq EXCEPT ![s] = [outq[s] EXCEPT ![1] = m]]
    <3>1. outq' = [outq EXCEPT ![s][1].taken = ~(sp.complete /\ sp.len = 1) \/ @]
      BY <1>3, <1>7, Zenon DEF MoveFails
    <3> QED
      BY <1>1, <1>2, <1>3, <3>1, Zenon DEF QueueType
  <2> HIDE DEF m, s
  <2>3. outq' \in [Stream -> Seq(Msg)] /\ Stays \in [Stream -> {0, 1}] /\ Shrinks(Stays)
    BY <1>1, <1>2, <2>1, <2>2, HeadEdit, Zenon
  <2> QED
    BY <1>2, <2>3, ShrinkOrder, Zenon
<1>8. CASE f = "prepend"
  <2> DEFINE m == [sp EXCEPT !.taken = some, !.len = sp.len - 1]
  <2>1. m \in Msg /\ m.id = outq[s][1].id /\ m.discard = outq[s][1].discard
    <3>1. sp \in Msg
      BY <1>3, Zenon
    <3> HIDE DEF some, sp
    <3>2. m \in Msg /\ m.id = sp.id /\ m.discard = sp.discard
      BY <1>4, <3>1, MsgLoses, Zenon
    <3> QED
      BY <3>2, Zenon DEF sp
  <2>2. outq' = [outq EXCEPT ![s] = [outq[s] EXCEPT ![1] = m]]
    <3>1. outq' = [outq EXCEPT ![s][1].taken = ~(sp.complete /\ sp.len = 1) \/ @, ![s][1].len = @ - 1]
      BY <1>3, <1>8, Zenon DEF MoveFails
    <3> QED
      BY <1>1, <1>2, <1>3, <3>1, Zenon DEF QueueType, Msg
  <2> HIDE DEF m, s
  <2>3. outq' \in [Stream -> Seq(Msg)] /\ Stays \in [Stream -> {0, 1}] /\ Shrinks(Stays)
    BY <1>1, <1>2, <2>1, <2>2, HeadEdit, Zenon
  <2> QED
    BY <1>2, <2>3, ShrinkOrder, Zenon
<1> QED
  BY <1>5, <1>6, <1>7, <1>8, Zenon

(* The fragment f of MoveFragment, and what becomes of the queues. *)
LEMMA MoveFragmentLeaves ==
  ASSUME QueueType, MoveFragment
  PROVE  LET s == fill.strq
             f == Chunk(Head(outq[s]), s, ~Head(outq[s]).taken,
                        Head(outq[s]).complete /\ Head(outq[s]).len = 1)
         IN  Leaves(s, f, IF f.last THEN Goes(s) ELSE Stays)
<1> DEFINE s    == fill.strq
           sp   == outq[s][1]
           ends == sp.complete /\ sp.len = 1
           begins == ~sp.taken
           f    == Chunk(sp, s, begins, ends)
           some == ~ends \/ sp.taken
           rest == sp.len - 1
           m    == [sp EXCEPT !.len = rest, !.taken = some]
<1>1. s \in Stream /\ outq[s] # <<>> /\ Head(outq[s]).len > 0 /\ ~Head(outq[s]).discard
  BY Zenon DEF MoveFragment, Serving
<1>2. outq[s] \in Seq(Msg) /\ 1 \in DOMAIN outq[s] /\ sp \in Msg /\ Head(outq[s]) = sp
  BY <1>1, HeadFacts, Zenon
<1>3. ends \in BOOLEAN /\ begins \in BOOLEAN /\ some \in BOOLEAN
  BY Zenon
<1>4. rest \in Nat
  BY <1>1, <1>2 DEF Msg
<1>5. f \in Frag /\ f.id = sp.id /\ f.sid = s /\ f.mid = mid[s] /\ (f.last <=> ends)
  <2> HIDE DEF sp, begins, ends, s
  <2> QED
    BY <1>1, <1>2, <1>3, ChunkFields
<1>6. /\ sendq' = Append(sendq, f) /\ msgs' = msgs
      /\ mid' = [mid EXCEPT ![s] = IF ends THEN @ + 1 ELSE @]
  BY <1>2, Zenon DEF MoveFragment
<1>7. /\ ends  => outq' = [[outq EXCEPT ![s][1] = m] EXCEPT ![s] = Tail(@)]
      /\ ~ends => outq' = [outq EXCEPT ![s][1] = m]
  <2>1. m = [sp EXCEPT !.len = @ - 1, !.taken = ~ends \/ @]
    BY <1>2, Zenon DEF Msg
  <2> QED
    BY <1>2, <2>1, Zenon DEF MoveFragment, DropHead
<1>8. m \in Msg /\ m.id = sp.id /\ m.discard = sp.discard
  <2>1. sp \in Msg /\ rest \in Nat /\ some \in BOOLEAN
    BY <1>2, <1>3, <1>4, Zenon
  <2> HIDE DEF sp, begins, ends, some, rest
  <2> QED
    BY <2>1, MsgMoves, Zenon
<1> HIDE DEF m
<1>9. CASE ends
  <2>1. outq' = [outq EXCEPT ![s] = Tail(outq[s])]
    <3>1. Tail([outq[s] EXCEPT ![1] = m]) = Tail(outq[s])
      BY <1>2, <1>8
    <3>2. outq \in [Stream -> Seq(Msg)]
      BY Zenon DEF QueueType
    <3>3. [outq EXCEPT ![s][1] = m][s] = [outq[s] EXCEPT ![1] = m]
      BY <1>1, <3>2, Zenon
    <3> QED
      BY <1>1, <1>7, <1>9, <3>1, <3>2, <3>3, Zenon
  <2>2. /\ outq' \in [Stream -> Seq(Msg)] /\ Goes(s) \in [Stream -> {0, 1}] /\ Shrinks(Goes(s))
        /\ \A t \in Stream : Goes(s)[t] = 1 <=> t = s
    <3>1. \A t \in Stream : Goes(s)[t] = 1 <=> t = s
      BY DEF Goes
    <3> HIDE DEF s
    <3> QED
      BY <1>1, <2>1, <3>1, HeadGoes, Zenon
  <2>3. f.last /\ (IF f.last THEN Goes(s) ELSE Stays) = Goes(s)
    BY <1>5, <1>9, Zenon
  <2>4. mid' = [mid EXCEPT ![s] = IF f.last THEN @ + 1 ELSE @]
    BY <1>6, <1>9, <2>3, Zenon
  <2> HIDE DEF f, ends, s
  <2>5. Leaves(s, f, Goes(s))
    BY <1>1, <1>2, <1>5, <1>6, <2>2, <2>4, Zenon DEF Leaves
  <2> QED
    BY <1>2, <2>3, <2>5, Zenon DEF f, ends, s
<1>10. CASE ~ends
  <2>1. outq' = [outq EXCEPT ![s] = [outq[s] EXCEPT ![1] = m]]
    BY <1>7, <1>10, Zenon
  <2>2. /\ outq' \in [Stream -> Seq(Msg)] /\ Stays \in [Stream -> {0, 1}] /\ Shrinks(Stays)
        /\ \A t \in Stream : Stays[t] = 0
    <3>1. \A t \in Stream : Stays[t] = 0
      BY Zenon DEF Stays
    <3> HIDE DEF s
    <3> QED
      BY <1>1, <1>8, <2>1, <3>1, HeadEdit, Zenon
  <2>3. ~f.last /\ (IF f.last THEN Goes(s) ELSE Stays) = Stays
    BY <1>5, <1>10, Zenon
  <2>4. mid' = [mid EXCEPT ![s] = IF f.last THEN @ + 1 ELSE @]
    BY <1>6, <1>10, <2>3, Zenon
  <2> HIDE DEF f, ends, s
  <2>5. Leaves(s, f, Stays)
    <3>1. (\A t \in Stream : Stays[t] = 1 => t = s) /\ ~f.last
      BY <2>2, <2>3
    <3>2. ~outq[s][1].discard
      BY <1>1, <1>2, Zenon
    <3> QED
      BY <1>1, <1>5, <1>6, <2>2, <2>4, <3>1, <3>2, Zenon DEF Leaves
  <2> QED
    BY <1>2, <2>3, <2>5, Zenon DEF f, ends, s
<1> QED
  BY <1>9, <1>10, Zenon

(* What DiscardRest does to the queues, in its three cases. *)
LEMMA DiscardCases ==
  ASSUME QueueType, NEW s \in Stream, DiscardRest(s)
  PROVE  LET f == Chunk(outq[s][1], s, FALSE, TRUE)
         IN  \/ \E i \in DOMAIN sendq : /\ Ends(s, i) /\ ~sendq[i].last
                                        /\ i + 1 \in DOMAIN sendq => sendq[i + 1].id # sendq[i].id
             \/ Leaves(s, f, Stays) /\ \E i \in DOMAIN sendq : sendq[i].id = f.id
             \/ /\ UNCHANGED <<sendq, mid, msgs>> /\ "chunk" \in Failure
                /\ outq' \in [Stream -> Seq(Msg)] /\ Shrinks(Stays)
<1> DEFINE sp == outq[s][1]
           f  == Chunk(outq[s][1], s, FALSE, TRUE)
           m  == [sp EXCEPT !.discard = TRUE, !.len = 0]
           mine == {i \in DOMAIN sendq : sendq[i].id = sp.id}
<1>1. outq[s] # <<>> /\ msgs' = msgs
  BY Zenon DEF DiscardRest
<1>2. outq[s] \in Seq(Msg) /\ 1 \in DOMAIN outq[s] /\ sp \in Msg /\ Head(outq[s]) = sp
  BY <1>1, HeadFacts, Zenon
<1>3. m \in Msg /\ m.id = sp.id /\ m.discard
  BY <1>2, MsgGivenUp, Zenon
<1>4. /\ ~sp.discard /\ mine # {} /\ \A i \in mine : ~sendq[i].last
      /\ \/ /\ \/ \E i \in mine : i + 1 \notin mine /\ sendq' = [sendq EXCEPT ![i].last = TRUE]
               \/ sendq' = Append(sendq, f)
            /\ mid' = [mid EXCEPT ![s] = @ + 1]
         \/ "chunk" \in Failure /\ UNCHANGED <<sendq, mid>>
      /\ outq' = [outq EXCEPT ![s][1].discard = TRUE, ![s][1].len = 0]
  BY <1>2, Zenon DEF DiscardRest
<1>5. outq' = [outq EXCEPT ![s] = [outq[s] EXCEPT ![1] = m]]
  BY <1>2, <1>4, Zenon DEF QueueType
<1>6. outq' \in [Stream -> Seq(Msg)] /\ Stays \in [Stream -> {0, 1}] /\ Shrinks(Stays) /\ outq'[s][1] = m
  <2> HIDE DEF m
  <2> QED
    BY <1>1, <1>3, <1>5, HeadEdit, Zenon
<1>7. outq'[s][1].discard
  BY <1>3, <1>6, Zenon
<1> HIDE DEF m
<1>8. CASE /\ mid' = [mid EXCEPT ![s] = @ + 1]
           /\ \E i \in mine : i + 1 \notin mine /\ sendq' = [sendq EXCEPT ![i].last = TRUE]
  <2>1. PICK i \in mine : i + 1 \notin mine /\ sendq' = [sendq EXCEPT ![i].last = TRUE]
    BY <1>8, Zenon
  <2>2. i \in DOMAIN sendq /\ sendq[i].id = sp.id /\ ~sendq[i].last
    BY <1>4, <2>1, Zenon
  <2>3. i + 1 \in DOMAIN sendq => sendq[i + 1].id # sendq[i].id
    BY <2>1, <2>2, Zenon
  <2>4. Ends(s, i)
    BY <1>1, <1>6, <1>7, <1>8, <2>1, <2>2, Zenon DEF Ends
  <2> QED
    BY <2>2, <2>3, <2>4, Zenon
<1>9. CASE mid' = [mid EXCEPT ![s] = @ + 1] /\ sendq' = Append(sendq, f)
  <2>1. TRUE \in BOOLEAN /\ FALSE \in BOOLEAN
    BY Zenon
  <2>2. f \in Frag /\ f.id = sp.id /\ f.sid = s /\ f.mid = mid[s] /\ f.last
    <3>1. sp \in Msg
      BY <1>2, Zenon
    <3> HIDE DEF sp
    <3>2. /\ f \in Frag /\ f.id = sp.id /\ f.sid = s /\ f.mid = mid[s]
          /\ f.first <=> FALSE
          /\ f.last <=> TRUE
      BY <2>1, <3>1, ChunkFields, Zenon DEF sp
    <3> QED
      BY <3>2, Zenon
  <2>3. mid' = [mid EXCEPT ![s] = IF f.last THEN @ + 1 ELSE @]
    BY <1>9, <2>2, Zenon
  <2>4. \A t \in Stream : Stays[t] = 1 => t = s
    BY DEF Stays
  <2>5. \E i \in DOMAIN sendq : sendq[i].id = f.id
    BY <1>4, <2>2, Zenon
  <2> HIDE DEF f
  <2>6. Leaves(s, f, Stays)
    BY <1>1, <1>4, <1>6, <1>7, <1>9, <2>2, <2>3, <2>4, Zenon DEF Leaves
  <2> QED
    BY <2>5, <2>6, Zenon DEF f
<1>10. CASE "chunk" \in Failure /\ UNCHANGED <<sendq, mid>>
  BY <1>1, <1>6, <1>10, Zenon
<1> QED
  BY <1>4, <1>8, <1>9, <1>10, Zenon

LEMMA DiscardStep ==
  ASSUME OrderInv, NEW s \in Stream, DiscardRest(s)
  PROVE  OrderInv'
<1> DEFINE f == Chunk(outq[s][1], s, FALSE, TRUE)
<1>1. QueueType
  BY Zenon DEF OrderInv
<1>2. \/ \E i : Ends(s, i)
      \/ Leaves(s, f, Stays)
      \/ /\ UNCHANGED <<sendq, mid, msgs>>
         /\ outq' \in [Stream -> Seq(Msg)] /\ Shrinks(Stays)
  BY <1>1, DiscardCases, Zenon
<1> HIDE DEF f
<1>3. Stays \in [Stream -> {0, 1}]
  BY Zenon DEF Stays
<1> QED
  BY <1>2, <1>3, EndsOrder, FragmentOrder, ShrinkOrder, Zenon

LEMMA MoveFragmentStep ==
  ASSUME OrderInv, MoveFragment
  PROVE  OrderInv'
<1> DEFINE s == fill.strq
           f == Chunk(Head(outq[s]), s, ~Head(outq[s]).taken,
                      Head(outq[s]).complete /\ Head(outq[s]).len = 1)
           off == IF f.last THEN Goes(s) ELSE Stays
<1>1. QueueType
  BY Zenon DEF OrderInv
<1>2. Leaves(s, f, off)
  BY <1>1, MoveFragmentLeaves, Zenon
<1> HIDE DEF s, f, off
<1> QED
  BY <1>2, FragmentOrder, Zenon

LEMMA StepOrder == OrderInv /\ [Next]_vars => OrderInv'
<1> SUFFICES ASSUME OrderInv, [Next]_vars PROVE OrderInv'
  BY Zenon
<1>1. ASSUME NEW s \in Stream, NEW n \in Pin, NEW len \in 1..MaxLen,
             sctp_msg_append(s, n, len) \/ sctp_lower_sosend(s, n, len)
      PROVE  OrderInv'
  BY <1>1, EnqueueStep, Zenon DEF sctp_msg_append, sctp_lower_sosend
<1>2. ASSUME NEW s \in Stream, NEW len \in 1..MaxLen, NEW complete \in BOOLEAN,
             SendMore(s, len, complete)
      PROVE  OrderInv'
  BY <1>2, SendMoreStep, Zenon
<1>3. ASSUME NEW s \in Stream, DiscardRest(s) PROVE OrderInv'
  BY <1>3, DiscardStep, Zenon
<1>4. ASSUME NEW m \in Scheduler, PluggableSs(m) PROVE OrderInv'
  BY <1>4, UnchangedOrder, Zenon DEF PluggableSs
<1>5. ASSUME NEW s \in Stream, NEW v \in Priority, SsValue(s, v) PROVE OrderInv'
  BY <1>5, UnchangedOrder, Zenon DEF SsValue
<1>6. CASE AddStreams
  BY <1>6, UnchangedOrder, Zenon DEF AddStreams
<1>7. ASSUME NEW n \in Net, BeginFill(n) PROVE OrderInv'
  BY <1>7, UnchangedOrder, Zenon DEF BeginFill, queues
<1>8. CASE SelectStream
  BY <1>8, UnchangedOrder, Zenon DEF SelectStream, queues
<1>9. CASE MoveFrees
  BY <1>9, MoveFreesStep, Zenon
<1>10. CASE MoveNothing
  BY <1>10, MoveNothingStep, Zenon
<1>11. CASE MoveFragment
  BY <1>11, MoveFragmentStep, Zenon
<1>12. CASE Scheduled
  BY <1>12, UnchangedOrder, Zenon DEF Scheduled, queues
<1>13. CASE PacketDone
  BY <1>13, UnchangedOrder, Zenon DEF PacketDone, queues
<1>14. ASSUME NEW f \in Failure, MoveFails(f) PROVE OrderInv'
  BY <1>14, MoveFailsStep, Zenon
<1>15. CASE UNCHANGED vars
  BY <1>15, UnchangedOrder, Zenon DEF vars, queues
<1> QED
  BY <1>1, <1>2, <1>3, <1>4, <1>5, <1>6, <1>7, <1>8, <1>9, <1>10, <1>11, <1>12, <1>13, <1>14,
     <1>15, Zenon DEF Next, User, Output

(* The fragments of a stream get their TSNs in the order in which its messages *)
(* were sent, those of one message under one message id and later messages     *)
(* under later ids, whatever sctp_fill_outqueue selects, whatever allocation   *)
(* fails and whichever messages sctp_release_pr_sctp_chunk gives up.           *)
THEOREM StreamsInOrder == Spec => []StreamOrder
<1>1. OrderInv => StreamOrder
  BY Zenon DEF OrderInv
<1> QED
  BY InitOrder, StepOrder, <1>1, PTL DEF Spec

-----------------------------------------------------------------------------
(* Every message leaves with its beginning and its end: the second inductive   *)
(* invariant, which the order above is part of.                               *)
(* A fragment of the message has left; its end has left. *)
Out(q, id)   == \E i \in DOMAIN q : q[i].id = id
Ended(q, id) == \E i \in DOMAIN q : q[i].id = id /\ q[i].last

(* A message that waits knows whether a part of it has left, and a complete one *)
(* has data left: only one that is given up is freed without its end.           *)
Waiting(q, m) ==
  ~m.discard => /\ m.taken <=> Out(q, m.id)
                /\ m.complete => m.len > 0

WaitingRight == \A s \in Stream : \A k \in DOMAIN outq[s] : Waiting(sendq, outq[s][k])

(* What has left has its end, or is a part of the head of its stream. *)
EndsOut ==
  \A i \in DOMAIN sendq :
    LET q == outq[sendq[i].sid]
    IN  Ended(sendq, sendq[i].id) \/ (q # <<>> /\ q[1].id = sendq[i].id /\ ~q[1].discard)

Whole == FragmentsWellFormed /\ WaitingRight /\ EndsOut

LEMMA InitWhole == Init => Whole
  BY DEF Init, Whole, FragmentsWellFormed, WaitingRight, EndsOut

LEMMA UnchangedWhole ==
  ASSUME Whole, UNCHANGED <<outq, sendq>>
  PROVE  Whole'
  BY DEF Whole, FragmentsWellFormed, WaitingRight, Waiting, EndsOut, Out, Ended

(* Message p of stream s becomes m; the head of stream s goes. *)
Edits(s, p, m) ==
  /\ s \in Stream /\ p \in DOMAIN outq[s] /\ m.id = outq[s][p].id
  /\ outq' = [outq EXCEPT ![s] = [outq[s] EXCEPT ![p] = m]]

Drops(s) == s \in Stream /\ outq[s] # <<>> /\ outq' = [outq EXCEPT ![s] = Tail(outq[s])]

LEMMA EditsPlace ==
  ASSUME QueueType, NEW s, NEW p, NEW m, Edits(s, p, m), NEW t \in Stream
  PROVE  /\ DOMAIN outq'[t] = DOMAIN outq[t] /\ (outq'[t] # <<>> <=> outq[t] # <<>>)
         /\ \A k \in DOMAIN outq[t] : outq'[t][k] = IF t = s /\ k = p THEN m ELSE outq[t][k]
<1>1. outq \in [Stream -> Seq(Msg)] /\ outq[t] \in Seq(Msg)
  BY Zenon DEF QueueType
<1>2. CASE t = s
  <2>1. outq'[t] = [outq[t] EXCEPT ![p] = m] /\ p \in DOMAIN outq[t]
    BY <1>1, <1>2, Zenon DEF Edits
  <2> QED
    BY <1>1, <1>2, <2>1
<1>3. CASE t # s
  BY <1>1, <1>3, Zenon DEF Edits
<1> QED
  BY <1>2, <1>3, Zenon

LEMMA DropsPlace ==
  ASSUME QueueType, NEW s, Drops(s), NEW t \in Stream
  PROVE  /\ t # s => outq'[t] = outq[t]
         /\ \A k \in DOMAIN outq'[t] :
              IF t = s THEN k + 1 \in DOMAIN outq[t] /\ k + 1 # 1 /\ outq'[t][k] = outq[t][k + 1]
                       ELSE k \in DOMAIN outq[t] /\ outq'[t][k] = outq[t][k]
<1>1. outq \in [Stream -> Seq(Msg)] /\ outq[t] \in Seq(Msg)
  BY Zenon DEF QueueType
<1>2. CASE t = s
  <2>1. outq'[t] = Tail(outq[t]) /\ outq[t] # <<>>
    BY <1>1, <1>2, Zenon DEF Drops
  <2> QED
    BY <1>1, <1>2, <2>1
<1>3. CASE t # s
  BY <1>1, <1>3, Zenon DEF Drops
<1> QED
  BY <1>2, <1>3, Zenon

(* A message changes while nothing leaves. *)
LEMMA EditWhole ==
  ASSUME QueueType, Whole, NEW s, NEW p, NEW m, Edits(s, p, m), sendq' = sendq,
         Waiting(sendq, m), m.discard = outq[s][p].discard
  PROVE  Whole'
<1>1. FragmentsWellFormed'
  BY Zenon DEF Whole, FragmentsWellFormed
<1>2. WaitingRight'
  <2> SUFFICES ASSUME NEW t \in Stream, NEW k \in DOMAIN outq'[t] PROVE Waiting(sendq', outq'[t][k])
    BY Zenon DEF WaitingRight
  <2>1. k \in DOMAIN outq[t] /\ outq'[t][k] = IF t = s /\ k = p THEN m ELSE outq[t][k]
    BY EditsPlace
  <2>2. Waiting(sendq, outq'[t][k])
    BY <2>1, Zenon DEF Whole, WaitingRight
  <2> QED
    BY <2>2, Zenon DEF Waiting, Out
<1>3. EndsOut'
  <2> SUFFICES ASSUME NEW i \in DOMAIN sendq
               PROVE  LET q == outq'[sendq[i].sid]
                      IN  Ended(sendq, sendq[i].id) \/ (q # <<>> /\ q[1].id = sendq[i].id /\ ~q[1].discard)
    BY Zenon DEF EndsOut, Ended
  <2> DEFINE t == sendq[i].sid
  <2>1. t \in Stream
    BY FragFields, Zenon
  <2>2. CASE Ended(sendq, sendq[i].id)
    BY <2>2, Zenon
  <2>3. CASE outq[t] # <<>> /\ outq[t][1].id = sendq[i].id /\ ~outq[t][1].discard
    <3>1. 1 \in DOMAIN outq[t]
      BY <2>1, <2>3, HeadFacts, Zenon
    <3>2. outq'[t] # <<>> /\ outq'[t][1] = IF t = s /\ 1 = p THEN m ELSE outq[t][1]
      BY <2>1, <2>3, <3>1, EditsPlace
    <3>3. outq'[t][1].id = outq[t][1].id /\ outq'[t][1].discard = outq[t][1].discard
      BY <3>2, Zenon DEF Edits
    <3> QED
      BY <2>3, <3>2, <3>3, Zenon
  <2> QED
    BY <2>2, <2>3, Zenon DEF Whole, EndsOut
<1> QED
  BY <1>1, <1>2, <1>3, Zenon DEF Whole

(* The head goes while nothing leaves, once it is given up. *)
LEMMA DropWhole ==
  ASSUME QueueType, Whole, NEW s, Drops(s), sendq' = sendq, outq[s][1].discard
  PROVE  Whole'
<1>1. FragmentsWellFormed'
  BY Zenon DEF Whole, FragmentsWellFormed
<1>2. WaitingRight'
  <2> SUFFICES ASSUME NEW t \in Stream, NEW k \in DOMAIN outq'[t] PROVE Waiting(sendq', outq'[t][k])
    BY Zenon DEF WaitingRight
  <2>1. \E a \in DOMAIN outq[t] : outq'[t][k] = outq[t][a]
    BY DropsPlace, Zenon
  <2>2. Waiting(sendq, outq'[t][k])
    BY <2>1, Zenon DEF Whole, WaitingRight
  <2> QED
    BY <2>2, Zenon DEF Waiting, Out
<1>3. EndsOut'
  <2> SUFFICES ASSUME NEW i \in DOMAIN sendq
               PROVE  LET q == outq'[sendq[i].sid]
                      IN  Ended(sendq, sendq[i].id) \/ (q # <<>> /\ q[1].id = sendq[i].id /\ ~q[1].discard)
    BY Zenon DEF EndsOut, Ended
  <2>1. sendq[i].sid \in Stream
    BY FragFields, Zenon
  <2>2. sendq[i].sid # s => outq'[sendq[i].sid] = outq[sendq[i].sid]
    BY <2>1, DropsPlace, Zenon
  <2> QED
    BY <2>2, Zenon DEF Whole, EndsOut
<1> QED
  BY <1>1, <1>2, <1>3, Zenon DEF Whole

(* What must hold of a fragment f that gets the next TSN. *)
Follows(f) ==
  /\ f \in Frag
  /\ f.first <=> ~Out(sendq, f.id)
  /\ ~Ended(sendq, f.id)
  /\ \A i \in DOMAIN sendq : sendq[i].sid = f.sid /\ sendq[i].id # f.id => Ended(sendq, sendq[i].id)
  /\ sendq' = Append(sendq, f)

LEMMA FollowsPlace ==
  ASSUME QueueType, NEW f, Follows(f)
  PROVE  LET n == Len(sendq) + 1 IN
         /\ n \in Nat /\ n \notin DOMAIN sendq /\ sendq'[n] = f /\ n + 1 \notin DOMAIN sendq'
         /\ DOMAIN sendq' = DOMAIN sendq \cup {n}
         /\ \A i \in DOMAIN sendq : i \in Nat /\ i < n /\ sendq'[i] = sendq[i]
<1>1. f \in Frag /\ sendq \in Seq(Frag) /\ sendq' = Append(sendq, f)
  BY Zenon DEF QueueType, Follows
<1> QED
  BY <1>1

LEMMA FollowsOut ==
  ASSUME QueueType, NEW f, Follows(f), NEW id
  PROVE  /\ Out(sendq', id) <=> Out(sendq, id) \/ id = f.id
         /\ Ended(sendq, id) => Ended(sendq', id)
         /\ f.last => Ended(sendq', f.id)
<1> DEFINE n == Len(sendq) + 1
<1>1. /\ n \notin DOMAIN sendq /\ sendq'[n] = f /\ DOMAIN sendq' = DOMAIN sendq \cup {n}
      /\ \A i \in DOMAIN sendq : sendq'[i] = sendq[i]
  BY FollowsPlace, Zenon
<1> HIDE DEF n
<1> QED
  BY <1>1, Zenon DEF Out, Ended

LEMMA FollowsWhole ==
  ASSUME QueueType, FragmentsWellFormed, NEW f, Follows(f)
  PROVE  FragmentsWellFormed'
<1> DEFINE n == Len(sendq) + 1
<1>1. /\ n \in Nat /\ n \notin DOMAIN sendq /\ sendq'[n] = f /\ n + 1 \notin DOMAIN sendq'
      /\ DOMAIN sendq' = DOMAIN sendq \cup {n}
      /\ \A i \in DOMAIN sendq : i \in Nat /\ i < n /\ sendq'[i] = sendq[i]
  BY FollowsPlace, Zenon
<1>2. /\ f.first <=> ~Out(sendq, f.id)
      /\ ~Ended(sendq, f.id)
      /\ \A i \in DOMAIN sendq : sendq[i].sid = f.sid /\ sendq[i].id # f.id => Ended(sendq, sendq[i].id)
  BY Zenon DEF Follows
<1> HIDE DEF n
<1> SUFFICES ASSUME NEW i \in DOMAIN sendq'
             PROVE  /\ sendq'[i].first <=> ~\E j \in DOMAIN sendq' : j < i /\ sendq'[j].id = sendq'[i].id
                    /\ sendq'[i].last => i + 1 \notin DOMAIN sendq' \/ sendq'[i + 1].id # sendq'[i].id
                    /\ \A j \in DOMAIN sendq' :
                         i < j /\ sendq'[i].sid = sendq'[j].sid /\ sendq'[i].id # sendq'[j].id =>
                           \E k \in DOMAIN sendq' : sendq'[k].id = sendq'[i].id /\ sendq'[k].last
  BY Zenon DEF FragmentsWellFormed
<1>3. CASE i = n
  <2>1. sendq'[i].first <=> ~\E j \in DOMAIN sendq' : j < i /\ sendq'[j].id = sendq'[i].id
    BY <1>1, <1>2, <1>3 DEF Out
  <2>2. i + 1 \notin DOMAIN sendq'
    BY <1>1, <1>3, Zenon
  <2>3. \A j \in DOMAIN sendq' : ~(i < j)
    BY <1>1, <1>3
  <2> QED
    BY <2>1, <2>2, <2>3, Zenon
<1>4. CASE i \in DOMAIN sendq
  <2>1. sendq'[i].first <=> ~\E j \in DOMAIN sendq' : j < i /\ sendq'[j].id = sendq'[i].id
    <3>1. sendq[i].first <=> ~\E j \in DOMAIN sendq : j < i /\ sendq[j].id = sendq[i].id
      BY <1>4, Zenon DEF FragmentsWellFormed
    <3>2. ~(n < i)
      BY <1>1, <1>4
    <3> QED
      BY <1>1, <1>4, <3>1, <3>2, Zenon
  <2>2. sendq'[i].last => i + 1 \notin DOMAIN sendq' \/ sendq'[i + 1].id # sendq'[i].id
    <3>1. sendq[i].last => i + 1 \notin DOMAIN sendq \/ sendq[i + 1].id # sendq[i].id
      BY <1>4, Zenon DEF FragmentsWellFormed
    <3>2. sendq[i].last => sendq[i].id # f.id
      BY <1>2, <1>4, Zenon DEF Ended
    <3> QED
      BY <1>1, <1>4, <3>1, <3>2, Zenon
  <2>3. ASSUME NEW j \in DOMAIN sendq', i < j, sendq'[i].sid = sendq'[j].sid,
               sendq'[i].id # sendq'[j].id
        PROVE  \E k \in DOMAIN sendq' : sendq'[k].id = sendq'[i].id /\ sendq'[k].last
    <3>1. Ended(sendq, sendq[i].id)
      <4>1. CASE j = n
        BY <1>1, <1>2, <1>4, <2>3, <4>1, Zenon
      <4>2. CASE j \in DOMAIN sendq
        BY <1>1, <1>4, <2>3, <4>2 DEF FragmentsWellFormed, Ended
      <4> QED
        BY <1>1, <4>1, <4>2, Zenon
    <3> QED
      BY <1>1, <1>4, <3>1, Zenon DEF Ended
  <2> QED
    BY <2>1, <2>2, <2>3, Zenon
<1> QED
  BY <1>1, <1>3, <1>4, Zenon

(* Only one message has the identifier of the head of stream s. *)
LEMMA HeadAlone ==
  ASSUME QueueType, IdsGrow, NEW s \in Stream, outq[s] # <<>>, NEW t \in Stream,
         NEW k \in DOMAIN outq[t], outq[t][k].id = outq[s][1].id
  PROVE  t = s /\ k = 1
<1>1. 1 \in DOMAIN outq[s]
  BY HeadFacts, Zenon
<1>2. t = s
  BY <1>1, Zenon DEF IdsGrow
<1>3. k \in Nat \ {0}
  <2>1. outq[t] \in Seq(Msg)
    BY Zenon DEF QueueType
  <2> QED
    BY <2>1
<1>4. ~(1 < k)
  <2>1. 1 < k => outq[t][1].id < outq[t][k].id
    BY <1>1, <1>2, Zenon DEF IdsGrow
  <2>2. outq[s][1].id \in Nat
    BY <1>1, MsgFields, Zenon
  <2> QED
    BY <1>2, <2>1, <2>2
<1> QED
  BY <1>2, <1>3, <1>4

(* A fragment of the head leaves and the head becomes m. *)
LEMMA LeaveEditWhole ==
  ASSUME QueueType, IdsGrow, Whole, NEW s, NEW m, Edits(s, 1, m), NEW f, Follows(f),
         f.id = outq[s][1].id, f.sid = s, ~m.discard => m.taken /\ (m.complete => m.len > 0),
         m.discard => f.last
  PROVE  Whole'
<1>1. FragmentsWellFormed'
  BY FollowsWhole, Zenon DEF Whole
<1>2. s \in Stream /\ outq[s] # <<>> /\ 1 \in DOMAIN outq[s] /\ m.id = f.id
  BY DEF Edits, QueueType
<1>3. WaitingRight'
  <2> SUFFICES ASSUME NEW t \in Stream, NEW k \in DOMAIN outq'[t] PROVE Waiting(sendq', outq'[t][k])
    BY Zenon DEF WaitingRight
  <2>1. k \in DOMAIN outq[t] /\ outq'[t][k] = IF t = s /\ k = 1 THEN m ELSE outq[t][k]
    BY EditsPlace
  <2>2. CASE t = s /\ k = 1
    <3>1. Out(sendq', m.id)
      BY <1>2, FollowsOut, Zenon
    <3> QED
      BY <2>1, <2>2, <3>1, Zenon DEF Waiting
  <2>3. CASE ~(t = s /\ k = 1)
    <3>1. outq[t][k].id # f.id /\ outq'[t][k] = outq[t][k] /\ Waiting(sendq, outq[t][k])
      BY <1>2, <2>1, <2>3, HeadAlone DEF Whole, WaitingRight
    <3>2. Out(sendq', outq[t][k].id) <=> Out(sendq, outq[t][k].id)
      BY <3>1, FollowsOut, Zenon
    <3> QED
      BY <3>1, <3>2, Zenon DEF Waiting
  <2> QED
    BY <2>2, <2>3, Zenon
<1>4. EndsOut'
  <2> SUFFICES ASSUME NEW i \in DOMAIN sendq'
               PROVE  LET q == outq'[sendq'[i].sid]
                      IN  \/ Ended(sendq', sendq'[i].id)
                          \/ q # <<>> /\ q[1].id = sendq'[i].id /\ ~q[1].discard
    BY Zenon DEF EndsOut
  <2> DEFINE n == Len(sendq) + 1
  <2>1. outq'[s] # <<>> /\ outq'[s][1] = m
    BY <1>2, EditsPlace
  <2>2. m.discard => Ended(sendq', f.id)
    BY FollowsOut, Zenon
  <2>3. (i \in DOMAIN sendq /\ sendq'[i] = sendq[i]) \/ sendq'[i] = f
    BY FollowsPlace
  <2>4. CASE sendq'[i] = f
    BY <1>2, <2>1, <2>2, <2>4, Zenon
  <2>5. CASE i \in DOMAIN sendq /\ sendq'[i] = sendq[i]
    <3> DEFINE t == sendq[i].sid
    <3>1. t \in Stream
      BY <2>5, FragFields, Zenon
    <3>2. CASE Ended(sendq, sendq[i].id)
      BY <2>5, <3>2, FollowsOut, Zenon
    <3>3. CASE outq[t] # <<>> /\ outq[t][1].id = sendq[i].id /\ ~outq[t][1].discard
      <4>1. CASE t = s
        BY <1>2, <2>1, <2>2, <2>5, <3>3, <4>1, Zenon
      <4>2. CASE t # s
        <5>1. 1 \in DOMAIN outq[t]
          BY <3>1, <3>3, HeadFacts, Zenon
        <5>2. outq'[t] # <<>> /\ outq'[t][1] = outq[t][1]
          BY <3>1, <3>3, <4>2, <5>1, EditsPlace
        <5> QED
          BY <2>5, <3>3, <5>2, Zenon
      <4> QED
        BY <4>1, <4>2, Zenon
    <3> QED
      BY <2>5, <3>2, <3>3, Zenon DEF Whole, EndsOut
  <2> QED
    BY <2>3, <2>4, <2>5, Zenon
<1> QED
  BY <1>1, <1>3, <1>4, Zenon DEF Whole

(* The last fragment of the head leaves and the head goes. *)
LEMMA LeaveDropWhole ==
  ASSUME QueueType, IdsGrow, Whole, NEW s, Drops(s), NEW f, Follows(f),
         f.id = outq[s][1].id, f.sid = s, f.last
  PROVE  Whole'
<1>1. FragmentsWellFormed'
  BY FollowsWhole, Zenon DEF Whole
<1>2. s \in Stream /\ outq[s] # <<>>
  BY Zenon DEF Drops
<1>3. WaitingRight'
  <2> SUFFICES ASSUME NEW t \in Stream, NEW k \in DOMAIN outq'[t] PROVE Waiting(sendq', outq'[t][k])
    BY Zenon DEF WaitingRight
  <2>1. PICK a \in DOMAIN outq[t] : outq'[t][k] = outq[t][a] /\ ~(t = s /\ a = 1)
    BY DropsPlace
  <2>2. outq[t][a].id # f.id /\ Waiting(sendq, outq[t][a])
    BY <1>2, <2>1, HeadAlone DEF Whole, WaitingRight
  <2>3. Out(sendq', outq[t][a].id) <=> Out(sendq, outq[t][a].id)
    BY <2>2, FollowsOut, Zenon
  <2> QED
    BY <2>1, <2>2, <2>3, Zenon DEF Waiting
<1>4. EndsOut'
  <2> SUFFICES ASSUME NEW i \in DOMAIN sendq'
               PROVE  LET q == outq'[sendq'[i].sid]
                      IN  \/ Ended(sendq', sendq'[i].id)
                          \/ q # <<>> /\ q[1].id = sendq'[i].id /\ ~q[1].discard
    BY Zenon DEF EndsOut
  <2>1. Ended(sendq', f.id)
    BY FollowsOut, Zenon
  <2>2. (i \in DOMAIN sendq /\ sendq'[i] = sendq[i]) \/ sendq'[i] = f
    BY FollowsPlace, Zenon
  <2>3. CASE sendq'[i] = f
    BY <2>1, <2>3, Zenon
  <2>4. CASE i \in DOMAIN sendq /\ sendq'[i] = sendq[i]
    <3> DEFINE t == sendq[i].sid
    <3>1. t \in Stream
      BY <2>4, FragFields, Zenon
    <3>2. CASE Ended(sendq, sendq[i].id)
      BY <2>4, <3>2, FollowsOut, Zenon
    <3>3. CASE outq[t] # <<>> /\ outq[t][1].id = sendq[i].id /\ ~outq[t][1].discard
      <4>1. t # s => outq'[t] = outq[t]
        BY <3>1, DropsPlace, Zenon
      <4> QED
        BY <2>1, <2>4, <3>3, <4>1, Zenon
    <3> QED
      BY <2>4, <3>2, <3>3, Zenon DEF Whole, EndsOut
  <2> QED
    BY <2>2, <2>3, <2>4, Zenon
<1> QED
  BY <1>1, <1>3, <1>4, Zenon DEF Whole

(* A fragment of the head becomes its end and the rest is given up. *)
LEMMA EndWhole ==
  ASSUME QueueType, IdsGrow, Whole, NEW s, NEW m, Edits(s, 1, m), m.discard,
         NEW i, Ends(s, i), i + 1 \in DOMAIN sendq => sendq[i + 1].id # sendq[i].id
  PROVE  Whole'
<1>1. /\ DOMAIN sendq' = DOMAIN sendq
      /\ \A j \in DOMAIN sendq :
           /\ sendq'[j].id = sendq[j].id /\ sendq'[j].sid = sendq[j].sid
           /\ sendq'[j].first = sendq[j].first
           /\ j # i => sendq'[j].last = sendq[j].last
           /\ j = i => sendq'[j].last
  BY EndsSent
<1>2. s \in Stream /\ outq[s] # <<>> /\ i \in DOMAIN sendq /\ sendq[i].id = outq[s][1].id
  BY Zenon DEF Ends
<1>3. \A id : /\ Out(sendq', id) <=> Out(sendq, id)
              /\ Ended(sendq, id) => Ended(sendq', id)
  BY <1>1, Zenon DEF Out, Ended
<1>4. FragmentsWellFormed'
  <2> SUFFICES ASSUME NEW a \in DOMAIN sendq
               PROVE  /\ sendq'[a].first <=> ~\E j \in DOMAIN sendq : j < a /\ sendq'[j].id = sendq'[a].id
                      /\ sendq'[a].last => a + 1 \notin DOMAIN sendq \/ sendq'[a + 1].id # sendq'[a].id
                      /\ \A j \in DOMAIN sendq :
                           a < j /\ sendq'[a].sid = sendq'[j].sid /\ sendq'[a].id # sendq'[j].id =>
                             \E k \in DOMAIN sendq : sendq'[k].id = sendq'[a].id /\ sendq'[k].last
    BY <1>1, Zenon DEF FragmentsWellFormed
  <2>1. /\ sendq[a].first <=> ~\E j \in DOMAIN sendq : j < a /\ sendq[j].id = sendq[a].id
        /\ sendq[a].last => a + 1 \notin DOMAIN sendq \/ sendq[a + 1].id # sendq[a].id
        /\ \A j \in DOMAIN sendq :
             a < j /\ sendq[a].sid = sendq[j].sid /\ sendq[a].id # sendq[j].id =>
               \E k \in DOMAIN sendq : sendq[k].id = sendq[a].id /\ sendq[k].last
    BY Zenon DEF Whole, FragmentsWellFormed
  <2>2. sendq'[a].first <=> ~\E j \in DOMAIN sendq : j < a /\ sendq'[j].id = sendq'[a].id
    BY <1>1, <2>1, Zenon
  <2>3. sendq'[a].last => a + 1 \notin DOMAIN sendq \/ sendq'[a + 1].id # sendq'[a].id
    BY <1>1, <2>1, Zenon
  <2>4. \A j \in DOMAIN sendq :
          a < j /\ sendq'[a].sid = sendq'[j].sid /\ sendq'[a].id # sendq'[j].id =>
            \E k \in DOMAIN sendq : sendq'[k].id = sendq'[a].id /\ sendq'[k].last
    BY <1>1, <2>1, Zenon
  <2> QED
    BY <2>2, <2>3, <2>4, Zenon
<1>5. WaitingRight'
  <2> SUFFICES ASSUME NEW t \in Stream, NEW k \in DOMAIN outq'[t] PROVE Waiting(sendq', outq'[t][k])
    BY Zenon DEF WaitingRight
  <2>1. k \in DOMAIN outq[t] /\ outq'[t][k] = IF t = s /\ k = 1 THEN m ELSE outq[t][k]
    BY EditsPlace
  <2>2. Waiting(sendq, outq[t][k])
    BY <2>1, Zenon DEF Whole, WaitingRight
  <2> QED
    BY <1>3, <2>1, <2>2, Zenon DEF Waiting
<1>6. EndsOut'
  <2> SUFFICES ASSUME NEW j \in DOMAIN sendq
               PROVE  LET q == outq'[sendq[j].sid]
                      IN  \/ Ended(sendq', sendq[j].id)
                          \/ q # <<>> /\ q[1].id = sendq[j].id /\ ~q[1].discard
    BY <1>1 DEF EndsOut
  <2> DEFINE t == sendq[j].sid
  <2>1. t \in Stream
    BY FragFields, Zenon
  <2>2. Ended(sendq', outq[s][1].id)
    BY <1>1, <1>2 DEF Ended
  <2>3. CASE Ended(sendq, sendq[j].id)
    BY <1>3, <2>3, Zenon
  <2>4. CASE outq[t] # <<>> /\ outq[t][1].id = sendq[j].id /\ ~outq[t][1].discard
    <3>1. CASE t = s
      BY <2>2, <2>4, <3>1, Zenon
    <3>2. CASE t # s
      <4>1. 1 \in DOMAIN outq[t]
        BY <2>1, <2>4, HeadFacts, Zenon
      <4>2. outq'[t] # <<>> /\ outq'[t][1] = outq[t][1]
        BY <2>1, <2>4, <3>2, <4>1, EditsPlace
      <4> QED
        BY <2>4, <4>2, Zenon
    <3> QED
      BY <3>1, <3>2, Zenon
  <2> QED
    BY <2>3, <2>4, Zenon DEF Whole, EndsOut
<1> QED
  BY <1>4, <1>5, <1>6, Zenon DEF Whole

(* A message is added to stream s. *)
LEMMA EnqueueWhole ==
  ASSUME OrderInv, Whole, NEW s \in Stream, NEW sp \in Msg, sp.id = msgs + 1, sp.len > 0, ~sp.taken,
         outq' = [outq EXCEPT ![s] = Append(@, sp)], sendq' = sendq
  PROVE  Whole'
<1>1. QueueType /\ SentBefore
  BY Zenon DEF OrderInv
<1>2. FragmentsWellFormed'
  BY Zenon DEF Whole, FragmentsWellFormed
<1>3. outq \in [Stream -> Seq(Msg)] /\ outq[s] \in Seq(Msg) /\ outq'[s] = Append(outq[s], sp)
      /\ \A t \in Stream : t # s => outq'[t] = outq[t]
  BY <1>1, Zenon DEF QueueType
<1>4. WaitingRight'
  <2> SUFFICES ASSUME NEW t \in Stream, NEW k \in DOMAIN outq'[t] PROVE Waiting(sendq, outq'[t][k])
    BY Zenon DEF WaitingRight
  <2>1. (k \in DOMAIN outq[t] /\ outq'[t][k] = outq[t][k]) \/ outq'[t][k] = sp
    BY <1>3
  <2>2. Waiting(sendq, sp)
    <3>1. ~Out(sendq, sp.id)
      <4> SUFFICES ASSUME NEW i \in DOMAIN sendq, sendq[i].id = msgs + 1 PROVE FALSE
        BY Zenon DEF Out
      <4>1. sendq[i].id <= msgs /\ msgs \in Nat
        BY <1>1, Zenon DEF SentBefore, QueueType
      <4> QED
        BY <4>1
    <3> QED
      BY <3>1, Zenon DEF Waiting
  <2> QED
    BY <2>1, <2>2, Zenon DEF Whole, WaitingRight
<1>5. EndsOut'
  <2> SUFFICES ASSUME NEW i \in DOMAIN sendq
               PROVE  LET q == outq'[sendq[i].sid]
                      IN  Ended(sendq, sendq[i].id) \/ (q # <<>> /\ q[1].id = sendq[i].id /\ ~q[1].discard)
    BY Zenon DEF EndsOut
  <2> DEFINE t == sendq[i].sid
  <2>1. t \in Stream
    BY <1>1, FragFields, Zenon
  <2>2. CASE outq[t] # <<>> /\ outq[t][1].id = sendq[i].id /\ ~outq[t][1].discard
    <3>1. outq'[t] # <<>> /\ outq'[t][1] = outq[t][1]
      <4>1. outq[t] \in Seq(Msg)
        BY <1>3, <2>1, Zenon
      <4> QED
        BY <1>3, <2>1, <2>2, <4>1
    <3> QED
      BY <2>2, <3>1, Zenon
  <2> QED
    BY <2>2, Zenon DEF Whole, EndsOut
<1> QED
  BY <1>2, <1>4, <1>5, Zenon DEF Whole

-----------------------------------------------------------------------------
LEMMA HeadFollows ==
  ASSUME OrderInv, Whole, NEW s \in Stream, outq[s] # <<>>, ~outq[s][1].discard,
         NEW f \in Frag, f.id = outq[s][1].id, f.sid = s, f.first <=> ~outq[s][1].taken,
         sendq' = Append(sendq, f)
  PROVE  Follows(f)
<1>1. QueueType /\ SentBefore
  BY Zenon DEF OrderInv
<1>2. 1 \in DOMAIN outq[s]
  BY <1>1, HeadFacts, Zenon
<1>3. f.first <=> ~Out(sendq, f.id)
  <2>1. Waiting(sendq, outq[s][1])
    BY <1>2, Zenon DEF Whole, WaitingRight
  <2> QED
    BY <2>1, Zenon DEF Waiting
<1>4. ~Ended(sendq, f.id)
  BY <1>1, <1>2, Zenon DEF SentBefore, Ended
<1>5. \A i \in DOMAIN sendq : sendq[i].sid = f.sid /\ sendq[i].id # f.id => Ended(sendq, sendq[i].id)
  BY Zenon DEF Whole, EndsOut
<1> QED
  BY <1>3, <1>4, <1>5, Zenon DEF Follows

LEMMA EnqueueStepWhole ==
  ASSUME OrderInv, Whole, NEW s \in Stream, NEW n \in Pin, NEW len \in 1..MaxLen,
         NEW complete \in BOOLEAN, Enqueue(s, n, len, complete)
  PROVE  Whole'
<1> DEFINE sp == [id |-> msgs + 1, net |-> n, len |-> len, taken |-> FALSE,
                  complete |-> complete, discard |-> FALSE]
<1>1. sp \in Msg
  BY SchedulerAssumption DEF OrderInv, QueueType, Msg
<1>2. outq' = [outq EXCEPT ![s] = Append(@, sp)] /\ sendq' = sendq
  BY Zenon DEF Enqueue, Queued
<1>3. sp.id = msgs + 1 /\ sp.len > 0 /\ ~sp.taken
  OBVIOUS
<1> HIDE DEF sp
<1> QED
  BY <1>1, <1>2, <1>3, EnqueueWhole, Zenon

LEMMA SendMoreStepWhole ==
  ASSUME OrderInv, Whole, NEW s \in Stream, NEW len \in 1..MaxLen, NEW complete \in BOOLEAN,
         SendMore(s, len, complete)
  PROVE  Whole'
<1> DEFINE k == Len(outq[s])
           r == outq[s][k]
           m == [r EXCEPT !.len = @ + len, !.complete = complete]
<1>1. QueueType
  BY Zenon DEF OrderInv
<1>2. k \in DOMAIN outq[s]
  <2>1. outq[s] \in Seq(Msg) /\ outq[s] # <<>>
    BY <1>1, Zenon DEF QueueType, SendMore, Begun
  <2> QED
    BY <2>1
<1>3. r \in Msg
  BY <1>1, <1>2, MsgFields, Zenon
<1>4. outq' = [outq EXCEPT ![s] = [outq[s] EXCEPT ![k] = m]] /\ sendq' = sendq
  <2>1. outq \in [Stream -> Seq(Msg)] /\ outq[s] \in Seq(Msg)
    BY <1>1, Zenon DEF QueueType
  <2>2. outq' = [outq EXCEPT ![s][k].len = @ + len, ![s][k].complete = complete] /\ sendq' = sendq
    BY Zenon DEF SendMore
  <2> QED
    BY <1>2, <1>3, <2>1, <2>2, Zenon DEF Msg
<1>5. m.id = r.id /\ m.discard = r.discard /\ m.taken = r.taken /\ m.len > 0
  BY <1>3 DEF Msg
<1>6. Waiting(sendq, m)
  <2>1. Waiting(sendq, r)
    BY <1>2, Zenon DEF Whole, WaitingRight
  <2> HIDE DEF m, r
  <2> QED
    BY <1>5, <2>1, Zenon DEF Waiting
<1>7. Edits(s, k, m)
  BY <1>2, <1>4, <1>5, Zenon DEF Edits
<1> HIDE DEF k, m
<1> QED
  BY <1>1, <1>4, <1>5, <1>6, <1>7, EditWhole, Zenon

LEMMA MoveFreesStepWhole ==
  ASSUME OrderInv, Whole, MoveFrees
  PROVE  Whole'
<1> DEFINE s == fill.strq
<1>1. QueueType
  BY Zenon DEF OrderInv
<1>2. /\ s \in Stream /\ outq[s] # <<>> /\ Head(outq[s]).complete /\ Head(outq[s]).len = 0
      /\ sendq' = sendq
  BY Zenon DEF MoveFrees, Serving
<1>3. outq' = [outq EXCEPT ![s] = Tail(outq[s])]
  BY Zenon DEF MoveFrees, DropHead
<1>4. 1 \in DOMAIN outq[s] /\ Head(outq[s]) = outq[s][1]
  BY <1>1, <1>2, HeadFacts, Zenon
<1>5. Waiting(sendq, outq[s][1])
  BY <1>2, <1>4, Zenon DEF Whole, WaitingRight
<1>6. outq[s][1].discard
  BY <1>2, <1>4, <1>5 DEF Waiting
<1>7. Drops(s)
  BY <1>2, <1>3, Zenon DEF Drops
<1> HIDE DEF s
<1> QED
  BY <1>1, <1>2, <1>6, <1>7, DropWhole, Zenon

LEMMA MoveNothingStepWhole ==
  ASSUME OrderInv, Whole, MoveNothing
  PROVE  Whole'
<1> DEFINE s == fill.strq
<1>1. QueueType
  BY Zenon DEF OrderInv
<1>2. sendq' = sendq /\ s \in Stream
  BY Zenon DEF MoveNothing, Serving
<1>3. \/ UNCHANGED outq
      \/ /\ outq[s] # <<>> /\ Head(outq[s]).discard
         /\ outq' = [outq EXCEPT ![s][1].len = 0, ![s][1].taken = TRUE]
  BY Zenon DEF MoveNothing
<1>4. CASE UNCHANGED outq
  BY <1>2, <1>4, UnchangedWhole, Zenon
<1>5. CASE /\ outq[s] # <<>> /\ Head(outq[s]).discard
           /\ outq' = [outq EXCEPT ![s][1].len = 0, ![s][1].taken = TRUE]
  <2> DEFINE m == [outq[s][1] EXCEPT !.len = 0, !.taken = TRUE]
  <2>1. outq[s] \in Seq(Msg) /\ 1 \in DOMAIN outq[s] /\ outq[s][1] \in Msg /\ outq[s][1].discard
    BY <1>1, <1>2, <1>5, HeadFacts, Zenon
  <2>2. m \in Msg /\ m.id = outq[s][1].id /\ m.discard = outq[s][1].discard
    BY <2>1, MsgMoves, Zenon
  <2>3. outq' = [outq EXCEPT ![s] = [outq[s] EXCEPT ![1] = m]]
    BY <1>1, <1>2, <1>5, <2>1, Zenon DEF QueueType
  <2> HIDE DEF m
  <2>4. Edits(s, 1, m) /\ Waiting(sendq, m)
    BY <1>2, <2>1, <2>2, <2>3, Zenon DEF Edits, Waiting
  <2> HIDE DEF s
  <2> QED
    BY <1>1, <1>2, <2>2, <2>4, EditWhole, Zenon
<1> QED
  BY <1>3, <1>4, <1>5, Zenon

LEMMA MoveFragmentStepWhole ==
  ASSUME OrderInv, Whole, MoveFragment
  PROVE  Whole'
<1> DEFINE s    == fill.strq
           sp   == outq[s][1]
           ends == sp.complete /\ sp.len = 1
           begins == ~sp.taken
           f    == Chunk(sp, s, begins, ends)
           some == ~ends \/ sp.taken
           rest == sp.len - 1
           m    == [sp EXCEPT !.len = rest, !.taken = some]
<1>1. QueueType /\ IdsGrow
  BY Zenon DEF OrderInv
<1>2. s \in Stream /\ outq[s] # <<>> /\ Head(outq[s]).len > 0 /\ ~Head(outq[s]).discard
  BY Zenon DEF MoveFragment, Serving
<1>3. outq[s] \in Seq(Msg) /\ 1 \in DOMAIN outq[s] /\ sp \in Msg /\ Head(outq[s]) = sp
  BY <1>1, <1>2, HeadFacts, Zenon
<1>4. ends \in BOOLEAN /\ begins \in BOOLEAN /\ some \in BOOLEAN
  BY Zenon
<1>5. rest \in Nat
  BY <1>2, <1>3 DEF Msg
<1>6. f \in Frag /\ f.id = sp.id /\ f.sid = s /\ (f.first <=> begins) /\ (f.last <=> ends)
  <2> HIDE DEF sp, begins, ends, s
  <2> QED
    BY <1>1, <1>2, <1>3, <1>4, ChunkFields
<1>7. sendq' = Append(sendq, f)
  BY <1>3, Zenon DEF MoveFragment
<1>8. /\ ends  => outq' = [[outq EXCEPT ![s][1] = m] EXCEPT ![s] = Tail(@)]
      /\ ~ends => outq' = [outq EXCEPT ![s][1] = m]
  <2>1. m = [sp EXCEPT !.len = @ - 1, !.taken = ~ends \/ @]
    BY <1>3, Zenon DEF Msg
  <2> QED
    BY <1>3, <2>1, Zenon DEF MoveFragment, DropHead
<1>9. /\ m \in Msg /\ m.id = sp.id /\ m.discard = sp.discard
      /\ m.taken = some /\ m.complete = sp.complete /\ m.len = rest
  <2>1. sp \in Msg /\ rest \in Nat /\ some \in BOOLEAN
    BY <1>3, <1>4, <1>5, Zenon
  <2> HIDE DEF sp, begins, ends, some, rest
  <2>2. m \in Msg /\ m.id = sp.id /\ m.discard = sp.discard
    BY <2>1, MsgMoves, Zenon
  <2>3. m.taken = some /\ m.complete = sp.complete /\ m.len = rest
    BY <2>1, Zenon DEF Msg
  <2> QED
    BY <2>2, <2>3, Zenon
<1>10. Follows(f)
  <2>1. ~sp.discard /\ (f.first <=> ~sp.taken)
    BY <1>2, <1>3, <1>6, Zenon
  <2> HIDE DEF f, s, ends, begins
  <2> QED
    BY <1>2, <1>6, <1>7, <2>1, HeadFollows, Zenon
<1> HIDE DEF m, f
<1>11. CASE ends
  <2>1. outq' = [outq EXCEPT ![s] = Tail(outq[s])]
    <3>1. Tail([outq[s] EXCEPT ![1] = m]) = Tail(outq[s])
      BY <1>3, <1>9
    <3>2. outq \in [Stream -> Seq(Msg)]
      BY <1>1, Zenon DEF QueueType
    <3>3. [outq EXCEPT ![s][1] = m][s] = [outq[s] EXCEPT ![1] = m]
      BY <1>2, <3>2, Zenon
    <3> QED
      BY <1>2, <1>8, <1>11, <3>1, <3>2, <3>3, Zenon
  <2>2. Drops(s) /\ f.last
    BY <1>2, <1>6, <1>11, <2>1, Zenon DEF Drops
  <2> HIDE DEF s
  <2> QED
    BY <1>1, <1>6, <1>10, <2>2, LeaveDropWhole, Zenon
<1>12. CASE ~ends
  <2>1. Edits(s, 1, m)
    BY <1>2, <1>3, <1>8, <1>9, <1>12, Zenon DEF Edits
  <2>2. m.taken /\ (m.complete => m.len > 0) /\ ~m.discard
    <3>1. sp.complete => sp.len # 1 /\ sp.len \in Nat
      BY <1>3, <1>12, Zenon DEF Msg
    <3>2. m.taken
      BY <1>9, <1>12, Zenon
    <3>3. m.complete => m.len > 0
      BY <1>2, <1>3, <1>9, <3>1
    <3>4. ~m.discard
      BY <1>2, <1>3, <1>9, Zenon
    <3> QED
      BY <3>2, <3>3, <3>4, Zenon
  <2> HIDE DEF s
  <2> QED
    BY <1>1, <1>6, <1>10, <2>1, <2>2, LeaveEditWhole, Zenon
<1> QED
  BY <1>11, <1>12, Zenon

LEMMA DiscardStepWhole ==
  ASSUME OrderInv, Whole, NEW s \in Stream, DiscardRest(s), "chunk" \notin Failure
  PROVE  Whole'
<1> DEFINE sp == outq[s][1]
           f  == Chunk(outq[s][1], s, FALSE, TRUE)
           m  == [sp EXCEPT !.discard = TRUE, !.len = 0]
<1>1. QueueType /\ IdsGrow
  BY Zenon DEF OrderInv
<1>2. outq[s] # <<>>
  BY Zenon DEF DiscardRest
<1>3. outq[s] \in Seq(Msg) /\ 1 \in DOMAIN outq[s] /\ sp \in Msg /\ Head(outq[s]) = sp
  BY <1>1, <1>2, HeadFacts, Zenon
<1>4. m \in Msg /\ m.id = sp.id /\ m.discard
  BY <1>3, MsgGivenUp, Zenon
<1>5. outq' = [outq EXCEPT ![s][1].discard = TRUE, ![s][1].len = 0]
  BY Zenon DEF DiscardRest
<1>6. outq' = [outq EXCEPT ![s] = [outq[s] EXCEPT ![1] = m]]
  BY <1>1, <1>3, <1>5, Zenon DEF QueueType
<1>7. Edits(s, 1, m)
  <2> HIDE DEF m
  <2> QED
    BY <1>3, <1>4, <1>6, Zenon DEF Edits
<1> HIDE DEF m
<1>8. \/ \E i \in DOMAIN sendq : /\ Ends(s, i)
                                 /\ i + 1 \in DOMAIN sendq => sendq[i + 1].id # sendq[i].id
      \/ Leaves(s, f, Stays) /\ \E i \in DOMAIN sendq : sendq[i].id = f.id
  BY <1>1, DiscardCases, Zenon
<1>9. CASE \E i \in DOMAIN sendq : /\ Ends(s, i)
                                   /\ i + 1 \in DOMAIN sendq => sendq[i + 1].id # sendq[i].id
  BY <1>1, <1>4, <1>7, <1>9, EndWhole, Zenon
<1>10. CASE Leaves(s, f, Stays) /\ \E i \in DOMAIN sendq : sendq[i].id = f.id
  <2>1. TRUE \in BOOLEAN /\ FALSE \in BOOLEAN
    BY Zenon
  <2>2. f.first <=> FALSE
    BY <1>1, <1>3, <2>1, ChunkFields, Zenon
  <2>3. f.last <=> TRUE
    BY <1>1, <1>3, <2>1, ChunkFields, Zenon
  <2>4. ~sp.discard /\ f.id = sp.id /\ f.sid = s /\ f \in Frag /\ sendq' = Append(sendq, f)
    BY <1>10, Zenon DEF Leaves
  <2>5. sp.taken
    <3>1. Waiting(sendq, sp)
      BY <1>3, Zenon DEF Whole, WaitingRight
    <3> QED
      BY <1>10, <2>4, <3>1, Zenon DEF Waiting, Out
  <2> HIDE DEF f
  <2>6. Follows(f)
    BY <1>2, <2>2, <2>4, <2>5, HeadFollows, Zenon
  <2> QED
    BY <1>1, <1>4, <1>7, <2>3, <2>4, <2>6, LeaveEditWhole, Zenon
<1> QED
  BY <1>8, <1>9, <1>10, Zenon

LEMMA StepWhole ==
  ASSUME Failure \subseteq {"mbuf"}, OrderInv, Whole, [Next]_vars
  PROVE  Whole'
<1>1. ASSUME NEW s \in Stream, NEW n \in Pin, NEW len \in 1..MaxLen,
             sctp_msg_append(s, n, len) \/ sctp_lower_sosend(s, n, len)
      PROVE  Whole'
  BY <1>1, EnqueueStepWhole, Zenon DEF sctp_msg_append, sctp_lower_sosend
<1>2. ASSUME NEW s \in Stream, NEW len \in 1..MaxLen, NEW complete \in BOOLEAN,
             SendMore(s, len, complete)
      PROVE  Whole'
  BY <1>2, SendMoreStepWhole, Zenon
<1>3. ASSUME NEW s \in Stream, DiscardRest(s) PROVE Whole'
  BY <1>3, DiscardStepWhole, Zenon
<1>4. ASSUME NEW m \in Scheduler, PluggableSs(m) PROVE Whole'
  BY <1>4, UnchangedWhole, Zenon DEF PluggableSs
<1>5. ASSUME NEW s \in Stream, NEW v \in Priority, SsValue(s, v) PROVE Whole'
  BY <1>5, UnchangedWhole, Zenon DEF SsValue
<1>6. CASE AddStreams
  BY <1>6, UnchangedWhole, Zenon DEF AddStreams
<1>7. ASSUME NEW n \in Net, BeginFill(n) PROVE Whole'
  BY <1>7, UnchangedWhole, Zenon DEF BeginFill, queues
<1>8. CASE SelectStream
  BY <1>8, UnchangedWhole, Zenon DEF SelectStream, queues
<1>9. CASE MoveFrees
  BY <1>9, MoveFreesStepWhole, Zenon
<1>10. CASE MoveNothing
  BY <1>10, MoveNothingStepWhole, Zenon
<1>11. CASE MoveFragment
  BY <1>11, MoveFragmentStepWhole, Zenon
<1>12. CASE Scheduled
  BY <1>12, UnchangedWhole, Zenon DEF Scheduled, queues
<1>13. CASE PacketDone
  BY <1>13, UnchangedWhole, Zenon DEF PacketDone, queues
<1>14. ASSUME NEW f \in Failure, MoveFails(f) PROVE Whole'
  <2>1. UNCHANGED <<outq, sendq>>
    BY <1>14, Zenon DEF MoveFails
  <2> QED
    BY <2>1, UnchangedWhole, Zenon
<1>15. CASE UNCHANGED vars
  BY <1>15, UnchangedWhole, Zenon DEF vars, queues
<1> QED
  BY <1>1, <1>2, <1>3, <1>4, <1>5, <1>6, <1>7, <1>8, <1>9, <1>10, <1>11, <1>12, <1>13, <1>14,
     <1>15, Zenon DEF Next, User, Output

(* Each message leaves as a first fragment and then others, and has had its end *)
(* before another message of its stream leaves, as long as only copies and      *)
(* header mbufs may be missing: sctp_move_to_outqueue restores the message then, *)
(* while a chunk or an mbuf that cannot be had elsewhere leaves it without its   *)
(* beginning or its end.                                                        *)
THEOREM MessagesLeaveWhole ==
  ASSUME Failure \subseteq {"mbuf"}
  PROVE  Spec => []FragmentsWellFormed
<1> DEFINE IInv == OrderInv /\ Whole
<1>1. Init => IInv
  BY InitOrder, InitWhole, Zenon
<1>2. IInv /\ [Next]_vars => IInv'
  BY StepOrder, StepWhole, Zenon
<1>3. IInv => FragmentsWellFormed
  BY Zenon DEF Whole
<1> QED
  BY <1>1, <1>2, <1>3, PTL DEF Spec
===============================================================================
