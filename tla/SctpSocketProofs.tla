--------------------------- MODULE SctpSocketProofs ---------------------------
(***************************************************************************)
(* Proofs about SctpSocket, for every finite set of threads: the safety    *)
(* invariants of the readers-writers scheme, and that the scheme           *)
(* implements NativeHandle.                                                *)
(*                                                                         *)
(* The heart of the argument is that ptrLockCount is the cardinality of    *)
(* the set Holders of locks held, so that a count of 0 seen in the monitor *)
(* means that no thread is inside a native call.                           *)
(***************************************************************************)
EXTENDS SctpSocket, FiniteSetTheorems, TLAPS

(* Whoever waits to enter the synchronized block of closeNative has written    *)
(* closed before.                                                              *)
ClosersWrote == \A t \in Thread : pc[t] = "closeSync" => closed # "no"

(* The inductive invariant: the safety invariants, the count of lock holders,  *)
(* and that the pointer has been taken before the struct is freed.             *)
IInv ==
  /\ TypeOK
  /\ ptrLockCount = Cardinality(Holders)
  /\ NoUseAfterFree /\ FreedOnce /\ NoLeak
  /\ struct = "freed" => ~ptr
  /\ ClosersWrote

(* A step of the socket is a step of the abstract handle, or leaves it alone. *)
HandleStep == [Handle!Next]_(Handle!vars)

-----------------------------------------------------------------------------
(* The program counters and operations that the actions set are in their types. *)
LEMMA Labels ==
  /\ {"idle", "closeSync", "sendArgs", "found", "free", "remove"} \subseteq Pc
  /\ {"lock", "native", "inCall", "unlock"} \subseteq Pc /\ AccPc \subseteq Pc
  /\ {"accLock", "accNative", "accCall", "accClose", "accSwap", "accUnlock"} \subseteq Pc
  /\ {"accFree", "accRemove", "accDone"} \subseteq Pc
  /\ {"connect", "listen", "shutdown", "send", "onConnIn", "data", "close", "none"} \subseteq Op
BY DEF Pc, OpPc, AccPc, Op, ReaderOp

(* Only finitely many locks are held: two per thread. *)
LEMMA HoldersFinite == IsFiniteSet(Holders)
<1>1. IsFiniteSet({"outer", "inner"})
  <2>1. IsFiniteSet({"outer"}) /\ IsFiniteSet({"inner"})
    BY FS_Singleton
  <2>2. {"outer", "inner"} = {"outer"} \cup {"inner"}
    OBVIOUS
  <2>3. QED
    BY <2>1, <2>2, FS_Union
<1>2. IsFiniteSet(Thread \X {"outer", "inner"})
  BY <1>1, ThreadAssumption, FS_Product
<1>3. QED
  BY <1>2, FS_Subset DEF Holders

(* Membership in Holders, lock by lock. *)
LEMMA HoldersMember ==
  ASSUME NEW u \in Thread
  PROVE  /\ <<u, "outer">> \in Holders <=> HoldsOuter(u)
         /\ <<u, "inner">> \in Holders <=> HoldsInner(u)
BY DEF Holders

(* A thread that moves without taking or releasing a lock leaves Holders alone. *)
LEMMA HoldersSame ==
  ASSUME NEW t \in Thread, NEW l, NEW o, TypeOK,
         pc' = [pc EXCEPT ![t] = l], op' = [op EXCEPT ![t] = o],
         HoldsOuter(t)' <=> HoldsOuter(t), HoldsInner(t)' <=> HoldsInner(t)
  PROVE  Holders' = Holders
<1>1. ASSUME NEW u \in Thread
      PROVE  (HoldsOuter(u)' <=> HoldsOuter(u)) /\ (HoldsInner(u)' <=> HoldsInner(u))
  BY <1>1 DEF HoldsOuter, HoldsInner, TypeOK
<1>2. QED
  BY <1>1 DEF Holders

(* lockPtr adds one lock of one thread, unlockPtr removes it. *)
LEMMA HoldersAdd ==
  ASSUME NEW t \in Thread, NEW l, NEW o, NEW k \in {"outer", "inner"}, TypeOK,
         pc' = [pc EXCEPT ![t] = l], op' = [op EXCEPT ![t] = o],
         k = "outer" =>
           /\ ~HoldsOuter(t) /\ HoldsOuter(t)'
           /\ HoldsInner(t)' <=> HoldsInner(t),
         k = "inner" =>
           /\ ~HoldsInner(t) /\ HoldsInner(t)'
           /\ HoldsOuter(t)' <=> HoldsOuter(t)
  PROVE  /\ <<t, k>> \notin Holders /\ Holders' = Holders \cup {<<t, k>>}
         /\ Cardinality(Holders') = Cardinality(Holders) + 1
<1>1. ASSUME NEW u \in Thread, u # t
      PROVE  (HoldsOuter(u)' <=> HoldsOuter(u)) /\ (HoldsInner(u)' <=> HoldsInner(u))
  BY <1>1 DEF HoldsOuter, HoldsInner, TypeOK
<1>2. <<t, k>> \notin Holders
  <2>1. CASE k = "outer"
    BY <2>1, HoldersMember
  <2>2. CASE k = "inner"
    BY <2>2, HoldersMember
  <2>3. QED
    BY <2>1, <2>2
<1>3. Holders' = Holders \cup {<<t, k>>}
  <2>1. ASSUME NEW h \in Thread \X {"outer", "inner"}
        PROVE  h \in Holders' <=> h \in Holders \cup {<<t, k>>}
    <3>1. PICK u \in Thread, j \in {"outer", "inner"} : h = <<u, j>>
      OBVIOUS
    <3>2. CASE u # t
      BY <1>1, <3>1, <3>2 DEF Holders
    <3>3. CASE u = t
      <4>1. CASE j = "outer"
        BY <3>1, <3>3, <4>1 DEF Holders
      <4>2. CASE j = "inner"
        BY <3>1, <3>3, <4>2 DEF Holders
      <4>3. QED
        BY <4>1, <4>2
    <3>4. QED
      BY <3>2, <3>3
  <2>2. QED
    BY <2>1 DEF Holders
<1>4. QED
  BY <1>2, <1>3, HoldersFinite, FS_AddElement

LEMMA HoldersRemove ==
  ASSUME NEW t \in Thread, NEW l, NEW o, NEW k \in {"outer", "inner"}, TypeOK,
         pc' = [pc EXCEPT ![t] = l], op' = [op EXCEPT ![t] = o],
         k = "outer" =>
           /\ HoldsOuter(t) /\ ~HoldsOuter(t)'
           /\ HoldsInner(t)' <=> HoldsInner(t),
         k = "inner" =>
           /\ HoldsInner(t) /\ ~HoldsInner(t)'
           /\ HoldsOuter(t)' <=> HoldsOuter(t)
  PROVE  /\ <<t, k>> \in Holders /\ Holders' = Holders \ {<<t, k>>}
         /\ Cardinality(Holders) \in Nat \ {0}
         /\ Cardinality(Holders') = Cardinality(Holders) - 1
<1>1. ASSUME NEW u \in Thread, u # t
      PROVE  (HoldsOuter(u)' <=> HoldsOuter(u)) /\ (HoldsInner(u)' <=> HoldsInner(u))
  BY <1>1 DEF HoldsOuter, HoldsInner, TypeOK
<1>2. <<t, k>> \in Holders
  <2>1. CASE k = "outer"
    BY <2>1, HoldersMember
  <2>2. CASE k = "inner"
    BY <2>2, HoldersMember
  <2>3. QED
    BY <2>1, <2>2
<1>3. Holders' = Holders \ {<<t, k>>}
  <2>1. ASSUME NEW h \in Thread \X {"outer", "inner"}
        PROVE  h \in Holders' <=> h \in Holders \ {<<t, k>>}
    <3>1. PICK u \in Thread, j \in {"outer", "inner"} : h = <<u, j>>
      OBVIOUS
    <3>2. CASE u # t
      BY <1>1, <3>1, <3>2 DEF Holders
    <3>3. CASE u = t
      <4>1. CASE j = "outer"
        BY <3>1, <3>3, <4>1 DEF Holders
      <4>2. CASE j = "inner"
        BY <3>1, <3>3, <4>2 DEF Holders
      <4>3. QED
        BY <4>1, <4>2
    <3>4. QED
      BY <3>2, <3>3
  <2>2. QED
    BY <2>1 DEF Holders
<1>4. QED
  BY <1>2, <1>3, HoldersFinite, FS_RemoveElement, FS_CardinalityType, FS_EmptySet

-----------------------------------------------------------------------------
(* Steps that touch neither closed, ptr, ptrLockCount nor the struct, and move *)
(* no thread over a lock, into closeSocket or away from its synchronized block *)
(* in closeNative, preserve the invariant.                                     *)
LEMMA QuietStep ==
  ASSUME IInv, TypeOK', Holders' = Holders, UNCHANGED <<closed, ptr, ptrLockCount, struct>>,
         \A u \in Thread : InFree(u)' => InFree(u),
         \A u \in Thread : pc[u] = "closeSync" <=> pc'[u] = "closeSync"
  PROVE  IInv' /\ HandleStep
<1>1. ptrLockCount' = Cardinality(Holders)'
  BY DEF IInv
<1>2. NoUseAfterFree'
  BY DEF IInv, NoUseAfterFree
<1>3. FreedOnce'
  BY DEF IInv, FreedOnce
<1>4. NoLeak'
  BY DEF IInv, NoLeak
<1>5. HandleStep
  BY DEF HandleStep, Handle!vars
<1>6. ClosersWrote'
  BY DEF IInv, ClosersWrote
<1>7. QED
  BY <1>1, <1>2, <1>3, <1>4, <1>5, <1>6 DEF IInv

(* The operations that begin, and the steps that neither lock nor unlock. *)
LEMMA QuietActions ==
  ASSUME IInv, NEW t \in Thread,
         \/ BeginReader(t) \/ listenNative(t) \/ sendNative(t) \/ onSctpInboundPacket(t)
         \/ SendArgs(t) \/ onSctpIn(t) \/ NativeReadSo(t) \/ NativeCall(t)
         \/ NativeAccept(t) \/ NativeAcceptClose(t) \/ NativeAcceptSwap(t)
         \/ AccDone(t) \/ SocketsRemove(t)
  PROVE  IInv' /\ HandleStep
<1> USE DEF Goto, Enter, Return, LeaveOnSctpIn, javaVars, nativeVars
<1>1. TypeOK
  BY DEF IInv
<1>2. TypeOK'
  <2> USE Labels
  <2>1. CASE BeginReader(t)
    BY <1>1, <2>1 DEF TypeOK, BeginReader, Begin, connectNative, shutdownNative, onConnIn
  <2>2. CASE listenNative(t)
    BY <1>1, <2>2 DEF TypeOK, listenNative
  <2>3. CASE sendNative(t)
    BY <1>1, <2>3 DEF TypeOK, sendNative
  <2>4. CASE onSctpInboundPacket(t)
    BY <1>1, <2>4 DEF TypeOK, onSctpInboundPacket
  <2>5. CASE SendArgs(t)
    BY <1>1, <2>5 DEF TypeOK, SendArgs
  <2>6. CASE onSctpIn(t)
    BY <1>1, <2>6 DEF TypeOK, onSctpIn
  <2>7. CASE NativeReadSo(t)
    BY <1>1, <2>7 DEF TypeOK, NativeReadSo
  <2>8. CASE NativeCall(t)
    BY <1>1, <2>8 DEF TypeOK, NativeCall
  <2>9. CASE NativeAccept(t)
    <3>1. pending' \in Nat /\ accepted' \in Nat
      BY <1>1, <2>9 DEF TypeOK, NativeAccept
    <3>2. mySo' \in [Thread -> Nat]
      BY <1>1, <2>9 DEF TypeOK, NativeAccept
    <3>3. accRes' \in [Thread -> BOOLEAN] /\ pc' \in [Thread -> Pc]
      BY <1>1, <2>9 DEF TypeOK, NativeAccept
    <3>4. QED
      BY <1>1, <2>9, <3>1, <3>2, <3>3 DEF TypeOK, NativeAccept
  <2>10. CASE NativeAcceptClose(t)
    BY <1>1, <2>10 DEF TypeOK, NativeAcceptClose
  <2>11. CASE NativeAcceptSwap(t)
    BY <1>1, <2>11 DEF TypeOK, NativeAcceptSwap
  <2>12. CASE AccDone(t)
    BY <1>1, <2>12 DEF TypeOK, AccDone
  <2>13. CASE SocketsRemove(t)
    BY <1>1, <2>13 DEF TypeOK, SocketsRemove
  <2>14. QED
    BY <2>1, <2>2, <2>3, <2>4, <2>5, <2>6, <2>7, <2>8, <2>9, <2>10, <2>11, <2>12, <2>13
<1>3. UNCHANGED <<closed, ptr, ptrLockCount, struct>>
  BY DEF BeginReader, Begin, connectNative, shutdownNative, onConnIn,
      listenNative, sendNative, onSctpInboundPacket, SendArgs, onSctpIn,
     NativeReadSo, NativeCall, NativeAccept, NativeAcceptClose, NativeAcceptSwap, AccDone,
     SocketsRemove
<1>4. pc' = [pc EXCEPT ![t] = pc'[t]] /\ op' = [op EXCEPT ![t] = op'[t]]
  <2>1. CASE BeginReader(t) \/ listenNative(t) \/ sendNative(t) \/ onSctpInboundPacket(t)
    BY <1>1, <2>1 DEF TypeOK, BeginReader, Begin, connectNative, shutdownNative, onConnIn,
      listenNative, sendNative, onSctpInboundPacket
  <2>2. CASE SendArgs(t) \/ onSctpIn(t) \/ NativeReadSo(t) \/ NativeCall(t)
    BY <1>1, <2>2 DEF TypeOK, SendArgs, onSctpIn, NativeReadSo, NativeCall
  <2>3. CASE \/ NativeAccept(t) \/ NativeAcceptClose(t) \/ NativeAcceptSwap(t)
             \/ AccDone(t) \/ SocketsRemove(t)
    BY <1>1, <2>3 DEF TypeOK, NativeAccept, NativeAcceptClose, NativeAcceptSwap, AccDone,
       SocketsRemove
  <2>4. QED
    BY <2>1, <2>2, <2>3
<1>5. /\ HoldsOuter(t)' <=> HoldsOuter(t)
      /\ HoldsInner(t)' <=> HoldsInner(t)
      /\ ~InFree(t)' /\ pc[t] # "closeSync" /\ pc'[t] # "closeSync"
  <2> USE DEF HoldsOuter, HoldsInner, InFree, AccPc
  <2>1. CASE BeginReader(t) \/ listenNative(t) \/ sendNative(t) \/ onSctpInboundPacket(t)
    BY <1>1, <2>1 DEF TypeOK, BeginReader, Begin, connectNative, shutdownNative, onConnIn,
      listenNative, sendNative, onSctpInboundPacket
  <2>2. CASE SendArgs(t) \/ onSctpIn(t) \/ NativeReadSo(t) \/ NativeCall(t)
    BY <1>1, <2>2 DEF TypeOK, SendArgs, onSctpIn, NativeReadSo, NativeCall
  <2>3. CASE \/ NativeAccept(t) \/ NativeAcceptClose(t) \/ NativeAcceptSwap(t)
             \/ AccDone(t) \/ SocketsRemove(t)
    BY <1>1, <2>3 DEF TypeOK, NativeAccept, NativeAcceptClose, NativeAcceptSwap, AccDone,
       SocketsRemove
  <2>4. QED
    BY <2>1, <2>2, <2>3
<1>6. Holders' = Holders
  BY <1>1, <1>4, <1>5, HoldersSame
<1>7. ASSUME NEW u \in Thread
      PROVE  (InFree(u)' => InFree(u)) /\ (pc[u] = "closeSync" <=> pc'[u] = "closeSync")
  BY <1>1, <1>4, <1>5, <1>7 DEF InFree, TypeOK
<1>8. QED
  BY <1>2, <1>3, <1>6, <1>7, QuietStep

(* lockPtr takes a lock only while the pointer is there and no close is known. *)
LEMMA LockActions ==
  ASSUME IInv, NEW t \in Thread, LockPtr(t) \/ AccLockPtr(t)
  PROVE  IInv' /\ HandleStep
<1> USE DEF Goto, Enter, Return, LeaveOnSctpIn, nativeVars
<1>1. TypeOK
  BY DEF IInv
<1>2. TypeOK'
  <2> USE Labels
  <2>1. CASE LockPtr(t)
    BY <1>1, <2>1 DEF TypeOK, LockPtr
  <2>2. CASE AccLockPtr(t)
    BY <1>1, <2>2 DEF TypeOK, AccLockPtr
  <2>3. QED
    BY <2>1, <2>2
<1>3. UNCHANGED <<closed, ptr, struct>>
  BY DEF LockPtr, AccLockPtr
<1>4. pc' = [pc EXCEPT ![t] = pc'[t]] /\ op' = [op EXCEPT ![t] = op'[t]]
  BY <1>1 DEF TypeOK, LockPtr, AccLockPtr
<1>5. ~InFree(t)' /\ pc[t] # "closeSync" /\ pc'[t] # "closeSync"
  BY <1>1 DEF TypeOK, LockPtr, AccLockPtr, InFree
<1>6. ASSUME NEW u \in Thread
      PROVE  (InFree(u)' => InFree(u)) /\ (pc[u] = "closeSync" <=> pc'[u] = "closeSync")
  BY <1>1, <1>4, <1>5, <1>6 DEF InFree, TypeOK
<1>7. CASE ptrLockCount' = ptrLockCount
  <2>1. (HoldsOuter(t)' <=> HoldsOuter(t)) /\ (HoldsInner(t)' <=> HoldsInner(t))
    BY <1>1, <1>7 DEF TypeOK, LockPtr, AccLockPtr, HoldsOuter, HoldsInner, AccPc
  <2>2. Holders' = Holders
    BY <1>1, <1>4, <2>1, HoldersSame
  <2>3. QED
    BY <1>2, <1>3, <1>6, <1>7, <2>2, QuietStep
<1>8. CASE ptrLockCount' # ptrLockCount
  <2>1. ptrLockCount' = ptrLockCount + 1 /\ ptr /\ closed # "visible"
    BY <1>1, <1>8 DEF TypeOK, LockPtr, AccLockPtr, lockPtrReturns, ReadClosed
  <2>2. \E h \in Thread \X {"outer", "inner"} :
          /\ h \notin Holders /\ Holders' = Holders \cup {h}
          /\ Cardinality(Holders') = Cardinality(Holders) + 1
    <3>1. CASE LockPtr(t)
      <4>1. ~HoldsOuter(t) /\ HoldsOuter(t)' /\ (HoldsInner(t)' <=> HoldsInner(t))
        BY <1>1, <1>8, <3>1 DEF TypeOK, LockPtr, HoldsOuter, HoldsInner, AccPc
      <4>2. /\ <<t, "outer">> \notin Holders /\ Holders' = Holders \cup {<<t, "outer">>}
            /\ Cardinality(Holders') = Cardinality(Holders) + 1
        BY <1>1, <1>4, <4>1, HoldersAdd
      <4>3. QED
        BY <4>2
    <3>2. CASE AccLockPtr(t)
      <4>1. ~HoldsInner(t) /\ HoldsInner(t)' /\ (HoldsOuter(t)' <=> HoldsOuter(t))
        BY <1>1, <1>8, <3>2 DEF TypeOK, AccLockPtr, HoldsOuter, HoldsInner, AccPc
      <4>2. /\ <<t, "inner">> \notin Holders /\ Holders' = Holders \cup {<<t, "inner">>}
            /\ Cardinality(Holders') = Cardinality(Holders) + 1
        BY <1>1, <1>4, <4>1, HoldersAdd
      <4>3. QED
        BY <4>2
    <3>3. QED
      BY <3>1, <3>2
  <2>3. ptrLockCount' = Cardinality(Holders)'
    BY <2>1, <2>2 DEF IInv
  <2>4. NoUseAfterFree'
    BY <1>1, <1>3, <2>1 DEF IInv, NoUseAfterFree, TypeOK
  <2>5. FreedOnce'
    BY <1>3, <1>6 DEF IInv, FreedOnce
  <2>6. NoLeak'
    BY <1>3, <1>6, <2>1 DEF IInv, NoLeak
  <2>7. \E h \in Thread \X {"outer", "inner"} : Handle!Acquire(h)
    BY <1>1, <1>3, <2>1, <2>2 DEF Handle!Acquire, TypeOK
  <2>8. HandleStep
    BY <2>7 DEF HandleStep, Handle!Next
  <2>9. ClosersWrote'
    BY <1>3, <1>6 DEF IInv, ClosersWrote
  <2>10. QED
    BY <1>2, <1>3, <2>3, <2>4, <2>5, <2>6, <2>8, <2>9 DEF IInv
<1>9. QED
  BY <1>7, <1>8

(* unlockPtr: whoever takes the pointer is the last holder. *)
LEMMA UnlockAction ==
  ASSUME IInv, NEW t \in Thread, UnlockPtr(t)
  PROVE  IInv' /\ HandleStep
<1> USE DEF Goto, Enter, Return, nativeVars
<1>1. TypeOK
  BY DEF IInv
<1>2. UNCHANGED <<closed, struct>> /\ ptrLockCount' = ptrLockCount - 1
  BY DEF UnlockPtr
<1>3. pc' = [pc EXCEPT ![t] = pc'[t]] /\ op' = [op EXCEPT ![t] = op'[t]]
  BY <1>1 DEF TypeOK, UnlockPtr
<1>4. /\ Holders # {} /\ Cardinality(Holders) \in Nat \ {0} /\ IsFiniteSet(Holders')
      /\ Cardinality(Holders') = Cardinality(Holders) - 1
      /\ \E h \in Thread \X {"outer", "inner"} : h \in Holders /\ Holders' = Holders \ {h}
  <2>1. CASE pc[t] = "unlock"
    <3>1. HoldsOuter(t) /\ ~HoldsOuter(t)' /\ (HoldsInner(t)' <=> HoldsInner(t))
      BY <1>1, <2>1 DEF TypeOK, UnlockPtr, HoldsOuter, HoldsInner, AccPc
    <3>2. <<t, "outer">> \in Holders /\ Holders' = Holders \ {<<t, "outer">>}
      BY <1>1, <1>3, <3>1, HoldersRemove
    <3>3. QED
      BY <3>2, HoldersFinite, FS_RemoveElement, FS_CardinalityType, FS_EmptySet
  <2>2. CASE pc[t] = "accUnlock"
    <3>1. HoldsInner(t) /\ ~HoldsInner(t)' /\ (HoldsOuter(t)' <=> HoldsOuter(t))
      BY <1>1, <2>2 DEF TypeOK, UnlockPtr, HoldsOuter, HoldsInner, AccPc
    <3>2. <<t, "inner">> \in Holders /\ Holders' = Holders \ {<<t, "inner">>}
      BY <1>1, <1>3, <3>1, HoldersRemove
    <3>3. QED
      BY <3>2, HoldersFinite, FS_RemoveElement, FS_CardinalityType, FS_EmptySet
  <2>3. QED
    BY <2>1, <2>2 DEF UnlockPtr
<1>5. ptrLockCount' = Cardinality(Holders)'
  BY <1>2, <1>4 DEF IInv
<1>6. TypeOK'
  <2>1. ptrLockCount' \in Nat /\ ptr' \in BOOLEAN
    BY <1>1, <1>2, <1>4 DEF IInv, TypeOK, UnlockPtr
  <2>2. QED
    BY <1>1, <2>1, Labels DEF TypeOK, UnlockPtr
<1>7. struct = "live" /\ ptr
  BY <1>4 DEF IInv, NoUseAfterFree
<1>8. \A u \in Thread : ~InFree(u)
  BY <1>7 DEF IInv, FreedOnce
<1>9. \A u \in Thread : u # t => ~InFree(u)' /\ pc'[u] = pc[u]
  BY <1>1, <1>3, <1>8 DEF InFree, TypeOK
<1>10. pc[t] # "closeSync" /\ pc'[t] # "closeSync"
  BY <1>1 DEF TypeOK, UnlockPtr
<1> ClosersWrote'
  BY <1>2, <1>9, <1>10 DEF IInv, ClosersWrote
<1>11. CASE ptr'
  <2>1. ~InFree(t)' /\ (closed = "visible" => ptrLockCount' # 0)
    BY <1>1, <1>2, <1>7, <1>11 DEF TypeOK, UnlockPtr, InFree, unlockPtrTakes, ReadClosed
  <2>2. NoUseAfterFree'
    BY <1>2, <1>7, <1>11 DEF NoUseAfterFree
  <2>3. FreedOnce'
    BY <1>9, <2>1 DEF FreedOnce
  <2>4. NoLeak'
    BY <1>2, <1>9, <1>10, <2>1 DEF IInv, NoLeak
  <2>5. Holders' # {} \/ closed # "visible"
    BY <1>5, <2>1, FS_EmptySet
  <2>6. \E h \in Thread \X {"outer", "inner"} : Handle!Release(h)
    BY <1>1, <1>2, <1>4, <1>7, <1>11, <2>5 DEF Handle!Release, TypeOK
  <2>7. HandleStep
    BY <2>6 DEF HandleStep, Handle!Next
  <2>8. QED
    BY <1>2, <1>5, <1>6, <1>7, <2>2, <2>3, <2>4, <2>7 DEF IInv
<1>12. CASE ~ptr'
  <2>1. ptrLockCount' = 0
    BY <1>1, <1>2, <1>7, <1>12 DEF TypeOK, UnlockPtr, unlockPtrTakes
  <2>2. Holders' = {}
    BY <1>4, <1>5, <2>1, FS_EmptySet
  <2>3. NoUseAfterFree'
    BY <2>2 DEF NoUseAfterFree
  <2>4. FreedOnce'
    BY <1>2, <1>7, <1>9, <1>12 DEF FreedOnce
  <2>5. NoLeak'
    BY <1>2, <1>9, <1>10, <1>12 DEF IInv, NoLeak
  <2>6. closed # "no"
    BY <1>1, <1>7, <1>12 DEF TypeOK, UnlockPtr, unlockPtrTakes, ReadClosed
  <2>7. \E h \in Thread \X {"outer", "inner"} : Handle!Release(h)
    BY <1>1, <1>2, <1>4, <1>7, <1>12, <2>2, <2>6 DEF Handle!Release, TypeOK
  <2>8. HandleStep
    BY <2>7 DEF HandleStep, Handle!Next
  <2>9. QED
    BY <1>5, <1>6, <1>12, <2>3, <2>4, <2>5, <2>8 DEF IInv
<1>13. QED
  BY <1>11, <1>12

(* closeNative: the unsynchronized write of closed. *)
LEMMA CloseWriteAction ==
  ASSUME IInv, NEW t \in Thread, closeNative(t)
  PROVE  IInv' /\ HandleStep
<1> USE DEF Goto, Enter, nativeVars, closeNative
<1>1. TypeOK
  BY DEF IInv
<1>2. TypeOK'
  BY <1>1, Labels DEF TypeOK
<1>3. pc' = [pc EXCEPT ![t] = pc'[t]] /\ op' = [op EXCEPT ![t] = op'[t]]
  BY <1>1 DEF TypeOK
<1>4. (HoldsOuter(t)' <=> HoldsOuter(t)) /\ (HoldsInner(t)' <=> HoldsInner(t))
  BY <1>1 DEF TypeOK, HoldsOuter, HoldsInner, AccPc
<1>5. Holders' = Holders
  BY <1>1, <1>3, <1>4, HoldersSame
<1>6. \A u \in Thread : InFree(u)' => InFree(u)
  BY <1>1 DEF InFree, TypeOK
<1>7. UNCHANGED <<ptr, ptrLockCount, struct>>
  OBVIOUS
<1>8. pc'[t] = "closeSync" /\ \A u \in Thread : pc[u] = "closeSync" => pc'[u] = "closeSync"
  BY <1>1 DEF TypeOK
<1>9. NoUseAfterFree' /\ FreedOnce'
  BY <1>5, <1>6, <1>7 DEF IInv, NoUseAfterFree, FreedOnce
<1>10. NoLeak'
  BY <1>7, <1>8 DEF IInv, NoLeak
<1>11. HandleStep
  <2>1. CASE closed = "no"
    BY <1>5, <1>7, <2>1 DEF HandleStep, Handle!Next, Handle!AskClose
  <2>2. CASE closed # "no"
    BY <1>5, <1>7, <2>2 DEF HandleStep, Handle!vars
  <2>3. QED
    BY <2>1, <2>2
<1>12. ClosersWrote'
  BY <1>1, <1>2 DEF TypeOK, ClosersWrote
<1>13. QED
  BY <1>2, <1>5, <1>7, <1>9, <1>10, <1>11, <1>12 DEF IInv

(* closeNative: the synchronized block takes the pointer if no lock is held. *)
LEMMA CloseSyncAction ==
  ASSUME IInv, NEW t \in Thread, CloseSync(t)
  PROVE  IInv' /\ HandleStep
<1> USE DEF Goto, Enter, Return, nativeVars
<1>1. TypeOK
  BY DEF IInv
<1>2. TypeOK'
  BY <1>1, Labels DEF TypeOK, CloseSync
<1>3. pc' = [pc EXCEPT ![t] = pc'[t]] /\ op' = [op EXCEPT ![t] = op'[t]]
  BY <1>1 DEF TypeOK, CloseSync
<1>4. (HoldsOuter(t)' <=> HoldsOuter(t)) /\ (HoldsInner(t)' <=> HoldsInner(t))
  BY <1>1 DEF TypeOK, CloseSync, HoldsOuter, HoldsInner, AccPc
<1>5. Holders' = Holders
  BY <1>1, <1>3, <1>4, HoldersSame
<1>6. UNCHANGED <<ptrLockCount, struct>> /\ closed' = "visible"
  BY DEF CloseSync
<1>7. ptrLockCount = 0 <=> Holders = {}
  BY HoldersFinite, FS_EmptySet DEF IInv
<1>8. ptr' <=> ptr /\ Holders # {}
  BY <1>7 DEF CloseSync, closeNativeTakes
<1>9. NoUseAfterFree'
  BY <1>5, <1>6, <1>8 DEF IInv, NoUseAfterFree
<1>10. FreedOnce'
  <2>1. \A u \in Thread : u # t => (InFree(u)' <=> InFree(u))
    BY <1>1, <1>3 DEF InFree, TypeOK
  <2>2. ~InFree(t) /\ (InFree(t)' => ptr /\ ~ptr')
    BY <1>1 DEF InFree, TypeOK, CloseSync, closeNativeTakes
  <2>3. ptr => struct = "live"
    BY <1>1 DEF IInv, TypeOK
  <2>4. QED
    BY <1>6, <1>8, <2>1, <2>2, <2>3 DEF IInv, FreedOnce
<1>11. NoLeak'
  BY <1>6, <1>7, <1>8 DEF NoLeak
<1>12. HandleStep
  <2>1. closed # "no"
    BY DEF IInv, ClosersWrote, CloseSync
  <2>2. ptr => struct = "live"
    BY <1>1 DEF IInv, TypeOK
  <2>3. Handle!ConfirmClose
    BY <1>1, <1>5, <1>6, <1>8, <2>1, <2>2 DEF Handle!ConfirmClose, TypeOK
  <2>4. QED
    BY <2>3 DEF HandleStep, Handle!Next
<1>13. ClosersWrote'
  BY <1>6 DEF ClosersWrote
<1>14. QED
  BY <1>2, <1>5, <1>6, <1>8, <1>9, <1>10, <1>11, <1>12, <1>13 DEF IInv

(* closeSocket frees the struct: the thread that took the pointer does, once. *)
LEMMA FreeAction ==
  ASSUME IInv, NEW t \in Thread, closeSocket(t)
  PROVE  IInv' /\ HandleStep
<1> USE DEF Goto, javaVars, closeSocket
<1>1. TypeOK
  BY DEF IInv
<1>2. TypeOK'
  BY <1>1, Labels DEF TypeOK
<1>3. pc' = [pc EXCEPT ![t] = pc'[t]] /\ op' = [op EXCEPT ![t] = op'[t]]
  BY <1>1 DEF TypeOK
<1>4. (HoldsOuter(t)' <=> HoldsOuter(t)) /\ (HoldsInner(t)' <=> HoldsInner(t))
  BY <1>1 DEF TypeOK, HoldsOuter, HoldsInner, AccPc
<1>5. Holders' = Holders
  BY <1>1, <1>3, <1>4, HoldersSame
<1>6. UNCHANGED <<closed, ptr, ptrLockCount>> /\ struct' = "freed"
  OBVIOUS
<1>7. InFree(t) /\ ~InFree(t)' /\ pc[t] # "closeSync" /\ pc'[t] # "closeSync"
  BY <1>1 DEF TypeOK, InFree
<1>8. struct = "live" /\ ~ptr /\ \A u \in Thread : InFree(u) => u = t
  BY <1>7 DEF IInv, FreedOnce
<1>9. \A u \in Thread : u # t => (InFree(u)' <=> InFree(u)) /\ pc'[u] = pc[u]
  BY <1>1, <1>3 DEF InFree, TypeOK
<1>10. Holders = {}
  BY <1>8 DEF IInv, NoUseAfterFree
<1>11. NoUseAfterFree'
  BY <1>5, <1>10 DEF NoUseAfterFree
<1>12. FreedOnce'
  BY <1>7, <1>8, <1>9 DEF FreedOnce
<1>13. NoLeak' /\ ClosersWrote'
  BY <1>6, <1>7, <1>9 DEF IInv, NoLeak, ClosersWrote
<1>14. HandleStep
  BY <1>5, <1>6, <1>8 DEF HandleStep, Handle!Next, Handle!Free
<1>15. QED
  BY <1>2, <1>5, <1>6, <1>8, <1>11, <1>12, <1>13, <1>14 DEF IInv

-----------------------------------------------------------------------------
(* The invariant holds initially, and so does the abstract initial condition. *)
LEMMA InitInvariant == Init => IInv /\ Handle!Init
<1> SUFFICES ASSUME Init PROVE IInv /\ Handle!Init
  OBVIOUS
<1>1. TypeOK
  BY Labels DEF Init, TypeOK
<1>2. Holders = {}
  BY DEF Init, Holders, HoldsOuter, HoldsInner, AccPc
<1>3. ptrLockCount = Cardinality(Holders)
  BY <1>2, FS_EmptySet DEF Init
<1>4. NoUseAfterFree /\ FreedOnce /\ NoLeak /\ ClosersWrote
  BY <1>2 DEF Init, NoUseAfterFree, FreedOnce, InFree, NoLeak, ClosersWrote
<1>5. Handle!Init
  BY <1>2 DEF Init, Handle!Init
<1>6. QED
  BY <1>1, <1>3, <1>4, <1>5 DEF IInv, Init

(* Every step preserves the invariant and is a step of the abstract handle. *)
LEMMA NextInvariant == IInv /\ [Next]_vars => IInv' /\ HandleStep
<1> SUFFICES ASSUME IInv, [Next]_vars PROVE IInv' /\ HandleStep
  OBVIOUS
<1>1. ASSUME NEW t \in Thread, Step(t) PROVE IInv' /\ HandleStep
  BY <1>1, QuietActions, LockActions, UnlockAction, CloseSyncAction, FreeAction DEF Step
<1>2. CASE Next
  BY <1>1, <1>2, QuietActions, CloseWriteAction DEF Next
<1>3. CASE UNCHANGED vars
  <2>1. TypeOK' /\ UNCHANGED <<closed, ptr, ptrLockCount, struct, pc, op>>
    BY <1>3 DEF IInv, TypeOK, vars, javaVars, threadVars, nativeVars
  <2>2. Holders' = Holders
    BY <2>1 DEF Holders, HoldsOuter, HoldsInner
  <2>3. \A u \in Thread : InFree(u)' => InFree(u)
    BY <2>1 DEF InFree
  <2>4. QED
    BY <2>1, <2>2, <2>3, QuietStep
<1>4. QED
  BY <1>2, <1>3

(* For any threads and any interleaving of readers and closers: no native call *)
(* on a freed struct, balanced locks, one free, and no leak after closeNative. *)
THEOREM LifetimeSafety == Spec => []LifetimeSafe
<1>1. Spec => []IInv
  BY InitInvariant, NextInvariant, PTL DEF Spec
<1>2. IInv => LifetimeSafe
  <2> SUFFICES ASSUME IInv PROVE BalancedLocks
    BY DEF IInv, LifetimeSafe
  <2>1. ASSUME NEW t \in Thread, pc[t] \in {"unlock", "accUnlock"} PROVE ptrLockCount > 0
    <3>1. Holders # {}
      BY <2>1, HoldersMember DEF HoldsOuter, HoldsInner
    <3>2. Cardinality(Holders) \in Nat /\ Cardinality(Holders) # 0
      BY <3>1, HoldersFinite, FS_EmptySet, FS_CardinalityType
    <3>3. QED
      BY <3>2 DEF IInv
  <2>2. QED
    BY <2>1 DEF IInv, BalancedLocks
<1>3. QED
  BY <1>1, <1>2, PTL

(* lockPtr, unlockPtr and closeNative implement the abstract handle. *)
THEOREM Refinement == Spec => ImplementsHandle
<1>1. Spec => []IInv
  BY InitInvariant, NextInvariant, PTL DEF Spec
<1>2. Init => Handle!Init
  BY InitInvariant
<1>3. IInv /\ [Next]_vars => [Handle!Next]_(Handle!vars)
  BY NextInvariant DEF HandleStep
<1>4. QED
  BY <1>1, <1>2, <1>3, PTL DEF Spec, ImplementsHandle, Handle!Spec

(* A close is never undone, for any threads: once known it stays known, a      *)
(* pointer that was taken is never handed out again, a freed struct stays so.  *)
THEOREM CloseIsFinal == Spec => ClosedForGood
<1>1. Spec => []IInv
  BY InitInvariant, NextInvariant, PTL DEF Spec
<1>2. ASSUME IInv, IInv', HandleStep
      PROVE  /\ closed = "visible" => closed' = "visible"
             /\ ~ptr => ~ptr' /\ ptrLockCount' = 0
             /\ struct = "freed" => struct' = "freed"
  <2>1. TypeOK /\ TypeOK'
    BY <1>2 DEF IInv
  <2>2. ~ptr' => ptrLockCount' = 0
    <3>1. ~ptr' => Holders' = {}
      BY <1>2 DEF IInv, NoUseAfterFree
    <3>2. QED
      BY <1>2, <3>1, FS_EmptySet DEF IInv
  <2>3. closed = "visible" => closed' = "visible"
    BY <1>2, <2>1 DEF HandleStep, Handle!Next, Handle!vars, Handle!Acquire, Handle!Release,
       Handle!AskClose, Handle!ConfirmClose, Handle!Free, TypeOK
  <2>4. ~ptr => ~ptr'
    <3>1. ~ptr => Holders = {}
      BY <1>2 DEF IInv, NoUseAfterFree
    <3>2. QED
      BY <1>2, <2>1, <3>1 DEF HandleStep, Handle!Next, Handle!vars, Handle!Acquire,
         Handle!Release, Handle!AskClose, Handle!ConfirmClose, Handle!Free, TypeOK
  <2>5. struct = "freed" => struct' = "freed"
    <3>1. struct = "freed" => ~ptr /\ Holders = {}
      BY <1>2 DEF IInv, NoUseAfterFree
    <3>2. QED
      BY <1>2, <2>1, <2>4, <3>1 DEF HandleStep, Handle!Next, Handle!vars, Handle!Acquire,
         Handle!Release, Handle!AskClose, Handle!ConfirmClose, Handle!Free, TypeOK
  <2>6. QED
    BY <2>2, <2>3, <2>4, <2>5
<1>3. IInv /\ [Next]_vars => IInv' /\ HandleStep
  BY NextInvariant
<1>4. QED
  BY <1>1, <1>2, <1>3, PTL DEF Spec, ClosedForGood
===============================================================================
