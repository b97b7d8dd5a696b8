-------------------------- MODULE IOMemoryProofs ---------------------------
(***************************************************************************)
(* What IOMemory guarantees for any finite number of worker threads.       *)
(***************************************************************************)
EXTENDS IOMemory, FiniteSetTheorems, TLAPS

(* A worker has a pointer to a slot from RequestMemory to ReturnMemory. *)
PointerFollowsControl ==
  \A w \in Workers : mem[w] \in Slots <=> pc[w] \in {"own", "return"}

IInv ==
  /\ TypeOK
  /\ PointerFollowsControl
  /\ NeverNull
  /\ ExactlyTheHolders
  /\ FewerBeyond

LEMMA NumSlotsIsNat == NumSlots \in Nat
  BY IOMemoryAssumption, FS_CardinalityType DEF NumSlots

LEMMA BeyondIsFinite ==
  ASSUME NEW i \in Int
  PROVE  /\ IsFiniteSet(Beyond(i))
         /\ Cardinality(Beyond(i)) \in Nat
         /\ Cardinality(Beyond(i)) <= NumSlots
<1>1. Beyond(i) \subseteq Workers
  BY DEF Beyond
<1> QED
  BY <1>1, IOMemoryAssumption, FS_Subset, FS_CardinalityType DEF NumSlots

LEMMA PosType ==
  ASSUME TypeOK, NEW w \in Workers
  PROVE  Pos(w) \in Int /\ Holding(w) \in Slots \cup {NoSlot}
  BY NumSlotsIsNat DEF TypeOK, Pos, Holding, Slots, NoSlot

-----------------------------------------------------------------------------
LEMMA InitIInv == Init => IInv
<1> SUFFICES ASSUME Init PROVE IInv
  OBVIOUS
<1> USE NumSlotsIsNat DEF Init
<1>1. TypeOK
  BY DEF TypeOK, Slots, NoSlot
<1>2. PointerFollowsControl
  BY DEF PointerFollowsControl, Slots, NoSlot
<1>3. NeverNull
  BY DEF NeverNull
<1>4. ExactlyTheHolders
  BY DEF ExactlyTheHolders, Holding, Slots, NoSlot
<1>5. ASSUME NEW i \in 0 .. NumSlots PROVE Cardinality(Beyond(i)) <= NumSlots - i
  <2>1. Beyond(i) = {}
    BY DEF Beyond, Pos, Holding, NoSlot
  <2>2. Cardinality(Beyond(i)) = 0
    BY <2>1, FS_EmptySet
  <2> QED
    BY <2>2
<1> QED
  BY <1>1, <1>2, <1>3, <1>4, <1>5 DEF IInv, FewerBeyond

(***************************************************************************)
(* A step of w moves no other worker.                                      *)
(***************************************************************************)
WorkerStep(w) ==
  RequestMemory(w) \/ RequestScan(w) \/ UseMemory(w) \/ ReturnMemory(w) \/ ReturnScan(w)

LEMMA OthersStay ==
  ASSUME TypeOK, NEW w \in Workers, WorkerStep(w), NEW v \in Workers, v # w
  PROVE  Holding(v)' = Holding(v) /\ Pos(v)' = Pos(v)
  BY DEF TypeOK, WorkerStep, RequestMemory, RequestScan, Marked, UseMemory, ReturnMemory, Blanked,
         ReturnScan, End, Cleared, Holding, Pos

(* If w does not move forward, no slot has more workers beyond it. *)
LEMMA BeyondShrinks ==
  ASSUME IInv, NEW w \in Workers, WorkerStep(w),
         NEW i \in 0 .. NumSlots, Pos(w)' >= i => Pos(w) >= i
  PROVE  Cardinality(Beyond(i)') <= NumSlots - i
<1>1. Beyond(i)' \subseteq Beyond(i)
  BY OthersStay DEF Beyond, IInv
<1>2. i \in Int /\ IsFiniteSet(Beyond(i)) /\ Cardinality(Beyond(i)) \in Nat
  BY BeyondIsFinite, NumSlotsIsNat
<1>3. Cardinality(Beyond(i)') <= Cardinality(Beyond(i))
  BY <1>1, <1>2, FS_Subset
<1>4. IsFiniteSet(Beyond(i)') /\ Cardinality(Beyond(i)') \in Nat
  BY <1>1, <1>2, FS_Subset, FS_CardinalityType
<1> QED
  BY <1>2, <1>3, <1>4, NumSlotsIsNat DEF IInv, FewerBeyond

(* If w holds what it held before, so does everybody. *)
LEMMA HoldersStay ==
  ASSUME IInv, NEW w \in Workers, WorkerStep(w),
         Holding(w)' = Holding(w), in_use' = in_use
  PROVE  ExactlyTheHolders'
<1>1. \A v \in Workers : Holding(v)' = Holding(v)
  BY OthersStay DEF IInv
<1> QED
  BY <1>1 DEF IInv, ExactlyTheHolders

LEMMA RequestMemoryStep ==
  ASSUME IInv, NEW w \in Workers, RequestMemory(w) PROVE IInv'
<1> USE NumSlotsIsNat DEF RequestMemory
<1>1. WorkerStep(w)
  BY DEF WorkerStep
<1>2. TypeOK'
  BY DEF IInv, TypeOK
<1>3. PointerFollowsControl'
  BY DEF IInv, TypeOK, PointerFollowsControl
<1>4. NeverNull'
  BY DEF IInv, TypeOK, NeverNull
<1>5. ExactlyTheHolders'
  <2>1. Holding(w)' = Holding(w)
    BY DEF IInv, TypeOK, Holding
  <2> QED
    BY <1>1, <2>1, HoldersStay
<1>6. ASSUME NEW i \in 0 .. NumSlots PROVE Cardinality(Beyond(i)') <= NumSlots - i
  <2>1. CASE i = 0
    <3>1. Beyond(i)' \subseteq Workers
      BY DEF Beyond
    <3>2. Cardinality(Beyond(i)') <= NumSlots
      BY <3>1, IOMemoryAssumption, FS_Subset DEF NumSlots
    <3> QED
      BY <2>1, <3>2
  <2>2. CASE i # 0
    <3>1. Pos(w)' = 0
      BY DEF IInv, TypeOK, Pos
    <3> QED
      BY <1>1, <2>2, <3>1, BeyondShrinks
  <2> QED
    BY <2>1, <2>2
<1> QED
  BY <1>2, <1>3, <1>4, <1>5, <1>6 DEF IInv, FewerBeyond

LEMMA RequestScanStep ==
  ASSUME IInv, NEW w \in Workers, RequestScan(w) PROVE IInv'
<1> USE NumSlotsIsNat
<1> DEFINE i == idx[w]
<1>1. WorkerStep(w)
  BY DEF WorkerStep
<1>2. pc[w] = "request" /\ i \in 0 .. NumSlots /\ Pos(w) = i /\ Holding(w) = NoSlot
  BY DEF RequestScan, Marked, IInv, TypeOK, Pos, Holding, NoSlot
(* The walk ends in front of the last slot at the latest. *)
<1>3. i # NumSlots
  <2>1. SUFFICES ASSUME i = NumSlots PROVE FALSE
    OBVIOUS
  <2>2. w \in Beyond(NumSlots)
    BY <1>2, <2>1 DEF Beyond
  <2>3. /\ IsFiniteSet(Beyond(NumSlots))
        /\ Cardinality(Beyond(NumSlots)) \in Nat
        /\ Cardinality(Beyond(NumSlots)) <= NumSlots - NumSlots
    BY BeyondIsFinite DEF IInv, FewerBeyond
  <2>4. Cardinality(Beyond(NumSlots)) = 0
    BY <2>3
  <2> QED
    BY <2>2, <2>3, <2>4, FS_EmptySet
<1>4. i \in Slots
  BY <1>2, <1>3 DEF Slots
<1>5. CASE in_use[i]
  <2>1. /\ idx' = [idx EXCEPT ![w] = i + 1]
        /\ UNCHANGED <<in_use, buffer, pc, mem>>
    BY <1>3, <1>5 DEF RequestScan, Marked
  <2>2. TypeOK' /\ PointerFollowsControl' /\ NeverNull'
    BY <1>2, <1>4, <2>1 DEF IInv, TypeOK, PointerFollowsControl, NeverNull, Slots
  <2>3. ExactlyTheHolders'
    <3>1. Holding(w)' = Holding(w)
      BY <1>2, <2>1 DEF Holding
    <3> QED
      BY <1>1, <2>1, <3>1, HoldersStay
  <2>4. Pos(w)' = i + 1
    BY <1>2, <2>1 DEF Pos, IInv, TypeOK
  <2>5. PICK q \in Workers : Holding(q) = i
    BY <1>4, <1>5 DEF IInv, ExactlyTheHolders
  <2>6. q # w /\ Pos(q) = i
    BY <1>2, <1>4, <2>5 DEF Pos, Holding, Slots, NoSlot
  <2>7. ASSUME NEW j \in 0 .. NumSlots PROVE Cardinality(Beyond(j)') <= NumSlots - j
    <3>1. CASE j # i + 1
      BY <1>1, <1>2, <2>4, <3>1, BeyondShrinks
    <3>2. CASE j = i + 1
      <4>1. Beyond(j)' = Beyond(j) \cup {w}
        BY <1>1, <1>2, <2>4, <3>2, OthersStay DEF Beyond, IInv
      <4>2. {w, q} \cup Beyond(j) \subseteq Beyond(i)
        BY <1>2, <2>6, <3>2, PosType DEF Beyond, IInv
      <4>3. w \notin Beyond(j) /\ q \notin Beyond(j)
        BY <1>2, <2>6, <3>2 DEF Beyond
      <4>4. /\ IsFiniteSet(Beyond(j)) /\ Cardinality(Beyond(j)) \in Nat
            /\ IsFiniteSet(Beyond(i)) /\ Cardinality(Beyond(i)) \in Nat
        BY <1>2, BeyondIsFinite
      <4>5. /\ IsFiniteSet(Beyond(j) \cup {w})
            /\ Cardinality(Beyond(j) \cup {w}) = Cardinality(Beyond(j)) + 1
        BY <4>3, <4>4, FS_AddElement
      <4>6. Cardinality((Beyond(j) \cup {w}) \cup {q}) = Cardinality(Beyond(j)) + 2
        <5>1. q \notin Beyond(j) \cup {w}
          BY <2>6, <4>3
        <5>2. Cardinality((Beyond(j) \cup {w}) \cup {q}) = Cardinality(Beyond(j) \cup {w}) + 1
          BY <4>5, <5>1, FS_AddElement
        <5> QED
          BY <4>4, <4>5, <5>2
      <4>7. (Beyond(j) \cup {w}) \cup {q} \subseteq Beyond(i)
        BY <4>2
      <4>8. Cardinality(Beyond(j)) + 2 <= Cardinality(Beyond(i))
        BY <4>4, <4>6, <4>7, FS_Subset
      <4>9. Cardinality(Beyond(i)) <= NumSlots - i
        BY <1>2 DEF IInv, FewerBeyond
      <4>10. Cardinality(Beyond(j)) + 1 <= NumSlots - j
        <5> HIDE DEF i
        <5> QED
          BY <1>2, <3>2, <4>4, <4>8, <4>9
      <4>11. Cardinality(Beyond(j)') = Cardinality(Beyond(j)) + 1
        BY <4>1, <4>5
      <4> QED
        BY <4>10, <4>11
    <3> QED
      BY <3>1, <3>2
  <2> QED
    BY <2>2, <2>3, <2>7 DEF IInv, FewerBeyond
<1>6. CASE ~in_use[i]
  <2>1. /\ in_use' = [in_use EXCEPT ![i] = TRUE]
        /\ pc' = [pc EXCEPT ![w] = "own"]
        /\ mem' = [mem EXCEPT ![w] = i]
        /\ UNCHANGED <<idx, buffer>>
    BY <1>3, <1>6 DEF RequestScan, Marked
  <2>2. TypeOK' /\ PointerFollowsControl' /\ NeverNull'
    BY <1>2, <1>4, <2>1 DEF IInv, TypeOK, PointerFollowsControl, NeverNull
  <2>3. Holding(w)' = i /\ Pos(w)' = i
    BY <2>1 DEF Holding, Pos, IInv, TypeOK
  <2>4. ExactlyTheHolders'
    <3>1. \A v \in Workers : v # w => Holding(v)' = Holding(v)
      BY <1>1, OthersStay DEF IInv
    <3>2. \A v \in Workers : Holding(v) # i
      BY <1>4, <1>6 DEF IInv, ExactlyTheHolders
    <3>3. \A k \in Slots : in_use'[k] <=> \E v \in Workers : Holding(v)' = k
      <4> TAKE k \in Slots
      <4>1. CASE k = i
        BY <2>1, <2>3, <4>1 DEF IInv, TypeOK
      <4>2. CASE k # i
        <5>1. in_use'[k] = in_use[k] /\ k # NoSlot
          BY <2>1, <4>2 DEF IInv, TypeOK, Slots, NoSlot
        <5>2. (\E v \in Workers : Holding(v)' = k) <=> (\E v \in Workers : Holding(v) = k)
          BY <1>2, <2>3, <3>1, <4>2, <5>1
        <5> QED
          BY <5>1, <5>2 DEF IInv, ExactlyTheHolders
      <4> QED
        BY <4>1, <4>2
    <3>4. \A u, v \in Workers : u # v /\ Holding(u)' # NoSlot => Holding(u)' # Holding(v)'
      BY <2>3, <3>1, <3>2 DEF IInv, ExactlyTheHolders
    <3> QED
      BY <3>3, <3>4 DEF ExactlyTheHolders
  <2>5. ASSUME NEW j \in 0 .. NumSlots PROVE Cardinality(Beyond(j)') <= NumSlots - j
    BY <1>1, <1>2, <2>3, BeyondShrinks
  <2> QED
    BY <2>2, <2>4, <2>5 DEF IInv, FewerBeyond
<1> QED
  BY <1>5, <1>6

LEMMA UseMemoryStep ==
  ASSUME IInv, NEW w \in Workers, UseMemory(w) PROVE IInv'
<1> USE DEF UseMemory
<1>1. WorkerStep(w) /\ Holding(w)' = Holding(w) /\ Pos(w)' = Pos(w)
  BY DEF WorkerStep, Holding, Pos
<1>2. mem[w] \in Slots
  BY DEF IInv, PointerFollowsControl
<1>3. TypeOK' /\ PointerFollowsControl' /\ NeverNull'
  BY <1>2 DEF IInv, TypeOK, PointerFollowsControl, NeverNull
<1>4. ExactlyTheHolders'
  BY <1>1, HoldersStay
<1>5. ASSUME NEW i \in 0 .. NumSlots PROVE Cardinality(Beyond(i)') <= NumSlots - i
  BY <1>1, BeyondShrinks
<1> QED
  BY <1>3, <1>4, <1>5 DEF IInv, FewerBeyond

LEMMA ReturnMemoryStep ==
  ASSUME IInv, NEW w \in Workers, ReturnMemory(w) PROVE IInv'
<1> USE NumSlotsIsNat DEF ReturnMemory, Blanked
<1>1. mem[w] \in Slots
  BY DEF IInv, PointerFollowsControl
<1>2. WorkerStep(w) /\ Holding(w)' = Holding(w) /\ Pos(w)' = Pos(w)
  BY <1>1 DEF WorkerStep, Holding, Pos, Slots, IInv, TypeOK
<1>3. TypeOK' /\ PointerFollowsControl' /\ NeverNull'
  BY <1>1 DEF IInv, TypeOK, PointerFollowsControl, NeverNull
<1>4. ExactlyTheHolders'
  BY <1>2, HoldersStay
<1>5. ASSUME NEW i \in 0 .. NumSlots PROVE Cardinality(Beyond(i)') <= NumSlots - i
  BY <1>2, BeyondShrinks
<1> QED
  BY <1>3, <1>4, <1>5 DEF IInv, FewerBeyond

LEMMA ReturnScanStep ==
  ASSUME IInv, NEW w \in Workers, ReturnScan(w) PROVE IInv'
<1> USE NumSlotsIsNat
<1> DEFINE i == idx[w]
<1>1. pc[w] = "return" /\ i \in 0 .. NumSlots /\ mem[w] \in Slots /\ mem[w] \in 0 .. NumSlots - 1
  BY DEF ReturnScan, End, Cleared, IInv, TypeOK, PointerFollowsControl, Slots
<1>2. WorkerStep(w)
  BY DEF WorkerStep
<1>3. ASSUME Pos(w)' = Pos(w) \/ Pos(w)' = NoSlot, NEW j \in 0 .. NumSlots
      PROVE  Cardinality(Beyond(j)') <= NumSlots - j
  BY <1>2, <1>3, BeyondShrinks DEF NoSlot
<1>4. CASE i = mem[w]
  <2>1. /\ in_use' = [in_use EXCEPT ![i] = FALSE]
        /\ idx' = [idx EXCEPT ![w] = i + 1]
        /\ UNCHANGED <<buffer, pc, mem>>
    <3>1. i < NumSlots
      BY <1>1, <1>4
    <3>2. in_use' = [in_use EXCEPT ![i] = in_use[i] /\ mem[w] # i]
      BY <3>1 DEF ReturnScan, End, Cleared
    <3>3. (in_use[i] /\ mem[w] # i) = FALSE
      BY <1>4
    <3> QED
      BY <3>1, <3>2, <3>3 DEF ReturnScan, End, Cleared
  <2>2. TypeOK' /\ PointerFollowsControl' /\ NeverNull'
    BY <1>1, <1>4, <2>1 DEF IInv, TypeOK, PointerFollowsControl, NeverNull
  <2>3. Holding(w) = i /\ Holding(w)' = NoSlot /\ Pos(w)' = NoSlot
    BY <1>1, <1>4, <2>1 DEF Holding, Pos, IInv, TypeOK
  <2>4. ExactlyTheHolders'
    <3>1. \A v \in Workers : v # w => Holding(v)' = Holding(v)
      BY <1>2, OthersStay DEF IInv
    <3>2. \A v \in Workers : v # w => Holding(v) # i
      BY <1>1, <1>4, <2>3 DEF IInv, ExactlyTheHolders, Slots, NoSlot
    <3>3. \A k \in Slots : in_use'[k] <=> \E v \in Workers : Holding(v)' = k
      <4> TAKE k \in Slots
      <4>1. k # NoSlot
        BY DEF Slots, NoSlot
      <4>2. CASE k = i
        BY <2>1, <2>3, <3>1, <3>2, <4>1, <4>2 DEF IInv, TypeOK
      <4>3. CASE k # i
        <5>1. in_use'[k] = in_use[k]
          BY <2>1, <4>3 DEF IInv, TypeOK
        <5>2. (\E v \in Workers : Holding(v)' = k) <=> (\E v \in Workers : Holding(v) = k)
          BY <2>3, <3>1, <4>1, <4>3
        <5> QED
          BY <5>1, <5>2 DEF IInv, ExactlyTheHolders
      <4> QED
        BY <4>2, <4>3
    <3>4. \A u, v \in Workers : u # v /\ Holding(u)' # NoSlot => Holding(u)' # Holding(v)'
      BY <2>3, <3>1 DEF IInv, ExactlyTheHolders
    <3> QED
      BY <3>3, <3>4 DEF ExactlyTheHolders
  <2> QED
    BY <1>3, <2>2, <2>3, <2>4 DEF IInv, FewerBeyond
<1>5. CASE i # mem[w] /\ i < NumSlots
  <2>1. /\ in_use' = in_use
        /\ idx' = [idx EXCEPT ![w] = i + 1]
        /\ UNCHANGED <<buffer, pc, mem>>
    BY <1>1, <1>5 DEF ReturnScan, End, Cleared, IInv, TypeOK, Slots
  <2>2. TypeOK' /\ PointerFollowsControl' /\ NeverNull'
    BY <1>1, <1>5, <2>1 DEF IInv, TypeOK, PointerFollowsControl, NeverNull
  <2>3. Holding(w)' = Holding(w) /\ Pos(w)' = Pos(w)
    BY <1>1, <1>5, <2>1 DEF Holding, Pos, IInv, TypeOK
  <2> QED
    BY <1>2, <1>3, <2>1, <2>2, <2>3, HoldersStay DEF IInv, FewerBeyond
<1>6. CASE i = NumSlots
  <2>1. /\ in_use' = in_use
        /\ pc' = [pc EXCEPT ![w] = "idle"]
        /\ mem' = [mem EXCEPT ![w] = NoSlot]
        /\ UNCHANGED <<buffer, idx>>
    BY <1>6 DEF ReturnScan, End, Cleared
  <2>2. TypeOK' /\ PointerFollowsControl' /\ NeverNull'
    BY <2>1 DEF IInv, TypeOK, PointerFollowsControl, NeverNull, Slots, NoSlot
  <2>3. Holding(w) = NoSlot /\ Holding(w)' = NoSlot /\ Pos(w)' = NoSlot
    BY <1>1, <1>6, <2>1 DEF Holding, Pos, IInv, TypeOK
  <2> QED
    BY <1>2, <1>3, <2>1, <2>2, <2>3, HoldersStay DEF IInv, FewerBeyond
<1> QED
  BY <1>1, <1>4, <1>5, <1>6

LEMMA StepIInv == IInv /\ [Next]_vars => IInv'
<1> SUFFICES ASSUME IInv, [Next]_vars PROVE IInv'
  OBVIOUS
<1>1. CASE UNCHANGED vars
  BY <1>1 DEF vars, IInv, TypeOK, PointerFollowsControl, NeverNull, ExactlyTheHolders,
     FewerBeyond, Beyond, Pos, Holding
<1>2. CASE Next
  BY <1>2, RequestMemoryStep, RequestScanStep, UseMemoryStep, ReturnMemoryStep,
     ReturnScanStep DEF Next
<1> QED
  BY <1>1, <1>2

(* For any number of workers, each variable keeps its type. *)
THEOREM TypeCorrect == Spec => []TypeOK
<1>1. IInv => TypeOK
  BY DEF IInv
<1> QED
  BY InitIInv, StepIInv, <1>1, PTL DEF Spec

(* For any number of workers, RequestMemory never returns nullptr, whatever *)
(* the walks of the other threads do meanwhile (Server.cpp:54-63).          *)
THEOREM RequestsSucceed == Spec => []NeverNull
<1>1. IInv => NeverNull
  BY DEF IInv
<1> QED
  BY InitIInv, StepIInv, <1>1, PTL DEF Spec

(* For any number of workers, no slot has two users and no slot leaks.      *)
THEOREM SlotsAreExclusive == Spec => []ExactlyTheHolders
<1>1. IInv => ExactlyTheHolders
  BY DEF IInv
<1> QED
  BY InitIInv, StepIInv, <1>1, PTL DEF Spec
-----------------------------------------------------------------------------
LEMMA InitNoForeignData == Init => NoForeignData
  BY DEF Init, NoForeignData

LEMMA StepNoForeignData == IInv /\ NoForeignData /\ [Next]_vars => NoForeignData'
<1> SUFFICES ASSUME IInv, NoForeignData, [Next]_vars PROVE NoForeignData'
  OBVIOUS
<1> USE DEF IInv, TypeOK, NoForeignData
<1>1. ASSUME NEW w \in Workers, RequestMemory(w) PROVE NoForeignData'
  BY <1>1 DEF RequestMemory
<1>2. ASSUME NEW w \in Workers, RequestScan(w) PROVE NoForeignData'
  BY <1>2 DEF RequestScan, Marked
<1>3. ASSUME NEW w \in Workers, UseMemory(w) PROVE NoForeignData'
  BY <1>3 DEF UseMemory
<1>4. ASSUME NEW w \in Workers, ReturnMemory(w) PROVE NoForeignData'
  BY <1>4 DEF ReturnMemory, Blanked
<1>5. ASSUME NEW w \in Workers, ReturnScan(w) PROVE NoForeignData'
  BY <1>5 DEF ReturnScan, End, Cleared
<1>6. CASE UNCHANGED vars
  BY <1>6 DEF vars
<1> QED
  BY <1>1, <1>2, <1>3, <1>4, <1>5, <1>6 DEF Next

(* For any number of workers, a buffer holds the data of nobody but the    *)
(* worker that owns it: what a request leaves behind is gone before the    *)
(* next one gets the slot (Server.cpp:68-76).                              *)
THEOREM BuffersArePrivate == Spec => []NoForeignData
<1>1. Init => IInv /\ NoForeignData
  BY InitIInv, InitNoForeignData
<1>2. (IInv /\ NoForeignData) /\ [Next]_vars => (IInv /\ NoForeignData)'
  BY StepIInv, StepNoForeignData
<1> QED
  BY <1>1, <1>2, PTL DEF Spec

-----------------------------------------------------------------------------
LEMMA InitIsBufferPoolInit == Init => BP!Init
  BY DEF Init, BP!Init, BP!Blank, Holding, NoSlot

LEMMA StepIsBufferPoolStep == IInv /\ NoForeignData /\ [Next]_vars => [BP!Next]_(BP!vars)
<1> SUFFICES ASSUME IInv, NoForeignData, [Next]_vars PROVE [BP!Next]_(BP!vars)
  OBVIOUS
<1> DEFINE holds == [w \in Workers |-> Holding(w)]
<1> USE NumSlotsIsNat DEF BP!vars, BP!Blank
(* A step of w changes what w holds, at most. *)
<1>a. ASSUME NEW w \in Workers, WorkerStep(w)
      PROVE  holds' = [holds EXCEPT ![w] = Holding(w)']
  BY <1>a, OthersStay DEF IInv
<1>b. ASSUME NEW w \in Workers, WorkerStep(w), Holding(w)' = Holding(w)
      PROVE  holds' = holds
  BY <1>b, OthersStay DEF IInv
<1>1. ASSUME NEW w \in Workers, RequestMemory(w) PROVE UNCHANGED BP!vars
  <2>1. Holding(w)' = Holding(w)
    BY <1>1 DEF RequestMemory, Holding, IInv, TypeOK
  <2> QED
    BY <1>1, <1>b, <2>1 DEF RequestMemory, WorkerStep
<1>2. ASSUME NEW w \in Workers, RequestScan(w) PROVE BP!Acquire(w) \/ UNCHANGED BP!vars
  <2> DEFINE i == idx[w]
  <2>1. CASE mem' = mem
    <3>1. Holding(w)' = Holding(w)
      BY <1>2, <2>1 DEF RequestScan, Marked, Holding, IInv, TypeOK, PointerFollowsControl
    <3> QED
      BY <1>2, <1>b, <3>1 DEF RequestScan, Marked, WorkerStep
  <2>2. CASE mem' # mem
    <3>1. /\ i # NumSlots /\ ~in_use[i] /\ pc[w] = "request"
          /\ pc' = [pc EXCEPT ![w] = "own"]
          /\ mem' = [mem EXCEPT ![w] = i]
          /\ buffer' = buffer
      BY <1>2, <2>2 DEF RequestScan, Marked
    <3>2. i \in Slots
      BY <3>1 DEF IInv, TypeOK, Slots
    <3>3. Holding(w) = NoSlot /\ Holding(w)' = i
      BY <3>1 DEF Holding, IInv, TypeOK
    <3>4. \A v \in Workers : holds[v] # i
      BY <3>1, <3>2 DEF IInv, ExactlyTheHolders
    <3>5. holds' = [holds EXCEPT ![w] = i]
      BY <1>2, <1>a, <3>3 DEF WorkerStep
    <3> QED
      BY <3>1, <3>2, <3>3, <3>4, <3>5 DEF BP!Acquire, BP!Free
  <2> QED
    BY <2>1, <2>2
<1>3. ASSUME NEW w \in Workers, UseMemory(w)
      PROVE  \E D \in SUBSET Workers : BP!Write(w, D)
  <2>1. Holding(w) = mem[w] /\ Holding(w)' = Holding(w) /\ mem[w] # NoSlot
    BY <1>3 DEF UseMemory, Holding, IInv, PointerFollowsControl, Slots, NoSlot
  <2>2. holds' = holds
    BY <1>3, <1>b, <2>1 DEF WorkerStep
  <2>3. buffer[mem[w]] \cup {w} \in SUBSET Workers
    BY <2>1, <1>3 DEF UseMemory, IInv, TypeOK, PointerFollowsControl
  <2>4. BP!Write(w, buffer[mem[w]] \cup {w})
    BY <1>3, <2>1, <2>2 DEF UseMemory, BP!Write
  <2> QED
    BY <2>3, <2>4
<1>4. ASSUME NEW w \in Workers, ReturnMemory(w) PROVE BP!Wipe(w)
  <2>1. Holding(w) = mem[w] /\ Holding(w)' = Holding(w) /\ mem[w] # NoSlot
    BY <1>4 DEF ReturnMemory, Blanked, Holding, IInv, TypeOK, PointerFollowsControl, Slots, NoSlot
  <2>2. holds' = holds
    BY <1>4, <1>b, <2>1 DEF WorkerStep
  <2> QED
    BY <1>4, <2>1, <2>2 DEF ReturnMemory, Blanked, BP!Wipe
<1>5. ASSUME NEW w \in Workers, ReturnScan(w) PROVE BP!Release(w) \/ UNCHANGED BP!vars
  <2> DEFINE i == idx[w]
  <2>1. /\ pc[w] = "return" /\ i \in 0 .. NumSlots /\ mem[w] \in Slots
        /\ mem[w] \in 0 .. NumSlots - 1 /\ mem[w] # NoSlot /\ buffer' = buffer
    BY <1>5 DEF ReturnScan, End, Cleared, IInv, TypeOK, PointerFollowsControl, Slots, NoSlot
  <2>2. CASE i = mem[w]
    <3>1. Holding(w) = i /\ Holding(w)' = NoSlot
      BY <1>5, <2>1, <2>2 DEF ReturnScan, End, Cleared, Holding, IInv, TypeOK
    <3>2. holds' = [holds EXCEPT ![w] = NoSlot]
      BY <1>5, <1>a, <3>1 DEF WorkerStep
    <3>3. buffer[i] = {}
      <4>1. SUFFICES ASSUME NEW d \in buffer[i] PROVE FALSE
        OBVIOUS
      <4>2. d \in Workers /\ pc[d] = "own" /\ mem[d] = i
        BY <2>1, <2>2, <4>1 DEF IInv, TypeOK, NoForeignData
      <4>3. Holding(d) = i /\ d # w
        BY <2>1, <4>2 DEF Holding
      <4> QED
        BY <2>1, <2>2, <3>1, <4>2, <4>3 DEF IInv, ExactlyTheHolders
    <3> QED
      BY <2>1, <2>2, <3>1, <3>2, <3>3 DEF BP!Release
  <2>3. CASE i # mem[w]
    <3>1. Holding(w)' = Holding(w)
      BY <1>5, <2>1, <2>3 DEF ReturnScan, End, Cleared, Holding, IInv, TypeOK
    <3> QED
      BY <1>5, <1>b, <2>1, <3>1 DEF WorkerStep
  <2> QED
    BY <2>2, <2>3
<1>6. CASE UNCHANGED vars
  BY <1>6 DEF vars, Holding
<1> QED
  BY <1>1, <1>2, <1>3, <1>4, <1>5, <1>6 DEF Next, BP!Next

(* For any number of workers, the flags, the mutexes and the walks of      *)
(* Server.cpp:54-76 implement BufferPool: a request takes effect when a    *)
(* walk marks a free slot, a return when a walk clears its own.            *)
THEOREM ImplementsBufferPool == Spec => IsBufferPool
<1>1. Init => IInv /\ NoForeignData
  BY InitIInv, InitNoForeignData
<1>2. (IInv /\ NoForeignData) /\ [Next]_vars => (IInv /\ NoForeignData)'
  BY StepIInv, StepNoForeignData
<1> QED
  BY <1>1, <1>2, InitIsBufferPoolInit, StepIsBufferPoolStep, PTL
     DEF Spec, IsBufferPool, BP!Spec
=============================================================================
