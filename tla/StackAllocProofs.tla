-------------------------- MODULE StackAllocProofs -------------------------
(***************************************************************************)
(* What MemoryPool and StackAlloc keep to, for every number of pools,      *)
(* blocks and stacks and every size and alignment of a slot that the       *)
(* class accepts.                                                          *)
(*                                                                         *)
(* The two lists that a pool keeps in memory, its blocks and its free      *)
(* slots, are chains: a step changes them at their front, or unlinks them  *)
(* as a whole.  What the pools carve from their blocks is apart, as the    *)
(* blocks are, so that a step of one pool reaches no slot of another.      *)
(***************************************************************************)
EXTENDS StackAlloc, ListLemmas

Held(p) == {a \in Slots : holder[a] = p}

(* A pool that is not alive has neither blocks nor elements. *)
OnlyTheLivingOwn ==
  \A p \in Pools \ Living : currentBlock_[p] = Null /\ Held(p) = {}

BlocksAreLinked ==
  \A p \in Pools : HasChain(currentBlock_[p], previous, Blocks, Null)

(* The slots are carved one behind the other from the newest block. *)
CarvesNewestBlock(p) ==
  IF currentBlock_[p] = Null THEN currentSlot_[p] = Null
  ELSE /\ currentSlot_[p] # Null
       /\ \E k \in Nat \ {0} :
            currentSlot_[p] = At(currentBlock_[p], Body + k * SlotSize)
       /\ lastSlot_[p] = At(currentBlock_[p], LastSlot)

PoolIsWhole(p) ==
  /\ CarvesNewestBlock(p)
  /\ HasChain(freeSlots_[p], NextFree, Slots, Null)
  /\ Held(p) \cap FreeList(p) = {}
  /\ Held(p) \cup FreeList(p) = Carved(p)

(* The bytes of a slot that is not in use are a link. *)
FreeHoldsLink ==
  \A a \in Slots : holder[a] = Null => memory[a] \in [next : Slots \cup {Null}]

PoolInv ==
  /\ PoolTypeOK /\ OnlyTheLivingOwn
  /\ BlocksAreLinked /\ BlocksOwnedOnce
  /\ \A p \in Living : PoolIsWhole(p)
  /\ FreeHoldsLink

(* The nodes of a stack are elements that its pool has handed out, linked  *)
(* from the top down.                                                      *)
Prev == [a \in Slots |-> NodeAt(a).prev]

NodesAreLinked(s) ==
  \E c \in Seq(Slots) :
    /\ IsChain(c, head_[s], Prev, Null)
    /\ Len(c) = Len(pushed[s]) /\ Len(c) <= MaxDepth
    /\ \A i \in 1 .. Len(c) :
         holder[c[i]] = s /\ NodeAt(c[i]).data = pushed[s][Len(c) + 1 - i]

IInv ==
  /\ PoolInv /\ TypeOK
  /\ \A s \in Stacks : state[s] # "moved" /\ NodesAreLinked(s)

-----------------------------------------------------------------------------
(***************************************************************************)
(* The sizes.                                                              *)
(***************************************************************************)
LEMMA Sizes ==
  /\ BlockSize \in Nat \ {0} /\ SlotSize \in Nat \ {0} /\ SlotAlign \in Nat \ {0}
  /\ PointerSize \in Nat \ {0} /\ BlockSize >= 2 * SlotSize /\ SlotSize >= PointerSize
  /\ SlotSize % SlotAlign = 0 /\ IsFiniteSet(Blocks)
BY MemoryPoolAssumption

LEMMA Division ==
  ASSUME NEW n \in Nat, NEW a \in Nat \ {0}
  PROVE  n \div a \in Nat /\ n % a \in 0 .. a - 1 /\ n = a * (n \div a) + (n % a)
OBVIOUS

LEMMA MultipleIsAligned ==
  ASSUME NEW x \in Nat, NEW a \in Nat \ {0}
  PROVE  a * x \in Nat /\ (a * x) % a = 0
OBVIOUS

LEMMA SumOfMultiples ==
  ASSUME NEW i \in Nat, NEW k \in Nat, NEW a \in Nat
  PROVE  a * i + a * k = a * (i + k) /\ i * a \in Nat /\ i * a = a * i
OBVIOUS

LEMMA MultiplesGrow ==
  ASSUME NEW i \in Nat, NEW k \in Nat, NEW a \in Nat \ {0}, i < k
  PROVE  i * a + a <= k * a
OBVIOUS

(* The first slot is the pointer's end rounded up: aligned, and not beyond *)
(* the size of one slot, so that a new block always has room for one.      *)
LEMMA FirstSlot ==
  /\ Body \in Nat /\ PointerSize <= Body /\ Body <= SlotSize
  /\ \E n \in Nat : Body = SlotAlign * n
<1> DEFINE q == PointerSize \div SlotAlign
           r == PointerSize % SlotAlign
           m == SlotSize \div SlotAlign
<1>1. q \in Nat /\ r \in 0 .. SlotAlign - 1 /\ PointerSize = SlotAlign * q + r
  BY Sizes, Division
<1>2. m \in Nat /\ SlotSize = SlotAlign * m
  BY Sizes, Division
<1>3. Body = PointerSize + ((SlotAlign - r) % SlotAlign)
  BY DEF Body
<1> HIDE DEF q, r, m
<1>4. CASE r = 0
  <2>1. SlotAlign % SlotAlign = 0
    BY Sizes
  <2>2. Body = PointerSize /\ PointerSize = SlotAlign * q
    BY Sizes, <1>1, <1>3, <1>4, <2>1
  <2> QED
    BY Sizes, <1>1, <2>2
<1>5. CASE r # 0
  <2>1. (SlotAlign - r) % SlotAlign = SlotAlign - r
    BY Sizes, <1>1, <1>5
  <2>2. Body = SlotAlign * q + SlotAlign
    BY Sizes, <1>1, <1>3, <2>1
  <2>3. SlotAlign * q + SlotAlign = SlotAlign * (q + 1)
    BY Sizes, <1>1
  <2>4. q < m
    BY Sizes, <1>1, <1>2, <1>5
  <2>5. SlotAlign * q + SlotAlign <= SlotAlign * m
    BY Sizes, <1>1, <1>2, <2>4, MultiplesGrow, SumOfMultiples
  <2> QED
    BY Sizes, <1>1, <1>2, <2>2, <2>3, <2>5
<1> QED
  BY <1>4, <1>5

LEMMA SlotsAre ==
  /\ \A a \in Slots : /\ a.block \in Blocks /\ a.offset \in Nat
                      /\ \E i \in Nat : /\ a = At(a.block, Body + i * SlotSize)
                                        /\ a.offset = Body + i * SlotSize
  /\ \A b \in Blocks : At(b, Body) \in Slots
  /\ \A b \in Blocks, i \in Nat :
       Body + (i + 1) * SlotSize <= BlockSize => At(b, Body + i * SlotSize) \in Slots
<1>1. ASSUME NEW a \in Slots
      PROVE  /\ a.block \in Blocks /\ a.offset \in Nat
             /\ \E i \in Nat : /\ a = At(a.block, Body + i * SlotSize)
                               /\ a.offset = Body + i * SlotSize
  <2>1. PICK b \in Blocks, i \in 0 .. BlockSize \div SlotSize : a = At(b, Body + i * SlotSize)
    BY DEF Slots
  <2>2. i \in Nat /\ i * SlotSize \in Nat
    BY Sizes, Division, SumOfMultiples
  <2>3. a.block = b /\ a.offset = Body + i * SlotSize
    BY <2>1 DEF At
  <2> QED
    BY FirstSlot, <2>1, <2>2, <2>3
<1>2. ASSUME NEW b \in Blocks PROVE At(b, Body) \in Slots
  <2>1. 0 \in 0 .. BlockSize \div SlotSize /\ Body = Body + 0 * SlotSize
    BY Sizes, Division, FirstSlot
  <2> QED
    BY <2>1 DEF Slots
<1>3. ASSUME NEW b \in Blocks, NEW i \in Nat, Body + (i + 1) * SlotSize <= BlockSize
      PROVE  At(b, Body + i * SlotSize) \in Slots
  <2> DEFINE m == BlockSize \div SlotSize
  <2>1. m \in Nat /\ BlockSize < m * SlotSize + SlotSize
    <3>1. BlockSize = SlotSize * m + (BlockSize % SlotSize) /\ BlockSize % SlotSize < SlotSize
          /\ m \in Nat /\ BlockSize % SlotSize \in Nat
      BY Sizes, Division
    <3> HIDE DEF m
    <3> QED
      BY Sizes, <3>1, SumOfMultiples
  <2> HIDE DEF m
  <2>2. ~(m < i)
    <3>1. SUFFICES ASSUME m < i PROVE FALSE
      OBVIOUS
    <3>2. m * SlotSize + SlotSize <= i * SlotSize
      BY Sizes, <2>1, <3>1, MultiplesGrow
    <3>3. (i + 1) * SlotSize = i * SlotSize + SlotSize /\ i * SlotSize \in Nat
      BY Sizes
    <3> QED
      BY Sizes, FirstSlot, <1>3, <2>1, <3>2, <3>3, SumOfMultiples
  <2>3. i \in 0 .. m
    BY <2>1, <2>2
  <2> QED
    BY <2>3 DEF Slots, m
<1> QED
  BY <1>1, <1>2, <1>3

LEMMA SlotsAreFinite == IsFiniteSet(Slots)
<1> DEFINE I == 0 .. BlockSize \div SlotSize
           D == Blocks \X I
           f == [x \in D |-> At(x[1], Body + x[2] * SlotSize)]
<1>1. IsFiniteSet(I)
  BY Sizes, Division, FS_Interval
<1> HIDE DEF I
<1>2. IsFiniteSet(D)
  BY <1>1, Sizes, FS_Product
<1>3. \A a \in Slots : \E x \in D : f[x] = a
  <2> SUFFICES ASSUME NEW a \in Slots PROVE \E x \in D : f[x] = a
    OBVIOUS
  <2>1. PICK b \in Blocks, i \in I : a = At(b, Body + i * SlotSize)
    BY DEF Slots, I
  <2>2. <<b, i>> \in D
    OBVIOUS
  <2>3. f[<<b, i>>] = At(b, Body + i * SlotSize)
    BY <2>2
  <2> HIDE DEF f, D
  <2> QED
    BY <2>1, <2>2, <2>3
<1>4. ASSUME NEW x \in D PROVE f[x] \in Slots
  <2>1. x[1] \in Blocks /\ x[2] \in I
    OBVIOUS
  <2>2. f[x] = At(x[1], Body + x[2] * SlotSize)
    OBVIOUS
  <2> HIDE DEF f, D
  <2> QED
    BY <2>1, <2>2 DEF Slots, I
<1>5. f \in [D -> Slots]
  BY <1>4
<1> HIDE DEF f, D
<1> QED
  BY <1>2, <1>3, <1>5, FS_Surjection DEF Surjection

-----------------------------------------------------------------------------
(***************************************************************************)
(* The pools.                                                              *)
(***************************************************************************)
LEMMA NullIsNone == Null \notin Blocks /\ Null \notin Pools /\ Null \notin Slots
BY NullIsNothing

LEMMA BlocksOfPool ==
  ASSUME PoolInv, NEW p \in Pools
  PROVE  IF currentBlock_[p] = Null THEN BlocksOf(p) = {}
         ELSE currentBlock_[p] \in BlocksOf(p)
<1>1. HasChain(currentBlock_[p], previous, Blocks, Null) /\ currentBlock_[p] \in Blocks \cup {Null}
  BY DEF PoolInv, BlocksAreLinked, PoolTypeOK
<1>2. CASE currentBlock_[p] = Null
  BY <1>2, Sizes, NullIsNone, EmptyChain DEF BlocksOf
<1>3. CASE currentBlock_[p] # Null
  BY <1>1, <1>3, Sizes, NullIsNone, ChainBehind DEF BlocksOf
<1> QED
  BY <1>2, <1>3

LEMMA CarvedSlots ==
  ASSUME PoolInv
  PROVE  /\ \A p \in Living : BlocksOf(p) \subseteq heap
         /\ \A p, q \in Living : p # q => BlocksOf(p) \cap BlocksOf(q) = {}
         /\ \A p \in Living : \A a \in FreeList(p) : a \in Carved(p) /\ holder[a] = Null
         /\ \A p \in Living : \A a \in Held(p) : a \in Carved(p)
         /\ \A p \in Living : \A a \in Carved(p) : a \in Slots /\ a.block \in BlocksOf(p)
         /\ \A a \in Slots : holder[a] # Null => holder[a] \in Living
<1>1. \A a \in Slots : holder[a] # Null => holder[a] \in Living
  <2>1. SUFFICES ASSUME NEW a \in Slots, holder[a] \in Pools \ Living PROVE FALSE
    BY DEF PoolInv, PoolTypeOK
  <2> QED
    BY <2>1 DEF PoolInv, OnlyTheLivingOwn, Held
<1>2. \A p \in Living : BlocksOf(p) \subseteq heap
  BY DEF PoolInv, BlocksOwnedOnce
<1>3. \A p, q \in Living : p # q => BlocksOf(p) \cap BlocksOf(q) = {}
  BY DEF PoolInv, BlocksOwnedOnce
<1>4. \A p \in Living : \A a \in Carved(p) : a \in Slots /\ a.block \in BlocksOf(p)
  BY DEF Carved
<1>5. \A p \in Living : \A a \in Held(p) : a \in Carved(p)
  BY DEF PoolInv, PoolIsWhole
<1>6. ASSUME NEW p \in Living, NEW a \in FreeList(p) PROVE a \in Carved(p) /\ holder[a] = Null
  <2>1. a \in Carved(p) /\ a \notin Held(p)
    BY DEF PoolInv, PoolIsWhole
  <2>2. a \in Slots /\ a.block \in BlocksOf(p)
    BY <1>4, <2>1
  <2>3. SUFFICES ASSUME holder[a] # Null PROVE FALSE
    BY <2>1
  <2>4. holder[a] \in Living /\ a \in Held(holder[a]) /\ holder[a] # p
    BY <1>1, <2>1, <2>2, <2>3 DEF Held
  <2>5. a.block \in BlocksOf(holder[a])
    BY <1>4, <1>5, <2>4
  <2> QED
    BY <1>3, <2>2, <2>4, <2>5
<1> QED
  BY <1>1, <1>2, <1>3, <1>4, <1>5, <1>6

LEMMA PoolsAreApart ==
  ASSUME PoolInv, NEW p \in Pools, NEW q \in Pools, p # q
  PROVE  /\ BlocksOf(p) \cap BlocksOf(q) = {}
         /\ BlocksOf(p) \subseteq heap /\ BlocksOf(p) \subseteq Blocks
<1>1. p \notin Living => BlocksOf(p) = {}
  BY BlocksOfPool DEF PoolInv, OnlyTheLivingOwn
<1>2. q \notin Living => BlocksOf(q) = {}
  BY BlocksOfPool DEF PoolInv, OnlyTheLivingOwn
<1>3. heap \subseteq Blocks
  BY DEF PoolInv, PoolTypeOK
<1> QED
  BY <1>1, <1>2, <1>3, CarvedSlots

LEMMA BlocksKept ==
  ASSUME PoolInv, NEW q \in Pools, currentBlock_'[q] = currentBlock_[q],
         \A b \in BlocksOf(q) : previous'[b] = previous[b]
  PROVE  HasChain(currentBlock_'[q], previous', Blocks, Null) /\ BlocksOf(q)' = BlocksOf(q)
<1>1. HasChain(currentBlock_[q], previous, Blocks, Null)
  BY DEF PoolInv, BlocksAreLinked
<1>2. /\ HasChain(currentBlock_[q], previous', Blocks, Null)
      /\ Linked(currentBlock_[q], previous', Blocks, Null) = BlocksOf(q)
  BY <1>1, Sizes, NullIsNone, ChainKept DEF BlocksOf
<1> QED
  BY <1>2 DEF BlocksOf

(* A pool whose members, links and elements a step leaves alone. *)
LEMMA OtherPoolKept ==
  ASSUME PoolInv, NEW q \in Pools,
         currentBlock_'[q] = currentBlock_[q], currentSlot_'[q] = currentSlot_[q],
         lastSlot_'[q] = lastSlot_[q], freeSlots_'[q] = freeSlots_[q],
         \A b \in BlocksOf(q) : previous'[b] = previous[b],
         q \in Living => \A a \in FreeList(q) : memory'[a] = memory[a],
         \A a \in Slots : holder'[a] = q <=> holder[a] = q
  PROVE  /\ HasChain(currentBlock_'[q], previous', Blocks, Null)
         /\ BlocksOf(q)' = BlocksOf(q)
         /\ Held(q)' = Held(q)
         /\ q \in Living => PoolIsWhole(q)'
<1>1. HasChain(currentBlock_'[q], previous', Blocks, Null) /\ BlocksOf(q)' = BlocksOf(q)
  BY BlocksKept
<1>2. Held(q)' = Held(q)
  BY DEF Held
<1>3. ASSUME q \in Living PROVE PoolIsWhole(q)'
  <2>1. PoolIsWhole(q)
    BY <1>3 DEF PoolInv
  <2>2. Carved(q)' = Carved(q)
    BY <1>1 DEF Carved
  <2>3. \A x \in Linked(freeSlots_[q], NextFree, Slots, Null) : NextFree'[x] = NextFree[x]
    <3>1. SUFFICES ASSUME NEW x \in FreeList(q) PROVE NextFree'[x] = NextFree[x]
      BY DEF FreeList
    <3>2. x \in Slots /\ memory'[x] = memory[x]
      BY <1>3, CarvedSlots
    <3> QED
      BY <3>2 DEF NextFree
  <2>4. /\ HasChain(freeSlots_[q], NextFree', Slots, Null)
        /\ Linked(freeSlots_[q], NextFree', Slots, Null) = FreeList(q)
    <3>1. HasChain(freeSlots_[q], NextFree, Slots, Null)
      BY <2>1 DEF PoolIsWhole
    <3> QED
      BY <2>3, <3>1, SlotsAreFinite, NullIsNone, ChainKept DEF FreeList
  <2>5. FreeList(q)' = FreeList(q)
    BY <2>4 DEF FreeList
  <2>6. CarvesNewestBlock(q)'
    BY <2>1 DEF PoolIsWhole, CarvesNewestBlock
  <2> QED
    BY <1>2, <2>1, <2>2, <2>4, <2>5, <2>6 DEF PoolIsWhole
<1> QED
  BY <1>1, <1>2, <1>3

(* A pool that a step leaves empty. *)
LEMMA EmptyPool ==
  ASSUME NEW p \in Pools, currentBlock_'[p] = Null, Held(p)' = {}
  PROVE  /\ HasChain(currentBlock_'[p], previous', Blocks, Null) /\ BlocksOf(p)' = {}
         /\ currentSlot_'[p] = Null /\ freeSlots_'[p] = Null => PoolIsWhole(p)'
<1>1. HasChain(currentBlock_'[p], previous', Blocks, Null) /\ BlocksOf(p)' = {}
  BY Sizes, NullIsNone, EmptyChain DEF BlocksOf
<1>2. ASSUME currentSlot_'[p] = Null, freeSlots_'[p] = Null
      PROVE  PoolIsWhole(p)'
  <2>1. HasChain(freeSlots_'[p], NextFree', Slots, Null) /\ FreeList(p)' = {}
    BY <1>2, SlotsAreFinite, NullIsNone, EmptyChain DEF FreeList
  <2>2. Carved(p)' = {}
    BY <1>1 DEF Carved
  <2> QED
    BY <1>2, <2>1, <2>2 DEF PoolIsWhole, CarvesNewestBlock
<1> QED
  BY <1>1, <1>2

LEMMA InitPoolInv == Init => PoolInv
<1> SUFFICES ASSUME Init PROVE PoolInv
  OBVIOUS
<1>1. PoolTypeOK
  BY DEF Init, PoolTypeOK, Pointers, Free
<1>2. Living = {}
  BY DEF Init, Living
<1>3. ASSUME NEW p \in Pools PROVE currentBlock_[p] = Null /\ Held(p) = {}
  BY NullIsNone DEF Init, Held
<1>4. BlocksAreLinked
  BY <1>3, Sizes, NullIsNone, EmptyChain DEF BlocksAreLinked
<1>5. BlocksOwnedOnce
  BY <1>2 DEF BlocksOwnedOnce, Init
<1>6. FreeHoldsLink
  BY DEF FreeHoldsLink, Init, Free
<1> QED
  BY <1>1, <1>2, <1>3, <1>4, <1>5, <1>6 DEF PoolInv, OnlyTheLivingOwn

(* What a step of these pools does to no element of another. *)
OthersKept(P) ==
  \A a \in Slots : holder[a] \notin P \cup {Null} =>
    holder'[a] = holder[a] /\ memory'[a] = memory[a]

LEMMA ConstructPreserves ==
  ASSUME PoolInv, NEW p \in Pools, Construct(p)
  PROVE  PoolInv' /\ OthersKept({p})
<1> USE DEF Construct
<1>1. PoolTypeOK'
  BY DEF PoolInv, PoolTypeOK, Pointers
<1>2. /\ p \notin Living /\ Living' = Living \cup {p}
      /\ currentBlock_[p] = Null /\ Held(p) = {}
  BY DEF PoolInv, PoolTypeOK, OnlyTheLivingOwn, Living
<1>3. ASSUME NEW q \in Pools, q # p
      PROVE  /\ HasChain(currentBlock_'[q], previous', Blocks, Null)
             /\ BlocksOf(q)' = BlocksOf(q) /\ Held(q)' = Held(q)
             /\ q \in Living => PoolIsWhole(q)'
             /\ currentBlock_'[q] = currentBlock_[q]
  <2>1. /\ currentBlock_'[q] = currentBlock_[q] /\ currentSlot_'[q] = currentSlot_[q]
        /\ lastSlot_'[q] = lastSlot_[q] /\ freeSlots_'[q] = freeSlots_[q]
    BY <1>3 DEF PoolInv, PoolTypeOK
  <2> QED
    BY <2>1, OtherPoolKept
<1>4. /\ HasChain(currentBlock_'[p], previous', Blocks, Null)
      /\ BlocksOf(p)' = {} /\ BlocksOf(p) = {} /\ PoolIsWhole(p)'
  <2>1. /\ currentBlock_'[p] = Null /\ currentSlot_'[p] = Null /\ freeSlots_'[p] = Null
        /\ Held(p)' = {}
    BY <1>2 DEF PoolInv, PoolTypeOK, Held
  <2>2. BlocksOf(p) = {}
    BY <1>2, BlocksOfPool
  <2> QED
    BY <2>1, <2>2, EmptyPool
<1>5. OnlyTheLivingOwn'
  BY <1>2, <1>3 DEF PoolInv, OnlyTheLivingOwn
<1>6. BlocksAreLinked'
  BY <1>3, <1>4 DEF BlocksAreLinked
<1>7. BlocksOwnedOnce'
  <2>1. Living \subseteq Pools /\ \A q \in Living : q # p
    BY <1>2 DEF Living
  <2>2. \A q \in Living : BlocksOf(q)' = BlocksOf(q)
    BY <1>3, <2>1
  <2> QED
    BY <1>2, <1>4, <2>1, <2>2 DEF PoolInv, BlocksOwnedOnce
<1>8. \A q \in Living' : PoolIsWhole(q)'
  BY <1>2, <1>3, <1>4 DEF Living
<1>9. FreeHoldsLink'
  BY DEF PoolInv, FreeHoldsLink
<1> QED
  BY <1>1, <1>5, <1>6, <1>7, <1>8, <1>9 DEF PoolInv, OthersKept

LEMMA MoveConstructPreserves ==
  ASSUME PoolInv, NEW p \in Pools, NEW q \in Pools, MoveConstruct(p, q)
  PROVE  PoolInv' /\ OthersKept({p, q})
<1> USE DEF MoveConstruct, BlocksMoved
<1>1. PoolTypeOK'
  <2>1. holder' \in [Slots -> Pools \cup {Null}]
    BY DEF PoolInv, PoolTypeOK
  <2>2. /\ state' \in [Pools -> {"none", "alive", "moved"}]
        /\ currentBlock_' \in [Pools -> Blocks \cup {Null}]
        /\ currentSlot_' \in [Pools -> Pointers] /\ lastSlot_' \in [Pools -> Pointers]
        /\ freeSlots_' \in [Pools -> Slots \cup {Null}]
    BY DEF PoolInv, PoolTypeOK
  <2> QED
    BY <2>1, <2>2 DEF PoolInv, PoolTypeOK
<1>2. /\ p # q /\ p \notin Living /\ q \in Living /\ Living' = (Living \ {q}) \cup {p}
      /\ currentBlock_[p] = Null /\ Held(p) = {}
  BY DEF PoolInv, PoolTypeOK, OnlyTheLivingOwn, Living
<1>3. ASSUME NEW r \in Pools, r # p, r # q
      PROVE  /\ HasChain(currentBlock_'[r], previous', Blocks, Null)
             /\ BlocksOf(r)' = BlocksOf(r) /\ Held(r)' = Held(r)
             /\ r \in Living => PoolIsWhole(r)'
             /\ currentBlock_'[r] = currentBlock_[r]
  <2>1. /\ currentBlock_'[r] = currentBlock_[r] /\ currentSlot_'[r] = currentSlot_[r]
        /\ lastSlot_'[r] = lastSlot_[r] /\ freeSlots_'[r] = freeSlots_[r]
    BY <1>3 DEF PoolInv, PoolTypeOK
  <2>2. \A a \in Slots : holder'[a] = r <=> holder[a] = r
    BY <1>3
  <2> QED
    BY <2>1, <2>2, OtherPoolKept
<1>4. /\ HasChain(currentBlock_'[q], previous', Blocks, Null)
      /\ BlocksOf(q)' = {} /\ currentBlock_'[q] = Null /\ Held(q)' = {}
  <2>1. currentBlock_'[q] = Null /\ Held(q)' = {}
    BY <1>2 DEF PoolInv, PoolTypeOK, Held
  <2> QED
    BY <2>1, EmptyPool
<1>5. /\ HasChain(currentBlock_'[p], previous', Blocks, Null)
      /\ BlocksOf(p)' = BlocksOf(q) /\ PoolIsWhole(p)'
  <2>1. /\ currentBlock_'[p] = currentBlock_[q] /\ currentSlot_'[p] = currentSlot_[q]
        /\ lastSlot_'[p] = lastSlot_[q] /\ freeSlots_'[p] = freeSlots_[q]
    BY <1>2 DEF PoolInv, PoolTypeOK
  <2>2. Held(p)' = Held(q)
    BY <1>2 DEF Held
  <2>3. NextFree' = NextFree /\ previous' = previous
    BY DEF NextFree
  <2>4. BlocksOf(p)' = BlocksOf(q) /\ FreeList(p)' = FreeList(q)
    BY <2>1, <2>3 DEF BlocksOf, FreeList
  <2>5. Carved(p)' = Carved(q)
    BY <2>1, <2>4 DEF Carved
  <2>6. PoolIsWhole(q) /\ HasChain(currentBlock_[q], previous, Blocks, Null)
    BY <1>2 DEF PoolInv, BlocksAreLinked
  <2>7. CarvesNewestBlock(p)'
    BY <2>1, <2>6 DEF PoolIsWhole, CarvesNewestBlock
  <2>8. HasChain(freeSlots_'[p], NextFree', Slots, Null)
    BY <2>1, <2>3, <2>6 DEF PoolIsWhole
  <2> QED
    BY <2>1, <2>2, <2>3, <2>4, <2>5, <2>6, <2>7, <2>8 DEF PoolIsWhole
<1>6. OnlyTheLivingOwn'
  BY <1>2, <1>3, <1>4 DEF PoolInv, OnlyTheLivingOwn
<1>7. BlocksAreLinked'
  BY <1>3, <1>4, <1>5 DEF BlocksAreLinked
<1>8. BlocksOwnedOnce'
  <2>1. Living \subseteq Pools /\ \A r \in Living : r # p
    BY <1>2 DEF Living
  <2>2. \A r \in Living \ {q} : BlocksOf(r)' = BlocksOf(r)
    BY <1>3, <2>1
  <2>3. /\ heap = UNION {BlocksOf(r) : r \in Living}
        /\ \A r, s \in Living : r # s => BlocksOf(r) \cap BlocksOf(s) = {}
    BY DEF PoolInv, BlocksOwnedOnce
  <2>4. heap' = UNION {BlocksOf(r)' : r \in Living'}
    BY <1>2, <1>5, <2>1, <2>2, <2>3
  <2>5. \A r, s \in Living' : r # s => BlocksOf(r)' \cap BlocksOf(s)' = {}
    BY <1>2, <1>5, <2>1, <2>2, <2>3
  <2> QED
    BY <2>4, <2>5 DEF BlocksOwnedOnce
<1>9. \A r \in Living' : PoolIsWhole(r)'
  BY <1>2, <1>3, <1>5 DEF Living
<1>10. FreeHoldsLink'
  BY NullIsNone DEF PoolInv, FreeHoldsLink
<1>11. OthersKept({p, q})
  BY DEF OthersKept
<1> QED
  BY <1>1, <1>6, <1>7, <1>8, <1>9, <1>10, <1>11 DEF PoolInv

LEMMA DestroyPreserves ==
  ASSUME PoolInv, NEW p \in Pools, Destroy(p)
  PROVE  PoolInv' /\ OthersKept({p})
<1> USE DEF Destroy, Delete
<1>1. PoolTypeOK'
  <2>1. memory' \in [Slots -> [next : Slots \cup {Null}] \cup [element : Elements]]
    BY DEF PoolInv, PoolTypeOK, Free
  <2>2. previous' \in [Blocks -> Blocks \cup {Null}] /\ heap' \subseteq Blocks
    BY DEF PoolInv, PoolTypeOK
  <2>3. /\ state' \in [Pools -> {"none", "alive", "moved"}]
        /\ currentBlock_' \in [Pools -> Blocks \cup {Null}]
        /\ currentSlot_' \in [Pools -> Pointers] /\ lastSlot_' \in [Pools -> Pointers]
        /\ freeSlots_' \in [Pools -> Slots \cup {Null}]
    BY DEF PoolInv, PoolTypeOK, Pointers
  <2> QED
    BY <2>1, <2>2, <2>3 DEF PoolInv, PoolTypeOK
<1>2. Living' = Living \ {p} /\ Held(p) = {}
  BY DEF PoolInv, PoolTypeOK, Living, Held
<1>3. ASSUME NEW q \in Pools, q # p
      PROVE  /\ HasChain(currentBlock_'[q], previous', Blocks, Null)
             /\ BlocksOf(q)' = BlocksOf(q) /\ Held(q)' = Held(q)
             /\ q \in Living => PoolIsWhole(q)'
             /\ currentBlock_'[q] = currentBlock_[q]
  <2>1. /\ currentBlock_'[q] = currentBlock_[q] /\ currentSlot_'[q] = currentSlot_[q]
        /\ lastSlot_'[q] = lastSlot_[q] /\ freeSlots_'[q] = freeSlots_[q]
    BY <1>3 DEF PoolInv, PoolTypeOK
  <2>2. BlocksOf(p) \cap BlocksOf(q) = {} /\ BlocksOf(q) \subseteq Blocks
    BY <1>3, PoolsAreApart
  <2>3. \A b \in BlocksOf(q) : previous'[b] = previous[b]
    BY <2>2
  <2>4. ASSUME q \in Living, NEW a \in FreeList(q) PROVE memory'[a] = memory[a]
    <3>1. a \in Slots /\ a.block \in BlocksOf(q)
      BY <2>4, CarvedSlots
    <3> QED
      BY <2>2, <3>1
  <2> QED
    BY <2>1, <2>3, <2>4, OtherPoolKept
<1>4. /\ HasChain(currentBlock_'[p], previous', Blocks, Null)
      /\ currentBlock_'[p] = Null /\ Held(p)' = {}
  <2>1. currentBlock_'[p] = Null /\ Held(p)' = {}
    BY DEF PoolInv, PoolTypeOK, Held
  <2> QED
    BY <2>1, EmptyPool
<1>5. OnlyTheLivingOwn'
  BY <1>2, <1>3, <1>4 DEF PoolInv, OnlyTheLivingOwn
<1>6. BlocksAreLinked'
  BY <1>3, <1>4 DEF BlocksAreLinked
<1>7. BlocksOwnedOnce'
  <2>1. \A q \in Living' : q \in Living /\ q # p /\ BlocksOf(q)' = BlocksOf(q)
    BY <1>2, <1>3 DEF Living
  <2>2. /\ heap = UNION {BlocksOf(q) : q \in Living}
        /\ \A q, r \in Living : q # r => BlocksOf(q) \cap BlocksOf(r) = {}
    BY DEF PoolInv, BlocksOwnedOnce
  <2>3. \A q \in Living' : BlocksOf(q) \cap BlocksOf(p) = {}
    BY <2>1, PoolsAreApart DEF Living
  <2>4. heap' = UNION {BlocksOf(q)' : q \in Living'}
    <3>1. heap' = UNION {BlocksOf(q) : q \in Living'}
      BY <1>2, <2>2, <2>3
    <3> QED
      BY <2>1, <3>1
  <2>5. \A q, r \in Living' : q # r => BlocksOf(q)' \cap BlocksOf(r)' = {}
    BY <2>1, <2>2
  <2> QED
    BY <2>4, <2>5 DEF BlocksOwnedOnce
<1>8. \A q \in Living' : PoolIsWhole(q)'
  BY <1>2, <1>3 DEF Living
<1>9. FreeHoldsLink'
  BY DEF PoolInv, FreeHoldsLink, Free
<1>10. OthersKept({p})
  <2>1. SUFFICES ASSUME NEW a \in Slots, holder[a] # Null, holder[a] # p PROVE memory'[a] = memory[a]
    BY DEF OthersKept
  <2>2. holder[a] \in Living /\ a \in Held(holder[a])
    BY <2>1, CarvedSlots DEF Held
  <2>3. a.block \in BlocksOf(holder[a])
    BY <2>2, CarvedSlots
  <2>4. a.block \notin BlocksOf(p)
    BY <2>1, <2>2, <2>3, PoolsAreApart DEF Living
  <2> QED
    BY <2>4
<1> QED
  BY <1>1, <1>5, <1>6, <1>7, <1>8, <1>9, <1>10 DEF PoolInv

(* A slot that no other pool has carved is handed out. *)
LEMMA HandOutKeepsOthers ==
  ASSUME PoolInv, NEW p \in Living, NEW a \in Slots, NEW e \in Elements,
         HandOut(p, a, e), holder[a] = Null,
         \A q \in Living \ {p} : a.block \notin BlocksOf(q)
  PROVE  /\ memory' \in [Slots -> [next : Slots \cup {Null}] \cup [element : Elements]]
         /\ holder' \in [Slots -> Pools \cup {Null}]
         /\ FreeHoldsLink'
         /\ Held(p)' = Held(p) \cup {a}
         /\ \A x \in Slots : x # a => memory'[x] = memory[x]
         /\ \A q \in Pools \ {p} :
              /\ q \in Living => \A x \in FreeList(q) : memory'[x] = memory[x]
              /\ \A x \in Slots : holder'[x] = q <=> holder[x] = q
         /\ OthersKept({p})
<1> USE DEF HandOut
<1>1. p \in Pools /\ p # Null
  BY NullIsNone DEF Living
<1>2. /\ memory' \in [Slots -> [next : Slots \cup {Null}] \cup [element : Elements]]
      /\ \A x \in Slots : x # a => memory'[x] = memory[x]
  BY DEF PoolInv, PoolTypeOK, Element
<1>3. /\ holder' \in [Slots -> Pools \cup {Null}]
      /\ \A x \in Slots : holder'[x] = IF x = a THEN p ELSE holder[x]
  BY <1>1 DEF PoolInv, PoolTypeOK
<1>4. FreeHoldsLink'
  BY <1>1, <1>2, <1>3 DEF PoolInv, FreeHoldsLink
<1>5. Held(p)' = Held(p) \cup {a}
  BY <1>3 DEF Held
<1>6. ASSUME NEW q \in Pools \ {p}, NEW x \in Slots PROVE holder'[x] = q <=> holder[x] = q
  BY <1>3, NullIsNone
<1>7. ASSUME NEW q \in Living \ {p}, NEW x \in FreeList(q) PROVE memory'[x] = memory[x]
  <2>1. x \in Slots /\ x.block \in BlocksOf(q)
    BY CarvedSlots
  <2>2. x # a
    BY <2>1
  <2> QED
    BY <1>2, <2>1, <2>2
<1>8. OthersKept({p})
  BY <1>2, <1>3 DEF OthersKept
<1> QED
  BY <1>2, <1>3, <1>4, <1>5, <1>6, <1>7, <1>8

LEMMA AllocateFreePreserves ==
  ASSUME PoolInv, NEW p \in Pools, NEW a \in Slots, NEW e \in Elements, AllocateFree(p, a, e)
  PROVE  PoolInv' /\ OthersKept({p}) /\ holder[a] = Null /\ HandOut(p, a, e)
<1> USE DEF AllocateFree
<1>1. p \in Living /\ Living' = Living
  BY DEF Living
<1>2. /\ HasChain(freeSlots_[p], NextFree, Slots, Null) /\ PoolIsWhole(p)
      /\ freeSlots_[p] = a
  BY <1>1 DEF PoolInv, PoolIsWhole
<1>3. /\ a \in FreeList(p)
      /\ HasChain(NextFree[a], NextFree, Slots, Null)
      /\ Linked(NextFree[a], NextFree, Slots, Null) = FreeList(p) \ {a}
  BY <1>2, SlotsAreFinite, NullIsNone, ChainBehind DEF FreeList
<1>4. holder[a] = Null /\ a.block \in BlocksOf(p)
  BY <1>1, <1>3, CarvedSlots
<1>5. memory[a] \in [next : Slots \cup {Null}]
  BY <1>4 DEF PoolInv, FreeHoldsLink
<1>6. NextFree[a] = memory[a].next /\ memory[a].next \in Slots \cup {Null}
  BY <1>5 DEF NextFree
<1>7. HandOut(p, a, e) /\ \A q \in Living \ {p} : a.block \notin BlocksOf(q)
  BY <1>1, <1>4, PoolsAreApart DEF Living
<1>8. /\ memory' \in [Slots -> [next : Slots \cup {Null}] \cup [element : Elements]]
      /\ holder' \in [Slots -> Pools \cup {Null}]
      /\ FreeHoldsLink' /\ Held(p)' = Held(p) \cup {a} /\ OthersKept({p})
      /\ \A x \in Slots : x # a => memory'[x] = memory[x]
  BY <1>1, <1>4, <1>7, HandOutKeepsOthers
<1>9. PoolTypeOK'
  BY <1>6, <1>8 DEF PoolInv, PoolTypeOK
<1>10. /\ BlocksOf(p)' = BlocksOf(p)
       /\ HasChain(currentBlock_'[p], previous', Blocks, Null)
  BY BlocksKept
<1>11. PoolIsWhole(p)'
  <2>1. freeSlots_'[p] = NextFree[a]
    BY <1>6 DEF PoolInv, PoolTypeOK
  <2>2. \A x \in Linked(NextFree[a], NextFree, Slots, Null) : NextFree'[x] = NextFree[x]
    <3>1. SUFFICES ASSUME NEW x \in FreeList(p) \ {a} PROVE NextFree'[x] = NextFree[x]
      BY <1>3
    <3>2. x \in Slots
      BY <1>1, CarvedSlots
    <3> QED
      BY <1>8, <3>2 DEF NextFree
  <2>3. /\ HasChain(NextFree[a], NextFree', Slots, Null)
        /\ Linked(NextFree[a], NextFree', Slots, Null) = FreeList(p) \ {a}
    BY <1>3, <2>2, SlotsAreFinite, NullIsNone, ChainKept
  <2>4. FreeList(p)' = FreeList(p) \ {a}
    BY <2>1, <2>3 DEF FreeList
  <2>5. Carved(p)' = Carved(p)
    BY <1>10 DEF Carved
  <2>6. CarvesNewestBlock(p)'
    BY <1>2 DEF PoolIsWhole, CarvesNewestBlock
  <2> QED
    BY <1>2, <1>3, <1>8, <2>1, <2>3, <2>4, <2>5, <2>6 DEF PoolIsWhole
<1>12. ASSUME NEW q \in Pools \ {p}
       PROVE  /\ HasChain(currentBlock_'[q], previous', Blocks, Null)
              /\ BlocksOf(q)' = BlocksOf(q) /\ Held(q)' = Held(q)
              /\ q \in Living => PoolIsWhole(q)'
  <2>1. freeSlots_'[q] = freeSlots_[q]
    BY DEF PoolInv, PoolTypeOK
  <2>2. /\ q \in Living => \A x \in FreeList(q) : memory'[x] = memory[x]
        /\ \A x \in Slots : holder'[x] = q <=> holder[x] = q
    BY <1>1, <1>4, <1>7, HandOutKeepsOthers
  <2> QED
    BY <2>1, <2>2, OtherPoolKept
<1>13. OnlyTheLivingOwn' /\ BlocksAreLinked'
  BY <1>1, <1>10, <1>12 DEF PoolInv, OnlyTheLivingOwn, BlocksAreLinked
<1>14. BlocksOwnedOnce'
  <2>1. \A q \in Living : BlocksOf(q)' = BlocksOf(q)
    BY <1>10, <1>12 DEF Living
  <2> QED
    BY <1>1, <2>1 DEF PoolInv, BlocksOwnedOnce
<1>15. \A q \in Living' : PoolIsWhole(q)'
  BY <1>1, <1>11, <1>12 DEF Living
<1> QED
  BY <1>4, <1>7, <1>8, <1>9, <1>13, <1>14, <1>15 DEF PoolInv

LEMMA CurrentSlot ==
  ASSUME PoolInv, NEW p \in Living, ~BlockUsedUp(p)
  PROVE  /\ currentBlock_[p] \in BlocksOf(p) /\ currentSlot_[p].block = currentBlock_[p]
         /\ currentSlot_[p].offset + SlotSize <= BlockSize
         /\ \E k \in Nat \ {0} : /\ currentSlot_[p].offset = Body + k * SlotSize
                                 /\ currentSlot_[p] = At(currentBlock_[p], Body + k * SlotSize)
<1>1. p \in Pools /\ CarvesNewestBlock(p)
  BY DEF PoolInv, PoolIsWhole, Living
<1>2. currentSlot_[p] # Null /\ currentBlock_[p] # Null
  BY <1>1 DEF BlockUsedUp, CarvesNewestBlock
<1>3. PICK k \in Nat \ {0} : currentSlot_[p] = At(currentBlock_[p], Body + k * SlotSize)
  BY <1>1, <1>2 DEF CarvesNewestBlock
<1>4. currentSlot_[p].block = currentBlock_[p] /\ currentSlot_[p].offset = Body + k * SlotSize
  BY <1>3 DEF At
<1>5. lastSlot_[p].offset = LastSlot
  BY <1>1, <1>2 DEF CarvesNewestBlock, At
<1>6. Body + k * SlotSize \in Nat
  BY Sizes, FirstSlot, SumOfMultiples
<1>7. ~(currentSlot_[p].offset >= LastSlot)
  BY <1>2, <1>5 DEF BlockUsedUp
<1>8. Body + k * SlotSize + SlotSize <= BlockSize
  <2> DEFINE o == Body + k * SlotSize
  <2>1. o \in Nat /\ ~(o >= LastSlot)
    BY <1>4, <1>6, <1>7
  <2> HIDE DEF o
  <2> QED
    BY Sizes, <2>1 DEF LastSlot, o
<1> QED
  BY <1>1, <1>2, <1>3, <1>4, <1>8, BlocksOfPool

LEMMA AllocateNextPreserves ==
  ASSUME PoolInv, NEW p \in Pools, NEW a \in Slots, NEW e \in Elements, AllocateNext(p, a, e)
  PROVE  PoolInv' /\ OthersKept({p}) /\ holder[a] = Null /\ HandOut(p, a, e)
<1> USE DEF AllocateNext
<1>1. p \in Living /\ Living' = Living
  BY DEF Living
<1>2. /\ currentBlock_[p] \in BlocksOf(p) /\ a.block = currentBlock_[p]
      /\ a.offset + SlotSize <= BlockSize
  BY <1>1, CurrentSlot
<1>3. PICK k \in Nat \ {0} : a.offset = Body + k * SlotSize /\ a = At(currentBlock_[p], Body + k * SlotSize)
  BY <1>1, CurrentSlot
<1>4. a.offset \in Nat /\ a.block \in Blocks
  BY SlotsAre
<1>5. a \notin Carved(p)
  BY <1>2, <1>4 DEF Carved
<1>6. \A q \in Living \ {p} : a.block \notin BlocksOf(q)
  BY <1>1, <1>2, PoolsAreApart DEF Living
<1>7. holder[a] = Null
  <2>1. SUFFICES ASSUME holder[a] # Null PROVE FALSE
    OBVIOUS
  <2>2. holder[a] \in Living /\ a \in Held(holder[a])
    BY <2>1, CarvedSlots DEF Held
  <2>3. a \in Carved(holder[a]) /\ a.block \in BlocksOf(holder[a])
    BY <2>2, CarvedSlots
  <2> QED
    BY <1>5, <1>6, <2>2, <2>3
<1>8. HandOut(p, a, e)
  OBVIOUS
<1>9. /\ memory' \in [Slots -> [next : Slots \cup {Null}] \cup [element : Elements]]
      /\ holder' \in [Slots -> Pools \cup {Null}]
      /\ FreeHoldsLink' /\ Held(p)' = Held(p) \cup {a} /\ OthersKept({p})
  BY <1>1, <1>6, <1>7, <1>8, HandOutKeepsOthers
<1>10. Behind(a) = At(currentBlock_[p], a.offset + SlotSize) /\ Behind(a) \in Pointers \ {Null}
  <2>1. a.offset + SlotSize \in 0 .. BlockSize + SlotSize
    BY Sizes, <1>2, <1>4
  <2>2. Behind(a) \in Addresses
    BY <1>4, <2>1 DEF Behind, Addresses
  <2> QED
    BY <1>2, <2>2, NullIsNothing DEF Behind, Pointers
<1>11. PoolTypeOK'
  BY <1>9, <1>10 DEF PoolInv, PoolTypeOK
<1>12. /\ BlocksOf(p)' = BlocksOf(p)
       /\ HasChain(currentBlock_'[p], previous', Blocks, Null)
  BY BlocksKept
<1>13. PoolIsWhole(p)'
  <2>1. currentSlot_'[p] = Behind(a) /\ PoolIsWhole(p) /\ currentBlock_[p] # Null
    BY <1>1, <1>2, <1>4, NullIsNone DEF PoolInv, PoolTypeOK
  <2>2. FreeList(p) = {} /\ FreeList(p)' = {} /\ HasChain(freeSlots_'[p], NextFree', Slots, Null)
    BY SlotsAreFinite, NullIsNone, EmptyChain DEF FreeList
  <2>3. (k + 1) \in Nat \ {0} /\ a.offset + SlotSize = Body + (k + 1) * SlotSize
    BY Sizes, FirstSlot, <1>3
  <2>4. CarvesNewestBlock(p)'
    <3>1. currentSlot_'[p] = At(currentBlock_'[p], Body + (k + 1) * SlotSize)
      BY <1>10, <2>1, <2>3
    <3>2. lastSlot_'[p] = At(currentBlock_'[p], LastSlot)
      BY <2>1 DEF PoolIsWhole, CarvesNewestBlock
    <3> QED
      BY <1>10, <2>1, <2>3, <3>1, <3>2 DEF CarvesNewestBlock
  <2>5. currentSlot_'[p].offset = a.offset + SlotSize
    BY <1>10, <2>1 DEF At
  <2>6. ASSUME NEW x \in Slots, x.block = currentBlock_[p]
        PROVE  x.offset < a.offset + SlotSize <=> x.offset < a.offset \/ x = a
    <3>1. PICK i \in Nat : x = At(x.block, Body + i * SlotSize) /\ x.offset = Body + i * SlotSize
      BY SlotsAre
    <3>2. x.offset \in Nat
      BY SlotsAre
    <3>3. x = a => x.offset < a.offset + SlotSize
      BY Sizes, <1>4
    <3>4. ASSUME x.offset < a.offset + SlotSize, ~(x.offset < a.offset) PROVE x = a
      <4>1. i * SlotSize \in Nat /\ k * SlotSize \in Nat
        BY Sizes, SumOfMultiples
      <4>2. ~(i < k)
        <5>1. i < k => i * SlotSize + SlotSize <= k * SlotSize
          BY Sizes, MultiplesGrow
        <5> QED
          BY Sizes, FirstSlot, <1>3, <3>1, <3>4, <4>1, <5>1
      <4>3. ~(k < i)
        <5>1. k < i => k * SlotSize + SlotSize <= i * SlotSize
          BY Sizes, MultiplesGrow
        <5> QED
          BY Sizes, FirstSlot, <1>3, <3>1, <3>4, <4>1, <5>1
      <4>4. i = k
        BY <4>2, <4>3
      <4> QED
        BY <1>3, <2>6, <3>1, <4>4
    <3> QED
      BY Sizes, <1>4, <3>2, <3>3, <3>4
  <2>7. Carved(p)' = Carved(p) \cup {a}
    <3>1. Carved(p) = {x \in Slots : /\ x.block \in BlocksOf(p) /\ x.offset + SlotSize <= BlockSize
                                     /\ x.block = currentBlock_[p] => x.offset < a.offset}
      BY DEF Carved
    <3>2. Carved(p)' = {x \in Slots : /\ x.block \in BlocksOf(p) /\ x.offset + SlotSize <= BlockSize
                                      /\ x.block = currentBlock_[p] => x.offset < a.offset + SlotSize}
      BY <1>12, <2>5 DEF Carved
    <3> QED
      BY <1>2, <2>6, <3>1, <3>2
  <2> QED
    BY <1>5, <1>9, <2>1, <2>2, <2>4, <2>7 DEF PoolIsWhole
<1>14. ASSUME NEW q \in Pools \ {p}
       PROVE  /\ HasChain(currentBlock_'[q], previous', Blocks, Null)
              /\ BlocksOf(q)' = BlocksOf(q) /\ Held(q)' = Held(q)
              /\ q \in Living => PoolIsWhole(q)'
  <2>1. currentSlot_'[q] = currentSlot_[q]
    BY DEF PoolInv, PoolTypeOK
  <2>2. /\ q \in Living => \A x \in FreeList(q) : memory'[x] = memory[x]
        /\ \A x \in Slots : holder'[x] = q <=> holder[x] = q
    BY <1>1, <1>6, <1>7, <1>8, HandOutKeepsOthers
  <2> QED
    BY <2>1, <2>2, OtherPoolKept
<1>15. OnlyTheLivingOwn' /\ BlocksAreLinked'
  BY <1>1, <1>12, <1>14 DEF PoolInv, OnlyTheLivingOwn, BlocksAreLinked
<1>16. BlocksOwnedOnce'
  <2>1. \A q \in Living : BlocksOf(q)' = BlocksOf(q)
    BY <1>12, <1>14 DEF Living
  <2> QED
    BY <1>1, <2>1 DEF PoolInv, BlocksOwnedOnce
<1>17. \A q \in Living' : PoolIsWhole(q)'
  BY <1>1, <1>13, <1>14 DEF Living
<1> QED
  BY <1>7, <1>8, <1>9, <1>11, <1>15, <1>16, <1>17 DEF PoolInv

(* A pool that is to get another block has carved all of those it has. *)
LEMMA NothingLeft ==
  ASSUME PoolInv, NEW p \in Living, BlockUsedUp(p)
  PROVE  Carved(p) = {x \in Slots : x.block \in BlocksOf(p) /\ x.offset + SlotSize <= BlockSize}
<1> SUFFICES ASSUME NEW x \in Slots, x.block = currentBlock_[p], x.offset + SlotSize <= BlockSize
             PROVE  x.offset < currentSlot_[p].offset
  BY DEF Carved
<1>1. CarvesNewestBlock(p) /\ currentBlock_[p] # Null
  BY SlotsAre, NullIsNone DEF PoolInv, PoolIsWhole
<1>2. PICK k \in Nat \ {0} : currentSlot_[p] = At(currentBlock_[p], Body + k * SlotSize)
  BY <1>1 DEF CarvesNewestBlock
<1>3. /\ currentSlot_[p].offset = Body + k * SlotSize /\ Body + k * SlotSize \in Nat
      /\ lastSlot_[p].offset = LastSlot /\ currentSlot_[p] # Null
  BY <1>1, <1>2, Sizes, FirstSlot, SumOfMultiples DEF CarvesNewestBlock, At
<1>4. currentSlot_[p].offset >= LastSlot
  BY <1>3 DEF BlockUsedUp
<1>5. x.offset \in Nat /\ currentSlot_[p].offset \in Nat
  BY <1>3, SlotsAre
<1> QED
  BY Sizes, <1>4, <1>5 DEF LastSlot

LEMMA AllocateBlockPreserves ==
  ASSUME PoolInv, NEW p \in Pools, NEW a \in Slots, NEW e \in Elements, AllocateBlock(p, a, e)
  PROVE  PoolInv' /\ OthersKept({p}) /\ holder[a] = Null /\ HandOut(p, a, e)
<1> USE DEF AllocateBlock
<1>1. p \in Living /\ Living' = Living
  BY DEF Living
<1>2. PICK b \in Blocks \ heap :
        /\ heap' = heap \cup {b}
        /\ previous' = [previous EXCEPT ![b] = currentBlock_[p]]
        /\ currentBlock_' = [currentBlock_ EXCEPT ![p] = b]
        /\ lastSlot_' = [lastSlot_ EXCEPT ![p] = At(b, LastSlot)]
        /\ a = At(b, Body)
  OBVIOUS
<1>3. a.block = b /\ a.offset = Body /\ Body \in Nat /\ Body + SlotSize <= BlockSize
  BY <1>2, Sizes, FirstSlot DEF At
<1>4. \A q \in Pools : b \notin BlocksOf(q)
  <2>1. \A q \in Living : b \notin BlocksOf(q)
    BY CarvedSlots
  <2>2. \A q \in Pools \ Living : BlocksOf(q) = {}
    BY BlocksOfPool DEF PoolInv, OnlyTheLivingOwn
  <2> QED
    BY <2>1, <2>2
<1>5. holder[a] = Null
  <2>1. SUFFICES ASSUME holder[a] # Null PROVE FALSE
    OBVIOUS
  <2>2. holder[a] \in Living /\ a \in Held(holder[a])
    BY <2>1, CarvedSlots DEF Held
  <2>3. a.block \in BlocksOf(holder[a])
    BY <2>2, CarvedSlots
  <2> QED
    BY <1>3, <1>4, <2>2, <2>3 DEF Living
<1>6. HandOut(p, a, e) /\ \A q \in Living \ {p} : a.block \notin BlocksOf(q)
  BY <1>3, <1>4 DEF Living
<1>7. /\ memory' \in [Slots -> [next : Slots \cup {Null}] \cup [element : Elements]]
      /\ holder' \in [Slots -> Pools \cup {Null}]
      /\ FreeHoldsLink' /\ Held(p)' = Held(p) \cup {a} /\ OthersKept({p})
  BY <1>1, <1>5, <1>6, HandOutKeepsOthers
<1>8. Behind(a) = At(b, Body + SlotSize) /\ Behind(a) \in Addresses /\ At(b, LastSlot) \in Addresses
  <2>1. Body + SlotSize \in 0 .. BlockSize + SlotSize /\ LastSlot \in 0 .. BlockSize + SlotSize
    BY <1>3, Sizes DEF LastSlot
  <2> QED
    BY <1>3, <2>1 DEF Behind, Addresses
<1>9. PoolTypeOK'
  BY <1>2, <1>7, <1>8 DEF PoolInv, PoolTypeOK, Pointers
<1>10. currentBlock_'[p] = b /\ currentSlot_'[p] = Behind(a) /\ lastSlot_'[p] = At(b, LastSlot)
  BY <1>2 DEF PoolInv, PoolTypeOK
<1>11. /\ BlocksOf(p)' = BlocksOf(p) \cup {b}
       /\ HasChain(currentBlock_'[p], previous', Blocks, Null)
  <2>1. HasChain(currentBlock_[p], previous, Blocks, Null)
    BY DEF PoolInv, BlocksAreLinked
  <2>2. /\ previous'[b] = currentBlock_[p]
        /\ \A x \in Linked(currentBlock_[p], previous, Blocks, Null) : previous'[x] = previous[x]
    <3>1. \A x \in BlocksOf(p) : x \in Blocks /\ x # b
      BY <1>1, <1>4, CarvedSlots DEF PoolInv, PoolTypeOK
    <3> QED
      BY <1>2, <3>1 DEF PoolInv, PoolTypeOK, BlocksOf
  <2>3. b \notin Linked(currentBlock_[p], previous, Blocks, Null)
    BY <1>4 DEF BlocksOf
  <2>4. /\ HasChain(b, previous', Blocks, Null)
        /\ Linked(b, previous', Blocks, Null) = Linked(currentBlock_[p], previous, Blocks, Null) \cup {b}
    <3> DEFINE start == currentBlock_[p]
               next2 == previous'
    <3>1. IsFiniteSet(Blocks) /\ Null \notin Blocks /\ b \in Blocks
      BY Sizes, NullIsNone
    <3>2. /\ HasChain(start, previous, Blocks, Null)
          /\ b \notin Linked(start, previous, Blocks, Null) /\ next2[b] = start
          /\ \A x \in Linked(start, previous, Blocks, Null) : next2[x] = previous[x]
      BY <2>1, <2>2, <2>3
    <3> HIDE DEF start, next2
    <3>3. /\ HasChain(b, next2, Blocks, Null)
          /\ Linked(b, next2, Blocks, Null) = Linked(start, previous, Blocks, Null) \cup {b}
      BY <3>1, <3>2, ChainInFront
    <3> QED
      BY <3>3 DEF start, next2
  <2> QED
    BY <1>10, <2>4 DEF BlocksOf
<1>12. PoolIsWhole(p)'
  <2>1. PoolIsWhole(p)
    BY <1>1 DEF PoolInv
  <2>2. FreeList(p) = {} /\ FreeList(p)' = {} /\ HasChain(freeSlots_'[p], NextFree', Slots, Null)
    BY SlotsAreFinite, NullIsNone, EmptyChain DEF FreeList
  <2>3. CarvesNewestBlock(p)'
    <3>1. 1 \in Nat \ {0} /\ Body + SlotSize = Body + 1 * SlotSize
      BY Sizes
    <3> QED
      BY <1>8, <1>10, <3>1, NullIsNothing, NullIsNone DEF CarvesNewestBlock
  <2>4. ASSUME NEW x \in Slots, x.block = b PROVE x.offset < Body + SlotSize <=> x = a
    <3>1. PICK i \in Nat : x = At(x.block, Body + i * SlotSize) /\ x.offset = Body + i * SlotSize
      BY SlotsAre
    <3>2. x = a => x.offset < Body + SlotSize
      BY Sizes, <1>3
    <3>3. ASSUME x.offset < Body + SlotSize PROVE x = a
      <4>1. i * SlotSize \in Nat
        BY Sizes, SumOfMultiples
      <4>2. ~(0 < i)
        <5>1. 0 < i => 0 * SlotSize + SlotSize <= i * SlotSize
          BY Sizes, MultiplesGrow
        <5> QED
          BY Sizes, <1>3, <3>1, <3>3, <4>1, <5>1
      <4>3. i = 0 /\ Body + i * SlotSize = Body
        BY Sizes, <1>3, <4>2
      <4> QED
        BY <1>2, <2>4, <3>1, <4>3
    <3> QED
      BY <3>2, <3>3
  <2>5. Carved(p)' = Carved(p) \cup {a}
    <3>1. Carved(p) = {x \in Slots : x.block \in BlocksOf(p) /\ x.offset + SlotSize <= BlockSize}
      BY <1>1, NothingLeft
    <3>2. currentSlot_'[p].offset = Body + SlotSize
      BY <1>8, <1>10 DEF At
    <3>3. Carved(p)' = {x \in Slots : /\ x.block \in BlocksOf(p) \cup {b}
                                      /\ x.offset + SlotSize <= BlockSize
                                      /\ x.block = b => x.offset < Body + SlotSize}
      BY <1>10, <1>11, <3>2 DEF Carved
    <3> QED
      BY <1>3, <1>4, <2>4, <3>1, <3>3
  <2>6. a \notin Carved(p)
    BY <1>1, <1>3, <1>4, CarvedSlots
  <2> QED
    BY <1>7, <2>1, <2>2, <2>3, <2>5, <2>6 DEF PoolIsWhole
<1>13. ASSUME NEW q \in Pools \ {p}
       PROVE  /\ HasChain(currentBlock_'[q], previous', Blocks, Null)
              /\ BlocksOf(q)' = BlocksOf(q) /\ Held(q)' = Held(q)
              /\ q \in Living => PoolIsWhole(q)'
              /\ currentBlock_'[q] = currentBlock_[q]
  <2>1. /\ currentBlock_'[q] = currentBlock_[q] /\ currentSlot_'[q] = currentSlot_[q]
        /\ lastSlot_'[q] = lastSlot_[q]
    BY <1>2 DEF PoolInv, PoolTypeOK
  <2>2. \A x \in BlocksOf(q) : previous'[x] = previous[x]
    BY <1>2, <1>4, PoolsAreApart DEF PoolInv, PoolTypeOK
  <2>3. /\ q \in Living => \A x \in FreeList(q) : memory'[x] = memory[x]
        /\ \A x \in Slots : holder'[x] = q <=> holder[x] = q
    BY <1>1, <1>5, <1>6, HandOutKeepsOthers
  <2> QED
    BY <2>1, <2>2, <2>3, OtherPoolKept
<1>14. OnlyTheLivingOwn' /\ BlocksAreLinked'
  BY <1>1, <1>11, <1>13 DEF PoolInv, OnlyTheLivingOwn, BlocksAreLinked
<1>15. BlocksOwnedOnce'
  <2>1. \A q \in Living \ {p} : BlocksOf(q)' = BlocksOf(q)
    BY <1>13 DEF Living
  <2>2. /\ heap = UNION {BlocksOf(q) : q \in Living}
        /\ \A q, r \in Living : q # r => BlocksOf(q) \cap BlocksOf(r) = {}
    BY DEF PoolInv, BlocksOwnedOnce
  <2>3. \A q \in Living : BlocksOf(q)' = IF q = p THEN BlocksOf(p) \cup {b} ELSE BlocksOf(q)
    BY <1>11, <2>1
  <2>4. heap' = UNION {BlocksOf(q)' : q \in Living'}
    <3>1. heap' = UNION {IF q = p THEN BlocksOf(p) \cup {b} ELSE BlocksOf(q) : q \in Living}
      BY <1>1, <1>2, <2>2
    <3> QED
      BY <1>1, <2>3, <3>1
  <2>5. \A q, r \in Living' : q # r => BlocksOf(q)' \cap BlocksOf(r)' = {}
    BY <1>1, <1>4, <2>2, <2>3 DEF Living
  <2> QED
    BY <2>4, <2>5 DEF BlocksOwnedOnce
<1>16. \A q \in Living' : PoolIsWhole(q)'
  BY <1>1, <1>12, <1>13 DEF Living
<1> QED
  BY <1>5, <1>6, <1>7, <1>9, <1>14, <1>15, <1>16 DEF PoolInv

LEMMA DeallocatePreserves ==
  ASSUME PoolInv, NEW p \in Pools, NEW a \in Slots, Deallocate(p, a)
  PROVE  PoolInv' /\ OthersKept({p})
<1> USE DEF Deallocate, Link
<1>1. p \in Living /\ Living' = Living /\ a \in Held(p) /\ a \in Carved(p)
  BY CarvedSlots DEF Living, Held
<1>2. /\ memory' = [memory EXCEPT ![a] = Free(freeSlots_[p])]
      /\ memory'[a] = Free(freeSlots_[p]) /\ freeSlots_[p] \in Slots \cup {Null}
      /\ \A x \in Slots : x # a => memory'[x] = memory[x]
  BY DEF PoolInv, PoolTypeOK
<1>3. holder' \in [Slots -> Pools \cup {Null}] /\ \A x \in Slots : holder'[x] = IF x = a THEN Null ELSE holder[x]
  BY DEF PoolInv, PoolTypeOK
<1>4. PoolTypeOK'
  <2>1. memory' \in [Slots -> [next : Slots \cup {Null}] \cup [element : Elements]]
    BY <1>2 DEF PoolInv, PoolTypeOK, Free
  <2> QED
    BY <1>3, <2>1 DEF PoolInv, PoolTypeOK
<1>5. FreeHoldsLink'
  <2>1. memory'[a] \in [next : Slots \cup {Null}]
    BY <1>2 DEF Free
  <2> QED
    BY <1>2, <1>3, <2>1 DEF PoolInv, FreeHoldsLink
<1>6. OthersKept({p})
  BY <1>2, <1>3 DEF OthersKept
<1>7. BlocksOf(p)' = BlocksOf(p) /\ HasChain(currentBlock_'[p], previous', Blocks, Null)
  BY BlocksKept
<1>8. PoolIsWhole(p)'
  <2>1. PoolIsWhole(p)
    BY <1>1 DEF PoolInv
  <2>2. a \notin FreeList(p)
    BY <1>1, <2>1 DEF PoolIsWhole
  <2>3. freeSlots_'[p] = a
    BY DEF PoolInv, PoolTypeOK
  <2>4. NextFree'[a] = freeSlots_[p]
    BY <1>2 DEF NextFree, Free
  <2>5. \A x \in Linked(freeSlots_[p], NextFree, Slots, Null) : NextFree'[x] = NextFree[x]
    <3>1. SUFFICES ASSUME NEW x \in FreeList(p) PROVE NextFree'[x] = NextFree[x]
      BY DEF FreeList
    <3>2. x \in Slots /\ x # a
      BY <1>1, <2>2, CarvedSlots
    <3> QED
      BY <1>2, <3>2 DEF NextFree
  <2>6. /\ HasChain(a, NextFree', Slots, Null)
        /\ Linked(a, NextFree', Slots, Null) = FreeList(p) \cup {a}
    <3>1. HasChain(freeSlots_[p], NextFree, Slots, Null)
      BY <2>1 DEF PoolIsWhole
    <3> QED
      BY <2>2, <2>4, <2>5, <3>1, SlotsAreFinite, NullIsNone, ChainInFront DEF FreeList
  <2>7. FreeList(p)' = FreeList(p) \cup {a} /\ HasChain(freeSlots_'[p], NextFree', Slots, Null)
    BY <2>3, <2>6 DEF FreeList
  <2>8. Held(p)' = Held(p) \ {a}
    BY <1>1, <1>3, NullIsNone DEF Held
  <2>9. Carved(p)' = Carved(p) /\ CarvesNewestBlock(p)'
    BY <1>7, <2>1 DEF Carved, PoolIsWhole, CarvesNewestBlock
  <2> QED
    BY <1>1, <2>1, <2>7, <2>8, <2>9 DEF PoolIsWhole
<1>9. ASSUME NEW q \in Pools \ {p}
      PROVE  /\ HasChain(currentBlock_'[q], previous', Blocks, Null)
             /\ BlocksOf(q)' = BlocksOf(q) /\ Held(q)' = Held(q)
             /\ q \in Living => PoolIsWhole(q)'
  <2>1. freeSlots_'[q] = freeSlots_[q]
    BY DEF PoolInv, PoolTypeOK
  <2>2. \A x \in Slots : holder'[x] = q <=> holder[x] = q
    BY <1>3, NullIsNone
  <2>3. q \in Living => \A x \in FreeList(q) : memory'[x] = memory[x]
    BY <1>2, CarvedSlots, NullIsNone
  <2> QED
    BY <2>1, <2>2, <2>3, OtherPoolKept
<1>10. OnlyTheLivingOwn' /\ BlocksAreLinked'
  BY <1>1, <1>7, <1>9 DEF PoolInv, OnlyTheLivingOwn, BlocksAreLinked
<1>11. BlocksOwnedOnce'
  <2>1. \A q \in Living : BlocksOf(q)' = BlocksOf(q)
    BY <1>7, <1>9 DEF Living
  <2> QED
    BY <1>1, <2>1 DEF PoolInv, BlocksOwnedOnce
<1>12. \A q \in Living' : PoolIsWhole(q)'
  BY <1>1, <1>8, <1>9 DEF Living
<1> QED
  BY <1>4, <1>5, <1>6, <1>10, <1>11, <1>12 DEF PoolInv

LEMMA AllocatePreserves ==
  ASSUME PoolInv, NEW p \in Pools, NEW a \in Slots, NEW e \in Elements, Allocate(p, a, e)
  PROVE  PoolInv' /\ OthersKept({p}) /\ holder[a] = Null /\ HandOut(p, a, e) /\ state' = state
<1>1. CASE AllocateFree(p, a, e)
  <2>1. state' = state
    BY <1>1 DEF AllocateFree
  <2> QED
    BY <1>1, <2>1, AllocateFreePreserves
<1>2. CASE AllocateNext(p, a, e)
  <2>1. state' = state
    BY <1>2 DEF AllocateNext
  <2> QED
    BY <1>2, <2>1, AllocateNextPreserves
<1>3. CASE AllocateBlock(p, a, e)
  <2>1. state' = state
    BY <1>3 DEF AllocateBlock
  <2> QED
    BY <1>3, <2>1, AllocateBlockPreserves
<1> QED
  BY <1>1, <1>2, <1>3 DEF Allocate

LEMMA UnchangedPreserves ==
  ASSUME PoolInv, UNCHANGED poolVars
  PROVE  PoolInv' /\ OthersKept({})
<1> USE DEF poolVars, members
<1>1. PoolTypeOK'
  BY DEF PoolInv, PoolTypeOK
<1>2. Living' = Living /\ \A p \in Pools : Held(p)' = Held(p)
  BY DEF Living, Held
<1>3. ASSUME NEW p \in Pools
      PROVE  /\ HasChain(currentBlock_'[p], previous', Blocks, Null)
             /\ BlocksOf(p)' = BlocksOf(p)
             /\ p \in Living => PoolIsWhole(p)'
  BY OtherPoolKept
<1>4. OnlyTheLivingOwn' /\ BlocksAreLinked'
  BY <1>2, <1>3 DEF PoolInv, OnlyTheLivingOwn, BlocksAreLinked
<1>5. BlocksOwnedOnce'
  <2>1. \A q \in Living : BlocksOf(q)' = BlocksOf(q)
    BY <1>3 DEF Living
  <2> QED
    BY <1>2, <2>1 DEF PoolInv, BlocksOwnedOnce
<1>6. \A q \in Living' : PoolIsWhole(q)'
  BY <1>2, <1>3 DEF Living
<1>7. FreeHoldsLink'
  BY DEF PoolInv, FreeHoldsLink
<1> QED
  BY <1>1, <1>4, <1>5, <1>6, <1>7 DEF PoolInv, OthersKept

-----------------------------------------------------------------------------
(***************************************************************************)
(* The stacks.                                                             *)
(***************************************************************************)
LEMMA StackConstants ==
  /\ Stacks \subseteq Pools /\ MaxDepth \in Nat /\ Opaque \in Elements
  /\ \A v \in Values, a \in Slots \cup {Null} : Node(v, a) \in Elements
  /\ \A s \in Stacks : s # Null
BY StackAllocAssumption, NullIsNone

(* A stack whose nodes and top a step leaves alone. *)
LEMMA StackKept ==
  ASSUME NEW s \in Stacks, NodesAreLinked(s), head_'[s] = head_[s], pushed'[s] = pushed[s],
         \A a \in Held(s) : holder'[a] = holder[a] /\ memory'[a] = memory[a]
  PROVE  NodesAreLinked(s)'
<1>1. PICK c \in Seq(Slots) :
        /\ IsChain(c, head_[s], Prev, Null)
        /\ Len(c) = Len(pushed[s]) /\ Len(c) <= MaxDepth
        /\ \A i \in 1 .. Len(c) :
             holder[c[i]] = s /\ NodeAt(c[i]).data = pushed[s][Len(c) + 1 - i]
  BY DEF NodesAreLinked
<1>2. \A i \in 1 .. Len(c) :
        c[i] \in Slots /\ holder'[c[i]] = s /\ memory'[c[i]] = memory[c[i]]
  BY <1>1, ElementOfSeq DEF Held
<1>3. \A i \in 1 .. Len(c) : Prev'[c[i]] = Prev[c[i]]
  BY <1>2 DEF Prev, NodeAt
<1>4. IsChain(c, head_'[s], Prev', Null)
  BY <1>1, <1>3 DEF IsChain
<1>5. \A i \in 1 .. Len(c) : holder'[c[i]] = s /\ NodeAt(c[i])'.data = pushed'[s][Len(c) + 1 - i]
  BY <1>1, <1>2 DEF NodeAt
<1> QED
  BY <1>1, <1>4, <1>5 DEF NodesAreLinked

LEMMA StackInitIInv == StackInit => IInv
<1> SUFFICES ASSUME StackInit PROVE IInv
  OBVIOUS
<1>1. PoolInv
  BY InitPoolInv DEF StackInit
<1>2. TypeOK
  BY <1>1 DEF StackInit, TypeOK, PoolInv
<1>3. ASSUME NEW s \in Stacks PROVE state[s] # "moved" /\ NodesAreLinked(s)
  <2>1. state[s] # "moved" /\ head_[s] = Null /\ pushed[s] = <<>>
    BY StackConstants DEF StackInit, Init
  <2> DEFINE c == <<>>
  <2>2. c \in Seq(Slots) /\ Len(c) = 0 /\ Len(c) = Len(pushed[s]) /\ IsChain(c, head_[s], Prev, Null)
    BY <2>1 DEF IsChain
  <2> HIDE DEF c
  <2>3. Len(c) <= MaxDepth /\ 1 .. Len(c) = {}
    BY <2>2, StackConstants
  <2> QED
    BY <2>1, <2>2, <2>3 DEF NodesAreLinked
<1> QED
  BY <1>1, <1>2, <1>3 DEF IInv

LEMMA NewStackPreserves ==
  ASSUME IInv, NEW s \in Stacks, NewStack(s)
  PROVE  IInv'
<1> USE DEF NewStack
<1>1. s \in Pools /\ Construct(s) /\ PoolInv
  BY StackConstants DEF IInv
<1>2. PoolInv' /\ OthersKept({s})
  BY <1>1, ConstructPreserves
<1>3. TypeOK'
  BY <1>2 DEF IInv, TypeOK, PoolInv
<1>4. Held(s) = {} /\ holder' = holder /\ memory' = memory
  BY <1>1 DEF Construct, PoolInv, OnlyTheLivingOwn, Living
<1>5. ASSUME NEW t \in Stacks PROVE state'[t] # "moved" /\ NodesAreLinked(t)'
  <2>1. state'[t] # "moved" /\ NodesAreLinked(t)
    BY <1>1, StackConstants DEF IInv, Construct, TypeOK, PoolTypeOK
  <2>2. CASE t # s
    BY <1>4, <2>1, <2>2, StackKept DEF IInv, TypeOK
  <2>3. CASE t = s
    <3>1. PICK c \in Seq(Slots) :
            /\ IsChain(c, head_[s], Prev, Null)
            /\ Len(c) = Len(pushed[s]) /\ Len(c) <= MaxDepth
            /\ \A i \in 1 .. Len(c) :
                 holder[c[i]] = s /\ NodeAt(c[i]).data = pushed[s][Len(c) + 1 - i]
      BY <2>1, <2>3 DEF NodesAreLinked
    <3>2. \A i \in 1 .. Len(c) : c[i] \in Held(s)
      BY <3>1, ElementOfSeq DEF Held
    <3>3. c = <<>>
      BY <1>4, <3>2, EmptySeq
    <3>4. head_'[s] = head_[s]
      BY <3>1, <3>3 DEF IsChain, IInv, TypeOK
    <3> QED
      BY <1>4, <2>1, <2>3, <3>4, StackKept
  <2> QED
    BY <2>1, <2>2, <2>3
<1> QED
  BY <1>2, <1>3, <1>5 DEF IInv

LEMMA PushPreserves ==
  ASSUME IInv, NEW s \in Stacks, NEW v \in Values, Push(s, v)
  PROVE  IInv'
<1> USE DEF Push
<1>1. PICK a \in Slots : /\ Allocate(s, a, Node(v, head_[s]))
                         /\ head_' = [head_ EXCEPT ![s] = a]
  OBVIOUS
<1>2. s \in Pools /\ PoolInv /\ head_[s] \in Slots \cup {Null} /\ Node(v, head_[s]) \in Elements
  BY StackConstants DEF IInv, TypeOK
<1>3. /\ PoolInv' /\ OthersKept({s}) /\ holder[a] = Null
      /\ HandOut(s, a, Node(v, head_[s])) /\ state' = state
  <2> DEFINE e == Node(v, head_[s])
  <2>1. PoolInv /\ s \in Pools /\ e \in Elements /\ Allocate(s, a, e)
    BY <1>1, <1>2
  <2> HIDE DEF e
  <2> QED
    BY <2>1, AllocatePreserves DEF e
<1>4. /\ memory'[a] = Element(Node(v, head_[s])) /\ holder'[a] = s
      /\ \A x \in Slots : x # a => memory'[x] = memory[x] /\ holder'[x] = holder[x]
  BY <1>2, <1>3 DEF PoolInv, PoolTypeOK, HandOut
<1>5. /\ head_'[s] = a /\ \A t \in Stacks : t # s => head_'[t] = head_[t]
      /\ pushed'[s] = Append(pushed[s], v) /\ \A t \in Stacks : t # s => pushed'[t] = pushed[t]
      /\ pushed[s] \in Seq(Values) /\ Len(pushed[s]) < MaxDepth
  BY <1>1 DEF IInv, TypeOK
<1>6. TypeOK'
  <2>1. pushed' \in [Stacks -> Seq(Values)]
    BY <1>5 DEF IInv, TypeOK
  <2> QED
    BY <1>1, <1>3, <2>1 DEF IInv, TypeOK, PoolInv
<1>7. NodesAreLinked(s)'
  <2>1. PICK c \in Seq(Slots) :
          /\ IsChain(c, head_[s], Prev, Null)
          /\ Len(c) = Len(pushed[s]) /\ Len(c) <= MaxDepth
          /\ \A i \in 1 .. Len(c) :
               holder[c[i]] = s /\ NodeAt(c[i]).data = pushed[s][Len(c) + 1 - i]
    BY DEF IInv, NodesAreLinked
  <2>2. \A i \in 1 .. Len(c) : c[i] \in Slots /\ c[i] # a
    BY <1>3, <2>1, ElementOfSeq, StackConstants
  <2>3. a \notin ToSet(c)
    BY <2>2, ToSetOf
  <2>4. /\ \A i \in 1 .. Len(c) : Prev'[c[i]] = Prev[c[i]]
        /\ Prev'[a] = head_[s] /\ NodeAt(a)'.data = v
    BY <1>4, <2>2 DEF Prev, NodeAt, Element, Node
  <2>5. IsChain(c, head_[s], Prev', Null)
    BY <2>1, <2>4 DEF IsChain
  <2>6. PICK d \in Seq(Slots) : /\ Len(d) = Len(c) + 1 /\ d[1] = a
                                /\ \A i \in 1 .. Len(c) : d[i + 1] = c[i]
                                /\ IsChain(d, a, Prev', Null)
    <3> DEFINE d == <<a>> \o c
    <3>1. /\ d \in Seq(Slots) /\ Len(d) = Len(c) + 1 /\ d[1] = a
          /\ \A i \in 1 .. Len(c) : d[i + 1] = c[i]
          /\ IsChain(d, a, Prev', Null)
      BY <2>3, <2>4, <2>5, LongerChain
    <3> HIDE DEF d
    <3> QED
      BY <3>1
  <2>7. Len(c) \in Nat /\ Len(d) = Len(pushed'[s]) /\ Len(d) <= MaxDepth
    BY <1>5, <2>1, <2>6, StackConstants
  <2>8. ASSUME NEW i \in 1 .. Len(d)
        PROVE  holder'[d[i]] = s /\ NodeAt(d[i])'.data = pushed'[s][Len(d) + 1 - i]
    <3>1. CASE i = 1
      <4>1. Len(d) + 1 - i = Len(pushed[s]) + 1
        BY <2>1, <2>6, <2>7, <3>1
      <4>2. pushed'[s][Len(pushed[s]) + 1] = v
        BY <1>5
      <4> QED
        BY <1>4, <2>4, <2>6, <3>1, <4>1, <4>2
    <3>2. CASE i # 1
      <4>1. i - 1 \in 1 .. Len(c) /\ (i - 1) + 1 = i /\ Len(d) + 1 - i = Len(c) + 1 - (i - 1)
        BY <2>6, <2>7, <3>2
      <4>2. d[i] = c[i - 1] /\ c[i - 1] \in Slots /\ c[i - 1] # a
        BY <2>2, <2>6, <4>1
      <4>3. holder[c[i - 1]] = s /\ NodeAt(c[i - 1]).data = pushed[s][Len(c) + 1 - (i - 1)]
        BY <2>1, <4>1
      <4>4. Len(c) + 1 - (i - 1) \in 1 .. Len(pushed[s])
        BY <2>1, <2>7, <4>1
      <4>5. pushed'[s][Len(c) + 1 - (i - 1)] = pushed[s][Len(c) + 1 - (i - 1)]
        BY <1>5, <4>4
      <4> QED
        BY <1>4, <4>1, <4>2, <4>3, <4>5 DEF NodeAt
    <3> QED
      BY <3>1, <3>2
  <2> QED
    BY <1>5, <2>6, <2>7, <2>8 DEF NodesAreLinked
<1>8. ASSUME NEW t \in Stacks PROVE state'[t] # "moved" /\ NodesAreLinked(t)'
  <2>1. state'[t] # "moved" /\ NodesAreLinked(t)
    BY <1>3 DEF IInv
  <2>2. CASE t # s
    <3>1. \A x \in Held(t) : holder'[x] = holder[x] /\ memory'[x] = memory[x]
      BY <1>3, <2>2, StackConstants DEF Held, OthersKept
    <3> QED
      BY <1>5, <2>1, <2>2, <3>1, StackKept
  <2> QED
    BY <1>7, <2>1, <2>2
<1> QED
  BY <1>3, <1>6, <1>8 DEF IInv

(* The parts of IInv that a step of one pool, which is no stack's or which *)
(* takes nothing that a stack holds, leaves alone.                         *)
LEMMA StacksKept ==
  ASSUME IInv, NEW P, OthersKept(P), UNCHANGED <<head_, pushed>>,
         \A s \in Stacks : s \in P => Held(s) = {}
  PROVE  \A s \in Stacks : NodesAreLinked(s)'
<1> SUFFICES ASSUME NEW s \in Stacks PROVE NodesAreLinked(s)'
  OBVIOUS
<1>1. \A x \in Held(s) : holder'[x] = holder[x] /\ memory'[x] = memory[x]
  BY StackConstants DEF Held, OthersKept
<1> QED
  BY <1>1, StackKept DEF IInv

LEMMA TakeTopPreserves ==
  ASSUME IInv, NEW s \in Stacks, TakeTop(s)
  PROVE  IInv'
<1> USE DEF TakeTop, Below
<1> DEFINE a == head_[s]
<1>1. s \in Pools /\ PoolInv /\ a \in Slots /\ Deallocate(s, a)
  BY StackConstants DEF IInv, TypeOK
<1>2. PoolInv' /\ OthersKept({s}) /\ state' = state
  BY <1>1, DeallocatePreserves DEF Deallocate
<1>3. \A x \in Slots : x # a => memory'[x] = memory[x] /\ holder'[x] = holder[x]
  BY <1>1 DEF PoolInv, PoolTypeOK, Deallocate
<1>4. /\ head_'[s] = Prev[a] /\ \A t \in Stacks : t # s => head_'[t] = head_[t]
      /\ pushed'[s] = SubSeq(pushed[s], 1, Len(pushed[s]) - 1)
      /\ \A t \in Stacks : t # s => pushed'[t] = pushed[t]
      /\ pushed[s] \in Seq(Values)
  BY <1>1 DEF IInv, TypeOK, Prev
<1> HIDE DEF a
<1>5. PICK c \in Seq(Slots) :
        /\ IsChain(c, a, Prev, Null)
        /\ Len(c) = Len(pushed[s]) /\ Len(c) <= MaxDepth
        /\ \A i \in 1 .. Len(c) :
             holder[c[i]] = s /\ NodeAt(c[i]).data = pushed[s][Len(c) + 1 - i]
  BY DEF IInv, NodesAreLinked, a
<1>6. c # <<>>
  BY <1>1, <1>5, NullIsNone DEF IsChain
<1>7. PICK d \in Seq(Slots) :
        /\ Len(d) = Len(c) - 1 /\ Len(c) \in Nat \ {0}
        /\ \A i \in 1 .. Len(d) : d[i] = c[i + 1]
        /\ IsChain(d, Prev[a], Prev, Null) /\ ToSet(d) = ToSet(c) \ {a}
  <2> DEFINE d == Tail(c)
  <2>1. /\ d \in Seq(Slots) /\ Len(d) = Len(c) - 1 /\ Len(c) \in Nat \ {0}
        /\ \A i \in 1 .. Len(d) : d[i] = c[i + 1]
        /\ IsChain(d, Prev[a], Prev, Null) /\ ToSet(d) = ToSet(c) \ {a}
    BY <1>5, <1>6, ShorterChain
  <2> HIDE DEF d
  <2> QED
    BY <2>1
<1>8. \A i \in 1 .. Len(d) : d[i] \in Slots /\ d[i] # a
  BY <1>7, ElementOfSeq, ToSetOf
<1>9. head_'[s] \in Slots \cup {Null}
  <2>1. d # <<>> => 1 \in 1 .. Len(d)
    BY EmptySeq
  <2> QED
    BY <1>4, <1>7, <1>8, <2>1 DEF IsChain
<1>10. pushed'[s] \in Seq(Values) /\ Len(pushed'[s]) = Len(c) - 1
       /\ \A j \in 1 .. Len(c) - 1 : pushed'[s][j] = pushed[s][j]
  BY <1>4, <1>5, <1>7
<1>11. TypeOK'
  <2>1. head_' \in [Stacks -> Slots \cup {Null}]
    BY <1>4, <1>9 DEF IInv, TypeOK
  <2>2. pushed' \in [Stacks -> Seq(Values)]
    BY <1>4, <1>10 DEF IInv, TypeOK
  <2> QED
    BY <1>2, <2>1, <2>2 DEF IInv, TypeOK, PoolInv
<1>12. NodesAreLinked(s)'
  <2>1. \A i \in 1 .. Len(d) : Prev'[d[i]] = Prev[d[i]]
    BY <1>3, <1>8 DEF Prev, NodeAt
  <2>2. IsChain(d, head_'[s], Prev', Null)
    BY <1>4, <1>7, <2>1 DEF IsChain
  <2>3. ASSUME NEW i \in 1 .. Len(d)
        PROVE  holder'[d[i]] = s /\ NodeAt(d[i])'.data = pushed'[s][Len(d) + 1 - i]
    <3>1. /\ i + 1 \in 1 .. Len(c) /\ Len(c) + 1 - (i + 1) = Len(d) + 1 - i
          /\ Len(d) + 1 - i \in 1 .. Len(c) - 1
      <4>1. Len(c) \in Nat /\ Len(d) = Len(c) - 1 /\ i \in 1 .. Len(c) - 1
        BY <1>7
      <4>2. ASSUME NEW n \in Nat, NEW k \in 1 .. n - 1
            PROVE  /\ k + 1 \in 1 .. n /\ n + 1 - (k + 1) = (n - 1) + 1 - k
                   /\ (n - 1) + 1 - k \in 1 .. n - 1
        OBVIOUS
      <4> QED
        BY <4>1, <4>2
    <3>2. holder[c[i + 1]] = s /\ NodeAt(c[i + 1]).data = pushed[s][Len(c) + 1 - (i + 1)]
      BY <1>5, <3>1
    <3>3. d[i] = c[i + 1] /\ holder'[d[i]] = holder[d[i]] /\ memory'[d[i]] = memory[d[i]]
      BY <1>3, <1>7, <1>8
    <3>4. pushed'[s][Len(d) + 1 - i] = pushed[s][Len(d) + 1 - i]
      BY <1>10, <3>1
    <3> QED
      BY <3>1, <3>2, <3>3, <3>4 DEF NodeAt
  <2>4. Len(d) = Len(pushed'[s]) /\ Len(d) <= MaxDepth
    BY <1>5, <1>7, <1>10, StackConstants
  <2> QED
    BY <2>2, <2>3, <2>4 DEF NodesAreLinked
<1>13. ASSUME NEW t \in Stacks, t # s PROVE NodesAreLinked(t)'
  <2>1. \A x \in Held(t) : holder'[x] = holder[x] /\ memory'[x] = memory[x]
    BY <1>2, <1>13, StackConstants DEF Held, OthersKept
  <2> QED
    BY <1>4, <1>13, <2>1, StackKept DEF IInv
<1> QED
  BY <1>2, <1>11, <1>12, <1>13 DEF IInv

LEMMA EndClearPreserves ==
  ASSUME IInv, NEW s \in Stacks, EndClear(s)
  PROVE  IInv'
<1> USE DEF EndClear
<1>1. s \in Pools /\ PoolInv
  BY StackConstants DEF IInv
<1>2. CASE clearing[s] = "destructor"
  <2>1. Destroy(s) /\ Held(s) = {}
    BY <1>2 DEF Destroy, Held
  <2>2. PoolInv' /\ OthersKept({s})
    BY <1>1, <2>1, DestroyPreserves
  <2>3. TypeOK'
    BY <2>2 DEF IInv, TypeOK, PoolInv
  <2>4. \A t \in Stacks : NodesAreLinked(t)'
    <3>1. \A t \in Stacks : t \in {s} => Held(t) = {}
      BY <2>1
    <3> QED
      BY <2>2, <3>1, StacksKept
  <2>5. \A t \in Stacks : state'[t] # "moved"
    BY <2>1, StackConstants DEF Destroy, IInv, TypeOK, PoolTypeOK
  <2> QED
    BY <2>2, <2>3, <2>4, <2>5 DEF IInv
<1>3. CASE clearing[s] # "destructor"
  <2>1. UNCHANGED poolVars
    BY <1>3
  <2>2. PoolInv' /\ OthersKept({}) /\ state' = state
    BY <1>1, <2>1, UnchangedPreserves DEF poolVars
  <2>3. TypeOK'
    BY <2>2 DEF IInv, TypeOK, PoolInv
  <2>4. \A t \in Stacks : NodesAreLinked(t)'
    BY <2>2, StacksKept
  <2> QED
    BY <2>2, <2>3, <2>4 DEF IInv
<1> QED
  BY <1>2, <1>3

LEMMA StillPreserves ==
  ASSUME IInv, UNCHANGED poolVars, UNCHANGED <<head_, pushed>>,
         clearing' \in [Stacks -> {"no", "user", "destructor"}]
  PROVE  IInv'
<1>1. PoolInv' /\ OthersKept({}) /\ state' = state
  BY UnchangedPreserves DEF IInv, poolVars
<1>2. TypeOK'
  BY <1>1 DEF IInv, TypeOK, PoolInv
<1>3. \A t \in Stacks : NodesAreLinked(t)'
  BY <1>1, StacksKept
<1> QED
  BY <1>1, <1>2, <1>3 DEF IInv

LEMMA DirectStepPreserves ==
  ASSUME IInv, NEW p \in Pools \ Stacks, DirectStep(p)
  PROVE  IInv'
<1>1. PoolInv
  BY DEF IInv
<1>2. SUFFICES /\ PoolInv' /\ UNCHANGED stackVars
               /\ \E q \in Pools \ Stacks : OthersKept({p, q})
               /\ \A s \in Stacks : state'[s] # "moved"
  <2>1. TypeOK'
    BY <1>2 DEF IInv, TypeOK, PoolInv, stackVars
  <2>2. \A s \in Stacks : NodesAreLinked(s)'
    <3>1. PICK q \in Pools \ Stacks : OthersKept({p, q})
      BY <1>2
    <3>2. \A s \in Stacks : s \in {p, q} => Held(s) = {}
      OBVIOUS
    <3> QED
      BY <1>2, <3>1, <3>2, StacksKept DEF stackVars
  <2> QED
    BY <1>2, <2>1, <2>2 DEF IInv
<1>3. OthersKept({p}) => OthersKept({p, p})
  BY DEF OthersKept
<1>4. CASE NewElement(p)
  <2>1. PICK a \in Slots : Allocate(p, a, Opaque) /\ UNCHANGED stackVars
    BY <1>4 DEF NewElement
  <2>2. PoolInv' /\ OthersKept({p}) /\ state' = state
    BY <1>1, <2>1, AllocatePreserves, StackConstants
  <2> QED
    BY <1>3, <2>1, <2>2 DEF IInv
<1>5. CASE DeleteElement(p)
  <2>1. PICK a \in Slots : Deallocate(p, a) /\ UNCHANGED stackVars
    BY <1>5 DEF DeleteElement
  <2>2. PoolInv' /\ OthersKept({p}) /\ state' = state
    BY <1>1, <2>1, DeallocatePreserves DEF Deallocate
  <2> QED
    BY <1>3, <2>1, <2>2 DEF IInv
<1>6. CASE Construct(p) /\ UNCHANGED stackVars
  <2>1. PoolInv' /\ OthersKept({p})
    BY <1>1, <1>6, ConstructPreserves
  <2>2. \A s \in Stacks : state'[s] # "moved"
    BY <1>6, StackConstants DEF IInv, TypeOK, PoolTypeOK, Construct
  <2> QED
    BY <1>3, <1>6, <2>1, <2>2
<1>7. CASE Destroy(p) /\ UNCHANGED stackVars
  <2>1. PoolInv' /\ OthersKept({p})
    BY <1>1, <1>7, DestroyPreserves
  <2>2. \A s \in Stacks : state'[s] # "moved"
    BY <1>7, StackConstants DEF IInv, TypeOK, PoolTypeOK, Destroy
  <2> QED
    BY <1>3, <1>7, <2>1, <2>2
<1>8. ASSUME NEW q \in Pools \ Stacks, MoveConstruct(p, q), UNCHANGED stackVars
      PROVE  /\ PoolInv' /\ UNCHANGED stackVars /\ OthersKept({p, q})
             /\ \A s \in Stacks : state'[s] # "moved"
  <2>1. PoolInv' /\ OthersKept({p, q})
    BY <1>1, <1>8, MoveConstructPreserves
  <2>2. \A s \in Stacks : state'[s] # "moved"
    BY <1>8, StackConstants DEF IInv, TypeOK, PoolTypeOK, MoveConstruct
  <2> QED
    BY <1>8, <2>1, <2>2
<1> QED
  BY <1>4, <1>5, <1>6, <1>7, <1>8 DEF DirectStep

LEMMA StepIInv == IInv /\ [Next]_vars => IInv'
<1> SUFFICES ASSUME IInv, [Next]_vars PROVE IInv'
  OBVIOUS
<1>1. ASSUME NEW s \in Stacks, StackStep(s) PROVE IInv'
  <2>1. CASE NewStack(s)
    BY <2>1, NewStackPreserves
  <2>2. CASE Pop(s) \/ ClearNode(s)
    BY <2>2, TakeTopPreserves DEF Pop, ClearNode
  <2>3. CASE EndClear(s)
    BY <2>3, EndClearPreserves
  <2>4. CASE \E v \in Values : Push(s, v)
    BY <2>4, PushPreserves
  <2>5. CASE \E caller \in {"user", "destructor"} : BeginClear(s, caller)
    <3>1. /\ UNCHANGED poolVars /\ UNCHANGED <<head_, pushed>>
          /\ clearing' \in [Stacks -> {"no", "user", "destructor"}]
      BY <2>5 DEF BeginClear, IInv, TypeOK
    <3> QED
      BY <3>1, StillPreserves
  <2> QED
    BY <1>1, <2>1, <2>2, <2>3, <2>4, <2>5 DEF StackStep
<1>2. ASSUME NEW p \in Pools \ Stacks, DirectStep(p) PROVE IInv'
  BY <1>2, DirectStepPreserves
<1>3. CASE UNCHANGED vars
  <2>1. /\ UNCHANGED poolVars /\ UNCHANGED <<head_, pushed>>
        /\ clearing' \in [Stacks -> {"no", "user", "destructor"}]
    BY <1>3 DEF vars, IInv, TypeOK
  <2> QED
    BY <2>1, StillPreserves
<1> QED
  BY <1>1, <1>2, <1>3 DEF Next

-----------------------------------------------------------------------------
(***************************************************************************)
(* The theorems.                                                           *)
(***************************************************************************)
(* The inductive invariant holds of every state that can be reached. *)
THEOREM Invariant == Spec => []IInv
<1>1. StackInit => IInv
  BY StackInitIInv
<1>2. IInv /\ [Next]_vars => IInv'
  BY StepIInv
<1> QED
  BY <1>1, <1>2, PTL DEF Spec

(* Every variable keeps its type: a stack's head_, which is read from the  *)
(* bytes of a node, is a slot or null, and so is the free list's.          *)
THEOREM TypeCorrect == Spec => []TypeOK
<1>1. IInv => TypeOK
  BY DEF IInv
<1> QED
  BY <1>1, Invariant, PTL

(* Every block on the heap has one owner, who will delete it once: also    *)
(* after a pool has moved, whatever the constructors share.                *)
THEOREM BlocksHaveOneOwner == Spec => []BlocksOwnedOnce
<1>1. IInv => BlocksOwnedOnce
  BY DEF IInv, PoolInv
<1> QED
  BY <1>1, Invariant, PTL

(* allocate and deallocate never share a slot and never lose one.          *)
THEOREM SlotsAreNotShared == Spec => []EachSlotOnce
<1>1. IInv => EachSlotOnce
  BY DEF IInv, PoolInv, PoolIsWhole, EachSlotOnce, Held
<1> QED
  BY <1>1, Invariant, PTL

(* padPointer aligns and lastSlot_ bounds what allocate gives out: an      *)
(* element is aligned and inside a block, whatever the sizes.              *)
THEOREM ElementsFit == Spec => []ElementsInsideBlocks
<1>1. IInv => ElementsInsideBlocks
  <2>1. SUFFICES ASSUME IInv, NEW a \in Slots, holder[a] # Null
                 PROVE  /\ a.block \in heap
                        /\ a.offset >= PointerSize /\ a.offset + SlotSize <= BlockSize
                        /\ a.offset % SlotAlign = 0
    BY DEF ElementsInsideBlocks, InUse
  <2>2. PoolInv /\ holder[a] \in Living /\ a \in Held(holder[a])
    BY <2>1, CarvedSlots DEF IInv, Held
  <2>3. a \in Carved(holder[a])
    BY <2>2, CarvedSlots
  <2>4. a.block \in heap /\ a.offset + SlotSize <= BlockSize
    BY <2>2, <2>3, CarvedSlots DEF Carved
  <2>5. PICK i \in Nat : a.offset = Body + i * SlotSize
    BY SlotsAre
  <2>6. a.offset >= PointerSize
    <3>1. i * SlotSize \in Nat
      BY Sizes, SumOfMultiples
    <3> QED
      BY Sizes, FirstSlot, <2>5, <3>1
  <2>7. a.offset % SlotAlign = 0
    <3> DEFINE m == SlotSize \div SlotAlign
    <3>1. PICK n \in Nat : Body = SlotAlign * n
      BY FirstSlot
    <3>2. m \in Nat /\ SlotSize = SlotAlign * m
      BY Sizes, Division
    <3> HIDE DEF m
    <3>3. i * SlotSize = SlotAlign * (i * m) /\ i * m \in Nat
      BY Sizes, <3>2
    <3>4. a.offset = SlotAlign * (n + i * m) /\ n + i * m \in Nat
      BY Sizes, <2>5, <3>1, <3>3, SumOfMultiples
    <3> QED
      BY Sizes, <3>4, MultipleIsAligned
  <2> QED
    BY <2>4, <2>6, <2>7
<1> QED
  BY <1>1, Invariant, PTL

LEMMA OnlyAllocateBlockTakesMemory ==
  ASSUME [Next]_vars, NEW b \in heap' \ heap
  PROVE  \E p \in Pools, a \in Slots : \E e : AllocateBlock(p, a, e)
<1>1. ASSUME NEW p \in Pools, NEW a, NEW e, Allocate(p, a, e), a \in Slots
      PROVE  AllocateBlock(p, a, e)
  BY <1>1 DEF Allocate, AllocateFree, AllocateNext
<1>2. ASSUME NEW p \in Pools
      PROVE  /\ ~Construct(p) /\ ~Destroy(p) /\ \A q \in Pools : ~MoveConstruct(p, q)
             /\ \A a \in Slots : ~Deallocate(p, a)
  BY DEF Construct, Destroy, Delete, MoveConstruct, Deallocate
<1>3. ~UNCHANGED poolVars
  BY DEF poolVars
<1>4. ASSUME NEW s \in Stacks, StackStep(s)
      PROVE  \E a \in Slots : \E e : AllocateBlock(s, a, e)
  <2>1. s \in Pools
    BY StackConstants
  <2>2. ~NewStack(s) /\ ~EndClear(s) /\ \A caller : ~BeginClear(s, caller)
    BY <1>2, <1>3, <2>1 DEF NewStack, EndClear, BeginClear
  <2>3. ~TakeTop(s)
    <3>1. ~Deallocate(s, head_[s])
      BY DEF Deallocate
    <3> QED
      BY <3>1 DEF TakeTop
  <2>4. PICK v \in Values : Push(s, v)
    BY <1>4, <2>2, <2>3 DEF StackStep, Pop, ClearNode
  <2>5. PICK a \in Slots : Allocate(s, a, Node(v, head_[s]))
    BY <2>4 DEF Push
  <2> QED
    BY <1>1, <2>1, <2>5
<1>5. ASSUME NEW p \in Pools \ Stacks, DirectStep(p)
      PROVE  \E a \in Slots : \E e : AllocateBlock(p, a, e)
  <2>1. PICK a \in Slots : Allocate(p, a, Opaque)
    BY <1>2, <1>5 DEF DirectStep, NewElement, DeleteElement
  <2> QED
    BY <1>1, <2>1
<1> QED
  BY <1>3, <1>4, <1>5, StackConstants DEF Next, vars

(* allocate asks for another block only when its free list is empty and    *)
(* every slot of its blocks is in use.                                     *)
THEOREM NewBlocksOnlyWhenFull == Spec => NewBlockOnlyWhenFull
<1> DEFINE Full == \A b \in heap' \ heap : \A p \in Living : currentBlock_'[p] = b =>
                     \A c \in BlocksOf(p) :
                       \A i \in 0 .. BlockSize \div SlotSize :
                         Body + (i + 1) * SlotSize <= BlockSize =>
                           holder[At(c, Body + i * SlotSize)] = p
<1>1. IInv /\ [Next]_vars => [Full]_poolVars
  <2>1. SUFFICES ASSUME IInv, [Next]_vars, NEW b \in heap' \ heap, NEW p \in Living,
                        currentBlock_'[p] = b, NEW c \in BlocksOf(p),
                        NEW i \in 0 .. BlockSize \div SlotSize,
                        Body + (i + 1) * SlotSize <= BlockSize
                 PROVE  holder[At(c, Body + i * SlotSize)] = p
    OBVIOUS
  <2>2. PoolInv /\ p \in Pools
    BY <2>1 DEF IInv, Living
  <2>3. PICK q \in Pools, a \in Slots : \E e : AllocateBlock(q, a, e)
    BY <2>1, OnlyAllocateBlockTakesMemory
  <2>4. q = p
    <3>1. SUFFICES ASSUME q # p PROVE FALSE
      OBVIOUS
    <3>2. currentBlock_[p] = b
      BY <2>1, <2>2, <2>3, <3>1 DEF AllocateBlock, PoolInv, PoolTypeOK
    <3>3. b \in BlocksOf(p)
      BY <2>1, <2>2, <3>2, BlocksOfPool, NullIsNone DEF PoolInv, PoolTypeOK
    <3> QED
      BY <2>1, <2>2, <3>3, CarvedSlots
  <2>5. freeSlots_[p] = Null /\ BlockUsedUp(p)
    BY <2>3, <2>4 DEF AllocateBlock
  <2>6. Held(p) = Carved(p)
    <3>1. FreeList(p) = {}
      BY <2>5, SlotsAreFinite, NullIsNone, EmptyChain DEF FreeList
    <3> QED
      BY <2>2, <3>1 DEF PoolInv, PoolIsWhole
  <2>7. c \in Blocks /\ i \in Nat
    <3>1. heap \subseteq Blocks /\ BlocksOf(p) \subseteq heap
      BY <2>1, <2>2, CarvedSlots DEF PoolInv, PoolTypeOK
    <3> QED
      BY <2>1, <3>1, Sizes, Division
  <2> DEFINE x == At(c, Body + i * SlotSize)
  <2>8. x \in Slots
    BY <2>1, <2>7, SlotsAre
  <2>9. x.block = c /\ x.offset = Body + i * SlotSize
    BY DEF At
  <2> HIDE DEF x
  <2>10. x.offset + SlotSize <= BlockSize
    <3>1. Body + (i + 1) * SlotSize = Body + i * SlotSize + SlotSize
      BY <2>7, Sizes, FirstSlot
    <3> QED
      BY <2>1, <2>9, <3>1
  <2>11. x \in Carved(p)
    BY <2>1, <2>2, <2>5, <2>8, <2>9, <2>10, NothingLeft
  <2>12. holder[x] = p
    BY <2>6, <2>11 DEF Held
  <2> QED
    BY <2>12 DEF x
<1>2. NewBlockOnlyWhenFull <=> [][Full]_poolVars
  BY DEF NewBlockOnlyWhenFull
<1> HIDE DEF Full
<1> QED
  BY <1>1, <1>2, Invariant, PTL DEF Spec

(* What comes off a stack is what was pushed, in its order, although the   *)
(* nodes lie in slots that are handed out and given back in any order.     *)
THEOREM StacksHoldWhatWasPushed == Spec => []StackHoldsPushed
<1>1. IInv => StackHoldsPushed
  <2> DEFINE at(s) == Walk(head_[s], Prev, MaxDepth, Null)
             top(s, n) == pushed[s][Len(pushed[s]) - n]
  <2>1. ASSUME IInv, NEW s \in Stacks
        PROVE  /\ \A n \in 0 .. Len(pushed[s]) - 1 :
                    at(s)[n] # Null /\ NodeAt(at(s)[n]).data = top(s, n)
               /\ at(s)[Len(pushed[s])] = Null
    <3>1. PICK c \in Seq(Slots) :
            /\ IsChain(c, head_[s], Prev, Null)
            /\ Len(c) = Len(pushed[s]) /\ Len(c) <= MaxDepth
            /\ \A i \in 1 .. Len(c) :
                 holder[c[i]] = s /\ NodeAt(c[i]).data = pushed[s][Len(c) + 1 - i]
      BY <2>1 DEF IInv, NodesAreLinked
    <3>2. MaxDepth \in Nat /\ Len(c) \in Nat
      BY StackConstants
    <3>3. \A n \in 0 .. MaxDepth : at(s)[n] = IF n < Len(c) THEN c[n + 1] ELSE Null
      <4> DEFINE next == Prev
                 start == head_[s]
      <4>1. IsChain(c, start, next, Null) /\ Null \notin Slots
        BY <3>1, NullIsNone
      <4> HIDE DEF next, start
      <4>2. \A n \in 0 .. MaxDepth :
              Walk(start, next, MaxDepth, Null)[n] = IF n < Len(c) THEN c[n + 1] ELSE Null
        BY <3>2, <4>1, WalkThroughChain
      <4> QED
        BY <4>2 DEF next, start
    <3> HIDE DEF at
    <3>4. ASSUME NEW n \in 0 .. Len(c) - 1
          PROVE  at(s)[n] # Null /\ NodeAt(at(s)[n]).data = top(s, n)
      <4>1. n \in 0 .. MaxDepth /\ n < Len(c) /\ n + 1 \in 1 .. Len(c)
        BY <3>1, <3>2
      <4>2. at(s)[n] = c[n + 1] /\ c[n + 1] \in Slots
        BY <3>3, <4>1, ElementOfSeq
      <4>3. NodeAt(c[n + 1]).data = pushed[s][Len(c) + 1 - (n + 1)]
        BY <3>1, <4>1
      <4>4. Len(c) + 1 - (n + 1) = Len(pushed[s]) - n
        <5> DEFINE l == Len(c)
        <5>1. l \in Nat /\ n \in Int /\ Len(pushed[s]) = l
          BY <3>1, <3>2
        <5> HIDE DEF l
        <5>2. l + 1 - (n + 1) = l - n
          BY <5>1
        <5> QED
          BY <5>1, <5>2 DEF l
      <4> QED
        BY <4>2, <4>3, <4>4, NullIsNone
    <3>5. at(s)[Len(c)] = Null
      BY <3>1, <3>2, <3>3
    <3> QED
      BY <3>1, <3>4, <3>5
  <2> QED
    BY <2>1 DEF StackHoldsPushed, Prev
<1> QED
  BY <1>1, Invariant, PTL
=============================================================================
