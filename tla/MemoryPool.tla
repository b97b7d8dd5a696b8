----------------------------- MODULE MemoryPool ----------------------------
(***************************************************************************)
(* MemoryPool<T> (src/memorypool/MemoryPool.{h,tcc}): pools that carve     *)
(* slots from blocks and keep the slots that come back in a list, on one   *)
(* heap.  A pointer is a block and an offset in it, in bytes.              *)
(*                                                                         *)
(* allocate ignores its n and gives out one slot; here it is asked for one *)
(* element.  (Server.cpp:12 asks for 4096 chars.)                          *)
(* operator=(MemoryPool&&) names a member that does not exist              *)
(* (MemoryPool.tcc:90), so that no program can instantiate it.             *)
(***************************************************************************)
EXTENDS Lists

CONSTANTS
  Pools,        (* objects of the class, over time                         *)
  Blocks,       (* bound: what operator new can return                     *)
  BlockSize,    (* 4096 in the code                                        *)
  SlotSize,     (* sizeof(slot_type_)                                      *)
  SlotAlign,    (* alignof(slot_type_)                                     *)
  PointerSize,  (* sizeof(slot_pointer_)                                   *)
  Elements,     (* what a T may hold                                       *)
  Null          (* nullptr                                                 *)

ASSUME MemoryPoolAssumption ==
  /\ {BlockSize, SlotSize, SlotAlign, PointerSize} \subseteq Nat \ {0}
  /\ BlockSize >= 2 * SlotSize     (* the static_assert *)
  /\ SlotSize >= PointerSize       (* Slot_ is a union with a pointer *)
  /\ SlotSize % SlotAlign = 0
  /\ IsFiniteSet(Blocks)

VARIABLES
  state,         (* of a pool: "none", "alive", or "moved" (from)          *)
  currentBlock_, currentSlot_, lastSlot_, freeSlots_,
  heap,          (* blocks that operator new has handed out                *)
  previous,      (* the pointer at the start of a block                    *)
  memory,        (* what a slot holds: an element or a free slot's next    *)
  holder         (* history: the pool an element in use was allocated by,  *)
                 (* or that took it over                                   *)

members == <<currentBlock_, currentSlot_, lastSlot_, freeSlots_>>
poolVars == <<state, members, heap, previous, memory, holder>>

At(b, offset) == [block |-> b, offset |-> offset]

(* Seeded fault: the slots are not aligned. *)
Unaligned_Body == PointerSize

(* The first slot of a block: after the pointer, padded. *)
Body == PointerSize + ((SlotAlign - (PointerSize % SlotAlign)) % SlotAlign)

(* Seeded fault: without the + 1 that the comment at line 145 doubts. *)
NoPlus_LastSlot == BlockSize - SlotSize

(* One byte behind the last slot's start. *)
LastSlot == BlockSize - SlotSize + 1

(* Every address that a slot can have. *)
Slots ==
  {At(b, Body + i * SlotSize) : b \in Blocks, i \in 0 .. BlockSize \div SlotSize}
Addresses == {At(b, i) : b \in Blocks, i \in 0 .. BlockSize + SlotSize}

ASSUME NullIsNothing == Null \notin Blocks \cup Pools \cup Slots \cup Addresses

Pointers == Addresses \cup {Null}

Free(next) == [next |-> next]
Element(e) == [element |-> e]

InUse == {a \in Slots : holder[a] # Null}

-----------------------------------------------------------------------------
Init ==
  /\ state = [p \in Pools |-> "none"]
  /\ currentBlock_ = [p \in Pools |-> Null]
  /\ currentSlot_ = [p \in Pools |-> Null]
  /\ lastSlot_ = [p \in Pools |-> Null]
  /\ freeSlots_ = [p \in Pools |-> Null]
  /\ heap = {}
  /\ previous = [b \in Blocks |-> Null]
  /\ memory = [a \in Slots |-> Free(Null)]
  /\ holder = [a \in Slots |-> Null]

(* The default and the copying constructors: a copy shares nothing. *)
Construct(p) ==
  /\ state[p] = "none"
  /\ state' = [state EXCEPT ![p] = "alive"]
  /\ currentBlock_' = [currentBlock_ EXCEPT ![p] = Null]
  /\ currentSlot_' = [currentSlot_ EXCEPT ![p] = Null]
  /\ lastSlot_' = [lastSlot_ EXCEPT ![p] = Null]
  /\ freeSlots_' = [freeSlots_ EXCEPT ![p] = Null]
  /\ UNCHANGED <<heap, previous, memory, holder>>

(* Seeded fault: the old pool keeps the blocks as well. *)
Shared_BlocksMoved(p, q) == [currentBlock_ EXCEPT ![p] = currentBlock_[q]]

BlocksMoved(p, q) == [currentBlock_ EXCEPT ![p] = currentBlock_[q], ![q] = Null]

(* The moving constructor.  q keeps its slot pointers: it may only be      *)
(* destroyed from now on, which is all that the program does with it.      *)
MoveConstruct(p, q) ==
  /\ state[p] = "none" /\ state[q] = "alive"
  /\ state' = [state EXCEPT ![p] = "alive", ![q] = "moved"]
  /\ currentBlock_' = BlocksMoved(p, q)
  /\ currentSlot_' = [currentSlot_ EXCEPT ![p] = currentSlot_[q]]
  /\ lastSlot_' = [lastSlot_ EXCEPT ![p] = lastSlot_[q]]
  /\ freeSlots_' = [freeSlots_ EXCEPT ![p] = freeSlots_[q]]
  /\ holder' = [a \in Slots |-> IF holder[a] = q THEN p ELSE holder[a]]
  /\ UNCHANGED <<heap, previous, memory>>

(* What allocate gives out, with the element that is constructed there. *)
HandOut(p, a, e) ==
  /\ memory' = [memory EXCEPT ![a] = Element(e)]
  /\ holder' = [holder EXCEPT ![a] = p]

(* allocate, from the list. *)
AllocateFree(p, a, e) ==
  /\ state[p] = "alive"
  /\ freeSlots_[p] # Null
  /\ a = freeSlots_[p]
  /\ freeSlots_' = [freeSlots_ EXCEPT ![p] = memory[a].next]
  /\ HandOut(p, a, e)
  /\ UNCHANGED <<state, currentBlock_, currentSlot_, lastSlot_, heap, previous>>

(* Seeded fault: a pool's first block is taken to have no end. *)
Endless_BlockUsedUp(p) == currentSlot_[p] = Null

(* currentSlot_ >= lastSlot_; both are in one block, or nullptr. *)
BlockUsedUp(p) ==
  IF currentSlot_[p] = Null THEN TRUE
  ELSE currentSlot_[p].offset >= lastSlot_[p].offset

Behind(a) == At(a.block, a.offset + SlotSize)

(* allocate, from the current block. *)
AllocateNext(p, a, e) ==
  /\ state[p] = "alive"
  /\ freeSlots_[p] = Null /\ ~BlockUsedUp(p)
  /\ a = currentSlot_[p]
  /\ currentSlot_' = [currentSlot_ EXCEPT ![p] = Behind(a)]
  /\ HandOut(p, a, e)
  /\ UNCHANGED <<state, currentBlock_, lastSlot_, freeSlots_, heap, previous>>

(* allocate, from a new block: allocateBlock. *)
AllocateBlock(p, a, e) ==
  /\ state[p] = "alive"
  /\ freeSlots_[p] = Null /\ BlockUsedUp(p)
  /\ \E b \in Blocks \ heap :
       /\ heap' = heap \cup {b}
       /\ previous' = [previous EXCEPT ![b] = currentBlock_[p]]
       /\ currentBlock_' = [currentBlock_ EXCEPT ![p] = b]
       /\ lastSlot_' = [lastSlot_ EXCEPT ![p] = At(b, LastSlot)]
       /\ a = At(b, Body)
  /\ currentSlot_' = [currentSlot_ EXCEPT ![p] = Behind(a)]
  /\ HandOut(p, a, e)
  /\ UNCHANGED <<state, freeSlots_>>

Allocate(p, a, e) ==
  AllocateFree(p, a, e) \/ AllocateNext(p, a, e) \/ AllocateBlock(p, a, e)

(* Seeded fault: the slot is put in front without a link to the list. *)
Unlinked_Link(p) == Free(Null)

Link(p) == Free(freeSlots_[p])

(* deallocate: the list's link is written over the element. *)
Deallocate(p, a) ==
  /\ state[p] = "alive" /\ holder[a] = p
  /\ memory' = [memory EXCEPT ![a] = Link(p)]
  /\ freeSlots_' = [freeSlots_ EXCEPT ![p] = a]
  /\ holder' = [holder EXCEPT ![a] = Null]
  /\ UNCHANGED <<state, currentBlock_, currentSlot_, lastSlot_, heap, previous>>

(* The blocks from currentBlock_ on. *)
BlocksOf(p) == Linked(currentBlock_[p], previous, Blocks, Null)

(* Blocks that are deleted, and the members of a pool that is gone, hold   *)
(* nothing that can be read again; they are blank, as at first.            *)
Delete(p, blocks) ==
  /\ heap' = heap \ blocks
  /\ previous' = [b \in Blocks |-> IF b \in blocks THEN Null ELSE previous[b]]
  /\ memory' =
       [a \in Slots |-> IF a.block \in blocks THEN Free(Null) ELSE memory[a]]
  /\ currentBlock_' = [currentBlock_ EXCEPT ![p] = Null]
  /\ currentSlot_' = [currentSlot_ EXCEPT ![p] = Null]
  /\ lastSlot_' = [lastSlot_ EXCEPT ![p] = Null]
  /\ freeSlots_' = [freeSlots_ EXCEPT ![p] = Null]

(* The destructor, called when the elements have been given back. *)
Destroy(p) ==
  /\ state[p] \in {"alive", "moved"}
  /\ \A a \in Slots : holder[a] # p
  /\ state' = [state EXCEPT ![p] = "none"]
  /\ Delete(p, BlocksOf(p))
  /\ UNCHANGED holder

-----------------------------------------------------------------------------
(* The type of every variable. *)
PoolTypeOK ==
  /\ state \in [Pools -> {"none", "alive", "moved"}]
  /\ currentBlock_ \in [Pools -> Blocks \cup {Null}]
  /\ currentSlot_ \in [Pools -> Pointers]
  /\ lastSlot_ \in [Pools -> Pointers]
  /\ freeSlots_ \in [Pools -> Slots \cup {Null}]
  /\ heap \subseteq Blocks
  /\ previous \in [Blocks -> Blocks \cup {Null}]
  /\ memory \in [Slots -> [next : Slots \cup {Null}] \cup [element : Elements]]
  /\ holder \in [Slots -> Pools \cup {Null}]

Living == {p \in Pools : state[p] = "alive"}

(* The slots that a pool has carved from its blocks so far. *)
Carved(p) ==
  {a \in Slots : /\ a.block \in BlocksOf(p)
                 /\ a.offset + SlotSize <= BlockSize
                 /\ a.block = currentBlock_[p] =>
                      a.offset < currentSlot_[p].offset}

(* The list from freeSlots_ on. *)
NextFree ==
  [a \in Slots |-> IF "next" \in DOMAIN memory[a] THEN memory[a].next ELSE Null]

FreeList(p) == Linked(freeSlots_[p], NextFree, Slots, Null)

(* Every element lies inside a block that has not been deleted, behind the *)
(* block's own pointer and aligned, whatever the sizes.                    *)
ElementsInsideBlocks ==
  \A a \in InUse :
    /\ a.block \in heap
    /\ a.offset >= PointerSize /\ a.offset + SlotSize <= BlockSize
    /\ a.offset % SlotAlign = 0

(* A slot that a pool has carved is in use or in its list, one of the two, *)
(* and nothing else is in the list: no slot is handed out twice, none is   *)
(* lost, also after the pool has moved.                                    *)
EachSlotOnce ==
  \A p \in Living :
    LET held == {a \in Slots : holder[a] = p}
    IN /\ held \cap FreeList(p) = {}
       /\ held \cup FreeList(p) = Carved(p)

(* The heap is what the pools own, each block with one owner: a destructor *)
(* deletes its blocks, each of them once, and leaves no other.             *)
BlocksOwnedOnce ==
  /\ heap = UNION {BlocksOf(p) : p \in Living}
  /\ \A p, q \in Living : p # q => BlocksOf(p) \cap BlocksOf(q) = {}

(* A pool asks for another block only when no slot of its blocks is left:  *)
(* the bytes behind its last slot are too few for one more.                *)
NewBlockOnlyWhenFull ==
  [][\A b \in heap' \ heap : \A p \in Living : currentBlock_'[p] = b =>
       \A c \in BlocksOf(p) :
         \A i \in 0 .. BlockSize \div SlotSize :
           Body + (i + 1) * SlotSize <= BlockSize =>
             holder[At(c, Body + i * SlotSize)] = p]_poolVars
=============================================================================
