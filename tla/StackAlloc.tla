----------------------------- MODULE StackAlloc ----------------------------
(***************************************************************************)
(* StackAlloc<T, MemoryPool<T>> (src/memorypool/StackAlloc.h): stacks      *)
(* whose nodes are elements of a pool of their own, beside pools that are  *)
(* used directly, on the same heap.  `pushed` is history: what is on a     *)
(* stack by the calls made.                                                *)
(***************************************************************************)
EXTENDS MemoryPool

CONSTANTS
  Stacks,    (* the pools that are the allocator_ of a stack               *)
  Values,    (* what is pushed                                             *)
  MaxDepth,  (* bound: elements on a stack                                 *)
  Opaque     (* an element of a pool that is used directly                 *)

Node(value, prev) == [data |-> value, prev |-> prev]

ASSUME StackAllocAssumption ==
  /\ Stacks \subseteq Pools /\ MaxDepth \in Nat
  /\ Opaque \in Elements
  /\ \A v \in Values, a \in Slots \cup {Null} : Node(v, a) \in Elements

VARIABLES
  head_,     (* of each stack                                              *)
  clearing,  (* who clears it: "no" one, a "user", its "destructor"        *)
  pushed     (* history                                                    *)

vars == <<poolVars, head_, clearing, pushed>>
stackVars == <<head_, clearing, pushed>>

(* The node at a pointer. *)
NodeAt(a) == memory[a].element

StackInit ==
  /\ Init
  /\ head_ = [s \in Stacks |-> Null]
  /\ clearing = [s \in Stacks |-> "no"]
  /\ pushed = [s \in Stacks |-> <<>>]

(* StackAlloc::StackAlloc *)
NewStack(s) ==
  /\ Construct(s)
  /\ head_' = [head_ EXCEPT ![s] = Null]
  /\ clearing' = [clearing EXCEPT ![s] = "no"]
  /\ UNCHANGED pushed

Push(s, v) ==
  /\ clearing[s] = "no" /\ Len(pushed[s]) < MaxDepth
  /\ \E a \in Slots :
       /\ Allocate(s, a, Node(v, head_[s]))
       /\ head_' = [head_ EXCEPT ![s] = a]
  /\ pushed' = [pushed EXCEPT ![s] = Append(@, v)]
  /\ UNCHANGED clearing

(* Seeded fault: prev is read when the slot is already in the pool's list. *)
Late_Below(s) == memory'[head_[s]].next

Below(s) == NodeAt(head_[s]).prev

(* prev is read, the node given back, and head_ set to what was read. *)
TakeTop(s) ==
  /\ state[s] = "alive" /\ head_[s] # Null
  /\ Deallocate(s, head_[s])
  /\ head_' = [head_ EXCEPT ![s] = Below(s)]
  /\ pushed' = [pushed EXCEPT ![s] = SubSeq(@, 1, Len(@) - 1)]
  /\ UNCHANGED clearing

(* Callers test empty() first. *)
Pop(s) == clearing[s] = "no" /\ TakeTop(s)

(* clear, called by a user or by the destructor: the top is taken until    *)
(* there is none, and a destructor goes on to the pool's.                  *)
BeginClear(s, caller) ==
  /\ state[s] = "alive" /\ clearing[s] = "no"
  /\ clearing' = [clearing EXCEPT ![s] = caller]
  /\ UNCHANGED <<poolVars, head_, pushed>>

ClearNode(s) == clearing[s] # "no" /\ TakeTop(s)

EndClear(s) ==
  /\ clearing[s] # "no" /\ head_[s] = Null
  /\ clearing' = [clearing EXCEPT ![s] = "no"]
  /\ IF clearing[s] = "destructor" THEN Destroy(s) ELSE UNCHANGED poolVars
  /\ UNCHANGED <<head_, pushed>>

StackStep(s) ==
  \/ NewStack(s) \/ Pop(s) \/ ClearNode(s) \/ EndClear(s)
  \/ \E v \in Values : Push(s, v)
  \/ \E caller \in {"user", "destructor"} : BeginClear(s, caller)

(***************************************************************************)
(* Pools that are used directly.                                           *)
(***************************************************************************)
NewElement(p) == \E a \in Slots : Allocate(p, a, Opaque) /\ UNCHANGED stackVars

DeleteElement(p) == \E a \in Slots : Deallocate(p, a) /\ UNCHANGED stackVars

DirectStep(p) ==
  \/ NewElement(p) \/ DeleteElement(p)
  \/ (Construct(p) \/ Destroy(p)) /\ UNCHANGED stackVars
  \/ \E q \in Pools \ Stacks : MoveConstruct(p, q) /\ UNCHANGED stackVars

Next ==
  (\E s \in Stacks : StackStep(s)) \/ (\E p \in Pools \ Stacks : DirectStep(p))

Spec == StackInit /\ [][Next]_vars

-----------------------------------------------------------------------------
(* The type of every variable. *)
TypeOK ==
  /\ PoolTypeOK
  /\ head_ \in [Stacks -> Slots \cup {Null}]
  /\ clearing \in [Stacks -> {"no", "user", "destructor"}]
  /\ pushed \in [Stacks -> Seq(Values)]

(* What a stack holds, from its top down, is what was pushed and not       *)
(* popped, although nodes share their bytes with the pool's list and come  *)
(* back in any order.                                                      *)
StackHoldsPushed ==
  \A s \in Stacks :
    LET at == Walk(head_[s], [a \in Slots |-> NodeAt(a).prev], MaxDepth, Null)
        top(n) == pushed[s][Len(pushed[s]) - n]
    IN state[s] = "alive" =>
         /\ \A n \in 0 .. Len(pushed[s]) - 1 :
              at[n] # Null /\ NodeAt(at[n]).data = top(n)
         /\ at[Len(pushed[s])] = Null
=============================================================================
