----------------------------- MODULE IOMemory ------------------------------
(***************************************************************************)
(* The I/O memory of Server (src/server/Server.cpp): one 4096-byte buffer  *)
(* with an in-use flag and a mutex for each worker thread of the pool.     *)
(* RequestMemory and ReturnMemory walk the slots and hold the mutex of one *)
(* slot at a time, so a walk is one step per slot and any number of other  *)
(* walks can happen in between.                                            *)
(***************************************************************************)
EXTENDS Integers, FiniteSets

CONSTANT Workers  (* the pool's worker threads: the only callers           *)

ASSUME IOMemoryAssumption == IsFiniteSet(Workers)

(* nullptr, and the slot number of no buffer *)
NoSlot == -1

NumSlots == Cardinality(Workers)

Slots == 0 .. NumSlots - 1

VARIABLES
  in_use,  (* m_IOMemory[i].first                                          *)
  buffer,  (* m_IOMemory[i].second: the workers whose data it holds since  *)
           (* it was last blank                                            *)
  pc,      (* where each worker is in a task                               *)
  idx,     (* the loop variable i of the walk a worker is on               *)
  mem      (* the pointer a worker got from RequestMemory                  *)

vars == <<in_use, buffer, pc, idx, mem>>

(* The type of every variable. *)
TypeOK ==
  /\ in_use \in [Slots -> BOOLEAN]
  /\ buffer \in [Slots -> SUBSET Workers]
  /\ pc \in [Workers -> {"idle", "request", "own", "return", "null"}]
  /\ idx \in [Workers -> 0 .. NumSlots]
  /\ mem \in [Workers -> Slots \cup {NoSlot}]

Init ==
  /\ in_use = [i \in Slots |-> FALSE]
  /\ buffer = [i \in Slots |-> {}]
  /\ pc = [w \in Workers |-> "idle"]
  /\ idx = [w \in Workers |-> 0]
  /\ mem = [w \in Workers |-> NoSlot]

(***************************************************************************)
(* RequestMemory.                                                          *)
(***************************************************************************)
RequestMemory(w) ==
  /\ pc[w] = "idle"
  /\ pc' = [pc EXCEPT ![w] = "request"]
  /\ idx' = [idx EXCEPT ![w] = 0]
  /\ UNCHANGED <<in_use, buffer, mem>>

(* Seeded fault: the flag is tested and not set under the same lock. *)
NotMarked_Marked(i) == in_use

Marked(i) == [in_use EXCEPT ![i] = TRUE]

(* One iteration under the slot's mutex: pass a slot in use, take a free   *)
(* one; a walk that has passed them all returns nullptr.                   *)
RequestScan(w) ==
  LET i == idx[w] IN
  /\ pc[w] = "request"
  /\ IF i = NumSlots
       THEN /\ pc' = [pc EXCEPT ![w] = "null"]
            /\ UNCHANGED <<in_use, idx, mem>>
       ELSE IF in_use[i]
       THEN /\ idx' = [idx EXCEPT ![w] = i + 1]
            /\ UNCHANGED <<in_use, pc, mem>>
       ELSE /\ in_use' = Marked(i)
            /\ pc' = [pc EXCEPT ![w] = "own"]
            /\ mem' = [mem EXCEPT ![w] = i]
            /\ UNCHANGED idx
  /\ UNCHANGED buffer

(* What the task does with its buffer: recv into it, and parse it. *)
UseMemory(w) ==
  /\ pc[w] = "own"
  /\ buffer' = [buffer EXCEPT ![mem[w]] = @ \cup {w}]
  /\ UNCHANGED <<in_use, pc, idx, mem>>

(***************************************************************************)
(* ReturnMemory.                                                           *)
(***************************************************************************)
(* Seeded fault: the buffer goes back as it is. *)
Unwiped_Blanked(i) == buffer

Blanked(i) == [buffer EXCEPT ![i] = {}]

(* The buffer is blanked, under no lock, before the walk. *)
ReturnMemory(w) ==
  /\ pc[w] = "own"
  /\ buffer' = Blanked(mem[w])
  /\ pc' = [pc EXCEPT ![w] = "return"]
  /\ idx' = [idx EXCEPT ![w] = 0]
  /\ UNCHANGED <<in_use, mem>>

(* Seeded faults: the walk stops a slot early, or goes a slot too far. *)
Short_End == NumSlots - 1
Past_End == NumSlots + 1

(* Where ReturnMemory's walk stops. *)
End == NumSlots

(* Seeded fault: the walk clears every flag it passes. *)
All_Cleared(w, i) == [in_use EXCEPT ![i] = FALSE]

Cleared(w, i) == [in_use EXCEPT ![i] = @ /\ mem[w] # i]

(* One iteration under the slot's mutex; the walk goes on to the end after *)
(* it has found its slot, and the slot may be taken again behind it.       *)
ReturnScan(w) ==
  LET i == idx[w] IN
  /\ pc[w] = "return"
  /\ IF i < End
       THEN /\ in_use' = Cleared(w, i)
            /\ idx' = [idx EXCEPT ![w] = i + 1]
            /\ UNCHANGED <<pc, mem>>
       ELSE /\ pc' = [pc EXCEPT ![w] = "idle"]
            /\ mem' = [mem EXCEPT ![w] = NoSlot]
            /\ UNCHANGED <<in_use, idx>>
  /\ UNCHANGED buffer

Next ==
  \E w \in Workers :
    \/ RequestMemory(w) \/ RequestScan(w)
    \/ UseMemory(w)
    \/ ReturnMemory(w) \/ ReturnScan(w)

Spec == Init /\ [][Next]_vars

-----------------------------------------------------------------------------
(* The slot a worker has marked in use and not yet cleared. *)
Holding(w) ==
  IF pc[w] = "own" \/ (pc[w] = "return" /\ idx[w] <= mem[w]) THEN mem[w] ELSE NoSlot

(* How far a worker has pushed into the slots: to the slot its request is  *)
(* about to test, or to the one it holds.                                  *)
Pos(w) == IF pc[w] = "request" THEN idx[w] ELSE Holding(w)

Beyond(i) == {w \in Workers : Pos(w) >= i}

(* A walk never returns nullptr, which the caller would dereference        *)
(* (HttpServer.cpp:95-96), although other threads take slots in front of   *)
(* it and free slots behind it: a walk passes a slot only if somebody      *)
(* holds it, so each slot leaves one thread fewer to compete beyond it.    *)
NeverNull == \A w \in Workers : pc[w] # "null"

(* The counting argument for it. *)
FewerBeyond == \A i \in 0 .. NumSlots : Cardinality(Beyond(i)) <= NumSlots - i

(* Two threads never use one buffer, and a slot is marked in use as long   *)
(* as, and no longer than, somebody holds it: none leaks and none is taken *)
(* twice (Server.cpp:54-76).                                               *)
ExactlyTheHolders ==
  /\ \A i \in Slots : in_use[i] <=> \E w \in Workers : Holding(w) = i
  /\ \A v, w \in Workers : v # w /\ Holding(v) # NoSlot => Holding(v) # Holding(w)

(* Nobody sees bytes of another request: a buffer holds its holder's data  *)
(* only, and a free one is blank (Server.cpp:69 precedes the walk).        *)
NoForeignData ==
  \A i \in Slots : \A d \in buffer[i] : pc[d] = "own" /\ mem[d] = i

BP == INSTANCE BufferPool
        WITH holds <- [w \in Workers |-> Holding(w)],
             content <- buffer,
             Data <- Workers

(* To its callers the I/O memory is a pool of blank, private buffers. *)
IsBufferPool == BP!Spec
=============================================================================
