---------------------------- MODULE PoolAllocator ----------------------------
(***************************************************************************)
(* pool_allocator.c: a pool of size_max blocks whose free blocks are       *)
(* chained through the integer array free_list, starting at first_idx.     *)
(* Every kernel object of disastrOS (PCB, timer, descriptor, semaphore,    *)
(* message queue, queue, message) comes from one such pool.                *)
(* An address is its offset in bytes from the start of the pool's buffer.  *)
(***************************************************************************)
EXTENDS Integers

CONSTANTS
  size_max,   \* num_items of PoolAllocator_init
  item_size,  \* bytes per block
  Offsets     \* the addresses callers may pass to PoolAllocator_releaseBlock

\* Every XXX_init() asserts that PoolAllocator_init found room for its items.
ASSUME PoolAssumption ==
  /\ size_max \in Nat \ {0}
  /\ item_size \in Nat \ {0}
  /\ Offsets \subseteq Int

VARIABLES
  free_list,  \* next free block, NullIdx at the end, DetachedIdx if handed out
  first_idx,  \* head of the free chain
  size,       \* number of free blocks
  got,        \* block returned by the last getBlock (NullIdx for a null pointer)
  code        \* result of the last releaseBlock

vars == <<free_list, first_idx, size, got, code>>

NullIdx == -1
DetachedIdx == -2
Blocks == 0 .. size_max - 1
Codes == {"Success", "UnalignedFree", "OutOfRange", "DoubleFree"}

TypeOK ==
  /\ free_list \in [Blocks -> Blocks \cup {NullIdx, DetachedIdx}]
  /\ first_idx \in Blocks \cup {NullIdx}
  /\ size \in 0 .. size_max
  /\ got \in Blocks \cup {NullIdx}
  /\ code \in Codes

PoolAllocator_init ==
  /\ free_list = [i \in Blocks |-> IF i = size_max - 1 THEN NullIdx ELSE i + 1]
  /\ first_idx = 0
  /\ size = size_max
  /\ got = NullIdx
  /\ code = "Success"

\* Slips the properties must catch: the check for a double release is dropped;
\* the rest of the chain is dropped when a block comes back; the pool counts as
\* empty while its last block is still free.
ReleaseResultUnchecked(offset) ==
  LET idx == offset \div item_size IN
  IF offset % item_size # 0 THEN "UnalignedFree"
  ELSE IF idx < 0 \/ idx >= size_max THEN "OutOfRange"
  ELSE "Success"

LinkFrontLosesTail(idx) ==
  /\ free_list' = [free_list EXCEPT ![idx] = NullIdx]
  /\ first_idx' = idx
  /\ size' = size + 1

ExhaustedTooSoon == size <= 1

\* The sanity checks of releaseBlock, in order.  C's offset%item_size is zero
\* exactly when TLA+'s is, and on such an offset both divisions are exact.
ReleaseResult(offset) ==
  LET idx == offset \div item_size IN
  IF offset % item_size # 0 THEN "UnalignedFree"
  ELSE IF idx < 0 \/ idx >= size_max THEN "OutOfRange"
  ELSE IF free_list[idx] # DetachedIdx THEN "DoubleFree"
  ELSE "Success"

Exhausted == first_idx = NullIdx

PopFront ==
  /\ got' = first_idx
  /\ first_idx' = free_list[first_idx]
  /\ size' = size - 1
  /\ free_list' = [free_list EXCEPT ![first_idx] = DetachedIdx]

LinkFront(idx) ==
  /\ free_list' = [free_list EXCEPT ![idx] = first_idx]
  /\ first_idx' = idx
  /\ size' = size + 1

PoolAllocator_getBlock ==
  /\ \/ Exhausted /\ got' = NullIdx /\ UNCHANGED <<free_list, first_idx, size>>
     \/ ~Exhausted /\ PopFront
  /\ UNCHANGED code

PoolAllocator_releaseBlock(offset) ==
  /\ code' = ReleaseResult(offset)
  /\ \/ code' = "Success" /\ LinkFront(offset \div item_size)
     \/ code' # "Success" /\ UNCHANGED <<free_list, first_idx, size>>
  /\ UNCHANGED got

Next ==
  \/ PoolAllocator_getBlock
  \/ \E offset \in Offsets : PoolAllocator_releaseBlock(offset)

Spec == PoolAllocator_init /\ [][Next]_vars
-----------------------------------------------------------------------------
\* s is the free chain: the blocks met from first_idx along free_list, each
\* once, ending in NullIdx, and exactly the blocks not marked detached.
IsChain(s) ==
  /\ \A i, j \in 1 .. size : s[i] = s[j] => i = j
  /\ first_idx = IF size = 0 THEN NullIdx ELSE s[1]
  /\ \A i \in 1 .. size :
       free_list[s[i]] = IF i = size THEN NullIdx ELSE s[i + 1]
  /\ \A b \in Blocks :
       free_list[b] # DetachedIdx <=> \E i \in 1 .. size : s[i] = b

(* The free list is one acyclic chain of exactly `size` blocks that reaches
   every free block and no handed-out one: after any sequence of getBlock and
   releaseBlock calls, erroneous releases included, no block is lost to the
   pool and none can be handed out twice. *)
FreeListIsChain == \E s \in [1 .. size -> Blocks] : IsChain(s)

FreeBlocks == {b \in Blocks : free_list[b] # DetachedIdx}

Abstract == INSTANCE BlockPool WITH free <- FreeBlocks

(* The array-and-chain allocator implements the abstract pool: getBlock fails
   only when no block is free and hands out a free one otherwise; releaseBlock
   succeeds exactly on the address of a handed-out block and otherwise changes
   nothing. *)
ImplementsBlockPool == Abstract!Spec
=============================================================================
