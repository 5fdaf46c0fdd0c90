------------------------ MODULE PoolAllocatorProofs ------------------------
(***************************************************************************)
(* For every number of blocks, block size and set of released addresses:   *)
(* the free list stays a chain, and the allocator implements BlockPool.    *)
(***************************************************************************)
EXTENDS PoolAllocator, FiniteSetTheorems, TLAPS

USE PoolAssumption DEF Blocks, NullIdx, DetachedIdx, Codes

\* The inductive invariant.  FreeListIsChain is inductive once the variables
\* have their types; neither conjunct is inductive alone, because popping the
\* chain needs the type of free_list and size >= 0 needs the chain.
IInv == TypeOK /\ FreeListIsChain

\* A list of distinct blocks is no longer than the pool.
LEMMA ChainFits ==
  ASSUME NEW n \in Nat, NEW s \in [1 .. n -> Blocks],
         \A i, j \in 1 .. n : s[i] = s[j] => i = j
  PROVE  n <= size_max
  <1>1. IsFiniteSet(Blocks) /\ Cardinality(Blocks) = size_max
    BY FS_Interval
  <1>2. IsFiniteSet(1 .. n) /\ Cardinality(1 .. n) = n
    BY FS_Interval
  <1> SUFFICES ASSUME size_max < n PROVE FALSE
    OBVIOUS
  <1>3. \E i, j \in 1 .. n : i # j /\ s[i] = s[j]
    BY <1>1, <1>2, FS_PigeonHole
  <1> QED BY <1>3

\* A release that succeeds names a block, by its first byte, that is out.
LEMMA SuccessfulRelease ==
  ASSUME NEW offset \in Int, TypeOK, ReleaseResult(offset) = "Success"
  PROVE  LET idx == offset \div item_size IN
           /\ idx \in Blocks
           /\ free_list[idx] = DetachedIdx
           /\ offset = idx * item_size
  <1> DEFINE idx == offset \div item_size
  <1>1. offset % item_size = 0 /\ idx \in Int
    BY DEF ReleaseResult
  <1>2. offset = idx * item_size
    BY <1>1
  <1>3. idx \in Blocks /\ free_list[idx] = DetachedIdx
    BY <1>1 DEF ReleaseResult
  <1> QED BY <1>2, <1>3

LEMMA InitIInv == PoolAllocator_init => IInv
  <1> SUFFICES ASSUME PoolAllocator_init PROVE IInv
    OBVIOUS
  <1>1. TypeOK
    BY DEF PoolAllocator_init, TypeOK
  <1>2. FreeListIsChain
    <2> DEFINE s == [i \in 1 .. size |-> i - 1]
    <2>1. s \in [1 .. size -> Blocks]
      BY DEF PoolAllocator_init
    <2>2. \A b \in Blocks : s[b + 1] = b /\ b + 1 \in 1 .. size
      BY DEF PoolAllocator_init
    <2>3. \A i \in 1 .. size :
            free_list[s[i]] = IF i = size THEN NullIdx ELSE s[i + 1]
      BY DEF PoolAllocator_init
    <2>4. \A b \in Blocks :
            /\ free_list[b] # DetachedIdx
            /\ \E i \in 1 .. size : s[i] = b
      <3> TAKE b \in Blocks
      <3>1. free_list[b] # DetachedIdx
        BY DEF PoolAllocator_init
      <3> QED BY <3>1, <2>2
    <2>5. first_idx = (IF size = 0 THEN NullIdx ELSE s[1])
      BY DEF PoolAllocator_init
    <2>6. \A i, j \in 1 .. size : s[i] = s[j] => i = j
      OBVIOUS
    <2>7. IsChain(s)
      BY <2>3, <2>4, <2>5, <2>6 DEF IsChain
    <2> QED BY <2>1, <2>7 DEF FreeListIsChain
  <1> QED BY <1>1, <1>2 DEF IInv

\* Taking the head off the chain leaves its tail.
LEMMA PopFrontChain ==
  ASSUME IInv, ~Exhausted, PopFront
  PROVE  /\ FreeListIsChain'
         /\ size \in 1 .. size_max
         /\ first_idx' \in Blocks \cup {NullIdx}
  <1> PICK s \in [1 .. size -> Blocks] : IsChain(s)
    BY DEF IInv, FreeListIsChain
  <1> USE DEF IInv, TypeOK, PopFront, Exhausted
  <1>1. size \in 1 .. size_max /\ s[1] = first_idx
    BY DEF IsChain
  <1> PICK t : t = [i \in 1 .. size - 1 |-> s[i + 1]]
    OBVIOUS
  <1>2. t \in [1 .. size' -> Blocks]
    BY <1>1
  <1>3. \A i \in 1 .. size - 1 : t[i] # first_idx
    BY <1>1 DEF IsChain
  <1>4. first_idx' = IF size' = 0 THEN NullIdx ELSE t[1]
    BY <1>1 DEF IsChain
  <1>5. \A i, j \in 1 .. size' : t[i] = t[j] => i = j
    BY <1>1 DEF IsChain
  <1>6. \A i \in 1 .. size' :
          free_list'[t[i]] = IF i = size' THEN NullIdx ELSE t[i + 1]
    <2> TAKE i \in 1 .. size'
    <2>1. free_list'[t[i]] = free_list[s[i + 1]]
      BY <1>1, <1>2, <1>3
    <2>2. free_list[s[i + 1]] = IF i + 1 = size THEN NullIdx ELSE s[i + 2]
      BY <1>1 DEF IsChain
    <2> QED BY <2>1, <2>2, <1>1
  <1>7. \A b \in Blocks :
          free_list'[b] # DetachedIdx <=> \E i \in 1 .. size' : t[i] = b
    <2> TAKE b \in Blocks
    <2>1. CASE b = first_idx
      BY <2>1, <1>1, <1>3
    <2>2. CASE b # first_idx
      <3>1. free_list'[b] = free_list[b]
        BY <2>2
      <3>2. (\E i \in 1 .. size : s[i] = b) <=> \E i \in 1 .. size - 1 : t[i] = b
        <4>1. ASSUME NEW i \in 1 .. size, s[i] = b
              PROVE  \E k \in 1 .. size - 1 : t[k] = b
          <5>1. i - 1 \in 1 .. size - 1
            BY <4>1, <2>2, <1>1
          <5>2. t[i - 1] = b
            BY <5>1, <4>1
          <5> QED BY <5>1, <5>2
        <4> QED BY <4>1
      <3> QED BY <3>1, <3>2 DEF IsChain
    <2> QED BY <2>1, <2>2
  <1>8. IsChain(t)'
    BY <1>4, <1>5, <1>6, <1>7 DEF IsChain
  <1>9. FreeListIsChain'
    BY <1>2, <1>8 DEF FreeListIsChain
  <1>10. first_idx' \in Blocks \cup {NullIdx}
    BY <1>4, <1>2, <1>1
  <1> QED BY <1>1, <1>9, <1>10

\* Putting a detached block in front of the chain makes a longer chain; there
\* is room for it because the chain misses at least that block.
LEMMA LinkFrontChain ==
  ASSUME IInv, NEW idx \in Blocks, free_list[idx] = DetachedIdx, LinkFront(idx)
  PROVE  FreeListIsChain' /\ size' \in 0 .. size_max
  <1> PICK s \in [1 .. size -> Blocks] : IsChain(s)
    BY DEF IInv, FreeListIsChain
  <1> USE DEF IInv, TypeOK, LinkFront
  <1> PICK t : t = [i \in 1 .. size + 1 |-> IF i = 1 THEN idx ELSE s[i - 1]]
    OBVIOUS
  <1>1. t \in [1 .. size' -> Blocks]
    OBVIOUS
  <1>2. \A i \in 1 .. size : s[i] # idx
    BY DEF IsChain
  <1>3. \A i, j \in 1 .. size' : t[i] = t[j] => i = j
    BY <1>2 DEF IsChain
  <1>4. \A i \in 1 .. size' :
          free_list'[t[i]] = IF i = size' THEN NullIdx ELSE t[i + 1]
    <2> TAKE i \in 1 .. size'
    <2>1. CASE i = 1
      BY <2>1 DEF IsChain
    <2>2. CASE i # 1
      <3>1. free_list'[t[i]] = free_list[s[i - 1]]
        BY <2>2, <1>2, <1>1
      <3>2. free_list[s[i - 1]] = IF i - 1 = size THEN NullIdx ELSE s[i]
        BY <2>2 DEF IsChain
      <3> QED BY <3>1, <3>2, <2>2
    <2> QED BY <2>1, <2>2
  <1>5. \A b \in Blocks :
          free_list'[b] # DetachedIdx <=> \E i \in 1 .. size' : t[i] = b
    <2> TAKE b \in Blocks
    <2>1. CASE b = idx
      <3>1. t[1] = b /\ 1 \in 1 .. size'
        BY <2>1
      <3>2. free_list'[b] # DetachedIdx
        BY <2>1
      <3> QED BY <3>1, <3>2
    <2>2. CASE b # idx
      <3>1. free_list'[b] = free_list[b]
        BY <2>2
      <3>2. ASSUME NEW i \in 1 .. size, s[i] = b
            PROVE  \E k \in 1 .. size' : t[k] = b
        <4>1. i + 1 \in 1 .. size' /\ t[i + 1] = b
          BY <3>2
        <4> QED BY <4>1
      <3>3. ASSUME NEW k \in 1 .. size', t[k] = b
            PROVE  \E i \in 1 .. size : s[i] = b
        <4>1. k - 1 \in 1 .. size /\ s[k - 1] = b
          BY <3>3, <2>2
        <4> QED BY <4>1
      <3> QED BY <3>1, <3>2, <3>3 DEF IsChain
    <2> QED BY <2>1, <2>2
  <1>6. first_idx' = IF size' = 0 THEN NullIdx ELSE t[1]
    OBVIOUS
  <1>7. IsChain(t)'
    BY <1>3, <1>4, <1>5, <1>6 DEF IsChain
  <1>8. size' \in 0 .. size_max
    <2>1. PICK n \in Nat : n = size'
      OBVIOUS
    <2>2. t \in [1 .. n -> Blocks] /\ \A i, j \in 1 .. n : t[i] = t[j] => i = j
      BY <2>1, <1>1, <1>3
    <2>3. n <= size_max
      BY <2>2, ChainFits
    <2> QED BY <2>1, <2>3
  <1> QED BY <1>1, <1>7, <1>8 DEF FreeListIsChain

\* A step that leaves the chain's variables alone leaves it a chain.
LEMMA ChainUntouched ==
  ASSUME FreeListIsChain, UNCHANGED <<free_list, first_idx, size>>
  PROVE  FreeListIsChain'
  <1> PICK s \in [1 .. size -> Blocks] : IsChain(s)
    BY DEF FreeListIsChain
  <1>1. IsChain(s)'
    BY DEF IsChain
  <1>2. s \in [1 .. size' -> Blocks]
    OBVIOUS
  <1> QED BY <1>1, <1>2 DEF FreeListIsChain

LEMMA NextIInv == IInv /\ [Next]_vars => IInv'
  <1> SUFFICES ASSUME IInv, [Next]_vars PROVE IInv'
    OBVIOUS
  <1>1. CASE PoolAllocator_getBlock
    <2>1. CASE Exhausted
      BY <1>1, <2>1 DEF PoolAllocator_getBlock, IInv, TypeOK, FreeListIsChain,
                        IsChain, Exhausted, PopFront
    <2>2. CASE ~Exhausted
      <3>1. PopFront /\ UNCHANGED code
        BY <1>1, <2>2 DEF PoolAllocator_getBlock
      <3>2. /\ FreeListIsChain'
            /\ size \in 1 .. size_max
            /\ first_idx' \in Blocks \cup {NullIdx}
        BY <3>1, <2>2, PopFrontChain
      <3>3. TypeOK'
        BY <3>1, <3>2, <2>2 DEF IInv, TypeOK, PopFront, Exhausted
      <3> QED BY <3>2, <3>3 DEF IInv
    <2> QED BY <2>1, <2>2
  <1>2. ASSUME NEW offset \in Offsets, PoolAllocator_releaseBlock(offset)
        PROVE  IInv'
    <2>1. CASE code' = "Success"
      <3> DEFINE idx == offset \div item_size
      <3>1. LinkFront(idx) /\ ReleaseResult(offset) = "Success" /\ UNCHANGED got
        BY <1>2, <2>1 DEF PoolAllocator_releaseBlock
      <3>2. idx \in Blocks /\ free_list[idx] = DetachedIdx
        BY <3>1, SuccessfulRelease DEF IInv
      <3>3. FreeListIsChain' /\ size' \in 0 .. size_max
        BY <3>1, <3>2, LinkFrontChain
      <3>4. TypeOK'
        BY <3>1, <3>2, <3>3, <2>1 DEF IInv, TypeOK, LinkFront
      <3> QED BY <3>3, <3>4 DEF IInv
    <2>2. CASE code' # "Success"
      <3>1. code' \in Codes
        BY <1>2 DEF PoolAllocator_releaseBlock, ReleaseResult
      <3>2. UNCHANGED <<free_list, first_idx, size, got>>
        BY <1>2, <2>2 DEF PoolAllocator_releaseBlock
      <3>3. TypeOK'
        BY <3>1, <3>2 DEF IInv, TypeOK
      <3>4. FreeListIsChain'
        BY <3>2, ChainUntouched DEF IInv
      <3> QED BY <3>3, <3>4 DEF IInv
    <2> QED BY <2>1, <2>2
  <1>3. CASE UNCHANGED vars
    <2>1. TypeOK'
      BY <1>3 DEF vars, IInv, TypeOK
    <2>2. FreeListIsChain'
      BY <1>3, ChainUntouched DEF vars, IInv
    <2> QED BY <2>1, <2>2 DEF IInv
  <1> QED BY <1>1, <1>2, <1>3 DEF Next

(* After any sequence of calls the bookkeeping fields have their types: in
   particular size never leaves 0 .. size_max, double releases included. *)
THEOREM PoolTypeCorrect == Spec => []TypeOK
  <1>1. IInv => TypeOK
    BY DEF IInv
  <1> QED BY InitIInv, NextIInv, <1>1, PTL DEF Spec

(* The free list of pool_allocator.c is at all times one acyclic chain through
   exactly the blocks that are not handed out. *)
THEOREM PoolFreeListIsChain == Spec => []FreeListIsChain
  <1>1. IInv => FreeListIsChain
    BY DEF IInv
  <1> QED BY InitIInv, NextIInv, <1>1, PTL DEF Spec

\* The chain is empty exactly when no block is free.
LEMMA ExhaustedMeansNoneFree ==
  ASSUME IInv PROVE Exhausted <=> FreeBlocks = {}
  <1> PICK s \in [1 .. size -> Blocks] : IsChain(s)
    BY DEF IInv, FreeListIsChain
  <1>1. Exhausted <=> size = 0
    BY DEF IsChain, Exhausted, IInv, TypeOK
  <1>2. size = 0 => FreeBlocks = {}
    BY DEF IsChain, FreeBlocks
  <1>3. size # 0 => s[1] \in FreeBlocks
    BY DEF IsChain, FreeBlocks, IInv, TypeOK
  <1> QED BY <1>1, <1>2, <1>3

\* Every step of the allocator is a step of the abstract pool.
LEMMA StepRefines ==
  IInv /\ [Next]_vars => [Abstract!Next]_<<FreeBlocks, got, code>>
  <1> SUFFICES ASSUME IInv, [Next]_vars
               PROVE  [Abstract!Next]_<<FreeBlocks, got, code>>
    OBVIOUS
  <1>1. CASE PoolAllocator_getBlock
    <2>1. CASE Exhausted
      <3>1. FreeBlocks = {} /\ FreeBlocks' = FreeBlocks /\ got' = -1
        BY <1>1, <2>1, ExhaustedMeansNoneFree
           DEF PoolAllocator_getBlock, FreeBlocks, Exhausted, PopFront
      <3> QED BY <3>1, <1>1 DEF Abstract!Next, Abstract!Get, PoolAllocator_getBlock
    <2>2. CASE ~Exhausted
      <3>1. PopFront /\ UNCHANGED code
        BY <1>1, <2>2 DEF PoolAllocator_getBlock
      <3>2. first_idx \in FreeBlocks
        <4> PICK s \in [1 .. size -> Blocks] : IsChain(s)
          BY DEF IInv, FreeListIsChain
        <4> QED BY <2>2 DEF IsChain, Exhausted, FreeBlocks, IInv, TypeOK
      <3>3. FreeBlocks' = FreeBlocks \ {first_idx}
        BY <3>1, <3>2 DEF FreeBlocks, PopFront, IInv, TypeOK
      <3> QED BY <3>1, <3>2, <3>3 DEF Abstract!Next, Abstract!Get, PopFront
    <2> QED BY <2>1, <2>2
  <1>2. ASSUME NEW offset \in Offsets, PoolAllocator_releaseBlock(offset)
        PROVE  Abstract!Release(offset)
    <2> DEFINE idx == offset \div item_size
    <2>1. CASE code' = "Success"
      <3>1. LinkFront(idx) /\ ReleaseResult(offset) = "Success" /\ UNCHANGED got
        BY <1>2, <2>1 DEF PoolAllocator_releaseBlock
      <3>2. idx \in Blocks /\ free_list[idx] = DetachedIdx
            /\ offset = idx * item_size
        BY <3>1, SuccessfulRelease DEF IInv
      <3>3. first_idx # DetachedIdx
        BY DEF IInv, TypeOK
      <3>4. FreeBlocks' = FreeBlocks \cup {idx} /\ idx \notin FreeBlocks
        BY <3>1, <3>2, <3>3 DEF FreeBlocks, LinkFront, IInv, TypeOK
      <3> QED BY <3>1, <3>2, <3>4, <2>1 DEF Abstract!Release
    <2>2. CASE code' # "Success"
      <3>1. /\ ReleaseResult(offset) # "Success"
            /\ code' = ReleaseResult(offset)
            /\ UNCHANGED <<free_list, got>>
        BY <1>2, <2>2 DEF PoolAllocator_releaseBlock
      <3>2. code' \in {"UnalignedFree", "OutOfRange", "DoubleFree"}
        BY <3>1 DEF ReleaseResult
      <3>3. ASSUME NEW b \in Blocks \ FreeBlocks, offset = b * item_size
            PROVE  FALSE
        <4>1. offset % item_size = 0 /\ idx = b
          BY <3>3
        <4> QED BY <4>1, <3>1, <3>3 DEF ReleaseResult, FreeBlocks
      <3> QED BY <3>1, <3>2, <3>3 DEF Abstract!Release, FreeBlocks
    <2> QED BY <2>1, <2>2
  <1>3. CASE UNCHANGED vars
    BY <1>3 DEF vars, FreeBlocks
  <1> QED BY <1>1, <1>2, <1>3 DEF Next, Abstract!Next

(* pool_allocator.c implements the abstract pool of BlockPool: no block is
   handed out twice, none is lost, and the sanity checks of releaseBlock refuse
   exactly the addresses that are not handed-out blocks. *)
THEOREM PoolImplementsBlockPool == Spec => ImplementsBlockPool
  <1>1. PoolAllocator_init => Abstract!Init
    <2> SUFFICES ASSUME PoolAllocator_init PROVE Abstract!Init
      OBVIOUS
    <2>1. \A b \in Blocks : free_list[b] # DetachedIdx
      BY DEF PoolAllocator_init
    <2>2. FreeBlocks = 0 .. size_max - 1
      BY <2>1 DEF FreeBlocks
    <2> QED BY <2>2 DEF PoolAllocator_init, Abstract!Init
  <1> QED BY InitIInv, NextIInv, StepRefines, <1>1, PTL
          DEF Spec, ImplementsBlockPool, Abstract!Spec
=============================================================================
