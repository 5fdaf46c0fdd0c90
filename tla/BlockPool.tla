------------------------------ MODULE BlockPool ------------------------------
(***************************************************************************)
(* What a pool of fixed-size blocks promises its callers, whatever the     *)
(* bookkeeping: a block that is handed out was free, the pool answers      *)
(* "no block" only when nothing is free, and a release succeeds exactly    *)
(* when it names a block that is handed out.                               *)
(***************************************************************************)
EXTENDS Integers

CONSTANTS
  size_max,   \* number of blocks
  item_size,  \* bytes per block
  Offsets     \* the addresses a caller may release, relative to the buffer

VARIABLES
  free,       \* the set of blocks that are not handed out
  got,        \* the answer of the last getBlock: a block, or -1 for "none"
  code        \* the answer of the last releaseBlock

Init ==
  /\ free = 0 .. size_max - 1
  /\ got = -1
  /\ code = "Success"

Get ==
  /\ \/ free = {} /\ got' = -1 /\ UNCHANGED free
     \/ \E b \in free : got' = b /\ free' = free \ {b}
  /\ UNCHANGED code

\* An address names the block b when it is the first byte of b.
Release(offset) ==
  /\ \/ \E b \in (0 .. size_max - 1) \ free :
          /\ offset = b * item_size
          /\ free' = free \cup {b}
          /\ code' = "Success"
     \/ /\ \A b \in (0 .. size_max - 1) \ free : offset # b * item_size
        /\ code' \in {"UnalignedFree", "OutOfRange", "DoubleFree"}
        /\ UNCHANGED free
  /\ UNCHANGED got

Next == Get \/ \E offset \in Offsets : Release(offset)

Spec == Init /\ [][Next]_<<free, got, code>>
=============================================================================
