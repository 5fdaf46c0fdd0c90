---------------------------- MODULE AtomicCounter ----------------------------
(***************************************************************************)
(* What the semaphore test of disastrOS_test.c promises of totalOK: it     *)
(* counts the children, one by one, and each of them in the end.           *)
(***************************************************************************)
EXTENDS Integers

VARIABLES total, remaining  \* the count, and the children yet to be counted

Init == total = 0 /\ remaining \in Nat

Count ==
  /\ remaining > 0
  /\ total' = total + 1
  /\ remaining' = remaining - 1

CountsOneByOne == Init /\ [][Count]_<<total, remaining>>

Spec == CountsOneByOne /\ WF_<<total, remaining>>(Count)
=============================================================================
