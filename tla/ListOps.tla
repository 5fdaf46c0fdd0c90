------------------------------- MODULE ListOps -------------------------------
(***************************************************************************)
(* What a list of linked_list.c is to its callers: a finite sequence of    *)
(* items, each in it once.                                                 *)
(***************************************************************************)
EXTENDS Integers, Sequences

NULL == 0

Elements(s) == {s[i] : i \in 1 .. Len(s)}

Distinct(s) == \A i, j \in 1 .. Len(s) : s[i] = s[j] => i = j

\* s with x behind its first k elements
InsertAfter(s, k, x) ==
  [i \in 1 .. Len(s) + 1 |->
     IF i <= k THEN s[i] ELSE IF i = k + 1 THEN x ELSE s[i - 1]]

\* s without its k-th element
DetachAt(s, k) ==
  [i \in 1 .. Len(s) - 1 |-> IF i < k THEN s[i] ELSE s[i + 1]]

IndexIn(s, x) == CHOOSE i \in 1 .. Len(s) : s[i] = x
=============================================================================
