----------------------------- MODULE ListClients -----------------------------
(***************************************************************************)
(* The lists of the kernel and their callers.  A caller keeps the contract *)
(* that the debug build asserts: it inserts an item that is in no list,    *)
(* behind a member of the list or in front, and detaches members only.     *)
(* It may also try to insert an item that is still linked to a neighbour.  *)
(***************************************************************************)
EXTENDS LinkedList

CONSTANTS Heads, Items

ASSUME ListAssumption == Items \subseteq Nat \ {NULL}

VARIABLES
  mem,     \* the memory of linked_list.c
  lists    \* what the callers take each list for

vars == <<mem, lists>>

TypeOK ==
  /\ mem \in [next : [Items -> Items \cup {NULL}],
              prev : [Items -> Items \cup {NULL}],
              first : [Heads -> Items \cup {NULL}],
              last : [Heads -> Items \cup {NULL}],
              size : [Heads -> Nat]]
  /\ lists \in [Heads -> Seq(Items)]

Linked == UNION {Elements(lists[h]) : h \in Heads}

Init ==
  /\ mem = List_init(Heads, Items)
  /\ lists = [h \in Heads |-> <<>>]

Insert(h, k, item) ==
  /\ mem' = List_insert(mem, h, IF k = 0 THEN NULL ELSE lists[h][k], item)
  /\ lists' = [lists EXCEPT ![h] = InsertAfter(@, k, item)]

Detach(h, k) ==
  /\ mem' = List_detach(mem, h, lists[h][k])
  /\ lists' = [lists EXCEPT ![h] = DetachAt(@, k)]

\* The k-th item of list g, which has a neighbour, is refused by any list h.
InsertAgain(h, g, k) ==
  /\ Len(lists[g]) > 1
  /\ mem' = List_insert(mem, h, mem.last[h], lists[g][k])
  /\ UNCHANGED lists

Next ==
  \E h \in Heads :
    \/ \E k \in 0 .. Len(lists[h]), item \in Items \ Linked : Insert(h, k, item)
    \/ \E k \in 1 .. Len(lists[h]) : Detach(h, k)
    \/ \E g \in Heads : \E k \in 1 .. Len(lists[g]) : InsertAgain(h, g, k)

Spec == Init /\ [][Next]_vars
-----------------------------------------------------------------------------
(* Pointers and sequences agree after any sequence of calls: every head is the
   doubly linked list its callers take it for (first, last, size and both
   directions), no item is in two lists, and the pointers of an item in no list
   are null, which is what List_insert goes by when it refuses an item. *)
MemoryIsLists ==
  /\ \A h \in Heads : Represents(mem, h, lists[h])
  /\ \A g, h \in Heads : g # h => Elements(lists[g]) \cap Elements(lists[h]) = {}
  /\ \A i \in Items \ Linked : mem.next[i] = NULL /\ mem.prev[i] = NULL
=============================================================================
