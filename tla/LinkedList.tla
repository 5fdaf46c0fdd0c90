------------------------------ MODULE LinkedList ------------------------------
(***************************************************************************)
(* linked_list.c on memory m: next and prev of every ListItem; first, last *)
(* and size of every ListHead.  The operators return the memory after the  *)
(* call.  As in the build without _LIST_DEBUG_, neither looks whether prev *)
(* or item is in the list.                                                 *)
(***************************************************************************)
EXTENDS ListOps

\* All heads after List_init, no item linked.
List_init(heads, items) ==
  [next |-> [i \in items |-> NULL], prev |-> [i \in items |-> NULL],
   first |-> [h \in heads |-> NULL], last |-> [h \in heads |-> NULL],
   size |-> [h \in heads |-> 0]]

\* Slips the properties must catch: the new item is not made the predecessor of
\* the next one; the removal of the last item leaves `last` pointing at it.
List_insertOneWay(m, head, prev, item) ==
  LET next == IF prev # NULL THEN m.next[prev] ELSE m.first[head] IN
  IF m.next[item] # NULL \/ m.prev[item] # NULL THEN m
  ELSE
   [next |-> [i \in DOMAIN m.next |->
              IF i = item /\ next # NULL THEN next
              ELSE IF i = prev THEN item ELSE m.next[i]],
    prev |-> [i \in DOMAIN m.prev |->
              IF i = item /\ prev # NULL THEN prev ELSE m.prev[i]],
    first |-> [m.first EXCEPT ![head] = IF prev = NULL THEN item ELSE @],
    last |-> [m.last EXCEPT ![head] = IF next = NULL THEN item ELSE @],
    size |-> [m.size EXCEPT ![head] = @ + 1]]

\* List_insert; a null result leaves the memory unchanged.
List_insert(m, head, prev, item) ==
  LET next == IF prev # NULL THEN m.next[prev] ELSE m.first[head] IN
  IF m.next[item] # NULL \/ m.prev[item] # NULL THEN m
  ELSE
   [next |-> [i \in DOMAIN m.next |->
              IF i = item /\ next # NULL THEN next
              ELSE IF i = prev THEN item ELSE m.next[i]],
    prev |-> [i \in DOMAIN m.prev |->
              IF i = next THEN item
              ELSE IF i = item /\ prev # NULL THEN prev ELSE m.prev[i]],
    first |-> [m.first EXCEPT ![head] = IF prev = NULL THEN item ELSE @],
    last |-> [m.last EXCEPT ![head] = IF next = NULL THEN item ELSE @],
    size |-> [m.size EXCEPT ![head] = @ + 1]]

List_detachKeepsLast(m, head, item) ==
  LET prev == m.prev[item]
      next == m.next[item]
  IN
   [next |-> [i \in DOMAIN m.next |->
              IF i = item THEN NULL ELSE IF i = prev THEN next ELSE m.next[i]],
    prev |-> [i \in DOMAIN m.prev |->
              IF i = item THEN NULL ELSE IF i = next THEN prev ELSE m.prev[i]],
    first |-> [m.first EXCEPT ![head] = IF item = @ THEN next ELSE @],
    last |-> m.last,
    size |-> [m.size EXCEPT ![head] = @ - 1]]

\* List_detach of an item that is not null.
List_detach(m, head, item) ==
  LET prev == m.prev[item]
      next == m.next[item]
  IN
   [next |-> [i \in DOMAIN m.next |->
              IF i = item THEN NULL ELSE IF i = prev THEN next ELSE m.next[i]],
    prev |-> [i \in DOMAIN m.prev |->
              IF i = item THEN NULL ELSE IF i = next THEN prev ELSE m.prev[i]],
    first |-> [m.first EXCEPT ![head] = IF item = @ THEN next ELSE @],
    last |-> [m.last EXCEPT ![head] = IF item = @ THEN prev ELSE @],
    size |-> [m.size EXCEPT ![head] = @ - 1]]

\* In memory m, head is the list s, linked both ways.
Represents(m, head, s) ==
  /\ Distinct(s)
  /\ m.size[head] = Len(s)
  /\ m.first[head] = IF s = <<>> THEN NULL ELSE s[1]
  /\ m.last[head] = IF s = <<>> THEN NULL ELSE s[Len(s)]
  /\ \A i \in 1 .. Len(s) :
       /\ m.next[s[i]] = IF i = Len(s) THEN NULL ELSE s[i + 1]
       /\ m.prev[s[i]] = IF i = 1 THEN NULL ELSE s[i - 1]
=============================================================================
