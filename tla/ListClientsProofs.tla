-------------------------- MODULE ListClientsProofs --------------------------
(***************************************************************************)
(* For any lists and any items: the pointers of linked_list.c are, after   *)
(* any sequence of calls that keep the contract, the lists their callers   *)
(* take them for.                                                          *)
(***************************************************************************)
EXTENDS ListClients, LinkedListProofs

USE ListAssumption DEF NULL

\* The inductive invariant: the pointers agree with the sequences, and both
\* have their types.
IInv == TypeOK /\ MemoryIsLists

Memory == MemoryOf(Items, Heads)

LEMMA ItemsNotNull == NULL \notin Items
  OBVIOUS

\* What the lemmas on one call ask of a list
LEMMA RepresentedIsChained ==
  ASSUME NEW m, NEW h, NEW s, Represents(m, h, s)
  PROVE  Chained(m, s) /\ m.first[h] = After(s, 0)
  BY DEF Represents, Chained, After

LEMMA InsertPreserves ==
  ASSUME IInv, NEW h \in Heads, NEW k \in 0 .. Len(lists[h]),
         NEW x \in Items \ Linked, Insert(h, k, x)
  PROVE  IInv'
  <1> DEFINE s == lists[h]
  <1>1. /\ mem \in Memory /\ s \in Seq(Items) /\ Represents(mem, h, s)
        /\ lists \in [Heads -> Seq(Items)]
    BY DEF IInv, TypeOK, MemoryIsLists, Memory, MemoryOf
  <1>2. /\ mem.next[x] = NULL /\ mem.prev[x] = NULL
        /\ \A g \in Heads : x \notin Elements(lists[g])
    BY DEF IInv, MemoryIsLists, Linked
  <1>3. mem' = List_insert(mem, h, Before(s, k), x)
    BY DEF Insert, Before
  <1>4. lists' = [lists EXCEPT ![h] = InsertAfter(s, k, x)]
    BY DEF Insert
  <1>5. /\ mem' \in Memory
        /\ \A i \in Items :
             mem'.next[i] = IF i = x /\ k # Len(s) THEN After(s, k)
                            ELSE IF i = Before(s, k) THEN x ELSE mem.next[i]
        /\ \A i \in Items :
             mem'.prev[i] = IF i = After(s, k) THEN x
                            ELSE IF i = x /\ k # 0 THEN Before(s, k) ELSE mem.prev[i]
        /\ \A g \in Heads :
             /\ mem'.first[g] = IF g = h /\ k = 0 THEN x ELSE mem.first[g]
             /\ mem'.last[g] = IF g = h /\ k = Len(s) THEN x ELSE mem.last[g]
             /\ mem'.size[g] = IF g = h THEN mem.size[g] + 1 ELSE mem.size[g]
    BY <1>1, <1>2, <1>3, RepresentedIsChained, ItemsNotNull, InsertFields DEF Memory
  <1>6. InsertAfter(s, k, x) \in Seq(Items) /\ lists'[h] = InsertAfter(s, k, x)
    BY <1>1, <1>4, InsertAfterSeq
  <1>7. TypeOK'
    BY <1>1, <1>4, <1>5, <1>6 DEF TypeOK, Memory, MemoryOf
  <1>8. \A i \in Items : i \notin Elements(s) => i # Before(s, k) /\ i # After(s, k)
    BY <1>1 DEF Before, After, Elements
  <1>9. /\ Elements(lists'[h]) = Elements(s) \cup {x}
        /\ \A g \in Heads \ {h} : lists'[g] = lists[g]
    BY <1>1, <1>4, <1>6, InsertAfterElements
  <1>10. \A g \in Heads \ {h} : Elements(lists[g]) \cap Elements(s) = {}
    BY DEF IInv, MemoryIsLists
  <1>11. \A g \in Heads : Represents(mem', g, lists'[g])
    <2>1. Represents(mem', h, lists'[h])
      BY <1>1, <1>2, <1>3, <1>6, ItemsNotNull, InsertRepresents DEF Memory
    <2>2. ASSUME NEW g \in Heads \ {h} PROVE Represents(mem', g, lists'[g])
      <3>1. lists[g] \in Seq(Items) /\ Represents(mem, g, lists[g])
        BY <1>1 DEF IInv, MemoryIsLists
      <3>2. \A i \in Elements(lists[g]) : i \in Items
        BY <3>1 DEF Elements
      <3>3. \A i \in Elements(lists[g]) :
              mem'.next[i] = mem.next[i] /\ mem'.prev[i] = mem.prev[i]
        BY <1>2, <1>5, <1>8, <1>10, <3>2
      <3>4. Represents(mem', g, lists[g])
        BY <1>1, <1>5, <3>1, <3>3, OtherList
      <3> QED BY <1>9, <3>4
    <2> QED BY <2>1, <2>2
  <1>12. \A f, g \in Heads : f # g => Elements(lists'[f]) \cap Elements(lists'[g]) = {}
    BY <1>2, <1>9 DEF IInv, MemoryIsLists
  <1>13. ASSUME NEW i \in Items \ Linked'
         PROVE  mem'.next[i] = NULL /\ mem'.prev[i] = NULL
    <2>1. \A g \in Heads : i \notin Elements(lists'[g])
      BY <1>13 DEF Linked
    <2>2. i # x /\ i \notin Elements(s) /\ i \notin Linked
      BY <1>9, <2>1 DEF Linked
    <2>3. mem.next[i] = NULL /\ mem.prev[i] = NULL
      BY <2>2 DEF IInv, MemoryIsLists
    <2> QED BY <1>5, <1>8, <2>2, <2>3
  <1> QED BY <1>7, <1>11, <1>12, <1>13 DEF IInv, MemoryIsLists

LEMMA DetachPreserves ==
  ASSUME IInv, NEW h \in Heads, NEW k \in 1 .. Len(lists[h]), Detach(h, k)
  PROVE  IInv'
  <1> DEFINE s == lists[h]
  <1>1. /\ mem \in Memory /\ s \in Seq(Items) /\ Represents(mem, h, s)
        /\ lists \in [Heads -> Seq(Items)] /\ Distinct(s)
    BY DEF IInv, TypeOK, MemoryIsLists, Memory, MemoryOf, Represents
  <1>2. mem' = List_detach(mem, h, s[k])
    BY DEF Detach
  <1>3. lists' = [lists EXCEPT ![h] = DetachAt(s, k)]
    BY DEF Detach
  <1>4. /\ mem' \in Memory
        /\ \A i \in Items :
             mem'.next[i] = IF i = s[k] THEN NULL
                            ELSE IF i = Before(s, k - 1) THEN After(s, k) ELSE mem.next[i]
        /\ \A i \in Items :
             mem'.prev[i] = IF i = s[k] THEN NULL
                            ELSE IF i = After(s, k) THEN Before(s, k - 1) ELSE mem.prev[i]
        /\ \A g \in Heads :
             /\ g # h => mem'.first[g] = mem.first[g] /\ mem'.last[g] = mem.last[g]
             /\ mem'.size[g] = IF g = h THEN mem.size[g] - 1 ELSE mem.size[g]
    <2>1. mem.size[h] > 0
      BY <1>1 DEF Represents
    <2> QED BY <1>1, <1>2, <2>1, RepresentedIsChained, ItemsNotNull, DetachFields DEF Memory
  <1>5. DetachAt(s, k) \in Seq(Items) /\ lists'[h] = DetachAt(s, k)
    BY <1>1, <1>3, DetachAtSeq
  <1>6. TypeOK'
    BY <1>1, <1>3, <1>4, <1>5 DEF TypeOK, Memory, MemoryOf
  <1>7. /\ s[k] \in Elements(s)
        /\ \A i \in Items :
             i \notin Elements(s) => i # Before(s, k - 1) /\ i # After(s, k)
    BY <1>1 DEF Before, After, Elements
  <1>8. /\ Elements(lists'[h]) = Elements(s) \ {s[k]}
        /\ \A g \in Heads \ {h} : lists'[g] = lists[g]
    BY <1>1, <1>3, <1>5, DetachAtElements
  <1>9. \A g \in Heads \ {h} : Elements(lists[g]) \cap Elements(s) = {}
    BY DEF IInv, MemoryIsLists
  <1>10. \A g \in Heads : Represents(mem', g, lists'[g])
    <2>1. Represents(mem', h, lists'[h])
      BY <1>1, <1>2, <1>5, ItemsNotNull, DetachRepresents DEF Memory
    <2>2. ASSUME NEW g \in Heads \ {h} PROVE Represents(mem', g, lists'[g])
      <3>1. lists[g] \in Seq(Items) /\ Represents(mem, g, lists[g])
        BY <1>1 DEF IInv, MemoryIsLists
      <3>2. \A i \in Elements(lists[g]) : i \in Items
        BY <3>1 DEF Elements
      <3>3. \A i \in Elements(lists[g]) :
              mem'.next[i] = mem.next[i] /\ mem'.prev[i] = mem.prev[i]
        BY <1>4, <1>7, <1>9, <3>2
      <3>4. Represents(mem', g, lists[g])
        BY <1>1, <1>4, <3>1, <3>3, OtherList
      <3> QED BY <1>8, <3>4
    <2> QED BY <2>1, <2>2
  <1>11. \A f, g \in Heads : f # g => Elements(lists'[f]) \cap Elements(lists'[g]) = {}
    BY <1>8 DEF IInv, MemoryIsLists
  <1>12. ASSUME NEW i \in Items \ Linked'
         PROVE  mem'.next[i] = NULL /\ mem'.prev[i] = NULL
    <2>1. \A g \in Heads : i \notin Elements(lists'[g])
      BY <1>12 DEF Linked
    <2>2. CASE i = s[k]
      BY <1>4, <2>2
    <2>3. CASE i # s[k]
      <3>1. i \notin Elements(s) /\ i \notin Linked
        BY <1>8, <2>1, <2>3 DEF Linked
      <3>2. mem.next[i] = NULL /\ mem.prev[i] = NULL
        BY <3>1 DEF IInv, MemoryIsLists
      <3> QED BY <1>4, <1>7, <2>3, <3>1, <3>2
    <2> QED BY <2>2, <2>3
  <1> QED BY <1>6, <1>10, <1>11, <1>12 DEF IInv, MemoryIsLists

\* An item with a neighbour is refused: nothing changes.
LEMMA InsertAgainRefused ==
  ASSUME IInv, NEW h \in Heads, NEW g \in Heads, NEW k \in 1 .. Len(lists[g]),
         InsertAgain(h, g, k)
  PROVE  UNCHANGED vars
  <1> DEFINE s == lists[g]
  <1>1. s \in Seq(Items) /\ Represents(mem, g, s) /\ Len(s) > 1
    BY DEF IInv, TypeOK, MemoryIsLists, InsertAgain
  <1>2. mem.next[s[k]] # NULL \/ mem.prev[s[k]] # NULL
    <2>1. CASE k = Len(s)
      <3>1. mem.prev[s[k]] = s[k - 1] /\ k - 1 \in 1 .. Len(s)
        BY <1>1, <2>1 DEF Represents
      <3> QED BY <1>1, <3>1
    <2>2. CASE k # Len(s)
      <3>1. mem.next[s[k]] = s[k + 1] /\ k + 1 \in 1 .. Len(s)
        BY <1>1, <2>2 DEF Represents
      <3> QED BY <1>1, <3>1
    <2> QED BY <2>1, <2>2
  <1> QED BY <1>2 DEF InsertAgain, List_insert, vars

(* After any sequence of calls of List_insert and List_detach, on any number of
   lists and items, every head is the doubly linked list its callers take it
   for, no item is in two lists, and an item in no list has null pointers. *)
THEOREM ListsAreLists == Spec => []MemoryIsLists
  <1>1. Init => IInv
    <2> SUFFICES ASSUME Init PROVE IInv
      OBVIOUS
    <2>1. /\ mem = [next |-> [i \in Items |-> NULL], prev |-> [i \in Items |-> NULL],
                    first |-> [h \in Heads |-> NULL], last |-> [h \in Heads |-> NULL],
                    size |-> [h \in Heads |-> 0]]
          /\ lists = [h \in Heads |-> <<>>]
      BY DEF Init, List_init
    <2>2. TypeOK
      BY <2>1 DEF TypeOK
    <2>3. \A h \in Heads : lists[h] = <<>> /\ Elements(lists[h]) = {}
      BY <2>1 DEF Elements
    <2>4. \A h \in Heads : Represents(mem, h, lists[h])
      BY <2>1 DEF Represents, Distinct
    <2>5. \A i \in Items : mem.next[i] = NULL /\ mem.prev[i] = NULL
      BY <2>1
    <2> QED BY <2>2, <2>3, <2>4, <2>5 DEF IInv, MemoryIsLists
  <1>2. IInv /\ [Next]_vars => IInv'
    <2> SUFFICES ASSUME IInv, [Next]_vars PROVE IInv'
      OBVIOUS
    <2>1. CASE UNCHANGED vars
      BY <2>1 DEF IInv, TypeOK, MemoryIsLists, Represents, Linked, vars
    <2>2. ASSUME NEW h \in Heads, NEW k \in 0 .. Len(lists[h]),
                 NEW x \in Items \ Linked, Insert(h, k, x)
          PROVE  IInv'
      BY <2>2, InsertPreserves
    <2>3. ASSUME NEW h \in Heads, NEW k \in 1 .. Len(lists[h]), Detach(h, k)
          PROVE  IInv'
      BY <2>3, DetachPreserves
    <2>4. ASSUME NEW h \in Heads, NEW g \in Heads, NEW k \in 1 .. Len(lists[g]),
                 InsertAgain(h, g, k)
          PROVE  IInv'
      BY <2>1, <2>4, InsertAgainRefused
    <2> QED BY <2>1, <2>2, <2>3, <2>4 DEF Next
  <1>3. IInv => MemoryIsLists
    BY DEF IInv
  <1> QED BY <1>1, <1>2, <1>3, PTL DEF Spec
=============================================================================
