--------------------------- MODULE LinkedListProofs ---------------------------
(***************************************************************************)
(* What the operators of ListOps return, for sequences over any set, and   *)
(* what List_insert and List_detach do to the pointers of any memory: the  *)
(* facts that the proofs about lists, processes and queues keep citing.    *)
(***************************************************************************)
EXTENDS LinkedList, SequenceTheorems, WellFoundedInduction, TLAPS

(* Every set of natural numbers that is not empty has a least one: the form of
   induction that needs no operator as a parameter. *)
LEMMA LeastNatural ==
  ASSUME NEW T \in SUBSET Nat, T # {}
  PROVE  \E m \in T : \A n \in T : m <= n
  <1> DEFINE R == {ss \in Nat \X Nat : ss[1] < ss[2]}
  <1>1. IsWellFoundedOn(R, Nat)
    BY NatLessThanWellFounded DEF OpToRel
  <1> HIDE DEF R
  <1>2. PICK m \in T : \A n \in T : <<n, m>> \notin R
    BY <1>1, WFMin
  <1>3. ASSUME NEW n \in T PROVE m <= n
    <2>1. m \in Nat /\ n \in Nat /\ <<n, m>> \in Nat \X Nat
      OBVIOUS
    <2>2. n < m => <<n, m>> \in R
      BY <2>1 DEF R
    <2> QED BY <1>2, <2>1, <2>2
  <1> QED BY <1>3

\* The k-th of n steps can be taken from all of D[k - 1], and leads into D[k].
Advances(n, D, G) ==
  \A k \in 1 .. n : \A x \in D[k - 1] : \E y \in D[k] : <<x, y>> \in G[k]

\* f is a run of n such steps.
Runs(f, n, D, G) ==
  /\ \A k \in 0 .. n : f[k] \in D[k]
  /\ \A k \in 1 .. n : <<f[k - 1], f[k]>> \in G[k]

\* What the provers see of both ends: hypotheses and conclusion are atoms.
Stages(D, n, M) == n \in Nat /\ D \in [0 .. n -> SUBSET M]
RunsFrom(f, a, n, D, G, M) == f \in [0 .. n -> M] /\ f[0] = a /\ Runs(f, n, D, G)

\* So there is a run that starts at any a of D[0].
LEMMA RunExists ==
  ASSUME NEW n, NEW D, NEW M, Stages(D, n, M), NEW G, NEW a, a \in D[0], Advances(n, D, G)
  PROVE  \E f : RunsFrom(f, a, n, D, G, M)
  <1>0. n \in Nat /\ D \in [0 .. n -> SUBSET M] /\ a \in D[0] /\ Advances(n, D, G)
    BY DEF Stages
  <1> DEFINE Upto(k, f) == /\ f \in [0 .. k -> M]
                           /\ f[0] = a
                           /\ \A i \in 0 .. k : f[i] \in D[i]
                           /\ \A i \in 1 .. k : <<f[i - 1], f[i]>> \in G[i]
             T == {k \in 0 .. n : ~\E f : Upto(k, f)}
  <1>1. ASSUME T # {} PROVE FALSE
    <2>1. T \in SUBSET Nat
      BY <1>0
    <2>2. PICK m \in T : \A k \in T : m <= k
      BY <1>1, <2>1, LeastNatural
    <2>3. m \in 0 .. n /\ ~\E f : Upto(m, f)
      BY <2>2
    <2>4. m # 0
      <3> DEFINE f == [i \in 0 .. 0 |-> a]
      <3>1. a \in M
        BY <1>0
      <3>2. Upto(0, f)
        BY <1>0, <3>1
      <3> QED BY <2>3, <3>2
    <2>5. \E f : Upto(m - 1, f)
      <3> HIDE DEF Upto
      <3>1. m - 1 \in 0 .. n /\ m - 1 \notin T
        BY <1>0, <2>2, <2>3, <2>4
      <3> QED BY <3>1
    <2>6. PICK f : Upto(m - 1, f)
      BY <2>5
    <2>7. m \in 1 .. n /\ f[m - 1] \in D[m - 1]
      BY <1>0, <2>3, <2>4, <2>6
    <2>8. PICK y \in D[m] : <<f[m - 1], y>> \in G[m]
      BY <1>0, <2>7 DEF Advances
    <2> DEFINE g == [i \in 0 .. m |-> IF i = m THEN y ELSE f[i]]
    <2>9. g \in [0 .. m -> M] /\ g[0] = a
      BY <1>0, <2>3, <2>4, <2>6
    <2>10. \A i \in 0 .. m : g[i] \in D[i]
      BY <1>0, <2>3, <2>4, <2>6
    <2>11. \A i \in 1 .. m : <<g[i - 1], g[i]>> \in G[i]
      <3> SUFFICES ASSUME NEW i \in 1 .. m PROVE <<g[i - 1], g[i]>> \in G[i]
        OBVIOUS
      <3>1. CASE i = m
        <4>1. g[i] = y /\ g[i - 1] = f[m - 1]
          BY <2>7, <3>1
        <4> QED BY <2>8, <3>1, <4>1
      <3>2. CASE i # m
        <4>1. i \in 1 .. m - 1 /\ g[i] = f[i] /\ g[i - 1] = f[i - 1]
          BY <2>7, <3>2
        <4> QED BY <2>6, <4>1
      <3> QED BY <3>1, <3>2
    <2>12. Upto(m, g)
      BY <2>9, <2>10, <2>11
    <2> QED BY <2>3, <2>12
  <1>2. \E f : Upto(n, f)
    <2> HIDE DEF Upto
    <2>1. n \in 0 .. n
      BY <1>0
    <2>2. n \notin T
      <3> HIDE DEF T
      <3> QED BY <1>1
    <2> QED BY <2>1, <2>2
  <1>3. PICK f : Upto(n, f)
    BY <1>2
  <1> QED BY <1>3 DEF Runs, RunsFrom

\* Two sequences that start and go on in the same way are the same.
LEMMA SameSteps ==
  ASSUME NEW n \in Nat, NEW f, NEW g, f[0] = g[0],
         \A k \in 1 .. n : f[k - 1] = g[k - 1] => f[k] = g[k]
  PROVE  f[n] = g[n]
  <1> DEFINE T == {k \in 0 .. n : f[k] # g[k]}
  <1>1. ASSUME T # {} PROVE FALSE
    <2>1. T \in SUBSET Nat
      OBVIOUS
    <2>2. PICK m \in T : \A k \in T : m <= k
      BY <1>1, <2>1, LeastNatural
    <2>3. m # 0 /\ m - 1 \in 0 .. n /\ m - 1 \notin T
      BY <2>2
    <2> QED BY <2>2, <2>3
  <1> QED BY <1>1

-----------------------------------------------------------------------------
(* The elements of a list, and lists in which each occurs once *)

LEMMA ElementsType ==
  ASSUME NEW S, NEW s \in Seq(S)
  PROVE  /\ Elements(s) \subseteq S
         /\ s = <<>> <=> Elements(s) = {}
         /\ s # <<>> => Head(s) \in Elements(s) /\ Head(s) = s[1]
  <1>1. s # <<>> => 1 \in 1 .. Len(s) /\ Head(s) = s[1]
    OBVIOUS
  <1> QED BY <1>1 DEF Elements

LEMMA EmptyElements == Elements(<<>>) = {} /\ Distinct(<<>>)
  BY DEF Elements, Distinct

LEMMA SingletonElements ==
  ASSUME NEW x
  PROVE  Elements(<<x>>) = {x} /\ Distinct(<<x>>)
  <1>1. Len(<<x>>) = 1 /\ <<x>>[1] = x /\ 1 .. 1 = {1}
    OBVIOUS
  <1> QED BY <1>1 DEF Elements, Distinct

LEMMA AppendElements ==
  ASSUME NEW S, NEW s \in Seq(S), NEW x \in S
  PROVE  /\ Append(s, x) \in Seq(S)
         /\ Elements(Append(s, x)) = Elements(s) \cup {x}
         /\ Distinct(s) /\ x \notin Elements(s) => Distinct(Append(s, x))
  <1> DEFINE t == Append(s, x)
  <1>0. /\ t \in Seq(S)
        /\ Len(t) = Len(s) + 1
        /\ \A i \in 1 .. Len(s) : t[i] = s[i]
        /\ t[Len(s) + 1] = x
    BY AppendProperties
  <1> HIDE DEF t
  <1>1. \A i \in 1 .. Len(t) : i \in 1 .. Len(s) \/ i = Len(s) + 1
    BY <1>0
  <1>2. Elements(t) \subseteq Elements(s) \cup {x}
    BY <1>0, <1>1 DEF Elements
  <1>3. \A i \in 1 .. Len(s) + 1 : i \in 1 .. Len(t)
    BY <1>0
  <1>4. Elements(s) \cup {x} \subseteq Elements(t)
    BY <1>0, <1>3 DEF Elements
  <1>5. Distinct(s) /\ x \notin Elements(s) => Distinct(t)
    BY <1>0, <1>1 DEF Elements, Distinct
  <1> QED BY <1>0, <1>2, <1>4, <1>5 DEF t

LEMMA TailElements ==
  ASSUME NEW S, NEW s \in Seq(S), s # <<>>, Distinct(s)
  PROVE  /\ Tail(s) \in Seq(S)
         /\ Head(s) \in Elements(s)
         /\ Elements(Tail(s)) = Elements(s) \ {Head(s)}
         /\ Distinct(Tail(s))
  <1> DEFINE t == Tail(s)
  <1>0. /\ t \in Seq(S)
        /\ Len(t) = Len(s) - 1
        /\ \A i \in 1 .. Len(t) : t[i] = s[i + 1]
    BY HeadTailProperties
  <1>1. Head(s) = s[1] /\ 1 \in 1 .. Len(s)
    OBVIOUS
  <1> HIDE DEF t
  <1>2. ASSUME NEW i \in 1 .. Len(t)
        PROVE  i + 1 \in 1 .. Len(s) /\ t[i] = s[i + 1] /\ i + 1 # 1
    BY <1>0
  <1>3. Elements(t) \subseteq Elements(s) \ {Head(s)}
    BY <1>1, <1>2 DEF Elements, Distinct
  <1>4. ASSUME NEW i \in 1 .. Len(s), s[i] # s[1]
        PROVE  i - 1 \in 1 .. Len(t) /\ t[i - 1] = s[i]
    BY <1>0, <1>4
  <1>5. Elements(s) \ {Head(s)} \subseteq Elements(t)
    BY <1>1, <1>4 DEF Elements
  <1>6. Distinct(t)
    <2> SUFFICES ASSUME NEW i \in 1 .. Len(t), NEW j \in 1 .. Len(t), t[i] = t[j]
                 PROVE  i = j
      BY DEF Distinct
    <2>1. i + 1 = j + 1
      BY <1>2 DEF Distinct
    <2> QED BY <2>1, <1>0
  <1>7. Head(s) \in Elements(s)
    BY <1>1 DEF Elements
  <1> QED BY <1>0, <1>3, <1>5, <1>6, <1>7 DEF t

LEMMA ConcatElements ==
  ASSUME NEW S, NEW s \in Seq(S), NEW t \in Seq(S)
  PROVE  /\ s \o t \in Seq(S)
         /\ Elements(s \o t) = Elements(s) \cup Elements(t)
         /\ Distinct(s) /\ Distinct(t) /\ Elements(s) \cap Elements(t) = {}
              => Distinct(s \o t)
  <1> DEFINE u == s \o t
  <1>0. /\ u \in Seq(S)
        /\ Len(u) = Len(s) + Len(t)
        /\ \A i \in 1 .. Len(s) + Len(t) :
             u[i] = IF i <= Len(s) THEN s[i] ELSE t[i - Len(s)]
    BY ConcatProperties
  <1> HIDE DEF u
  <1>1. ASSUME NEW i \in 1 .. Len(u)
        PROVE  \/ i \in 1 .. Len(s) /\ u[i] = s[i]
               \/ i - Len(s) \in 1 .. Len(t) /\ u[i] = t[i - Len(s)]
    BY <1>0
  <1>2. Elements(u) \subseteq Elements(s) \cup Elements(t)
    BY <1>1 DEF Elements
  <1>3. ASSUME NEW i \in 1 .. Len(s)
        PROVE  i \in 1 .. Len(u) /\ u[i] = s[i]
    BY <1>0
  <1>4. ASSUME NEW i \in 1 .. Len(t)
        PROVE  i + Len(s) \in 1 .. Len(u) /\ u[i + Len(s)] = t[i]
    <2>1. Len(s) \in Nat /\ Len(t) \in Nat
      BY LenProperties
    <2>2. /\ i + Len(s) \in 1 .. Len(s) + Len(t)
          /\ ~(i + Len(s) <= Len(s))
          /\ i + Len(s) - Len(s) = i
      BY <2>1
    <2> QED BY <1>0, <2>2
  <1>5. Elements(s) \cup Elements(t) \subseteq Elements(u)
    BY <1>3, <1>4 DEF Elements
  <1>6. ASSUME Distinct(s), Distinct(t), Elements(s) \cap Elements(t) = {}
        PROVE  Distinct(u)
    <2> SUFFICES ASSUME NEW i \in 1 .. Len(u), NEW j \in 1 .. Len(u), u[i] = u[j]
                 PROVE  i = j
      BY DEF Distinct
    <2>1. CASE i \in 1 .. Len(s) /\ j \in 1 .. Len(s)
      BY <1>3, <1>6, <2>1 DEF Distinct
    <2>2. CASE i \notin 1 .. Len(s) /\ j \notin 1 .. Len(s)
      <3>1. i - Len(s) = j - Len(s)
        BY <1>1, <1>6, <2>2 DEF Distinct
      <3> QED BY <3>1, <1>0
    <2>3. ASSUME NEW k \in 1 .. Len(s), NEW l \in 1 .. Len(u) \ 1 .. Len(s)
          PROVE  u[k] # u[l]
      <3>1. u[k] \in Elements(s)
        BY <1>3 DEF Elements
      <3>2. u[l] \in Elements(t)
        BY <1>1 DEF Elements
      <3> QED BY <3>1, <3>2, <1>6
    <2> QED BY <2>1, <2>2, <2>3
  <1> QED BY <1>0, <1>2, <1>5, <1>6 DEF u

LEMMA IndexInList ==
  ASSUME NEW s, NEW x \in Elements(s)
  PROVE  IndexIn(s, x) \in 1 .. Len(s) /\ s[IndexIn(s, x)] = x
  <1>1. \E i \in 1 .. Len(s) : s[i] = x
    BY DEF Elements
  <1> QED BY <1>1 DEF IndexIn

-----------------------------------------------------------------------------
(* Insertion and detachment *)

LEMMA InsertAfterSeq ==
  ASSUME NEW S, NEW s \in Seq(S), NEW k \in 0 .. Len(s), NEW x \in S
  PROVE  /\ InsertAfter(s, k, x) \in Seq(S)
         /\ Len(InsertAfter(s, k, x)) = Len(s) + 1
         /\ \A i \in 1 .. Len(s) + 1 :
              InsertAfter(s, k, x)[i] =
                IF i <= k THEN s[i] ELSE IF i = k + 1 THEN x ELSE s[i - 1]
  <1>1. \A i \in 1 .. Len(s) + 1 :
          (IF i <= k THEN s[i] ELSE IF i = k + 1 THEN x ELSE s[i - 1]) \in S
    OBVIOUS
  <1> QED BY <1>1 DEF InsertAfter

LEMMA DetachAtSeq ==
  ASSUME NEW S, NEW s \in Seq(S), NEW k \in 1 .. Len(s)
  PROVE  /\ DetachAt(s, k) \in Seq(S)
         /\ Len(DetachAt(s, k)) = Len(s) - 1
         /\ \A i \in 1 .. Len(s) - 1 :
              DetachAt(s, k)[i] = IF i < k THEN s[i] ELSE s[i + 1]
  <1>1. \A i \in 1 .. Len(s) - 1 : (IF i < k THEN s[i] ELSE s[i + 1]) \in S
    OBVIOUS
  <1> QED BY <1>1 DEF DetachAt

LEMMA InsertAfterElements ==
  ASSUME NEW S, NEW s \in Seq(S), NEW k \in 0 .. Len(s), NEW x \in S
  PROVE  Elements(InsertAfter(s, k, x)) = Elements(s) \cup {x}
  <1> DEFINE t == InsertAfter(s, k, x)
  <1>0. /\ Len(t) = Len(s) + 1
        /\ \A i \in 1 .. Len(s) + 1 :
             t[i] = IF i <= k THEN s[i] ELSE IF i = k + 1 THEN x ELSE s[i - 1]
    BY InsertAfterSeq
  <1> HIDE DEF t
  <1>1. ASSUME NEW e \in Elements(t) PROVE e \in Elements(s) \cup {x}
    <2>1. PICK i \in 1 .. Len(t) : e = t[i]
      BY <1>1 DEF Elements
    <2>2. CASE i <= k
      BY <1>0, <2>1, <2>2 DEF Elements
    <2>3. CASE i = k + 1
      BY <1>0, <2>1, <2>3
    <2>4. CASE i > k + 1
      <3>1. i - 1 \in 1 .. Len(s) /\ e = s[i - 1]
        BY <1>0, <2>1, <2>4
      <3> QED BY <3>1 DEF Elements
    <2> QED BY <2>2, <2>3, <2>4
  <1>2. x \in Elements(t)
    <2>1. k + 1 \in 1 .. Len(t) /\ t[k + 1] = x
      BY <1>0
    <2> QED BY <2>1 DEF Elements
  <1>3. ASSUME NEW e \in Elements(s) PROVE e \in Elements(t)
    <2>1. PICK i \in 1 .. Len(s) : e = s[i]
      BY <1>3 DEF Elements
    <2>2. CASE i <= k
      <3>1. i \in 1 .. Len(t) /\ t[i] = e
        BY <1>0, <2>1, <2>2
      <3> QED BY <3>1 DEF Elements
    <2>3. CASE i > k
      <3>1. i + 1 \in 1 .. Len(t) /\ t[i + 1] = e
        BY <1>0, <2>1, <2>3
      <3> QED BY <3>1 DEF Elements
    <2> QED BY <2>2, <2>3
  <1>4. Elements(t) = Elements(s) \cup {x}
    BY <1>1, <1>2, <1>3
  <1> QED BY <1>4 DEF t

LEMMA DetachAtElements ==
  ASSUME NEW S, NEW s \in Seq(S), NEW k \in 1 .. Len(s), Distinct(s)
  PROVE  Elements(DetachAt(s, k)) = Elements(s) \ {s[k]}
  <1> DEFINE t == DetachAt(s, k)
  <1>0. /\ Len(t) = Len(s) - 1
        /\ \A i \in 1 .. Len(s) - 1 : t[i] = IF i < k THEN s[i] ELSE s[i + 1]
    BY DetachAtSeq
  <1> HIDE DEF t
  <1>1. ASSUME NEW e \in Elements(t) PROVE e \in Elements(s) \ {s[k]}
    <2>1. PICK i \in 1 .. Len(t) : e = t[i]
      BY <1>1 DEF Elements
    <2>2. PICK j \in 1 .. Len(s) : e = s[j] /\ j # k
      <3>1. CASE i < k
        BY <1>0, <2>1, <3>1
      <3>2. CASE i >= k
        <4>1. i + 1 \in 1 .. Len(s) /\ e = s[i + 1] /\ i + 1 # k
          BY <1>0, <2>1, <3>2
        <4> QED BY <4>1
      <3> QED BY <3>1, <3>2
    <2> QED BY <2>2 DEF Elements, Distinct
  <1>2. ASSUME NEW e \in Elements(s) \ {s[k]} PROVE e \in Elements(t)
    <2>1. PICK i \in 1 .. Len(s) : e = s[i] /\ i # k
      BY <1>2 DEF Elements
    <2>2. CASE i < k
      <3>1. i \in 1 .. Len(t) /\ t[i] = e
        BY <1>0, <2>1, <2>2
      <3> QED BY <3>1 DEF Elements
    <2>3. CASE i > k
      <3>1. i - 1 \in 1 .. Len(t) /\ t[i - 1] = e
        BY <1>0, <2>1, <2>3
      <3> QED BY <3>1 DEF Elements
    <2> QED BY <2>1, <2>2, <2>3
  <1>3. Elements(t) = Elements(s) \ {s[k]}
    BY <1>1, <1>2
  <1> QED BY <1>3 DEF t

LEMMA DetachAtDistinct ==
  ASSUME NEW S, NEW s \in Seq(S), NEW k \in 1 .. Len(s), Distinct(s)
  PROVE  Distinct(DetachAt(s, k))
  <1> DEFINE t == DetachAt(s, k)
  <1>0. /\ Len(t) = Len(s) - 1
        /\ \A i \in 1 .. Len(s) - 1 : t[i] = IF i < k THEN s[i] ELSE s[i + 1]
    BY DetachAtSeq
  <1> HIDE DEF t
  <1> SUFFICES ASSUME NEW i \in 1 .. Len(t), NEW j \in 1 .. Len(t), t[i] = t[j]
               PROVE  i = j
    BY DEF Distinct, t
  <1> DEFINE At(n) == IF n < k THEN n ELSE n + 1
  <1>1. At(i) \in 1 .. Len(s) /\ At(j) \in 1 .. Len(s) /\ t[i] = s[At(i)] /\ t[j] = s[At(j)]
    BY <1>0
  <1>2. At(i) = At(j)
    BY <1>1 DEF Distinct
  <1> QED BY <1>0, <1>2

\* To detach the first element by pointer is to take the tail.
LEMMA DetachHead ==
  ASSUME NEW S, NEW s \in Seq(S), s # <<>>, Distinct(s)
  PROVE  DetachAt(s, IndexIn(s, Head(s))) = Tail(s)
  <1> DEFINE k == IndexIn(s, Head(s))
             t == Tail(s)
  <1>1. 1 \in 1 .. Len(s) /\ Head(s) = s[1] /\ Head(s) \in Elements(s)
    BY ElementsType
  <1>2. k \in 1 .. Len(s) /\ s[k] = s[1]
    BY <1>1, IndexInList
  <1>3. k = 1
    BY <1>1, <1>2 DEF Distinct
  <1>4. t = [i \in 1 .. Len(s) - 1 |-> s[i + 1]]
    <2>1. /\ t \in Seq(S) /\ Len(t) = Len(s) - 1
          /\ \A i \in 1 .. Len(t) : t[i] = s[i + 1]
      OBVIOUS
    <2> HIDE DEF t
    <2>2. t = [i \in 1 .. Len(t) |-> t[i]]
      BY <2>1
    <2> QED BY <2>1, <2>2
  <1>5. DetachAt(s, 1) = [i \in 1 .. Len(s) - 1 |-> s[i + 1]]
    BY DEF DetachAt
  <1> HIDE DEF k
  <1> QED BY <1>3, <1>4, <1>5 DEF k

-----------------------------------------------------------------------------
(* One call on the memory m: I is the set of its items, H that of its heads *)

MemoryOf(I, H) ==
  [next : [I -> I \cup {NULL}], prev : [I -> I \cup {NULL}],
   first : [H -> I \cup {NULL}], last : [H -> I \cup {NULL}], size : [H -> Nat]]

\* The items of s are linked both ways, whatever heads say.
Chained(m, s) ==
  /\ Distinct(s)
  /\ \A i \in 1 .. Len(s) :
       /\ m.next[s[i]] = IF i = Len(s) THEN NULL ELSE s[i + 1]
       /\ m.prev[s[i]] = IF i = 1 THEN NULL ELSE s[i - 1]

\* The neighbours of position k of s: its k-th item, and the one behind it.
Before(s, k) == IF k = 0 THEN NULL ELSE s[k]
After(s, k) == IF k = Len(s) THEN NULL ELSE s[k + 1]

LEMMA NeighboursInMemory ==
  ASSUME NEW I, NEW H, NULL \notin I, NEW m \in MemoryOf(I, H), NEW h \in H, NEW s \in Seq(I),
         NEW k \in 0 .. Len(s), Chained(m, s),
         k = 0 => m.first[h] = After(s, 0)
  PROVE  /\ Before(s, k) \in I \cup {NULL}
         /\ After(s, k) \in I \cup {NULL}
         /\ Before(s, k) = NULL <=> k = 0
         /\ After(s, k) = NULL <=> k = Len(s)
         /\ (IF Before(s, k) # NULL THEN m.next[Before(s, k)] ELSE m.first[h])
              = After(s, k)
  <1>1. CASE k = 0
    BY <1>1 DEF Before, After, Chained, MemoryOf
  <1>2. CASE k # 0
    <2>1. k \in 1 .. Len(s) /\ s[k] \in I
      BY <1>2
    <2> QED BY <2>1, <1>2 DEF Before, After, Chained
  <1> QED BY <1>1, <1>2

\* The fields after an insertion that is not refused.
LEMMA InsertFields ==
  ASSUME NEW I, NEW H, NULL \notin I, NEW m \in MemoryOf(I, H), NEW h \in H, NEW s \in Seq(I),
         NEW k \in 0 .. Len(s), Chained(m, s), k = 0 => m.first[h] = After(s, 0), NEW x \in I,
         m.next[x] = NULL, m.prev[x] = NULL,
         NEW n, n = List_insert(m, h, Before(s, k), x)
  PROVE  /\ n \in MemoryOf(I, H)
         /\ \A i \in I :
              n.next[i] = IF i = x /\ k # Len(s) THEN After(s, k)
                          ELSE IF i = Before(s, k) THEN x ELSE m.next[i]
         /\ \A i \in I :
              n.prev[i] = IF i = After(s, k) THEN x
                          ELSE IF i = x /\ k # 0 THEN Before(s, k) ELSE m.prev[i]
         /\ \A g \in H :
              /\ n.first[g] = IF g = h /\ k = 0 THEN x ELSE m.first[g]
              /\ n.last[g] = IF g = h /\ k = Len(s) THEN x ELSE m.last[g]
              /\ n.size[g] = IF g = h THEN m.size[g] + 1 ELSE m.size[g]
  <1> DEFINE b == Before(s, k)
             a == After(s, k)
  <1>1. /\ b \in I \cup {NULL} /\ a \in I \cup {NULL}
        /\ b = NULL <=> k = 0
        /\ a = NULL <=> k = Len(s)
        /\ (IF b # NULL THEN m.next[b] ELSE m.first[h]) = a
    BY NeighboursInMemory
  <1> HIDE DEF a, b
  <1>2. n = [next |-> [i \in DOMAIN m.next |->
                       IF i = x /\ a # NULL THEN a ELSE IF i = b THEN x ELSE m.next[i]],
             prev |-> [i \in DOMAIN m.prev |->
                       IF i = a THEN x ELSE IF i = x /\ b # NULL THEN b ELSE m.prev[i]],
             first |-> [m.first EXCEPT ![h] = IF b = NULL THEN x ELSE @],
             last |-> [m.last EXCEPT ![h] = IF a = NULL THEN x ELSE @],
             size |-> [m.size EXCEPT ![h] = @ + 1]]
    BY <1>1 DEF List_insert, b
  <1>3. DOMAIN m.prev = I /\ DOMAIN m.next = I
    BY DEF MemoryOf
  <1>5. n \in MemoryOf(I, H)
    BY <1>1, <1>2, <1>3 DEF MemoryOf
  <1> QED BY <1>1, <1>2, <1>3, <1>5 DEF MemoryOf, a, b

LEMMA InsertChains ==
  ASSUME NEW I, NEW H, NULL \notin I, NEW m \in MemoryOf(I, H), NEW h \in H, NEW s \in Seq(I),
         NEW k \in 0 .. Len(s), Chained(m, s), k = 0 => m.first[h] = After(s, 0), NEW x \in I,
         x \notin Elements(s), m.next[x] = NULL, m.prev[x] = NULL,
         NEW n, n = List_insert(m, h, Before(s, k), x)
  PROVE  Chained(n, InsertAfter(s, k, x))
  <1> DEFINE t == InsertAfter(s, k, x)
  <1>1. /\ t \in Seq(I)
        /\ Len(t) = Len(s) + 1
        /\ \A i \in 1 .. Len(s) + 1 :
             t[i] = IF i <= k THEN s[i] ELSE IF i = k + 1 THEN x ELSE s[i - 1]
    BY InsertAfterSeq
  <1> HIDE DEF t
  <1>2. /\ \A i \in I :
             n.next[i] = IF i = x /\ k # Len(s) THEN After(s, k)
                         ELSE IF i = Before(s, k) THEN x ELSE m.next[i]
        /\ \A i \in I :
             n.prev[i] = IF i = After(s, k) THEN x
                         ELSE IF i = x /\ k # 0 THEN Before(s, k) ELSE m.prev[i]
    BY InsertFields
  <1>3. \A i \in 1 .. Len(s) : s[i] # x /\ s[i] \in I
    BY DEF Elements
  <1>4. \A i, j \in 1 .. Len(s) : s[i] = s[j] => i = j
    BY DEF Chained, Distinct
  <1>5. Distinct(t)
    <2> SUFFICES ASSUME NEW i \in 1 .. Len(t), NEW j \in 1 .. Len(t), t[i] = t[j]
                 PROVE  i = j
      BY DEF Distinct
    <2> DEFINE Was(p) == IF p <= k THEN p ELSE p - 1
    <2>1. \A p \in 1 .. Len(t) :
            /\ p # k + 1 => t[p] = s[Was(p)] /\ Was(p) \in 1 .. Len(s)
            /\ p = k + 1 => t[p] = x
      BY <1>1
    <2>2. \A p, q \in 1 .. Len(t) :
            p # k + 1 /\ q # k + 1 /\ Was(p) = Was(q) => p = q
      BY <1>1
    <2> HIDE DEF Was
    <2>3. i = k + 1 <=> j = k + 1
      BY <1>3, <2>1
    <2>4. CASE i # k + 1
      <3>1. s[Was(i)] = s[Was(j)]
        BY <2>1, <2>3, <2>4
      <3>2. Was(i) = Was(j)
        BY <1>4, <2>1, <2>3, <2>4, <3>1
      <3> QED BY <2>2, <2>3, <2>4, <3>2
    <2> QED BY <2>3, <2>4
  <1>8. ASSUME NEW i \in 1 .. Len(t)
        PROVE  n.next[t[i]] = IF i = Len(t) THEN NULL ELSE t[i + 1]
    <2>1. CASE i < k
      <3>1. t[i] = s[i] /\ t[i + 1] = s[i + 1] /\ i # Len(t) /\ i # Len(s)
        BY <1>1, <2>1
      <3>2. s[i] # s[k] /\ s[i] # x /\ s[i] \in I /\ Before(s, k) = s[k]
        BY <1>3, <1>4, <2>1 DEF Before
      <3>3. m.next[s[i]] = s[i + 1]
        BY <2>1, <3>1 DEF Chained
      <3> QED BY <1>2, <3>1, <3>2, <3>3
    <2>2. CASE i = k
      <3>1. t[i] = s[i] /\ t[i + 1] = x /\ i # Len(t)
        BY <1>1, <2>2
      <3>2. s[i] # x /\ s[i] \in I /\ Before(s, k) = s[i]
        BY <1>3, <2>2 DEF Before
      <3> QED BY <1>2, <3>1, <3>2
    <2>3. CASE i = k + 1
      <3>1. t[i] = x /\ x # Before(s, k)
        BY <1>1, <1>3, <2>3 DEF Before
      <3>2. CASE k = Len(s)
        BY <1>1, <1>2, <2>3, <3>1, <3>2
      <3>3. CASE k # Len(s)
        <4>1. t[i + 1] = s[k + 1] /\ i # Len(t)
          BY <1>1, <2>3, <3>3
        <4> QED BY <1>2, <3>1, <3>3, <4>1 DEF After
      <3> QED BY <3>2, <3>3
    <2>4. CASE i > k + 1
      <3>1. t[i] = s[i - 1] /\ i - 1 \in 1 .. Len(s)
        BY <1>1, <2>4
      <3>2. s[i - 1] # x /\ s[i - 1] \in I /\ s[i - 1] # Before(s, k)
        BY <1>3, <1>4, <2>4, <3>1 DEF Before
      <3>3. n.next[t[i]] = m.next[s[i - 1]]
        BY <1>2, <3>1, <3>2
      <3>4. m.next[s[i - 1]] = IF i - 1 = Len(s) THEN NULL ELSE s[i - 1 + 1]
        BY <3>1 DEF Chained
      <3>5. ASSUME i # Len(t) PROVE t[i + 1] = s[i]
        <4>0. Len(s) \in Nat /\ Len(t) = Len(s) + 1 /\ i \in Int /\ k \in Int
          BY <1>1, LenProperties
        <4>1. i + 1 \in 1 .. Len(s) + 1 /\ ~(i + 1 <= k) /\ i + 1 # k + 1
          BY <4>0, <2>4, <3>5
        <4>2. t[i + 1] = s[i + 1 - 1]
          BY <1>1, <4>1
        <4> QED BY <4>0, <4>2
      <3> QED BY <1>1, <3>3, <3>4, <3>5
    <2> QED BY <2>1, <2>2, <2>3, <2>4
  <1>9. ASSUME NEW i \in 1 .. Len(t)
        PROVE  n.prev[t[i]] = IF i = 1 THEN NULL ELSE t[i - 1]
    <2>1. CASE i <= k
      <3>1. t[i] = s[i] /\ i \in 1 .. Len(s)
        BY <1>1, <2>1
      <3>2. s[i] # x /\ s[i] \in I /\ s[i] # After(s, k)
        BY <1>3, <1>4, <2>1, <3>1 DEF After
      <3>3. n.prev[t[i]] = m.prev[s[i]]
        BY <1>2, <3>1, <3>2
      <3>4. m.prev[s[i]] = IF i = 1 THEN NULL ELSE s[i - 1]
        BY <3>1 DEF Chained
      <3>5. i # 1 => t[i - 1] = s[i - 1]
        BY <1>1, <2>1
      <3> QED BY <3>3, <3>4, <3>5
    <2>2. CASE i = k + 1
      <3>1. t[i] = x /\ x # After(s, k)
        BY <1>1, <1>3, <2>2 DEF After
      <3>2. CASE k = 0
        BY <1>2, <2>2, <3>1, <3>2
      <3>3. CASE k # 0
        <4>1. t[i - 1] = s[k] /\ i # 1
          BY <1>1, <2>2, <3>3
        <4> QED BY <1>2, <3>1, <3>3, <4>1 DEF Before
      <3> QED BY <3>2, <3>3
    <2>3. CASE i = k + 2
      <3>1. t[i] = s[k + 1] /\ t[i - 1] = x /\ i # 1 /\ k # Len(s)
        BY <1>1, <2>3
      <3>2. After(s, k) = s[k + 1] /\ s[k + 1] \in I
        BY <1>3, <3>1 DEF After
      <3> QED BY <1>2, <3>1, <3>2
    <2>4. CASE i > k + 2
      <3>1. /\ t[i] = s[i - 1] /\ i - 1 \in 1 .. Len(s) /\ i # 1
            /\ t[i - 1] = s[i - 1 - 1]
        <4>1. i - 1 \in 1 .. Len(s) + 1 /\ i - 1 > k + 1
          BY <1>1, <2>4
        <4> QED BY <1>1, <2>4, <4>1
      <3>2. s[i - 1] # x /\ s[i - 1] \in I /\ s[i - 1] # After(s, k)
        BY <1>3, <1>4, <2>4, <3>1 DEF After
      <3>3. m.prev[s[i - 1]] = s[i - 1 - 1]
        BY <2>4, <3>1 DEF Chained
      <3> QED BY <1>2, <3>1, <3>2, <3>3
    <2> QED BY <2>1, <2>2, <2>3, <2>4
  <1>10. Chained(n, t)
    BY <1>5, <1>8, <1>9 DEF Chained
  <1> QED BY <1>10 DEF t

LEMMA RepresentsIs ==
  ASSUME NEW m, NEW h, NEW s
  PROVE  Represents(m, h, s) <=>
           /\ Chained(m, s)
           /\ m.size[h] = Len(s)
           /\ m.first[h] = IF s = <<>> THEN NULL ELSE s[1]
           /\ m.last[h] = IF s = <<>> THEN NULL ELSE s[Len(s)]
  BY DEF Represents, Chained

LEMMA InsertRepresents ==
  ASSUME NEW I, NEW H, NULL \notin I, NEW m \in MemoryOf(I, H), NEW h \in H, NEW s \in Seq(I),
         NEW k \in 0 .. Len(s), Represents(m, h, s), NEW x \in I,
         x \notin Elements(s), m.next[x] = NULL, m.prev[x] = NULL,
         NEW n, n = List_insert(m, h, Before(s, k), x)
  PROVE  Represents(n, h, InsertAfter(s, k, x))
  <1> DEFINE t == InsertAfter(s, k, x)
  <1>1. /\ t \in Seq(I)
        /\ Len(t) = Len(s) + 1
        /\ \A i \in 1 .. Len(s) + 1 :
             t[i] = IF i <= k THEN s[i] ELSE IF i = k + 1 THEN x ELSE s[i - 1]
    BY InsertAfterSeq
  <1>2. Chained(m, s) /\ (k = 0 => m.first[h] = After(s, 0))
    BY DEF Represents, Chained, After
  <1>3. Chained(n, t)
    BY <1>2, InsertChains
  <1> HIDE DEF t
  <1>4. /\ n.first[h] = IF k = 0 THEN x ELSE m.first[h]
        /\ n.last[h] = IF k = Len(s) THEN x ELSE m.last[h]
        /\ n.size[h] = m.size[h] + 1
    BY <1>2, InsertFields
  <1>5. /\ n.size[h] = Len(t)
        /\ t # <<>>
        /\ n.first[h] = t[1]
    BY <1>1, <1>4 DEF Represents
  <1>6. n.last[h] = t[Len(t)]
    BY <1>1, <1>4 DEF Represents
  <1>7. Represents(n, h, t)
    BY <1>3, <1>5, <1>6, RepresentsIs
  <1> QED BY <1>7 DEF t

\* A call leaves every list alone whose items keep their pointers.
LEMMA OtherChain ==
  ASSUME NEW m, NEW n, NEW s, Chained(m, s),
         \A i \in Elements(s) : n.next[i] = m.next[i] /\ n.prev[i] = m.prev[i]
  PROVE  Chained(n, s)
  <1>1. \A i \in 1 .. Len(s) : s[i] \in Elements(s)
    BY DEF Elements
  <1> QED BY <1>1 DEF Chained

LEMMA OtherList ==
  ASSUME NEW m, NEW n, NEW g, NEW s, Represents(m, g, s),
         n.first[g] = m.first[g], n.last[g] = m.last[g], n.size[g] = m.size[g],
         \A i \in Elements(s) : n.next[i] = m.next[i] /\ n.prev[i] = m.prev[i]
  PROVE  Represents(n, g, s)
  <1>1. \A i \in 1 .. Len(s) : s[i] \in Elements(s)
    BY DEF Elements
  <1> QED BY <1>1 DEF Represents

\* The fields after the k-th item of s has been detached.
LEMMA DetachFields ==
  ASSUME NEW I, NEW H, NULL \notin I, NEW m \in MemoryOf(I, H), NEW h \in H, NEW s \in Seq(I),
         NEW k \in 1 .. Len(s), Chained(m, s), m.size[h] > 0,
         NEW n, n = List_detach(m, h, s[k])
  PROVE  /\ n \in MemoryOf(I, H)
         /\ \A i \in I :
              n.next[i] = IF i = s[k] THEN NULL
                          ELSE IF i = Before(s, k - 1) THEN After(s, k) ELSE m.next[i]
         /\ \A i \in I :
              n.prev[i] = IF i = s[k] THEN NULL
                          ELSE IF i = After(s, k) THEN Before(s, k - 1) ELSE m.prev[i]
         /\ \A g \in H :
              /\ n.first[g] = IF g = h /\ m.first[h] = s[k] THEN After(s, k) ELSE m.first[g]
              /\ n.last[g] = IF g = h /\ m.last[h] = s[k] THEN Before(s, k - 1)
                             ELSE m.last[g]
              /\ n.size[g] = IF g = h THEN m.size[g] - 1 ELSE m.size[g]
  <1> DEFINE b == Before(s, k - 1)
             a == After(s, k)
             x == s[k]
  <1>1. /\ x \in I
        /\ b \in I \cup {NULL} /\ a \in I \cup {NULL}
        /\ m.prev[x] = b /\ m.next[x] = a
    <2>1. b \in I \cup {NULL} /\ a \in I \cup {NULL}
      BY DEF Before, After
    <2>2. m.prev[x] = b /\ m.next[x] = a
      BY DEF Chained, Before, After
    <2> QED BY <2>1, <2>2
  <1>4. m.size[h] - 1 \in Nat
    BY DEF MemoryOf
  <1> HIDE DEF a, b, x
  <1>5. n = [next |-> [i \in DOMAIN m.next |->
                       IF i = x THEN NULL ELSE IF i = b THEN a ELSE m.next[i]],
             prev |-> [i \in DOMAIN m.prev |->
                       IF i = x THEN NULL ELSE IF i = a THEN b ELSE m.prev[i]],
             first |-> [m.first EXCEPT ![h] = IF x = @ THEN a ELSE @],
             last |-> [m.last EXCEPT ![h] = IF x = @ THEN b ELSE @],
             size |-> [m.size EXCEPT ![h] = @ - 1]]
    BY <1>1 DEF List_detach, x
  <1>6. DOMAIN m.prev = I /\ DOMAIN m.next = I
    BY DEF MemoryOf
  <1>7. n \in MemoryOf(I, H)
    BY <1>1, <1>4, <1>5, <1>6 DEF MemoryOf
  <1> QED BY <1>1, <1>5, <1>6, <1>7 DEF MemoryOf, a, b, x

LEMMA DetachChains ==
  ASSUME NEW I, NEW H, NULL \notin I, NEW m \in MemoryOf(I, H), NEW h \in H, NEW s \in Seq(I),
         NEW k \in 1 .. Len(s), Chained(m, s), m.size[h] > 0,
         NEW n, n = List_detach(m, h, s[k])
  PROVE  Chained(n, DetachAt(s, k))
  <1> DEFINE t == DetachAt(s, k)
  <1>1. /\ t \in Seq(I)
        /\ Len(t) = Len(s) - 1
        /\ \A i \in 1 .. Len(s) - 1 : t[i] = IF i < k THEN s[i] ELSE s[i + 1]
    BY DetachAtSeq
  <1> HIDE DEF t
  <1>2. /\ \A i \in I :
             n.next[i] = IF i = s[k] THEN NULL
                         ELSE IF i = Before(s, k - 1) THEN After(s, k) ELSE m.next[i]
        /\ \A i \in I :
             n.prev[i] = IF i = s[k] THEN NULL
                         ELSE IF i = After(s, k) THEN Before(s, k - 1) ELSE m.prev[i]
    BY DetachFields
  <1>3. \A i \in 1 .. Len(s) : s[i] \in I
    OBVIOUS
  <1>4. \A i, j \in 1 .. Len(s) : s[i] = s[j] => i = j
    BY DEF Chained, Distinct
  <1>5. Distinct(t)
    <2> SUFFICES ASSUME NEW i \in 1 .. Len(t), NEW j \in 1 .. Len(t), t[i] = t[j]
                 PROVE  i = j
      BY DEF Distinct
    <2> DEFINE Was(p) == IF p < k THEN p ELSE p + 1
    <2>1. \A p \in 1 .. Len(t) : t[p] = s[Was(p)] /\ Was(p) \in 1 .. Len(s)
      BY <1>1
    <2>2. \A p, q \in 1 .. Len(t) : Was(p) = Was(q) => p = q
      BY <1>1
    <2> HIDE DEF Was
    <2>3. Was(i) = Was(j)
      BY <1>4, <2>1
    <2> QED BY <2>2, <2>3
  <1>8. ASSUME NEW i \in 1 .. Len(t)
        PROVE  n.next[t[i]] = IF i = Len(t) THEN NULL ELSE t[i + 1]
    <2>1. CASE i < k - 1
      <3>1. t[i] = s[i] /\ t[i + 1] = s[i + 1] /\ i # Len(t) /\ i # Len(s)
        BY <1>1, <2>1
      <3>2. s[i] # s[k] /\ s[i] \in I /\ s[i] # Before(s, k - 1)
        BY <1>1, <1>3, <1>4, <2>1 DEF Before
      <3>3. m.next[s[i]] = s[i + 1]
        BY <1>1, <3>1 DEF Chained
      <3> QED BY <1>2, <3>1, <3>2, <3>3
    <2>2. CASE i = k - 1
      <3>1. t[i] = s[i] /\ s[i] # s[k] /\ s[i] \in I /\ Before(s, k - 1) = s[i]
        BY <1>1, <1>3, <1>4, <2>2 DEF Before
      <3>2. n.next[t[i]] = After(s, k)
        BY <1>2, <3>1
      <3>3. After(s, k) = IF i = Len(t) THEN NULL ELSE t[i + 1]
        BY <1>1, <2>2 DEF After
      <3> QED BY <3>2, <3>3
    <2>3. CASE i > k - 1
      <3>1. t[i] = s[i + 1] /\ i + 1 \in 1 .. Len(s)
        BY <1>1, <2>3
      <3>2. s[i + 1] # s[k] /\ s[i + 1] \in I /\ s[i + 1] # Before(s, k - 1)
        BY <1>3, <1>4, <2>3, <3>1 DEF Before
      <3>3. m.next[s[i + 1]] = IF i + 1 = Len(s) THEN NULL ELSE s[i + 1 + 1]
        BY <3>1 DEF Chained
      <3>4. i # Len(t) => t[i + 1] = s[i + 1 + 1]
        BY <1>1, <2>3
      <3>5. n.next[t[i]] = m.next[s[i + 1]]
        BY <1>2, <3>1, <3>2
      <3> QED BY <1>1, <3>3, <3>4, <3>5
    <2> QED BY <2>1, <2>2, <2>3
  <1>9. ASSUME NEW i \in 1 .. Len(t)
        PROVE  n.prev[t[i]] = IF i = 1 THEN NULL ELSE t[i - 1]
    <2>1. CASE i < k
      <3>1. t[i] = s[i] /\ i \in 1 .. Len(s)
        BY <1>1, <2>1
      <3>2. s[i] # s[k] /\ s[i] \in I /\ s[i] # After(s, k)
        BY <1>3, <1>4, <2>1, <3>1 DEF After
      <3>3. m.prev[s[i]] = IF i = 1 THEN NULL ELSE s[i - 1]
        BY <3>1 DEF Chained
      <3>4. i # 1 => t[i - 1] = s[i - 1]
        BY <1>1, <2>1
      <3> QED BY <1>2, <3>1, <3>2, <3>3, <3>4
    <2>2. CASE i = k
      <3>1. /\ t[i] = s[k + 1] /\ s[k + 1] # s[k] /\ s[k + 1] \in I
            /\ After(s, k) = s[k + 1]
        BY <1>1, <1>3, <1>4, <2>2 DEF After
      <3>2. n.prev[t[i]] = Before(s, k - 1)
        BY <1>2, <3>1
      <3>3. Before(s, k - 1) = IF i = 1 THEN NULL ELSE t[i - 1]
        BY <1>1, <2>2 DEF Before
      <3> QED BY <3>2, <3>3
    <2>3. CASE i > k
      <3>1. t[i] = s[i + 1] /\ i + 1 \in 1 .. Len(s) /\ i # 1
        BY <1>1, <2>3
      <3>2. s[i + 1] # s[k] /\ s[i + 1] \in I /\ s[i + 1] # After(s, k)
        BY <1>3, <1>4, <2>3, <3>1 DEF After
      <3>3. m.prev[s[i + 1]] = s[i]
        BY <2>3, <3>1 DEF Chained
      <3>4. t[i - 1] = s[i]
        BY <1>1, <2>3
      <3> QED BY <1>2, <3>1, <3>2, <3>3, <3>4
    <2> QED BY <2>1, <2>2, <2>3
  <1>10. Chained(n, t)
    BY <1>5, <1>8, <1>9 DEF Chained
  <1> QED BY <1>10 DEF t
LEMMA DetachRepresents ==
  ASSUME NEW I, NEW H, NULL \notin I, NEW m \in MemoryOf(I, H), NEW h \in H, NEW s \in Seq(I),
         NEW k \in 1 .. Len(s), Represents(m, h, s),
         NEW n, n = List_detach(m, h, s[k])
  PROVE  Represents(n, h, DetachAt(s, k))
  <1> DEFINE t == DetachAt(s, k)
  <1>1. /\ t \in Seq(I)
        /\ Len(t) = Len(s) - 1
        /\ \A i \in 1 .. Len(s) - 1 : t[i] = IF i < k THEN s[i] ELSE s[i + 1]
    BY DetachAtSeq
  <1>2. Chained(m, s) /\ m.size[h] > 0
    BY DEF Represents, Chained
  <1>3. Chained(n, t)
    BY <1>2, DetachChains
  <1>4. m.first[h] = s[k] <=> k = 1
    BY DEF Represents, Distinct
  <1>5. m.last[h] = s[k] <=> k = Len(s)
    BY DEF Represents, Distinct
  <1> HIDE DEF t
  <1>6. /\ n.first[h] = IF k = 1 THEN After(s, k) ELSE m.first[h]
        /\ n.last[h] = IF k = Len(s) THEN Before(s, k - 1) ELSE m.last[h]
        /\ n.size[h] = m.size[h] - 1
    BY <1>2, <1>4, <1>5, DetachFields
  <1>7. /\ n.size[h] = Len(t)
        /\ n.first[h] = IF t = <<>> THEN NULL ELSE t[1]
    BY <1>1, <1>6 DEF Represents, After
  <1>8. n.last[h] = IF t = <<>> THEN NULL ELSE t[Len(t)]
    BY <1>1, <1>6 DEF Represents, Before
  <1>9. Represents(n, h, t)
    BY <1>3, <1>7, <1>8, RepresentsIs
  <1> QED BY <1>9 DEF t

LEMMA AfterIs ==
  ASSUME NEW S, NEW s \in Seq(S), NEW k \in 0 .. Len(s)
  PROVE  After(s, k) \in Elements(s) \cup {NULL}
  <1>1. Len(s) \in Nat /\ k \in Nat
    OBVIOUS
  <1>2. k # Len(s) => k + 1 \in 1 .. Len(s)
    BY <1>1
  <1> QED BY <1>2 DEF After, Elements

\* n chains the items of s and, somewhere behind the first of them, x.
GrownBehind(n, s, x, I) ==
  \E T \in Seq(I) :
     /\ Chained(n, T) /\ T # <<>> /\ T[1] = s[1]
     /\ Elements(T) = Elements(s) \cup {x}

\* The same in front of s.
GrownInFront(n, s, x, I) ==
  \E T \in Seq(I) :
     /\ Chained(n, T) /\ T # <<>> /\ T[1] = x
     /\ Elements(T) = Elements(s) \cup {x}
     /\ s = <<>> => T = <<x>>

\* Only the items of s, x and the head h may differ between the two memories.
SameOutside(m, n, s, x, h, I, H) ==
  /\ \A i \in I \ (Elements(s) \cup {x}) : n.next[i] = m.next[i] /\ n.prev[i] = m.prev[i]
  /\ \A g \in H \ {h} : /\ n.first[g] = m.first[g]
                        /\ n.last[g] = m.last[g] /\ n.size[g] = m.size[g]

\* An insertion behind the first item of a chain: the chain grows, and nothing
\* else changes but the fields of h.
LEMMA InsertSecond ==
  ASSUME NEW I, NEW H, NULL \notin I, NEW m \in MemoryOf(I, H), NEW h \in H,
         NEW s \in Seq(I), s # <<>>, Chained(m, s), NEW x \in I, x \notin Elements(s),
         m.next[x] = NULL, m.prev[x] = NULL, NEW n, n = List_insert(m, h, s[1], x)
  PROVE  /\ n \in MemoryOf(I, H)
         /\ GrownBehind(n, s, x, I)
         /\ SameOutside(m, n, s, x, h, I, H)
         /\ n.first[h] = m.first[h]
         /\ n.size[h] = m.size[h] + 1
         /\ Len(s) > 1 => n.last[h] = m.last[h]
  <1> DEFINE k == 1
             T == InsertAfter(s, k, x)
  <1>1. Len(s) \in Nat /\ 1 \in 1 .. Len(s) /\ 1 \in 0 .. Len(s)
    OBVIOUS
  <1>2. k \in 0 .. Len(s) /\ k # 0 /\ s[1] \in Elements(s) /\ Before(s, k) = s[1] /\ k \in Nat
    BY <1>1 DEF Before, Elements
  <1>3. After(s, k) \in Elements(s) \cup {NULL}
    BY <1>2, AfterIs
  <1>4. /\ T \in Seq(I) /\ Len(T) = Len(s) + 1 /\ T[1] = s[1] /\ Elements(T) = Elements(s) \cup {x}
    <2>1. /\ T \in Seq(I) /\ Len(T) = Len(s) + 1
          /\ \A i \in 1 .. Len(s) + 1 :
               T[i] = IF i <= k THEN s[i] ELSE IF i = k + 1 THEN x ELSE s[i - 1]
      <3> HIDE DEF k
      <3> QED BY <1>2, InsertAfterSeq
    <2>2. Elements(T) = Elements(s) \cup {x}
      <3> HIDE DEF k
      <3> QED BY <1>2, InsertAfterElements
    <2> HIDE DEF T
    <2> QED BY <1>1, <2>1, <2>2
  <1> HIDE DEF k, T
  <1>5. n = List_insert(m, h, Before(s, k), x) /\ (k = 0 => m.first[h] = After(s, 0))
    BY <1>2
  <1>6. Chained(n, T)
    BY <1>2, <1>5, InsertChains DEF T
  <1>7. /\ n \in MemoryOf(I, H)
        /\ \A i \in I :
              n.next[i] = IF i = x /\ k # Len(s) THEN After(s, k)
                          ELSE IF i = Before(s, k) THEN x ELSE m.next[i]
        /\ \A i \in I :
              n.prev[i] = IF i = After(s, k) THEN x
                          ELSE IF i = x /\ k # 0 THEN Before(s, k) ELSE m.prev[i]
        /\ \A g \in H :
              /\ n.first[g] = IF g = h /\ k = 0 THEN x ELSE m.first[g]
              /\ n.last[g] = IF g = h /\ k = Len(s) THEN x ELSE m.last[g]
              /\ n.size[g] = IF g = h THEN m.size[g] + 1 ELSE m.size[g]
    BY <1>2, <1>5, InsertFields
  <1>8. T # <<>>
    BY <1>1, <1>4
  <1>9. GrownBehind(n, s, x, I)
    BY <1>4, <1>6, <1>8 DEF GrownBehind
  <1>10. SameOutside(m, n, s, x, h, I, H)
    BY <1>2, <1>3, <1>7 DEF SameOutside
  <1>11. Len(s) > 1 => k # Len(s)
    BY <1>1 DEF k
  <1> QED BY <1>2, <1>7, <1>9, <1>10, <1>11

\* The same in front of the chain of h, and what becomes of the tail pointer.
LEMMA InsertFront ==
  ASSUME NEW I, NEW H, NULL \notin I, NEW m \in MemoryOf(I, H), NEW h \in H,
         NEW s \in Seq(I), Chained(m, s), m.first[h] = After(s, 0),
         NEW x \in I, x \notin Elements(s),
         m.next[x] = NULL, m.prev[x] = NULL, NEW n, n = List_insert(m, h, NULL, x)
  PROVE  /\ n \in MemoryOf(I, H)
         /\ GrownInFront(n, s, x, I)
         /\ SameOutside(m, n, s, x, h, I, H)
         /\ n.first[h] = x /\ n.size[h] = m.size[h] + 1
         /\ n.last[h] = IF s = <<>> THEN x ELSE m.last[h]
  <1> DEFINE k == 0
             T == InsertAfter(s, k, x)
  <1>1. Len(s) \in Nat /\ 0 \in 0 .. Len(s) /\ (Len(s) = 0 <=> s = <<>>)
    OBVIOUS
  <1>2. k \in 0 .. Len(s) /\ k = 0 /\ Before(s, k) = NULL
    BY <1>1 DEF Before
  <1>3. After(s, k) \in Elements(s) \cup {NULL}
    BY <1>2, AfterIs
  <1>4. /\ T \in Seq(I) /\ Len(T) = Len(s) + 1 /\ T[1] = x /\ Elements(T) = Elements(s) \cup {x}
    <2>1. /\ T \in Seq(I) /\ Len(T) = Len(s) + 1
          /\ \A i \in 1 .. Len(s) + 1 :
               T[i] = IF i <= k THEN s[i] ELSE IF i = k + 1 THEN x ELSE s[i - 1]
      <3> HIDE DEF k
      <3> QED BY <1>2, InsertAfterSeq
    <2>2. Elements(T) = Elements(s) \cup {x}
      <3> HIDE DEF k
      <3> QED BY <1>2, InsertAfterElements
    <2> HIDE DEF T
    <2> QED BY <1>1, <2>1, <2>2
  <1> HIDE DEF k, T
  <1>5. n = List_insert(m, h, Before(s, k), x) /\ (k = 0 => m.first[h] = After(s, 0))
    BY <1>2
  <1>6. Chained(n, T)
    BY <1>2, <1>5, InsertChains DEF T
  <1>7. /\ n \in MemoryOf(I, H)
        /\ \A i \in I :
              n.next[i] = IF i = x /\ k # Len(s) THEN After(s, k)
                          ELSE IF i = Before(s, k) THEN x ELSE m.next[i]
        /\ \A i \in I :
              n.prev[i] = IF i = After(s, k) THEN x
                          ELSE IF i = x /\ k # 0 THEN Before(s, k) ELSE m.prev[i]
        /\ \A g \in H :
              /\ n.first[g] = IF g = h /\ k = 0 THEN x ELSE m.first[g]
              /\ n.last[g] = IF g = h /\ k = Len(s) THEN x ELSE m.last[g]
              /\ n.size[g] = IF g = h THEN m.size[g] + 1 ELSE m.size[g]
    BY <1>2, <1>5, InsertFields
  <1>8. T # <<>> /\ (s = <<>> => T = <<x>>)
    BY <1>1, <1>4
  <1>9. GrownInFront(n, s, x, I)
    BY <1>4, <1>6, <1>8 DEF GrownInFront
  <1>10. SameOutside(m, n, s, x, h, I, H)
    BY <1>2, <1>3, <1>7 DEF SameOutside
  <1> QED BY <1>1, <1>2, <1>7, <1>9, <1>10

\* The first item of a list leaves it.
LEMMA HeadDetached ==
  ASSUME NEW I, NEW H, NULL \notin I, NEW m \in MemoryOf(I, H), NEW h \in H,
         NEW s \in Seq(I), s # <<>>, Represents(m, h, s),
         NEW n, n = List_detach(m, h, m.first[h])
  PROVE  /\ m.first[h] = Head(s)
         /\ n \in MemoryOf(I, H)
         /\ Represents(n, h, Tail(s))
         /\ n.next[Head(s)] = NULL /\ n.prev[Head(s)] = NULL
         /\ SameOutside(m, n, s, Head(s), h, I, H)
  <1> DEFINE k == IndexIn(s, Head(s))
  <1>1. /\ Head(s) = s[1] /\ Head(s) \in Elements(s) /\ Head(s) \in I
        /\ Len(s) \in Nat /\ Len(s) # 0 /\ 1 \in 1 .. Len(s)
    BY ElementsType
  <1>2. /\ k \in 1 .. Len(s) /\ s[k] = Head(s)
    BY <1>1, IndexInList
  <1>3. /\ Distinct(s) /\ Chained(m, s) /\ m.size[h] > 0 /\ m.first[h] = Head(s)
    BY <1>1, RepresentsIs DEF Represents
  <1>4. k = 1
    BY <1>1, <1>2, <1>3 DEF Distinct
  <1> HIDE DEF k
  <1>5. n = List_detach(m, h, s[k])
    BY <1>2, <1>3
  <1>6. Represents(n, h, Tail(s))
    <2>1. Represents(n, h, DetachAt(s, k))
      BY <1>2, <1>5, DetachRepresents
    <2> QED BY <1>3, <2>1, DetachHead DEF k
  <1>7. /\ n \in MemoryOf(I, H)
        /\ \A i \in I :
             n.next[i] = IF i = s[k] THEN NULL
                         ELSE IF i = Before(s, k - 1) THEN After(s, k) ELSE m.next[i]
        /\ \A i \in I :
             n.prev[i] = IF i = s[k] THEN NULL
                         ELSE IF i = After(s, k) THEN Before(s, k - 1) ELSE m.prev[i]
        /\ \A g \in H :
             /\ n.first[g] = IF g = h /\ m.first[h] = s[k] THEN After(s, k) ELSE m.first[g]
             /\ n.last[g] = IF g = h /\ m.last[h] = s[k] THEN Before(s, k - 1)
                            ELSE m.last[g]
             /\ n.size[g] = IF g = h THEN m.size[g] - 1 ELSE m.size[g]
    BY <1>2, <1>3, <1>5, DetachFields
  <1>8. After(s, k) \in Elements(s) \cup {NULL} /\ Before(s, k - 1) = NULL
    <2>1. k \in 0 .. Len(s) /\ k - 1 = 0
      BY <1>1, <1>4
    <2> QED BY <2>1, AfterIs DEF Before
  <1>9. SameOutside(m, n, s, Head(s), h, I, H)
    BY <1>1, <1>2, <1>7, <1>8 DEF SameOutside
  <1> QED BY <1>1, <1>2, <1>3, <1>6, <1>7, <1>9
=============================================================================
