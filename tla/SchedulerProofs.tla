--------------------------- MODULE SchedulerProofs ---------------------------
(***************************************************************************)
(* For any number of processes, any sleeping times and any arguments of    *)
(* wait: the safety properties of the process table.                       *)
(***************************************************************************)
EXTENDS Scheduler, LinkedListProofs, FiniteSetTheorems

Run == {running} \ {NULL}
Kids == UNION {Elements(children[p]) : p \in Live}
Timers == [pcb : Blocks, left : Int]

-----------------------------------------------------------------------------
(* The inductive invariant.  Its first part, Core, is all that the steps of the
   process table need to keep themselves and Placement going; module Semaphores,
   whose processes block with any status, keeps it too. *)

\* What the status of a block says of its place, and no more
StatusFits ==
  /\ \A b \in Elements(ready_list) \cup Run \cup abandoned :
       status[b] \in {"Running", "Ready"}
  /\ \A b \in waiting_list : status[b] \in {"Waiting", "Running", "Ready"}
  /\ \A b \in zombie_list : status[b] = "Zombie"
  /\ \A b \in Free : status[b] \in {"Created", "Zombie"}

\* A sleeper has one timer, and exit does not take it for a process in wait.
SleepersApart ==
  /\ Asleep \subseteq waiting_list
  /\ \A i, j \in 1 .. Len(timer_list) :
       timer_list[i].pcb = timer_list[j].pcb => i = j
  /\ \A b \in Asleep : status[b] = "Waiting" /\ awaited[b] = NotWaiting

\* Reparenting always finds a process that cannot have exited.
InitLives == init_pcb \in Live \ zombie_list /\ parent[init_pcb] = NULL

\* Every child takes a PCBPtr; exit loses some of them.
PtrsCounted == ptr_free + Cardinality(Kids) <= MAX_NUM_PROCESSES

Core ==
  /\ TypeOK
  /\ Placement
  /\ StatusFits
  /\ SleepersApart
  /\ ChildrenAreLive
  /\ InitLives
  /\ PtrsCounted

\* A process that has a parent, a zombie in particular, is in the list of some
\* process that has not exited.
Adopted ==
  /\ \A b \in Live :
       parent[b] # NULL => \E p \in Live \ zombie_list : b \in Elements(children[p])
  /\ \A z \in zombie_list : parent[z] # NULL

\* Only those that disastrOS_start made hold children of others.
ListedByParent ==
  \A p \in Live : parent[p] # NULL => \A b \in Elements(children[p]) : parent[b] = p

PidsUnique ==
  /\ \A b \in Live : pid[b] < last_pid
  /\ \A b, c \in Live : pid[b] = pid[c] => b = c

USE SchedulerAssumption DEF NULL

-----------------------------------------------------------------------------
(* Placement, spelt out *)

Partition(A, B, C, D, E, F) ==
  /\ A \cup B \cup C \cup D \cup E \cup F = Blocks
  /\ A \cap (B \cup C \cup D \cup E \cup F) = {}
  /\ B \cap (C \cup D \cup E \cup F) = {}
  /\ C \cap (D \cup E \cup F) = {}
  /\ D \cap (E \cup F) = {}
  /\ E \cap F = {}

Placed == Partition(Run, Elements(ready_list), waiting_list, zombie_list, Free, abandoned)

LEMMA PlacementParts ==
  /\ Placement <=> Placed /\ Distinct(ready_list) /\ Distinct(pcb_free)
  /\ Placement' <=> Placed' /\ Distinct(ready_list)' /\ Distinct(pcb_free)'
  <1> DEFINE N == {"run", "ready", "wait", "zombie", "free", "lost"}
  <1>1. ASSUME NEW A, NEW B, NEW C, NEW D, NEW E, NEW F
        PROVE  LET P == [run |-> A, ready |-> B, wait |-> C, zombie |-> D,
                         free |-> E, lost |-> F]
               IN  Partition(A, B, C, D, E, F) <=>
                     /\ UNION {P[x] : x \in DOMAIN P} = Blocks
                     /\ \A x, y \in DOMAIN P : x # y => P[x] \cap P[y] = {}
    <2> DEFINE P == [run |-> A, ready |-> B, wait |-> C, zombie |-> D,
                     free |-> E, lost |-> F]
    <2>1. /\ DOMAIN P = N
          /\ P["run"] = A /\ P["ready"] = B /\ P["wait"] = C
          /\ P["zombie"] = D /\ P["free"] = E /\ P["lost"] = F
      OBVIOUS
    <2> HIDE DEF P
    <2>2. UNION {P[x] : x \in N} = A \cup B \cup C \cup D \cup E \cup F
      BY <2>1
    <2>3. (\A x, y \in N : x # y => P[x] \cap P[y] = {}) <=>
            /\ A \cap (B \cup C \cup D \cup E \cup F) = {}
            /\ B \cap (C \cup D \cup E \cup F) = {}
            /\ C \cap (D \cup E \cup F) = {}
            /\ D \cap (E \cup F) = {}
            /\ E \cap F = {}
      BY <2>1
    <2>4. Partition(A, B, C, D, E, F) <=>
            /\ UNION {P[x] : x \in DOMAIN P} = Blocks
            /\ \A x, y \in DOMAIN P : x # y => P[x] \cap P[y] = {}
      BY <2>1, <2>2, <2>3 DEF Partition
    <2> QED BY <2>4 DEF P
  <1> QED BY <1>1 DEF Placement, Placed, Places, Run

-----------------------------------------------------------------------------
(* Timers *)

LEMMA ElapsedCountIs ==
  ASSUME NEW s \in Seq(Timers)
  PROVE  /\ ElapsedCount(s) \in 0 .. Len(s)
         /\ \A i \in 1 .. ElapsedCount(s) : Elapsed(s[i])
         /\ ElapsedCount(s) < Len(s) => ~Elapsed(s[ElapsedCount(s) + 1])
  <1> DEFINE Stops == {k \in 0 .. Len(s) : k < Len(s) => ~Elapsed(s[k + 1])}
  <1>1. Stops \in SUBSET Nat /\ Len(s) \in Stops
    OBVIOUS
  <1>2. PICK m \in Stops : \A n \in Stops : m <= n
    BY <1>1, LeastNatural
  <1>3. ASSUME NEW i \in 1 .. m PROVE Elapsed(s[i])
    <2>1. i - 1 \in 0 .. Len(s) /\ i - 1 < Len(s) /\ i - 1 < m /\ (i - 1) + 1 = i
      OBVIOUS
    <2>2. i - 1 \notin Stops
      BY <2>1, <1>2
    <2> QED BY <2>1, <2>2
  <1>4. \E k \in 0 .. Len(s) :
          /\ \A i \in 1 .. k : Elapsed(s[i])
          /\ k < Len(s) => ~Elapsed(s[k + 1])
    BY <1>2, <1>3
  <1> QED BY <1>4 DEF ElapsedCount

LEMMA TimerFields == \A t \in Timers : t.pcb \in Blocks /\ t.left \in Int
  BY DEF Timers

LEMMA TimerAddIs ==
  ASSUME NEW s \in Seq(Timers), NEW ticks \in Int, NEW b
  PROVE  \E k \in 0 .. Len(s) :
           /\ \A i \in 1 .. k : s[i].left <= ticks
           /\ k < Len(s) => ticks < s[k + 1].left
           /\ TimerList_add(s, ticks, b) = InsertAfter(s, k, [pcb |-> b, left |-> ticks])
  <1> DEFINE Stops == {k \in 0 .. Len(s) : k < Len(s) => ticks < s[k + 1].left}
  <1>1. Stops \in SUBSET Nat /\ Len(s) \in Stops
    OBVIOUS
  <1>2. PICK m \in Stops : \A n \in Stops : m <= n
    BY <1>1, LeastNatural
  <1>3. ASSUME NEW i \in 1 .. m PROVE s[i].left <= ticks
    <2>1. i - 1 \in 0 .. Len(s) /\ i - 1 < Len(s) /\ i - 1 < m /\ (i - 1) + 1 = i
      OBVIOUS
    <2>2. i - 1 \notin Stops
      BY <2>1, <1>2
    <2>3. s[i] \in Timers
      BY <2>1
    <2> QED BY <2>1, <2>2, <2>3, TimerFields
  <1>4. \E k \in 0 .. Len(s) :
          /\ \A i \in 1 .. k : s[i].left <= ticks
          /\ k < Len(s) => ticks < s[k + 1].left
    BY <1>2, <1>3
  <1> QED BY <1>4 DEF TimerList_add

\* The processes that have a timer in s, each of them one
Sleeping(s) == {s[i].pcb : i \in 1 .. Len(s)}
OneTimerEach(s) == \A i, j \in 1 .. Len(s) : s[i].pcb = s[j].pcb => i = j

LEMMA TimersServed ==
  ASSUME NEW s \in Seq(Timers), OneTimerEach(s), NEW k \in 0 .. Len(s)
  PROVE  LET woken == [i \in 1 .. k |-> s[i].pcb]
             rest  == SubSeq(s, k + 1, Len(s))
         IN  /\ woken \in Seq(Blocks)
             /\ Len(woken) = k
             /\ Distinct(woken)
             /\ rest \in Seq(Timers)
             /\ Len(rest) = Len(s) - k
             /\ \A i \in 1 .. Len(rest) : rest[i] = s[i + k]
             /\ OneTimerEach(rest)
             /\ Sleeping(rest) = Sleeping(s) \ Elements(woken)
             /\ Elements(woken) \subseteq Sleeping(s)
  <1> DEFINE woken == [i \in 1 .. k |-> s[i].pcb]
             rest  == SubSeq(s, k + 1, Len(s))
  <1>1. \A i \in 1 .. Len(s) : s[i] \in Timers /\ s[i].pcb \in Blocks
    BY TimerFields
  <1>2. woken \in Seq(Blocks) /\ Len(woken) = k /\ \A i \in 1 .. k : woken[i] = s[i].pcb
    BY <1>1
  <1>3. /\ rest \in Seq(Timers)
        /\ Len(rest) = Len(s) - k
        /\ \A i \in 1 .. Len(rest) : rest[i] = s[i + k]
    <2>1. \A i \in k + 1 .. Len(s) : s[i] \in Timers
      BY <1>1
    <2>2. k + 1 \in Int /\ Len(s) \in Int
      OBVIOUS
    <2>3. /\ rest \in Seq(Timers)
          /\ Len(rest) = IF k + 1 <= Len(s) THEN Len(s) - (k + 1) + 1 ELSE 0
          /\ \A i \in 1 .. Len(s) - (k + 1) + 1 : rest[i] = s[(k + 1) + i - 1]
      BY ONLY <2>1, <2>2, SubSeqProperties
    <2> HIDE DEF rest
    <2> QED BY <2>3
  <1> HIDE DEF woken, rest
  <1>4. Distinct(woken)
    BY <1>2 DEF Distinct, OneTimerEach
  <1>5. ASSUME NEW i \in 1 .. Len(rest)
        PROVE  i + k \in 1 .. Len(s) /\ rest[i] = s[i + k] /\ i + k \notin 1 .. k
    BY <1>3
  <1>6. OneTimerEach(rest)
    <2> SUFFICES ASSUME NEW i \in 1 .. Len(rest), NEW j \in 1 .. Len(rest),
                        rest[i].pcb = rest[j].pcb
                 PROVE  i = j
      BY DEF OneTimerEach
    <2>1. i + k = j + k
      BY <1>5 DEF OneTimerEach
    <2> QED BY <2>1, <1>3
  <1>7. Elements(woken) \subseteq Sleeping(s)
    BY <1>2 DEF Elements, Sleeping
  <1>8. Sleeping(rest) \subseteq Sleeping(s) \ Elements(woken)
    <2> SUFFICES ASSUME NEW i \in 1 .. Len(rest)
                 PROVE  rest[i].pcb \in Sleeping(s) \ Elements(woken)
      BY DEF Sleeping
    <2>1. rest[i].pcb \in Sleeping(s)
      BY <1>5 DEF Sleeping
    <2>2. ASSUME NEW j \in 1 .. k PROVE woken[j] # rest[i].pcb
      <3>1. /\ j \in 1 .. Len(s) /\ i + k \in 1 .. Len(s) /\ j # i + k
            /\ rest[i] = s[i + k]
        BY <1>5
      <3>2. s[j].pcb # s[i + k].pcb
        BY <3>1 DEF OneTimerEach
      <3> QED BY <1>2, <3>1, <3>2
    <2> QED BY <2>1, <2>2, <1>2 DEF Elements
  <1>9. Sleeping(s) \ Elements(woken) \subseteq Sleeping(rest)
    <2> SUFFICES ASSUME NEW i \in 1 .. Len(s), s[i].pcb \notin Elements(woken)
                 PROVE  s[i].pcb \in Sleeping(rest)
      BY DEF Sleeping
    <2>1. i \notin 1 .. k
      BY <1>2 DEF Elements
    <2>2. i - k \in 1 .. Len(rest) /\ rest[i - k] = s[i]
      BY <2>1, <1>3
    <2> QED BY <2>2 DEF Sleeping
  <1> QED BY <1>2, <1>3, <1>4, <1>6, <1>7, <1>8, <1>9 DEF woken, rest

LEMMA TimerAdded ==
  ASSUME NEW s \in Seq(Timers), OneTimerEach(s),
         NEW ticks \in Int, NEW b \in Blocks \ Sleeping(s)
  PROVE  LET t == TimerList_add(s, ticks, b)
         IN  /\ t \in Seq(Timers)
             /\ Len(t) = Len(s) + 1
             /\ OneTimerEach(t)
             /\ Sleeping(t) = Sleeping(s) \cup {b}
  <1> DEFINE x == [pcb |-> b, left |-> ticks]
             t == TimerList_add(s, ticks, b)
  <1>1. PICK k \in 0 .. Len(s) : t = InsertAfter(s, k, x)
    BY TimerAddIs
  <1>2. x \in Timers /\ x.pcb = b
    BY DEF Timers
  <1> HIDE DEF x, t
  <1>3. /\ t \in Seq(Timers)
        /\ Len(t) = Len(s) + 1
        /\ \A i \in 1 .. Len(s) + 1 :
             t[i] = IF i <= k THEN s[i] ELSE IF i = k + 1 THEN x ELSE s[i - 1]
    <2>1. s \in Seq(Timers) /\ k \in 0 .. Len(s) /\ x \in Timers
      BY <1>2
    <2>2. InsertAfter(s, k, x) \in Seq(Timers) /\ Len(InsertAfter(s, k, x)) = Len(s) + 1
      BY ONLY <2>1, InsertAfterSeq
    <2>3. \A i \in 1 .. Len(s) + 1 :
            InsertAfter(s, k, x)[i] =
              IF i <= k THEN s[i] ELSE IF i = k + 1 THEN x ELSE s[i - 1]
      BY ONLY <2>1, InsertAfterSeq
    <2> QED BY <1>1, <2>2, <2>3
  <1>4. Sleeping(t) = Sleeping(s) \cup {b}
    <2>1. Elements(t) = Elements(s) \cup {x}
      BY <1>1, <1>2, InsertAfterElements
    <2>2. \A u : Sleeping(u) = {e.pcb : e \in Elements(u)}
      BY DEF Sleeping, Elements
    <2> QED BY <2>1, <2>2, <1>2
  <1>5. OneTimerEach(t)
    <2> SUFFICES ASSUME NEW i \in 1 .. Len(t), NEW j \in 1 .. Len(t), t[i].pcb = t[j].pcb
                 PROVE  i = j
      BY DEF OneTimerEach
    <2> DEFINE At(n) == IF n <= k THEN n ELSE n - 1
    <2>1. ASSUME NEW n \in 1 .. Len(t), n # k + 1
          PROVE  At(n) \in 1 .. Len(s) /\ t[n] = s[At(n)]
      BY <1>3, <2>1
    <2>2. t[k + 1] = x /\ k + 1 \in 1 .. Len(t)
      BY <1>3
    <2>3. ASSUME NEW n \in 1 .. Len(t), n # k + 1 PROVE t[n].pcb # b
      BY <2>1, <2>3 DEF Sleeping
    <2>4. CASE i # k + 1 /\ j # k + 1
      <3>1. At(i) = At(j)
        BY <2>1, <2>4 DEF OneTimerEach
      <3> QED BY <3>1, <2>4, <1>3
    <2> QED BY <2>2, <2>3, <2>4, <1>2
  <1> QED BY <1>3, <1>4, <1>5 DEF t

-----------------------------------------------------------------------------
(* What Core says of single blocks *)

Waits == Pids \cup {NotWaiting, NotAPid}
Reports == [to : Blocks, value : Int] \cup {NoReport}
Modes == {"Up", "Shutdown"} \cup Faults

LEMMA CountingBlocks ==
  ASSUME NEW T \in SUBSET Blocks
  PROVE  /\ IsFiniteSet(T)
         /\ Cardinality(T) \in Nat
         /\ \A U \in SUBSET T : Cardinality(U) <= Cardinality(T)
         /\ \A x \in T : Cardinality(T \ {x}) = Cardinality(T) - 1
         /\ \A x \in Blocks : Cardinality(T \cup {x}) <= Cardinality(T) + 1
  <1>1. IsFiniteSet(Blocks)
    BY FS_Interval DEF Blocks
  <1>2. IsFiniteSet(T)
    BY <1>1, FS_Subset
  <1>3. Cardinality(T) \in Nat
    BY <1>2, FS_CardinalityType
  <1>4. \A U \in SUBSET T : Cardinality(U) <= Cardinality(T)
    BY <1>2, FS_Subset
  <1>5. \A x \in T : Cardinality(T \ {x}) = Cardinality(T) - 1
    BY <1>2, FS_RemoveElement
  <1>6. \A x \in Blocks : Cardinality(T \cup {x}) <= Cardinality(T) + 1
    <2> SUFFICES ASSUME NEW x \in Blocks
                 PROVE  Cardinality(T \cup {x}) <= Cardinality(T) + 1
      OBVIOUS
    <2>1. Cardinality(T \cup {x}) = IF x \in T THEN Cardinality(T) ELSE Cardinality(T) + 1
      BY ONLY <1>2, FS_AddElement
    <2> QED BY <1>3, <2>1
  <1> QED BY <1>2, <1>3, <1>4, <1>5, <1>6

\* Where the status of a live block puts it
LEMMA ZombieIsListed ==
  ASSUME Placed, StatusFits, NEW z \in Live, status[z] = "Zombie"
  PROVE  z \in zombie_list
  BY DEF Placed, Partition, StatusFits, Live

LEMMA WaitingIsListed ==
  ASSUME Placed, StatusFits, NEW p \in Blocks, status[p] = "Waiting"
  PROVE  p \in waiting_list
  BY DEF Placed, Partition, StatusFits

LEMMA RunningIsLive ==
  ASSUME Core, running # NULL
  PROVE  /\ running \in Blocks /\ running \in Live
         /\ running \notin Elements(ready_list) \cup waiting_list \cup zombie_list
         /\ running \notin Free \cup abandoned \cup Asleep
  <1>1. Placed /\ running \in Run /\ Asleep \subseteq waiting_list
    BY PlacementParts DEF Core, Run, SleepersApart
  <1> QED BY <1>1 DEF Placed, Partition, Live

LEMMA SleepersAreBlocks ==
  ASSUME Core
  PROVE  Asleep \subseteq Blocks
  BY DEF Core, SleepersApart, TypeOK

\* A step that moves no block and touches no list
LEMMA CoreFrame ==
  ASSUME Core,
         UNCHANGED <<pools, table, running, init_pcb, queues, abandoned>>,
         \/ awaited' = awaited
         \/ /\ running # NULL
            /\ \E a \in Waits : awaited' = [awaited EXCEPT ![running] = a],
         reported' \in Reports, mode' \in Modes
  PROVE  Core'
  <1> USE DEF pools, table, queues
  <1>1. TypeOK'
    BY DEF Core, TypeOK, Waits, Reports, Modes
  <1>2. Placed' /\ Distinct(ready_list)' /\ Distinct(pcb_free)'
    BY PlacementParts DEF Core, Placed, Run, Free
  <1>3. StatusFits'
    BY DEF Core, StatusFits, Free, Run
  <1>4. SleepersApart'
    <2>1. running # NULL => running \notin Asleep
      BY RunningIsLive
    <2>2. Asleep' = Asleep
      BY DEF Asleep
    <2>3. \A b \in Asleep : awaited'[b] = awaited[b]
      BY <2>1, SleepersAreBlocks DEF Core, TypeOK
    <2> QED BY <2>2, <2>3 DEF Core, SleepersApart
  <1>5. ChildrenAreLive' /\ InitLives' /\ PtrsCounted'
    BY DEF Core, ChildrenAreLive, InitLives, PtrsCounted, Kids, Live, Free
  <1> QED BY <1>1, <1>2, <1>3, <1>4, <1>5, PlacementParts DEF Core

\* A step that leaves the family tree and the pools alone
LEMMA KidsFrame ==
  ASSUME Core, UNCHANGED <<pcb_free, ptr_free, parent, children, zombie_list, init_pcb>>
  PROVE  ChildrenAreLive' /\ InitLives' /\ PtrsCounted'
  BY DEF Core, ChildrenAreLive, InitLives, PtrsCounted, Kids, Live, Free

-----------------------------------------------------------------------------
(* Each action keeps Core *)

LEMMA InitialPool ==
  ASSUME Init
  PROVE  /\ 1 \in Blocks /\ 0 \notin Blocks
         /\ pcb_free \in Seq(Blocks) /\ Len(pcb_free) = MAX_NUM_PROCESSES - 1
         /\ Free = Blocks \ {1} /\ Distinct(pcb_free)
  <1>1. 1 \in Blocks /\ 0 \notin Blocks
    BY DEF Blocks
  <1>2. pcb_free = [i \in 1 .. MAX_NUM_PROCESSES - 1 |-> i + 1]
    BY DEF Init
  <1>3. /\ pcb_free \in Seq(Blocks)
        /\ Len(pcb_free) = MAX_NUM_PROCESSES - 1
        /\ \A i \in 1 .. Len(pcb_free) : pcb_free[i] = i + 1
    BY <1>2 DEF Blocks
  <1>4. \A b \in Blocks \ {1} : b - 1 \in 1 .. Len(pcb_free) /\ pcb_free[b - 1] = b
    BY <1>3 DEF Blocks
  <1>5. \A i \in 1 .. Len(pcb_free) : pcb_free[i] \in Blocks \ {1}
    BY <1>3 DEF Blocks
  <1>6. Blocks \ {1} \subseteq Free
    BY <1>4 DEF Free, Elements
  <1>7. Free \subseteq Blocks \ {1}
    BY <1>5 DEF Free, Elements
  <1>8. Distinct(pcb_free)
    <2>1. \A i, j \in Int : i + 1 = j + 1 => i = j
      OBVIOUS
    <2>2. \A i \in 1 .. Len(pcb_free) : i \in Int
      OBVIOUS
    <2> QED BY <1>3, <2>1, <2>2, Zenon DEF Distinct
  <1> QED BY <1>1, <1>3, <1>6, <1>7, <1>8

LEMMA InitCore == Init => Core
  <1> SUFFICES ASSUME Init PROVE Core
    OBVIOUS
  <1> USE DEF Init
  <1>1. 1 \in Blocks /\ 0 \notin Blocks
    BY InitialPool
  <1>2. pcb_free \in Seq(Blocks) /\ Len(pcb_free) = MAX_NUM_PROCESSES - 1
    BY InitialPool
  <1>3. Free = Blocks \ {1} /\ Distinct(pcb_free)
    BY InitialPool
  <1>4. TypeOK
    BY <1>1, <1>2 DEF TypeOK, Pids, Statuses, Reports, NotWaiting
  <1>5. Asleep = {} /\ Elements(ready_list) = {} /\ Distinct(ready_list) /\ Run = {1}
    BY EmptyElements DEF Asleep, Run
  <1>6. Placement
    BY <1>1, <1>3, <1>5, PlacementParts DEF Placed, Partition
  <1>7. StatusFits
    BY <1>1, <1>3, <1>5 DEF StatusFits
  <1>8. SleepersApart
    BY <1>5 DEF SleepersApart
  <1>9. \A p \in Blocks : Elements(children[p]) = {} /\ Distinct(children[p])
    BY EmptyElements
  <1>10. ChildrenAreLive
    BY <1>9 DEF ChildrenAreLive, Live
  <1>11. InitLives
    BY <1>1, <1>3 DEF InitLives, Live
  <1>12. PtrsCounted
    <2>1. Kids = {}
      BY <1>9 DEF Kids, Live
    <2> QED BY <2>1, FS_EmptySet DEF PtrsCounted
  <1> QED BY <1>4, <1>6, <1>7, <1>8, <1>10, <1>11, <1>12 DEF Core

\* What a turn of internal_schedule does: the sleepers W wake up and join the
\* ready processes, and one of those and the running one has the turn.
ScheduleEffect(W) ==
  /\ timer_list' \in Seq(Timers) /\ OneTimerEach(timer_list')
  /\ Asleep' = Asleep \ W
  /\ waiting_list' = waiting_list \ W
  /\ ready_list' \in Seq(Blocks) /\ Distinct(ready_list')
  /\ running' \in Blocks
  /\ Elements(ready_list') \cup {running'} = Elements(ready_list) \cup W \cup {running}
  /\ running' \notin Elements(ready_list')
  /\ status' \in [Blocks -> Statuses]
  /\ \A c \in Elements(ready_list') :
       status'[c] = "Ready" \/ (c \in Elements(ready_list) /\ status'[c] = status[c])
  /\ status'[running'] = "Running" \/ (running' = running /\ status'[running] = status[running])
  /\ \A c \in Blocks \ (Elements(ready_list) \cup W \cup {running}) : status'[c] = status[c]
  /\ UNCHANGED <<pools, pid, parent, children, forked, init_pcb, zombie_list, abandoned>>
  /\ reported' = NoReport /\ mode' \in Modes

LEMMA ScheduleStep ==
  ASSUME Core, running # NULL, mode = "Up",
         NEW timers \in Seq(Timers), Sleeping(timers) = Asleep, OneTimerEach(timers),
         internal_schedule(timers)
  PROVE  \E W \in SUBSET Asleep : ScheduleEffect(W)
  <1> DEFINE k     == ElapsedCount(timers)
             woken == [i \in 1 .. k |-> timers[i].pcb]
             rest  == SubSeq(timers, k + 1, Len(timers))
             ready == woken \o ready_list
             h     == Head(ready)
             W     == Elements(woken)
  <1>1. k \in 0 .. Len(timers)
    BY ElapsedCountIs
  <1>2. /\ woken \in Seq(Blocks) /\ Distinct(woken)
        /\ rest \in Seq(Timers) /\ OneTimerEach(rest)
        /\ Sleeping(rest) = Asleep \ W
        /\ W \subseteq Asleep
    BY <1>1, TimersServed
  <1>3. /\ timer_list' = rest
        /\ waiting_list' = waiting_list \ W
        /\ reported' = NoReport
        /\ UNCHANGED <<pools, pid, parent, children, forked, init_pcb, zombie_list, abandoned>>
        /\ IF ready = <<>>
             THEN /\ ready_list' = ready
                  /\ status' = WokenStatus(woken)
                  /\ UNCHANGED <<running, mode>>
             ELSE /\ ready_list' = Append(Tail(ready), running)
                  /\ status' = [WokenStatus(woken) EXCEPT ![running] = "Ready", ![h] = "Running"]
                  /\ running' = h
                  /\ mode' \in Modes
    BY DEF internal_schedule, Requeue, Resume, Modes, Faults
  <1> HIDE DEF k, woken, rest, h
  <1> USE RunningIsLive
  <1>4. /\ Placed /\ Distinct(ready_list)
        /\ ready_list \in Seq(Blocks) /\ Asleep \subseteq waiting_list
    BY PlacementParts DEF Core, TypeOK, SleepersApart
  <1>5. /\ ready \in Seq(Blocks) /\ Distinct(ready)
        /\ Elements(ready) = W \cup Elements(ready_list)
    <2>1. Elements(woken) \cap Elements(ready_list) = {}
      BY <1>2, <1>4 DEF Placed, Partition
    <2> QED BY <1>2, <1>4, <2>1, ConcatElements
  <1> HIDE DEF ready
  <1>6. Asleep' = Asleep \ W
    BY <1>2, <1>3 DEF Asleep, Sleeping
  <1>7. CASE ready = <<>>
    <2>1. W = {} /\ Elements(ready_list) = {} /\ Elements(ready) = {}
      BY <1>5, <1>7, EmptyElements
    <2>2. status' = status
      BY <1>3, <1>7, <2>1 DEF WokenStatus, Core, TypeOK
    <2>3. running' = running /\ mode' \in Modes /\ ready_list' = ready /\ status' \in [Blocks -> Statuses]
      BY <1>3, <1>7, <2>2 DEF Core, TypeOK, Modes
    <2> HIDE DEF W
    <2>4. ScheduleEffect(W)
      BY <1>2, <1>3, <1>5, <1>6, <2>1, <2>2, <2>3 DEF ScheduleEffect
    <2> QED BY <1>2, <2>4
  <1>8. CASE ready # <<>>
    <2>1. /\ h \in Elements(ready) /\ h \in Blocks
          /\ Tail(ready) \in Seq(Blocks) /\ Distinct(Tail(ready))
          /\ Elements(Tail(ready)) = Elements(ready) \ {h}
      BY <1>5, <1>8, TailElements, ElementsType DEF h
    <2>2. running \notin Elements(ready)
      BY <1>2, <1>4, <1>5
    <2>3. /\ ready_list' \in Seq(Blocks) /\ Distinct(ready_list')
          /\ Elements(ready_list') = (Elements(ready) \ {h}) \cup {running}
      <3> DEFINE rest_ready == Tail(ready)
      <3>1. ready_list' = Append(rest_ready, running)
        BY <1>3, <1>8
      <3>2. /\ rest_ready \in Seq(Blocks) /\ Distinct(rest_ready)
            /\ Elements(rest_ready) = Elements(ready) \ {h}
            /\ running \in Blocks /\ running \notin Elements(rest_ready)
        BY <2>1, <2>2
      <3> HIDE DEF rest_ready
      <3>3. /\ Append(rest_ready, running) \in Seq(Blocks)
            /\ Elements(Append(rest_ready, running)) = Elements(rest_ready) \cup {running}
            /\ Distinct(Append(rest_ready, running))
        BY ONLY <3>2, AppendElements
      <3> QED BY <3>1, <3>2, <3>3
    <2>4. running' = h /\ h # running /\ mode' \in Modes
      BY <1>3, <1>8, <2>1, <2>2
    <2>5. /\ WokenStatus(woken) \in [Blocks -> Statuses]
          /\ \A c \in Blocks : WokenStatus(woken)[c] = IF c \in W THEN "Ready" ELSE status[c]
      BY DEF WokenStatus, Core, TypeOK, Statuses
    <2>6. /\ status' \in [Blocks -> Statuses]
          /\ status'[running] = "Ready" /\ status'[h] = "Running"
          /\ \A c \in Blocks \ {running, h} : status'[c] = IF c \in W THEN "Ready" ELSE status[c]
      BY <1>3, <1>8, <2>1, <2>4, <2>5 DEF Statuses
    <2> HIDE DEF W
    <2>7. \A c \in Elements(ready) : c \in Blocks
      BY <1>2, <1>4, <1>5, SleepersAreBlocks DEF Placed, Partition
    <2>8. ASSUME NEW c \in Elements(ready_list')
          PROVE  status'[c] = "Ready" \/ (c \in Elements(ready_list) /\ status'[c] = status[c])
      BY <1>5, <2>3, <2>6, <2>7
    <2>9. ScheduleEffect(W)
      <3>1. \A c \in Blocks \ (Elements(ready_list) \cup W \cup {running}) : status'[c] = status[c]
        BY <1>5, <2>1, <2>6
      <3>2. Elements(ready_list') \cup {running'} = Elements(ready_list) \cup W \cup {running}
            /\ running' \notin Elements(ready_list')
        BY <1>5, <2>1, <2>3, <2>4
      <3> QED BY <1>2, <1>3, <1>6, <2>1, <2>3, <2>4, <2>6, <2>8, <3>1, <3>2 DEF ScheduleEffect
    <2> QED BY <1>2, <2>9
  <1> QED BY <1>7, <1>8

LEMMA ScheduleCore ==
  ASSUME Core, running # NULL, NEW W \in SUBSET Asleep, ScheduleEffect(W),
         awaited' \in {awaited, [awaited EXCEPT ![running] = NotWaiting]}
  PROVE  Core'
  <1> USE DEF ScheduleEffect, pools
  <1>1. /\ Placed /\ Distinct(ready_list) /\ Distinct(pcb_free)
        /\ Asleep \subseteq waiting_list /\ Run = {running}
    BY PlacementParts DEF Core, SleepersApart, Run
  <1>2. Run' = {running'} /\ Free' = Free
    BY DEF Run, Free, Blocks
  <1>3. TypeOK'
    <2>1. awaited' \in [Blocks -> Pids \cup {NotWaiting, NotAPid}]
      BY RunningIsLive DEF Core, TypeOK
    <2> QED BY <2>1 DEF Core, TypeOK, Timers, Modes
  <1>4. Placement'
    <2>1. Placed'
      BY <1>1, <1>2 DEF Placed, Partition
    <2> QED BY <1>1, <2>1, PlacementParts
  <1>5. ASSUME NEW c \in waiting_list' \cup zombie_list \cup Free \cup abandoned
        PROVE  c \in Blocks /\ status'[c] = status[c]
    BY <1>1 DEF Placed, Partition
  <1>6. StatusFits'
    <2>1. \A c \in Elements(ready_list') \cup {running'} : status'[c] \in {"Running", "Ready"}
      BY <1>1 DEF Core, StatusFits
    <2> QED BY <1>2, <1>5, <2>1 DEF Core, StatusFits
  <1>7. SleepersApart'
    <2>1. \A c \in Asleep' : c \in waiting_list' /\ c \in Asleep /\ c \in Blocks /\ c # running
      BY <1>1, SleepersAreBlocks, RunningIsLive
    <2>2. \A c \in Asleep' : awaited'[c] = awaited[c] /\ status'[c] = status[c]
      BY <1>5, <2>1 DEF Core, TypeOK
    <2> QED BY <2>1, <2>2 DEF Core, SleepersApart, OneTimerEach
  <1> QED BY <1>3, <1>4, <1>6, <1>7, KidsFrame DEF Core

LEMMA HeadOfReady ==
  ASSUME Core, ready_list # <<>>
  PROVE  /\ Head(ready_list) \in Elements(ready_list) /\ Head(ready_list) \in Blocks
         /\ Head(ready_list) # NULL /\ Head(ready_list) # running
         /\ ReadyListRest \in Seq(Blocks) /\ Distinct(ReadyListRest)
         /\ Elements(ReadyListRest) = Elements(ready_list) \ {Head(ready_list)}
  <1>1. /\ Placed /\ ready_list \in Seq(Blocks) /\ Distinct(ready_list)
    BY PlacementParts DEF Core, TypeOK
  <1>2. /\ Head(ready_list) \in Elements(ready_list)
        /\ ReadyListRest \in Seq(Blocks) /\ Distinct(ReadyListRest)
        /\ Elements(ReadyListRest) = Elements(ready_list) \ {Head(ready_list)}
    BY <1>1, TailElements DEF ReadyListRest
  <1>3. Head(ready_list) \in Blocks
    BY <1>1, <1>2, ElementsType
  <1> QED BY <1>1, <1>2, <1>3 DEF Placed, Partition, Run, Blocks

LEMMA HeadOfFree ==
  ASSUME Core, pcb_free # <<>>
  PROVE  /\ Head(pcb_free) \in Free /\ Head(pcb_free) \in Blocks /\ Head(pcb_free) # NULL
         /\ Tail(pcb_free) \in Seq(Blocks) /\ Distinct(Tail(pcb_free))
         /\ Elements(Tail(pcb_free)) = Free \ {Head(pcb_free)}
  <1>1. pcb_free \in Seq(Blocks) /\ Distinct(pcb_free)
    BY PlacementParts DEF Core, TypeOK
  <1>2. /\ Head(pcb_free) \in Free
        /\ Tail(pcb_free) \in Seq(Blocks) /\ Distinct(Tail(pcb_free))
        /\ Elements(Tail(pcb_free)) = Free \ {Head(pcb_free)}
    BY <1>1, TailElements DEF Free
  <1>3. Head(pcb_free) \in Blocks
    BY <1>1, <1>2, ElementsType DEF Free
  <1> QED BY <1>2, <1>3 DEF Blocks

LEMMA BackToFree ==
  ASSUME Core, NEW b \in Blocks \ Free
  PROVE  /\ <<b>> \o pcb_free \in Seq(Blocks) /\ Distinct(<<b>> \o pcb_free)
         /\ Elements(<<b>> \o pcb_free) = Free \cup {b}
  <1>1. pcb_free \in Seq(Blocks) /\ Distinct(pcb_free) /\ <<b>> \in Seq(Blocks)
    BY PlacementParts DEF Core, TypeOK
  <1>2. Elements(<<b>>) = {b} /\ Distinct(<<b>>)
    BY SingletonElements
  <1> DEFINE one == <<b>>
  <1> HIDE DEF one
  <1>3. /\ one \o pcb_free \in Seq(Blocks)
        /\ Elements(one \o pcb_free) = Elements(one) \cup Elements(pcb_free)
        /\ Distinct(one) /\ Distinct(pcb_free) /\ Elements(one) \cap Elements(pcb_free) = {}
             => Distinct(one \o pcb_free)
    BY <1>1, ConcatElements DEF one
  <1> QED BY <1>1, <1>2, <1>3 DEF Free, one

\* What PCB_alloc does to the pool and to the family
LEMMA AllocatedPCB ==
  ASSUME Core, pcb_free # <<>>, last_pid < MaxPid,
         NEW p \in Run \cup {NULL}, NEW st \in Statuses, NEW context \in BOOLEAN,
         PCB_alloc(p, st, context)
  PROVE  LET b == Head(pcb_free) IN
         /\ pcb_free' \in Seq(Blocks) /\ Distinct(pcb_free)'
         /\ Free' = Free \ {b} /\ Live' = Live \cup {b}
         /\ last_pid' \in 1 .. MaxPid /\ pid' \in [Blocks -> Pids]
         /\ status' \in [Blocks -> Statuses] /\ parent' \in [Blocks -> Blocks \cup {NULL}]
         /\ children' \in [Blocks -> Seq(Blocks)] /\ forked' \subseteq Blocks
         /\ ChildrenAreLive'
         /\ Kids' \subseteq Kids \cup {b}
         /\ p = NULL => Kids' \subseteq Kids
  <1> DEFINE b == Head(pcb_free)
  <1>1. /\ b \in Free /\ b \in Blocks
        /\ pcb_free' \in Seq(Blocks) /\ Distinct(pcb_free)'
        /\ Free' = Free \ {b}
    BY HeadOfFree DEF PCB_alloc, Free
  <1>2. Live' = Live \cup {b}
    BY <1>1 DEF Live
  <1>3. last_pid \in Int /\ last_pid >= 1
    BY DEF Core, TypeOK
  <1>4. /\ last_pid' \in 1 .. MaxPid /\ pid' \in [Blocks -> Pids]
        /\ status' \in [Blocks -> Statuses] /\ parent' \in [Blocks -> Blocks \cup {NULL}]
        /\ forked' \subseteq Blocks
    <2>1. p \in Blocks \cup {NULL}
      BY DEF Core, TypeOK, Run
    <2> QED BY <1>1, <1>3, <2>1 DEF PCB_alloc, Core, TypeOK, Pids
  <1>5. p = NULL \/ p \in Live
    BY RunningIsLive DEF Run
  <1>6. ASSUME NEW c \in Blocks
        PROVE  /\ c # b /\ c # p => children'[c] = children[c]
               /\ c = b => children'[c] = <<>>
               /\ c # b /\ c = p => children'[c] = Append(children[c], b)
    BY DEF PCB_alloc
  <1>7. children' \in [Blocks -> Seq(Blocks)]
    <2>1. \A c \in Blocks : children[c] \in Seq(Blocks) /\ Append(children[c], b) \in Seq(Blocks)
      BY <1>1 DEF Core, TypeOK
    <2> QED BY <2>1 DEF PCB_alloc
  <1>8. ASSUME NEW c \in Live'
        PROVE  /\ Distinct(children'[c])
               /\ \/ c # p /\ c = b /\ Elements(children'[c]) = {}
                  \/ c # p /\ c # b /\ c \in Live /\ Elements(children'[c]) = Elements(children[c])
                  \/ c = p /\ c # b /\ c \in Live /\ Elements(children'[c]) = Elements(children[c]) \cup {b}
    <2>1. p # b
      BY <1>1, <1>5 DEF Live, Blocks
    <2>2. CASE c = b
      BY <2>1, <2>2, <1>1, <1>6, EmptyElements
    <2>3. CASE c # b
      <3>1. c \in Live /\ c \in Blocks
        BY <2>3, <1>2 DEF Live
      <3>2. children[c] \in Seq(Blocks) /\ Distinct(children[c]) /\ b \notin Elements(children[c])
        BY <3>1, <1>1 DEF Core, TypeOK, ChildrenAreLive, Live
      <3>3. CASE c = p
        <4>1. /\ Elements(Append(children[c], b)) = Elements(children[c]) \cup {b}
              /\ Distinct(Append(children[c], b))
          BY ONLY <3>2, <1>1, AppendElements
        <4> QED BY <2>3, <3>1, <3>3, <4>1, <1>6
      <3> QED BY <2>3, <3>1, <3>2, <3>3, <1>6
    <2> QED BY <2>2, <2>3
  <1>9. ChildrenAreLive'
    <2>1. \A c \in Live : b \notin Elements(children[c])
      BY <1>1 DEF Core, ChildrenAreLive, Live
    <2>2. \A c \in Live' : Elements(children'[c]) \subseteq Live' /\ Distinct(children'[c])
      BY <1>2, <1>8 DEF Core, ChildrenAreLive
    <2>3. ASSUME NEW c \in Live', NEW d \in Live', c # d
          PROVE  Elements(children'[c]) \cap Elements(children'[d]) = {}
      <3>1. c \in Live /\ d \in Live => Elements(children[c]) \cap Elements(children[d]) = {}
        BY <2>3 DEF Core, ChildrenAreLive
      <3> QED BY <1>8, <2>1, <2>3, <3>1
    <2> QED BY <2>2, <2>3 DEF ChildrenAreLive
  <1>10. Kids' \subseteq Kids \cup {b} /\ (p = NULL => Kids' \subseteq Kids)
    <2>1. ASSUME NEW x \in Kids'
          PROVE  x \in Kids \/ (x = b /\ p # NULL)
      <3>1. PICK c \in Live' : x \in Elements(children'[c])
        BY DEF Kids
      <3>2. c = p => p # NULL
        BY <1>2, <1>1 DEF Live, Blocks
      <3> QED BY <1>8, <3>1, <3>2 DEF Kids
    <2> QED BY <2>1
  <1> QED BY <1>1, <1>2, <1>4, <1>7, <1>9, <1>10

LEMMA RestartCore ==
  ASSUME Core, mode = "Up", pcb_free # <<>>, last_pid < MaxPid,
         PCB_alloc(NULL, "Running", TRUE),
         running' = Head(pcb_free), init_pcb' = Head(pcb_free),
         abandoned' = abandoned \cup ({running} \ {NULL}),
         reported' = NoReport,
         UNCHANGED <<ptr_free, awaited, queues, mode>>
  PROVE  Core'
  <1> DEFINE b == Head(pcb_free)
  <1> USE DEF queues
  <1>1. /\ pcb_free' \in Seq(Blocks) /\ Distinct(pcb_free)'
        /\ Free' = Free \ {b} /\ Live' = Live \cup {b}
        /\ last_pid' \in 1 .. MaxPid /\ pid' \in [Blocks -> Pids]
        /\ status' \in [Blocks -> Statuses] /\ parent' \in [Blocks -> Blocks \cup {NULL}]
        /\ children' \in [Blocks -> Seq(Blocks)] /\ forked' \subseteq Blocks
        /\ ChildrenAreLive'
        /\ Kids' \subseteq Kids
    <2>1. "Running" \in Statuses /\ NULL \in Run \cup {NULL} /\ TRUE \in BOOLEAN
      BY DEF Statuses
    <2> QED BY <2>1, AllocatedPCB, Zenon
  <1>2. b \in Free /\ b \in Blocks /\ b # NULL
    BY HeadOfFree
  <1>3. Placed /\ Distinct(ready_list)
    BY PlacementParts DEF Core
  <1>4. TypeOK'
    BY <1>1, <1>2 DEF Core, TypeOK
  <1>5. Placement'
    <2>1. Run' = {b} /\ abandoned' = abandoned \cup Run
      BY <1>2 DEF Run
    <2>2. Placed'
      BY <1>1, <1>2, <1>3, <2>1 DEF Placed, Partition
    <2> QED BY <1>1, <1>3, <2>2, PlacementParts
  <1>6. /\ status'[b] = "Running" /\ parent'[b] = NULL
        /\ \A c \in Blocks \ {b} : status'[c] = status[c] /\ parent'[c] = parent[c]
    BY <1>2 DEF PCB_alloc, Core, TypeOK
  <1>7. StatusFits'
    <2>1. b \notin Elements(ready_list) \cup waiting_list \cup zombie_list \cup Run \cup abandoned
      BY <1>2, <1>3 DEF Placed, Partition
    <2>2. /\ Elements(ready_list) \subseteq Blocks /\ waiting_list \subseteq Blocks
          /\ zombie_list \subseteq Blocks /\ Free \subseteq Blocks
          /\ Run \subseteq Blocks /\ abandoned \subseteq Blocks
      BY <1>3 DEF Placed, Partition
    <2>3. Run' = {b} /\ abandoned' = abandoned \cup Run
      BY <1>2 DEF Run
    <2> QED BY <1>1, <1>6, <2>1, <2>2, <2>3 DEF Core, StatusFits
  <1>8. SleepersApart'
    <2>1. Asleep' = Asleep /\ \A c \in Asleep : status'[c] = status[c] /\ awaited'[c] = awaited[c]
      BY <1>2, <1>3, <1>6, SleepersAreBlocks DEF Asleep, Core, SleepersApart, Placed, Partition
    <2> QED BY <2>1 DEF Core, SleepersApart
  <1>9. InitLives'
    BY <1>1, <1>2, <1>3, <1>6 DEF InitLives, Placed, Partition
  <1>10. PtrsCounted'
    <2>1. Kids \in SUBSET Blocks
      BY DEF Kids, Core, ChildrenAreLive, Live
    <2>2. Cardinality(Kids') <= Cardinality(Kids) /\ Cardinality(Kids) \in Nat
      BY <1>1, <2>1, CountingBlocks
    <2>3. Cardinality(Kids') \in Nat
      BY <1>1, <2>1, CountingBlocks
    <2> QED BY <2>2, <2>3 DEF PtrsCounted, Core, TypeOK
  <1> QED BY <1>1, <1>4, <1>5, <1>7, <1>8, <1>9, <1>10 DEF Core

LEMMA KidsAreBlocks ==
  ASSUME Core
  PROVE  Kids \in SUBSET Blocks /\ Kids \subseteq Live
  BY DEF Kids, Core, ChildrenAreLive, Live

LEMMA CreateCore ==
  ASSUME Core, NEW context \in BOOLEAN, Create(context)
  PROVE  Core'
  <1> DEFINE b == Head(pcb_free)
  <1>1. CASE Crash("NullDereference")
    <2>1. /\ UNCHANGED <<pools, table, running, init_pcb, queues, abandoned, awaited>>
          /\ reported' \in Reports /\ mode' \in Modes
      BY <1>1 DEF Crash, Reports, Modes, Faults
    <2> QED BY <2>1, CoreFrame
  <1>2. CASE /\ pcb_free # <<>> /\ ~PCBPtrsExhausted /\ last_pid < MaxPid
             /\ CallsOther
             /\ PCB_alloc(running, "Ready", context)
             /\ ptr_free' = ptr_free - 1
             /\ ready_list' = Append(ready_list, Head(pcb_free))
             /\ reported' = [to |-> running, value |-> last_pid]
             /\ UNCHANGED <<running, init_pcb, waiting_list, zombie_list,
                            timer_list, abandoned, mode>>
    <2>1. /\ mode = "Up" /\ running # NULL /\ running \in Run
          /\ awaited' = [awaited EXCEPT ![running] = NotWaiting]
      BY <1>2 DEF CallsOther, Calls, Run
    <2>2. /\ pcb_free' \in Seq(Blocks) /\ Distinct(pcb_free)'
          /\ Free' = Free \ {b} /\ Live' = Live \cup {b}
          /\ last_pid' \in 1 .. MaxPid /\ pid' \in [Blocks -> Pids]
          /\ status' \in [Blocks -> Statuses] /\ parent' \in [Blocks -> Blocks \cup {NULL}]
          /\ children' \in [Blocks -> Seq(Blocks)] /\ forked' \subseteq Blocks
          /\ ChildrenAreLive'
          /\ Kids' \subseteq Kids \cup {b}
      <3>1. "Ready" \in Statuses /\ running \in Run \cup {NULL}
        BY <2>1 DEF Statuses
      <3> QED BY <1>2, <3>1, AllocatedPCB, Zenon
    <2>3. b \in Free /\ b \in Blocks /\ b # NULL
      BY <1>2, HeadOfFree
    <2>4. Placed /\ Distinct(ready_list) /\ ready_list \in Seq(Blocks)
      BY PlacementParts DEF Core, TypeOK
    <2>5. b \notin Elements(ready_list) \cup waiting_list \cup zombie_list \cup Run \cup abandoned
      BY <2>3, <2>4 DEF Placed, Partition
    <2>6. /\ ready_list' \in Seq(Blocks) /\ Distinct(ready_list')
          /\ Elements(ready_list') = Elements(ready_list) \cup {b}
      <3>1. /\ Append(ready_list, b) \in Seq(Blocks) /\ Distinct(Append(ready_list, b))
            /\ Elements(Append(ready_list, b)) = Elements(ready_list) \cup {b}
        BY <2>3, <2>4, <2>5, AppendElements
      <3> QED BY <1>2, <3>1
    <2>7. running \in Blocks /\ running # b
      BY <2>1, <2>3, RunningIsLive
    <2>8. TypeOK'
      <3>1. awaited' \in [Blocks -> Pids \cup {NotWaiting, NotAPid}]
        BY <2>1, <2>7 DEF Core, TypeOK
      <3>2. ptr_free' \in 0 .. MAX_NUM_PROCESSES
        BY <1>2 DEF Core, TypeOK, PCBPtrsExhausted
      <3>3. reported' \in [to : Blocks, value : Int]
        BY <1>2, <2>7 DEF Core, TypeOK
      <3> QED BY <1>2, <2>2, <2>6, <3>1, <3>2, <3>3 DEF Core, TypeOK
    <2>9. Placement'
      <3>1. Run' = Run
        BY <1>2 DEF Run
      <3>2. Placed'
        BY <1>2, <2>2, <2>3, <2>4, <2>6, <3>1 DEF Placed, Partition
      <3> QED BY <2>2, <2>6, <3>2, PlacementParts
    <2>10. /\ status'[b] = "Ready" /\ parent'[b] = running
           /\ \A c \in Blocks \ {b} : status'[c] = status[c] /\ parent'[c] = parent[c]
      BY <1>2, <2>3 DEF PCB_alloc, Core, TypeOK
    <2>11. StatusFits'
      <3>1. /\ Elements(ready_list) \subseteq Blocks /\ waiting_list \subseteq Blocks
            /\ zombie_list \subseteq Blocks /\ Free \subseteq Blocks
            /\ Run \subseteq Blocks /\ abandoned \subseteq Blocks /\ Run' = Run
        BY <1>2, <2>4 DEF Placed, Partition, Run
      <3> QED BY <1>2, <2>2, <2>5, <2>6, <2>10, <3>1 DEF Core, StatusFits
    <2>12. SleepersApart'
      <3>1. Asleep' = Asleep
        BY <1>2 DEF Asleep
      <3>2. \A c \in Asleep : status'[c] = status[c] /\ awaited'[c] = awaited[c]
        <4>1. \A c \in Asleep : c \in Blocks /\ c # b /\ c # running
          BY <2>1, <2>5, SleepersAreBlocks, RunningIsLive DEF Core, SleepersApart
        <4> QED BY <2>1, <2>10, <4>1 DEF Core, TypeOK
      <3> QED BY <1>2, <3>1, <3>2 DEF Core, SleepersApart
    <2>13. InitLives'
      <3>1. init_pcb # b
        BY <2>3 DEF Core, InitLives, Live
      <3> QED BY <1>2, <2>2, <2>10, <3>1 DEF Core, InitLives, TypeOK
    <2>14. PtrsCounted'
      <3>1. Kids \in SUBSET Blocks /\ Kids \cup {b} \in SUBSET Blocks /\ Kids' \in SUBSET Blocks
        BY <2>2, <2>3, KidsAreBlocks
      <3>2. Cardinality(Kids') <= Cardinality(Kids \cup {b})
        BY <3>1, <2>2, CountingBlocks
      <3>3. Cardinality(Kids \cup {b}) <= Cardinality(Kids) + 1
        BY <3>1, <2>3, CountingBlocks
      <3>4. Cardinality(Kids) \in Nat /\ Cardinality(Kids') \in Nat /\ Cardinality(Kids \cup {b}) \in Nat
        BY <3>1, CountingBlocks
      <3>5. ptr_free \in Nat /\ ptr_free' = ptr_free - 1
        BY <1>2 DEF Core, TypeOK
      <3> QED BY <3>2, <3>3, <3>4, <3>5 DEF Core, PtrsCounted
    <2> QED BY <2>2, <2>8, <2>9, <2>11, <2>12, <2>13, <2>14 DEF Core
  <1> QED BY <1>1, <1>2 DEF Create

\* The scan of internal_wait ends at a child, and at one it asked for if there
\* is one (a is the argument of wait).
LEMMA AwaitedIndexIs ==
  ASSUME NEW kids \in Seq(Blocks), kids # <<>>, NEW a
  PROVE  LET i == AwaitedIndex(kids, a) IN
         /\ i \in 1 .. Len(kids)
         /\ a = 0 /\ (\E j \in 1 .. Len(kids) : status[kids[j]] = "Zombie")
              => status[kids[i]] = "Zombie"
         /\ a # 0 /\ (\E j \in 1 .. Len(kids) : pid[kids[j]] = a)
              => pid[kids[i]] = a
  <1> DEFINE Matches(i) == IF a = 0 THEN status[kids[i]] = "Zombie"
                                    ELSE pid[kids[i]] = a
             hits == {i \in 1 .. Len(kids) : Matches(i)}
             i == AwaitedIndex(kids, a)
  <1>1. i = IF hits = {} THEN Len(kids) ELSE CHOOSE j \in hits : \A n \in hits : j <= n
    BY DEF AwaitedIndex
  <1>2. Len(kids) \in 1 .. Len(kids)
    OBVIOUS
  <1>3. hits \in SUBSET Nat
    OBVIOUS
  <1>4. hits # {} => i \in hits
    <2> HAVE hits # {}
    <2>1. \E m \in hits : \A n \in hits : m <= n
      BY <1>3, LeastNatural
    <2> QED BY <1>1, <2>1
  <1>5. hits = {} => i = Len(kids)
    BY <1>1
  <1> HIDE DEF i
  <1>6. i \in 1 .. Len(kids)
    BY <1>2, <1>4, <1>5
  <1>7. ASSUME NEW j \in 1 .. Len(kids), Matches(j) PROVE Matches(i)
    BY <1>4, <1>7
  <1> QED BY <1>6, <1>7 DEF i

LEMMA ChildIsLive ==
  ASSUME Core, NEW p \in Live, NEW i \in 1 .. Len(children[p])
  PROVE  /\ children[p] \in Seq(Blocks) /\ Distinct(children[p])
         /\ children[p][i] \in Live /\ children[p][i] \in Blocks
         /\ children[p][i] \in Elements(children[p]) /\ children[p][i] \in Kids
  BY DEF Core, TypeOK, ChildrenAreLive, Live, Elements, Kids

LEMMA ReapCore ==
  ASSUME Core, Calls, NEW a \in WaitPids, WaitReaps(a),
         awaited' = [awaited EXCEPT ![running] = a]
  PROVE  Core'
  <1> DEFINE kids == children[running]
             i == AwaitedIndex(kids, a)
             z == kids[i]
  <1>1. running # NULL /\ running \in Blocks /\ running \in Live /\ mode = "Up"
    BY RunningIsLive DEF Calls
  <1>2. kids \in Seq(Blocks) /\ kids # <<>>
    BY <1>1 DEF WaitReaps, Core, TypeOK
  <1>3. i \in 1 .. Len(kids)
    BY <1>2, AwaitedIndexIs
  <1>4. /\ Distinct(kids) /\ z \in Live /\ z \in Blocks /\ z \in Elements(kids) /\ z \in Kids
    BY <1>1, <1>3, ChildIsLive
  <1>5. /\ status[z] = "Zombie"
        /\ children' = [children EXCEPT ![running] = DetachAt(@, i)]
        /\ ptr_free' = ptr_free + 1
        /\ zombie_list' = zombie_list \ {z}
        /\ reported' = [to |-> running, value |-> pid[z]]
        /\ pcb_free' = <<z>> \o pcb_free
        /\ UNCHANGED <<last_pid, pid, status, parent, forked, running, init_pcb,
                       ready_list, waiting_list, timer_list, abandoned, mode>>
    BY DEF WaitReaps, PCBPtr_free, ReapedPid
  <1>6. /\ DetachAt(kids, i) \in Seq(Blocks) /\ Distinct(DetachAt(kids, i))
        /\ Elements(DetachAt(kids, i)) = Elements(kids) \ {z}
    BY <1>2, <1>3, <1>4, DetachAtSeq, DetachAtDistinct, DetachAtElements
  <1> HIDE DEF kids, i, z
  <1>7. Placed /\ Distinct(ready_list)
    BY PlacementParts DEF Core
  <1>8. z \in zombie_list /\ z \notin Free
    BY <1>4, <1>5, <1>7, ZombieIsListed DEF Core, Live
  <1>9. /\ pcb_free' \in Seq(Blocks) /\ Distinct(pcb_free)'
        /\ Free' = Free \cup {z} /\ Live' = Live \ {z}
    <2>1. /\ pcb_free' \in Seq(Blocks) /\ Distinct(pcb_free') /\ Free' = Free \cup {z}
      BY <1>4, <1>5, <1>8, BackToFree DEF Free
    <2> QED BY <2>1 DEF Live
  <1>10. /\ children' \in [Blocks -> Seq(Blocks)]
         /\ Distinct(children'[running])
         /\ Elements(children'[running]) = Elements(children[running]) \ {z}
         /\ \A c \in Blocks \ {running} : children'[c] = children[c]
    BY <1>1, <1>5, <1>6 DEF Core, TypeOK, kids
  <1>11. TypeOK'
    <2>1. awaited' \in [Blocks -> Pids \cup {NotWaiting, NotAPid}]
      BY <1>1 DEF Core, TypeOK, Pids, NotAPid
    <2>2. ptr_free' \in 0 .. MAX_NUM_PROCESSES
      <3>1. Cardinality(Kids) \in Nat /\ Cardinality(Kids \ {z}) \in Nat
            /\ Cardinality(Kids \ {z}) = Cardinality(Kids) - 1
        BY <1>4, KidsAreBlocks, CountingBlocks
      <3> QED BY <3>1, <1>5 DEF Core, TypeOK, PtrsCounted
    <2>3. reported' \in [to : Blocks, value : Int]
      BY <1>1, <1>4, <1>5 DEF Core, TypeOK, Pids
    <2> QED BY <1>5, <1>9, <1>10, <2>1, <2>2, <2>3 DEF Core, TypeOK
  <1>12. Placement'
    <2>1. Run' = Run
      BY <1>5 DEF Run
    <2>2. Placed'
      BY <1>5, <1>7, <1>8, <1>9, <2>1 DEF Placed, Partition
    <2> QED BY <1>5, <1>7, <1>9, <2>2, PlacementParts
  <1>13. StatusFits'
    <2>1. Run' = Run
      BY <1>5 DEF Run
    <2> QED BY <1>5, <1>8, <1>9, <2>1 DEF Core, StatusFits
  <1>14. SleepersApart'
    <2>1. Asleep' = Asleep
      BY <1>5 DEF Asleep
    <2>2. \A c \in Asleep : awaited'[c] = awaited[c]
      BY <1>1, SleepersAreBlocks, RunningIsLive DEF Core, TypeOK
    <2> QED BY <1>5, <2>1, <2>2 DEF Core, SleepersApart
  <1>15. \A c \in Live' :
           /\ c \in Live /\ Distinct(children'[c])
           /\ Elements(children'[c]) \subseteq Elements(children[c])
           /\ z \notin Elements(children'[c])
    <2> SUFFICES ASSUME NEW c \in Live'
                 PROVE  /\ c \in Live /\ Distinct(children'[c])
                        /\ Elements(children'[c]) \subseteq Elements(children[c])
                        /\ z \notin Elements(children'[c])
      OBVIOUS
    <2>1. c \in Live /\ c \in Blocks
      BY <1>9 DEF Live
    <2>2. c # running => z \notin Elements(children[c]) /\ Distinct(children[c])
      BY <1>1, <1>4, <2>1 DEF Core, ChildrenAreLive, kids
    <2> QED BY <1>10, <2>1, <2>2
  <1>16. ChildrenAreLive'
    <2>1. \A c \in Live' : Elements(children'[c]) \subseteq Live' /\ Distinct(children'[c])
      BY <1>9, <1>15 DEF Core, ChildrenAreLive
    <2>2. ASSUME NEW c \in Live', NEW d \in Live', c # d
          PROVE  Elements(children'[c]) \cap Elements(children'[d]) = {}
      <3>1. Elements(children[c]) \cap Elements(children[d]) = {}
        BY <1>15, <2>2 DEF Core, ChildrenAreLive
      <3> QED BY <1>15, <3>1
    <2> QED BY <2>1, <2>2 DEF ChildrenAreLive
  <1>17. InitLives'
    BY <1>5, <1>8, <1>9 DEF Core, InitLives
  <1>18. PtrsCounted'
    <2>1. Kids' \subseteq Kids \ {z}
      BY <1>15 DEF Kids
    <2>2. /\ Cardinality(Kids) \in Nat /\ Cardinality(Kids \ {z}) = Cardinality(Kids) - 1
          /\ Kids \ {z} \in SUBSET Blocks /\ Kids' \in SUBSET (Kids \ {z})
      BY <1>4, <2>1, KidsAreBlocks, CountingBlocks
    <2>3. Cardinality(Kids') <= Cardinality(Kids \ {z}) /\ Cardinality(Kids') \in Nat
      BY <2>2, CountingBlocks
    <2> QED BY <1>5, <2>2, <2>3 DEF Core, PtrsCounted, TypeOK
  <1> QED BY <1>11, <1>12, <1>13, <1>14, <1>16, <1>17, <1>18 DEF Core

LEMMA CrashCore ==
  ASSUME Core, NEW fault \in Faults, Crash(fault)
  PROVE  Core'
  <1>1. /\ UNCHANGED <<pools, table, running, init_pcb, queues, abandoned, awaited>>
        /\ reported' \in Reports /\ mode' \in Modes
    BY DEF Crash, Reports, Modes, Faults
  <1> QED BY <1>1, CoreFrame

\* The running process blocks, in wait or in sleep, and the next one is resumed.
LEMMA BlockCore ==
  ASSUME Core, running # NULL,
         status' = [status EXCEPT ![running] = "Waiting"],
         waiting_list' = waiting_list \cup {running},
         \/ ready_list = <<>> /\ running' = NULL /\ ready_list' = ready_list
         \/ ready_list # <<>> /\ running' = Head(ready_list) /\ ready_list' = ReadyListRest,
         \/ /\ timer_list' = timer_list
            /\ \E a \in Waits : awaited' = [awaited EXCEPT ![running] = a]
         \/ /\ \E ticks \in Nat : timer_list' = TimerList_add(timer_list, ticks, running)
            /\ awaited' = [awaited EXCEPT ![running] = NotWaiting],
         mode' \in Modes, reported' = NoReport,
         UNCHANGED <<pools, pid, parent, children, forked, init_pcb, zombie_list, abandoned>>
  PROVE  Core'
  <1> USE DEF pools
  <1>1. Placed /\ Distinct(ready_list) /\ Distinct(pcb_free) /\ ready_list \in Seq(Blocks)
    BY PlacementParts DEF Core, TypeOK
  <1>2. running \in Run /\ running \in Blocks /\ Run = {running} /\ running \notin Asleep
    BY RunningIsLive DEF Run
  <1>3. /\ ready_list' \in Seq(Blocks) /\ Distinct(ready_list')
        /\ Elements(ready_list') \cup Run' = Elements(ready_list)
        /\ Elements(ready_list') \cap Run' = {}
        /\ running' \in Blocks \cup {NULL}
    <2>1. CASE ready_list = <<>> /\ running' = NULL /\ ready_list' = ready_list
      BY <1>1, <2>1, EmptyElements DEF Run
    <2>2. CASE ready_list # <<>> /\ running' = Head(ready_list) /\ ready_list' = ReadyListRest
      <3>1. Run' = {Head(ready_list)}
        BY <2>2, HeadOfReady DEF Run
      <3> QED BY <2>2, <3>1, HeadOfReady
    <2> QED BY <2>1, <2>2
  <1>4. Free' = Free
    BY DEF Free
  <1>5. /\ timer_list' \in Seq(Timers) /\ OneTimerEach(timer_list')
        /\ Asleep' \subseteq Asleep \cup {running}
        /\ running \in Asleep' => awaited' = [awaited EXCEPT ![running] = NotWaiting]
    <2>1. /\ timer_list \in Seq(Timers) /\ OneTimerEach(timer_list) /\ Asleep = Sleeping(timer_list)
          /\ Asleep' = Sleeping(timer_list')
      BY DEF Core, TypeOK, Timers, SleepersApart, OneTimerEach, Asleep, Sleeping
    <2>2. CASE timer_list' = timer_list
      BY <1>2, <2>1, <2>2
    <2>3. ASSUME NEW ticks \in Nat, timer_list' = TimerList_add(timer_list, ticks, running)
          PROVE  timer_list' \in Seq(Timers) /\ OneTimerEach(timer_list')
                 /\ Sleeping(timer_list') = Asleep \cup {running}
      BY <1>2, <2>1, <2>3, TimerAdded
    <2> QED BY <2>1, <2>2, <2>3
  <1>6. awaited' \in [Blocks -> Waits] /\ \A c \in Blocks \ {running} : awaited'[c] = awaited[c]
    BY <1>2 DEF Core, TypeOK, Waits
  <1>7. /\ status' \in [Blocks -> Statuses] /\ status'[running] = "Waiting"
        /\ \A c \in Blocks \ {running} : status'[c] = status[c]
    BY <1>2 DEF Core, TypeOK, Statuses
  <1>8. TypeOK'
    BY <1>2, <1>3, <1>5, <1>6, <1>7 DEF Core, TypeOK, Timers, Waits, Modes
  <1>9. Placement'
    <2>1. Placed'
      BY <1>1, <1>2, <1>3, <1>4 DEF Placed, Partition
    <2> QED BY <1>1, <1>3, <2>1, PlacementParts
  <1>10. StatusFits'
    <2>1. ASSUME NEW c \in Elements(ready_list) \cup abandoned \cup zombie_list \cup Free
          PROVE  c \in Blocks \ {running}
      BY <1>1, <1>2 DEF Placed, Partition
    <2>2. \A c \in waiting_list : c \in Blocks
      BY DEF Core, TypeOK
    <2>3. \A c \in Elements(ready_list') \cup Run' \cup abandoned' : status'[c] \in {"Running", "Ready"}
      <3> SUFFICES ASSUME NEW c \in Elements(ready_list) \cup abandoned
                   PROVE  status'[c] \in {"Running", "Ready"}
        BY <1>3
      <3> QED BY <1>7, <2>1 DEF Core, StatusFits
    <2> QED BY <1>4, <1>7, <2>1, <2>2, <2>3 DEF Core, StatusFits
  <1>11. SleepersApart'
    <2>1. \A c \in Asleep' : c = running \/ (c \in Asleep /\ c \in Blocks \ {running})
      BY <1>2, <1>5, SleepersAreBlocks
    <2>2. \A c \in Asleep' : status'[c] = "Waiting" /\ awaited'[c] = NotWaiting
      BY <1>2, <1>5, <1>6, <1>7, <2>1 DEF Core, SleepersApart, TypeOK
    <2> QED BY <1>5, <2>1, <2>2 DEF Core, SleepersApart, OneTimerEach
  <1> QED BY <1>8, <1>9, <1>10, <1>11, KidsFrame DEF Core

LEMMA WaitCore ==
  ASSUME Core, NEW a \in WaitPids, internal_wait(a)
  PROVE  Core'
  <1>1. /\ Calls /\ running # NULL /\ running \in Blocks /\ a \in Waits
    BY RunningIsLive DEF internal_wait, Calls, Waits, Pids, NotAPid
  <1>2. CASE WaitFails(a) /\ awaited' = [awaited EXCEPT ![running] = a]
    <2>1. reported' \in Reports /\ mode' \in Modes
      BY <1>1, <1>2 DEF WaitFails, Reports, Modes, DSOS_EWAIT, Core, TypeOK
    <2> QED BY <1>1, <1>2, <2>1, CoreFrame DEF WaitFails
  <1>3. CASE WaitReaps(a) /\ awaited' = [awaited EXCEPT ![running] = a]
    BY <1>1, <1>3, ReapCore
  <1>4. CASE WaitBlocks(a) /\ awaited' = [awaited EXCEPT ![running] = a]
    <2>1. mode' \in Modes /\ ready_list # <<>> /\ running' = Head(ready_list)
      BY <1>4 DEF WaitBlocks, Resume, Modes, Faults
    <2> QED BY <1>1, <1>4, <2>1, BlockCore DEF WaitBlocks
  <1>5. CASE WaitCrashes(a)
    BY <1>5, CrashCore DEF WaitCrashes, Faults
  <1> QED BY <1>2, <1>3, <1>4, <1>5 DEF internal_wait

LEMMA SleepCore ==
  ASSUME Core, NEW ticks \in SleepTimes, internal_sleep(ticks)
  PROVE  Core'
  <1>1. /\ running # NULL /\ ticks \in Nat
        /\ awaited' = [awaited EXCEPT ![running] = NotWaiting]
    BY DEF internal_sleep, CallsOther, Calls
  <1>2. \/ ready_list = <<>> /\ running' = NULL /\ ready_list' = ready_list /\ mode' = mode
        \/ ready_list # <<>> /\ ready_list' = ReadyListRest /\ Resume(Head(ready_list))
    BY DEF internal_sleep
  <1>3. /\ mode' \in Modes
        /\ \/ ready_list = <<>> /\ running' = NULL /\ ready_list' = ready_list
           \/ ready_list # <<>> /\ running' = Head(ready_list) /\ ready_list' = ReadyListRest
    BY <1>2 DEF Resume, Modes, Faults, Core, TypeOK
  <1> QED BY <1>1, <1>3, BlockCore DEF internal_sleep

\* internal_exit gives the children of the running process to init.
LEMMA ReparentedLists ==
  ASSUME Core, running # NULL, running # init_pcb
  PROVE  /\ Reparented \in [Blocks -> Seq(Blocks)]
         /\ Reparented[running] = <<>>
         /\ Elements(Reparented[init_pcb]) = Elements(children[init_pcb]) \cup Elements(children[running])
         /\ \A c \in Blocks \ {running, init_pcb} : Reparented[c] = children[c]
         /\ \A c \in Live : Elements(Reparented[c]) \subseteq Kids /\ Distinct(Reparented[c])
         /\ \A c, d \in Live : c # d => Elements(Reparented[c]) \cap Elements(Reparented[d]) = {}
  <1>1. running \in Live /\ init_pcb \in Live /\ running \in Blocks /\ init_pcb \in Blocks
    BY RunningIsLive DEF Core, InitLives, TypeOK
  <1>2. children \in [Blocks -> Seq(Blocks)]
    BY DEF Core, TypeOK
  <1> DEFINE mine == children[running]
             inits == children[init_pcb]
             all == inits \o mine
  <1>3. /\ mine \in Seq(Blocks) /\ inits \in Seq(Blocks) /\ Distinct(mine) /\ Distinct(inits)
        /\ Elements(inits) \cap Elements(mine) = {}
    BY <1>1, <1>2 DEF Core, ChildrenAreLive
  <1>4. /\ all \in Seq(Blocks) /\ Distinct(all)
        /\ Elements(all) = Elements(inits) \cup Elements(mine)
    <2> HIDE DEF mine, inits
    <2> QED BY <1>3, ConcatElements
  <1>5. /\ Reparented[running] = <<>> /\ Reparented[init_pcb] = all
        /\ \A c \in Blocks \ {running, init_pcb} : Reparented[c] = children[c]
    BY <1>1, <1>2 DEF Reparented
  <1>6. Reparented \in [Blocks -> Seq(Blocks)]
    <2>1. <<>> \in Seq(Blocks)
      OBVIOUS
    <2> HIDE DEF all
    <2>2. Reparented = [children EXCEPT ![init_pcb] = all, ![running] = <<>>]
      BY DEF Reparented, all
    <2> QED BY <1>1, <1>2, <1>4, <2>1, <2>2
  <1> HIDE DEF all
  <1>7. ASSUME NEW c \in Live
        PROVE  /\ Distinct(Reparented[c])
               /\ \/ c = running /\ Elements(Reparented[c]) = {}
                  \/ c = init_pcb /\ Elements(Reparented[c]) = Elements(inits) \cup Elements(mine)
                  \/ c # running /\ c # init_pcb /\ Elements(Reparented[c]) = Elements(children[c])
    <2>1. c \in Blocks /\ Distinct(children[c])
      BY DEF Live, Core, ChildrenAreLive
    <2> QED BY <1>4, <1>5, <2>1, EmptyElements
  <1>8. \A c \in Live : Elements(children[c]) \subseteq Kids
    BY DEF Kids
  <1>9. \A c \in Live : Elements(Reparented[c]) \subseteq Kids
    BY <1>1, <1>7, <1>8
  <1>10. ASSUME NEW c \in Live, NEW d \in Live, c # d
         PROVE  Elements(Reparented[c]) \cap Elements(Reparented[d]) = {}
    <2>1. \A e, f \in Live : e # f => Elements(children[e]) \cap Elements(children[f]) = {}
      BY DEF Core, ChildrenAreLive
    <2>2. /\ Elements(children[c]) \cap Elements(children[d]) = {}
          /\ c # running => Elements(children[c]) \cap Elements(mine) = {}
          /\ d # running => Elements(children[d]) \cap Elements(mine) = {}
          /\ c # init_pcb => Elements(children[c]) \cap Elements(inits) = {}
          /\ d # init_pcb => Elements(children[d]) \cap Elements(inits) = {}
      BY <1>1, <1>10, <2>1
    <2> HIDE DEF mine, inits
    <2> QED BY <1>7, <1>10, <2>2
  <1> QED BY <1>4, <1>5, <1>6, <1>7, <1>9, <1>10

LEMMA ExitToZombieCore ==
  ASSUME Core, running # NULL, parent[running] # NULL, ExitToZombie,
         awaited' = [awaited EXCEPT ![running] = NotWaiting],
         UNCHANGED <<pid, parent, forked, init_pcb, abandoned>>
  PROVE  Core'
  <1> DEFINE h == Head(ready_list)
  <1>1. /\ ready_list # <<>>
        /\ status' = [status EXCEPT ![running] = "Zombie", ![h] = "Running"]
        /\ zombie_list' = zombie_list \cup {running}
        /\ children' = Reparented
        /\ ready_list' = ReadyListRest
        /\ running' = h /\ mode' \in Modes
        /\ reported' = NoReport
        /\ UNCHANGED <<pools, waiting_list, timer_list>>
    BY DEF ExitToZombie, Resume, Modes, Faults
  <1>2. running \in Blocks /\ running \in Live /\ running # init_pcb
    BY RunningIsLive DEF Core, InitLives
  <1>3. /\ Placed /\ Distinct(pcb_free) /\ Run = {running}
        /\ Elements(ready_list) \subseteq Blocks
    BY PlacementParts DEF Core, Run, Placed, Partition
  <1>4. /\ h \in Elements(ready_list) /\ h \in Blocks /\ h # NULL /\ h # running
        /\ ready_list' \in Seq(Blocks) /\ Distinct(ready_list')
        /\ Elements(ready_list') = Elements(ready_list) \ {h}
    BY <1>1, HeadOfReady
  <1> HIDE DEF h
  <1>5. Free' = Free /\ Live' = Live /\ Asleep' = Asleep /\ Run' = {h}
    BY <1>1, <1>4 DEF Free, Live, Asleep, Run, pools
  <1>6. /\ status' \in [Blocks -> Statuses] /\ status'[running] = "Zombie" /\ status'[h] = "Running"
        /\ \A c \in Blocks \ {running, h} : status'[c] = status[c]
    BY <1>1, <1>2, <1>4 DEF Core, TypeOK, Statuses
  <1>7. /\ awaited' \in [Blocks -> Pids \cup {NotWaiting, NotAPid}]
        /\ \A c \in Blocks \ {running} : awaited'[c] = awaited[c]
    BY <1>2 DEF Core, TypeOK
  <1>8. /\ children' \in [Blocks -> Seq(Blocks)]
        /\ \A c \in Live : Elements(children'[c]) \subseteq Kids /\ Distinct(children'[c])
        /\ \A c, d \in Live : c # d => Elements(children'[c]) \cap Elements(children'[d]) = {}
    BY <1>1, <1>2, ReparentedLists
  <1>9. TypeOK'
    BY <1>1, <1>2, <1>4, <1>6, <1>7, <1>8 DEF Core, TypeOK, pools, Modes
  <1>10. Placement'
    <2>1. Placed'
      BY <1>1, <1>3, <1>4, <1>5 DEF Placed, Partition
    <2> QED BY <1>1, <1>3, <1>4, <2>1, PlacementParts DEF pools
  <1>11. StatusFits'
    <2>1. ASSUME NEW c \in (Elements(ready_list) \ {h}) \cup waiting_list \cup zombie_list
                           \cup Free \cup abandoned
          PROVE  c \in Blocks \ {running, h}
      BY <1>3, <1>4 DEF Placed, Partition
    <2> QED BY <1>1, <1>4, <1>5, <1>6, <2>1 DEF Core, StatusFits
  <1>12. SleepersApart'
    <2>1. \A c \in Asleep : c \in Blocks \ {running, h}
      BY <1>3, <1>4 DEF Core, SleepersApart, Placed, Partition
    <2>2. \A c \in Asleep : status'[c] = status[c] /\ awaited'[c] = awaited[c]
      BY <1>6, <1>7, <2>1
    <2> QED BY <1>1, <1>5, <2>2 DEF Core, SleepersApart
  <1>13. ChildrenAreLive'
    BY <1>5, <1>8, KidsAreBlocks DEF ChildrenAreLive
  <1>14. InitLives'
    BY <1>1, <1>2, <1>5 DEF Core, InitLives
  <1>15. PtrsCounted'
    <2>1. Kids' \in SUBSET Kids /\ Kids \in SUBSET Blocks /\ Kids' \in SUBSET Blocks
      BY <1>5, <1>8, KidsAreBlocks DEF Kids
    <2>2. /\ Cardinality(Kids') <= Cardinality(Kids)
          /\ Cardinality(Kids') \in Nat /\ Cardinality(Kids) \in Nat
      BY <2>1, CountingBlocks
    <2> QED BY <1>1, <2>2 DEF Core, PtrsCounted, TypeOK, pools
  <1> QED BY <1>9, <1>10, <1>11, <1>12, <1>13, <1>14, <1>15 DEF Core

LEMMA ExitWakesCore ==
  ASSUME Core, running # NULL, parent[running] # NULL, ExitWakesParent,
         awaited' = [awaited EXCEPT ![running] = NotWaiting],
         UNCHANGED <<pid, parent, forked, init_pcb, abandoned>>
  PROVE  Core'
  <1> DEFINE p == parent[running]
             mine == Reparented[p]
  <1>1. /\ status[p] = "Waiting" /\ awaited[p] \in {0, pid[running]}
        /\ running \in Elements(mine)
        /\ waiting_list' = waiting_list \ {p}
        /\ status' = [status EXCEPT ![running] = "Zombie", ![p] = "Running"]
        /\ children' = [Reparented EXCEPT ![p] = DetachAt(@, IndexIn(@, running))]
        /\ reported' = [to |-> p, value |-> pid[running]]
        /\ timer_list' = WithoutTimersOf(timer_list, running)
        /\ pcb_free' = <<running>> \o pcb_free
        /\ running' = p /\ mode' \in Modes
        /\ UNCHANGED <<ptr_free, last_pid, ready_list, zombie_list>>
    BY DEF ExitWakesParent, ParentAwaits, Resume, Modes, Faults
  <1>2. running \in Blocks /\ running \in Live /\ running # init_pcb /\ running \notin Asleep
    BY RunningIsLive DEF Core, InitLives
  <1>3. /\ Placed /\ Distinct(ready_list) /\ Run = {running} /\ running \in Run
    BY PlacementParts DEF Core, Run
  <1>4. p \in Blocks
    BY <1>2 DEF Core, TypeOK
  <1>5. p \in waiting_list /\ p \in Live /\ p # running /\ p # NULL
    <2>1. p \in waiting_list
      BY <1>1, <1>3, <1>4, WaitingIsListed DEF Core
    <2> QED BY <1>3, <1>4, <2>1 DEF Placed, Partition, Live, Blocks
  <1>6. p \notin Asleep
    <2>1. pid[running] \in Nat
      BY <1>2 DEF Core, TypeOK, Pids
    <2> QED BY <1>1, <2>1 DEF Core, SleepersApart, NotWaiting
  <1>7. timer_list' = timer_list
    BY <1>1, <1>2 DEF WithoutTimersOf, Asleep
  <1>8. /\ Reparented \in [Blocks -> Seq(Blocks)]
        /\ \A c \in Live : Elements(Reparented[c]) \subseteq Kids /\ Distinct(Reparented[c])
        /\ \A c, d \in Live : c # d => Elements(Reparented[c]) \cap Elements(Reparented[d]) = {}
    BY <1>2, ReparentedLists
  <1>9. mine \in Seq(Blocks) /\ Distinct(mine)
    BY <1>4, <1>5, <1>8
  <1> HIDE DEF p, mine
  <1>10. /\ DetachAt(mine, IndexIn(mine, running)) \in Seq(Blocks)
         /\ Distinct(DetachAt(mine, IndexIn(mine, running)))
         /\ Elements(DetachAt(mine, IndexIn(mine, running))) = Elements(mine) \ {running}
    <2> DEFINE i == IndexIn(mine, running)
    <2>1. i \in 1 .. Len(mine) /\ mine[i] = running
      BY <1>1, IndexInList
    <2> HIDE DEF i
    <2>2. /\ DetachAt(mine, i) \in Seq(Blocks)
          /\ Distinct(DetachAt(mine, i))
          /\ Elements(DetachAt(mine, i)) = Elements(mine) \ {running}
      BY <1>9, <2>1, DetachAtSeq, DetachAtDistinct, DetachAtElements
    <2> QED BY <2>2 DEF i
  <1>11. /\ children' \in [Blocks -> Seq(Blocks)]
         /\ Distinct(children'[p]) /\ Elements(children'[p]) = Elements(Reparented[p]) \ {running}
         /\ \A c \in Blocks \ {p} : children'[c] = Reparented[c]
    <2>1. children' = [Reparented EXCEPT ![p] = DetachAt(mine, IndexIn(mine, running))]
      BY <1>1 DEF mine
    <2> QED BY <1>4, <1>8, <1>10, <2>1 DEF mine
  <1>12. /\ pcb_free' \in Seq(Blocks) /\ Distinct(pcb_free')
         /\ Free' = Free \cup {running} /\ Live' = Live \ {running}
    <2>1. /\ pcb_free' \in Seq(Blocks) /\ Distinct(pcb_free') /\ Free' = Free \cup {running}
      BY <1>1, <1>2, BackToFree DEF Free, Live
    <2> QED BY <2>1 DEF Live
  <1>13. /\ status' \in [Blocks -> Statuses] /\ status'[running] = "Zombie" /\ status'[p] = "Running"
         /\ \A c \in Blocks \ {running, p} : status'[c] = status[c]
    BY <1>1, <1>2, <1>4, <1>5 DEF Core, TypeOK, Statuses
  <1>14. /\ awaited' \in [Blocks -> Pids \cup {NotWaiting, NotAPid}]
         /\ \A c \in Blocks \ {running} : awaited'[c] = awaited[c]
    BY <1>2 DEF Core, TypeOK
  <1>15. TypeOK'
    <2>1. reported' \in [to : Blocks, value : Int]
      BY <1>1, <1>2, <1>4 DEF Core, TypeOK, Pids
    <2> QED BY <1>1, <1>4, <1>7, <1>11, <1>12, <1>13, <1>14, <2>1 DEF Core, TypeOK, Modes
  <1>16. Run' = {p}
    BY <1>1, <1>5 DEF Run
  <1>17. Placement'
    <2>1. Placed'
      BY <1>1, <1>3, <1>4, <1>5, <1>12, <1>16 DEF Placed, Partition
    <2> QED BY <1>1, <1>3, <1>12, <2>1, PlacementParts
  <1>18. StatusFits'
    <2>1. ASSUME NEW c \in Elements(ready_list) \cup (waiting_list \ {p}) \cup zombie_list
                           \cup Free \cup abandoned
          PROVE  c \in Blocks \ {running, p}
      BY <1>3, <1>5 DEF Placed, Partition
    <2> QED BY <1>1, <1>12, <1>13, <1>16, <2>1 DEF Core, StatusFits
  <1>19. SleepersApart'
    <2>1. Asleep' = Asleep /\ \A c \in Asleep : c \in Blocks \ {running, p}
      BY <1>2, <1>6, <1>7, SleepersAreBlocks DEF Asleep
    <2>2. \A c \in Asleep : status'[c] = status[c] /\ awaited'[c] = awaited[c]
      BY <1>13, <1>14, <2>1
    <2> QED BY <1>1, <1>7, <2>1, <2>2 DEF Core, SleepersApart
  <1>20. ASSUME NEW c \in Live'
         PROVE  /\ c \in Live /\ Distinct(children'[c])
                /\ Elements(children'[c]) \subseteq Elements(Reparented[c])
                /\ running \notin Elements(children'[c])
    <2>1. c \in Live /\ c \in Blocks
      BY <1>12 DEF Live
    <2>2. c # p => running \notin Elements(Reparented[c]) /\ Distinct(Reparented[c])
      BY <1>1, <1>5, <1>8, <2>1 DEF mine
    <2> QED BY <1>11, <2>1, <2>2
  <1>21. ChildrenAreLive'
    <2>1. \A c \in Live' : Elements(children'[c]) \subseteq Live' /\ Distinct(children'[c])
      BY <1>8, <1>12, <1>20, KidsAreBlocks
    <2>2. ASSUME NEW c \in Live', NEW d \in Live', c # d
          PROVE  Elements(children'[c]) \cap Elements(children'[d]) = {}
      <3>1. Elements(Reparented[c]) \cap Elements(Reparented[d]) = {}
        BY <1>8, <1>20, <2>2
      <3> QED BY <1>20, <3>1
    <2> QED BY <2>1, <2>2 DEF ChildrenAreLive
  <1>22. InitLives'
    BY <1>1, <1>2, <1>12 DEF Core, InitLives
  <1>23. PtrsCounted'
    <2>1. Kids' \subseteq Kids
      <3>1. \A c \in Live' : Elements(children'[c]) \subseteq Kids
        BY <1>8, <1>20
      <3> QED BY <3>1 DEF Kids
    <2>2. /\ Cardinality(Kids') <= Cardinality(Kids)
          /\ Cardinality(Kids') \in Nat /\ Cardinality(Kids) \in Nat
      BY <2>1, KidsAreBlocks, CountingBlocks
    <2> QED BY <1>1, <2>2 DEF Core, PtrsCounted, TypeOK
  <1> QED BY <1>15, <1>17, <1>18, <1>19, <1>21, <1>22, <1>23 DEF Core

LEMMA ExitCore ==
  ASSUME Core, internal_exit
  PROVE  Core'
  <1>1. CASE Crash("Hang") \/ Crash("NullDereference")
    BY <1>1, CrashCore DEF Faults
  <1>2. CASE /\ parent[running] # NULL
             /\ CallsOther
             /\ ExitWakesParent \/ ExitToZombie
             /\ UNCHANGED <<pid, parent, forked, init_pcb, abandoned>>
    <2>1. running # NULL /\ awaited' = [awaited EXCEPT ![running] = NotWaiting]
      BY <1>2 DEF CallsOther, Calls
    <2> QED BY <1>2, <2>1, ExitToZombieCore, ExitWakesCore
  <1> QED BY <1>1, <1>2 DEF internal_exit

LEMMA RestartsCore ==
  ASSUME Core, Restart
  PROVE  Core'
  BY CrashCore, RestartCore DEF Restart, Faults

\* The timer list read one tick later
LEMMA TickedTimers ==
  ASSUME Core
  PROVE  /\ timer_list \in Seq(Timers) /\ OneTimerEach(timer_list)
         /\ Sleeping(timer_list) = Asleep
         /\ TimersAfterTick \in Seq(Timers) /\ OneTimerEach(TimersAfterTick)
         /\ Len(TimersAfterTick) = Len(timer_list)
         /\ \A i \in 1 .. Len(timer_list) :
              /\ TimersAfterTick[i].pcb = timer_list[i].pcb
              /\ TimersAfterTick[i].left = timer_list[i].left - 1
         /\ Sleeping(TimersAfterTick) = Asleep
  <1>1. timer_list \in Seq(Timers) /\ OneTimerEach(timer_list) /\ Sleeping(timer_list) = Asleep
    BY DEF Core, TypeOK, Timers, SleepersApart, OneTimerEach, Asleep, Sleeping
  <1> DEFINE Ticked(t) == [t EXCEPT !.left = @ - 1]
             n == Len(timer_list)
  <1>2. \A t \in Timers : Ticked(t) \in Timers /\ Ticked(t).pcb = t.pcb /\ Ticked(t).left = t.left - 1
    BY DEF Timers
  <1>3. n \in Nat /\ \A i \in 1 .. n : timer_list[i] \in Timers
    BY <1>1
  <1>4. TimersAfterTick = [i \in 1 .. n |-> Ticked(timer_list[i])]
    BY DEF TimersAfterTick
  <1> HIDE DEF Ticked, n
  <1>5. /\ TimersAfterTick \in Seq(Timers) /\ Len(TimersAfterTick) = n
        /\ \A i \in 1 .. n : TimersAfterTick[i] = Ticked(timer_list[i])
    BY <1>2, <1>3, <1>4
  <1>6. \A i \in 1 .. n : TimersAfterTick[i].pcb = timer_list[i].pcb
                          /\ TimersAfterTick[i].left = timer_list[i].left - 1
    BY <1>2, <1>3, <1>5
  <1>7. OneTimerEach(TimersAfterTick)
    BY <1>1, <1>5, <1>6 DEF OneTimerEach, n
  <1>8. Sleeping(TimersAfterTick) = Sleeping(timer_list)
    BY <1>5, <1>6 DEF Sleeping, n
  <1> QED BY <1>1, <1>5, <1>6, <1>7, <1>8 DEF n

\* A timer interrupt or a preempt that does not crash
LEMMA TurnIsSchedule ==
  ASSUME Core, running # NULL, mode = "Up",
         internal_schedule(TimersAfterTick) \/ internal_schedule(timer_list)
  PROVE  \E W \in SUBSET Asleep : ScheduleEffect(W)
  BY TickedTimers, ScheduleStep

LEMMA TickCore ==
  ASSUME Core, timerInterrupt
  PROVE  Core'
  <1>1. CASE Crash("NullDereference")
    BY <1>1, CrashCore DEF Faults
  <1>2. CASE running # NULL /\ internal_schedule(TimersAfterTick) /\ UNCHANGED awaited
    BY <1>2, TurnIsSchedule, ScheduleCore DEF timerInterrupt
  <1> QED BY <1>1, <1>2 DEF timerInterrupt

LEMMA PreemptCore ==
  ASSUME Core, internal_preempt
  PROVE  Core'
  <1>1. /\ running # NULL /\ mode = "Up"
        /\ awaited' = [awaited EXCEPT ![running] = NotWaiting]
        /\ internal_schedule(timer_list)
    BY DEF internal_preempt, CallsOther, Calls
  <1> QED BY <1>1, TurnIsSchedule, ScheduleCore

LEMMA ShutdownCore ==
  ASSUME Core, internal_shutdown
  PROVE  Core'
  <1>1. /\ running # NULL
        /\ awaited' = [awaited EXCEPT ![running] = NotWaiting]
        /\ NotWaiting \in Waits
        /\ reported' \in Reports /\ mode' \in Modes
        /\ UNCHANGED <<pools, table, running, init_pcb, queues, abandoned>>
    BY DEF internal_shutdown, CallsOther, Calls, Waits, Reports, Modes
  <1> QED BY <1>1, CoreFrame

LEMMA NextCore ==
  ASSUME Core, [Next]_vars
  PROVE  Core'
  <1>1. CASE UNCHANGED vars
    <2>1. /\ UNCHANGED <<pools, table, running, init_pcb, queues, abandoned, awaited>>
          /\ reported' \in Reports /\ mode' \in Modes
      BY <1>1 DEF vars, Core, TypeOK, Reports, Modes
    <2> QED BY <2>1, CoreFrame
  <1>2. CASE timerInterrupt
    BY <1>2, TickCore
  <1>3. CASE AllAsleep
    BY <1>3, CrashCore, RestartsCore DEF AllAsleep, Faults
  <1>4. CASE FunctionReturns
    BY <1>4, RestartsCore DEF FunctionReturns
  <1>5. CASE internal_preempt
    BY <1>5, PreemptCore
  <1>6. CASE internal_spawn \/ internal_fork
    BY <1>6, CreateCore DEF internal_spawn, internal_fork
  <1>7. CASE \E a \in WaitPids : internal_wait(a)
    BY <1>7, WaitCore
  <1>8. CASE \E ticks \in SleepTimes : internal_sleep(ticks)
    BY <1>8, SleepCore
  <1>9. CASE internal_exit
    BY <1>9, ExitCore
  <1>10. CASE internal_shutdown
    BY <1>10, ShutdownCore
  <1> QED BY <1>1, <1>2, <1>3, <1>4, <1>5, <1>6, <1>7, <1>8, <1>9, <1>10 DEF Next

(* Whatever the programs do and whenever the timer strikes, every process
   control block has fields of its type, is in exactly one place, and the
   children lists of live processes hold live processes, each once: the lists
   and the pools that disastrOS_spawn, wait, exit, sleep, preempt and the timer
   interrupt share are never corrupted. *)
THEOREM CoreHolds == Spec => []Core
  <1>1. Core /\ [Next]_vars => Core'
    BY NextCore
  <1> QED BY InitCore, <1>1, PTL DEF Spec

(* The fields keep their types: no pool count leaves its range, no field of a
   block points outside the table. *)
THEOREM TypeCorrect == Spec => []TypeOK
  <1>1. Core => TypeOK
    BY DEF Core
  <1> QED BY CoreHolds, <1>1, PTL

(* No handler links a process control block into a second list, detaches one
   from a list it is not in, or releases one twice. *)
THEOREM PlacementHolds == Spec => []Placement
  <1>1. Core => Placement
    BY DEF Core
  <1> QED BY CoreHolds, <1>1, PTL

(* No children list of a live process refers to a released block, and no process
   is in two of them: exit's reparenting, wait's reaping and the re-use of blocks
   never leave a dangling PCBPtr behind. *)
THEOREM ChildrenLive == Spec => []ChildrenAreLive
  <1>1. Core => ChildrenAreLive
    BY DEF Core
  <1> QED BY CoreHolds, <1>1, PTL

-----------------------------------------------------------------------------
(* The kinds of step there are, crashes and failing calls among those that move
   nothing *)

Stays ==
  /\ UNCHANGED <<pools, table, running, init_pcb, queues, abandoned>>
  /\ \/ awaited' = awaited
     \/ /\ running # NULL
        /\ \E a \in Waits : awaited' = [awaited EXCEPT ![running] = a]

Turns ==
  /\ running # NULL
  /\ internal_schedule(TimersAfterTick) \/ internal_schedule(timer_list)
  /\ \E W \in SUBSET Asleep : ScheduleEffect(W)
  /\ awaited' \in {awaited, [awaited EXCEPT ![running] = NotWaiting]}

Starts ==
  /\ pcb_free # <<>> /\ last_pid < MaxPid
  /\ PCB_alloc(NULL, "Running", TRUE)
  /\ running' = Head(pcb_free) /\ init_pcb' = Head(pcb_free)
  /\ abandoned' = abandoned \cup Run
  /\ UNCHANGED <<ptr_free, awaited, queues>>

CreatesChild ==
  /\ running # NULL
  /\ pcb_free # <<>> /\ last_pid < MaxPid
  /\ \E context \in BOOLEAN : PCB_alloc(running, "Ready", context)
  /\ ready_list' = Append(ready_list, Head(pcb_free))
  /\ awaited' = [awaited EXCEPT ![running] = NotWaiting]
  /\ UNCHANGED <<running, init_pcb, waiting_list, zombie_list, timer_list, abandoned>>

Reaps ==
  /\ Calls
  /\ \E a \in WaitPids : WaitReaps(a) /\ awaited' = [awaited EXCEPT ![running] = a]

WaitsForChild ==
  /\ Calls
  /\ \E a \in WaitPids : WaitBlocks(a) /\ awaited' = [awaited EXCEPT ![running] = a]

Sleeps == \E ticks \in SleepTimes : internal_sleep(ticks)

Exits ==
  /\ Calls
  /\ running # NULL /\ parent[running] # NULL
  /\ ExitWakesParent \/ ExitToZombie
  /\ awaited' = [awaited EXCEPT ![running] = NotWaiting]
  /\ UNCHANGED <<pid, parent, forked, init_pcb, abandoned>>

LEMMA StepKinds ==
  ASSUME Core, [Next]_vars
  PROVE  \/ Stays \/ Turns \/ Starts \/ CreatesChild
         \/ Reaps \/ WaitsForChild \/ Sleeps \/ Exits
  <1>1. UNCHANGED vars => Stays
    BY DEF vars, Stays
  <1>2. ASSUME NEW fault, Crash(fault) PROVE Stays
    BY <1>2 DEF Crash, Stays
  <1>3. Restart => Stays \/ Starts
    BY <1>2 DEF Restart, Starts, Run
  <1>4. timerInterrupt => Stays \/ Turns
    BY <1>2, TurnIsSchedule DEF timerInterrupt, Turns
  <1>5. internal_preempt => Turns
    BY TurnIsSchedule DEF internal_preempt, CallsOther, Calls, Turns
  <1>6. AllAsleep \/ FunctionReturns => Stays \/ Starts
    BY <1>2, <1>3 DEF AllAsleep, FunctionReturns
  <1>7. internal_spawn \/ internal_fork => Stays \/ CreatesChild
    BY <1>2 DEF internal_spawn, internal_fork, Create, CallsOther, Calls, CreatesChild
  <1>8. ASSUME NEW a \in WaitPids, internal_wait(a) PROVE Stays \/ Reaps \/ WaitsForChild
    <2>1. running # NULL /\ Calls /\ a \in Waits
      BY <1>8 DEF internal_wait, Calls, Waits, Pids, NotAPid
    <2>2. WaitFails(a) /\ awaited' = [awaited EXCEPT ![running] = a] => Stays
      BY <2>1 DEF WaitFails, Stays
    <2>3. WaitCrashes(a) => Stays
      BY <1>2 DEF WaitCrashes
    <2> QED BY <1>8, <2>1, <2>2, <2>3 DEF internal_wait, Reaps, WaitsForChild
  <1>9. internal_exit => Stays \/ Exits
    BY <1>2 DEF internal_exit, Exits, CallsOther, Calls
  <1>10. internal_shutdown => Stays
    <2>1. NotWaiting \in Waits
      BY DEF Waits
    <2> QED BY <2>1 DEF internal_shutdown, CallsOther, Calls, Stays
  <1> QED BY <1>1, <1>4, <1>5, <1>6, <1>7, <1>8, <1>9, <1>10 DEF Next, Sleeps

-----------------------------------------------------------------------------
(* Statuses, and the reasons for being blocked *)

ReadyAndWaiting ==
  /\ \A b \in Elements(ready_list) : status[b] = "Ready"
  /\ \A b \in waiting_list : status[b] = "Waiting"

\* Who waits without a timer waits for a child.
WaitersHaveChildren ==
  \A b \in waiting_list \ Asleep : awaited[b] # NotWaiting /\ children[b] # <<>>

LEMMA Apart ==
  ASSUME Core
  PROVE  /\ Elements(ready_list) \subseteq Blocks /\ waiting_list \subseteq Blocks
         /\ Elements(ready_list) \cap waiting_list = {}
         /\ (Elements(ready_list) \cup waiting_list) \cap (Run \cup zombie_list \cup Free \cup abandoned) = {}
         /\ Asleep \subseteq waiting_list
         /\ running # NULL => running \in Run
         /\ Run \cap (zombie_list \cup Free \cup abandoned) = {}
         /\ zombie_list \cap (Free \cup abandoned) = {} /\ Free \cap abandoned = {}
  <1>1. Placed /\ Asleep \subseteq waiting_list
    BY PlacementParts DEF Core, SleepersApart
  <1> QED BY <1>1 DEF Placed, Partition, Run

\* The block that PCB_alloc takes
LEMMA AllocatedFields ==
  ASSUME Core, pcb_free # <<>>, NEW p, NEW st, NEW context, PCB_alloc(p, st, context)
  PROVE  LET b == Head(pcb_free) IN
         /\ b \in Free /\ b \in Blocks
         /\ status'[b] = st /\ parent'[b] = p /\ pid'[b] = last_pid /\ children'[b] = <<>>
         /\ \A c \in Blocks \ {b} :
              /\ status'[c] = status[c] /\ parent'[c] = parent[c] /\ pid'[c] = pid[c]
              /\ children'[c] = IF c = p THEN Append(children[c], b) ELSE children[c]
         /\ last_pid' = last_pid + 1
  <1>1. Head(pcb_free) \in Free /\ Head(pcb_free) \in Blocks
    BY HeadOfFree
  <1> QED BY <1>1 DEF PCB_alloc, Core, TypeOK

\* A process that exits has one to turn to, its parent or the next ready one.
LEMMA ExitFields ==
  ASSUME Core, Exits
  PROVE  LET p == parent[running] IN
         /\ running \in Blocks /\ running \in Live /\ running # init_pcb
         /\ p \in Blocks /\ init_pcb \in Blocks
         /\ \/ /\ ExitWakesParent
               /\ p \in waiting_list \ Asleep /\ p \in Live /\ p # running
               /\ awaited[p] \in {0, pid[running]} /\ status[p] = "Waiting"
               /\ running' = p /\ waiting_list' = waiting_list \ {p}
               /\ timer_list' = timer_list
               /\ UNCHANGED <<ptr_free, last_pid, ready_list, zombie_list>>
               /\ status'[p] = "Running"
               /\ \A c \in Blocks \ {running, p} : status'[c] = status[c]
               /\ children'[p] = DetachAt(Reparented[p], IndexIn(Reparented[p], running))
               /\ \A c \in Blocks \ {p} : children'[c] = Reparented[c]
               /\ running \in Elements(Reparented[p])
               /\ pcb_free' = <<running>> \o pcb_free
               /\ reported' = [to |-> p, value |-> pid[running]]
            \/ /\ ExitToZombie
               /\ ~(status[p] = "Waiting" /\ awaited[p] \in {0, pid[running]})
               /\ ready_list # <<>> /\ running' = Head(ready_list) /\ ready_list' = ReadyListRest
               /\ status'[running] = "Zombie" /\ status'[Head(ready_list)] = "Running"
               /\ \A c \in Blocks \ {running, Head(ready_list)} : status'[c] = status[c]
               /\ zombie_list' = zombie_list \cup {running}
               /\ children' = Reparented
               /\ reported' = NoReport
               /\ UNCHANGED <<pools, waiting_list, timer_list>>
  <1> DEFINE p == parent[running]
  <1>1. running # NULL /\ p # NULL
    BY DEF Exits
  <1>2. running \in Blocks /\ running \in Live /\ running # init_pcb /\ running \notin Asleep
    BY <1>1, RunningIsLive DEF Core, InitLives
  <1>3. p \in Blocks /\ init_pcb \in Blocks
    BY <1>1, <1>2 DEF Core, TypeOK
  <1>4. CASE ExitToZombie
    <2>1. Head(ready_list) \in Blocks /\ Head(ready_list) # running
      BY <1>4, HeadOfReady DEF ExitToZombie
    <2>2. status' = [status EXCEPT ![running] = "Zombie", ![Head(ready_list)] = "Running"]
      BY <1>4 DEF ExitToZombie
    <2>3. /\ status'[running] = "Zombie" /\ status'[Head(ready_list)] = "Running"
          /\ \A c \in Blocks \ {running, Head(ready_list)} : status'[c] = status[c]
      BY <1>2, <2>1, <2>2 DEF Core, TypeOK
    <2> QED BY <1>2, <1>3, <1>4, <2>3 DEF ExitToZombie, ParentAwaits, Resume
  <1>5. CASE ExitWakesParent
    <2>1. status[p] = "Waiting" /\ awaited[p] \in {0, pid[running]}
      BY <1>5 DEF ExitWakesParent, ParentAwaits
    <2>2. p \in waiting_list
      BY <1>3, <2>1, WaitingIsListed, PlacementParts DEF Core
    <2>3. p \notin Asleep
      <3>1. pid[running] \in Nat
        BY <1>2 DEF Core, TypeOK, Pids
      <3> QED BY <2>1, <3>1 DEF Core, SleepersApart, NotWaiting
    <2>4. p \in Live /\ p # running
      BY <1>1, <1>3, <2>2, Apart DEF Live
    <2>5. timer_list' = timer_list
      BY <1>2, <1>5 DEF ExitWakesParent, WithoutTimersOf, Asleep
    <2>6. /\ status'[p] = "Running" /\ \A c \in Blocks \ {running, p} : status'[c] = status[c]
      BY <1>2, <1>3, <1>5, <2>4 DEF ExitWakesParent, Core, TypeOK
    <2>7. Reparented \in [Blocks -> Seq(Blocks)]
      BY <1>1, <1>2, ReparentedLists
    <2>8. /\ children'[p] = DetachAt(Reparented[p], IndexIn(Reparented[p], running))
          /\ \A c \in Blocks \ {p} : children'[c] = Reparented[c]
      BY <1>3, <1>5, <2>7 DEF ExitWakesParent
    <2> QED BY <1>2, <1>3, <1>5, <2>1, <2>2, <2>3, <2>4, <2>5, <2>6, <2>8 DEF ExitWakesParent, Resume
  <1> QED BY <1>4, <1>5, <1>2, <1>3 DEF Exits

\* Where the processes go when the running one blocks
LEMMA BlockFields ==
  ASSUME Core, WaitsForChild \/ Sleeps
  PROVE  /\ running \in Blocks /\ running \notin Asleep
         /\ Elements(ready_list') \subseteq Elements(ready_list)
         /\ waiting_list' = waiting_list \cup {running}
         /\ status'[running] = "Waiting"
         /\ \A c \in Blocks \ {running} : status'[c] = status[c]
         /\ UNCHANGED <<pools, pid, parent, children, forked, init_pcb, zombie_list, abandoned>>
         /\ \/ /\ WaitsForChild /\ timer_list' = timer_list
               /\ children[running] # <<>>
               /\ \E a \in WaitPids :
                    /\ awaited' = [awaited EXCEPT ![running] = a]
                    /\ LET kids == children[running]
                       IN  status[kids[AwaitedIndex(kids, a)]] # "Zombie"
            \/ /\ Sleeps
               /\ \E ticks \in SleepTimes : timer_list' = TimerList_add(timer_list, ticks, running)
               /\ awaited' = [awaited EXCEPT ![running] = NotWaiting]
               /\ Asleep' = Asleep \cup {running}
  <1>1. running # NULL
    BY DEF WaitsForChild, Sleeps, internal_sleep, CallsOther, Calls
  <1>2. running \in Blocks /\ running \notin Asleep
    BY <1>1, RunningIsLive
  <1>3. /\ status' = [status EXCEPT ![running] = "Waiting"]
        /\ waiting_list' = waiting_list \cup {running}
        /\ UNCHANGED <<pools, pid, parent, children, forked, init_pcb, zombie_list, abandoned>>
        /\ \/ ready_list' = ready_list
           \/ ready_list # <<>> /\ ready_list' = ReadyListRest
    BY DEF WaitsForChild, Sleeps, internal_sleep, WaitBlocks
  <1>4. Elements(ready_list') \subseteq Elements(ready_list)
    BY <1>3, HeadOfReady
  <1>5. status'[running] = "Waiting" /\ \A c \in Blocks \ {running} : status'[c] = status[c]
    BY <1>2, <1>3 DEF Core, TypeOK
  <1>6. CASE Sleeps
    <2>1. PICK ticks \in SleepTimes : internal_sleep(ticks)
      BY <1>6 DEF Sleeps
    <2>2. /\ timer_list' = TimerList_add(timer_list, ticks, running) /\ ticks \in Int
          /\ awaited' = [awaited EXCEPT ![running] = NotWaiting]
      BY <2>1 DEF internal_sleep, CallsOther
    <2>3. Asleep' = Asleep \cup {running}
      <3>1. /\ timer_list \in Seq(Timers) /\ OneTimerEach(timer_list)
            /\ Sleeping(timer_list) = Asleep /\ running \in Blocks \ Sleeping(timer_list)
        BY <1>2, TickedTimers
      <3>2. Sleeping(TimerList_add(timer_list, ticks, running)) = Asleep \cup {running}
        BY <2>2, <3>1, TimerAdded
      <3>3. Asleep' = Sleeping(timer_list')
        BY DEF Asleep, Sleeping
      <3> QED BY <2>2, <3>2, <3>3
    <2> QED BY <1>2, <1>3, <1>4, <1>5, <1>6, <2>2, <2>3
  <1>7. CASE WaitsForChild
    BY <1>2, <1>3, <1>4, <1>5, <1>7 DEF WaitsForChild, WaitBlocks
  <1> QED BY <1>6, <1>7

LEMMA StatusStep ==
  ASSUME Core, ReadyAndWaiting, [Next]_vars
  PROVE  ReadyAndWaiting'
  <1> USE Apart DEF ReadyAndWaiting
  <1>1. CASE Stays
    BY <1>1 DEF Stays, table, queues
  <1>2. CASE Turns
    BY <1>2 DEF Turns, ScheduleEffect
  <1>3. CASE Starts
    <2>1. /\ Head(pcb_free) \in Free
          /\ \A c \in Blocks \ {Head(pcb_free)} : status'[c] = status[c]
      BY <1>3, AllocatedFields DEF Starts
    <2>2. ready_list' = ready_list /\ waiting_list' = waiting_list
      BY <1>3 DEF Starts, queues
    <2> QED BY <2>1, <2>2
  <1>4. CASE CreatesChild
    <2>1. PICK context \in BOOLEAN : PCB_alloc(running, "Ready", context)
      BY <1>4 DEF CreatesChild
    <2>2. /\ Head(pcb_free) \in Free /\ Head(pcb_free) \in Blocks
          /\ status'[Head(pcb_free)] = "Ready"
          /\ \A c \in Blocks \ {Head(pcb_free)} : status'[c] = status[c]
      BY <1>4, <2>1, AllocatedFields DEF CreatesChild
    <2>3. Elements(ready_list') = Elements(ready_list) \cup {Head(pcb_free)}
      BY <1>4, <2>2, AppendElements DEF CreatesChild, Core, TypeOK
    <2>4. waiting_list' = waiting_list
      BY <1>4 DEF CreatesChild
    <2> QED BY <2>2, <2>3, <2>4
  <1>5. CASE Reaps
    BY <1>5 DEF Reaps, WaitReaps
  <1>6. CASE WaitsForChild \/ Sleeps
    <2>1. /\ running \in Blocks
          /\ Elements(ready_list') \subseteq Elements(ready_list)
          /\ waiting_list' = waiting_list \cup {running}
          /\ status'[running] = "Waiting"
          /\ \A c \in Blocks \ {running} : status'[c] = status[c]
          /\ running \notin Elements(ready_list)
      <3>1. running # NULL
        BY <1>6 DEF WaitsForChild, Sleeps, internal_sleep, CallsOther, Calls
      <3> QED BY <1>6, <3>1, BlockFields
    <2> QED BY <2>1
  <1>7. CASE Exits
    <2>1. CASE ExitToZombie
      <3>1. /\ running \in Run /\ ready_list # <<>> /\ waiting_list' = waiting_list
            /\ ready_list' = ReadyListRest
            /\ status' = [status EXCEPT ![running] = "Zombie", ![Head(ready_list)] = "Running"]
        BY <1>7, <2>1 DEF Exits, ExitToZombie
      <3>2. \A c \in Blocks \ {running, Head(ready_list)} : status'[c] = status[c]
        BY <3>1 DEF Core, TypeOK
      <3> QED BY <3>1, <3>2, HeadOfReady
    <2>2. CASE ExitWakesParent
      <3>1. /\ running \in Run /\ parent[running] \in waiting_list
            /\ waiting_list' = waiting_list \ {parent[running]} /\ ready_list' = ready_list
            /\ \A c \in Blocks \ {running, parent[running]} : status'[c] = status[c]
        <4>1. running # NULL /\ ParentAwaits
          BY <1>7, <2>2 DEF Exits, ExitWakesParent
        <4>2. waiting_list' = waiting_list \ {parent[running]} /\ ready_list' = ready_list
          BY <2>2 DEF ExitWakesParent
        <4>3. parent[running] \in Blocks /\ running \in Blocks
          BY <1>7, RunningIsLive DEF Exits, Core, TypeOK
        <4>4. parent[running] \in waiting_list
          BY <4>1, <4>3, WaitingIsListed, PlacementParts DEF Core, ParentAwaits
        <4>5. \A c \in Blocks \ {running, parent[running]} : status'[c] = status[c]
          BY <2>2 DEF ExitWakesParent, Core, TypeOK
        <4> QED BY <4>1, <4>2, <4>4, <4>5
      <3> QED BY <3>1
    <2> QED BY <1>7, <2>1, <2>2 DEF Exits
  <1> QED BY StepKinds, <1>1, <1>2, <1>3, <1>4, <1>5, <1>6, <1>7

LEMMA WaitersStep ==
  ASSUME Core, WaitersHaveChildren, [Next]_vars
  PROVE  WaitersHaveChildren'
  <1> USE Apart DEF WaitersHaveChildren
  <1>1. ASSUME waiting_list' \ Asleep' \subseteq waiting_list \ Asleep,
               \A c \in Blocks \ Run : awaited'[c] = awaited[c],
               \A c \in waiting_list' \ Asleep' : children[c] # <<>> => children'[c] # <<>>
        PROVE  WaitersHaveChildren'
    BY <1>1
  <1>2. ASSUME \/ awaited' = awaited
               \/ running # NULL /\ \E a \in Waits : awaited' = [awaited EXCEPT ![running] = a]
        PROVE  \A c \in Blocks \ Run : awaited'[c] = awaited[c]
    BY <1>2 DEF Core, TypeOK
  <1>3. NotWaiting \in Waits /\ \A a \in WaitPids : a \in Waits /\ a # NotWaiting
    BY DEF Waits, Pids, NotAPid, NotWaiting
  <1>4. CASE Stays
    <2>1. /\ waiting_list' \ Asleep' = waiting_list \ Asleep /\ children' = children
          /\ \/ awaited' = awaited
             \/ running # NULL /\ \E a \in Waits : awaited' = [awaited EXCEPT ![running] = a]
      BY <1>4 DEF Stays, table, queues, Asleep
    <2> QED BY <1>1, <1>2, <2>1
  <1>5. CASE Turns
    <2>1. PICK W \in SUBSET Asleep : ScheduleEffect(W)
      BY <1>5 DEF Turns
    <2>2. waiting_list' \ Asleep' \subseteq waiting_list \ Asleep /\ children' = children
      BY <2>1 DEF ScheduleEffect
    <2>3. \A c \in Blocks \ Run : awaited'[c] = awaited[c]
      BY <1>2, <1>3, <1>5 DEF Turns
    <2> QED BY <1>1, <2>2, <2>3
  <1>6. CASE Starts
    <2>1. waiting_list' \ Asleep' = waiting_list \ Asleep /\ awaited' = awaited
      BY <1>6 DEF Starts, queues, Asleep
    <2>2. /\ Head(pcb_free) \in Free
          /\ \A c \in Blocks \ {Head(pcb_free)} : children'[c] = children[c]
      <3>1. pcb_free # <<>> /\ PCB_alloc(NULL, "Running", TRUE)
        BY <1>6 DEF Starts
      <3>2. \A c \in Blocks : c # NULL
        BY DEF Blocks
      <3> QED BY <3>1, <3>2, HeadOfFree DEF PCB_alloc
    <2> QED BY <1>1, <1>2, <2>1, <2>2
  <1>7. CASE CreatesChild
    <2>1. PICK context \in BOOLEAN : PCB_alloc(running, "Ready", context)
      BY <1>7 DEF CreatesChild
    <2>2. /\ Head(pcb_free) \in Free /\ running \in Run
          /\ \A c \in Blocks \ {Head(pcb_free), running} : children'[c] = children[c]
      BY <1>7, <2>1, AllocatedFields DEF CreatesChild
    <2>3. waiting_list' \ Asleep' = waiting_list \ Asleep
      BY <1>7 DEF CreatesChild, Asleep
    <2>4. \A c \in Blocks \ Run : awaited'[c] = awaited[c]
      BY <1>2, <1>3, <1>7 DEF CreatesChild
    <2> QED BY <1>1, <2>2, <2>3, <2>4
  <1>8. CASE Reaps
    <2>1. PICK a \in WaitPids : WaitReaps(a) /\ awaited' = [awaited EXCEPT ![running] = a]
      BY <1>8 DEF Reaps
    <2>2. running \in Run
      BY <1>8 DEF Reaps, Calls
    <2>3. /\ waiting_list' \ Asleep' = waiting_list \ Asleep
          /\ \A c \in Blocks \ {running} : children'[c] = children[c]
      BY <2>1 DEF WaitReaps, Asleep, Core, TypeOK
    <2>4. \A c \in Blocks \ Run : awaited'[c] = awaited[c]
      BY <1>2, <1>3, <2>1, <2>2 DEF Run
    <2> QED BY <1>1, <2>2, <2>3, <2>4
  <1>9. CASE WaitsForChild \/ Sleeps
    <2>1. /\ running \in Blocks /\ children' = children /\ awaited \in [Blocks -> Waits]
          /\ waiting_list' = waiting_list \cup {running}
      BY <1>9, BlockFields DEF Core, TypeOK, Waits
    <2>2. CASE /\ timer_list' = timer_list /\ children[running] # <<>>
               /\ \E a \in WaitPids : awaited' = [awaited EXCEPT ![running] = a]
      <3>1. Asleep' = Asleep
        BY <2>2 DEF Asleep
      <3>2. awaited'[running] # NotWaiting /\ \A c \in Blocks \ {running} : awaited'[c] = awaited[c]
        BY <1>3, <2>1, <2>2
      <3> QED BY <2>1, <2>2, <3>1, <3>2
    <2>3. CASE /\ Asleep' = Asleep \cup {running}
               /\ awaited' = [awaited EXCEPT ![running] = NotWaiting]
      <3>1. \A c \in Blocks \ {running} : awaited'[c] = awaited[c]
        BY <2>1, <2>3
      <3> QED BY <2>1, <2>3, <3>1
    <2> QED BY <1>9, <2>2, <2>3, BlockFields
  <1>10. CASE Exits
    <2>1. running \in Run /\ running # NULL /\ running \in Blocks /\ running # init_pcb
      BY <1>10, ExitFields DEF Exits
    <2>2. \A c \in Blocks \ Run : awaited'[c] = awaited[c]
      BY <1>2, <1>3, <1>10 DEF Exits
    <2>3. waiting_list' \ Asleep' \subseteq waiting_list \ Asleep
      BY <1>10, ExitFields DEF Asleep
    <2>4. ASSUME NEW c \in waiting_list' \ Asleep' PROVE children'[c] = Reparented[c]
      BY <1>10, <2>3, ExitFields
    <2>5. ASSUME NEW c \in Blocks \ {running}, children[c] # <<>> PROVE Reparented[c] # <<>>
      <3>1. children[c] \in Seq(Blocks) /\ children[running] \in Seq(Blocks) /\ Reparented[c] \in Seq(Blocks)
        BY <2>1, ReparentedLists DEF Core, TypeOK
      <3>2. Elements(children[c]) # {}
        BY <2>5, <3>1, ElementsType
      <3>3. Elements(children[c]) \subseteq Elements(Reparented[c])
        BY <2>1, ReparentedLists
      <3> QED BY <3>1, <3>2, <3>3, ElementsType
    <2>6. \A c \in waiting_list' \ Asleep' : children[c] # <<>> => children'[c] # <<>>
      BY <2>1, <2>3, <2>4, <2>5
    <2> QED BY <1>1, <2>2, <2>3, <2>6
  <1> QED BY StepKinds, <1>4, <1>5, <1>6, <1>7, <1>8, <1>9, <1>10

Sorted(s) == \A i, j \in 1 .. Len(s) : i < j => s[i].left <= s[j].left

LEMMA ServedSorted ==
  ASSUME NEW s \in Seq(Timers), Sorted(s), OneTimerEach(s)
  PROVE  LET rest == SubSeq(s, ElapsedCount(s) + 1, Len(s))
         IN  Sorted(rest) /\ \A i \in 1 .. Len(rest) : rest[i].left > 0
  <1> DEFINE k == ElapsedCount(s)
             rest == SubSeq(s, k + 1, Len(s))
  <1>1. /\ k \in 0 .. Len(s)
        /\ k < Len(s) => ~Elapsed(s[k + 1])
    BY ElapsedCountIs
  <1>2. /\ Len(rest) = Len(s) - k
        /\ \A i \in 1 .. Len(rest) : rest[i] = s[i + k]
    BY <1>1, TimersServed
  <1> HIDE DEF k, rest
  <1>3. \A i \in 1 .. Len(s) : s[i].left \in Int
    BY TimerFields
  <1>4. ASSUME NEW i \in 1 .. Len(rest)
        PROVE  i + k \in 1 .. Len(s) /\ rest[i].left = s[i + k].left
    BY <1>1, <1>2
  <1>5. Sorted(rest)
    <2> SUFFICES ASSUME NEW i \in 1 .. Len(rest), NEW j \in 1 .. Len(rest), i < j
                 PROVE  rest[i].left <= rest[j].left
      BY DEF Sorted
    <2>1. i + k < j + k
      BY <1>1, <1>2
    <2> QED BY <1>4, <2>1 DEF Sorted
  <1>6. ASSUME NEW i \in 1 .. Len(rest) PROVE rest[i].left > 0
    <2>1. k < Len(s) /\ k + 1 \in 1 .. Len(s) /\ i + k \in 1 .. Len(s) /\ (i = 1 \/ k + 1 < i + k)
      BY <1>1, <1>2
    <2>2. s[k + 1].left > 0
      BY <1>1, <1>3, <2>1 DEF Elapsed
    <2>3. i = 1 => rest[i].left = s[k + 1].left
      BY <1>1, <1>4
    <2>4. k + 1 < i + k => s[k + 1].left <= s[i + k].left
      BY <2>1 DEF Sorted
    <2> QED BY <1>3, <1>4, <2>1, <2>2, <2>3, <2>4
  <1> QED BY <1>5, <1>6 DEF k, rest

LEMMA AddedSorted ==
  ASSUME NEW s \in Seq(Timers), Sorted(s), \A i \in 1 .. Len(s) : s[i].left >= 0,
         NEW ticks \in Nat, NEW b \in Blocks
  PROVE  LET t == TimerList_add(s, ticks, b)
         IN  Sorted(t) /\ \A i \in 1 .. Len(t) : t[i].left >= 0
  <1> DEFINE x == [pcb |-> b, left |-> ticks]
             t == TimerList_add(s, ticks, b)
  <1>1. PICK k \in 0 .. Len(s) :
          /\ \A i \in 1 .. k : s[i].left <= ticks
          /\ k < Len(s) => ticks < s[k + 1].left
          /\ t = InsertAfter(s, k, x)
    BY TimerAddIs
  <1>2. x \in Timers /\ x.left = ticks
    BY DEF Timers
  <1> HIDE DEF x, t
  <1>3. /\ Len(t) = Len(s) + 1
        /\ \A i \in 1 .. Len(s) + 1 :
             t[i] = IF i <= k THEN s[i] ELSE IF i = k + 1 THEN x ELSE s[i - 1]
    <2>1. s \in Seq(Timers) /\ k \in 0 .. Len(s) /\ x \in Timers
      BY <1>2
    <2>2. /\ Len(InsertAfter(s, k, x)) = Len(s) + 1
          /\ \A i \in 1 .. Len(s) + 1 :
               InsertAfter(s, k, x)[i] =
                 IF i <= k THEN s[i] ELSE IF i = k + 1 THEN x ELSE s[i - 1]
      <3>1. Len(InsertAfter(s, k, x)) = Len(s) + 1
        BY ONLY <2>1, InsertAfterSeq
      <3>2. \A i \in 1 .. Len(s) + 1 :
               InsertAfter(s, k, x)[i] =
                 IF i <= k THEN s[i] ELSE IF i = k + 1 THEN x ELSE s[i - 1]
        BY ONLY <2>1, InsertAfterSeq
      <3> QED BY <3>1, <3>2
    <2> QED BY <1>1, <2>2
  <1>4. \A i \in 1 .. Len(s) : s[i].left \in Int
    BY TimerFields
  <1>5. \A i \in k + 1 .. Len(s) : ticks < s[i].left
    <2> SUFFICES ASSUME NEW i \in k + 1 .. Len(s) PROVE ticks < s[i].left
      OBVIOUS
    <2>1. i \in 1 .. Len(s) /\ k + 1 \in 1 .. Len(s) /\ k < Len(s) /\ (i = k + 1 \/ k + 1 < i)
      OBVIOUS
    <2>2. k + 1 < i => s[k + 1].left <= s[i].left
      BY <2>1 DEF Sorted
    <2> QED BY <1>1, <1>4, <2>1, <2>2
  <1>6. \A i \in 1 .. Len(t) :
          /\ i <= k => i \in 1 .. Len(s) /\ t[i].left = s[i].left /\ s[i].left <= ticks
          /\ i = k + 1 => t[i].left = ticks
          /\ i > k + 1 => i - 1 \in 1 .. Len(s) /\ t[i].left = s[i - 1].left /\ ticks < s[i - 1].left
    BY <1>1, <1>2, <1>3, <1>5
  <1>7. \A i \in 1 .. Len(t) : t[i].left >= 0
    <2> SUFFICES ASSUME NEW i \in 1 .. Len(t) PROVE t[i].left >= 0
      OBVIOUS
    <2>1. i <= k \/ i = k + 1 \/ i > k + 1
      BY <1>3
    <2>2. i > k + 1 => t[i].left = s[i - 1].left /\ s[i - 1].left >= 0
      BY <1>6
    <2>3. i <= k => t[i].left = s[i].left /\ s[i].left >= 0
      BY <1>6
    <2> QED BY <1>6, <2>1, <2>2, <2>3
  <1>8. Sorted(t)
    <2> SUFFICES ASSUME NEW i \in 1 .. Len(t), NEW j \in 1 .. Len(t), i < j
                 PROVE  t[i].left <= t[j].left
      BY DEF Sorted
    <2>1. CASE j <= k
      <3>1. s[i].left <= s[j].left
        BY <1>6, <2>1 DEF Sorted
      <3> QED BY <1>6, <2>1, <3>1
    <2>2. CASE i > k + 1
      <3>1. i - 1 \in 1 .. Len(s) /\ j - 1 \in 1 .. Len(s) /\ i - 1 < j - 1
        BY <1>3, <2>2
      <3>2. s[i - 1].left <= s[j - 1].left
        BY <3>1 DEF Sorted
      <3>3. t[i].left = s[i - 1].left /\ t[j].left = s[j - 1].left
        BY <1>6, <2>2
      <3> QED BY <3>2, <3>3
    <2>3. CASE i <= k + 1 /\ j > k
      <3>1. t[i].left \in Int /\ t[i].left <= ticks
        BY <1>4, <1>6, <2>3
      <3>2. t[j].left \in Int /\ ticks <= t[j].left
        <4>1. j = k + 1 \/ j > k + 1
          BY <1>3, <2>3
        <4>2. j > k + 1 => t[j].left = s[j - 1].left /\ s[j - 1].left \in Int /\ ticks < s[j - 1].left
          BY <1>4, <1>6
        <4> QED BY <1>6, <4>1, <4>2
      <3> QED BY <3>1, <3>2
    <2> QED BY <2>1, <2>2, <2>3, <1>3
  <1> QED BY <1>7, <1>8 DEF t

LEMMA TimersStep ==
  ASSUME Core, TimersSorted, [Next]_vars
  PROVE  TimersSorted'
  <1>1. /\ timer_list \in Seq(Timers) /\ OneTimerEach(timer_list) /\ Sorted(timer_list)
        /\ \A i \in 1 .. Len(timer_list) : timer_list[i].left \in Int /\ timer_list[i].left >= 0
    BY TickedTimers, TimerFields DEF TimersSorted, Sorted
  <1>2. CASE timer_list' = timer_list
    BY <1>2 DEF TimersSorted
  <1>3. CASE Turns
    <2>1. ASSUME NEW s \in Seq(Timers), Sorted(s), OneTimerEach(s), internal_schedule(s)
          PROVE  TimersSorted'
      <3> DEFINE rest == SubSeq(s, ElapsedCount(s) + 1, Len(s))
      <3>1. timer_list' = rest
        BY <2>1 DEF internal_schedule
      <3>2. Sorted(rest) /\ \A i \in 1 .. Len(rest) : rest[i].left > 0
        BY <2>1, ServedSorted
      <3>3. rest \in Seq(Timers)
        BY <2>1, ElapsedCountIs, TimersServed
      <3> HIDE DEF rest
      <3>4. \A i \in 1 .. Len(rest) : rest[i].left \in Int
        BY <3>3, TimerFields
      <3> QED BY <3>1, <3>2, <3>4 DEF TimersSorted, Sorted
    <2>2. /\ TimersAfterTick \in Seq(Timers) /\ OneTimerEach(TimersAfterTick)
          /\ Sorted(TimersAfterTick)
      <3>1. Sorted(TimersAfterTick)
        BY <1>1, TickedTimers DEF Sorted
      <3> QED BY <3>1, TickedTimers
    <2> QED BY <1>1, <1>3, <2>1, <2>2 DEF Turns
  <1>4. CASE Sleeps
    <2>1. PICK ticks \in SleepTimes : timer_list' = TimerList_add(timer_list, ticks, running)
      BY <1>4 DEF Sleeps, internal_sleep
    <2>2. ticks \in Nat /\ running \in Blocks
      BY <1>4, BlockFields
    <2>3. LET t == TimerList_add(timer_list, ticks, running)
          IN  Sorted(t) /\ \A i \in 1 .. Len(t) : t[i].left >= 0
      BY <1>1, <2>2, AddedSorted
    <2> QED BY <2>1, <2>3 DEF TimersSorted, Sorted
  <1>5. Exits => timer_list' = timer_list
    BY ExitFields
  <1>6. Stays \/ Starts \/ CreatesChild \/ Reaps \/ WaitsForChild => timer_list' = timer_list
    BY DEF Stays, Starts, CreatesChild, Reaps, WaitReaps, WaitsForChild, WaitBlocks, queues
  <1> QED BY StepKinds, <1>2, <1>3, <1>4, <1>5, <1>6

(* The status field of a block agrees with the list it is in, so that exit
   takes a waiting parent off the waiting list only when it is there, and wait a
   child off the zombie list. *)
THEOREM StatusesAgree == Spec => []StatusAgrees
  <1>1. Init => ReadyAndWaiting
    BY EmptyElements DEF Init, ReadyAndWaiting
  <1>2. Core /\ ReadyAndWaiting /\ [Next]_vars => ReadyAndWaiting'
    BY StatusStep
  <1>3. Core /\ ReadyAndWaiting => StatusAgrees
    BY DEF Core, ReadyAndWaiting, StatusFits, StatusAgrees, Run
  <1> QED BY CoreHolds, <1>1, <1>2, <1>3, PTL DEF Spec

(* A process in the waiting list has one timer, or is in wait with a child to
   wait for, never both; and every timer belongs to such a process. *)
THEOREM EveryBlockHasAReason == Spec => []BlockedForAReason
  <1>1. Init => WaitersHaveChildren
    BY DEF Init, WaitersHaveChildren
  <1>2. Core /\ WaitersHaveChildren /\ [Next]_vars => WaitersHaveChildren'
    BY WaitersStep
  <1>3. Core /\ WaitersHaveChildren => BlockedForAReason
    BY DEF Core, SleepersApart, WaitersHaveChildren, BlockedForAReason
  <1> QED BY CoreHolds, <1>1, <1>2, <1>3, PTL DEF Spec

(* The timer list is sorted and never holds an overdue timer, so that looking at
   its head, as internal_schedule does, finds every timer that has elapsed. *)
THEOREM TimersStaySorted == Spec => []TimersSorted
  <1>1. Init => TimersSorted
    BY DEF Init, TimersSorted
  <1>2. Core /\ TimersSorted /\ [Next]_vars => TimersSorted'
    BY TimersStep
  <1> QED BY CoreHolds, <1>1, <1>2, PTL DEF Spec

-----------------------------------------------------------------------------
(* The family tree, as the steps change it *)

KidsOf(p) == Elements(children[p])
KidsNext(p) == Elements(children'[p])

SameFamily ==
  Live' = Live /\ UNCHANGED <<pid, parent, children, zombie_list, last_pid, init_pcb>>

\* b is born, with parent p or without one
Born(b, p) ==
  /\ b \in Blocks \ Live /\ Live' = Live \cup {b}
  /\ p = NULL \/ p \in Live \ zombie_list
  /\ parent'[b] = p /\ pid'[b] = last_pid /\ last_pid' = last_pid + 1
  /\ KidsNext(b) = {}
  /\ \A c \in Live : /\ parent'[c] = parent[c] /\ pid'[c] = pid[c]
                     /\ KidsNext(c) = IF c = p THEN KidsOf(c) \cup {b} ELSE KidsOf(c)
  /\ zombie_list' = zombie_list

\* the zombie z is reaped
Reaped(z) ==
  /\ z \in zombie_list /\ z \in KidsOf(running)
  /\ Live' = Live \ {z} /\ zombie_list' = zombie_list \ {z}
  /\ UNCHANGED <<pid, parent, last_pid>>
  /\ \A c \in Live' : KidsNext(c) = KidsOf(c) \ {z}

\* the children of c when r has given its own to init
Inherits(c, r) == KidsOf(c) \cup (IF c = init_pcb THEN KidsOf(r) ELSE {})

\* r exits, to be reaped later or at once
Gone(r) ==
  /\ r \in Live \ zombie_list /\ r # init_pcb /\ parent[r] # NULL
  /\ UNCHANGED <<pid, parent, last_pid, init_pcb>>
  /\ \/ /\ zombie_list' = zombie_list \cup {r} /\ Live' = Live
        /\ KidsNext(r) = {}
        /\ \A c \in Live \ {r} : KidsNext(c) = Inherits(c, r)
     \/ /\ zombie_list' = zombie_list /\ Live' = Live \ {r}
        /\ r \in Inherits(parent[r], r)
        /\ \A c \in Live' : KidsNext(c) = Inherits(c, r) \ {r}

LEMMA ListedKids ==
  ASSUME Core, NEW p \in Live
  PROVE  KidsOf(p) \subseteq Live /\ \A q \in Live : q # p => KidsOf(p) \cap KidsOf(q) = {}
  BY DEF Core, ChildrenAreLive, KidsOf

LEMMA BornStep ==
  ASSUME Core, NEW p \in Run \cup {NULL}, NEW st, NEW context,
         pcb_free # <<>>, PCB_alloc(p, st, context), zombie_list' = zombie_list
  PROVE  \E b \in Blocks : Born(b, p)
  <1> DEFINE b == Head(pcb_free)
  <1>1. /\ b \in Free /\ b \in Blocks
        /\ Elements(Tail(pcb_free)) = Free \ {b}
    BY HeadOfFree
  <1>2. Free' = Free \ {b}
    BY <1>1 DEF PCB_alloc, Free
  <1>3. /\ parent'[b] = p /\ pid'[b] = last_pid /\ children'[b] = <<>>
        /\ \A c \in Blocks \ {b} :
              /\ parent'[c] = parent[c] /\ pid'[c] = pid[c]
              /\ children'[c] = IF c = p THEN Append(children[c], b) ELSE children[c]
        /\ last_pid' = last_pid + 1
    BY <1>1 DEF PCB_alloc, Core, TypeOK
  <1> HIDE DEF b
  <1>4. Live' = Live \cup {b} /\ b \in Blocks \ Live
    BY <1>1, <1>2 DEF Live
  <1>5. p = NULL \/ p \in Live \ zombie_list
    BY RunningIsLive DEF Run
  <1>6. KidsNext(b) = {}
    BY <1>3, EmptyElements DEF KidsNext, KidsOf
  <1>7. ASSUME NEW c \in Live
        PROVE  /\ parent'[c] = parent[c] /\ pid'[c] = pid[c]
               /\ KidsNext(c) = IF c = p THEN KidsOf(c) \cup {b} ELSE KidsOf(c)
    <2>1. c \in Blocks \ {b}
      BY <1>1 DEF Live
    <2>2. children[c] \in Seq(Blocks)
      BY <2>1 DEF Core, TypeOK
    <2>3. Elements(Append(children[c], b)) = Elements(children[c]) \cup {b}
      BY <2>2, <1>1, AppendElements
    <2> QED BY <1>3, <2>1, <2>3 DEF KidsNext, KidsOf
  <1>8. Born(b, p)
    BY <1>3, <1>4, <1>5, <1>6, <1>7 DEF Born
  <1> QED BY <1>1, <1>8

LEMMA ReapedStep ==
  ASSUME Core, Reaps
  PROVE  \E z \in Blocks : Reaped(z) /\ reported' = [to |-> running, value |-> pid[z]]
  <1>1. PICK a \in WaitPids : WaitReaps(a)
    BY DEF Reaps
  <1> DEFINE kids == children[running]
             i == AwaitedIndex(kids, a)
             z == kids[i]
  <1>2. running \in Blocks /\ running \in Live
    BY RunningIsLive DEF Reaps, Calls
  <1>3. kids \in Seq(Blocks) /\ kids # <<>>
    BY <1>1, <1>2 DEF WaitReaps, Core, TypeOK
  <1>4. i \in 1 .. Len(kids)
    BY <1>3, AwaitedIndexIs
  <1>5. Distinct(kids) /\ z \in Live /\ z \in Blocks /\ z \in Elements(kids)
    BY <1>2, <1>4, ChildIsLive
  <1>6. /\ status[z] = "Zombie"
        /\ children' = [children EXCEPT ![running] = DetachAt(@, i)]
        /\ zombie_list' = zombie_list \ {z}
        /\ reported' = [to |-> running, value |-> pid[z]]
        /\ pcb_free' = <<z>> \o pcb_free
        /\ UNCHANGED <<last_pid, pid, parent>>
    BY <1>1 DEF WaitReaps, ReapedPid
  <1>7. Elements(DetachAt(kids, i)) = Elements(kids) \ {z}
    BY <1>3, <1>4, <1>5, DetachAtElements
  <1> HIDE DEF kids, i, z
  <1>8. z \in zombie_list /\ z \notin Free
    BY <1>5, <1>6, ZombieIsListed, PlacementParts DEF Core, Live
  <1>9. Live' = Live \ {z}
    BY <1>5, <1>6, <1>8, BackToFree DEF Free, Live
  <1>10. ASSUME NEW c \in Live' PROVE KidsNext(c) = KidsOf(c) \ {z}
    <2>1. c \in Live /\ c \in Blocks
      BY <1>9 DEF Live
    <2>2. CASE c = running
      BY <1>2, <1>6, <1>7, <2>2 DEF KidsNext, KidsOf, Core, TypeOK, kids
    <2>3. CASE c # running
      <3>1. children'[c] = children[c]
        BY <1>6, <2>1, <2>3 DEF Core, TypeOK
      <3>2. z \notin KidsOf(c)
        BY <1>2, <1>5, <2>1, <2>3, ListedKids DEF KidsNext, KidsOf, kids
      <3> QED BY <3>1, <3>2 DEF KidsNext, KidsOf
    <2> QED BY <2>2, <2>3
  <1>11. z \in KidsOf(running)
    BY <1>5 DEF KidsNext, KidsOf, kids
  <1> QED BY <1>5, <1>6, <1>8, <1>9, <1>10, <1>11 DEF Reaped

LEMMA GoneStep ==
  ASSUME Core, Exits
  PROVE  Gone(running)
  <1> DEFINE r == running
             p == parent[r]
  <1>1. /\ r \in Live \ zombie_list /\ r # init_pcb /\ p # NULL /\ r # NULL
        /\ r \in Blocks /\ p \in Blocks /\ init_pcb \in Blocks
        /\ UNCHANGED <<pid, parent, init_pcb>>
    BY ExitFields, RunningIsLive DEF Exits
  <1>2. ASSUME NEW c \in Live \ {r} PROVE Elements(Reparented[c]) = Inherits(c, r)
    BY <1>1, ReparentedLists DEF Inherits, KidsNext, KidsOf, Live
  <1>3. CASE ExitToZombie
    <2>1. zombie_list' = zombie_list \cup {r} /\ children' = Reparented /\ UNCHANGED pools
      BY <1>3 DEF ExitToZombie
    <2>2. Live' = Live /\ last_pid' = last_pid
      BY <2>1 DEF Live, Free, pools
    <2>3. KidsNext(r) = {}
      BY <1>1, <2>1, ReparentedLists, EmptyElements DEF KidsNext, KidsOf
    <2>4. \A c \in Live \ {r} : KidsNext(c) = Inherits(c, r)
      BY <1>2, <2>1 DEF KidsNext, KidsOf
    <2> QED BY <1>1, <2>1, <2>2, <2>3, <2>4 DEF Gone
  <1>4. CASE ExitWakesParent
    <2>1. /\ p \in Live /\ p # r
          /\ UNCHANGED <<last_pid, zombie_list>>
          /\ children'[p] = DetachAt(Reparented[p], IndexIn(Reparented[p], r))
          /\ \A c \in Blocks \ {p} : children'[c] = Reparented[c]
          /\ r \in Elements(Reparented[p])
          /\ pcb_free' = <<r>> \o pcb_free
      <3>1. ~ExitToZombie
        BY <1>4 DEF ExitToZombie, ExitWakesParent
      <3> QED BY <3>1, ExitFields
    <2>2. Live' = Live \ {r}
      BY <1>1, <2>1, BackToFree DEF Free, Live
    <2> DEFINE mine == Reparented[p]
               i == IndexIn(mine, r)
    <2>3. mine \in Seq(Blocks) /\ Distinct(mine) /\ i \in 1 .. Len(mine) /\ mine[i] = r
      BY <1>1, <2>1, ReparentedLists, IndexInList
    <2>4. Elements(children'[p]) = Elements(mine) \ {r}
      <3>1. children'[p] = DetachAt(mine, i)
        BY <2>1
      <3> HIDE DEF mine, i
      <3> QED BY <2>3, <3>1, DetachAtElements
    <2>5. ASSUME NEW c \in Live' PROVE KidsNext(c) = Inherits(c, r) \ {r}
      <3>1. c \in Live \ {r} /\ c \in Blocks
        BY <2>2 DEF Live
      <3>2. c # p => r \notin Elements(Reparented[c]) /\ children'[c] = Reparented[c]
        BY <1>1, <2>1, <3>1, ReparentedLists
      <3> QED BY <1>2, <2>4, <3>1, <3>2 DEF KidsNext, KidsOf
    <2>6. r \in Inherits(p, r)
      BY <1>2, <2>1
    <2> QED BY <1>1, <2>1, <2>2, <2>5, <2>6 DEF Gone
  <1> QED BY <1>3, <1>4 DEF Exits

LEMMA FamilyKinds ==
  ASSUME Core, [Next]_vars
  PROVE  \/ SameFamily
         \/ \E b \in Blocks, p \in Run \cup {NULL} : Born(b, p)
         \/ \E z \in Blocks : Reaped(z)
         \/ Exits /\ Gone(running)
  <1>1. CASE Stays \/ Turns \/ WaitsForChild \/ Sleeps
    BY <1>1 DEF Stays, Turns, ScheduleEffect, WaitsForChild, WaitBlocks, Sleeps, internal_sleep,
                pools, table, queues, SameFamily, Live, Free
  <1>2. CASE Starts
    <2>1. PCB_alloc(NULL, "Running", TRUE) /\ pcb_free # <<>> /\ zombie_list' = zombie_list
      BY <1>2 DEF Starts, queues
    <2>2. \E b \in Blocks : Born(b, NULL)
      BY <2>1, BornStep, Zenon
    <2> QED BY <2>2
  <1>3. CASE CreatesChild
    <2>1. PICK context \in BOOLEAN : PCB_alloc(running, "Ready", context)
      BY <1>3 DEF CreatesChild
    <2>2. running \in Run /\ pcb_free # <<>> /\ zombie_list' = zombie_list
      BY <1>3 DEF CreatesChild, Run
    <2> QED BY <2>1, <2>2, BornStep
  <1>4. CASE Reaps
    BY <1>4, ReapedStep
  <1>5. CASE Exits
    BY <1>5, GoneStep
  <1> QED BY StepKinds, <1>1, <1>2, <1>3, <1>4, <1>5

LEMMA AdoptedStep ==
  ASSUME Core, Adopted, [Next]_vars
  PROVE  Adopted'
  <1> DEFINE Has(b) == \E p \in Live \ zombie_list : b \in KidsOf(p)
             HasNext(b) == \E p \in Live' \ zombie_list' : b \in KidsNext(p)
  <1>1. /\ \A b \in Live : parent[b] # NULL => Has(b)
        /\ \A z \in zombie_list : parent[z] # NULL /\ z \in Live
    BY Apart DEF Adopted, KidsOf, Live, Core, TypeOK
  <1> SUFFICES /\ \A b \in Live' : parent'[b] # NULL => HasNext(b)
               /\ \A z \in zombie_list' : parent'[z] # NULL
    BY DEF Adopted, KidsNext
  <1>2. CASE SameFamily
    BY <1>1, <1>2 DEF SameFamily, KidsNext, KidsOf
  <1>3. ASSUME NEW b \in Blocks, NEW p \in Run \cup {NULL}, Born(b, p)
        PROVE  /\ \A c \in Live' : parent'[c] # NULL => HasNext(c)
               /\ \A z \in zombie_list' : parent'[z] # NULL
    <2>1. ASSUME NEW c \in Live, NEW q \in Live \ zombie_list, c \in KidsOf(q) PROVE HasNext(c)
      BY <1>3, <2>1 DEF Born
    <2>2. parent'[b] # NULL => HasNext(b)
      BY <1>3 DEF Born
    <2>3. \A c \in Live' : c = b \/ (c \in Live /\ parent'[c] = parent[c])
      BY <1>3 DEF Born
    <2>4. \A z \in zombie_list' : z \in zombie_list /\ parent'[z] = parent[z]
      BY <1>1, <1>3 DEF Born
    <2> QED BY <1>1, <2>1, <2>2, <2>3, <2>4
  <1>4. ASSUME NEW z \in Blocks, Reaped(z)
        PROVE  /\ \A c \in Live' : parent'[c] # NULL => HasNext(c)
               /\ \A y \in zombie_list' : parent'[y] # NULL
    <2>1. ASSUME NEW c \in Live \ {z}, NEW q \in Live \ zombie_list, c \in KidsOf(q)
          PROVE  HasNext(c)
      <3>1. q \in Live' \ zombie_list'
        BY <1>4 DEF Reaped
      <3>2. c \in KidsNext(q)
        BY <1>4, <2>1, <3>1 DEF Reaped
      <3> QED BY <3>1, <3>2
    <2> QED BY <1>1, <1>4, <2>1 DEF Reaped
  <1>5. CASE Gone(running)
    <2> DEFINE r == running
    <2>1. init_pcb \in Live \ zombie_list
      BY DEF Core, InitLives
    <2>2. ASSUME NEW c \in Live', NEW q \in Live \ zombie_list, c \in KidsOf(q)
          PROVE  HasNext(c)
      <3> DEFINE heir == IF q = r THEN init_pcb ELSE q
      <3>1. heir \in Live' \ zombie_list' /\ heir \in Live \ {r} /\ c \in Inherits(heir, r)
        BY <1>5, <2>1, <2>2 DEF Gone, Inherits
      <3>2. c \in KidsNext(heir)
        BY <1>5, <2>2, <3>1 DEF Gone
      <3> QED BY <3>1, <3>2
    <2>3. Live' \subseteq Live /\ parent' = parent
      BY <1>5 DEF Gone
    <2>4. \A y \in zombie_list' : y \in zombie_list \/ (y = r /\ parent[r] # NULL)
      BY <1>5 DEF Gone
    <2> QED BY <1>1, <2>2, <2>3, <2>4
  <1> HIDE DEF HasNext
  <1> QED BY FamilyKinds, <1>2, <1>3, <1>4, <1>5

LEMMA ListedStep ==
  ASSUME Core, ListedByParent, [Next]_vars
  PROVE  ListedByParent'
  <1>1. \A p \in Live : parent[p] # NULL => \A b \in KidsOf(p) : parent[b] = p
    BY DEF ListedByParent, KidsOf
  <1> SUFFICES ASSUME NEW p \in Live', parent'[p] # NULL, NEW b \in KidsNext(p)
               PROVE  parent'[b] = p
    BY DEF ListedByParent, KidsNext
  <1>2. CASE SameFamily
    BY <1>1, <1>2 DEF SameFamily, KidsNext, KidsOf
  <1>3. ASSUME NEW c \in Blocks, NEW q \in Run \cup {NULL}, Born(c, q) PROVE parent'[b] = p
    <2>1. p # c /\ p \in Live /\ parent[p] # NULL
      BY <1>3 DEF Born
    <2>2. (b = c /\ p = q) \/ b \in KidsOf(p)
      BY <1>3, <2>1 DEF Born
    <2>3. b \in KidsOf(p) => b \in Live /\ parent[b] = p
      BY <1>1, <2>1, ListedKids
    <2> QED BY <1>3, <2>2, <2>3 DEF Born
  <1>4. ASSUME NEW z \in Blocks, Reaped(z) PROVE parent'[b] = p
    BY <1>1, <1>4 DEF Reaped
  <1>5. CASE Gone(running)
    <2>1. p \in Live /\ parent' = parent /\ p # init_pcb
      BY <1>5 DEF Gone, Core, InitLives
    <2>2. p # running => b \in KidsOf(p)
      BY <1>5, <2>1 DEF Gone, Inherits
    <2>3. p # running
      BY <1>5 DEF Gone
    <2> QED BY <1>1, <2>1, <2>2, <2>3
  <1> QED BY FamilyKinds, <1>2, <1>3, <1>4, <1>5

LEMMA PidsStep ==
  ASSUME Core, PidsUnique, [Next]_vars
  PROVE  PidsUnique'
  <1>1. last_pid \in Int /\ \A b \in Live : pid[b] \in Int /\ pid[b] < last_pid
    BY DEF Core, TypeOK, Pids, Live, PidsUnique
  <1>2. CASE Live' \subseteq Live /\ UNCHANGED <<pid, last_pid>>
    BY <1>2 DEF PidsUnique
  <1>3. ASSUME NEW b \in Blocks, NEW p \in Run \cup {NULL}, Born(b, p) PROVE PidsUnique'
    <2>1. /\ last_pid' = last_pid + 1 /\ pid'[b] = last_pid
          /\ \A c \in Live' : c = b \/ (c \in Live /\ pid'[c] = pid[c])
      BY <1>3 DEF Born
    <2>2. ASSUME NEW c \in Live', NEW d \in Live', pid'[c] = pid'[d] PROVE c = d
      <3>1. c \in Live /\ d \in Live /\ pid[c] = pid[d] => c = d
        BY DEF PidsUnique
      <3> QED BY <1>1, <2>1, <2>2, <3>1
    <2>3. \A c \in Live' : pid'[c] < last_pid'
      BY <1>1, <2>1
    <2> QED BY <2>2, <2>3 DEF PidsUnique
  <1> QED BY FamilyKinds, <1>2, <1>3 DEF SameFamily, Reaped, Gone

LEMMA OwnChildrenStep ==
  ASSUME Core, ReadyAndWaiting, ListedByParent, PidsUnique, OwnChildrenWake, [Next]_vars
  PROVE  OwnChildrenWake'
  <1> DEFINE Waiters == waiting_list \ Asleep
  <1>1. ASSUME NEW b \in Blocks, NEW z \in Blocks, b \in Waiters, z \in KidsOf(b) \cap zombie_list,
               awaited[b] \in {0, pid[z]}
        PROVE  parent[z] # b
    BY <1>1 DEF OwnChildrenWake, Misses, KidsOf
  <1> SUFFICES ASSUME NEW b \in Blocks, NEW z \in Blocks,
                      b \in Waiters', z \in KidsNext(b), z \in zombie_list',
                      awaited'[b] \in {0, pid'[z]}, parent'[z] = b
               PROVE  FALSE
    BY DEF OwnChildrenWake, Misses, KidsNext
  <1>2. ASSUME b \in Waiters, z \in KidsOf(b), z \in zombie_list,
               awaited'[b] = awaited[b], pid'[z] = pid[z], parent'[z] = parent[z]
        PROVE  FALSE
    BY <1>1, <1>2
  <1>3. /\ waiting_list \subseteq Blocks /\ waiting_list \cap Run = {} /\ zombie_list \subseteq Live
        /\ waiting_list \subseteq Live \ zombie_list
    BY Apart DEF Live, Core, TypeOK
  <1>4. ASSUME \/ awaited' = awaited
               \/ running # NULL /\ \E a \in Waits : awaited' = [awaited EXCEPT ![running] = a]
        PROVE  \A c \in Blocks \ Run : awaited'[c] = awaited[c]
    BY <1>4 DEF Core, TypeOK, Run
  <1>5. NotWaiting \in Waits /\ \A a \in WaitPids : a \in Waits /\ a # NotWaiting
    BY DEF Waits, Pids, NotAPid, NotWaiting
  <1> HIDE DEF Waiters
  <1>6. CASE Stays
    <2>1. /\ UNCHANGED <<pid, parent, children, zombie_list>> /\ Waiters' = Waiters
      BY <1>6 DEF Stays, table, queues, Waiters, Asleep
    <2>2. awaited'[b] = awaited[b]
      BY <1>3, <1>4, <1>6, <2>1 DEF Stays, Waiters
    <2> QED BY <1>2, <2>1, <2>2 DEF KidsNext, KidsOf
  <1>7. CASE Turns
    <2>1. UNCHANGED <<pid, parent, children, zombie_list>> /\ Waiters' \subseteq Waiters
      BY <1>7 DEF Turns, ScheduleEffect, Waiters
    <2>2. awaited'[b] = awaited[b]
      BY <1>3, <1>4, <1>5, <1>7, <2>1 DEF Turns, Waiters
    <2> QED BY <1>2, <2>1, <2>2 DEF KidsNext, KidsOf
  <1>8. CASE WaitsForChild \/ Sleeps
    <2>1. /\ UNCHANGED <<pid, parent, children, zombie_list>>
          /\ running \in Blocks /\ waiting_list' = waiting_list \cup {running}
      BY <1>8, BlockFields
    <2>2. b # running => b \in Waiters /\ awaited'[b] = awaited[b]
      <3>1. Asleep' = Asleep \/ Asleep' = Asleep \cup {running}
        <4>1. timer_list' = timer_list => Asleep' = Asleep
          BY DEF Asleep
        <4> QED BY <1>8, <4>1, BlockFields
      <3>2. b # running => awaited'[b] = awaited[b]
        BY <1>8, BlockFields DEF Core, TypeOK
      <3> QED BY <2>1, <3>1, <3>2 DEF Waiters
    <2>3. CASE b # running
      BY <1>2, <2>1, <2>2, <2>3 DEF KidsNext, KidsOf
    <2>4. CASE b = running
      <3>1. ~(Asleep' = Asleep \cup {running})
        BY <2>4 DEF Waiters
      <3> DEFINE kids == children[running]
      <3>2. PICK a \in WaitPids :
              /\ awaited' = [awaited EXCEPT ![running] = a]
              /\ status[kids[AwaitedIndex(kids, a)]] # "Zombie"
        BY <1>8, <3>1, BlockFields
      <3>3. kids \in Seq(Blocks) /\ z \in Elements(kids) /\ running \in Live /\ z \in Live
        <4>1. running \in Live /\ kids \in Seq(Blocks)
          BY <1>8, RunningIsLive DEF WaitsForChild, Sleeps, internal_sleep, CallsOther, Calls,
                                     Core, TypeOK
        <4> QED BY <1>3, <2>1, <2>4, <4>1 DEF KidsNext
      <3>4. kids # <<>>
        BY <3>3, EmptyElements
      <3>5. status[z] = "Zombie" /\ z \in zombie_list
        BY <2>1 DEF Core, StatusFits
      <3>6. a \in {0, pid[z]}
        BY <2>1, <2>4, <3>2 DEF Core, TypeOK
      <3>7. PICK j \in 1 .. Len(kids) : kids[j] = z
        BY <3>3 DEF Elements
      <3> DEFINE i == AwaitedIndex(kids, a)
      <3>8. /\ i \in 1 .. Len(kids)
            /\ a = 0 => status[kids[i]] = "Zombie"
            /\ a # 0 => pid[kids[i]] = a
        BY <3>3, <3>4, <3>5, <3>6, <3>7, AwaitedIndexIs
      <3>9. kids[i] \in Live
        BY <3>3, <3>8, ChildIsLive
      <3>10. a # 0 => kids[i] = z
        BY <3>3, <3>6, <3>8, <3>9 DEF PidsUnique
      <3> QED BY <3>2, <3>5, <3>8, <3>10
    <2> QED BY <2>3, <2>4
  <1>9. CASE Starts \/ CreatesChild
    <2>1. Waiters' = Waiters /\ zombie_list' = zombie_list
      <3>1. UNCHANGED <<waiting_list, timer_list, zombie_list>>
        BY <1>9 DEF Starts, CreatesChild, queues
      <3> QED BY <3>1 DEF Waiters, Asleep
    <2>2. awaited'[b] = awaited[b]
      BY <1>3, <1>4, <1>5, <1>9, <2>1 DEF Starts, CreatesChild, Waiters
    <2>3. PICK c \in Blocks, p \in Run \cup {NULL} : Born(c, p)
      <3>1. CASE Starts
        <4>1. PCB_alloc(NULL, "Running", TRUE) /\ pcb_free # <<>> /\ zombie_list' = zombie_list
          BY <3>1 DEF Starts, queues
        <4>2. \E c \in Blocks : Born(c, NULL)
          BY <4>1, BornStep, Zenon
        <4> QED BY <4>2
      <3>2. CASE CreatesChild
        BY <3>2, BornStep DEF CreatesChild, Run
      <3> QED BY <1>9, <3>1, <3>2
    <2>4. b \in Live /\ b # p /\ z \in Live
      BY <1>3, <2>1, <2>3 DEF Waiters, Live, Blocks
    <2>5. pid'[z] = pid[z] /\ parent'[z] = parent[z] /\ z \in KidsOf(b)
      BY <2>3, <2>4 DEF Born
    <2> QED BY <1>2, <2>1, <2>2, <2>4, <2>5
  <1>10. CASE Reaps
    <2>1. PICK y \in Blocks : Reaped(y)
      BY <1>10, ReapedStep
    <2>2. Waiters' = Waiters
      BY <1>10 DEF Reaps, WaitReaps, Waiters, Asleep
    <2>3. awaited'[b] = awaited[b]
      <3>1. running # NULL /\ \E a \in Waits : awaited' = [awaited EXCEPT ![running] = a]
        BY <1>5, <1>10 DEF Reaps, Calls
      <3> QED BY <1>3, <1>4, <2>2, <3>1 DEF Waiters
    <2>4. b \in Live'
      BY <1>3, <2>1, <2>2 DEF Reaped, Waiters
    <2>5. pid' = pid /\ parent' = parent /\ z \in KidsOf(b) /\ z \in zombie_list
      BY <2>1, <2>4 DEF Reaped
    <2> QED BY <1>2, <2>2, <2>3, <2>5
  <1>11. CASE Exits
    <2> DEFINE r == running
    <2>1. Gone(r)
      BY <1>11, GoneStep
    <2>2. r \in Blocks /\ r \in Run /\ parent[r] # NULL /\ r # init_pcb
      BY <1>11, ExitFields, Apart DEF Exits
    <2>3. Waiters' \subseteq Waiters /\ waiting_list' \subseteq waiting_list
      BY <1>11, ExitFields DEF Waiters, Asleep
    <2>4. b \in Waiters /\ b \in waiting_list /\ b # r /\ b \in Live
      BY <1>3, <2>2, <2>3 DEF Waiters
    <2>5. awaited'[b] = awaited[b]
      BY <1>4, <1>5, <1>11, <2>2, <2>4 DEF Exits, Run
    <2>6. pid' = pid /\ parent' = parent /\ b \in Live'
      BY <2>1, <2>4 DEF Gone
    <2>7. z \in Inherits(b, r)
      BY <2>1, <2>4, <2>6 DEF Gone
    <2>8. CASE z = r
      <3>1. status[b] = "Waiting" /\ awaited[b] \in {0, pid[r]} /\ parent[r] = b
        BY <2>4, <2>5, <2>6, <2>8 DEF ReadyAndWaiting
      <3>2. ExitWakesParent
        BY <1>11, <3>1 DEF Exits, ExitToZombie, ParentAwaits
      <3>3. waiting_list' = waiting_list \ {b}
        BY <3>1, <3>2 DEF ExitWakesParent
      <3> QED BY <3>3 DEF Waiters
    <2>9. CASE z # r
      <3>1. z \in zombie_list
        BY <2>1, <2>9 DEF Gone
      <3>2. z \in KidsOf(r) => parent[z] = r
        BY <2>1, <2>2 DEF ListedByParent, KidsOf, Gone
      <3>3. z \in KidsOf(b)
        BY <2>4, <2>6, <2>7, <3>2 DEF Inherits
      <3> QED BY <1>2, <2>4, <2>5, <2>6, <3>1, <3>3
    <2> QED BY <2>8, <2>9
  <1> QED BY StepKinds, <1>6, <1>7, <1>8, <1>9, <1>10, <1>11

(* No wakeup is lost between a process and its own children: whichever of the
   parent's wait and the child's exit comes first, and though a timer interrupt
   may come between them, the parent is never left blocked on a child it
   created that has exited. *)
THEOREM NoLostWakeup == Spec => []OwnChildrenWake
  <1> DEFINE Inv == ReadyAndWaiting /\ ListedByParent /\ PidsUnique /\ OwnChildrenWake
  <1>1. Init => Inv
    <2> SUFFICES ASSUME Init PROVE Inv
      OBVIOUS
    <2>1. Core
      BY InitCore
    <2>2. ReadyAndWaiting /\ OwnChildrenWake
      BY EmptyElements DEF Init, ReadyAndWaiting, OwnChildrenWake, Misses
    <2>3. ListedByParent
      BY EmptyElements DEF Init, ListedByParent, Live
    <2>4. Live = {1}
      <3>1. Placed
        BY <2>1, PlacementParts DEF Core
      <3>2. Free = Blocks \ {1}
        BY <3>1, EmptyElements DEF Init, Placed, Partition, Run
      <3> QED BY <3>2 DEF Live, Blocks
    <2>5. PidsUnique
      BY <2>4 DEF Init, PidsUnique, Live
    <2> QED BY <2>2, <2>3, <2>5
  <1>2. Core /\ Inv /\ [Next]_vars => Inv'
    BY StatusStep, ListedStep, PidsStep, OwnChildrenStep
  <1> QED BY CoreHolds, <1>1, <1>2, PTL DEF Spec

(* Every zombie can still be reaped: exit leaves it in the list of a process
   that has not exited, and gives it to init when that one exits in turn. *)
THEOREM ZombiesStayReapable == Spec => []ZombiesReapable
  <1>1. Init => Adopted
    BY DEF Init, Adopted, Live
  <1>2. Core /\ Adopted /\ [Next]_vars => Adopted'
    BY AdoptedStep
  <1>3. Core /\ Adopted => ZombiesReapable
    BY Apart DEF Core, TypeOK, Adopted, ZombiesReapable, Live
  <1> QED BY CoreHolds, <1>1, <1>2, <1>3, PTL DEF Spec

-----------------------------------------------------------------------------
(* What a step may never do *)

LEMMA ReapingStep ==
  ASSUME Core, ListedByParent, [Next]_vars, NEW b \in Free' \ Free
  PROVE  /\ reported'.value = pid[b]
         /\ reported'.to \notin Free'
         /\ b \in Elements(children[reported'.to]) \ Elements(children'[reported'.to])
  <1>1. b \in Live \ Live'
    <2>1. pcb_free' \in Seq(Blocks)
      BY NextCore DEF Core, TypeOK
    <2>2. b \in Blocks
      BY <2>1, ElementsType DEF Free
    <2> QED BY <2>2 DEF Live
  <1>2. ~SameFamily /\ \A c, p : ~Born(c, p)
    BY <1>1 DEF SameFamily, Born
  <1>3. CASE Reaps
    <2>1. PICK z \in Blocks : Reaped(z) /\ reported' = [to |-> running, value |-> pid[z]]
      BY <1>3, ReapedStep
    <2>2. z = b /\ reported'.to = running /\ reported'.value = pid[b]
      BY <1>1, <2>1 DEF Reaped
    <2>3. running \in Live' /\ running \notin Free'
      <3>1. running \in Live \ zombie_list
        BY <1>3, RunningIsLive DEF Reaps, Calls
      <3> QED BY <2>1, <3>1 DEF Reaped, Live
    <2>4. b \in KidsOf(running) /\ b \notin KidsNext(running)
      BY <2>1, <2>2, <2>3 DEF Reaped
    <2> QED BY <2>2, <2>3, <2>4 DEF KidsOf, KidsNext
  <1>4. CASE Exits
    <2> DEFINE r == running
               p == parent[running]
    <2>1. Gone(r)
      BY <1>4, GoneStep
    <2>2. /\ b = r /\ Live' = Live \ {r} /\ r \in Inherits(p, r) /\ ExitWakesParent
          /\ \A c \in Live' : KidsNext(c) = Inherits(c, r) \ {r}
      <3>1. /\ b = r /\ Live' = Live \ {r} /\ r \in Inherits(p, r)
            /\ \A c \in Live' : KidsNext(c) = Inherits(c, r) \ {r}
        BY <1>1, <2>1 DEF Gone
      <3>2. ~ExitToZombie
        BY <1>1, <3>1 DEF ExitToZombie, pools, Live, Free
      <3> QED BY <1>4, <3>1, <3>2 DEF Exits
    <2>3. /\ p \in Live /\ p # r /\ reported' = [to |-> p, value |-> pid[r]]
          /\ r \in Live /\ parent[r] # NULL
      <3>1. ~ExitToZombie
        BY <2>2 DEF ExitToZombie, ExitWakesParent
      <3> QED BY <1>4, <3>1, ExitFields DEF Exits
    <2>4. p \in Live' /\ p \notin Free'
      BY <2>2, <2>3 DEF Live
    <2>5. r \notin KidsOf(r)
      BY <2>3 DEF ListedByParent, KidsOf
    <2>6. r \in KidsOf(p) /\ r \notin KidsNext(p)
      BY <2>2, <2>4, <2>5 DEF Inherits
    <2>7. reported'.to = p /\ reported'.value = pid[b]
      BY <2>2, <2>3
    <2> QED BY <2>2, <2>4, <2>6, <2>7 DEF KidsOf, KidsNext
  <1>5. Stays \/ Turns \/ WaitsForChild \/ Sleeps => SameFamily
    BY DEF Stays, Turns, ScheduleEffect, WaitsForChild, WaitBlocks, Sleeps, internal_sleep,
           pools, table, queues, SameFamily, Live, Free
  <1>6. Starts \/ CreatesChild => Live \subseteq Live'
    <2>1. ASSUME pcb_free # <<>>, pcb_free' = Tail(pcb_free) PROVE Live \subseteq Live'
      BY <2>1, HeadOfFree DEF Free, Live
    <2> QED BY <2>1 DEF Starts, CreatesChild, PCB_alloc
  <1> QED BY StepKinds, <1>1, <1>2, <1>3, <1>4, <1>5, <1>6

LEMMA TickStep ==
  ASSUME Core, TimersSorted, timerInterrupt, mode' # "NullDereference"
  PROVE  Asleep' = {timer_list[i].pcb : i \in {j \in 1 .. Len(timer_list) : timer_list[j].left > 1}}
  <1> DEFINE s == TimersAfterTick
             k == ElapsedCount(s)
             rest == SubSeq(s, k + 1, Len(s))
             n == Len(timer_list)
  <1>1. internal_schedule(s)
    BY DEF timerInterrupt, Crash
  <1>2. timer_list' = rest
    BY <1>1 DEF internal_schedule
  <1>3. /\ s \in Seq(Timers) /\ OneTimerEach(s) /\ Len(s) = n /\ n \in Nat
        /\ \A i \in 1 .. n : s[i].pcb = timer_list[i].pcb /\ s[i].left = timer_list[i].left - 1
        /\ \A i \in 1 .. n : timer_list[i].left \in Int /\ s[i].left \in Int
    BY TickedTimers, TimerFields
  <1> HIDE DEF s
  <1>4. Sorted(s)
    <2> SUFFICES ASSUME NEW i \in 1 .. n, NEW j \in 1 .. n, i < j
                 PROVE  s[i].left <= s[j].left
      BY <1>3 DEF Sorted
    <2>1. timer_list[i].left <= timer_list[j].left
      BY DEF TimersSorted
    <2> QED BY <1>3, <2>1
  <1>5. /\ k \in 0 .. n
        /\ \A i \in 1 .. k : Elapsed(s[i])
    BY <1>3, ElapsedCountIs
  <1>6. /\ Len(rest) = n - k
        /\ \A i \in 1 .. Len(rest) : rest[i] = s[i + k]
    BY <1>3, <1>5, TimersServed
  <1>7. \A i \in 1 .. Len(rest) : rest[i].left > 0
    BY <1>3, <1>4, ServedSorted
  <1> HIDE DEF k, rest, n
  <1>8. \A j \in 1 .. n : timer_list[j].left > 1 <=> j > k
    <2> SUFFICES ASSUME NEW j \in 1 .. n PROVE timer_list[j].left > 1 <=> j > k
      OBVIOUS
    <2>1. CASE j <= k
      <3>1. s[j].left <= 0
        BY <1>3, <1>5, <2>1 DEF Elapsed
      <3> QED BY <1>3, <1>5, <2>1, <3>1
    <2>2. CASE j > k
      <3>1. j - k \in 1 .. Len(rest) /\ rest[j - k] = s[(j - k) + k] /\ (j - k) + k = j
        BY <1>3, <1>5, <1>6, <2>2
      <3>2. s[j].left > 0
        BY <1>7, <3>1
      <3> QED BY <1>3, <2>2, <3>2
    <2> QED BY <1>3, <1>5, <2>1, <2>2
  <1>9. Asleep' = {rest[i].pcb : i \in 1 .. Len(rest)}
    BY <1>2 DEF Asleep
  <1>10. ASSUME NEW i \in 1 .. Len(rest)
         PROVE  i + k \in {j \in 1 .. n : timer_list[j].left > 1} /\ rest[i].pcb = timer_list[i + k].pcb
    <2>1. i + k \in 1 .. n /\ i + k > k
      BY <1>3, <1>5, <1>6
    <2> QED BY <1>3, <1>6, <1>8, <2>1
  <1>11. ASSUME NEW j \in {j \in 1 .. n : timer_list[j].left > 1}
         PROVE  j - k \in 1 .. Len(rest) /\ rest[j - k].pcb = timer_list[j].pcb
    <2>1. j \in 1 .. n /\ j > k /\ j - k \in 1 .. Len(rest) /\ (j - k) + k = j
      BY <1>3, <1>5, <1>6, <1>8
    <2>2. rest[j - k] = s[j]
      BY <1>6, <2>1
    <2> QED BY <1>3, <2>1, <2>2
  <1> DEFINE later == {j \in 1 .. n : timer_list[j].left > 1}
  <1> HIDE DEF later
  <1>12. ASSUME NEW x \in Asleep' PROVE x \in {timer_list[i].pcb : i \in later}
    <2>1. PICK i \in 1 .. Len(rest) : x = rest[i].pcb
      BY <1>9
    <2> QED BY <1>10, <2>1 DEF later
  <1>13. ASSUME NEW j \in later PROVE timer_list[j].pcb \in Asleep'
    BY <1>9, <1>11 DEF later
  <1>14. Asleep' = {timer_list[i].pcb : i \in later}
    BY <1>12, <1>13
  <1> QED BY <1>14 DEF n, later

LEMMA IndexIs ==
  ASSUME NEW s \in Seq(Blocks), Distinct(s), NEW i \in 1 .. Len(s)
  PROVE  IndexIn(s, s[i]) = i /\ s[i] \in Elements(s)
  <1>1. s[i] \in Elements(s)
    BY DEF Elements
  <1>2. IndexIn(s, s[i]) \in 1 .. Len(s) /\ s[IndexIn(s, s[i])] = s[i]
    BY <1>1, IndexInList
  <1> QED BY <1>1, <1>2 DEF Distinct

\* The head leaves: everybody else comes one place nearer.
LEMMA IndexInTail ==
  ASSUME NEW s \in Seq(Blocks), Distinct(s), s # <<>>, NEW b \in Elements(s) \ {Head(s)}
  PROVE  b \in Elements(Tail(s)) /\ IndexIn(Tail(s), b) = IndexIn(s, b) - 1
  <1> DEFINE i == IndexIn(s, b)
             t == Tail(s)
  <1>1. i \in 1 .. Len(s) /\ s[i] = b
    BY IndexInList
  <1>2. /\ t \in Seq(Blocks) /\ Distinct(t) /\ Len(t) = Len(s) - 1
        /\ \A j \in 1 .. Len(t) : t[j] = s[j + 1]
    BY TailElements, HeadTailProperties
  <1>3. i # 1
    BY <1>1
  <1> HIDE DEF i, t
  <1>4. i - 1 \in 1 .. Len(t) /\ t[i - 1] = s[(i - 1) + 1] /\ (i - 1) + 1 = i
    BY <1>1, <1>2, <1>3
  <1>5. t[i - 1] = b
    BY <1>1, <1>4
  <1> QED BY <1>2, <1>4, <1>5, IndexIs DEF i, t

LEMMA IndexInAppend ==
  ASSUME NEW s \in Seq(Blocks), NEW x \in Blocks \ Elements(s), Distinct(s), NEW b \in Elements(s)
  PROVE  IndexIn(Append(s, x), b) = IndexIn(s, b)
  <1> DEFINE i == IndexIn(s, b)
             t == Append(s, x)
  <1>1. i \in 1 .. Len(s) /\ s[i] = b
    BY IndexInList
  <1>2. t \in Seq(Blocks) /\ Distinct(t)
    BY AppendElements
  <1>3. Len(t) = Len(s) + 1 /\ \A j \in 1 .. Len(s) : t[j] = s[j]
    OBVIOUS
  <1> HIDE DEF i, t
  <1>4. i \in 1 .. Len(t) /\ t[i] = b
    BY <1>1, <1>3
  <1> QED BY <1>2, <1>4, IndexIs DEF i, t

LEMMA IndexInConcat ==
  ASSUME NEW w \in Seq(Blocks), NEW s \in Seq(Blocks), Distinct(w), Distinct(s),
         Elements(w) \cap Elements(s) = {}, NEW b \in Elements(s)
  PROVE  /\ Distinct(w \o s) /\ w \o s \in Seq(Blocks) /\ b \in Elements(w \o s)
         /\ IndexIn(w \o s, b) = IndexIn(s, b) + Len(w)
  <1> DEFINE i == IndexIn(s, b)
             t == w \o s
  <1>1. i \in 1 .. Len(s) /\ s[i] = b
    BY IndexInList
  <1>2. t \in Seq(Blocks) /\ Distinct(t) /\ b \in Elements(t)
    BY ConcatElements
  <1>3. Len(t) = Len(w) + Len(s)
        /\ \A j \in 1 .. Len(w) + Len(s) : t[j] = IF j <= Len(w) THEN w[j] ELSE s[j - Len(w)]
    BY ConcatProperties
  <1> HIDE DEF i, t
  <1>4. i + Len(w) \in 1 .. Len(t) /\ ~(i + Len(w) <= Len(w)) /\ (i + Len(w)) - Len(w) = i
    BY <1>1, <1>3
  <1>5. t[i + Len(w)] = b
    BY <1>1, <1>3, <1>4
  <1>6. IndexIn(t, b) = i + Len(w)
    <2> DEFINE j == i + Len(w)
    <2>1. j \in 1 .. Len(t) /\ t[j] = b
      BY <1>4, <1>5
    <2> HIDE DEF j
    <2>2. IndexIn(t, t[j]) = j
      BY <1>2, <2>1, IndexIs
    <2> QED BY <2>1, <2>2 DEF j
  <1> QED BY <1>2, <1>6 DEF i, t

\* A turn of internal_schedule brings every process that stays ready one place
\* nearer to its turn, the sleepers that jumped the queue counted in.
LEMMA ScheduleRank ==
  ASSUME Core, running # NULL,
         NEW timers \in Seq(Timers), OneTimerEach(timers), Sleeping(timers) = Asleep,
         Len(timers) = Len(timer_list), internal_schedule(timers),
         NEW b \in Elements(ready_list), b \in Elements(ready_list')
  PROVE  IndexIn(ready_list', b) + Len(timer_list') < IndexIn(ready_list, b) + Len(timer_list)
  <1> DEFINE k     == ElapsedCount(timers)
             woken == [i \in 1 .. k |-> timers[i].pcb]
             rest  == SubSeq(timers, k + 1, Len(timers))
             ready == woken \o ready_list
  <1>1. k \in 0 .. Len(timers)
    BY ElapsedCountIs
  <1>2. /\ woken \in Seq(Blocks) /\ Distinct(woken) /\ Len(woken) = k
        /\ Len(rest) = Len(timers) - k
        /\ Elements(woken) \subseteq Asleep
    BY <1>1, TimersServed
  <1>3. /\ timer_list' = rest
        /\ ready # <<>> => ready_list' = Append(Tail(ready), running)
    BY DEF internal_schedule, Requeue
  <1> HIDE DEF k, woken, rest
  <1>4. /\ ready_list \in Seq(Blocks) /\ Distinct(ready_list)
        /\ Elements(woken) \cap Elements(ready_list) = {}
        /\ running \in Blocks /\ running \notin Elements(ready_list) \cup Elements(woken)
    BY <1>2, Apart, PlacementParts, RunningIsLive DEF Core, TypeOK
  <1>5. /\ ready \in Seq(Blocks) /\ Distinct(ready) /\ b \in Elements(ready)
        /\ IndexIn(ready, b) = IndexIn(ready_list, b) + k
    BY <1>2, <1>4, IndexInConcat
  <1>6. Elements(ready) = Elements(woken) \cup Elements(ready_list)
    BY <1>2, <1>4, ConcatElements
  <1> HIDE DEF ready
  <1>7. ready # <<>>
    BY <1>5, EmptyElements
  <1> DEFINE t == Tail(ready)
  <1>8. /\ t \in Seq(Blocks) /\ Distinct(t) /\ Elements(t) = Elements(ready) \ {Head(ready)}
    BY <1>5, <1>7, TailElements
  <1>9. b \in Elements(ready) \ {Head(ready)}
          => b \in Elements(t) /\ IndexIn(t, b) = IndexIn(ready, b) - 1
    BY <1>5, <1>7, IndexInTail
  <1>10. ready_list' = Append(t, running)
    BY <1>3, <1>7
  <1> HIDE DEF t
  <1>11. running \in Blocks \ Elements(t)
    BY <1>4, <1>6, <1>8
  <1>12. Elements(Append(t, running)) = Elements(t) \cup {running}
    BY <1>8, <1>11, AppendElements
  <1>13. b \in Elements(t)
    BY <1>4, <1>10, <1>12
  <1>14. IndexIn(ready_list', b) = IndexIn(t, b)
    BY <1>8, <1>10, <1>11, <1>13, IndexInAppend
  <1>15. IndexIn(ready_list, b) \in Int /\ Len(timers) \in Int /\ k \in Int
    BY <1>1, <1>4, IndexInList
  <1>16. IndexIn(t, b) = IndexIn(ready_list, b) + k - 1
    <2>1. IndexIn(t, b) = IndexIn(ready, b) - 1
      BY <1>8, <1>9, <1>13
    <2> QED BY <1>5, <1>15, <2>1
  <1> QED BY <1>2, <1>3, <1>14, <1>15, <1>16

LEMMA RankStep ==
  ASSUME Core, [Next]_vars, NEW b \in Elements(ready_list), b \in Elements(ready_list'),
         mode' = "Up"
  PROVE  /\ Rank(b)' <= Rank(b)
         /\ timerInterrupt => Rank(b)' < Rank(b)
  <1> DEFINE ix == IndexIn(ready_list, b)
             n == Len(timer_list)
  <1>1. ready_list \in Seq(Blocks) /\ Distinct(ready_list) /\ timer_list \in Seq(Timers)
    BY PlacementParts, TickedTimers DEF Core, TypeOK
  <1>2. ix \in Int /\ ix >= 1 /\ n \in Nat /\ Rank(b) = ix + n
        /\ Rank(b)' = IndexIn(ready_list', b) + Len(timer_list')
    BY <1>1, IndexInList DEF Rank
  <1>3. Turns => Rank(b)' < Rank(b)
    <2>1. Turns => running # NULL /\ (internal_schedule(TimersAfterTick) \/ internal_schedule(timer_list))
      BY DEF Turns
    <2> QED BY <1>2, <2>1, TickedTimers, ScheduleRank
  <1>4. timerInterrupt => Turns
    <2>1. timerInterrupt => mode = "Up" /\ running # NULL /\ internal_schedule(TimersAfterTick)
                            /\ awaited' = awaited
      BY DEF timerInterrupt, Crash
    <2> QED BY <2>1, TurnIsSchedule DEF Turns
  <1>5. CASE ready_list' = ready_list /\ timer_list' = timer_list
    BY <1>2, <1>3, <1>4, <1>5
  <1>6. CASE ready_list # <<>> /\ ready_list' = ReadyListRest /\ Len(timer_list') \in {n, n + 1}
    <2>1. ready_list' = Tail(ready_list)
      BY <1>6 DEF ReadyListRest
    <2>2. b # Head(ready_list)
      BY <1>1, <1>6, <2>1, TailElements
    <2>3. IndexIn(ready_list', b) = ix - 1
      BY <1>1, <1>6, <2>1, <2>2, IndexInTail
    <2> QED BY <1>2, <1>3, <1>4, <1>6, <2>3
  <1>7. CASE CreatesChild
    <2>1. /\ Head(pcb_free) \in Blocks \ Elements(ready_list)
          /\ ready_list' = Append(ready_list, Head(pcb_free)) /\ timer_list' = timer_list
      BY <1>7, HeadOfFree, Apart DEF CreatesChild
    <2>2. IndexIn(ready_list', b) = ix
      BY <1>1, <2>1, IndexInAppend
    <2> QED BY <1>2, <1>3, <1>4, <2>1, <2>2
  <1>8. ready_list # <<>>
    BY EmptyElements
  <1>9. CASE Sleeps
    <2>1. ready_list' = ReadyListRest
      BY <1>8, <1>9 DEF Sleeps, internal_sleep
    <2>2. PICK ticks \in SleepTimes : timer_list' = TimerList_add(timer_list, ticks, running)
      BY <1>9 DEF Sleeps, internal_sleep
    <2>3. running \in Blocks \ Asleep
      BY <1>9, BlockFields
    <2>4. ticks \in Int /\ Sleeping(timer_list) = Asleep /\ OneTimerEach(timer_list)
      BY TickedTimers
    <2>5. Len(TimerList_add(timer_list, ticks, running)) = n + 1
      BY <1>1, <2>3, <2>4, TimerAdded
    <2> QED BY <1>6, <1>8, <2>1, <2>2, <2>5
  <1>10. CASE WaitsForChild
    BY <1>6, <1>10 DEF WaitsForChild, WaitBlocks
  <1>11. CASE Exits
    BY <1>5, <1>6, <1>11, ExitFields
  <1>12. CASE Stays \/ Starts \/ Reaps
    BY <1>5, <1>12 DEF Stays, Starts, Reaps, WaitReaps, queues
  <1>13. CASE Turns
    BY <1>2, <1>3, <1>13, NextCore, IndexInList DEF Core, TypeOK
  <1> QED BY StepKinds, <1>7, <1>9, <1>10, <1>11, <1>12, <1>13

(* Each process is reaped once, and by the process that had it as a child: the
   step of wait or of exit that releases a block stores its pid as the answer of
   the wait of that process. *)
THEOREM ReapedOnce == Spec => ReapedByAParent
  <1> DEFINE Step == \A b \in Free' \ Free :
               /\ reported'.value = pid[b]
               /\ reported'.to \notin Free'
               /\ b \in Elements(children[reported'.to]) \ Elements(children'[reported'.to])
  <1>1. Init => ListedByParent
    BY EmptyElements DEF Init, ListedByParent, Live
  <1>2. Core /\ ListedByParent /\ [Next]_vars => ListedByParent'
    BY ListedStep
  <1>3. Core /\ ListedByParent /\ [Next]_vars => [Step]_vars
    BY ReapingStep
  <1> QED BY CoreHolds, <1>1, <1>2, <1>3, PTL DEF Spec, ReapedByAParent

(* A timer interrupt wakes every process whose timer has elapsed by then, though
   internal_schedule only ever looks at the head of the timer list, and none
   before its time. *)
THEOREM ElapsedTimersServed == Spec => TickWakesElapsed
  <1> DEFINE Step == timerInterrupt /\ mode' # "NullDereference" =>
               Asleep' = {timer_list[i].pcb : i \in
                            {j \in 1 .. Len(timer_list) : timer_list[j].left > 1}}
  <1>1. Core /\ TimersSorted /\ [Next]_vars => [Step]_vars
    BY TickStep
  <1> QED BY CoreHolds, TimersStaySorted, <1>1, PTL DEF Spec, TickWakesElapsed

(* Nobody overtakes a ready process more often than there are processes ahead of
   it and sleepers: no step moves it away from its turn, and every timer
   interrupt that does not give it the turn brings it nearer. *)
THEOREM NoOvertaking == Spec => TurnComesNearer
  <1> DEFINE Step == \A b \in Elements(ready_list) :
               b \in Elements(ready_list') /\ mode' = "Up" =>
                 /\ Rank(b)' <= Rank(b)
                 /\ timerInterrupt => Rank(b)' < Rank(b)
  <1>1. Core /\ [Next]_vars => [Step]_vars
    BY RankStep
  <1> QED BY CoreHolds, <1>1, PTL DEF Spec, TurnComesNearer

-----------------------------------------------------------------------------
(* Programs that keep to the habits of disastrOS_test.c, with a process that
   never makes a system call: nothing is ever stuck. *)

\* An idle process, once started, is never anywhere but running or ready.
IdleAwake ==
  \A i \in IdlePids : i < last_pid => \E b \in Elements(ready_list) \cup Run : pid[b] = i

\* Only a process without children exits, so every process but init stays with
\* the parent that created it.
AtHome ==
  /\ \A b \in Live \ {init_pcb} : parent[b] \in Live /\ b \in KidsOf(parent[b])
  /\ \A z \in zombie_list : KidsOf(z) = {}

DisciplinedInv == NeverStuck /\ forked = {} /\ IdleAwake /\ AtHome

LEMMA IdleIsReady ==
  ASSUME IdlePids # {}, IdleAwake, Calls, IdleStarted
  PROVE  ready_list # <<>>
  <1>1. PICK i \in IdlePids : i < last_pid
    BY DEF IdleStarted
  <1>2. PICK b \in Elements(ready_list) \cup Run : pid[b] = i
    BY <1>1 DEF IdleAwake
  <1>3. b \in Elements(ready_list)
    BY <1>2 DEF Calls, Run
  <1> QED BY <1>3, EmptyElements

\* No call of a disciplined program crashes, and the system never starts again.
LEMMA DisciplinedKinds ==
  ASSUME Disciplined, IdlePids # {}, Core, DisciplinedInv, [Next]_vars
  PROVE  /\ NeverStuck' /\ forked' = {}
         /\ \/ Stays \/ Turns \/ CreatesChild \/ Reaps \/ WaitsForChild \/ Sleeps
            \/ Exits /\ children[running] = <<>>
  <1> USE DEF DisciplinedInv
  <1>1. running # NULL /\ running \in Blocks /\ running \in Live
    BY RunningIsLive DEF NeverStuck
  <1>2. ASSUME NEW b \in Blocks, Resume(b) PROVE running' # NULL /\ mode' = "Up"
    BY <1>2 DEF Resume, Blocks
  <1>3. CASE UNCHANGED vars
    BY <1>3 DEF vars, table, NeverStuck, Stays
  <1>4. ASSUME mode = "Up", NEW s \in {TimersAfterTick, timer_list}, internal_schedule(s),
               awaited' \in {awaited, [awaited EXCEPT ![running] = NotWaiting]}
        PROVE  Turns /\ NeverStuck' /\ forked' = {}
    <2>1. PICK W \in SUBSET Asleep : ScheduleEffect(W)
      BY <1>1, <1>4, TurnIsSchedule
    <2>2. running' \in Blocks /\ forked' = {}
      BY <2>1 DEF ScheduleEffect
    <2>3. mode' = "Up"
      BY <1>4 DEF internal_schedule, Resume
    <2> QED BY <1>1, <1>4, <2>1, <2>2, <2>3 DEF Turns, NeverStuck, Blocks
  <1>5. CASE timerInterrupt
    BY <1>1, <1>4, <1>5 DEF timerInterrupt
  <1>6. CASE AllAsleep \/ FunctionReturns
    BY <1>1, <1>6 DEF AllAsleep, FunctionReturns
  <1>7. CASE internal_preempt
    BY <1>4, <1>7 DEF internal_preempt, CallsOther, Calls
  <1>8. CASE internal_spawn
    <2>1. /\ pcb_free # <<>> /\ last_pid < MaxPid /\ CallsOther
          /\ PCB_alloc(running, "Ready", TRUE)
          /\ ready_list' = Append(ready_list, Head(pcb_free))
          /\ UNCHANGED <<running, init_pcb, waiting_list, zombie_list, timer_list, abandoned, mode>>
      BY <1>8 DEF internal_spawn, Create
    <2>2. forked' = {}
      BY <2>1 DEF PCB_alloc
    <2> QED BY <1>1, <2>1, <2>2 DEF CallsOther, CreatesChild, NeverStuck
  <1>9. CASE internal_fork
    BY <1>9 DEF internal_fork
  <1>10. CASE \E a \in WaitPids : internal_wait(a)
    <2>1. PICK a \in WaitPids : internal_wait(a)
      BY <1>10
    <2>2. Calls /\ mode = "Up" /\ ready_list # <<>> /\ a \in Waits
      BY <2>1, IdleIsReady DEF internal_wait, Calls, Waits, Pids, NotAPid
    <2>3. CASE WaitFails(a) /\ awaited' = [awaited EXCEPT ![running] = a]
      BY <1>1, <2>2, <2>3 DEF WaitFails, Stays, table, NeverStuck
    <2>4. CASE WaitReaps(a) /\ awaited' = [awaited EXCEPT ![running] = a]
      BY <1>1, <2>2, <2>4 DEF WaitReaps, Reaps, NeverStuck
    <2>5. CASE WaitBlocks(a) /\ awaited' = [awaited EXCEPT ![running] = a]
      BY <1>2, <2>2, <2>5, HeadOfReady DEF WaitBlocks, WaitsForChild, NeverStuck
    <2> QED BY <2>1, <2>2, <2>3, <2>4, <2>5 DEF internal_wait, WaitCrashes
  <1>11. CASE \E ticks \in SleepTimes : internal_sleep(ticks)
    <2>1. PICK ticks \in SleepTimes : internal_sleep(ticks)
      BY <1>11
    <2>2. ready_list # <<>>
      BY <2>1, IdleIsReady DEF internal_sleep, CallsOther
    <2>3. Resume(Head(ready_list)) /\ forked' = forked
      BY <2>1, <2>2 DEF internal_sleep
    <2> QED BY <1>2, <2>1, <2>2, <2>3, HeadOfReady DEF Sleeps, NeverStuck
  <1>12. CASE internal_exit
    <2>1. /\ Calls /\ running # init_pcb /\ children[running] = <<>> /\ ready_list # <<>>
      BY <1>12, IdleIsReady DEF internal_exit
    <2>2. parent[running] \in Live /\ running \in KidsOf(parent[running])
      BY <1>1, <2>1 DEF AtHome
    <2>3. parent[running] \in Blocks /\ parent[running] # NULL
      BY <2>2 DEF Live, Blocks
    <2>4. ~ExitCrashes
      <3>1. parent[running] # running
        BY <2>1, <2>2, EmptyElements DEF KidsOf
      <3>2. running \in Elements(Reparented[parent[running]])
        BY <1>1, <2>1, <2>2, <2>3, <3>1, ReparentedLists DEF KidsOf
      <3> QED BY <2>1, <2>3, <3>2 DEF ExitCrashes
    <2>5. /\ CallsOther /\ (ExitWakesParent \/ ExitToZombie)
          /\ UNCHANGED <<pid, parent, forked, init_pcb, abandoned>>
      BY <1>12, <2>1, <2>4 DEF internal_exit
    <2>6. Exits
      BY <1>1, <2>1, <2>3, <2>5 DEF Exits, CallsOther
    <2>7. Resume(parent[running]) \/ Resume(Head(ready_list))
      BY <2>5 DEF ExitWakesParent, ExitToZombie
    <2> QED BY <1>2, <2>1, <2>3, <2>5, <2>6, <2>7, HeadOfReady DEF NeverStuck
  <1>13. CASE internal_shutdown
    <2>1. NotWaiting \in Waits
      BY DEF Waits
    <2> QED BY <1>1, <1>13, <2>1 DEF internal_shutdown, CallsOther, Stays, table, NeverStuck
  <1> QED BY <1>3, <1>5, <1>6, <1>7, <1>8, <1>9, <1>10, <1>11, <1>12, <1>13 DEF Next

LEMMA IdleAwakeStep ==
  ASSUME Core, IdleAwake,
         \/ Stays \/ Turns \/ CreatesChild \/ Reaps \/ WaitsForChild \/ Sleeps \/ Exits
  PROVE  IdleAwake'
  <1> DEFINE Awake == Elements(ready_list) \cup Run
  <1>1. ASSUME last_pid' = last_pid, pid' = pid,
               \/ Awake \subseteq Elements(ready_list') \cup Run'
               \/ Calls /\ Elements(ready_list) \subseteq Elements(ready_list') \cup Run'
        PROVE  IdleAwake'
    <2> SUFFICES ASSUME NEW i \in IdlePids, i < last_pid
                 PROVE  \E b \in Elements(ready_list') \cup Run' : pid[b] = i
      BY <1>1 DEF IdleAwake
    <2>1. PICK b \in Awake : pid[b] = i
      BY DEF IdleAwake
    <2>2. Calls => b \in Elements(ready_list)
      BY <2>1 DEF Calls, Run
    <2> QED BY <1>1, <2>1, <2>2
  <1>2. CASE Stays
    BY <1>1, <1>2 DEF Stays, pools, table, queues, Run
  <1>3. CASE Turns
    <2>1. PICK W \in SUBSET Asleep : ScheduleEffect(W)
      BY <1>3 DEF Turns
    <2>2. running' \in Blocks /\ Run' = {running'} /\ Run = {running}
      BY <1>3, <2>1 DEF ScheduleEffect, Run, Blocks, Turns
    <2>3. Awake \subseteq Elements(ready_list') \cup Run'
      BY <2>1, <2>2 DEF ScheduleEffect
    <2> QED BY <1>1, <2>1, <2>3 DEF ScheduleEffect, pools
  <1>4. CASE CreatesChild
    <2> DEFINE c == Head(pcb_free)
    <2>1. PICK context \in BOOLEAN : PCB_alloc(running, "Ready", context)
      BY <1>4 DEF CreatesChild
    <2>2. /\ c \in Free /\ c \in Blocks /\ pid'[c] = last_pid /\ last_pid' = last_pid + 1
          /\ \A d \in Blocks \ {c} : pid'[d] = pid[d]
      BY <1>4, <2>1, AllocatedFields DEF CreatesChild
    <2>3. Elements(ready_list') = Elements(ready_list) \cup {c} /\ Run' = Run
      BY <1>4, <2>2, AppendElements DEF CreatesChild, Core, TypeOK, Run
    <2>4. ASSUME NEW b \in Awake PROVE pid'[b] = pid[b]
      BY <2>2, Apart, RunningIsLive DEF Run
    <2> SUFFICES ASSUME NEW i \in IdlePids, i < last_pid'
                 PROVE  \E b \in Elements(ready_list') \cup Run' : pid'[b] = i
      BY DEF IdleAwake
    <2>5. i \in Int /\ last_pid \in Int
      BY DEF Core, TypeOK
    <2>6. CASE i < last_pid
      <3>1. PICK b \in Awake : pid[b] = i
        BY <2>6 DEF IdleAwake
      <3> QED BY <2>3, <2>4, <3>1
    <2>7. CASE i = last_pid
      BY <2>2, <2>3, <2>7
    <2> QED BY <2>2, <2>5, <2>6, <2>7
  <1>5. CASE Reaps
    BY <1>1, <1>5 DEF Reaps, WaitReaps, Run
  <1>6. CASE WaitsForChild \/ Sleeps
    <2>1. /\ Calls /\ last_pid' = last_pid /\ pid' = pid
          /\ ready_list' = ready_list \/ (ready_list # <<>> /\ ready_list' = ReadyListRest /\ running' = Head(ready_list))
      BY <1>6 DEF WaitsForChild, WaitBlocks, Sleeps, internal_sleep, CallsOther, Resume, pools
    <2>2. Elements(ready_list) \subseteq Elements(ready_list') \cup Run'
      BY <2>1, HeadOfReady DEF Run
    <2> QED BY <1>1, <2>1, <2>2
  <1>7. CASE Exits
    <2>1. /\ Calls /\ last_pid' = last_pid /\ pid' = pid
          /\ ready_list' = ready_list \/ (ready_list # <<>> /\ ready_list' = ReadyListRest /\ running' = Head(ready_list))
      BY <1>7 DEF Exits, ExitWakesParent, ExitToZombie, Resume, pools
    <2>2. Elements(ready_list) \subseteq Elements(ready_list') \cup Run'
      BY <2>1, HeadOfReady DEF Run
    <2> QED BY <1>1, <2>1, <2>2
  <1> HIDE DEF Awake
  <1> QED BY <1>2, <1>3, <1>4, <1>5, <1>6, <1>7

LEMMA AtHomeStep ==
  ASSUME Disciplined, IdlePids # {}, Core, DisciplinedInv, [Next]_vars
  PROVE  AtHome'
  <1>1. /\ \A b \in Live \ {init_pcb} : parent[b] \in Live /\ b \in KidsOf(parent[b])
        /\ \A z \in zombie_list : KidsOf(z) = {} /\ z \in Live
    BY Apart DEF DisciplinedInv, AtHome, Live, Core, TypeOK
  <1> DEFINE Home(b) == parent'[b] \in Live' /\ b \in KidsNext(parent'[b])
  <1>2. ASSUME init_pcb' = init_pcb,
               \A b \in Live' \ {init_pcb} : Home(b),
               \A z \in zombie_list' : KidsNext(z) = {}
        PROVE  AtHome'
    BY <1>2 DEF AtHome, KidsOf, KidsNext
  <1>3. CASE Stays \/ Turns \/ WaitsForChild \/ Sleeps
    <2>1. SameFamily
      BY <1>3 DEF Stays, Turns, ScheduleEffect, WaitsForChild, WaitBlocks, Sleeps, internal_sleep,
                  pools, table, queues, SameFamily, Live, Free
    <2> QED BY <1>1, <1>2, <2>1 DEF SameFamily, KidsNext, KidsOf
  <1>4. CASE CreatesChild
    <2>1. running \in Run /\ init_pcb' = init_pcb /\ zombie_list' = zombie_list /\ pcb_free # <<>>
      BY <1>4 DEF CreatesChild, Run
    <2>2. PICK context \in BOOLEAN : PCB_alloc(running, "Ready", context)
      BY <1>4 DEF CreatesChild
    <2>3. PICK c \in Blocks : Born(c, running)
      BY <2>1, <2>2, BornStep
    <2>4. running \in Live \ zombie_list
      BY <1>4, RunningIsLive DEF CreatesChild
    <2>5. Home(c)
      BY <2>3, <2>4 DEF Born
    <2>6. ASSUME NEW b \in Live \ {init_pcb} PROVE Home(b)
      BY <1>1, <2>3 DEF Born
    <2>7. \A z \in zombie_list' : KidsNext(z) = {}
      BY <1>1, <2>1, <2>3, <2>4 DEF Born
    <2>8. \A b \in Live' : b = c \/ b \in Live
      BY <2>3 DEF Born
    <2> HIDE DEF Home
    <2> QED BY <1>2, <2>1, <2>5, <2>6, <2>7, <2>8
  <1>5. CASE Reaps
    <2>1. PICK z \in Blocks : Reaped(z)
      BY <1>5, ReapedStep
    <2>2. init_pcb' = init_pcb
      BY <1>5 DEF Reaps, WaitReaps
    <2>3. ASSUME NEW b \in Live' \ {init_pcb} PROVE Home(b)
      BY <1>1, <2>1 DEF Reaped
    <2>4. \A y \in zombie_list' : KidsNext(y) = {}
      BY <1>1, <2>1 DEF Reaped
    <2> QED BY <1>2, <2>2, <2>3, <2>4
  <1>6. CASE Exits /\ children[running] = <<>>
    <2> DEFINE r == running
    <2>1. Gone(r) /\ KidsOf(r) = {} /\ init_pcb' = init_pcb
      BY <1>6, GoneStep, EmptyElements DEF KidsOf, Exits
    <2>2. \A c : Inherits(c, r) = KidsOf(c)
      BY <2>1 DEF Inherits
    <2>3. ASSUME NEW b \in Live' \ {init_pcb} PROVE Home(b)
      <3>1. b \in Live /\ parent' = parent /\ parent[b] \in Live \ {r} /\ b \in KidsOf(parent[b])
        BY <1>1, <2>1 DEF Gone
      <3> QED BY <2>1, <2>2, <3>1 DEF Gone
    <2>4. \A y \in zombie_list' : KidsNext(y) = {}
      BY <1>1, <2>1, <2>2 DEF Gone
    <2> QED BY <1>2, <2>1, <2>3, <2>4
  <1> HIDE DEF Home
  <1> QED BY DisciplinedKinds, <1>3, <1>4, <1>5, <1>6

(* When programs keep to the habits of disastrOS_test.c (no fork, no function
   that returns, no process table filled up, only childless processes exit, and
   the idle process is started before anybody blocks) no handler dereferences a
   null pointer or hangs, and there is always a process to run. *)
THEOREM DisciplinedNeverStuck ==
  ASSUME Disciplined, IdlePids # {}
  PROVE  Spec => []NeverStuck
  <1>1. Init => DisciplinedInv
    <2> SUFFICES ASSUME Init PROVE DisciplinedInv
      OBVIOUS
    <2>1. NeverStuck /\ forked = {}
      BY DEF Init, NeverStuck
    <2>2. IdleAwake
      <3>1. \A i \in IdlePids : ~(i < last_pid)
        BY DEF Init
      <3> QED BY <3>1 DEF IdleAwake
    <2>3. AtHome
      <3>1. Placed
        BY InitCore, PlacementParts DEF Core
      <3>2. Free = Blocks \ {1}
        BY <3>1, EmptyElements DEF Init, Placed, Partition, Run
      <3>3. Live \ {init_pcb} = {} /\ zombie_list = {}
        BY <3>2 DEF Init, Live
      <3> QED BY <3>3 DEF AtHome
    <2> QED BY <2>1, <2>2, <2>3 DEF DisciplinedInv
  <1>2. Core /\ DisciplinedInv /\ [Next]_vars => DisciplinedInv'
    BY DisciplinedKinds, IdleAwakeStep, AtHomeStep DEF DisciplinedInv
  <1>3. DisciplinedInv => NeverStuck
    BY DEF DisciplinedInv
  <1> QED BY CoreHolds, <1>1, <1>2, <1>3, PTL DEF Spec
=============================================================================
