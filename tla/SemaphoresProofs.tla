-------------------------- MODULE SemaphoresProofs ---------------------------
(***************************************************************************)
(* The semaphores, and the test program that uses them.  For any number of *)
(* processes, semaphores and descriptors: the process table stays in order *)
(* though semWait and semPost move processes too, every blocked process    *)
(* waits for one thing, descriptors and semaphores agree, and tokens are   *)
(* handed over in order.  For any number of children: the critical section *)
(* of the semaphore test excludes, totalOK counts the children as an       *)
(* atomic counter would, and when init shuts the system down nothing of    *)
(* its children is left.                                                   *)
(***************************************************************************)
EXTENDS TestProgram, SchedulerProofs

-----------------------------------------------------------------------------
(* The inductive invariant *)

SemDesRecords == [pcb : Blocks \cup {NULL}, semaphore : Semaphores \cup {NULL}, fd : Int]

SemTyped ==
  /\ sem_free \in Seq(Semaphores) /\ Distinct(sem_free)
  /\ count \in [Semaphores -> Int]
  /\ users \in [Semaphores -> SUBSET SemDescriptors]
  /\ waiters \in [Semaphores -> Seq(SemDescriptors)]
  /\ sem_descriptors \in [Blocks -> Seq(SemDescriptors)]
  /\ last_sem_fd \in [Blocks -> Int]
  /\ sem_des \in [SemDescriptors -> SemDesRecords]
  /\ sem_des_free \subseteq SemDescriptors

Held(b) == Elements(sem_descriptors[b])

\* A descriptor that is held is its holder's, and uses or waits on its
\* semaphore, which is alive if it uses it; the others are in no list.
HeldLinked ==
  \A b \in Blocks : \A d \in Held(b) :
    LET s == sem_des[d].semaphore IN
    /\ sem_des[d].pcb = b /\ d \notin sem_des_free
    /\ s \in Semaphores /\ d \in users[s] \cup Waiting(s)
    /\ d \in users[s] => s \in semaphores_list

UsedLinked ==
  \A s \in Semaphores : \A d \in users[s] \cup Waiting(s) :
    /\ sem_des[d].semaphore = s
    /\ sem_des[d].pcb \in Blocks /\ d \in Held(sem_des[d].pcb)

Linked ==
  /\ \A b \in Blocks : Distinct(sem_descriptors[b])
  /\ \A s \in Semaphores : Distinct(waiters[s]) /\ users[s] \cap Waiting(s) = {}
  /\ HeldLinked
  /\ UsedLinked

SemInv == Core /\ SemTyped /\ Linked /\ WaitsForOneThing

USE SchedulerAssumption, SemaphoresAssumption DEF NULL

LEMMA SemDesFields ==
  /\ Unset \in SemDesRecords
  /\ \A x \in SemDesRecords : x.pcb \in Blocks \cup {NULL}
                              /\ x.semaphore \in Semaphores \cup {NULL} /\ x.fd \in Int
  BY DEF SemDesRecords, Unset

LEMMA CountSet ==
  ASSUME NEW f \in [Semaphores -> Int], NEW q, NEW c \in Int
  PROVE  [f EXCEPT ![q] = c] \in [Semaphores -> Int]
  OBVIOUS

LEMMA LinkedAgrees ==
  ASSUME SemTyped, Linked
  PROVE  SemDescriptorsAgree
  <1> USE DEF Linked
  <1>1. ASSUME NEW b \in Blocks, NEW d \in Held(b), NEW s, s = sem_des[d].semaphore
        PROVE  /\ sem_des[d].pcb = b
               /\ d \notin sem_des_free
               /\ \/ d \in users[s] /\ s \in semaphores_list /\ d \notin AllWaiting
                  \/ d \notin users[s] /\ d \in Waiting(s)
    <2>1. /\ sem_des[d].pcb = b /\ d \notin sem_des_free
          /\ s \in Semaphores /\ d \in users[s] \cup Waiting(s)
          /\ d \in users[s] => s \in semaphores_list
      BY <1>1 DEF HeldLinked
    <2>2. d \in users[s] => d \notin AllWaiting
      BY <1>1, <2>1 DEF UsedLinked, AllWaiting
    <2> QED BY <2>1, <2>2
  <1>2. ASSUME NEW s \in Elements(sem_free) PROVE users[s] = {}
    <2>1. s \in Semaphores /\ s \notin semaphores_list
      BY ElementsType DEF SemTyped, semaphores_list
    <2> QED BY <2>1 DEF UsedLinked, HeldLinked
  <1> QED BY <1>1, <1>2 DEF SemDescriptorsAgree, UsedLinked, Held

-----------------------------------------------------------------------------
(* What a process may do through its descriptor *)

LEMMA FoundDescriptor ==
  ASSUME SemTyped, running \in Blocks, NEW fd
  PROVE  LET d == SemDescriptorList_byFd(fd)
         IN  d = NULL \/ (d \in Held(running) /\ d \in SemDescriptors)
  <1> DEFINE mine == sem_descriptors[running]
             hits == {k \in 1 .. Len(mine) : sem_des[mine[k]].fd = fd}
             least == CHOOSE k \in hits : \A l \in hits : k <= l
  <1>1. mine \in Seq(SemDescriptors)
    BY DEF SemTyped
  <1>2. ASSUME hits # {} PROVE least \in hits
    <2>1. hits \in SUBSET Nat
      BY <1>1
    <2>2. \E k \in hits : \A l \in hits : k <= l
      BY <1>2, <2>1, LeastNatural
    <2> QED BY <2>2
  <1>3. ASSUME hits # {} PROVE mine[least] \in Elements(mine) /\ mine[least] \in SemDescriptors
    <2>1. least \in 1 .. Len(mine)
      BY <1>2, <1>3
    <2> HIDE DEF least
    <2> QED BY <1>1, <2>1 DEF Elements
  <1>4. SemDescriptorList_byFd(fd) =
          IF hits = {} \/ fd < 0 \/ fd > MAX_NUM_SEMDESCRIPTORS_PER_PROCESS
            THEN NULL ELSE mine[least]
    BY DEF SemDescriptorList_byFd
  <1> HIDE DEF mine, hits, least
  <1> QED BY <1>3, <1>4 DEF Held, mine

\* The running process does not wait, so what it holds it uses.
LEMMA RunningUses ==
  ASSUME SemInv, running # NULL, NEW d \in Held(running)
  PROVE  /\ running \in Blocks /\ running \in Live /\ running \notin waiting_list
         /\ running \notin SemBlocked /\ running \notin Asleep
         /\ d \in SemDescriptors /\ sem_des[d].pcb = running /\ d \notin sem_des_free
         /\ d \notin AllWaiting
         /\ sem_des[d].semaphore \in Semaphores
         /\ d \in users[sem_des[d].semaphore]
         /\ sem_des[d].semaphore \in semaphores_list
  <1>1. running \in Blocks /\ running \in Live /\ running \notin waiting_list /\ running \notin Asleep
    BY RunningIsLive DEF SemInv
  <1>2. running \notin SemBlocked
    BY <1>1 DEF SemInv, WaitsForOneThing
  <1>3. d \in SemDescriptors
    BY <1>1, ElementsType DEF SemInv, SemTyped, Held
  <1>4. LET s == sem_des[d].semaphore IN
          /\ sem_des[d].pcb = running /\ d \notin sem_des_free
          /\ s \in Semaphores /\ d \in users[s] \cup Waiting(s)
          /\ d \in users[s] => s \in semaphores_list
    BY <1>1 DEF SemInv, Linked, HeldLinked
  <1>5. d \notin AllWaiting
    BY <1>2, <1>4 DEF SemBlocked
  <1>6. d \notin Waiting(sem_des[d].semaphore)
    BY <1>4, <1>5 DEF AllWaiting
  <1> QED BY <1>1, <1>2, <1>3, <1>4, <1>5, <1>6

-----------------------------------------------------------------------------
(* The steps of the process table *)

\* Who is blocked on anything but a timer or a child stays as it is; who blocks
\* has a timer or waits for a child.
LEMMA WaitingStep ==
  ASSUME Core, [Next]_vars
  PROVE  /\ \A b \in waiting_list \ waiting_list' :
              b \in Asleep \/ (status[b] = "Waiting" /\ awaited[b] # NotWaiting)
         /\ \A b \in waiting_list' \ waiting_list :
              status'[b] = "Waiting" /\ (b \in Asleep' <=> awaited'[b] = NotWaiting)
         /\ \A b \in waiting_list' \cap waiting_list :
              /\ status'[b] = status[b] /\ awaited'[b] = awaited[b]
              /\ b \in Asleep' <=> b \in Asleep
  <1> USE Apart
  <1>1. ASSUME \/ awaited' = awaited
               \/ running # NULL /\ \E a \in Waits : awaited' = [awaited EXCEPT ![running] = a]
        PROVE  \A c \in waiting_list : awaited'[c] = awaited[c]
    BY <1>1 DEF Core, TypeOK, Run
  <1>2. NotWaiting \in Waits /\ \A a \in WaitPids : a \in Waits /\ a # NotWaiting
    BY DEF Waits, Pids, NotAPid, NotWaiting
  <1>3. CASE Stays
    BY <1>1, <1>3 DEF Stays, table, queues, Asleep
  <1>4. CASE Turns
    <2>1. PICK W \in SUBSET Asleep : ScheduleEffect(W)
      BY <1>4 DEF Turns
    <2>2. /\ Asleep' = Asleep \ W /\ waiting_list' = waiting_list \ W
          /\ \A c \in Blocks \ (Elements(ready_list) \cup W \cup {running}) : status'[c] = status[c]
      BY <2>1 DEF ScheduleEffect
    <2>3. running \in Run
      BY <1>4 DEF Turns
    <2>4. \A c \in waiting_list : awaited'[c] = awaited[c]
      BY <1>1, <1>2, <1>4 DEF Turns
    <2> QED BY <2>2, <2>3, <2>4
  <1>5. CASE Starts
    <2>1. waiting_list' = waiting_list /\ Asleep' = Asleep /\ awaited' = awaited
      BY <1>5 DEF Starts, queues, Asleep
    <2>2. /\ Head(pcb_free) \in Free
          /\ \A c \in Blocks \ {Head(pcb_free)} : status'[c] = status[c]
      BY <1>5, AllocatedFields DEF Starts
    <2> QED BY <2>1, <2>2
  <1>6. CASE CreatesChild
    <2>1. PICK context \in BOOLEAN : PCB_alloc(running, "Ready", context)
      BY <1>6 DEF CreatesChild
    <2>2. /\ Head(pcb_free) \in Free
          /\ \A c \in Blocks \ {Head(pcb_free)} : status'[c] = status[c]
      BY <1>6, <2>1, AllocatedFields DEF CreatesChild
    <2>3. waiting_list' = waiting_list /\ Asleep' = Asleep
      BY <1>6 DEF CreatesChild, Asleep
    <2>4. \A c \in waiting_list : awaited'[c] = awaited[c]
      BY <1>1, <1>2, <1>6 DEF CreatesChild
    <2> QED BY <2>2, <2>3, <2>4
  <1>7. CASE Reaps
    <2>1. PICK a \in WaitPids : WaitReaps(a) /\ awaited' = [awaited EXCEPT ![running] = a]
      BY <1>7 DEF Reaps
    <2>2. waiting_list' = waiting_list /\ Asleep' = Asleep /\ status' = status
      BY <2>1 DEF WaitReaps, Asleep
    <2>3. \A c \in waiting_list : awaited'[c] = awaited[c]
      BY <1>1, <1>2, <1>7, <2>1 DEF Reaps, Calls
    <2> QED BY <2>2, <2>3
  <1>8. CASE WaitsForChild \/ Sleeps
    <2>1. /\ running \in Blocks /\ running \notin Asleep /\ awaited \in [Blocks -> Waits]
          /\ waiting_list' = waiting_list \cup {running}
          /\ status'[running] = "Waiting"
          /\ \A c \in Blocks \ {running} : status'[c] = status[c]
      BY <1>8, BlockFields DEF Core, TypeOK, Waits
    <2>2. running \notin waiting_list
      BY <2>1 DEF Blocks, Run
    <2>3. CASE timer_list' = timer_list /\ \E a \in WaitPids : awaited' = [awaited EXCEPT ![running] = a]
      <3>1. Asleep' = Asleep
        BY <2>3 DEF Asleep
      <3>2. awaited'[running] # NotWaiting /\ \A c \in Blocks \ {running} : awaited'[c] = awaited[c]
        BY <1>2, <2>1, <2>3
      <3> QED BY <2>1, <2>2, <3>1, <3>2
    <2>4. CASE /\ Asleep' = Asleep \cup {running}
               /\ awaited' = [awaited EXCEPT ![running] = NotWaiting]
      <3>1. awaited'[running] = NotWaiting /\ \A c \in Blocks \ {running} : awaited'[c] = awaited[c]
        BY <2>1, <2>4
      <3> QED BY <2>1, <2>2, <2>4, <3>1
    <2> QED BY <1>8, <2>3, <2>4, BlockFields
  <1>9. CASE Exits
    <2>1. running \in Run /\ running # NULL /\ running \in Blocks
      BY <1>9, ExitFields DEF Exits
    <2>2. \A c \in waiting_list : awaited'[c] = awaited[c]
      BY <1>1, <1>2, <1>9 DEF Exits
    <2>3. CASE ExitToZombie
      <3>1. /\ waiting_list' = waiting_list /\ Asleep' = Asleep /\ ready_list # <<>>
            /\ \A c \in Blocks \ {running, Head(ready_list)} : status'[c] = status[c]
        <4>1. ~ExitWakesParent
          BY <2>3 DEF ExitToZombie, ExitWakesParent
        <4> QED BY <1>9, <4>1, ExitFields DEF Asleep
      <3> QED BY <2>1, <2>2, <3>1, HeadOfReady
    <2>4. CASE ExitWakesParent
      <3>1. LET p == parent[running] IN
            /\ p \in waiting_list /\ awaited[p] \in {0, pid[running]} /\ status[p] = "Waiting"
            /\ waiting_list' = waiting_list \ {p} /\ Asleep' = Asleep
            /\ \A c \in Blocks \ {running, p} : status'[c] = status[c]
        <4>1. ~ExitToZombie
          BY <2>4 DEF ExitToZombie, ExitWakesParent
        <4> QED BY <1>9, <4>1, ExitFields DEF Asleep
      <3>2. pid[running] \in Nat /\ NotWaiting \notin Nat
        BY <2>1 DEF Core, TypeOK, Pids, NotWaiting
      <3> QED BY <2>1, <2>2, <3>1, <3>2
    <2> QED BY <1>9, <2>3, <2>4 DEF Exits
  <1> QED BY StepKinds, <1>3, <1>4, <1>5, <1>6, <1>7, <1>8, <1>9

\* Nothing that WaitsForOneThing speaks of changes.
LEMMA WaitsFrame ==
  ASSUME WaitsForOneThing, AllWaiting' = AllWaiting,
         \A d \in AllWaiting : sem_des'[d].pcb = sem_des[d].pcb,
         waiting_list' = waiting_list, timer_list' = timer_list, status' = status,
         \A b \in waiting_list : awaited'[b] = awaited[b]
  PROVE  WaitsForOneThing'
  <1>1. SemBlocked' = SemBlocked /\ Asleep' = Asleep
    BY DEF SemBlocked, Asleep
  <1> QED BY <1>1 DEF WaitsForOneThing

LEMMA LinkedFrame ==
  ASSUME SemTyped, Linked, Elements(sem_free') \subseteq Elements(sem_free),
         UNCHANGED <<users, waiters, sem_descriptors, sem_des, sem_des_free>>
  PROVE  Linked' /\ AllWaiting' = AllWaiting
  <1>1. semaphores_list \subseteq semaphores_list'
    BY DEF semaphores_list
  <1>2. \A s : Waiting(s)' = Waiting(s)
    BY DEF Waiting
  <1>3. \A b : Held(b)' = Held(b)
    BY DEF Held
  <1>4. HeldLinked'
    BY <1>1, <1>2, <1>3 DEF Linked, HeldLinked
  <1>5. UsedLinked'
    BY <1>2, <1>3 DEF Linked, UsedLinked
  <1> QED BY <1>2, <1>4, <1>5 DEF Linked, AllWaiting

LEMMA KernelSemStep ==
  ASSUME SemInv, KernelStep \/ (UNCHANGED vars /\ UNCHANGED <<semaphore, semopened>>)
  PROVE  SemInv' /\ waiters' = waiters
  <1>1. [Next]_vars
    BY DEF KernelStep
  <1>2. Core' /\ Core
    BY <1>1, NextCore DEF SemInv
  <1>3. UNCHANGED <<sem_free, count, users, waiters, sem_descriptors, sem_des, sem_des_free>>
    BY DEF KernelStep, SemaphoresKept, semaphore, semopened
  <1>4. last_sem_fd' \in [Blocks -> Int]
    BY DEF SemInv, SemTyped, KernelStep, SemaphoresKept, semopened
  <1>5. SemTyped'
    BY <1>3, <1>4 DEF SemInv, SemTyped
  <1>6. Linked' /\ AllWaiting' = AllWaiting
    BY <1>3, LinkedFrame DEF SemInv
  <1>7. SemBlocked' = SemBlocked
    BY <1>3, <1>6 DEF SemBlocked
  <1>8. /\ SemBlocked \subseteq waiting_list /\ Asleep \cap SemBlocked = {}
        /\ \A b \in SemBlocked : awaited[b] = NotWaiting /\ status[b] \in {"Running", "Ready"}
        /\ \A b \in waiting_list \ SemBlocked :
             status[b] = "Waiting" /\ (b \in Asleep <=> awaited[b] = NotWaiting)
        /\ \A d, e \in AllWaiting : sem_des[d].pcb = sem_des[e].pcb => d = e
    BY DEF SemInv, WaitsForOneThing
  <1>9.  /\ \A b \in waiting_list \ waiting_list' :
              b \in Asleep \/ (status[b] = "Waiting" /\ awaited[b] # NotWaiting)
         /\ \A b \in waiting_list' \ waiting_list :
              status'[b] = "Waiting" /\ (b \in Asleep' <=> awaited'[b] = NotWaiting)
         /\ \A b \in waiting_list' \cap waiting_list :
              /\ status'[b] = status[b] /\ awaited'[b] = awaited[b]
              /\ b \in Asleep' <=> b \in Asleep
    BY <1>1, <1>2, WaitingStep
  <1>10. Asleep' \subseteq waiting_list'
    BY <1>2 DEF Core, SleepersApart
  <1>11. SemBlocked \subseteq waiting_list'
    BY <1>8, <1>9
  <1>12. Asleep' \cap SemBlocked = {}
    <2> SUFFICES ASSUME NEW b \in Asleep', b \in SemBlocked PROVE FALSE
      OBVIOUS
    <2>1. b \in waiting_list' \cap waiting_list /\ b \notin Asleep
      BY <1>8, <1>11
    <2> QED BY <1>9, <2>1
  <1>13. ASSUME NEW b \in waiting_list'
         PROVE  IF b \in SemBlocked
                  THEN awaited'[b] = NotWaiting /\ status'[b] \in {"Running", "Ready"}
                ELSE status'[b] = "Waiting" /\ (b \in Asleep' <=> awaited'[b] = NotWaiting)
    <2>1. CASE b \in SemBlocked
      <3>1. b \in waiting_list' \cap waiting_list
        BY <1>8, <1>13, <2>1
      <3>2. status'[b] = status[b] /\ awaited'[b] = awaited[b]
        BY <1>9, <3>1
      <3> QED BY <1>8, <2>1, <3>2
    <2>2. CASE b \in waiting_list \ SemBlocked
      <3>1. status'[b] = status[b] /\ awaited'[b] = awaited[b] /\ (b \in Asleep' <=> b \in Asleep)
        BY <1>9, <1>13, <2>2
      <3> QED BY <1>8, <2>2, <3>1
    <2>3. CASE b \notin waiting_list
      <3>1. b \notin SemBlocked
        BY <1>8, <2>3
      <3> QED BY <1>9, <1>13, <2>3, <3>1
    <2> QED BY <2>1, <2>2, <2>3
  <1>14. WaitsForOneThing'
    BY <1>3, <1>6, <1>7, <1>8, <1>10, <1>11, <1>12, <1>13 DEF WaitsForOneThing
  <1> QED BY <1>2, <1>3, <1>5, <1>6, <1>14 DEF SemInv

-----------------------------------------------------------------------------
(* Calls that leave the process table alone but for their answer *)

LEMMA SemReturnsCore ==
  ASSUME Core, CallsSem, NEW value \in Int, ReturnsSem(value)
  PROVE  /\ Core' /\ running # NULL /\ running \in Blocks
         /\ waiting_list' = waiting_list /\ timer_list' = timer_list /\ status' = status
         /\ \A b \in waiting_list : awaited'[b] = awaited[b]
  <1>1. running # NULL /\ awaited' = [awaited EXCEPT ![running] = NotWaiting] /\ NotWaiting \in Waits
    BY DEF CallsSem, CallsOther, Calls, Waits
  <1>2. running \in Blocks /\ running \notin waiting_list
    BY <1>1, RunningIsLive
  <1>3. /\ UNCHANGED <<pools, table, running, init_pcb, queues, abandoned>>
        /\ reported' \in Reports /\ mode' \in Modes
    BY <1>2 DEF ReturnsSem, Answers, processes, queues, Reports, Modes, Core, TypeOK
  <1>4. Core'
    BY <1>1, <1>3, CoreFrame
  <1>5. \A b \in waiting_list : awaited'[b] = awaited[b]
    BY <1>1, <1>2 DEF Core, TypeOK
  <1> QED BY <1>1, <1>2, <1>3, <1>4, <1>5 DEF table, queues

\* A call that fails, or only takes or adds a token
LEMMA CountStep ==
  ASSUME SemInv, CallsSem, NEW value \in Int, ReturnsSem(value),
         count' \in [Semaphores -> Int], sem_free' = sem_free, UNCHANGED semopened
  PROVE  SemInv' /\ waiters' = waiters
  <1>1. UNCHANGED <<sem_free, users, waiters, sem_descriptors, last_sem_fd, sem_des, sem_des_free>>
    BY DEF semopened
  <1>2. SemTyped'
    BY <1>1 DEF SemInv, SemTyped
  <1>3. Linked' /\ AllWaiting' = AllWaiting
    BY <1>1, LinkedFrame DEF SemInv
  <1>4. Core' /\ WaitsForOneThing'
    BY <1>1, <1>3, SemReturnsCore, WaitsFrame DEF SemInv
  <1> QED BY <1>1, <1>2, <1>3, <1>4 DEF SemInv

LEMMA SemFailsStep ==
  ASSUME SemInv, CallsSem, NEW code \in Int, FailsSem(code)
  PROVE  SemInv' /\ waiters' = waiters
  <1>1. ReturnsSem(code) /\ count' = count /\ sem_free' = sem_free /\ UNCHANGED semopened
    BY DEF FailsSem, semaphore
  <1>2. count' \in [Semaphores -> Int]
    BY <1>1 DEF SemInv, SemTyped
  <1> QED BY <1>1, <1>2, CountStep

LEMMA FreshDescriptor ==
  ASSUME Linked, NEW d \in sem_des_free
  PROVE  /\ \A b \in Blocks : d \notin Held(b)
         /\ \A s \in Semaphores : d \notin users[s] /\ d \notin Waiting(s)
         /\ d \notin AllWaiting
  <1>1. \A b \in Blocks : d \notin Held(b)
    BY DEF Linked, HeldLinked
  <1>2. \A s \in Semaphores : d \notin users[s] /\ d \notin Waiting(s)
    BY <1>1 DEF Linked, UsedLinked
  <1> QED BY <1>1, <1>2 DEF AllWaiting

\* The lists after a step, and the invariant in terms of them
HeldNext(b) == Elements(sem_descriptors'[b])
WaitingNext(s) == Elements(waiters'[s])

LEMMA LinkedNext ==
  ASSUME \A b \in Blocks : Distinct(sem_descriptors'[b]),
         \A s \in Semaphores : Distinct(waiters'[s]) /\ users'[s] \cap WaitingNext(s) = {},
         \A b \in Blocks : \A d \in HeldNext(b) :
           LET s == sem_des'[d].semaphore IN
           /\ sem_des'[d].pcb = b /\ d \notin sem_des_free'
           /\ s \in Semaphores /\ d \in users'[s] \cup WaitingNext(s)
           /\ d \in users'[s] => s \in semaphores_list',
         \A s \in Semaphores : \A d \in users'[s] \cup WaitingNext(s) :
           /\ sem_des'[d].semaphore = s
           /\ sem_des'[d].pcb \in Blocks /\ d \in HeldNext(sem_des'[d].pcb)
  PROVE  Linked'
  BY DEF Linked, HeldLinked, UsedLinked, Held, HeldNext, Waiting, WaitingNext

\* running opens s, which is or has just been taken from its pool.
LEMMA OpenLinked ==
  ASSUME SemTyped, Linked, running \in Blocks, NEW s \in Semaphores, NEW d \in sem_des_free,
         sem_des_free' = sem_des_free \ {d},
         sem_des' = [sem_des EXCEPT ![d] =
                       [pcb |-> running, semaphore |-> s, fd |-> last_sem_fd[running]]],
         sem_descriptors' = [sem_descriptors EXCEPT ![running] = Append(@, d)],
         users' = [users EXCEPT ![s] = users[s] \cup {d}],
         last_sem_fd' = [last_sem_fd EXCEPT ![running] = @ + 1],
         waiters' = waiters, count' \in [Semaphores -> Int],
         sem_free' \in Seq(Semaphores), Distinct(sem_free'),
         Elements(sem_free') \subseteq Elements(sem_free), s \notin Elements(sem_free')
  PROVE  /\ SemTyped' /\ Linked' /\ AllWaiting' = AllWaiting
         /\ \A e \in AllWaiting : sem_des'[e].pcb = sem_des[e].pcb
  <1> DEFINE new == [pcb |-> running, semaphore |-> s, fd |-> last_sem_fd[running]]
  <1>1. d \in SemDescriptors /\ last_sem_fd[running] \in Int
    BY DEF SemTyped
  <1>2. new \in SemDesRecords /\ new.pcb = running /\ new.semaphore = s
    BY <1>1 DEF SemDesRecords
  <1>3. /\ sem_des' \in [SemDescriptors -> SemDesRecords] /\ sem_des'[d] = new
        /\ \A e \in SemDescriptors \ {d} : sem_des'[e] = sem_des[e]
    BY <1>1, <1>2 DEF SemTyped
  <1> HIDE DEF new
  <1>4. /\ users' \in [Semaphores -> SUBSET SemDescriptors] /\ users'[s] = users[s] \cup {d}
        /\ \A q \in Semaphores \ {s} : users'[q] = users[q]
    BY <1>1 DEF SemTyped
  <1>5. /\ sem_descriptors[running] \in Seq(SemDescriptors)
        /\ Distinct(sem_descriptors[running]) /\ d \notin Elements(sem_descriptors[running])
    BY FreshDescriptor DEF SemTyped, Linked, Held
  <1>6. /\ Append(sem_descriptors[running], d) \in Seq(SemDescriptors)
        /\ Distinct(Append(sem_descriptors[running], d))
        /\ Elements(Append(sem_descriptors[running], d)) = Held(running) \cup {d}
    BY <1>1, <1>5, AppendElements DEF Held
  <1>7. /\ sem_descriptors' \in [Blocks -> Seq(SemDescriptors)]
        /\ \A b \in Blocks : Distinct(sem_descriptors'[b])
        /\ HeldNext(running) = Held(running) \cup {d}
        /\ \A b \in Blocks \ {running} : HeldNext(b) = Held(b)
    <2>1. /\ sem_descriptors' \in [Blocks -> Seq(SemDescriptors)]
          /\ sem_descriptors'[running] = Append(sem_descriptors[running], d)
          /\ \A b \in Blocks \ {running} : sem_descriptors'[b] = sem_descriptors[b]
      BY <1>6 DEF SemTyped
    <2> QED BY <1>6, <2>1 DEF Held, HeldNext, Linked
  <1>8. SemTyped'
    <2>1. last_sem_fd' \in [Blocks -> Int]
      BY <1>1 DEF SemTyped
    <2> QED BY <1>3, <1>4, <1>7, <2>1 DEF SemTyped
  <1>9. (\A q : WaitingNext(q) = Waiting(q)) /\ AllWaiting' = AllWaiting
    BY DEF Waiting, AllWaiting, WaitingNext
  <1>10. semaphores_list \subseteq semaphores_list' /\ s \in semaphores_list'
    BY DEF semaphores_list
  <1>11. \A b \in Blocks : \A e \in Held(b) : e # d /\ e \in SemDescriptors
    BY FreshDescriptor, ElementsType DEF SemTyped, Held
  <1>12. ASSUME NEW b \in Blocks, NEW e \in HeldNext(b)
         PROVE  LET q == sem_des'[e].semaphore IN
                /\ sem_des'[e].pcb = b /\ e \notin sem_des_free'
                /\ q \in Semaphores /\ e \in users'[q] \cup WaitingNext(q)
                /\ e \in users'[q] => q \in semaphores_list'
    <2>1. CASE e = d
      <3>1. b = running
        BY <1>7, <1>11, <2>1
      <3> QED BY <1>2, <1>3, <1>4, <1>10, <2>1, <3>1
    <2>2. CASE e # d
      <3>1. e \in Held(b) /\ e \in SemDescriptors /\ sem_des'[e] = sem_des[e]
        BY <1>3, <1>7, <1>11, <2>2
      <3>2. LET q == sem_des[e].semaphore IN
              /\ sem_des[e].pcb = b /\ e \notin sem_des_free
              /\ q \in Semaphores /\ e \in users[q] \cup Waiting(q)
              /\ e \in users[q] => q \in semaphores_list
        BY <3>1 DEF Linked, HeldLinked
      <3> QED BY <1>4, <1>9, <1>10, <2>2, <3>1, <3>2
    <2> QED BY <2>1, <2>2
  <1>13. ASSUME NEW q \in Semaphores, NEW e \in users'[q] \cup WaitingNext(q)
         PROVE  /\ sem_des'[e].semaphore = q
                /\ sem_des'[e].pcb \in Blocks /\ e \in HeldNext(sem_des'[e].pcb)
    <2>1. CASE e = d
      <3>1. q = s
        BY <1>4, <1>9, <2>1, FreshDescriptor
      <3>2. d \in HeldNext(running) /\ sem_des'[d].pcb = running
        BY <1>2, <1>3, <1>7
      <3> QED BY <1>2, <1>3, <2>1, <3>1, <3>2
    <2>2. CASE e # d
      <3>1. e \in users[q] \cup Waiting(q)
        BY <1>4, <1>9, <2>2
      <3>2. sem_des[e].semaphore = q /\ sem_des[e].pcb \in Blocks /\ e \in Held(sem_des[e].pcb)
        BY <3>1 DEF Linked, UsedLinked
      <3>3. sem_des'[e] = sem_des[e]
        BY <1>3, <1>11, <2>2, <3>2
      <3>4. \A b \in Blocks : Held(b) \subseteq HeldNext(b)
        BY <1>7
      <3>5. e \in HeldNext(sem_des'[e].pcb)
        BY <3>2, <3>3, <3>4
      <3> QED BY <3>2, <3>3, <3>5
    <2> QED BY <2>1, <2>2
  <1>14. \A q \in Semaphores : Distinct(waiters'[q]) /\ users'[q] \cap WaitingNext(q) = {}
    BY <1>4, <1>9, FreshDescriptor DEF Linked
  <1>15. \A e \in AllWaiting : sem_des'[e].pcb = sem_des[e].pcb
    <2> SUFFICES ASSUME NEW e \in AllWaiting PROVE sem_des'[e].pcb = sem_des[e].pcb
      OBVIOUS
    <2>1. e # d /\ e \in SemDescriptors
      <3>1. PICK q \in Semaphores : e \in Elements(waiters[q])
        BY DEF AllWaiting, Waiting
      <3>2. waiters[q] \in Seq(SemDescriptors)
        BY DEF SemTyped
      <3> QED BY <3>1, <3>2, FreshDescriptor, ElementsType
    <2> QED BY <1>3, <2>1
  <1>16. Linked'
    BY <1>7, <1>12, <1>13, <1>14, LinkedNext
  <1> QED BY <1>8, <1>9, <1>15, <1>16

LEMMA OpenDescriptorStep ==
  ASSUME SemInv, CallsSem, NEW s \in Semaphores, OpenSemDescriptor(s, users[s]),
         waiters' = waiters, count' \in [Semaphores -> Int],
         sem_free' \in Seq(Semaphores), Distinct(sem_free'),
         Elements(sem_free') \subseteq Elements(sem_free), s \notin Elements(sem_free')
  PROVE  SemInv'
  <1>1. running # NULL /\ running \in Blocks
    BY RunningIsLive DEF SemInv, CallsSem, CallsOther, Calls
  <1>2. CASE /\ ReturnsSem(DSOS_ESEMAPHOREOPEN)
             /\ users' = [users EXCEPT ![s] = users[s]]
             /\ UNCHANGED <<sem_descriptors, last_sem_fd, sem_des, sem_des_free>>
    <2>1. users' = users
      BY <1>2 DEF SemInv, SemTyped
    <2>2. SemTyped'
      BY <1>2, <2>1 DEF SemInv, SemTyped
    <2>3. Linked' /\ AllWaiting' = AllWaiting
      BY <1>2, <2>1, LinkedFrame DEF SemInv
    <2>4. DSOS_ESEMAPHOREOPEN \in Int
      BY DEF DSOS_ESEMAPHOREOPEN
    <2>5. Core' /\ WaitsForOneThing'
      BY <1>2, <2>3, <2>4, SemReturnsCore, WaitsFrame DEF SemInv
    <2> QED BY <2>2, <2>3, <2>5 DEF SemInv
  <1>3. ASSUME NEW d \in sem_des_free,
               sem_des_free' = sem_des_free \ {d},
               sem_des' = [sem_des EXCEPT ![d] =
                             [pcb |-> running, semaphore |-> s, fd |-> last_sem_fd[running]]],
               sem_descriptors' = [sem_descriptors EXCEPT ![running] = Append(@, d)],
               users' = [users EXCEPT ![s] = users[s] \cup {d}],
               last_sem_fd' = [last_sem_fd EXCEPT ![running] = @ + 1],
               ReturnsSem(last_sem_fd[running])
        PROVE  SemInv'
    <2>1. /\ SemTyped' /\ Linked' /\ AllWaiting' = AllWaiting
          /\ \A e \in AllWaiting : sem_des'[e].pcb = sem_des[e].pcb
      BY <1>1, <1>3, OpenLinked DEF SemInv
    <2>2. last_sem_fd[running] \in Int
      BY <1>1 DEF SemInv, SemTyped
    <2>3. Core' /\ WaitsForOneThing'
      BY <1>3, <2>1, <2>2, SemReturnsCore, WaitsFrame DEF SemInv
    <2> QED BY <2>1, <2>3 DEF SemInv
  <1> QED BY <1>2, <1>3 DEF OpenSemDescriptor

LEMMA OpenKeeps ==
  ASSUME SemInv, NEW i, NEW flags, NEW c \in Int, internal_semOpen(i, flags, c)
  PROVE  SemInv' /\ waiters' = waiters
  <1> DEFINE s == SemaphoreList_byId(i)
  <1>1. CallsSem /\ c \in Int
    BY DEF internal_semOpen
  <1>2. s = NULL \/ (s \in Semaphores /\ s \notin Elements(sem_free))
    BY DEF SemaphoreList_byId, semaphores_list
  <1>3. CASE FailsSem(DSOS_ESEMAPHOREOPEN)
    <2>1. DSOS_ESEMAPHOREOPEN \in Int
      BY DEF DSOS_ESEMAPHOREOPEN
    <2> QED BY <1>1, <1>3, <2>1, SemFailsStep
  <1>4. CASE s # NULL /\ OpenSemDescriptor(s, users[s]) /\ UNCHANGED <<semaphore, waiters>>
    <2>1. /\ s \in Semaphores /\ s \notin Elements(sem_free') /\ waiters' = waiters
          /\ sem_free' = sem_free /\ count' = count
      BY <1>2, <1>4 DEF semaphore
    <2>2. /\ count' \in [Semaphores -> Int] /\ sem_free' \in Seq(Semaphores)
          /\ Distinct(sem_free')
      BY <2>1 DEF SemInv, SemTyped
    <2> HIDE DEF s
    <2> QED BY <1>1, <1>4, <2>1, <2>2, OpenDescriptorStep
  <1>5. CASE /\ sem_free # <<>>
             /\ Semaphore_alloc(i, c) /\ OpenSemDescriptor(Head(sem_free), {})
             /\ UNCHANGED waiters
    <2> DEFINE new == Head(sem_free)
    <2>1. sem_free \in Seq(Semaphores) /\ Distinct(sem_free) /\ sem_free # <<>>
      BY <1>5 DEF SemInv, SemTyped
    <2>2. /\ Tail(sem_free) \in Seq(Semaphores) /\ new \in Elements(sem_free)
          /\ Elements(Tail(sem_free)) = Elements(sem_free) \ {new}
          /\ Distinct(Tail(sem_free))
      BY <2>1, TailElements
    <2>3. new \in Semaphores /\ users[new] = {}
      <3>1. SemDescriptorsAgree
        BY LinkedAgrees DEF SemInv
      <3> QED BY <2>1, <2>2, <3>1, ElementsType DEF SemDescriptorsAgree
    <2>4. /\ sem_free' = Tail(sem_free) /\ count' = [count EXCEPT ![new] = c]
          /\ OpenSemDescriptor(new, users[new])
      BY <1>5, <2>3 DEF Semaphore_alloc
    <2> HIDE DEF new
    <2>5. count' \in [Semaphores -> Int]
      BY <1>1, <2>3, <2>4 DEF SemInv, SemTyped
    <2> QED BY <1>1, <1>5, <2>2, <2>3, <2>4, <2>5, OpenDescriptorStep
  <1>6. ~SemOpenRefused(i, s, flags) /\ s = NULL => sem_free # <<>>
    BY DEF SemOpenRefused
  <1> HIDE DEF s
  <1> QED BY <1>3, <1>4, <1>5, <1>6 DEF internal_semOpen, s

LEMMA CloseLinked ==
  ASSUME SemInv, running # NULL, NEW d \in Held(running), NEW s, s = sem_des[d].semaphore,
         sem_descriptors' = [sem_descriptors EXCEPT ![running] = DetachAt(@, IndexIn(@, d))],
         users' = [users EXCEPT ![s] = @ \ {d}],
         sem_des_free' = sem_des_free \cup {d},
         last_sem_fd' = [last_sem_fd EXCEPT ![running] = @ - 1],
         sem_des' = [sem_des EXCEPT ![d] = Unset],
         IF NobodyUses(s, d) THEN Semaphore_free(s) ELSE UNCHANGED semaphore,
         waiters' = waiters
  PROVE  /\ SemTyped' /\ Linked' /\ AllWaiting' = AllWaiting
         /\ \A e \in AllWaiting : sem_des'[e].pcb = sem_des[e].pcb
  <1>0. SemTyped /\ Linked
    BY DEF SemInv
  <1>1. /\ running \in Blocks /\ d \in SemDescriptors /\ sem_des[d].pcb = running
        /\ d \notin AllWaiting /\ s \in Semaphores /\ d \in users[s] /\ s \in semaphores_list
    BY RunningUses
  <1>2. /\ sem_des' \in [SemDescriptors -> SemDesRecords]
        /\ \A e \in SemDescriptors \ {d} : sem_des'[e] = sem_des[e]
    BY <1>0, <1>1, SemDesFields DEF SemTyped
  <1>3. /\ users' \in [Semaphores -> SUBSET SemDescriptors] /\ users'[s] = users[s] \ {d}
        /\ \A q \in Semaphores \ {s} : users'[q] = users[q]
    BY <1>0, <1>1 DEF SemTyped
  <1> DEFINE mine == sem_descriptors[running]
             k == IndexIn(mine, d)
  <1>4. mine \in Seq(SemDescriptors) /\ Distinct(mine) /\ Elements(mine) = Held(running)
    BY <1>0, <1>1 DEF SemTyped, Linked, Held
  <1>5. k \in 1 .. Len(mine) /\ mine[k] = d
    BY <1>4, IndexInList
  <1> HIDE DEF mine, k
  <1>6. /\ DetachAt(mine, k) \in Seq(SemDescriptors) /\ Distinct(DetachAt(mine, k))
        /\ Elements(DetachAt(mine, k)) = Held(running) \ {d}
    BY <1>4, <1>5, DetachAtSeq, DetachAtElements, DetachAtDistinct
  <1>7. /\ sem_descriptors' \in [Blocks -> Seq(SemDescriptors)]
        /\ \A b \in Blocks : Distinct(sem_descriptors'[b])
        /\ HeldNext(running) = Held(running) \ {d}
        /\ \A b \in Blocks \ {running} : HeldNext(b) = Held(b)
    <2>1. sem_descriptors' = [sem_descriptors EXCEPT ![running] = DetachAt(mine, k)]
      BY DEF mine, k
    <2>2. /\ sem_descriptors' \in [Blocks -> Seq(SemDescriptors)]
          /\ sem_descriptors'[running] = DetachAt(mine, k)
          /\ \A b \in Blocks \ {running} : sem_descriptors'[b] = sem_descriptors[b]
      BY <1>0, <1>1, <1>6, <2>1 DEF SemTyped
    <2> QED BY <1>0, <1>6, <2>2 DEF Held, HeldNext, Linked
  <1>8. /\ sem_free' \in Seq(Semaphores) /\ Distinct(sem_free') /\ count' \in [Semaphores -> Int]
        /\ Elements(sem_free') \subseteq Elements(sem_free) \cup {s}
        /\ users'[s] # {} => Elements(sem_free') = Elements(sem_free)
    <2>1. CASE NobodyUses(s, d)
      <3>1. sem_free' = <<s>> \o sem_free /\ count' = [count EXCEPT ![s] = 0]
        BY <2>1 DEF Semaphore_free
      <3>2. <<s>> \in Seq(Semaphores) /\ Elements(<<s>>) = {s} /\ Distinct(<<s>>)
        BY <1>1, SingletonElements
      <3>3. sem_free \in Seq(Semaphores) /\ Distinct(sem_free) /\ s \notin Elements(sem_free)
        BY <1>0, <1>1 DEF SemTyped, semaphores_list
      <3>4. /\ sem_free' \in Seq(Semaphores) /\ Elements(sem_free') = {s} \cup Elements(sem_free)
            /\ Distinct(sem_free')
        <4> DEFINE t == <<s>>
        <4>1. t \in Seq(Semaphores) /\ Elements(t) = {s} /\ Distinct(t) /\ sem_free' = t \o sem_free
          BY <3>1, <3>2
        <4> HIDE DEF t
        <4>2. Elements(t) \cap Elements(sem_free) = {}
          BY <3>3, <4>1
        <4> QED BY <3>3, <4>1, <4>2, ConcatElements
      <3>5. count' \in [Semaphores -> Int]
        <4>1. count \in [Semaphores -> Int] /\ count' = [count EXCEPT ![s] = 0]
          BY <1>0, <3>1 DEF SemTyped
        <4> QED BY <4>1, CountSet
      <3>6. users'[s] = {}
        BY <1>3, <2>1 DEF NobodyUses
      <3> QED BY <3>4, <3>5, <3>6
    <2>2. CASE ~NobodyUses(s, d)
      BY <1>0, <2>2 DEF semaphore, SemTyped
    <2> QED BY <2>1, <2>2
  <1>9. SemTyped'
    <2>1. last_sem_fd' \in [Blocks -> Int]
      BY <1>0, <1>1 DEF SemTyped
    <2>2. waiters' \in [Semaphores -> Seq(SemDescriptors)] /\ sem_des_free' \subseteq SemDescriptors
      BY <1>0, <1>1 DEF SemTyped
    <2> QED BY <1>2, <1>3, <1>7, <1>8, <2>1, <2>2 DEF SemTyped
  <1>10. (\A q : WaitingNext(q) = Waiting(q)) /\ AllWaiting' = AllWaiting
    BY DEF Waiting, AllWaiting, WaitingNext
  <1>11. \A b \in Blocks : \A e \in HeldNext(b) : e \in Held(b) /\ e # d /\ e \in SemDescriptors
    <2> SUFFICES ASSUME NEW b \in Blocks, NEW e \in HeldNext(b)
                 PROVE  e \in Held(b) /\ e # d /\ e \in SemDescriptors
      OBVIOUS
    <2>1. e \in Held(b)
      BY <1>7
    <2>2. e \in SemDescriptors /\ sem_des[e].pcb = b
      BY <1>0, <2>1, ElementsType DEF SemTyped, Held, Linked, HeldLinked
    <2> QED BY <1>1, <1>7, <2>1, <2>2
  <1>12. ASSUME NEW b \in Blocks, NEW e \in HeldNext(b)
         PROVE  LET q == sem_des'[e].semaphore IN
                /\ sem_des'[e].pcb = b /\ e \notin sem_des_free'
                /\ q \in Semaphores /\ e \in users'[q] \cup WaitingNext(q)
                /\ e \in users'[q] => q \in semaphores_list'
    <2>1. e \in Held(b) /\ e # d /\ sem_des'[e] = sem_des[e]
      BY <1>2, <1>11, <1>12
    <2> DEFINE q == sem_des[e].semaphore
    <2>2. /\ sem_des[e].pcb = b /\ e \notin sem_des_free
          /\ q \in Semaphores /\ e \in users[q] \cup Waiting(q)
          /\ e \in users[q] => q \in semaphores_list
      BY <1>0, <2>1 DEF Linked, HeldLinked
    <2> HIDE DEF q
    <2>3. (e \in users'[q] <=> e \in users[q])
      BY <1>3, <2>1, <2>2
    <2>4. e \in users'[q] => q \in semaphores_list'
      <3>1. CASE q = s
        BY <1>8, <2>2, <2>3, <3>1 DEF semaphores_list
      <3>2. CASE q # s
        BY <1>8, <2>2, <2>3, <3>2 DEF semaphores_list
      <3> QED BY <3>1, <3>2
    <2>5. sem_des'[e].semaphore = q /\ e \notin sem_des_free'
      BY <2>1, <2>2 DEF q
    <2> QED BY <1>10, <2>1, <2>2, <2>3, <2>4, <2>5
  <1>13. ASSUME NEW q \in Semaphores, NEW e \in users'[q] \cup WaitingNext(q)
         PROVE  /\ sem_des'[e].semaphore = q
                /\ sem_des'[e].pcb \in Blocks /\ e \in HeldNext(sem_des'[e].pcb)
    <2>1. e \in users[q] \cup Waiting(q)
      BY <1>3, <1>10, <1>13
    <2>2. sem_des[e].semaphore = q /\ sem_des[e].pcb \in Blocks /\ e \in Held(sem_des[e].pcb)
      BY <1>0, <2>1 DEF Linked, UsedLinked
    <2>3. e # d
      <3>1. e = d => q = s /\ e \notin users'[q] /\ e \notin Waiting(q)
        BY <1>1, <1>3, <2>2 DEF AllWaiting
      <3> QED BY <1>10, <1>13, <3>1
    <2>4. e \in SemDescriptors
      BY <1>0, <2>2, ElementsType DEF SemTyped, Held
    <2>5. sem_des'[e] = sem_des[e]
      BY <1>2, <2>3, <2>4
    <2>6. e \in HeldNext(sem_des[e].pcb)
      BY <1>7, <2>2, <2>3
    <2> QED BY <2>2, <2>5, <2>6
  <1>14. \A q \in Semaphores : Distinct(waiters'[q]) /\ users'[q] \cap WaitingNext(q) = {}
    BY <1>0, <1>3, <1>10 DEF Linked
  <1>15. Linked'
    BY <1>7, <1>12, <1>13, <1>14, LinkedNext
  <1>16. ASSUME NEW e \in AllWaiting PROVE sem_des'[e].pcb = sem_des[e].pcb
    <2>1. PICK q \in Semaphores : e \in Elements(waiters[q])
      BY DEF AllWaiting, Waiting
    <2>2. waiters[q] \in Seq(SemDescriptors)
      BY <1>0 DEF SemTyped
    <2>3. e \in SemDescriptors /\ e # d
      BY <1>1, <2>1, <2>2, ElementsType
    <2> QED BY <1>2, <2>3
  <1> QED BY <1>9, <1>10, <1>15, <1>16

LEMMA CloseKeeps ==
  ASSUME SemInv, NEW fd, internal_semClose(fd)
  PROVE  SemInv' /\ waiters' = waiters
  <1> DEFINE d == SemDescriptorList_byFd(fd)
             s == sem_des[d].semaphore
  <1>1. CallsSem /\ running # NULL /\ running \in Blocks
    BY RunningIsLive DEF internal_semClose, CallsSem, CallsOther, Calls, SemInv
  <1>2. d = NULL \/ d \in Held(running)
    BY <1>1, FoundDescriptor DEF SemInv
  <1>3. CASE FailsSem(DSOS_ESEMAPHORECLOSE)
    <2>1. DSOS_ESEMAPHORECLOSE \in Int
      BY DEF DSOS_ESEMAPHORECLOSE
    <2> QED BY <1>1, <1>3, <2>1, SemFailsStep
  <1>4. CASE /\ d # NULL
             /\ sem_descriptors' = [sem_descriptors EXCEPT ![running] = DetachAt(@, IndexIn(@, d))]
             /\ users' = [users EXCEPT ![s] = @ \ {d}]
             /\ sem_des_free' = sem_des_free \cup {d}
             /\ last_sem_fd' = [last_sem_fd EXCEPT ![running] = @ - 1]
             /\ sem_des' = [sem_des EXCEPT ![d] = Unset]
             /\ IF NobodyUses(s, d) THEN Semaphore_free(s) ELSE UNCHANGED semaphore
             /\ ReturnsSem(0)
             /\ UNCHANGED waiters
    <2> HIDE DEF d
    <2>1. /\ SemTyped' /\ Linked' /\ AllWaiting' = AllWaiting
          /\ \A e \in AllWaiting : sem_des'[e].pcb = sem_des[e].pcb
      BY <1>1, <1>2, <1>4, CloseLinked
    <2>2. Core' /\ WaitsForOneThing'
      BY <1>1, <1>4, <2>1, SemReturnsCore, WaitsFrame DEF SemInv
    <2> QED BY <1>4, <2>1, <2>2 DEF SemInv
  <1> QED BY <1>3, <1>4 DEF internal_semClose

-----------------------------------------------------------------------------
(* semWait and semPost move a process and its descriptor *)

\* Processes move between running, the ready list and the waiting list, with the
\* status they have.
LEMMA MovedCore ==
  ASSUME Core, CallsSem, UNCHANGED processes, reported' = NoReport, mode' \in Modes,
         running' \in Blocks, waiting_list' \subseteq Blocks,
         ready_list' \in Seq(Blocks), Distinct(ready_list'),
         running' \notin Elements(ready_list'),
         waiting_list' \cap ({running'} \cup Elements(ready_list')) = {},
         {running'} \cup Elements(ready_list') \cup waiting_list'
           = {running} \cup Elements(ready_list) \cup waiting_list,
         Asleep \subseteq waiting_list',
         \A b \in {running'} \cup Elements(ready_list') : status[b] \in {"Running", "Ready"}
  PROVE  Core'
  <1> USE DEF processes, pools, table
  <1>1. Placed /\ Distinct(ready_list) /\ Distinct(pcb_free)
    BY PlacementParts DEF Core
  <1>2. /\ running # NULL /\ awaited' = [awaited EXCEPT ![running] = NotWaiting]
        /\ NotWaiting \in Waits
    BY DEF CallsSem, CallsOther, Calls, Waits
  <1>3. running \in Blocks /\ running \notin Asleep /\ Run = {running} /\ Run' = {running'}
    BY <1>2, RunningIsLive DEF Run, Blocks
  <1>4. /\ awaited' \in [Blocks -> Waits]
        /\ \A b \in Asleep : awaited'[b] = awaited[b]
    BY <1>2, <1>3, SleepersAreBlocks DEF Core, TypeOK, Waits
  <1>5. Free' = Free /\ Asleep' = Asleep
    BY DEF Free, Asleep
  <1>6. TypeOK'
    BY <1>4 DEF Core, TypeOK, Waits, Modes
  <1>7. Placement'
    <2>1. Placed'
      BY <1>1, <1>3, <1>5 DEF Placed, Partition
    <2> QED BY <1>1, <2>1, PlacementParts
  <1>8. StatusFits'
    <2>1. \A b \in waiting_list' : status[b] \in {"Waiting", "Running", "Ready"}
      BY <1>3 DEF Core, StatusFits
    <2> QED BY <1>3, <1>5, <2>1 DEF Core, StatusFits
  <1>9. SleepersApart'
    BY <1>4, <1>5 DEF Core, SleepersApart
  <1> QED BY <1>6, <1>7, <1>8, <1>9, KidsFrame DEF Core

\* A descriptor moves between the two lists of s, which is alive.
LEMMA MovedLinked ==
  ASSUME SemTyped, Linked, NEW s \in semaphores_list,
         UNCHANGED <<semaphore, sem_descriptors, last_sem_fd, sem_des, sem_des_free>>,
         users' \in [Semaphores -> SUBSET SemDescriptors],
         waiters' \in [Semaphores -> Seq(SemDescriptors)],
         \A q \in Semaphores \ {s} : users'[q] = users[q] /\ waiters'[q] = waiters[q],
         users'[s] \cup WaitingNext(s) = users[s] \cup Waiting(s),
         users'[s] \cap WaitingNext(s) = {}, Distinct(waiters'[s])
  PROVE  SemTyped' /\ Linked'
  <1>1. SemTyped'
    BY DEF SemTyped, semaphore
  <1>2. semaphores_list' = semaphores_list /\ s \in Semaphores
    BY DEF semaphores_list, semaphore
  <1>3. \A q \in Semaphores \ {s} : WaitingNext(q) = Waiting(q)
    BY DEF WaitingNext, Waiting
  <1>4. \A b : HeldNext(b) = Held(b)
    BY DEF HeldNext, Held
  <1>5. \A q \in Semaphores : Distinct(waiters'[q]) /\ users'[q] \cap WaitingNext(q) = {}
    BY <1>3 DEF Linked
  <1>6. \A q \in Semaphores : users'[q] \cup WaitingNext(q) = users[q] \cup Waiting(q)
    BY <1>3
  <1>7. ASSUME NEW b \in Blocks, NEW e \in HeldNext(b)
        PROVE  LET q == sem_des'[e].semaphore IN
               /\ sem_des'[e].pcb = b /\ e \notin sem_des_free'
               /\ q \in Semaphores /\ e \in users'[q] \cup WaitingNext(q)
               /\ e \in users'[q] => q \in semaphores_list'
    <2> DEFINE q == sem_des[e].semaphore
    <2>1. /\ sem_des[e].pcb = b /\ e \notin sem_des_free
          /\ q \in Semaphores /\ e \in users[q] \cup Waiting(q)
          /\ e \in users[q] => q \in semaphores_list
      BY <1>4, <1>7 DEF Linked, HeldLinked
    <2>2. sem_des'[e].semaphore = q /\ sem_des'[e].pcb = sem_des[e].pcb
      OBVIOUS
    <2> HIDE DEF q
    <2>3. e \in users'[q] => q \in semaphores_list
      BY <2>1
    <2> QED BY <1>2, <1>6, <2>1, <2>2, <2>3
  <1>8. ASSUME NEW q \in Semaphores, NEW e \in users'[q] \cup WaitingNext(q)
        PROVE  /\ sem_des'[e].semaphore = q
               /\ sem_des'[e].pcb \in Blocks /\ e \in HeldNext(sem_des'[e].pcb)
    BY <1>4, <1>6, <1>8 DEF Linked, UsedLinked
  <1>9. \A b \in Blocks : Distinct(sem_descriptors'[b])
    BY DEF Linked
  <1> QED BY <1>1, <1>5, <1>7, <1>8, <1>9, LinkedNext

\* What TokensHandedOver says of a step that posts and of one that does not
Delivered(s) ==
  /\ waiters'[s] = Tail(waiters[s])
  /\ waiting_list \ waiting_list' = {sem_des[Head(waiters[s])].pcb}
  /\ count' = count

Posted(s) ==
  IF waiters[s] # <<>> /\ count[s] >= 0
    THEN Delivered(s)
  ELSE waiters'[s] = waiters[s] /\ count'[s] = count[s] + 1

Joined(s) ==
  waiters'[s] = waiters[s] \/
  \E d \in users[s] :
    /\ waiters'[s] = Append(waiters[s], d)
    /\ sem_des[d].pcb = running
    /\ waiting_list' \ waiting_list = {running}
    /\ count[s] <= 0

Handed == \A s \in Semaphores : IF Posts(s) THEN Posted(s) ELSE Joined(s)

AllJoined == \A s \in Semaphores : Joined(s)

LEMMA BlocksKeeps ==
  ASSUME SemInv, CallsSem, NEW d \in Held(running), NEW s, s = sem_des[d].semaphore,
         ~Available(s), ready_list # <<>>, SemBlocks(s, d)
  PROVE  SemInv' /\ AllJoined /\ SemBlocked' = SemBlocked \cup {running}
  <1>0. Core /\ SemTyped /\ Linked /\ WaitsForOneThing
    BY DEF SemInv
  <1>1. running # NULL /\ awaited' = [awaited EXCEPT ![running] = NotWaiting]
    BY DEF CallsSem, CallsOther, Calls
  <1>2. /\ running \in Blocks /\ running \notin waiting_list
        /\ running \notin SemBlocked /\ running \notin Asleep
        /\ d \in SemDescriptors /\ sem_des[d].pcb = running
        /\ d \notin AllWaiting /\ s \in Semaphores /\ d \in users[s] /\ s \in semaphores_list
    BY <1>1, RunningUses
  <1>3. /\ users' = [users EXCEPT ![s] = users[s] \ {d}]
        /\ waiters' = [waiters EXCEPT ![s] = Append(waiters[s], d)]
        /\ waiting_list' = waiting_list \cup {running}
        /\ ready_list' = ReadyListRest /\ running' = Head(ready_list)
        /\ mode' \in Modes /\ reported' = NoReport
        /\ UNCHANGED <<processes, semaphore, sem_descriptors, last_sem_fd, sem_des, sem_des_free>>
    BY DEF SemBlocks, NoLongerUser, Resume, Modes, Faults
  <1>4. /\ waiters[s] \in Seq(SemDescriptors) /\ Distinct(waiters[s]) /\ d \notin Elements(waiters[s])
    BY <1>0, <1>2 DEF SemTyped, Linked, AllWaiting, Waiting
  <1>5. /\ Append(waiters[s], d) \in Seq(SemDescriptors) /\ Distinct(Append(waiters[s], d))
        /\ Elements(Append(waiters[s], d)) = Waiting(s) \cup {d}
    BY <1>2, <1>4, AppendElements DEF Waiting
  <1>6. /\ waiters' \in [Semaphores -> Seq(SemDescriptors)]
        /\ waiters'[s] = Append(waiters[s], d) /\ Distinct(waiters'[s])
        /\ WaitingNext(s) = Waiting(s) \cup {d}
        /\ \A q \in Semaphores \ {s} : waiters'[q] = waiters[q]
    <2>1. /\ waiters' \in [Semaphores -> Seq(SemDescriptors)]
          /\ waiters'[s] = Append(waiters[s], d)
          /\ \A q \in Semaphores \ {s} : waiters'[q] = waiters[q]
      BY <1>0, <1>2, <1>3, <1>5 DEF SemTyped
    <2> QED BY <1>5, <2>1 DEF WaitingNext
  <1>7. /\ users' \in [Semaphores -> SUBSET SemDescriptors] /\ users'[s] = users[s] \ {d}
        /\ \A q \in Semaphores \ {s} : users'[q] = users[q]
    BY <1>0, <1>2, <1>3 DEF SemTyped
  <1>8. users[s] \cap Waiting(s) = {}
    BY <1>0, <1>2 DEF Linked
  <1>9. SemTyped' /\ Linked'
    <2>1. users'[s] \cup WaitingNext(s) = users[s] \cup Waiting(s)
      BY <1>2, <1>6, <1>7
    <2>2. users'[s] \cap WaitingNext(s) = {}
      BY <1>6, <1>7, <1>8
    <2> QED BY <1>0, <1>2, <1>3, <1>6, <1>7, <2>1, <2>2, MovedLinked
  <1>10. Placed /\ Run = {running}
    BY <1>0, <1>1, PlacementParts DEF Core, Run
  <1>11. /\ running' \in Elements(ready_list) /\ running' \in Blocks
         /\ ready_list' \in Seq(Blocks) /\ Distinct(ready_list')
         /\ Elements(ready_list') = Elements(ready_list) \ {running'}
    BY <1>0, <1>3, HeadOfReady
  <1>12. Core'
    <2>1. /\ running' \notin Elements(ready_list')
          /\ waiting_list' \cap ({running'} \cup Elements(ready_list')) = {}
          /\ {running'} \cup Elements(ready_list') \cup waiting_list'
               = {running} \cup Elements(ready_list) \cup waiting_list
          /\ waiting_list' \subseteq Blocks
      BY <1>3, <1>10, <1>11 DEF Placed, Partition
    <2>2. Asleep \subseteq waiting_list'
      BY <1>0, <1>3 DEF WaitsForOneThing
    <2>3. \A b \in {running'} \cup Elements(ready_list') : status[b] \in {"Running", "Ready"}
      BY <1>0, <1>11 DEF Core, StatusFits
    <2> QED BY <1>0, <1>3, <1>11, <2>1, <2>2, <2>3, MovedCore
  <1>13. AllWaiting' = AllWaiting \cup {d}
    <2>1. \A q \in Semaphores \ {s} : WaitingNext(q) = Waiting(q)
      BY <1>6 DEF WaitingNext, Waiting
    <2>2. AllWaiting' = UNION {WaitingNext(q) : q \in Semaphores}
      BY DEF AllWaiting, Waiting, WaitingNext
    <2> QED BY <1>2, <1>6, <2>1, <2>2 DEF AllWaiting
  <1>14. SemBlocked' = SemBlocked \cup {running}
    BY <1>2, <1>3, <1>13 DEF SemBlocked
  <1>15. WaitsForOneThing'
    <2>1. Asleep' = Asleep /\ status' = status /\ sem_des' = sem_des
      BY <1>3 DEF Asleep, processes, table
    <2>2. /\ awaited'[running] = NotWaiting
          /\ \A b \in waiting_list : awaited'[b] = awaited[b]
      BY <1>0, <1>1, <1>2 DEF Core, TypeOK
    <2>3. status[running] \in {"Running", "Ready"}
      BY <1>0, <1>10 DEF Core, StatusFits
    <2>4. \A e, f \in AllWaiting' : sem_des'[e].pcb = sem_des'[f].pcb => e = f
      <3> SUFFICES ASSUME NEW e \in AllWaiting \cup {d}, NEW f \in AllWaiting \cup {d},
                          sem_des[e].pcb = sem_des[f].pcb
                   PROVE  e = f
        BY <1>13, <2>1
      <3>1. \A g \in AllWaiting : sem_des[g].pcb \in SemBlocked
        BY DEF SemBlocked
      <3> QED BY <1>0, <1>2, <3>1 DEF WaitsForOneThing
    <2>5. ASSUME NEW b \in waiting_list'
          PROVE  IF b \in SemBlocked'
                   THEN awaited'[b] = NotWaiting /\ status'[b] \in {"Running", "Ready"}
                 ELSE status'[b] = "Waiting" /\ (b \in Asleep' <=> awaited'[b] = NotWaiting)
      <3>1. CASE b = running
        BY <1>14, <2>1, <2>2, <2>3, <3>1
      <3>2. CASE b # running
        <4>1. b \in waiting_list /\ (b \in SemBlocked' <=> b \in SemBlocked)
          BY <1>3, <1>14, <2>5, <3>2
        <4> QED BY <1>0, <2>1, <2>2, <4>1 DEF WaitsForOneThing
      <3> QED BY <3>1, <3>2
    <2>6. Asleep' \cup SemBlocked' \subseteq waiting_list' /\ Asleep' \cap SemBlocked' = {}
      BY <1>0, <1>2, <1>3, <1>14, <2>1 DEF WaitsForOneThing
    <2> QED BY <2>4, <2>5, <2>6 DEF WaitsForOneThing
  <1>16. AllJoined
    <2> SUFFICES ASSUME NEW q \in Semaphores, waiters'[q] # waiters[q]
                 PROVE  \E e \in users[q] :
                          /\ waiters'[q] = Append(waiters[q], e)
                          /\ sem_des[e].pcb = running
                          /\ waiting_list' \ waiting_list = {running}
                          /\ count[q] <= 0
      BY DEF AllJoined, Joined
    <2>1. q = s
      BY <1>6
    <2>2. count[s] <= 0
      BY <1>0, <1>2 DEF SemTyped, Available
    <2>3. waiting_list' \ waiting_list = {running}
      BY <1>2, <1>3
    <2> QED BY <1>2, <1>6, <2>1, <2>2, <2>3
  <1> QED BY <1>9, <1>12, <1>14, <1>15, <1>16 DEF SemInv

LEMMA WaitKeeps ==
  ASSUME SemInv, NEW fd, internal_semWait(fd)
  PROVE  SemInv' /\ AllJoined
  <1> DEFINE d == SemDescriptorList_byFd(fd)
             s == sem_des[d].semaphore
  <1>1. Calls /\ running # NULL /\ running \in Blocks
    BY RunningIsLive DEF internal_semWait, Calls, SemInv
  <1>2. d = NULL \/ d \in Held(running)
    BY <1>1, FoundDescriptor DEF SemInv
  <1> HIDE DEF d
  <1>3. CASE CallsSem /\ FailsSem(DSOS_ESEMAPHOREWAIT)
    <2>1. DSOS_ESEMAPHOREWAIT \in Int
      BY DEF DSOS_ESEMAPHOREWAIT
    <2> QED BY <1>3, <2>1, SemFailsStep DEF AllJoined, Joined
  <1>4. CASE /\ d # NULL /\ CallsSem /\ count' = [count EXCEPT ![s] = @ - 1] /\ ReturnsSem(0)
             /\ UNCHANGED <<sem_free, sem_id, semopened>>
    <2>1. s \in Semaphores
      BY <1>1, <1>2, <1>4, RunningUses
    <2> HIDE DEF s
    <2>2. count \in [Semaphores -> Int] /\ count[s] - 1 \in Int
      BY <2>1 DEF SemInv, SemTyped
    <2>3. count' \in [Semaphores -> Int]
      BY <1>4, <2>2, CountSet
    <2> QED BY <1>4, <2>3, CountStep DEF AllJoined, Joined
  <1>5. CASE d # NULL /\ ~Available(s) /\ ready_list # <<>> /\ CallsSem /\ SemBlocks(s, d)
    BY <1>2, <1>5, BlocksKeeps
  <1>6. CASE Crash("NullDereference") /\ UNCHANGED <<semaphore, semopened>>
    <2>1. Core'
      BY <1>6, CrashCore DEF SemInv, Faults
    <2>2. SemTyped'
      BY <1>6 DEF SemInv, SemTyped, semaphore, semopened
    <2>3. Linked' /\ AllWaiting' = AllWaiting
      BY <1>6, LinkedFrame DEF SemInv, semaphore, semopened
    <2>4. WaitsForOneThing' /\ waiters' = waiters
      <3>1. UNCHANGED <<sem_des, waiting_list, timer_list, status, awaited, waiters>>
        BY <1>6 DEF Crash, semopened, queues, table
      <3> QED BY <2>3, <3>1, WaitsFrame DEF SemInv
    <2> QED BY <2>1, <2>2, <2>3, <2>4 DEF SemInv, AllJoined, Joined
  <1> QED BY <1>3, <1>4, <1>5, <1>6 DEF internal_semWait, d

LEMMA WakesKeeps ==
  ASSUME SemInv, CallsSem, NEW s \in semaphores_list, waiters[s] # <<>>, SemWakes(s)
  PROVE  /\ SemInv'
         /\ Delivered(s) /\ \A q \in Semaphores \ {s} : waiters'[q] = waiters[q]
         /\ LET p == sem_des[Head(waiters[s])].pcb
            IN  p \in SemBlocked /\ SemBlocked' = SemBlocked \ {p}
  <1> DEFINE w == Head(waiters[s])
             p == sem_des[w].pcb
  <1>0. Core /\ SemTyped /\ Linked /\ WaitsForOneThing /\ s \in Semaphores
    BY DEF SemInv, semaphores_list
  <1>1. running # NULL /\ awaited' = [awaited EXCEPT ![running] = NotWaiting]
    BY DEF CallsSem, CallsOther, Calls
  <1>2. /\ running \in Blocks /\ running \notin waiting_list
    BY <1>0, <1>1, RunningIsLive
  <1>3. waiters[s] \in Seq(SemDescriptors) /\ Distinct(waiters[s])
    BY <1>0 DEF SemTyped, Linked
  <1>4. /\ Tail(waiters[s]) \in Seq(SemDescriptors) /\ Distinct(Tail(waiters[s]))
        /\ w \in Waiting(s) /\ Elements(Tail(waiters[s])) = Waiting(s) \ {w}
    BY <1>3, TailElements DEF Waiting
  <1>5. DetachAt(waiters[s], IndexIn(waiters[s], w)) = Tail(waiters[s])
    BY <1>3, DetachHead
  <1>6. /\ users' = [users EXCEPT ![s] = users[s] \cup {w}]
        /\ waiters' = [waiters EXCEPT ![s] = Tail(waiters[s])]
        /\ waiting_list' = waiting_list \ {p}
        /\ ready_list' = Append(ready_list, p)
        /\ reported' = NoReport
        /\ UNCHANGED <<processes, running, mode, semaphore, sem_descriptors,
                       last_sem_fd, sem_des, sem_des_free>>
    BY <1>5 DEF SemWakes, WaitingListWithout
  <1> HIDE DEF w
  <1>7. w \in SemDescriptors /\ w \in AllWaiting
    BY <1>0, <1>3, <1>4, ElementsType DEF AllWaiting, Waiting
  <1>8. p \in SemBlocked /\ p \in waiting_list /\ p \notin Asleep
        /\ status[p] \in {"Running", "Ready"} /\ p \in Blocks /\ p # running
    <2>1. p \in SemBlocked
      BY <1>7 DEF SemBlocked
    <2> HIDE DEF p
    <2> QED BY <1>0, <1>2, <2>1 DEF WaitsForOneThing, Core, TypeOK
  <1>9. /\ waiters' \in [Semaphores -> Seq(SemDescriptors)]
        /\ waiters'[s] = Tail(waiters[s]) /\ Distinct(waiters'[s])
        /\ WaitingNext(s) = Waiting(s) \ {w}
        /\ \A q \in Semaphores \ {s} : waiters'[q] = waiters[q]
    <2>1. /\ waiters' \in [Semaphores -> Seq(SemDescriptors)]
          /\ waiters'[s] = Tail(waiters[s])
          /\ \A q \in Semaphores \ {s} : waiters'[q] = waiters[q]
      BY <1>0, <1>4, <1>6 DEF SemTyped
    <2> QED BY <1>4, <2>1 DEF WaitingNext
  <1>10. /\ users' \in [Semaphores -> SUBSET SemDescriptors] /\ users'[s] = users[s] \cup {w}
         /\ \A q \in Semaphores \ {s} : users'[q] = users[q]
    BY <1>0, <1>6, <1>7 DEF SemTyped
  <1>11. SemTyped' /\ Linked'
    <2>1. users[s] \cap Waiting(s) = {}
      BY <1>0 DEF Linked
    <2>2. users'[s] \cup WaitingNext(s) = users[s] \cup Waiting(s)
      BY <1>4, <1>9, <1>10
    <2>3. users'[s] \cap WaitingNext(s) = {}
      BY <1>9, <1>10, <2>1
    <2> QED BY <1>0, <1>6, <1>9, <1>10, <2>2, <2>3, MovedLinked
  <1>12. Placed /\ Run = {running} /\ ready_list \in Seq(Blocks) /\ Distinct(ready_list)
    BY <1>0, <1>1, PlacementParts DEF Core, Run, TypeOK
  <1> HIDE DEF p
  <1>13. /\ ready_list' \in Seq(Blocks) /\ Distinct(ready_list')
         /\ Elements(ready_list') = Elements(ready_list) \cup {p}
    <2>1. p \notin Elements(ready_list)
      BY <1>8, <1>12 DEF Placed, Partition
    <2> QED BY <1>6, <1>8, <1>12, <2>1, AppendElements
  <1>14. Core'
    <2>1. /\ running' \notin Elements(ready_list')
          /\ waiting_list' \cap ({running'} \cup Elements(ready_list')) = {}
          /\ {running'} \cup Elements(ready_list') \cup waiting_list'
               = {running} \cup Elements(ready_list) \cup waiting_list
          /\ waiting_list' \subseteq Blocks
      BY <1>6, <1>8, <1>12, <1>13 DEF Placed, Partition
    <2>2. Asleep \subseteq waiting_list'
      BY <1>0, <1>6, <1>8 DEF WaitsForOneThing
    <2>3. \A b \in {running'} \cup Elements(ready_list') : status[b] \in {"Running", "Ready"}
      BY <1>0, <1>6, <1>8, <1>12, <1>13 DEF Core, StatusFits
    <2>4. mode' \in Modes
      BY <1>0, <1>6 DEF Core, TypeOK, Modes
    <2> QED BY <1>0, <1>2, <1>6, <1>13, <2>1, <2>2, <2>3, <2>4, MovedCore
  <1>15. \A e \in AllWaiting : sem_des[e].pcb = p => e = w
    BY <1>0, <1>7 DEF WaitsForOneThing, p
  <1>16. AllWaiting' = AllWaiting \ {w}
    <2>1. \A q \in Semaphores \ {s} : WaitingNext(q) = Waiting(q)
      BY <1>9 DEF WaitingNext, Waiting
    <2>2. AllWaiting' = UNION {WaitingNext(q) : q \in Semaphores}
      BY DEF AllWaiting, Waiting, WaitingNext
    <2>3. \A q \in Semaphores \ {s} : w \notin Waiting(q)
      BY <1>0, <1>4 DEF Linked, UsedLinked
    <2>4. \A q \in Semaphores : WaitingNext(q) = Waiting(q) \ {w}
      BY <1>9, <2>1, <2>3
    <2> QED BY <2>2, <2>4 DEF AllWaiting
  <1>17. SemBlocked' = SemBlocked \ {p}
    <2>1. SemBlocked' = {sem_des[e].pcb : e \in AllWaiting \ {w}}
      BY <1>6, <1>16 DEF SemBlocked
    <2>2. sem_des[w].pcb = p
      BY DEF p
    <2> QED BY <1>15, <2>1, <2>2 DEF SemBlocked
  <1>18. WaitsForOneThing'
    <2>1. Asleep' = Asleep /\ status' = status /\ sem_des' = sem_des
      BY <1>6 DEF Asleep, processes, table
    <2>2. \A b \in waiting_list : awaited'[b] = awaited[b]
      BY <1>0, <1>1, <1>2 DEF Core, TypeOK
    <2>3. ASSUME NEW b \in waiting_list'
          PROVE  IF b \in SemBlocked'
                   THEN awaited'[b] = NotWaiting /\ status'[b] \in {"Running", "Ready"}
                 ELSE status'[b] = "Waiting" /\ (b \in Asleep' <=> awaited'[b] = NotWaiting)
      <3>1. b \in waiting_list /\ (b \in SemBlocked' <=> b \in SemBlocked)
        BY <1>6, <1>17, <2>3
      <3> QED BY <1>0, <2>1, <2>2, <3>1 DEF WaitsForOneThing
    <2>4. \A e, f \in AllWaiting' : sem_des'[e].pcb = sem_des'[f].pcb => e = f
      BY <1>0, <1>16, <2>1 DEF WaitsForOneThing
    <2>5. Asleep' \cup SemBlocked' \subseteq waiting_list' /\ Asleep' \cap SemBlocked' = {}
      BY <1>0, <1>6, <1>8, <1>17, <2>1 DEF WaitsForOneThing
    <2> QED BY <2>3, <2>4, <2>5 DEF WaitsForOneThing
  <1>19. Delivered(s)
    <2>1. waiting_list \ waiting_list' = {p} /\ count' = count
      BY <1>6, <1>8 DEF semaphore
    <2> QED BY <1>9, <2>1 DEF Delivered, p, w
  <1> QED BY <1>8, <1>9, <1>11, <1>14, <1>17, <1>18, <1>19 DEF SemInv, p, w

LEMMA PostKeeps ==
  ASSUME SemInv, NEW fd, internal_semPost(fd)
  PROVE  LET d == SemDescriptorList_byFd(fd)
             s == sem_des[d].semaphore
         IN  /\ SemInv'
             /\ d # NULL => s \in Semaphores /\ Posted(s)
             /\ \A q \in Semaphores : waiters'[q] # waiters[q] => d # NULL /\ q = s
  <1> DEFINE d == SemDescriptorList_byFd(fd)
             s == sem_des[d].semaphore
  <1>1. CallsSem /\ running # NULL /\ running \in Blocks
    BY RunningIsLive DEF internal_semPost, CallsSem, CallsOther, Calls, SemInv
  <1>2. d = NULL \/ d \in Held(running)
    BY <1>1, FoundDescriptor DEF SemInv
  <1>3. \/ d = NULL /\ FailsSem(DSOS_ESEMAPHOREPOST)
        \/ d # NULL /\ Positive(s) /\ waiters[s] # <<>> /\ SemWakes(s)
        \/ /\ d # NULL /\ ~(Positive(s) /\ waiters[s] # <<>>)
           /\ count' = [count EXCEPT ![s] = @ + 1] /\ ReturnsSem(0)
           /\ UNCHANGED <<sem_free, sem_id, semopened>>
    BY DEF internal_semPost
  <1> HIDE DEF d
  <1>4. d # NULL => s \in Semaphores /\ s \in semaphores_list /\ count[s] \in Int
    BY <1>1, <1>2, RunningUses DEF SemInv, SemTyped
  <1>5. d # NULL => (Positive(s) <=> count[s] >= 0)
    <2> HIDE DEF s
    <2> QED BY <1>4 DEF Positive
  <1> SUFFICES /\ SemInv'
               /\ d # NULL => Posted(s)
               /\ \A q \in Semaphores : waiters'[q] # waiters[q] => d # NULL /\ q = s
    BY <1>4 DEF d
  <1>6. CASE d = NULL /\ FailsSem(DSOS_ESEMAPHOREPOST)
    <2>1. DSOS_ESEMAPHOREPOST \in Int
      BY DEF DSOS_ESEMAPHOREPOST
    <2>2. SemInv' /\ waiters' = waiters
      BY <1>1, <1>6, <2>1, SemFailsStep
    <2> QED BY <1>6, <2>2
  <1>7. CASE d # NULL /\ Positive(s) /\ waiters[s] # <<>> /\ SemWakes(s)
    <2>1. /\ SemInv' /\ Delivered(s)
          /\ \A q \in Semaphores \ {s} : waiters'[q] = waiters[q]
      BY <1>1, <1>4, <1>7, WakesKeeps
    <2>2. Posted(s)
      BY <1>5, <1>7, <2>1 DEF Posted
    <2> QED BY <1>7, <2>1, <2>2
  <1>8. CASE /\ d # NULL /\ ~(Positive(s) /\ waiters[s] # <<>>)
             /\ count' = [count EXCEPT ![s] = @ + 1] /\ ReturnsSem(0)
             /\ UNCHANGED <<sem_free, sem_id, semopened>>
    <2> HIDE DEF s
    <2>1. count \in [Semaphores -> Int] /\ count[s] + 1 \in Int
      BY <1>4, <1>8 DEF SemInv, SemTyped
    <2>2. count' \in [Semaphores -> Int] /\ count'[s] = count[s] + 1
      BY <1>4, <1>8, <2>1, CountSet
    <2>3. SemInv' /\ waiters' = waiters
      BY <1>1, <1>8, <2>2, CountStep
    <2>4. Posted(s)
      BY <1>5, <1>8, <2>2, <2>3 DEF Posted
    <2> QED BY <2>3, <2>4
  <1> QED BY <1>3, <1>6, <1>7, <1>8

-----------------------------------------------------------------------------
(* The theorems *)

LEMMA InitSem == SemInit => SemInv
  <1> SUFFICES ASSUME SemInit PROVE SemInv
    OBVIOUS
  <1>1. Core
    BY InitCore DEF SemInit
  <1>2. /\ sem_free = [i \in Semaphores |-> i]
        /\ \A s \in Semaphores : users[s] = {} /\ waiters[s] = <<>>
        /\ \A b \in Blocks : sem_descriptors[b] = <<>>
    BY DEF SemInit
  <1>3. sem_free \in Seq(Semaphores) /\ Distinct(sem_free)
    <2>1. sem_free \in [1 .. MAX_NUM_SEMAPHORES -> Semaphores]
      BY <1>2 DEF Semaphores
    <2>2. sem_free \in Seq(Semaphores) /\ Len(sem_free) = MAX_NUM_SEMAPHORES
      BY <2>1
    <2> QED BY <1>2, <2>2 DEF Distinct, Semaphores
  <1>4. SemTyped
    <2>1. sem_des \in [SemDescriptors -> SemDesRecords]
      BY SemDesFields DEF SemInit
    <2> QED BY <1>3, <2>1 DEF SemTyped, SemInit
  <1>5. /\ \A s \in Semaphores : Waiting(s) = {} /\ Distinct(waiters[s])
        /\ \A b \in Blocks : Held(b) = {} /\ Distinct(sem_descriptors[b])
    BY <1>2, EmptyElements DEF Waiting, Held
  <1>6. Linked
    BY <1>2, <1>5 DEF Linked, HeldLinked, UsedLinked
  <1>7. AllWaiting = {} /\ SemBlocked = {}
    BY <1>5 DEF AllWaiting, SemBlocked
  <1>8. waiting_list = {} /\ Asleep = {}
    BY <1>1 DEF SemInit, Init, Core, SleepersApart
  <1>9. WaitsForOneThing
    BY <1>7, <1>8 DEF WaitsForOneThing
  <1> QED BY <1>1, <1>4, <1>6, <1>9 DEF SemInv

LEMMA SemNextKeeps == SemInv /\ [SemNext]_sem_vars => SemInv' /\ Handed
  <1> SUFFICES ASSUME SemInv, [SemNext]_sem_vars PROVE SemInv' /\ Handed
    OBVIOUS
  <1>0. /\ (\A s \in Semaphores : ~Posts(s) => Joined(s)) => Handed
        /\ AllJoined => Handed
    <2>1. ASSUME NEW s \in Semaphores, Posts(s) PROVE Posted(s)
      <3>1. PICK fd \in SemFds : /\ internal_semPost(fd)
                                 /\ SemDescriptorList_byFd(fd) # NULL
                                 /\ sem_des[SemDescriptorList_byFd(fd)].semaphore = s
        BY <2>1 DEF Posts
      <3> QED BY <3>1, PostKeeps
    <2> QED BY <2>1 DEF Handed, AllJoined
  <1>1. CASE KernelStep \/ UNCHANGED sem_vars
    <2>1. SemInv' /\ AllJoined
      BY <1>1, KernelSemStep DEF AllJoined, Joined, sem_vars
    <2> QED BY <2>1, <1>0
  <1>2. CASE \E i \in SemIds, flags \in SemFlags, c \in SemCounts : internal_semOpen(i, flags, c)
    <2>1. SemCounts \subseteq Int
      OBVIOUS
    <2>2. SemInv' /\ AllJoined
      BY <1>2, <2>1, OpenKeeps DEF AllJoined, Joined
    <2> QED BY <2>2, <1>0
  <1>3. CASE \E fd \in SemFds : internal_semClose(fd)
    <2>1. SemInv' /\ AllJoined
      BY <1>3, CloseKeeps DEF AllJoined, Joined
    <2> QED BY <2>1, <1>0
  <1>4. CASE \E fd \in SemFds : internal_semWait(fd)
    BY <1>0, <1>4, WaitKeeps
  <1>5. CASE \E fd \in SemFds : internal_semPost(fd)
    <2>1. PICK fd \in SemFds : internal_semPost(fd)
      BY <1>5
    <2>2. SemInv'
      BY <2>1, PostKeeps
    <2>3. ASSUME NEW q \in Semaphores, ~Posts(q)
          PROVE  Joined(q)
      BY <2>1, <2>3, PostKeeps DEF Posts, Joined
    <2> QED BY <1>0, <2>2, <2>3
  <1> QED BY <1>1, <1>2, <1>3, <1>4, <1>5 DEF SemNext

\* The inductive invariant holds in every reachable state: semWait and semPost,
\* which move processes between the lists with their own hands and leave their
\* status behind, keep all that the handlers of the process table rely on.
THEOREM SemInvHolds == SemSpec => []SemInv
  BY InitSem, SemNextKeeps, PTL DEF SemSpec

\* With semaphores too, every block is in exactly one place and no list holds a
\* block twice: semWait's append to waiting_list and semPost's move to
\* ready_list never meet a process that schedule or exit has moved already.
THEOREM SemPlacementHolds == SemSpec => []Placement
  <1>1. SemInv => Placement
    BY DEF SemInv, Core
  <1> QED BY <1>1, SemInvHolds, PTL

\* A blocked process waits for a timer, a child or a semaphore, for only one of
\* them and through one descriptor: the wake-ups of schedule, exit and semPost
\* never find the same process.
THEOREM OneReasonToWait == SemSpec => []WaitsForOneThing
  <1>1. SemInv => WaitsForOneThing
    BY DEF SemInv
  <1> QED BY <1>1, SemInvHolds, PTL

\* The lists of descriptors of processes and of semaphores agree, whatever
\* semOpen, semClose, semWait and semPost, exits and re-used blocks come
\* together.
THEOREM SemDescriptorsStayAgreed == SemSpec => []SemDescriptorsAgree
  <1>1. SemInv => SemDescriptorsAgree
    BY LinkedAgrees DEF SemInv
  <1> QED BY <1>1, SemInvHolds, PTL

\* A post that finds waiters and a count that is not negative makes the first of
\* them, and only it, ready and leaves the count alone; any other post adds one
\* to the count and wakes nobody; and nobody joins or leaves the waiters in
\* another way, but for a caller of semWait who finds no token.
THEOREM TokensAreHandedOver == SemSpec => TokensHandedOver
  <1>1. SemInv /\ [SemNext]_sem_vars => [Handed]_sem_vars
    BY SemNextKeeps
  <1>2. SemSpec => [][Handed]_sem_vars
    BY <1>1, SemInvHolds, PTL DEF SemSpec
  <1> QED BY <1>2 DEF TokensHandedOver, Handed, Posted, Delivered, Joined

-----------------------------------------------------------------------------
(* The test program: its inductive invariant *)

\* Children that have passed semWait and not come to semPost yet
Inside == {b \in Blocks \ SemBlocked : pc[b] \in 3 .. 6}

HoldsOne(b) ==
  /\ last_sem_fd[b] = 1 /\ local[b]["fd"] = 0
  /\ Len(sem_descriptors[b]) = 1 /\ sem_des[sem_descriptors[b][1]].fd = 0

HoldsNone(b) == last_sem_fd[b] = 0 /\ sem_descriptors[b] = <<>>

\* From semOpen to semClose a child holds one descriptor, which semOpen always
\* gets, for there is one for every process.
Holding ==
  /\ \A b \in Blocks : pc[b] \in 0 .. 9
  /\ \A b \in Blocks : IF pc[b] \in 2 .. 7 THEN HoldsOne(b) ELSE HoldsNone(b)
  /\ \A b \in Free \cup zombie_list : pc[b] \notin 2 .. 7
  /\ \A d \in SemDescriptors \ sem_des_free : \E b \in Blocks : d \in Held(b)

\* There is one semaphore, and one token, with the child inside or in the count.
OneToken ==
  /\ \A s \in semaphores_list : sem_id[s] = ID /\ semaphores_list = {s}
  /\ \A s \in Semaphores \ semaphores_list : waiters[s] = <<>>
  /\ \A b \in SemBlocked : pc[b] = 3
  /\ \A s \in semaphores_list :
       \/ count[s] = 1 /\ Inside = {} /\ waiters[s] = <<>>
       \/ count[s] = 0 /\ \E b \in Blocks : Inside = {b}

\* What a child has read of totalOK is still true when it writes it.
Fresh == \A b \in Inside : pc[b] \in {4, 5} => local[b]["a"] = totalOK

\* In the other tests nobody gets so far as to block.
NobodyWaits ==
  /\ \A s \in Semaphores : waiters[s] = <<>>
  /\ test \in {"semaphoreNoOpen", "semaphoreBoundsException"} =>
       \A b \in Blocks : sem_descriptors[b] = <<>>

Numbers ==
  /\ last_pid <= NumChildren + 2
  /\ \A b \in Blocks : pid[b] < last_pid
  /\ \A b, c \in Blocks : pid[b] = pid[c] /\ pid[b] > 0 => b = c
  /\ \A b \in Blocks : pc[b] > 0 => pid[b] > 1

ProgramTyped ==
  /\ test \in DOMAIN Steps
  /\ pc \in [Blocks -> Nat]
  /\ local \in [Blocks -> [Locals -> Int]]
  /\ totalOK \in Int /\ totalKO \in Int
  /\ sem_id \in [Semaphores -> Int]

TestInv ==
  /\ SemInv /\ IdleAwake
  /\ ProgramTyped /\ Numbers
  /\ test = "semaphoreClean" => Holding /\ OneToken /\ Fresh
  /\ test # "semaphoreClean" => NobodyWaits

USE SchedulerAssumption, SemaphoresAssumption, TestProgramAssumption DEF NULL

-----------------------------------------------------------------------------
(* The steps of the tests *)

LEMMA CleanSteps ==
  LET clean == Steps["semaphoreClean"] IN
  /\ Len(clean) = 9
  /\ clean[1][1] = "load_KO" /\ clean[1][2] = "b"
  /\ clean[2][1] = "semOpen" /\ clean[2][2] = "fd"
  /\ clean[3][1] = "semWait" /\ clean[3][2] = "fd"
  /\ clean[4][1] = "load_OK" /\ clean[4][2] = "a"
  /\ clean[5][1] = "sleep" /\ clean[5][2] = ""
  /\ clean[6][1] = "store_OK" /\ clean[6][2] = "a"
  /\ clean[7][1] = "semPost" /\ clean[7][2] = "fd"
  /\ clean[8][1] = "semClose" /\ clean[8][2] = "fd"
  /\ clean[9][1] = "store_KO" /\ clean[9][2] = "b"
  BY DEF Steps

\* The kind of the n-th step of the semaphore test, and its variable
LEMMA CleanKinds ==
  ASSUME NEW n \in 1 .. 9
  PROVE  LET step == Steps["semaphoreClean"][n] IN
         /\ step[1] = "semOpen" <=> n = 2
         /\ step[1] = "semWait" <=> n = 3
         /\ step[1] = "load_OK" <=> n = 4
         /\ step[1] = "sleep" <=> n = 5
         /\ step[1] = "store_OK" <=> n = 6
         /\ step[1] = "semPost" <=> n = 7
         /\ step[1] = "semClose" <=> n = 8
         /\ n \in {2, 3, 7, 8} => step[2] = "fd"
         /\ n \in {4, 6} => step[2] = "a"
         /\ n \in {1, 9} => step[2] = "b"
  <1>1. CASE n = 1
    BY <1>1, CleanSteps
  <1>2. CASE n = 2
    BY <1>2, CleanSteps
  <1>3. CASE n = 3
    BY <1>3, CleanSteps
  <1>4. CASE n = 4
    BY <1>4, CleanSteps
  <1>5. CASE n = 5
    BY <1>5, CleanSteps
  <1>6. CASE n = 6
    BY <1>6, CleanSteps
  <1>7. CASE n = 7
    BY <1>7, CleanSteps
  <1>8. CASE n = 8
    BY <1>8, CleanSteps
  <1>9. CASE n = 9
    BY <1>9, CleanSteps
  <1> QED BY <1>1, <1>2, <1>3, <1>4, <1>5, <1>6, <1>7, <1>8, <1>9

\* What the other tests do
LEMMA OtherKinds ==
  /\ \A n \in 1 .. Len(Steps["semaphoreOpenClose"]) :
       Steps["semaphoreOpenClose"][n][1] \in {"semOpen", "semClose"}
  /\ \A n \in 1 .. Len(Steps["semaphoreNoOpen"]) :
       Steps["semaphoreNoOpen"][n][1] \in {"semWait", "semPost", "semClose"}
  /\ \A n \in 1 .. Len(Steps["semaphoreDoubleOpen"]) :
       Steps["semaphoreDoubleOpen"][n][1] \in {"semOpen", "semClose"}
  /\ \A n \in 1 .. Len(Steps["semaphoreBoundsException"]) :
       Steps["semaphoreBoundsException"][n][1] \in {"semOpen", "semWait", "semPost", "semClose"}
  /\ \A n \in 1 .. Len(Steps["semaphoreReOpen"]) :
       Steps["semaphoreReOpen"][n][1] \in {"semOpen", "sleep", "semClose"}
  /\ \A n \in 1 .. Len(Steps["semaphoreNoClose"]) :
       Steps["semaphoreNoClose"][n][1] \in {"semOpen"}
  /\ \A n \in 1 .. Len(Steps["messageQueueNoClose"]) :
       Steps["messageQueueNoClose"][n][1] \in {"semOpen"}
  <1> USE DEF Steps
  <1>1. \A n \in 1 .. Len(Steps["semaphoreOpenClose"]) :
          Steps["semaphoreOpenClose"][n][1] \in {"semOpen", "semClose"}
    OBVIOUS
  <1>2. \A n \in 1 .. Len(Steps["semaphoreNoOpen"]) :
          Steps["semaphoreNoOpen"][n][1] \in {"semWait", "semPost", "semClose"}
    OBVIOUS
  <1>3. \A n \in 1 .. Len(Steps["semaphoreDoubleOpen"]) :
          Steps["semaphoreDoubleOpen"][n][1] \in {"semOpen", "semClose"}
    OBVIOUS
  <1>4. \A n \in 1 .. Len(Steps["semaphoreBoundsException"]) :
          Steps["semaphoreBoundsException"][n][1] \in {"semOpen", "semWait", "semPost", "semClose"}
    OBVIOUS
  <1>5. \A n \in 1 .. Len(Steps["semaphoreReOpen"]) :
          Steps["semaphoreReOpen"][n][1] \in {"semOpen", "sleep", "semClose"}
    <2> DEFINE s == Steps["semaphoreReOpen"]
    <2>1. /\ Len(s) = 6 /\ s[1][1] = "semOpen" /\ s[2][1] = "sleep" /\ s[3][1] = "semClose"
          /\ s[4][1] = "semOpen" /\ s[5][1] = "sleep" /\ s[6][1] = "semClose"
      OBVIOUS
    <2> HIDE DEF s, Steps
    <2>2. 1 .. 6 = {1, 2, 3, 4, 5, 6}
      OBVIOUS
    <2> QED BY <2>1, <2>2 DEF s
  <1>6. \A n \in 1 .. Len(Steps["semaphoreNoClose"]) :
          Steps["semaphoreNoClose"][n][1] \in {"semOpen"}
    OBVIOUS
  <1>7. \A n \in 1 .. Len(Steps["messageQueueNoClose"]) :
          Steps["messageQueueNoClose"][n][1] \in {"semOpen"}
    OBVIOUS
  <1> HIDE DEF Steps
  <1> QED BY <1>1, <1>2, <1>3, <1>4, <1>5, <1>6, <1>7

LEMMA TestNames ==
  DOMAIN Steps = {"semaphoreClean", "semaphoreOpenClose", "semaphoreNoOpen",
                  "semaphoreDoubleOpen", "semaphoreBoundsException", "semaphoreReOpen",
                  "semaphoreNoClose", "messageQueueNoClose"}
  BY DEF Steps

\* Two other tests call semWait, but they have no semaphore: one does not open
\* any and one asks for an invalid one.  None of them touches the totals.
LEMMA OtherTests ==
  ASSUME NEW t \in DOMAIN Steps, t # "semaphoreClean", NEW n \in 1 .. Len(Steps[t])
  PROVE  /\ Steps[t][n][1] \notin {"store_OK", "store_KO"}
         /\ Steps[t][n][1] = "semWait" => t \in {"semaphoreNoOpen", "semaphoreBoundsException"}
         /\ t = "semaphoreNoOpen" => Steps[t][n][1] # "semOpen"
  <1>1. CASE t = "semaphoreOpenClose" BY <1>1, OtherKinds
  <1>2. CASE t = "semaphoreNoOpen" BY <1>2, OtherKinds
  <1>3. CASE t = "semaphoreDoubleOpen" BY <1>3, OtherKinds
  <1>4. CASE t = "semaphoreBoundsException" BY <1>4, OtherKinds
  <1>5. CASE t = "semaphoreReOpen" BY <1>5, OtherKinds
  <1>6. CASE t = "semaphoreNoClose" BY <1>6, OtherKinds
  <1>7. CASE t = "messageQueueNoClose" BY <1>7, OtherKinds
  <1> QED BY TestNames, <1>1, <1>2, <1>3, <1>4, <1>5, <1>6, <1>7

-----------------------------------------------------------------------------
(* The steps that go through a handler of the process table *)

NoExit ==
  \/ timerInterrupt \/ internal_spawn \/ internal_wait(0) \/ internal_sleep(1)
  \/ internal_shutdown

ProgramKernelStep == (NoExit \/ internal_exit) /\ SemaphoresKept

\* The pids after a step: the same, or one more
PidsGrow ==
  \/ pid' = pid /\ last_pid' = last_pid
  \/ \E c \in Blocks : /\ pid'[c] = last_pid /\ last_pid' = last_pid + 1
                       /\ \A b \in Blocks \ {c} : pid'[b] = pid[b]

LEMMA KernelKeeps ==
  ASSUME SemInv, IdleAwake, ProgramKernelStep
  PROVE  /\ SemInv' /\ IdleAwake'
         /\ UNCHANGED <<sem_free, sem_id, count, users, waiters, sem_descriptors,
                        sem_des, sem_des_free>>
         /\ SemBlocked' = SemBlocked
         /\ PidsGrow
         /\ \A b \in Blocks : last_sem_fd'[b] = last_sem_fd[b] \/ (b \in Free /\ last_sem_fd'[b] = 0)
         /\ Free' \cup zombie_list' \subseteq
              Free \cup zombie_list \cup (IF NoExit THEN {} ELSE {running})
  <1>1. Core /\ Core /\ init_pcb \in Live
    BY DEF SemInv, Core, InitLives
  <1>2. KernelStep /\ [Next]_vars
    BY DEF ProgramKernelStep, NoExit, KernelStep, Next
  <1>3. SemInv'
    BY <1>2, KernelSemStep
  <1>4. UNCHANGED <<sem_free, sem_id, count, users, waiters, sem_descriptors, sem_des, sem_des_free>>
    BY DEF ProgramKernelStep, SemaphoresKept, semaphore
  <1>5. SemBlocked' = SemBlocked
    BY <1>4 DEF SemBlocked, AllWaiting, Waiting
  <1>6. init_pcb' = init_pcb
    BY DEF ProgramKernelStep, NoExit, timerInterrupt, internal_schedule, internal_spawn, Create,
           internal_wait, WaitFails, WaitReaps, WaitBlocks, WaitCrashes, internal_sleep,
           internal_exit, internal_shutdown, Crash
  <1>7. ~Starts
    BY <1>1, <1>6, HeadOfFree DEF Starts, Live
  <1>8. \/ Stays \/ Turns \/ CreatesChild \/ Reaps \/ WaitsForChild \/ Sleeps \/ Exits
    BY <1>1, <1>2, <1>7, StepKinds
  <1>9. IdleAwake'
    BY <1>1, <1>8, IdleAwakeStep
  <1>10. /\ PidsGrow
         /\ \/ Free' \cup zombie_list' \subseteq Free \cup zombie_list
            \/ Exits /\ Free' \cup zombie_list' \subseteq Free \cup zombie_list \cup {running}
    <2>1. CASE Stays \/ Turns \/ WaitsForChild \/ Sleeps
      <3>1. UNCHANGED <<pcb_free, pid, last_pid, zombie_list>>
        BY <2>1 DEF Stays, Turns, ScheduleEffect, WaitsForChild, WaitBlocks, Sleeps, internal_sleep,
                pools, table, queues
      <3> QED BY <3>1 DEF PidsGrow, Free
    <2>2. CASE CreatesChild
      <3>1. PICK context \in BOOLEAN : PCB_alloc(running, "Ready", context)
        BY <2>2 DEF CreatesChild
      <3>2. PidsGrow
        BY <1>1, <2>2, <3>1, AllocatedFields DEF CreatesChild, PidsGrow
      <3>3. Free' \subseteq Free
        BY <1>1, <2>2, <3>1, HeadOfFree DEF CreatesChild, PCB_alloc, Free
      <3> QED BY <2>2, <3>2, <3>3 DEF CreatesChild
    <2>3. CASE Reaps
      <3>1. PICK z \in Blocks : Reaped(z)
        BY <1>1, <2>3, ReapedStep
      <3>2. Free' \subseteq Free \cup {z}
        <4>1. Free \subseteq Blocks /\ Free' \subseteq Blocks
          BY <1>1, <1>3, ElementsType DEF SemInv, Core, TypeOK, Free
        <4> QED BY <3>1, <4>1 DEF Reaped, Live
      <3> QED BY <3>1, <3>2 DEF Reaped, PidsGrow
    <2>4. CASE Exits
      <3>1. Gone(running)
        BY <1>1, <2>4, GoneStep
      <3>2. Free \subseteq Blocks /\ Free' \subseteq Blocks
        BY <1>1, <1>3, ElementsType DEF SemInv, Core, TypeOK, Free
      <3> QED BY <2>4, <3>1, <3>2 DEF Gone, Live, PidsGrow
    <2> QED BY <1>8, <2>1, <2>2, <2>3, <2>4
  <1>11. \A b \in Blocks : last_sem_fd'[b] = last_sem_fd[b] \/ (b \in Free /\ last_sem_fd'[b] = 0)
    BY DEF ProgramKernelStep, SemaphoresKept, Free
  <1>12. ASSUME Exits, NoExit PROVE FALSE
    <2>1. running \in Blocks /\ running \notin Free \cup zombie_list
      BY <1>1, <1>12, RunningIsLive DEF Exits, Live
    <2>2. running \in Free' \cup zombie_list'
      BY <1>1, <1>12, <2>1, GoneStep DEF Gone, Live
    <2>3. CASE Reaps
      <3>1. PICK z \in Blocks : Reaped(z)
        BY <1>1, <2>3, ReapedStep
      <3> QED BY <2>1, <2>2, <3>1 DEF Reaped, Live
    <2>4. CASE internal_wait(0) /\ ~Reaps
      <3>1. WaitFails(0) \/ WaitBlocks(0) \/ WaitCrashes(0)
        BY <2>4 DEF internal_wait, Reaps
      <3>2. UNCHANGED <<pcb_free, zombie_list>>
        BY <3>1 DEF WaitFails, WaitBlocks, WaitCrashes, Crash, pools, table, queues
      <3> QED BY <2>1, <2>2, <3>2 DEF Free
    <2>5. CASE timerInterrupt \/ internal_sleep(1) \/ internal_shutdown
      <3>1. UNCHANGED <<pcb_free, zombie_list>>
        BY <2>5 DEF timerInterrupt, internal_schedule, internal_sleep, internal_shutdown, Crash,
                    pools, table, queues
      <3> QED BY <2>1, <2>2, <3>1 DEF Free
    <2>6. CASE internal_spawn
      <3>1. zombie_list' = zombie_list /\ (pcb_free' = pcb_free \/ (pcb_free # <<>> /\ pcb_free' = Tail(pcb_free)))
        BY <2>6 DEF internal_spawn, Create, PCB_alloc, Crash, pools, table, queues
      <3>2. Free' \subseteq Free
        BY <1>1, <3>1, HeadOfFree DEF Free
      <3> QED BY <2>1, <2>2, <3>1, <3>2
    <2> QED BY <1>12, <2>3, <2>4, <2>5, <2>6 DEF NoExit
  <1> QED BY <1>3, <1>4, <1>5, <1>9, <1>10, <1>11, <1>12

-----------------------------------------------------------------------------
(* The semaphore test: steps that leave the semaphore alone *)

LEMMA RunningFacts ==
  ASSUME SemInv, running # NULL
  PROVE  /\ running \in Blocks /\ running \notin SemBlocked
         /\ running \notin Free \cup zombie_list
  <1>1. running \in Blocks /\ running \in Live \ zombie_list /\ running \notin waiting_list
    BY RunningIsLive DEF SemInv
  <1> QED BY <1>1 DEF SemInv, WaitsForOneThing, Live

\* Where the running child is when its next step is of a kind
LEMMA CleanAt ==
  ASSUME TestInv, test = "semaphoreClean", NEW kind, At(kind)
  PROVE  /\ running # NULL /\ running \in Blocks /\ running \notin SemBlocked
         /\ running \notin Free \cup zombie_list
         /\ pid[running] > 1
         /\ pc[running] \in 0 .. 8
         /\ kind = "semOpen" => pc[running] = 1 /\ Variable = "fd"
         /\ kind = "semWait" => pc[running] = 2 /\ Value = local[running]["fd"]
         /\ kind = "load_OK" => pc[running] = 3 /\ Variable = "a"
         /\ kind = "sleep" => pc[running] = 4
         /\ kind = "store_OK" => pc[running] = 5 /\ Value = local[running]["a"]
         /\ kind = "semPost" => pc[running] = 6 /\ Value = local[running]["fd"]
         /\ kind = "semClose" => pc[running] = 7 /\ Value = local[running]["fd"]
         /\ kind \in {"load_KO", "store_KO"} => pc[running] \in {0, 8} /\ Variable = "b"
         /\ pc'[running] = pc[running] + 1
         /\ \A b \in Blocks \ {running} : pc'[b] = pc[b]
         /\ pc' \in [Blocks -> Nat]
  <1> DEFINE n == pc[running] + 1
  <1>1. /\ running # NULL /\ running \in Blocks /\ pc \in [Blocks -> Nat]
        /\ running \notin SemBlocked /\ running \notin Free \cup zombie_list
    BY RunningFacts DEF At, TestInv, ProgramTyped
  <1>2. pc[running] \in Nat /\ pc[running] < 9 /\ n \in 1 .. 9
    <2>1. Len(Steps[test]) = 9
      BY CleanSteps
    <2> QED BY <1>1, <2>1 DEF At
  <1>3. Steps["semaphoreClean"][n][1] = kind /\ Variable = Steps["semaphoreClean"][n][2]
    BY DEF At, Variable
  <1>4. /\ pc'[running] = pc[running] + 1 /\ \A b \in Blocks \ {running} : pc'[b] = pc[b]
        /\ pc' \in [Blocks -> Nat] /\ pid[running] > 1
    BY <1>1, <1>2 DEF At
  <1>5. /\ kind = "semOpen" <=> n = 2
        /\ kind = "semWait" <=> n = 3
        /\ kind = "load_OK" <=> n = 4
        /\ kind = "sleep" <=> n = 5
        /\ kind = "store_OK" <=> n = 6
        /\ kind = "semPost" <=> n = 7
        /\ kind = "semClose" <=> n = 8
        /\ n \in {2, 3, 7, 8} => Variable = "fd"
        /\ n \in {4, 6} => Variable = "a"
        /\ n \in {1, 9} => Variable = "b"
    <2> HIDE DEF n
    <2> QED BY <1>2, <1>3, CleanKinds
  <1>6. Variable # "ID" => Value = local[running][Variable]
    BY DEF Value
  <1>7. kind \in {"load_KO", "store_KO"} => n \in {1, 9}
    BY <1>2, <1>5
  <1> HIDE DEF Value, Variable
  <1> QED BY <1>1, <1>2, <1>4, <1>5, <1>6, <1>7

LEMMA HoldingFrame ==
  ASSUME Holding, UNCHANGED <<sem_descriptors, sem_des, sem_des_free>>,
         \A b \in Blocks : last_sem_fd'[b] = last_sem_fd[b] \/ (b \in Free /\ last_sem_fd'[b] = 0),
         \A b \in Blocks : local'[b]["fd"] = local[b]["fd"],
         \A b \in Blocks : pc'[b] \in 0 .. 9 /\ (pc'[b] \in 2 .. 7 <=> pc[b] \in 2 .. 7),
         \A b \in Free' \cup zombie_list' :
           (b \in Blocks /\ b \in Free \cup zombie_list) \/ pc'[b] \notin 2 .. 7
  PROVE  Holding'
  <1>1. \A b \in Blocks : last_sem_fd'[b] = last_sem_fd[b]
    BY DEF Holding, HoldsNone
  <1>2. \A b \in Blocks : /\ HoldsOne(b)' <=> HoldsOne(b)
                          /\ HoldsNone(b)' <=> HoldsNone(b)
                          /\ Held(b)' = Held(b)
    BY <1>1 DEF HoldsOne, HoldsNone, Held
  <1>3. \A b \in Blocks : IF pc'[b] \in 2 .. 7 THEN HoldsOne(b)' ELSE HoldsNone(b)'
    BY <1>2 DEF Holding
  <1>4. \A b \in Free' \cup zombie_list' : pc'[b] \notin 2 .. 7
    BY DEF Holding
  <1>5. \A d \in SemDescriptors \ sem_des_free' : \E b \in Blocks : d \in Held(b)'
    BY <1>2 DEF Holding
  <1> QED BY <1>3, <1>4, <1>5 DEF Holding

LEMMA CleanFrame ==
  ASSUME TestInv, test = "semaphoreClean", SemBlocked' = SemBlocked,
         UNCHANGED <<sem_free, sem_id, count, waiters, sem_descriptors, sem_des, sem_des_free>>,
         \A b \in Blocks : last_sem_fd'[b] = last_sem_fd[b] \/ (b \in Free /\ last_sem_fd'[b] = 0),
         \A b \in Blocks : local'[b]["fd"] = local[b]["fd"],
         \A b \in Blocks :
           \/ pc'[b] = pc[b]
           \/ b = running /\ pc[b] \in {0, 3, 4, 5, 8} /\ pc'[b] = pc[b] + 1,
         \A b \in Free' \cup zombie_list' : b \in Free \cup zombie_list \/ pc'[b] \notin 2 .. 7
  PROVE  Holding' /\ OneToken' /\ Inside' = Inside
  <1>1. Holding /\ OneToken /\ SemInv
    BY DEF TestInv
  <1>2. \A b \in Blocks : b = running => running \notin SemBlocked \cup Free \cup zombie_list
    BY <1>1, RunningFacts DEF Blocks
  <1>3. \A b \in Blocks : pc[b] \in 0 .. 9
    BY <1>1 DEF Holding
  <1>4. \A b \in Blocks : /\ pc'[b] \in 0 .. 9
                          /\ pc'[b] \in 2 .. 7 <=> pc[b] \in 2 .. 7
                          /\ pc'[b] \in 3 .. 6 <=> pc[b] \in 3 .. 6
    BY <1>3
  <1>5. \A b \in Blocks : b \in Free \cup zombie_list \cup SemBlocked => pc'[b] = pc[b]
    BY <1>2
  <1>6. \A b \in Free \cup zombie_list \cup SemBlocked : b \in Blocks
    <2>1. SemBlocked \subseteq waiting_list /\ waiting_list \subseteq Blocks /\ zombie_list \subseteq Blocks
      BY <1>1 DEF SemInv, WaitsForOneThing, Core, TypeOK
    <2>2. Free \subseteq Blocks
      BY <1>1, ElementsType DEF SemInv, Core, TypeOK, Free
    <2> QED BY <2>1, <2>2
  <1>7. Inside' = Inside
    BY <1>4 DEF Inside
  <1>8. Holding'
    BY <1>1, <1>4, <1>5, <1>6, HoldingFrame
  <1>9. OneToken'
    <2>1. semaphores_list' = semaphores_list
      BY DEF semaphores_list
    <2>2. \A b \in SemBlocked' : pc'[b] = 3
      BY <1>1, <1>5, <1>6 DEF OneToken
    <2> QED BY <1>1, <1>7, <2>1, <2>2 DEF OneToken
  <1> QED BY <1>7, <1>8, <1>9

-----------------------------------------------------------------------------
(* The semaphore calls of a child *)

\* What they leave of the process table
LEMMA SemCallFrame ==
  ASSUME SemInv, IdleAwake, NEW x, NEW flags, NEW c,
         \/ internal_semOpen(x, flags, c) \/ internal_semClose(x)
         \/ internal_semWait(x) \/ internal_semPost(x)
  PROVE  IdleAwake' /\ UNCHANGED <<pid, last_pid, pcb_free, zombie_list>>
  <1>1. Core /\ Calls
    BY DEF SemInv, internal_semOpen, internal_semClose, internal_semWait, internal_semPost,
           CallsSem, CallsOther
  <1>2. ASSUME UNCHANGED <<pid, last_pid>>,
               Elements(ready_list) \subseteq Elements(ready_list') \cup Run'
        PROVE  IdleAwake'
    <2> SUFFICES ASSUME NEW i \in IdlePids, i < last_pid
                 PROVE  \E b \in Elements(ready_list') \cup Run' : pid[b] = i
      BY <1>2 DEF IdleAwake
    <2>1. PICK b \in Elements(ready_list) \cup Run : pid[b] = i
      BY DEF IdleAwake
    <2>2. b \in Elements(ready_list)
      BY <1>1, <2>1 DEF Calls, Run
    <2> QED BY <1>2, <2>1, <2>2
  <1>3. ASSUME NEW v, ReturnsSem(v) PROVE IdleAwake' /\ UNCHANGED <<pid, last_pid, pcb_free, zombie_list>>
    BY <1>2, <1>3 DEF ReturnsSem, processes, pools, table
  <1>4. ASSUME NEW s, NEW d, SemBlocks(s, d), ready_list # <<>>
        PROVE IdleAwake' /\ UNCHANGED <<pid, last_pid, pcb_free, zombie_list>>
    <2>1. /\ ready_list' = ReadyListRest /\ running' = Head(ready_list)
          /\ UNCHANGED <<pid, last_pid, pcb_free, zombie_list>>
      BY <1>4 DEF SemBlocks, Resume, processes, pools, table
    <2>2. Elements(ready_list) \subseteq Elements(ready_list') \cup Run'
      BY <1>1, <1>4, <2>1, HeadOfReady DEF Run
    <2> QED BY <1>2, <2>1, <2>2
  <1>5. ASSUME NEW s \in semaphores_list, waiters[s] # <<>>, SemWakes(s)
        PROVE IdleAwake' /\ UNCHANGED <<pid, last_pid, pcb_free, zombie_list>>
    <2> DEFINE p == sem_des[Head(waiters[s])].pcb
    <2>1. /\ ready_list' = Append(ready_list, p)
          /\ UNCHANGED <<pid, last_pid, pcb_free, zombie_list>>
      BY <1>5 DEF SemWakes, processes, pools, table
    <2>2. p \in Blocks
      <3>1. waiters[s] \in Seq(SemDescriptors) /\ s \in Semaphores
        BY DEF SemInv, SemTyped, semaphores_list
      <3>2. Head(waiters[s]) \in Elements(waiters[s])
        BY <1>5, <3>1 DEF Elements
      <3> QED BY <3>1, <3>2 DEF SemInv, Linked, UsedLinked, Waiting
    <2>3. ready_list \in Seq(Blocks)
      BY <1>1 DEF Core, TypeOK
    <2> HIDE DEF p
    <2>4. Elements(ready_list) \subseteq Elements(ready_list')
      BY <2>1, <2>2, <2>3, AppendElements
    <2> QED BY <1>2, <2>1, <2>4
  <1>6. CASE internal_semOpen(x, flags, c)
    BY <1>3, <1>6 DEF internal_semOpen, FailsSem, OpenSemDescriptor
  <1>7. CASE internal_semClose(x)
    BY <1>3, <1>7 DEF internal_semClose, FailsSem
  <1>8. CASE internal_semWait(x)
    <2>1. ASSUME NEW fault, Crash(fault)
          PROVE  IdleAwake' /\ UNCHANGED <<pid, last_pid, pcb_free, zombie_list>>
      BY <1>2, <2>1 DEF Crash, pools, table, queues
    <2> QED BY <1>3, <1>4, <1>8, <2>1 DEF internal_semWait, FailsSem
  <1>9. CASE internal_semPost(x)
    <2> DEFINE d == SemDescriptorList_byFd(x)
               s == sem_des[d].semaphore
    <2>1. running # NULL /\ running \in Blocks
      BY <1>1, RunningFacts DEF Calls
    <2>2. d # NULL => s \in semaphores_list
      BY <2>1, FoundDescriptor, RunningUses DEF SemInv
    <2>3. \/ \E v : ReturnsSem(v)
          \/ d # NULL /\ waiters[s] # <<>> /\ SemWakes(s)
      BY <1>9 DEF internal_semPost, FailsSem
    <2> HIDE DEF s, d
    <2> QED BY <1>3, <1>5, <2>2, <2>3
  <1> QED BY <1>6, <1>7, <1>8, <1>9

LEMMA SemIdStep ==
  ASSUME sem_id \in [Semaphores -> Int], NEW x, NEW i \in Int, NEW flags, NEW c,
         \/ internal_semOpen(i, flags, c) \/ internal_semClose(x)
         \/ internal_semWait(x) \/ internal_semPost(x)
  PROVE  sem_id' \in [Semaphores -> Int]
  <1>1. CASE internal_semOpen(i, flags, c)
    BY <1>1 DEF internal_semOpen, FailsSem, Semaphore_alloc, semaphore
  <1>2. CASE internal_semClose(x)
    BY <1>2 DEF internal_semClose, FailsSem, Semaphore_free, semaphore
  <1>3. CASE internal_semWait(x) \/ internal_semPost(x)
    BY <1>3 DEF internal_semWait, internal_semPost, FailsSem, SemBlocks, SemWakes, semaphore
  <1> QED BY <1>1, <1>2, <1>3

\* From semOpen to semClose the running child finds its descriptor, which uses
\* the one semaphore there is.
LEMMA CleanDescriptor ==
  ASSUME TestInv, test = "semaphoreClean", running # NULL, pc[running] \in 2 .. 7
  PROVE  LET d == sem_descriptors[running][1]
             s == sem_des[d].semaphore
         IN  /\ SemDescriptorList_byFd(local[running]["fd"]) = d
             /\ d # NULL /\ d \in Held(running) /\ Held(running) = {d} /\ d \in SemDescriptors
             /\ s \in Semaphores /\ semaphores_list = {s} /\ d \in users[s]
             /\ \A q \in Semaphores \ {s} : waiters[q] = <<>>
             /\ \/ count[s] = 1 /\ Inside = {} /\ waiters[s] = <<>>
                \/ count[s] = 0 /\ \E b \in Blocks : Inside = {b}
  <1> DEFINE mine == sem_descriptors[running]
             d == mine[1]
             s == sem_des[d].semaphore
  <1>1. SemInv /\ Holding /\ OneToken /\ running \in Blocks
    BY RunningFacts DEF TestInv
  <1>2. HoldsOne(running) /\ mine \in Seq(SemDescriptors)
    BY <1>1 DEF Holding, SemInv, SemTyped
  <1>3. Len(mine) = 1 /\ sem_des[d].fd = 0 /\ local[running]["fd"] = 0
    BY <1>2 DEF HoldsOne
  <1>4. d \in SemDescriptors /\ d # NULL /\ Elements(mine) = {d}
    BY <1>2, <1>3 DEF Elements, SemDescriptors
  <1>5. SemDescriptorList_byFd(0) = d
    <2> DEFINE hits == {k \in 1 .. Len(mine) : sem_des[mine[k]].fd = 0}
    <2>1. hits = {1}
      BY <1>3
    <2>2. (CHOOSE k \in hits : \A l \in hits : k <= l) = 1
      BY <2>1
    <2>3. SemDescriptorList_byFd(0) =
            IF hits = {} \/ 0 < 0 \/ 0 > MAX_NUM_SEMDESCRIPTORS_PER_PROCESS
              THEN NULL ELSE mine[CHOOSE k \in hits : \A l \in hits : k <= l]
      BY DEF SemDescriptorList_byFd
    <2> QED BY <2>1, <2>2, <2>3
  <1>6. d \in Held(running) /\ Held(running) = {d}
    BY <1>4 DEF Held
  <1>7. s \in Semaphores /\ s \in semaphores_list /\ d \in users[s]
    BY <1>1, <1>6, RunningUses
  <1>8. semaphores_list = {s}
    BY <1>1, <1>7 DEF OneToken
  <1> QED BY <1>1, <1>3, <1>4, <1>5, <1>6, <1>7, <1>8 DEF OneToken

\* Who is inside after a step was inside before, or has just come in.
InsideKept == \A b \in Inside' : pc'[b] = 3 \/ (b \in Inside /\ b # running /\ pc'[b] = pc[b])

LEMMA CleanWait ==
  ASSUME TestInv, test = "semaphoreClean", At("semWait"), internal_semWait(Value), local' = local
  PROVE  Holding' /\ OneToken' /\ InsideKept
  <1> DEFINE d == sem_descriptors[running][1]
             s == sem_des[d].semaphore
  <1>1. /\ running # NULL /\ running \in Blocks /\ running \notin SemBlocked /\ pc[running] = 2
        /\ pc'[running] = 3 /\ \A b \in Blocks \ {running} : pc'[b] = pc[b]
    BY CleanAt
  <1>2. Value = local[running]["fd"]
    BY CleanAt
  <1>3. SemInv /\ IdleAwake /\ Holding /\ OneToken /\ count \in [Semaphores -> Int]
        /\ waiters \in [Semaphores -> Seq(SemDescriptors)]
    BY DEF TestInv, SemInv, SemTyped
  <1>4. /\ SemDescriptorList_byFd(Value) = d /\ d # NULL /\ d \in Held(running)
        /\ s \in Semaphores /\ semaphores_list = {s}
        /\ \A q \in Semaphores \ {s} : waiters[q] = <<>>
        /\ \/ count[s] = 1 /\ Inside = {} /\ waiters[s] = <<>>
           \/ count[s] = 0 /\ \E b \in Blocks : Inside = {b}
    BY <1>1, <1>2, CleanDescriptor
  <1>5. UNCHANGED <<pcb_free, zombie_list>>
    BY <1>3, SemCallFrame
  <1>6. \A b \in SemBlocked : b \in Blocks /\ pc[b] = 3
    BY <1>3 DEF OneToken, SemInv, WaitsForOneThing, Core, TypeOK
  <1>7. Holding' \/ ~UNCHANGED <<sem_descriptors, last_sem_fd, sem_des, sem_des_free>>
    <2>1. \A b \in Blocks : pc'[b] \in 0 .. 9 /\ (pc'[b] \in 2 .. 7 <=> pc[b] \in 2 .. 7)
      BY <1>1, <1>3 DEF Holding
    <2>2. Free \cup zombie_list \subseteq Blocks /\ Free' = Free
      BY <1>3, <1>5, ElementsType DEF SemInv, Core, TypeOK, Free
    <2> QED BY <1>3, <1>5, <2>1, <2>2, HoldingFrame
  <1> HIDE DEF d, s
  <1>8. CASE /\ Available(s) /\ count' = [count EXCEPT ![s] = @ - 1]
             /\ UNCHANGED <<sem_free, sem_id, semopened>>
    <2>1. UNCHANGED <<waiters, sem_descriptors, last_sem_fd, sem_des, sem_des_free>>
      BY <1>8 DEF semopened
    <2>2. count[s] = 1 /\ Inside = {} /\ waiters[s] = <<>> /\ count'[s] = 0
      BY <1>3, <1>4, <1>8 DEF Available
    <2>3. SemBlocked' = SemBlocked
      BY <2>1 DEF SemBlocked, AllWaiting, Waiting
    <2>4. Inside' = {running}
      BY <1>1, <2>2, <2>3 DEF Inside
    <2>5. semaphores_list' = {s}
      BY <1>4, <1>8 DEF semaphores_list
    <2>6. \A b \in SemBlocked' : pc'[b] = 3
      BY <1>1, <1>6, <2>3
    <2>7. OneToken'
      BY <1>1, <1>3, <1>4, <1>8, <2>1, <2>2, <2>4, <2>5, <2>6 DEF OneToken
    <2> QED BY <1>1, <1>7, <2>1, <2>4, <2>7 DEF InsideKept
  <1>9. CASE ~Available(s) /\ ready_list # <<>> /\ CallsSem /\ SemBlocks(s, d)
    <2>1. /\ UNCHANGED <<sem_free, sem_id, count, sem_descriptors, last_sem_fd, sem_des, sem_des_free>>
          /\ waiters' = [waiters EXCEPT ![s] = Append(@, d)]
      BY <1>9 DEF SemBlocks, semaphore
    <2>2. SemBlocked' = SemBlocked \cup {running}
      BY <1>3, <1>4, <1>9, BlocksKeeps DEF s
    <2>3. Inside' = Inside
      BY <1>1, <2>2 DEF Inside
    <2>4. count[s] = 0 /\ \E b \in Blocks : Inside = {b}
      BY <1>4, <1>9 DEF Available
    <2>5. semaphores_list' = {s}
      BY <1>4, <2>1 DEF semaphores_list
    <2>6. \A q \in Semaphores \ {s} : waiters'[q] = <<>>
      BY <1>3, <1>4, <2>1
    <2>7. \A b \in SemBlocked' : pc'[b] = 3
      BY <1>1, <1>6, <2>2
    <2>8. OneToken'
      BY <1>3, <1>4, <2>1, <2>3, <2>4, <2>5, <2>6, <2>7 DEF OneToken
    <2>9. InsideKept
      BY <1>1, <2>3 DEF InsideKept, Inside
    <2> QED BY <1>7, <2>1, <2>8, <2>9
  <1>10. Calls /\ IdleStarted
    BY DEF internal_semWait
  <1>11. ready_list # <<>>
    <2>1. IdlePids # {}
      OBVIOUS
    <2> QED BY <1>3, <1>10, <2>1, IdleIsReady
  <1> QED BY <1>4, <1>8, <1>9, <1>11 DEF internal_semWait, s

LEMMA CleanPost ==
  ASSUME TestInv, test = "semaphoreClean", At("semPost"), internal_semPost(Value), local' = local
  PROVE  Holding' /\ OneToken' /\ InsideKept
  <1> DEFINE d == sem_descriptors[running][1]
             s == sem_des[d].semaphore
  <1>1. /\ running # NULL /\ running \in Blocks /\ running \notin SemBlocked /\ pc[running] = 6
        /\ pc'[running] = 7 /\ \A b \in Blocks \ {running} : pc'[b] = pc[b]
    BY CleanAt
  <1>2. Value = local[running]["fd"]
    BY CleanAt
  <1>3. SemInv /\ IdleAwake /\ Holding /\ OneToken /\ count \in [Semaphores -> Int]
        /\ waiters \in [Semaphores -> Seq(SemDescriptors)]
    BY DEF TestInv, SemInv, SemTyped
  <1>4. /\ SemDescriptorList_byFd(Value) = d /\ d # NULL /\ d \in Held(running)
        /\ s \in Semaphores /\ semaphores_list = {s}
        /\ \A q \in Semaphores \ {s} : waiters[q] = <<>>
        /\ \/ count[s] = 1 /\ Inside = {} /\ waiters[s] = <<>>
           \/ count[s] = 0 /\ \E b \in Blocks : Inside = {b}
    BY <1>1, <1>2, CleanDescriptor
  <1>5. Inside = {running} /\ count[s] = 0
    <2>1. running \in Inside
      BY <1>1 DEF Inside
    <2> QED BY <1>4, <2>1
  <1>6. UNCHANGED <<pcb_free, zombie_list>>
    BY <1>3, SemCallFrame
  <1>7. \A b \in SemBlocked : b \in Blocks /\ pc[b] = 3
    BY <1>3 DEF OneToken, SemInv, WaitsForOneThing, Core, TypeOK
  <1>8. Holding' \/ ~UNCHANGED <<sem_descriptors, last_sem_fd, sem_des, sem_des_free>>
    <2>1. \A b \in Blocks : pc'[b] \in 0 .. 9 /\ (pc'[b] \in 2 .. 7 <=> pc[b] \in 2 .. 7)
      BY <1>1, <1>3 DEF Holding
    <2>2. Free \cup zombie_list \subseteq Blocks /\ Free' = Free
      BY <1>3, <1>6, ElementsType DEF SemInv, Core, TypeOK, Free
    <2> QED BY <1>3, <1>6, <2>1, <2>2, HoldingFrame
  <1> HIDE DEF d, s
  <1>9. CASE CallsSem /\ waiters[s] # <<>> /\ SemWakes(s)
    <2> DEFINE p == sem_des[Head(waiters[s])].pcb
    <2>1. p \in SemBlocked /\ SemBlocked' = SemBlocked \ {p}
      BY <1>3, <1>4, <1>9, WakesKeeps
    <2>2. /\ UNCHANGED <<sem_free, sem_id, count, sem_descriptors, last_sem_fd, sem_des, sem_des_free>>
          /\ \A q \in Semaphores \ {s} : waiters'[q] = waiters[q]
      BY <1>3, <1>9 DEF SemWakes, semaphore
    <2> HIDE DEF p
    <2>3. p \in Blocks /\ pc[p] = 3 /\ p # running /\ pc'[p] = 3
      BY <1>1, <1>7, <2>1
    <2>4. Inside' = {p}
      <3>1. \A b \in Blocks \ {running} : b \notin SemBlocked => pc[b] \notin 3 .. 6
        BY <1>5 DEF Inside
      <3> QED BY <1>1, <2>1, <2>3, <3>1 DEF Inside
    <2>5. semaphores_list' = {s}
      BY <1>4, <2>2 DEF semaphores_list
    <2>6. \A b \in SemBlocked' : pc'[b] = 3
      BY <1>1, <1>7, <2>1
    <2>7. OneToken'
      BY <1>3, <1>4, <1>5, <2>2, <2>3, <2>4, <2>5, <2>6 DEF OneToken
    <2> QED BY <1>8, <2>2, <2>3, <2>4, <2>7 DEF InsideKept
  <1>10. CASE /\ waiters[s] = <<>> /\ count' = [count EXCEPT ![s] = @ + 1]
              /\ UNCHANGED <<sem_free, sem_id, semopened>>
    <2>1. UNCHANGED <<waiters, sem_descriptors, last_sem_fd, sem_des, sem_des_free>>
      BY <1>10 DEF semopened
    <2>2. count'[s] = 1
      BY <1>3, <1>4, <1>5, <1>10
    <2>3. SemBlocked' = SemBlocked
      BY <2>1 DEF SemBlocked, AllWaiting, Waiting
    <2>4. Inside' = {}
      BY <1>1, <1>5, <2>3 DEF Inside
    <2>5. semaphores_list' = {s}
      BY <1>4, <1>10 DEF semaphores_list
    <2>6. \A b \in SemBlocked' : pc'[b] = 3
      BY <1>1, <1>7, <2>3
    <2>7. OneToken'
      BY <1>3, <1>4, <1>10, <2>1, <2>2, <2>4, <2>5, <2>6 DEF OneToken
    <2> QED BY <1>8, <2>1, <2>4, <2>7 DEF InsideKept
  <1>11. Positive(s)
    BY <1>5 DEF Positive
  <1> QED BY <1>4, <1>9, <1>10, <1>11 DEF internal_semPost, s

\* The descriptor of a child between semOpen and semClose
LEMMA ChildUses ==
  ASSUME SemInv, NEW b \in Blocks, HoldsOne(b)
  PROVE  LET d == sem_descriptors[b][1]
             s == sem_des[d].semaphore
         IN  /\ Held(b) = {d} /\ d \in SemDescriptors /\ d \notin sem_des_free
             /\ sem_des[d].pcb = b
             /\ b \notin SemBlocked => s \in semaphores_list /\ d \in users[s]
  <1> DEFINE mine == sem_descriptors[b]
             d == mine[1]
             s == sem_des[d].semaphore
  <1>1. mine \in Seq(SemDescriptors) /\ Len(mine) = 1
    BY DEF HoldsOne, SemInv, SemTyped
  <1>2. d \in SemDescriptors /\ Elements(mine) = {d}
    BY <1>1 DEF Elements
  <1>3. Held(b) = {d} /\ d \in Held(b)
    BY <1>2 DEF Held
  <1>4. /\ sem_des[d].pcb = b /\ d \notin sem_des_free
        /\ s \in Semaphores /\ d \in users[s] \cup Waiting(s)
        /\ d \in users[s] => s \in semaphores_list
    BY <1>3 DEF SemInv, Linked, HeldLinked
  <1>5. b \notin SemBlocked => d \notin Waiting(s)
    BY <1>4 DEF SemBlocked, AllWaiting
  <1> QED BY <1>2, <1>3, <1>4, <1>5

LEMMA CleanClose ==
  ASSUME TestInv, test = "semaphoreClean", At("semClose"), internal_semClose(Value), local' = local
  PROVE  Holding' /\ OneToken' /\ InsideKept
  <1> DEFINE mine == sem_descriptors[running]
             d == mine[1]
             s == sem_des[d].semaphore
  <1>1. /\ running # NULL /\ running \in Blocks /\ running \notin SemBlocked /\ pc[running] = 7
        /\ pc'[running] = 8 /\ \A b \in Blocks \ {running} : pc'[b] = pc[b]
        /\ Value = local[running]["fd"] /\ running \notin Free \cup zombie_list
    BY CleanAt
  <1>2. SemInv /\ IdleAwake /\ Holding /\ OneToken
    BY DEF TestInv
  <1>3. /\ SemDescriptorList_byFd(Value) = d /\ d # NULL /\ Held(running) = {d}
        /\ d \in SemDescriptors
        /\ s \in Semaphores /\ semaphores_list = {s} /\ d \in users[s]
        /\ \A q \in Semaphores \ {s} : waiters[q] = <<>>
        /\ \/ count[s] = 1 /\ Inside = {} /\ waiters[s] = <<>>
           \/ count[s] = 0 /\ \E b \in Blocks : Inside = {b}
    BY <1>1, CleanDescriptor
  <1>4. /\ sem_descriptors' = [sem_descriptors EXCEPT ![running] = DetachAt(@, IndexIn(@, d))]
        /\ sem_des_free' = sem_des_free \cup {d}
        /\ last_sem_fd' = [last_sem_fd EXCEPT ![running] = @ - 1]
        /\ sem_des' = [sem_des EXCEPT ![d] = Unset]
        /\ IF NobodyUses(s, d) THEN Semaphore_free(s) ELSE UNCHANGED semaphore
        /\ waiters' = waiters
    BY <1>3 DEF internal_semClose
  <1>5. UNCHANGED <<pcb_free, zombie_list>>
    BY <1>2, SemCallFrame
  <1>6. /\ mine \in Seq(SemDescriptors) /\ HoldsOne(running) /\ Distinct(mine)
        /\ sem_descriptors \in [Blocks -> Seq(SemDescriptors)]
        /\ last_sem_fd \in [Blocks -> Int]
        /\ sem_des \in [SemDescriptors -> SemDesRecords]
        /\ count \in [Semaphores -> Int] /\ sem_free \in Seq(Semaphores)
    BY <1>1, <1>2 DEF Holding, SemInv, SemTyped, Linked
  <1>7. \A b \in Blocks : b = running => HoldsNone(b)'
    <2>1. Len(mine) = 1 /\ mine # <<>> /\ Head(mine) = d /\ last_sem_fd[running] = 1
      BY <1>6 DEF HoldsOne
    <2>2. DetachAt(mine, IndexIn(mine, d)) = Tail(mine)
      BY <1>6, <2>1, DetachHead
    <2>3. sem_descriptors'[running] = DetachAt(mine, IndexIn(mine, d)) /\ last_sem_fd'[running] = 0
      <3>1. last_sem_fd'[running] = last_sem_fd[running] - 1
        BY <1>1, <1>4, <1>6
      <3> QED BY <1>1, <1>4, <1>6, <2>1, <3>1
    <2> HIDE DEF mine, d
    <2>4. Tail(mine) \in Seq(SemDescriptors) /\ Len(Tail(mine)) = 0
      BY <1>6, <2>1
    <2>5. Tail(mine) = <<>>
      BY <2>4
    <2> QED BY <2>2, <2>3, <2>5 DEF HoldsNone
  <1>8. \A b \in Blocks \ {running} :
          sem_descriptors'[b] = sem_descriptors[b] /\ last_sem_fd'[b] = last_sem_fd[b]
    BY <1>4, <1>6
  <1>9. \A e \in SemDescriptors \ {d} : sem_des'[e] = sem_des[e]
    BY <1>4, <1>6
  <1>10. ASSUME NEW b \in Blocks \ {running}, HoldsOne(b)
         PROVE  sem_descriptors[b][1] \in SemDescriptors \ {d}
    <2>1. /\ sem_des[sem_descriptors[b][1]].pcb = b /\ sem_des[d].pcb = running
          /\ sem_descriptors[b][1] \in SemDescriptors
      BY <1>1, <1>2, <1>6, <1>10, ChildUses
    <2> QED BY <2>1
  <1>11. ASSUME NEW b \in Blocks \ {running}
         PROVE  /\ HoldsOne(b) => HoldsOne(b)'
                /\ HoldsNone(b) => HoldsNone(b)'
                /\ Held(b)' = Held(b)
    <2>1. HoldsOne(b) => HoldsOne(b)'
      BY <1>8, <1>9, <1>10 DEF HoldsOne
    <2> QED BY <1>8, <2>1 DEF HoldsNone, Held
  <1> HIDE DEF mine, d, s
  <1>12. Holding'
    <2>1. \A b \in Blocks : pc'[b] \in 0 .. 9
      BY <1>1, <1>2 DEF Holding
    <2>2. \A b \in Blocks : IF pc'[b] \in 2 .. 7 THEN HoldsOne(b)' ELSE HoldsNone(b)'
      <3>1. pc'[running] \notin 2 .. 7
        BY <1>1
      <3>2. \A b \in Blocks \ {running} : IF pc'[b] \in 2 .. 7 THEN HoldsOne(b)' ELSE HoldsNone(b)'
        BY <1>1, <1>2, <1>11 DEF Holding
      <3> QED BY <1>7, <3>1, <3>2
    <2>3. \A b \in Free' \cup zombie_list' : pc'[b] \notin 2 .. 7
      <3>1. Free \cup zombie_list \subseteq Blocks /\ Free' = Free
        BY <1>2, <1>5, ElementsType DEF SemInv, Core, TypeOK, Free
      <3> QED BY <1>1, <1>2, <1>5, <3>1 DEF Holding
    <2>4. ASSUME NEW e \in SemDescriptors \ sem_des_free' PROVE \E b \in Blocks : e \in Held(b)'
      <3>1. e # d /\ e \in SemDescriptors \ sem_des_free
        BY <1>4, <2>4
      <3>2. PICK b \in Blocks : e \in Held(b)
        BY <1>2, <3>1 DEF Holding
      <3> QED BY <1>3, <1>11, <3>1, <3>2
    <2> QED BY <2>1, <2>2, <2>3, <2>4 DEF Holding
  <1>13. SemBlocked' = SemBlocked
    <2>1. AllWaiting' = AllWaiting
      BY <1>4 DEF AllWaiting, Waiting
    <2>2. d \notin AllWaiting
      BY <1>1, <1>2, <1>3, RunningUses
    <2>3. \A e \in AllWaiting : e \in SemDescriptors
      BY <1>2, ElementsType DEF AllWaiting, Waiting, SemInv, SemTyped
    <2> QED BY <1>9, <2>1, <2>2, <2>3 DEF SemBlocked
  <1>14. Inside' = Inside /\ running \notin Inside
    BY <1>1, <1>13 DEF Inside
  <1>15. \A b \in SemBlocked' : pc'[b] = 3
    <2>1. \A b \in SemBlocked : b \in Blocks /\ pc[b] = 3
      BY <1>2 DEF OneToken, SemInv, WaitsForOneThing, Core, TypeOK
    <2> QED BY <1>1, <1>13, <2>1
  <1>16. OneToken'
    <2>1. CASE NobodyUses(s, d)
      <3>1. waiters[s] = <<>>
        <4> SUFFICES ASSUME NEW b \in Blocks, Inside = {b} PROVE FALSE
          BY <1>3
        <4>1. b # running /\ pc[b] \in 3 .. 6 /\ b \notin SemBlocked
          BY <1>14 DEF Inside
        <4>2. HoldsOne(b)
          BY <1>2, <4>1 DEF Holding
        <4> DEFINE e == sem_descriptors[b][1]
        <4>3. e # d /\ e \in users[sem_des[e].semaphore] /\ sem_des[e].semaphore \in semaphores_list
          BY <1>2, <1>10, <4>1, <4>2, ChildUses
        <4> QED BY <1>3, <2>1, <4>3 DEF NobodyUses
      <3>2. sem_free' = <<s>> \o sem_free
        BY <1>4, <2>1 DEF Semaphore_free
      <3>3. Elements(<<s>> \o sem_free) = {s} \cup Elements(sem_free)
        <4> DEFINE one == <<s>>
        <4>1. one \in Seq(Semaphores) /\ Elements(one) = {s}
          BY <1>3, SingletonElements
        <4> HIDE DEF one
        <4>2. Elements(one \o sem_free) = Elements(one) \cup Elements(sem_free)
          BY <1>6, <4>1, ConcatElements
        <4> QED BY <4>1, <4>2 DEF one
      <3>4. semaphores_list' = {}
        BY <1>3, <3>2, <3>3 DEF semaphores_list
      <3> QED BY <1>3, <1>4, <1>15, <3>1, <3>4 DEF OneToken
    <2>2. CASE ~NobodyUses(s, d)
      <3>1. UNCHANGED <<sem_free, sem_id, count>>
        BY <1>4, <2>2 DEF semaphore
      <3>2. semaphores_list' = semaphores_list
        BY <3>1 DEF semaphores_list
      <3> QED BY <1>2, <1>4, <1>14, <1>15, <3>1, <3>2 DEF OneToken
    <2> QED BY <2>1, <2>2
  <1>17. InsideKept
    BY <1>1, <1>14 DEF InsideKept, Inside
  <1> QED BY <1>12, <1>16, <1>17

LEMMA PoolSizes ==
  /\ IsFiniteSet(SemDescriptors) /\ Cardinality(SemDescriptors) = MAX_NUM_PROCESSES
  /\ IsFiniteSet(Blocks) /\ Cardinality(Blocks) = MAX_NUM_PROCESSES
  BY FS_Interval DEF SemDescriptors, Blocks

\* There is a descriptor for every process: as long as nobody holds two and one
\* process holds none, the pool is not empty.
LEMMA DescriptorLeft ==
  ASSUME SemInv, \A d \in SemDescriptors \ sem_des_free : \E b \in Blocks : d \in Held(b),
         \A b \in Blocks : \A d, e \in Held(b) : d = e, NEW r \in Blocks, Held(r) = {}
  PROVE  sem_des_free # {}
  <1> SUFFICES ASSUME sem_des_free = {} PROVE FALSE
    OBVIOUS
  <1> DEFINE owner == [d \in SemDescriptors |-> sem_des[d].pcb]
             rest == Blocks \ {r}
  <1>1. ASSUME NEW d \in SemDescriptors
        PROVE  sem_des[d].pcb \in rest /\ d \in Held(sem_des[d].pcb)
    <2>1. PICK b \in Blocks : d \in Held(b)
      OBVIOUS
    <2>2. sem_des[d].pcb = b
      BY <2>1 DEF SemInv, Linked, HeldLinked
    <2> QED BY <2>1, <2>2
  <1>2. owner \in [SemDescriptors -> rest]
    BY <1>1
  <1>3. /\ IsFiniteSet(SemDescriptors) /\ Cardinality(SemDescriptors) = MAX_NUM_PROCESSES
        /\ IsFiniteSet(Blocks) /\ Cardinality(Blocks) = MAX_NUM_PROCESSES
    BY PoolSizes
  <1>4. IsFiniteSet(rest) /\ Cardinality(rest) = MAX_NUM_PROCESSES - 1
    BY <1>3, FS_RemoveElement
  <1>5. Cardinality(rest) < Cardinality(SemDescriptors)
    BY <1>3, <1>4
  <1> HIDE DEF rest, owner
  <1>6. PICK d \in SemDescriptors, e \in SemDescriptors : d # e /\ owner[d] = owner[e]
    BY <1>2, <1>3, <1>4, <1>5, FS_PigeonHole
  <1>7. sem_des[d].pcb = sem_des[e].pcb
    BY <1>6 DEF owner
  <1> QED BY <1>1, <1>6, <1>7 DEF rest

\* What semOpen does for a child: it always succeeds.
LEMMA CleanOpened ==
  ASSUME TestInv, test = "semaphoreClean", At("semOpen"),
         internal_semOpen(OpenId, {"CREATE"}, OpenCount)
  PROVE  \E s \in Semaphores, d \in sem_des_free :
           /\ sem_des_free' = sem_des_free \ {d}
           /\ sem_des' = [sem_des EXCEPT ![d] = [pcb |-> running, semaphore |-> s, fd |-> 0]]
           /\ sem_descriptors' = [sem_descriptors EXCEPT ![running] = Append(@, d)]
           /\ last_sem_fd' = [last_sem_fd EXCEPT ![running] = @ + 1]
           /\ reported'.value = 0 /\ waiters' = waiters
           /\ \/ s \in semaphores_list /\ UNCHANGED semaphore
              \/ /\ semaphores_list = {} /\ semaphores_list' = {s}
                 /\ sem_id'[s] = ID /\ count'[s] = 1
  <1> DEFINE s == SemaphoreList_byId(ID)
  <1>1. /\ running # NULL /\ running \in Blocks /\ pc[running] = 1
    BY CleanAt
  <1>2. SemInv /\ Holding /\ OneToken /\ SemTyped
    BY DEF TestInv, SemInv
  <1>3. OpenId = ID /\ OpenCount = 1
    BY DEF OpenId, OpenCount
  <1>4. HoldsNone(running)
    BY <1>1, <1>2 DEF Holding
  <1>5. last_sem_fd[running] = 0 /\ Held(running) = {}
    BY <1>4, EmptyElements DEF HoldsNone, Held
  <1>6. sem_des_free # {}
    <2>1. ASSUME NEW b \in Blocks, NEW d \in Held(b), NEW e \in Held(b) PROVE d = e
      <3>1. ~HoldsNone(b)
        BY EmptyElements DEF HoldsNone, Held
      <3>2. HoldsOne(b)
        BY <1>2, <3>1 DEF Holding
      <3> QED BY <1>2, <3>2, ChildUses
    <2> QED BY <1>1, <1>2, <1>5, <2>1, DescriptorLeft DEF Holding
  <1>7. s = NULL => semaphores_list = {}
    <2> SUFFICES ASSUME NEW q \in semaphores_list PROVE s # NULL
      OBVIOUS
    <2>1. {x \in semaphores_list : sem_id[x] = ID} = {q}
      BY <1>2 DEF OneToken
    <2> QED BY <2>1 DEF SemaphoreList_byId, semaphores_list, Semaphores
  <1>8. s # NULL => s \in semaphores_list
    BY DEF SemaphoreList_byId
  <1>9. s = NULL => sem_free # <<>>
    <2>1. 1 \in Semaphores
      BY DEF Semaphores
    <2> QED BY <1>7, <2>1, EmptyElements DEF semaphores_list
  <1> HIDE DEF s
  <1>10. ~SemOpenRefused(ID, s, {"CREATE"})
    <2>1. last_sem_fd[running] + 1 = 1 /\ ~(1 > MAX_NUM_SEMDESCRIPTORS_PER_PROCESS)
      BY <1>5
    <2>2. ~(ID < 0)
      BY DEF ID
    <2>3. ~({"CREATE", "EXCL"} \subseteq {"CREATE"})
      OBVIOUS
    <2> QED BY <1>9, <2>1, <2>2, <2>3 DEF SemOpenRefused
  <1>11. ASSUME NEW q, NEW before, OpenSemDescriptor(q, before)
         PROVE  \E d \in sem_des_free :
                  /\ sem_des_free' = sem_des_free \ {d}
                  /\ sem_des' = [sem_des EXCEPT ![d] = [pcb |-> running, semaphore |-> q, fd |-> 0]]
                  /\ sem_descriptors' = [sem_descriptors EXCEPT ![running] = Append(@, d)]
                  /\ last_sem_fd' = [last_sem_fd EXCEPT ![running] = @ + 1]
                  /\ reported'.value = 0
    BY <1>5, <1>6, <1>11 DEF OpenSemDescriptor, ReturnsSem, Answers
  <1>12. CASE s # NULL /\ OpenSemDescriptor(s, users[s]) /\ UNCHANGED <<semaphore, waiters>>
    <2>1. s \in Semaphores /\ s \in semaphores_list /\ waiters' = waiters /\ UNCHANGED semaphore
      BY <1>8, <1>12 DEF semaphores_list
    <2> QED BY <1>11, <1>12, <2>1
  <1>13. CASE /\ s = NULL /\ Semaphore_alloc(ID, 1) /\ OpenSemDescriptor(Head(sem_free), {})
              /\ UNCHANGED waiters
    <2> DEFINE h == Head(sem_free)
    <2>1. /\ h \in Elements(sem_free) /\ Elements(Tail(sem_free)) = Elements(sem_free) \ {h}
      BY <1>2, <1>9, <1>13, TailElements DEF SemTyped
    <2>2. h \in Semaphores
      BY <1>2, <2>1, ElementsType DEF SemTyped
    <2> HIDE DEF h
    <2>3. /\ sem_free' = Tail(sem_free)
          /\ sem_id' = [sem_id EXCEPT ![h] = ID] /\ count' = [count EXCEPT ![h] = 1]
      BY <1>13 DEF Semaphore_alloc, h
    <2>4. semaphores_list' = {h}
      BY <1>7, <1>13, <2>1, <2>2, <2>3 DEF semaphores_list
    <2>5. sem_id'[h] = ID /\ count'[h] = 1
      BY <1>2, <2>2, <2>3 DEF SemTyped, TestInv, ProgramTyped
    <2> QED BY <1>7, <1>11, <1>13, <2>2, <2>4, <2>5 DEF h
  <1> QED BY <1>3, <1>10, <1>12, <1>13 DEF internal_semOpen, s

LEMMA CleanOpen ==
  ASSUME TestInv, test = "semaphoreClean", At("semOpen"),
         internal_semOpen(OpenId, {"CREATE"}, OpenCount), Assign(reported'.value)
  PROVE  Holding' /\ OneToken' /\ Inside' = Inside /\ running \notin Inside
  <1>1. /\ running # NULL /\ running \in Blocks /\ running \notin SemBlocked /\ pc[running] = 1
        /\ pc'[running] = 2 /\ \A b \in Blocks \ {running} : pc'[b] = pc[b]
        /\ Variable = "fd" /\ running \notin Free \cup zombie_list
    BY CleanAt
  <1>2. SemInv /\ SemTyped /\ Linked /\ IdleAwake /\ Holding /\ OneToken
    BY DEF TestInv, SemInv
  <1>3. PICK s \in Semaphores, d \in sem_des_free :
           /\ sem_des_free' = sem_des_free \ {d}
           /\ sem_des' = [sem_des EXCEPT ![d] = [pcb |-> running, semaphore |-> s, fd |-> 0]]
           /\ sem_descriptors' = [sem_descriptors EXCEPT ![running] = Append(@, d)]
           /\ last_sem_fd' = [last_sem_fd EXCEPT ![running] = @ + 1]
           /\ reported'.value = 0 /\ waiters' = waiters
           /\ \/ s \in semaphores_list /\ UNCHANGED semaphore
              \/ /\ semaphores_list = {} /\ semaphores_list' = {s}
                 /\ sem_id'[s] = ID /\ count'[s] = 1
    BY CleanOpened
  <1>4. UNCHANGED <<pcb_free, zombie_list>>
    BY <1>2, SemCallFrame
  <1>5. d \in SemDescriptors /\ d \notin AllWaiting /\ \A b \in Blocks : d \notin Held(b)
    BY <1>2, FreshDescriptor DEF SemTyped
  <1>6. /\ sem_des'[d].fd = 0
        /\ \A e \in SemDescriptors \ {d} : sem_des'[e] = sem_des[e]
    BY <1>2, <1>3, <1>5 DEF SemTyped
  <1>7. /\ local'[running]["fd"] = 0
        /\ \A b \in Blocks \ {running} : local'[b] = local[b]
    <2>1. local \in [Blocks -> [Locals -> Int]] /\ "fd" \in Locals
      BY DEF TestInv, ProgramTyped, Locals
    <2> QED BY <1>1, <1>3, <2>1 DEF Assign
  <1>8. /\ sem_descriptors'[running] = <<d>> /\ last_sem_fd'[running] = 1
        /\ \A b \in Blocks \ {running} :
             sem_descriptors'[b] = sem_descriptors[b] /\ last_sem_fd'[b] = last_sem_fd[b]
    <2>1. last_sem_fd[running] = 0 /\ sem_descriptors[running] = <<>>
      BY <1>1, <1>2 DEF Holding, HoldsNone
    <2>2. Append(<<>>, d) = <<d>>
      OBVIOUS
    <2> QED BY <1>1, <1>2, <1>3, <2>1, <2>2 DEF SemTyped
  <1>9. \A b \in Blocks : b = running => HoldsOne(b)' /\ Held(b)' = {d}
    <2>1. Len(<<d>>) = 1 /\ <<d>>[1] = d
      OBVIOUS
    <2> QED BY <1>6, <1>7, <1>8, <2>1, SingletonElements DEF HoldsOne, Held
  <1>10. ASSUME NEW b \in Blocks \ {running}
         PROVE  /\ HoldsOne(b) => HoldsOne(b)'
                /\ HoldsNone(b) => HoldsNone(b)'
                /\ Held(b)' = Held(b)
    <2>1. HoldsOne(b) => sem_descriptors[b][1] \in SemDescriptors \ {d}
      BY <1>2, <1>5, ChildUses
    <2>2. HoldsOne(b) => HoldsOne(b)'
      BY <1>6, <1>7, <1>8, <2>1 DEF HoldsOne
    <2> QED BY <1>8, <2>2 DEF HoldsNone, Held
  <1>11. Holding'
    <2>1. \A b \in Blocks : pc'[b] \in 0 .. 9
      BY <1>1, <1>2 DEF Holding
    <2>2. \A b \in Blocks : IF pc'[b] \in 2 .. 7 THEN HoldsOne(b)' ELSE HoldsNone(b)'
      <3>1. pc'[running] \in 2 .. 7
        BY <1>1
      <3>2. \A b \in Blocks \ {running} : IF pc'[b] \in 2 .. 7 THEN HoldsOne(b)' ELSE HoldsNone(b)'
        BY <1>1, <1>2, <1>10 DEF Holding
      <3> QED BY <1>9, <3>1, <3>2
    <2>3. \A b \in Free' \cup zombie_list' : pc'[b] \notin 2 .. 7
      <3>1. Free \cup zombie_list \subseteq Blocks /\ Free' = Free
        BY <1>2, <1>4, ElementsType DEF SemInv, Core, TypeOK, Free
      <3> QED BY <1>1, <1>2, <1>4, <3>1 DEF Holding
    <2>4. ASSUME NEW e \in SemDescriptors \ sem_des_free' PROVE \E b \in Blocks : e \in Held(b)'
      <3>1. CASE e = d
        BY <1>1, <1>9, <3>1
      <3>2. CASE e # d
        <4>1. PICK b \in Blocks : e \in Held(b)
          BY <1>2, <1>3, <2>4, <3>2 DEF Holding
        <4>2. b # running
          BY <1>1, <1>2, <4>1, EmptyElements DEF Holding, HoldsNone, Held
        <4> QED BY <1>10, <4>1, <4>2
      <3> QED BY <3>1, <3>2
    <2> QED BY <2>1, <2>2, <2>3, <2>4 DEF Holding
  <1>12. SemBlocked' = SemBlocked
    <2>1. AllWaiting' = AllWaiting
      BY <1>3 DEF AllWaiting, Waiting
    <2>2. \A e \in AllWaiting : e \in SemDescriptors
      BY <1>2, ElementsType DEF AllWaiting, Waiting, SemTyped
    <2> QED BY <1>5, <1>6, <2>1, <2>2 DEF SemBlocked
  <1>13. Inside' = Inside /\ running \notin Inside
    BY <1>1, <1>12 DEF Inside
  <1>14. \A b \in SemBlocked' : pc'[b] = 3
    <2>1. \A b \in SemBlocked : b \in Blocks /\ pc[b] = 3
      BY <1>2 DEF OneToken, SemInv, WaitsForOneThing, Core, TypeOK
    <2> QED BY <1>1, <1>12, <2>1
  <1>15. OneToken'
    <2>1. CASE s \in semaphores_list /\ UNCHANGED semaphore
      <3>1. UNCHANGED <<sem_free, sem_id, count>>
        BY <2>1 DEF semaphore
      <3>2. semaphores_list' = semaphores_list
        BY <3>1 DEF semaphores_list
      <3> QED BY <1>2, <1>3, <1>13, <1>14, <3>1, <3>2 DEF OneToken
    <2>2. CASE /\ semaphores_list = {} /\ semaphores_list' = {s}
               /\ sem_id'[s] = ID /\ count'[s] = 1
      <3>1. \A q \in Semaphores : waiters[q] = <<>>
        BY <1>2, <2>2 DEF OneToken
      <3>2. Inside = {}
        <4> SUFFICES ASSUME NEW b \in Inside PROVE FALSE
          OBVIOUS
        <4>1. b \in Blocks /\ b \notin SemBlocked /\ HoldsOne(b)
          BY <1>2 DEF Inside, Holding
        <4> QED BY <1>2, <2>2, <4>1, ChildUses
      <3> QED BY <1>3, <1>13, <1>14, <2>2, <3>1, <3>2 DEF OneToken
    <2> QED BY <1>3, <2>1, <2>2
  <1> QED BY <1>11, <1>13, <1>15

-----------------------------------------------------------------------------
(* What holds of every test *)

LEMMA StepLengths == \A t \in DOMAIN Steps : Len(Steps[t]) \in Nat
  <1>1. /\ Len(Steps["semaphoreOpenClose"]) = 2 /\ Len(Steps["semaphoreNoOpen"]) = 3
        /\ Len(Steps["semaphoreDoubleOpen"]) = 4 /\ Len(Steps["semaphoreBoundsException"]) = 4
        /\ Len(Steps["semaphoreReOpen"]) = 6 /\ Len(Steps["semaphoreNoClose"]) = 1
        /\ Len(Steps["messageQueueNoClose"]) = 1
    BY DEF Steps
  <1>2. Len(Steps["semaphoreClean"]) = 9
    BY CleanSteps
  <1> QED BY <1>1, <1>2, TestNames

LEMMA AtFacts ==
  ASSUME TestInv, NEW kind, At(kind)
  PROVE  /\ running \in Blocks /\ pid[running] > 1
         /\ pc[running] + 1 \in 1 .. Len(Steps[test])
         /\ Steps[test][pc[running] + 1][1] = kind
         /\ pc' \in [Blocks -> Nat]
         /\ \A b \in Blocks : b = running \/ pc'[b] = pc[b]
  <1>1. /\ running \in Blocks /\ pc \in [Blocks -> Nat] /\ test \in DOMAIN Steps
    BY RunningFacts DEF At, TestInv, ProgramTyped
  <1>2. Len(Steps[test]) \in Nat
    BY <1>1, StepLengths
  <1> QED BY <1>1, <1>2 DEF At

LEMMA NumbersStep ==
  ASSUME SemInv, Numbers, PidsGrow, last_pid' <= NumChildren + 2,
         \A b \in Blocks : pc'[b] > 0 => pc[b] > 0 \/ pid[b] > 1
  PROVE  Numbers'
  <1>1. last_pid \in Nat /\ pid \in [Blocks -> Nat]
    BY DEF SemInv, Core, TypeOK, Pids
  <1>2. CASE pid' = pid /\ last_pid' = last_pid
    BY <1>2 DEF Numbers
  <1>3. ASSUME NEW c \in Blocks, pid'[c] = last_pid, last_pid' = last_pid + 1,
               \A b \in Blocks \ {c} : pid'[b] = pid[b]
        PROVE  Numbers'
    <2>1. \A b \in Blocks : pid'[b] < last_pid'
      BY <1>1, <1>3 DEF Numbers
    <2>2. ASSUME NEW a \in Blocks, NEW b \in Blocks, pid'[a] = pid'[b], pid'[a] > 0 PROVE a = b
      BY <1>1, <1>3, <2>2 DEF Numbers
    <2>3. ASSUME NEW b \in Blocks, pc'[b] > 0 PROVE pid'[b] > 1
      <3>1. pid[b] > 1 /\ pid[b] < last_pid
        BY <2>3 DEF Numbers
      <3> QED BY <1>1, <1>3, <3>1
    <2> QED BY <2>1, <2>2, <2>3 DEF Numbers
  <1> QED BY <1>2, <1>3 DEF PidsGrow

\* The steps of the program that go through the process table
TableStep ==
  \/ Tick \/ SpawnStep \/ WaitStep \/ ShutdownStep \/ SleepStep
  \/ /\ Calls /\ pid[running] > 1
     /\ pc[running] = Len(Steps[test])
     /\ internal_exit /\ SemaphoresKept
     /\ UNCHANGED program

LEMMA TableStepFacts ==
  ASSUME TestInv, TableStep
  PROVE  /\ ProgramKernelStep /\ UNCHANGED <<test, local, totalOK, totalKO>>
         /\ last_pid' <= NumChildren + 2
         /\ pc' = pc \/ At("sleep")
         /\ NoExit \/ (pc' = pc /\ pc[running] = Len(Steps[test]))
  <1>1. last_pid \in Nat /\ last_pid <= NumChildren + 2 /\ NumChildren \in Nat
    BY DEF TestInv, SemInv, Core, TypeOK, Numbers
  <1>2. UNCHANGED <<test, local, totalOK, totalKO>> /\ ProgramKernelStep
    BY DEF TableStep, Tick, SpawnStep, WaitStep, ShutdownStep, SleepStep, program, others,
           ProgramKernelStep, NoExit
  <1>3. ASSUME SpawnStep PROVE last_pid' <= NumChildren + 2
    <2>1. last_pid <= NumChildren + 1 /\ last_pid' \in {last_pid, last_pid + 1}
      BY <1>3 DEF SpawnStep, internal_spawn, Create, PCB_alloc, Crash, pools
    <2> QED BY <1>1, <2>1
  <1>4. ASSUME ~SpawnStep PROVE last_pid' <= NumChildren + 2
    <2>1. last_pid' = last_pid
      BY <1>4 DEF TableStep, Tick, WaitStep, ShutdownStep, SleepStep,
                  timerInterrupt, internal_schedule, internal_wait, WaitFails, WaitReaps,
                  WaitBlocks, WaitCrashes, internal_sleep, internal_exit, ExitWakesParent,
                  ExitToZombie, internal_shutdown, Crash, pools
    <2> QED BY <1>1, <2>1
  <1>5. pc' = pc \/ At("sleep")
    BY DEF TableStep, Tick, SpawnStep, WaitStep, ShutdownStep, SleepStep, program
  <1>6. NoExit \/ (pc' = pc /\ pc[running] = Len(Steps[test]))
    BY DEF TableStep, Tick, SpawnStep, WaitStep, ShutdownStep, SleepStep, program, NoExit
  <1> QED BY <1>2, <1>3, <1>4, <1>5, <1>6

LEMMA NextKinds ==
  ASSUME TestNext
  PROVE  TableStep \/ SemOpenStep \/ SemStep \/ LoadStep \/ StoreStep
  BY DEF TestNext, childFunction, initFunction, TableStep

\* What the semaphore calls keep whatever the test
LEMMA CallKeeps ==
  ASSUME TestInv, SemOpenStep \/ SemStep
  PROVE  /\ SemInv' /\ IdleAwake' /\ sem_id' \in [Semaphores -> Int]
         /\ UNCHANGED <<pid, last_pid>>
         /\ UNCHANGED <<test, totalOK, totalKO>>
         /\ local' \in [Blocks -> [Locals -> Int]]
         /\ \E kind : At(kind)
  <1>1. /\ SemInv /\ IdleAwake /\ sem_id \in [Semaphores -> Int]
        /\ local \in [Blocks -> [Locals -> Int]]
    BY DEF TestInv, ProgramTyped
  <1>2. CASE SemOpenStep
    <2>1. /\ At("semOpen") /\ internal_semOpen(OpenId, {"CREATE"}, OpenCount)
          /\ Assign(reported'.value) /\ UNCHANGED <<test, totalOK, totalKO>>
      BY <1>2 DEF SemOpenStep, others
    <2>2. OpenId \in Int /\ OpenCount \in Int
      BY DEF OpenId, OpenCount, ID
    <2>3. SemInv'
      BY <1>1, <2>1, <2>2, OpenKeeps
    <2>4. IdleAwake' /\ UNCHANGED <<pid, last_pid>> /\ sem_id' \in [Semaphores -> Int]
      BY <1>1, <2>1, <2>2, SemCallFrame, SemIdStep
    <2>5. reported'.value \in Int
      <3>1. reported' \in [to : Blocks, value : Int] \cup {NoReport}
        BY <2>3 DEF SemInv, Core, TypeOK
      <3> QED BY <3>1 DEF NoReport
    <2>6. local' \in [Blocks -> [Locals -> Int]]
      BY <1>1, <2>1, <2>5 DEF Assign
    <2> QED BY <2>1, <2>3, <2>4, <2>6
  <1>3. CASE SemStep
    <2>1. /\ \E kind : At(kind)
          /\ internal_semWait(Value) \/ internal_semPost(Value) \/ internal_semClose(Value)
          /\ UNCHANGED <<local, test, totalOK, totalKO>>
      BY <1>3 DEF SemStep, others
    <2>2. SemInv'
      BY <1>1, <2>1, WaitKeeps, PostKeeps, CloseKeeps
    <2>3. IdleAwake' /\ UNCHANGED <<pid, last_pid>>
      BY <1>1, <2>1, SemCallFrame
    <2>4. sem_id' \in [Semaphores -> Int]
      <3>1. 0 \in Int
        OBVIOUS
      <3> QED BY <1>1, <2>1, <3>1, SemIdStep
    <2> QED BY <1>1, <2>1, <2>2, <2>3, <2>4
  <1> QED BY <1>2, <1>3

\* A step that touches only the program's own variables
LEMMA OwnStep ==
  ASSUME TestInv, LoadStep \/ StoreStep
  PROVE  /\ SemInv' /\ IdleAwake' /\ UNCHANGED sem_vars /\ UNCHANGED <<pid, last_pid>>
         /\ test' = test /\ totalOK' \in Int /\ totalKO' \in Int
         /\ local' \in [Blocks -> [Locals -> Int]]
         /\ \E kind : At(kind)
  <1>1. /\ UNCHANGED sem_vars /\ test' = test
        /\ \E kind : At(kind)
    BY DEF LoadStep, StoreStep, others
  <1>2. /\ SemInv /\ IdleAwake /\ totalOK \in Int /\ totalKO \in Int
        /\ local \in [Blocks -> [Locals -> Int]] /\ test \in DOMAIN Steps
    BY DEF TestInv, ProgramTyped
  <1>3. SemInv'
    BY <1>1, <1>2, KernelSemStep DEF sem_vars
  <1>4. IdleAwake' /\ UNCHANGED <<pid, last_pid>>
    <2>1. UNCHANGED <<pid, last_pid, ready_list, running>>
      BY <1>1 DEF sem_vars, vars, pools, table, queues
    <2> QED BY <1>2, <2>1 DEF IdleAwake, Run
  <1>5. local' \in [Blocks -> [Locals -> Int]]
    BY <1>2 DEF LoadStep, StoreStep, Assign
  <1>6. totalOK' \in Int /\ totalKO' \in Int
    <2>1. CASE LoadStep
      BY <1>2, <2>1 DEF LoadStep, others
    <2>2. CASE StoreStep
      <3>1. PICK kind \in {"store_OK", "store_KO"} : At(kind)
        BY <2>2 DEF StoreStep
      <3>2. test = "semaphoreClean"
        BY <1>2, <3>1, AtFacts, OtherTests
      <3>3. Value \in Int
        <4>1. Value \in {local[running]["a"], local[running]["b"]}
          BY <3>1, <3>2, CleanAt DEF Value
        <4>2. running \in Blocks /\ "a" \in Locals /\ "b" \in Locals
          BY <3>1, AtFacts DEF Locals
        <4> QED BY <1>2, <4>1, <4>2
      <3> QED BY <1>2, <2>2, <3>3 DEF StoreStep
    <2> QED BY <2>1, <2>2
  <1> QED BY <1>1, <1>3, <1>4, <1>5, <1>6

LEMMA BasicStep ==
  ASSUME TestInv, TestNext
  PROVE  SemInv' /\ IdleAwake' /\ ProgramTyped' /\ Numbers' /\ test' = test
  <1>1. /\ SemInv /\ IdleAwake /\ ProgramTyped /\ Numbers
    BY DEF TestInv
  <1>2. ASSUME NEW kind, At(kind)
        PROVE  pc' \in [Blocks -> Nat] /\ \A b \in Blocks : pc'[b] > 0 => pc[b] > 0 \/ pid[b] > 1
    BY <1>2, AtFacts
  <1>3. CASE TableStep
    <2>1. /\ ProgramKernelStep /\ UNCHANGED <<test, local, totalOK, totalKO>>
          /\ last_pid' <= NumChildren + 2 /\ (pc' = pc \/ At("sleep"))
      BY <1>3, TableStepFacts
    <2>2. SemInv' /\ IdleAwake' /\ PidsGrow /\ sem_id' = sem_id
      BY <1>1, <2>1, KernelKeeps
    <2>3. pc' \in [Blocks -> Nat] /\ \A b \in Blocks : pc'[b] > 0 => pc[b] > 0 \/ pid[b] > 1
      BY <1>1, <1>2, <2>1 DEF ProgramTyped
    <2>4. Numbers'
      BY <1>1, <2>1, <2>2, <2>3, NumbersStep
    <2> QED BY <1>1, <2>1, <2>2, <2>3, <2>4 DEF ProgramTyped
  <1>4. CASE SemOpenStep \/ SemStep \/ LoadStep \/ StoreStep
    <2>1. /\ SemInv' /\ IdleAwake' /\ sem_id' \in [Semaphores -> Int]
          /\ UNCHANGED <<pid, last_pid>> /\ test' = test
          /\ totalOK' \in Int /\ totalKO' \in Int
          /\ local' \in [Blocks -> [Locals -> Int]]
          /\ \E kind : At(kind)
      BY <1>1, <1>4, CallKeeps, OwnStep DEF ProgramTyped, sem_vars, semaphore
    <2>2. pc' \in [Blocks -> Nat] /\ \A b \in Blocks : pc'[b] > 0 => pc[b] > 0 \/ pid[b] > 1
      BY <1>2, <2>1
    <2>3. Numbers'
      BY <1>1, <2>1, <2>2, NumbersStep DEF PidsGrow, Numbers
    <2> QED BY <1>1, <2>1, <2>2, <2>3 DEF ProgramTyped
  <1> QED BY <1>3, <1>4, NextKinds

-----------------------------------------------------------------------------
(* Every step of the semaphore test *)

LEMMA FreshKept ==
  ASSUME Fresh, InsideKept, \A b \in Inside : b # running => local'[b]["a"] = local[b]["a"],
         totalOK' = totalOK
  PROVE  Fresh'
  <1> SUFFICES ASSUME NEW b \in Inside', pc'[b] \in {4, 5} PROVE local'[b]["a"] = totalOK'
    BY DEF Fresh
  <1>1. b \in Inside /\ b # running /\ pc[b] \in {4, 5}
    BY DEF InsideKept
  <1> QED BY <1>1 DEF Fresh

LEMMA CleanTable ==
  ASSUME TestInv, test = "semaphoreClean", TableStep
  PROVE  Holding' /\ OneToken' /\ Fresh'
  <1>1. /\ ProgramKernelStep /\ UNCHANGED <<test, local, totalOK, totalKO>>
        /\ pc' = pc \/ At("sleep")
        /\ NoExit \/ (pc' = pc /\ pc[running] = 9)
    BY TableStepFacts, CleanSteps
  <1>2. SemInv /\ IdleAwake /\ Fresh /\ pc \in [Blocks -> Nat]
    BY DEF TestInv, ProgramTyped
  <1>3. /\ UNCHANGED <<sem_free, sem_id, count, waiters, sem_descriptors, sem_des, sem_des_free>>
        /\ SemBlocked' = SemBlocked
        /\ \A b \in Blocks : last_sem_fd'[b] = last_sem_fd[b] \/ (b \in Free /\ last_sem_fd'[b] = 0)
        /\ Free' \cup zombie_list' \subseteq
             Free \cup zombie_list \cup (IF NoExit THEN {} ELSE {running})
    BY <1>1, <1>2, KernelKeeps
  <1>4. \A b \in Blocks : pc'[b] = pc[b] \/ (b = running /\ pc[b] = 4 /\ pc'[b] = pc[b] + 1)
    BY <1>1, CleanAt
  <1>5. \A b \in Free' \cup zombie_list' : b \in Free \cup zombie_list \/ pc'[b] \notin 2 .. 7
    BY <1>1, <1>3
  <1>6. Holding' /\ OneToken' /\ Inside' = Inside
    BY <1>1, <1>3, <1>4, <1>5, CleanFrame
  <1>7. Fresh'
    <2>1. \A b \in Inside : b \in Blocks
      BY DEF Inside
    <2> QED BY <1>1, <1>2, <1>4, <1>6, <2>1 DEF Fresh
  <1> QED BY <1>6, <1>7

LEMMA CleanOwn ==
  ASSUME TestInv, test = "semaphoreClean", LoadStep \/ StoreStep
  PROVE  /\ Holding' /\ OneToken' /\ Fresh'
         /\ \/ totalOK' = totalOK /\ pc'[running] # 6 /\ pc[running] # 5
            \/ totalOK' = totalOK + 1 /\ pc[running] = 5 /\ pc'[running] = 6
  <1>1. /\ SemInv /\ Holding /\ OneToken /\ Fresh /\ pc \in [Blocks -> Nat]
        /\ local \in [Blocks -> [Locals -> Int]]
    BY DEF TestInv, ProgramTyped
  <1>2. /\ UNCHANGED <<sem_free, sem_id, count, waiters, sem_descriptors, last_sem_fd, sem_des,
                       sem_des_free, pcb_free, zombie_list>>
    BY OwnStep DEF sem_vars, semaphore, semopened, vars, pools, queues
  <1>3. SemBlocked' = SemBlocked /\ Free' = Free
    BY <1>2 DEF SemBlocked, AllWaiting, Waiting, Free
  <1>4. PICK kind \in {"load_OK", "load_KO", "store_OK", "store_KO"} :
          /\ At(kind)
          /\ kind = "load_OK" => Assign(totalOK)
          /\ kind = "load_KO" => Assign(totalKO)
          /\ kind \in {"store_OK", "store_KO"} => local' = local
          /\ kind = "store_OK" => totalOK' = Value + 1
          /\ kind # "store_OK" => totalOK' = totalOK
    BY DEF LoadStep, StoreStep, others
  <1>5. /\ running \in Blocks /\ running \notin SemBlocked
        /\ pc[running] \in 0 .. 8
        /\ kind = "load_OK" => pc[running] = 3 /\ Variable = "a"
        /\ kind = "store_OK" => pc[running] = 5 /\ Value = local[running]["a"]
        /\ kind \in {"load_KO", "store_KO"} => pc[running] \in {0, 8} /\ Variable = "b"
        /\ pc'[running] = pc[running] + 1
        /\ \A b \in Blocks \ {running} : pc'[b] = pc[b]
    BY <1>4, CleanAt
  <1>6. ASSUME NEW v PROVE
          /\ Assign(v) => \A b \in Blocks : b # running => local'[b] = local[b]
          /\ Assign(v) /\ Variable = "a" => local'[running]["a"] = v /\ local'[running]["fd"] = local[running]["fd"]
          /\ Assign(v) /\ Variable = "b" => local'[running]["a"] = local[running]["a"] /\ local'[running]["fd"] = local[running]["fd"]
    <2>1. "a" \in Locals /\ "b" \in Locals /\ "fd" \in Locals
      BY DEF Locals
    <2> QED BY <1>1, <1>5, <2>1 DEF Assign
  <1>7. /\ \A b \in Blocks : local'[b]["fd"] = local[b]["fd"]
        /\ \A b \in Blocks : b # running => local'[b] = local[b]
        /\ kind = "load_OK" => local'[running]["a"] = totalOK
    BY <1>4, <1>5, <1>6
  <1>8. Holding' /\ OneToken' /\ Inside' = Inside
    <2>1. \A b \in Blocks :
           \/ pc'[b] = pc[b]
           \/ b = running /\ pc[b] \in {0, 3, 4, 5, 8} /\ pc'[b] = pc[b] + 1
      BY <1>4, <1>5
    <2> QED BY <1>2, <1>3, <1>7, <2>1, CleanFrame
  <1>9. CASE kind = "store_OK"
    <2>1. running \in Inside /\ HoldsOne(running)
      BY <1>1, <1>5, <1>9 DEF Inside, Holding
    <2>2. semaphores_list # {}
      BY <1>1, <1>5, <2>1, ChildUses
    <2>3. Inside = {running}
      BY <1>1, <2>1, <2>2 DEF OneToken
    <2>4. pc'[running] = 6
      BY <1>5, <1>9
    <2>5. Fresh'
      BY <1>8, <2>3, <2>4 DEF Fresh
    <2>6. local[running]["a"] = totalOK
      BY <1>1, <1>5, <1>9, <2>1 DEF Fresh
    <2> QED BY <1>4, <1>5, <1>8, <1>9, <2>4, <2>5, <2>6
  <1>10. CASE kind # "store_OK"
    <2>1. ASSUME NEW b \in Inside', pc'[b] \in {4, 5} PROVE local'[b]["a"] = totalOK'
      <3>1. b \in Inside /\ b \in Blocks
        BY <1>8 DEF Inside
      <3>2. CASE b = running
        <4>1. kind = "load_OK"
          BY <1>4, <1>5, <1>10, <2>1, <3>2
        <4> QED BY <1>4, <1>7, <3>2, <4>1
      <3>3. CASE b # running
        BY <1>1, <1>4, <1>5, <1>7, <1>10, <2>1, <3>1, <3>3 DEF Fresh
      <3> QED BY <3>2, <3>3
    <2>2. Fresh'
      BY <2>1 DEF Fresh
    <2>3. pc[running] \in {0, 3, 8}
      BY <1>4, <1>5, <1>10
    <2> QED BY <1>4, <1>5, <1>8, <1>10, <2>2, <2>3
  <1> QED BY <1>9, <1>10

LEMMA CleanStep ==
  ASSUME TestInv, test = "semaphoreClean", TestNext
  PROVE  Holding' /\ OneToken' /\ Fresh'
  <1>1. Fresh /\ local \in [Blocks -> [Locals -> Int]]
    BY DEF TestInv, ProgramTyped
  <1>2. CASE TableStep
    BY <1>2, CleanTable
  <1>3. CASE LoadStep \/ StoreStep
    BY <1>3, CleanOwn
  <1>4. CASE SemOpenStep
    <2>1. /\ At("semOpen") /\ internal_semOpen(OpenId, {"CREATE"}, OpenCount)
          /\ Assign(reported'.value) /\ totalOK' = totalOK
      BY <1>4 DEF SemOpenStep, others
    <2>2. Holding' /\ OneToken' /\ Inside' = Inside /\ running \notin Inside
      BY <2>1, CleanOpen
    <2>3. InsideKept
      BY <2>1, <2>2, CleanAt DEF InsideKept, Inside
    <2>4. \A b \in Inside : b # running => local'[b]["a"] = local[b]["a"]
      <3>1. \A b \in Inside : b \in Blocks
        BY DEF Inside
      <3> QED BY <1>1, <2>1, <3>1 DEF Assign
    <2> QED BY <1>1, <2>1, <2>2, <2>3, <2>4, FreshKept
  <1>5. CASE SemStep
    <2>1. /\ \/ At("semWait") /\ internal_semWait(Value)
             \/ At("semPost") /\ internal_semPost(Value)
             \/ At("semClose") /\ internal_semClose(Value)
          /\ local' = local /\ totalOK' = totalOK
      BY <1>5 DEF SemStep, others
    <2>2. Holding' /\ OneToken' /\ InsideKept
      BY <2>1, CleanWait, CleanPost, CleanClose
    <2> QED BY <1>1, <2>1, <2>2, FreshKept
  <1> QED BY <1>2, <1>3, <1>4, <1>5, NextKinds

-----------------------------------------------------------------------------
(* Every step of the other tests *)

LEMMA OtherStep ==
  ASSUME TestInv, test # "semaphoreClean", TestNext
  PROVE  NobodyWaits'
  <1>1. SemInv /\ IdleAwake /\ NobodyWaits /\ test \in DOMAIN Steps
    BY DEF TestInv, ProgramTyped
  <1>2. test' = test
    BY BasicStep
  <1> DEFINE Empty == test \in {"semaphoreNoOpen", "semaphoreBoundsException"}
  <1>3. ASSUME waiters' = waiters, Empty => sem_descriptors' = sem_descriptors PROVE NobodyWaits'
    BY <1>1, <1>2, <1>3 DEF NobodyWaits
  <1>4. ASSUME NEW fd, Empty, running \in Blocks PROVE SemDescriptorList_byFd(fd) = NULL
    <2>1. sem_descriptors[running] = <<>>
      BY <1>1, <1>4 DEF NobodyWaits
    <2> QED BY <2>1 DEF SemDescriptorList_byFd
  <1>5. ASSUME NEW code, FailsSem(code) PROVE NobodyWaits'
    BY <1>3, <1>5 DEF FailsSem, semopened
  <1>6. CASE TableStep
    <2>1. waiters' = waiters /\ sem_descriptors' = sem_descriptors
      BY <1>1, <1>6, TableStepFacts, KernelKeeps
    <2> QED BY <1>3, <2>1
  <1>7. CASE LoadStep \/ StoreStep
    <2>1. waiters' = waiters /\ sem_descriptors' = sem_descriptors
      BY <1>7, OwnStep DEF sem_vars, semopened
    <2> QED BY <1>3, <2>1
  <1>8. CASE SemOpenStep
    <2>1. At("semOpen") /\ internal_semOpen(OpenId, {"CREATE"}, OpenCount)
      BY <1>8 DEF SemOpenStep
    <2>2. waiters' = waiters
      <3>1. OpenCount \in Int
        BY DEF OpenCount
      <3> QED BY <1>1, <2>1, <3>1, OpenKeeps
    <2>3. test # "semaphoreNoOpen"
      BY <1>1, <2>1, AtFacts, OtherTests
    <2>4. CASE test = "semaphoreBoundsException"
      <3>1. OpenId < 0
        BY <2>4 DEF OpenId
      <3>2. FailsSem(DSOS_ESEMAPHOREOPEN)
        BY <2>1, <3>1 DEF internal_semOpen, SemOpenRefused
      <3> QED BY <1>5, <3>2
    <2> QED BY <1>3, <2>2, <2>3, <2>4
  <1>9. CASE At("semWait") /\ internal_semWait(Value)
    <2>1. Empty /\ running \in Blocks
      BY <1>1, <1>9, AtFacts, OtherTests
    <2>2. FailsSem(DSOS_ESEMAPHOREWAIT)
      BY <1>4, <1>9, <2>1 DEF internal_semWait
    <2> QED BY <1>5, <2>2
  <1>10. CASE At("semPost") /\ internal_semPost(Value)
    <2> DEFINE d == SemDescriptorList_byFd(Value)
               s == sem_des[d].semaphore
    <2>1. running # NULL /\ running \in Blocks
      BY <1>10, AtFacts DEF At
    <2>2. d # NULL => s \in Semaphores
      BY <1>1, <2>1, FoundDescriptor, RunningUses DEF SemInv
    <2>3. d # NULL => waiters[s] = <<>>
      BY <1>1, <2>2 DEF NobodyWaits
    <2>4. FailsSem(DSOS_ESEMAPHOREPOST) \/ UNCHANGED semopened
      <3> HIDE DEF s, d
      <3> QED BY <1>10, <2>3 DEF internal_semPost, s, d
    <2>5. UNCHANGED <<waiters, sem_descriptors>>
      BY <2>4 DEF FailsSem, semopened
    <2> QED BY <1>3, <2>5
  <1>11. CASE At("semClose") /\ internal_semClose(Value)
    <2>1. running \in Blocks
      BY <1>11, AtFacts
    <2>2. waiters' = waiters
      BY <1>1, <1>11, CloseKeeps
    <2>3. Empty => FailsSem(DSOS_ESEMAPHORECLOSE)
      BY <1>4, <1>11, <2>1 DEF internal_semClose
    <2> QED BY <1>3, <1>5, <2>2, <2>3
  <1> HIDE DEF Empty
  <1> QED BY <1>6, <1>7, <1>8, <1>9, <1>10, <1>11, NextKinds DEF SemStep

-----------------------------------------------------------------------------
(* The theorems *)

LEMMA TestInitInv == TestInit => TestInv
  <1> SUFFICES ASSUME TestInit PROVE TestInv
    OBVIOUS
  <1> USE DEF TestInit
  <1>1. SemInv
    BY InitSem
  <1>2. last_pid = 1 /\ pid = [b \in Blocks |-> 0] /\ zombie_list = {}
    BY DEF SemInit, Init
  <1>3. IdleAwake
    BY <1>2 DEF IdleAwake
  <1>4. ProgramTyped /\ Numbers
    BY <1>2 DEF ProgramTyped, Numbers, SemInit, Semaphores
  <1>5. \A s \in Semaphores : waiters[s] = <<>>
    BY DEF SemInit
  <1>6. \A b \in Blocks : sem_descriptors[b] = <<>> /\ last_sem_fd[b] = 0 /\ pc[b] = 0
    BY DEF SemInit
  <1>7. Holding
    <2>1. Free \cup zombie_list \subseteq Blocks
      BY <1>1, ElementsType DEF SemInv, Core, TypeOK, Free
    <2>2. SemDescriptors \ sem_des_free = {}
      BY DEF SemInit
    <2> QED BY <1>6, <2>1, <2>2 DEF Holding, HoldsNone
  <1>8. semaphores_list = {}
    BY DEF SemInit, semaphores_list, Semaphores, Elements
  <1>9. SemBlocked = {} /\ Inside = {}
    <2>1. AllWaiting = {}
      BY <1>5, EmptyElements DEF AllWaiting, Waiting
    <2> QED BY <1>6, <2>1 DEF SemBlocked, Inside
  <1>10. OneToken /\ Fresh
    BY <1>5, <1>8, <1>9 DEF OneToken, Fresh
  <1>11. NobodyWaits
    BY <1>5, <1>6 DEF NobodyWaits
  <1> QED BY <1>1, <1>3, <1>4, <1>7, <1>10, <1>11 DEF TestInv

LEMMA TestNextInv == TestInv /\ [TestNext]_test_vars => TestInv'
  <1> SUFFICES ASSUME TestInv, [TestNext]_test_vars PROVE TestInv'
    OBVIOUS
  <1>1. CASE TestNext
    BY <1>1, BasicStep, CleanStep, OtherStep DEF TestInv
  <1>2. CASE UNCHANGED test_vars
    <2>1. UNCHANGED <<pcb_free, last_pid, pid, ready_list, running, zombie_list>> /\ UNCHANGED vars
      BY <1>2 DEF test_vars, sem_vars, vars, pools, table, queues
    <2>2. UNCHANGED <<semaphore, semopened>> /\ UNCHANGED program
      BY <1>2 DEF test_vars, sem_vars
    <2>3. SemInv'
      BY <2>1, <2>2, KernelSemStep DEF TestInv
    <2>4. UNCHANGED <<sem_free, sem_id, count, waiters, sem_descriptors, last_sem_fd, sem_des,
                      sem_des_free>>
      BY <2>2 DEF semaphore, semopened
    <2>5. UNCHANGED <<test, pc, local, totalOK, totalKO>>
      BY <2>2 DEF program
    <2>6. IdleAwake' /\ ProgramTyped' /\ Numbers'
      BY <2>1, <2>4, <2>5 DEF TestInv, IdleAwake, Run, ProgramTyped, Numbers
    <2>7. UNCHANGED <<Free, SemBlocked, Inside, semaphores_list>>
      BY <2>1, <2>4, <2>5 DEF Free, SemBlocked, AllWaiting, Waiting, Inside, semaphores_list
    <2>8. ASSUME test = "semaphoreClean" PROVE Holding' /\ OneToken' /\ Fresh'
      <3>1. Holding /\ OneToken /\ Fresh
        BY <2>8 DEF TestInv
      <3>2. Holding'
        BY <2>1, <2>4, <2>5, <2>7, <3>1 DEF Holding, HoldsOne, HoldsNone, Held
      <3>3. OneToken' /\ Fresh'
        BY <2>4, <2>5, <2>7, <3>1 DEF OneToken, Fresh
      <3> QED BY <3>2, <3>3
    <2>9. test # "semaphoreClean" => NobodyWaits'
      BY <2>4, <2>5 DEF TestInv, NobodyWaits
    <2> QED BY <2>3, <2>5, <2>6, <2>8, <2>9 DEF TestInv
  <1> QED BY <1>1, <1>2

\* The inductive invariant holds in every reachable state of disastrOS_test.c,
\* whatever the test: in semaphoreClean there is one token, and what a child has
\* read of totalOK is still true when it writes it; in the others nobody blocks.
THEOREM TestInvHolds == TestSpec => []TestInv
  BY TestInitInv, TestNextInv, PTL DEF TestSpec

(* At most one child is between the return of its semWait and its semPost,
   asleep or not, and the count is up exactly when there is none: the token is
   never lost and never doubled, for any number of children. *)
THEOREM CriticalSectionExcludes == TestSpec => []MutualExclusion
  <1>1. TestInv => MutualExclusion
    <2> SUFFICES ASSUME TestInv, test = "semaphoreClean"
                 PROVE  MutualExclusion
      BY DEF MutualExclusion, InCriticalSection
    <2>1. SemInv /\ Holding /\ OneToken
      BY DEF TestInv
    <2>2. \A b \in Blocks : InCriticalSection(b) <=> b \in Inside
      BY <2>1 DEF InCriticalSection, Inside, Holding
    <2>3. ASSUME NEW b \in Inside PROVE Inside = {b}
      <3>1. b \in Blocks /\ b \notin SemBlocked /\ HoldsOne(b)
        BY <2>1 DEF Inside, Holding
      <3>2. semaphores_list # {}
        BY <2>1, <3>1, ChildUses
      <3> QED BY <2>1, <3>2 DEF OneToken
    <2>4. ASSUME NEW s \in semaphores_list
          PROVE  count[s] = IF \E b \in Blocks : InCriticalSection(b) THEN 0 ELSE 1
      BY <2>1, <2>2 DEF OneToken
    <2> QED BY <2>2, <2>3, <2>4 DEF MutualExclusion
  <1> QED BY TestInvHolds, <1>1, PTL

(* Whatever the test, no token lies idle while somebody waits for it and no
   semaphore is destroyed under a waiter, though semClose does not look at the
   waiting descriptors. *)
THEOREM TokensNeverIdle == TestSpec => []NoIdleTokens
  <1>1. TestInv => NoIdleTokens
    <2> SUFFICES ASSUME TestInv, NEW s \in Semaphores, waiters[s] # <<>>
                 PROVE  s \in semaphores_list /\ count[s] <= 0
      BY DEF NoIdleTokens
    <2>1. OneToken
      BY DEF TestInv, NobodyWaits
    <2>2. s \in semaphores_list
      BY <2>1 DEF OneToken
    <2>3. count[s] = 0
      BY <2>1, <2>2 DEF OneToken
    <2> QED BY <2>2, <2>3
  <1> QED BY TestInvHolds, <1>1, PTL

(* In the program, too, every blocked process waits for one thing, a timer, a
   child or a semaphore: its children both sleep and block on semaphores. *)
THEOREM ProgramWaitsForOneThing == TestSpec => []WaitsForOneThing
  <1>1. TestInv => WaitsForOneThing
    BY DEF TestInv, SemInv
  <1> QED BY TestInvHolds, <1>1, PTL

-----------------------------------------------------------------------------
(* The counter *)

\* There are no more children than init spawns.
LEMMA ChildrenCounted ==
  ASSUME TestInv, NEW S \in SUBSET Blocks, \A b \in S : pid[b] > 1
  PROVE  IsFiniteSet(S) /\ Cardinality(S) \in Nat /\ Cardinality(S) <= NumChildren
  <1> DEFINE T == 2 .. NumChildren + 1
             f == [b \in S |-> pid[b]]
  <1>1. IsFiniteSet(Blocks)
    BY FS_Interval DEF Blocks
  <1>2. IsFiniteSet(S) /\ Cardinality(S) \in Nat
    BY <1>1, FS_Subset, FS_CardinalityType
  <1>3. IsFiniteSet(T) /\ Cardinality(T) = NumChildren
    <2>1. NumChildren \in Nat /\ 2 \in Int /\ NumChildren + 1 \in Int
      OBVIOUS
    <2>2. IsFiniteSet(T) /\ Cardinality(T) = IF 2 > NumChildren + 1 THEN 0 ELSE NumChildren + 1 - 2 + 1
      BY <2>1, FS_Interval
    <2> QED BY <2>1, <2>2
  <1>4. f \in [S -> T]
    <2>1. \A b \in S : pid[b] \in Nat /\ pid[b] < last_pid /\ last_pid \in Nat
      BY DEF TestInv, SemInv, Core, TypeOK, Pids, Numbers
    <2> QED BY <2>1 DEF TestInv, Numbers
  <1>5. \A x, y \in S : f[x] = f[y] => x = y
    BY DEF TestInv, Numbers, SemInv, Core, TypeOK, Pids
  <1> HIDE DEF f, T
  <1>6. ~(Cardinality(T) < Cardinality(S))
    BY <1>2, <1>3, <1>4, <1>5, FS_PigeonHole
  <1> QED BY <1>2, <1>3, <1>6

\* One step counts nobody, or the child that writes totalOK.
LEMMA CountedStep ==
  ASSUME TestInv, test = "semaphoreClean", TestNext
  PROVE  \/ totalOK' = totalOK /\ Counted' = Counted
         \/ /\ totalOK' = totalOK + 1 /\ running \in Blocks /\ pid[running] > 1
            /\ running \notin Counted /\ Counted' = Counted \cup {running}
  <1>1. pc \in [Blocks -> Nat]
    BY DEF TestInv, ProgramTyped
  <1>2. ASSUME \A b \in Blocks : pc'[b] >= 6 <=> pc[b] >= 6 PROVE Counted' = Counted
    BY <1>2 DEF Counted
  <1>3. ASSUME NEW kind \in {"semOpen", "semWait", "semPost", "semClose", "sleep"}, At(kind)
        PROVE  Counted' = Counted
    <2>1. /\ running \in Blocks /\ pc[running] \in {1, 2, 4, 6, 7}
          /\ pc'[running] = pc[running] + 1
          /\ \A b \in Blocks \ {running} : pc'[b] = pc[b]
      BY <1>3, CleanAt
    <2> QED BY <1>2, <2>1
  <1>4. CASE TableStep
    <2>1. totalOK' = totalOK /\ (pc' = pc \/ At("sleep"))
      BY <1>4, TableStepFacts
    <2> QED BY <1>2, <1>3, <2>1
  <1>5. CASE SemOpenStep \/ SemStep
    BY <1>3, <1>5 DEF SemOpenStep, SemStep, others
  <1>6. CASE LoadStep \/ StoreStep
    <2>1. \/ totalOK' = totalOK /\ pc'[running] # 6 /\ pc[running] # 5
          \/ totalOK' = totalOK + 1 /\ pc[running] = 5 /\ pc'[running] = 6
      BY <1>6, CleanOwn
    <2>2. /\ running \in Blocks /\ pid[running] > 1 /\ pc'[running] = pc[running] + 1
          /\ \A b \in Blocks \ {running} : pc'[b] = pc[b]
      BY <1>6, CleanAt DEF LoadStep, StoreStep
    <2>3. CASE pc[running] = 5
      <3>1. running \notin Counted /\ Counted' = Counted \cup {running}
        BY <1>1, <2>2, <2>3 DEF Counted
      <3> QED BY <2>1, <2>2, <2>3, <3>1
    <2>4. CASE pc[running] # 5
      <3>1. \A b \in Blocks : pc'[b] >= 6 <=> pc[b] >= 6
        BY <1>1, <2>2, <2>4
      <3> QED BY <1>2, <2>1, <2>4, <3>1
    <2> QED BY <2>3, <2>4
  <1> QED BY <1>4, <1>5, <1>6, NextKinds

LEMMA CounterStep ==
  ASSUME TestInv, TestNext
  PROVE  [Counter!Count]_<<totalOK,
            IF test = "semaphoreClean" THEN NumChildren - Cardinality(Counted) ELSE 0>>
  <1>1. test' = test /\ test \in DOMAIN Steps
    BY BasicStep DEF TestInv, ProgramTyped
  <1>2. CASE test # "semaphoreClean"
    <2>1. totalOK' = totalOK
      <3>1. ~At("store_OK")
        BY <1>1, <1>2, AtFacts, OtherTests
      <3>2. CASE TableStep
        BY <3>2, TableStepFacts
      <3>3. CASE SemOpenStep \/ SemStep
        BY <3>3, CallKeeps
      <3>4. CASE LoadStep \/ StoreStep
        BY <3>1, <3>4 DEF LoadStep, StoreStep, others
      <3> QED BY <3>2, <3>3, <3>4, NextKinds
    <2> QED BY <1>1, <1>2, <2>1
  <1>3. CASE test = "semaphoreClean"
    <2>1. CASE totalOK' = totalOK /\ Counted' = Counted
      BY <1>1, <1>3, <2>1
    <2>2. CASE /\ totalOK' = totalOK + 1 /\ running \in Blocks /\ pid[running] > 1
               /\ running \notin Counted /\ Counted' = Counted \cup {running}
      <3> DEFINE S == Counted \cup {running}
      <3>1. Counted \in SUBSET Blocks /\ S \in SUBSET Blocks
        BY <2>2 DEF Counted
      <3>2. \A b \in Counted : pid[b] > 1
        BY DEF Counted, TestInv, Numbers, ProgramTyped
      <3>3. \A b \in S : pid[b] > 1
        BY <2>2, <3>2
      <3>4. /\ IsFiniteSet(Counted) /\ Cardinality(Counted) \in Nat
        BY <3>1, <3>2, ChildrenCounted
      <3> HIDE DEF S
      <3>5. Cardinality(S) <= NumChildren
        BY <3>1, <3>3, ChildrenCounted
      <3>6. Cardinality(S) = Cardinality(Counted) + 1
        BY <2>2, <3>4, FS_AddElement DEF S
      <3>7. Cardinality(Counted') = Cardinality(Counted) + 1
        BY <2>2, <3>6 DEF S
      <3> QED BY <1>1, <1>3, <2>2, <3>4, <3>5, <3>6, <3>7 DEF Counter!Count
    <2> QED BY <1>3, <2>1, <2>2, CountedStep
  <1> QED BY <1>2, <1>3

(* Though a child reads totalOK, sleeps and writes it back, the program is an
   atomic counter: from 0, and in steps of one, each for another child.  (That
   all of them are counted in the end is liveness: CountsAtomically has it.) *)
THEOREM NoUpdateIsLost == TestSpec => Counter!CountsOneByOne
  <1> DEFINE remaining == IF test = "semaphoreClean" THEN NumChildren - Cardinality(Counted) ELSE 0
  <1>1. TestInit => Counter!Init
    <2> SUFFICES ASSUME TestInit PROVE Counter!Init
      OBVIOUS
    <2>1. Counted = {}
      BY DEF TestInit, Counted
    <2>2. Cardinality(Counted) = 0
      BY <2>1, FS_EmptySet
    <2> QED BY <2>2 DEF TestInit, Counter!Init
  <1>2. TestInv /\ [TestNext]_test_vars => [Counter!Count]_<<totalOK, remaining>>
    <2>1. TestInv /\ TestNext => [Counter!Count]_<<totalOK, remaining>>
      BY CounterStep
    <2>2. UNCHANGED test_vars => UNCHANGED <<totalOK, remaining>>
      BY DEF test_vars, program, Counted
    <2> QED BY <2>1, <2>2
  <1> HIDE DEF remaining
  <1>3. TestSpec => Counter!Init /\ [][Counter!Count]_<<totalOK, remaining>>
    BY TestInvHolds, <1>1, <1>2, PTL DEF TestSpec
  <1> QED BY <1>3 DEF Counter!CountsOneByOne, remaining

-----------------------------------------------------------------------------
(* The census: the processes that init has still to reap *)

Unreaped == {b \in Live : pid[b] > 1}

\* Init is the only initial process and everybody's parent; it never sleeps.
Family ==
  /\ pid[init_pcb] = 0
  /\ \A b \in Live \ {init_pcb} : pid[b] # 0 /\ parent[b] = init_pcb /\ b \in KidsOf(init_pcb)
  /\ \A b \in Asleep : pid[b] > 1

\* alive_children is one lower than the number of children while init waits for
\* one, for the step that takes it down stands before the wait.
Ledger ==
  /\ alive_children \in Nat
  /\ init_pcb \in waiting_list => last_pid = NumChildren + 2
  /\ last_pid <= NumChildren + 1 =>
       alive_children = IF last_pid <= 2 THEN 0 ELSE last_pid - 2
  /\ Cardinality(Unreaped) = alive_children + (IF init_pcb \in waiting_list THEN 1 ELSE 0)

\* Who has exited has done all its steps, and nobody is reaped before everybody
\* has been spawned: its block is not handed out again, and keeps its pid.
Ended ==
  /\ \A b \in Free \cup zombie_list : pid[b] > 1 => pc[b] = Len(Steps[test])
  /\ \A b \in Free : pid[b] > 1 => last_pid = NumChildren + 2
  /\ \A p \in 2 .. last_pid - 1 : \E b \in Blocks : pid[b] = p

Census == Family /\ Ledger /\ Ended

\* A step that neither makes nor reaps a process, nor blocks or wakes init
Bystands ==
  /\ UNCHANGED <<pid, last_pid, init_pcb, parent, alive_children, test>>
  /\ Free' = Free /\ KidsOf(init_pcb) \subseteq KidsNext(init_pcb)
  /\ \A b \in Asleep' : b \in Asleep \/ pid[b] > 1
  /\ init_pcb \in waiting_list' <=> init_pcb \in waiting_list
  /\ \A b \in Free \cup zombie_list' :
       \/ b \in Free \cup zombie_list /\ pc'[b] = pc[b]
       \/ pc'[b] = Len(Steps[test])

\* The census is of who is about, of ids and of counters; a step that changes
\* none of these keeps it.
LEMMA CensusFrame ==
  ASSUME Census, Bystands
  PROVE  Census'
  <1>1. Live' = Live /\ Unreaped' = Unreaped
    BY DEF Bystands, Live, Unreaped
  <1>2. Family'
    BY <1>1 DEF Census, Family, Bystands, KidsOf, KidsNext
  <1>3. Ledger'
    BY <1>1 DEF Census, Ledger, Bystands
  <1>4. Ended'
    BY DEF Census, Ended, Bystands
  <1> QED BY <1>2, <1>3, <1>4 DEF Census

\* The sleeper is always there, so init is never without children.
LEMMA SleeperLives ==
  ASSUME TestInv, last_pid > 1
  PROVE  \E b \in Live \ zombie_list : pid[b] = 1
  <1>1. PICK b \in Elements(ready_list) \cup Run : pid[b] = 1
    BY DEF TestInv, IdleAwake
  <1>2. b \in Blocks /\ b \notin Free \cup zombie_list
    <2>1. Core
      BY DEF TestInv, SemInv
    <2>2. b \in Run => b \in Blocks
      BY <2>1 DEF Run, Core, TypeOK
    <2> QED BY <1>1, <2>1, <2>2, Apart
  <1> QED BY <1>1, <1>2 DEF Live

\* There are finitely many children to count.
LEMMA UnreapedFinite ==
  ASSUME TestInv
  PROVE  IsFiniteSet(Unreaped) /\ Cardinality(Unreaped) \in Nat
  BY ChildrenCounted DEF Unreaped, Live

\* A spawn adds one child to those about and to those init counts.
LEMMA SpawnCensus ==
  ASSUME TestInv, Census, Running(0), SpawnStep, mode' = "Up"
  PROVE  Census'
  <1> DEFINE c == Head(pcb_free)
  <1>1. /\ Core /\ last_pid \in Nat /\ last_pid >= 1 /\ pid \in [Blocks -> Nat] /\ NumChildren \in Nat
        /\ children \in [Blocks -> Seq(Blocks)] /\ init_pcb \in Live /\ init_pcb \in Blocks
        /\ init_pcb \notin waiting_list
    BY DEF TestInv, SemInv, Core, TypeOK, Pids, InitLives, Census, Ledger, SpawnStep
  <1>2. running = init_pcb
    BY <1>1, RunningIsLive DEF Running, Census, Family
  <1>3. /\ pcb_free # <<>> /\ PCB_alloc(running, "Ready", TRUE)
        /\ UNCHANGED <<running, init_pcb, waiting_list, zombie_list, timer_list>>
        /\ UNCHANGED <<test, pc>> /\ alive_children' = last_pid - 1 /\ last_pid <= NumChildren + 1
    BY DEF SpawnStep, internal_spawn, Create, Crash
  <1>4. /\ c \in Free /\ c \in Blocks /\ pid'[c] = last_pid /\ parent'[c] = init_pcb
        /\ \A b \in Blocks \ {c} : pid'[b] = pid[b] /\ parent'[b] = parent[b]
        /\ last_pid' = last_pid + 1
    BY <1>1, <1>2, <1>3, AllocatedFields
  <1>5. Free' = Free \ {c} /\ c \notin zombie_list /\ c # init_pcb /\ c \notin Asleep
    <2>1. Free' = Free \ {c}
      BY <1>1, <1>3, HeadOfFree DEF PCB_alloc, Free
    <2> QED BY <1>1, <1>4, <2>1, Apart DEF Live
  <1>6. KidsNext(init_pcb) = KidsOf(init_pcb) \cup {c}
    <2>1. children'[init_pcb] = Append(children[init_pcb], c)
      BY <1>1, <1>2, <1>3, <1>5, AllocatedFields
    <2> HIDE DEF c
    <2> QED BY <1>1, <1>4, <2>1, AppendElements DEF KidsNext, KidsOf
  <1> HIDE DEF c
  <1>7. Live' = Live \cup {c} /\ c \notin Live
    BY <1>4, <1>5 DEF Live
  <1>8. Asleep' = Asleep /\ Asleep \subseteq Blocks
    BY <1>1, <1>3, SleepersAreBlocks DEF Asleep
  <1>9. Family'
    <2>1. pid'[init_pcb'] = 0
      BY <1>1, <1>3, <1>4, <1>5 DEF Census, Family
    <2>2. ASSUME NEW b \in Live' \ {init_pcb'}
          PROVE  pid'[b] # 0 /\ parent'[b] = init_pcb' /\ b \in KidsNext(init_pcb)
      <3>1. CASE b = c
        BY <1>1, <1>4, <1>6, <3>1, <1>3
      <3>2. CASE b \in Live \ {init_pcb}
        <4>1. b # c /\ b \in Blocks
          BY <1>7, <3>2 DEF Live
        <4>2. pid[b] # 0 /\ parent[b] = init_pcb /\ b \in KidsOf(init_pcb)
          BY <3>2 DEF Census, Family
        <4> QED BY <1>3, <1>4, <1>6, <4>1, <4>2
      <3> QED BY <1>3, <1>7, <2>2, <3>1, <3>2
    <2>3. \A b \in Asleep' : pid'[b] > 1
      BY <1>4, <1>5, <1>8 DEF Census, Family
    <2> QED BY <1>3, <2>1, <2>2, <2>3 DEF Family, KidsOf, KidsNext
  <1>10. Ledger'
    <2>1. Unreaped' = IF last_pid > 1 THEN Unreaped \cup {c} ELSE Unreaped
      <3>1. \A b \in Live : b \in Blocks /\ b # c
        BY <1>7 DEF Live
      <3> QED BY <1>1, <1>4, <1>7, <3>1 DEF Unreaped
    <2>2. c \notin Unreaped /\ IsFiniteSet(Unreaped) /\ Cardinality(Unreaped) \in Nat
      BY <1>7, UnreapedFinite DEF Unreaped
    <2>3. Cardinality(Unreaped') = IF last_pid > 1 THEN Cardinality(Unreaped) + 1 ELSE Cardinality(Unreaped)
      BY <2>1, <2>2, FS_AddElement
    <2>4. /\ Cardinality(Unreaped) = alive_children
          /\ alive_children = IF last_pid <= 2 THEN 0 ELSE last_pid - 2
      BY <1>1, <1>3, <2>2 DEF Census, Ledger
    <2>5. init_pcb' \notin waiting_list'
      BY <1>1, <1>3
    <2>6. Cardinality(Unreaped') = last_pid - 1
      BY <1>1, <2>3, <2>4
    <2>7. last_pid' <= 2 => last_pid = 1
      BY <1>1, <1>4
    <2> QED BY <1>1, <1>3, <1>4, <2>5, <2>6, <2>7 DEF Ledger
  <1>11. Ended'
    <2>1. ASSUME NEW b \in Free' \cup zombie_list', pid'[b] > 1
          PROVE  pc'[b] = Len(Steps[test'])
      <3>1. b \in Free \cup zombie_list /\ b # c /\ b \in Blocks
        BY <1>1, <1>3, <1>5, <2>1, ElementsType DEF Core, TypeOK, Free
      <3> QED BY <1>3, <1>4, <2>1, <3>1 DEF Census, Ended
    <2>2. ASSUME NEW b \in Free', pid'[b] > 1 PROVE FALSE
      <3>1. b \in Free /\ b # c /\ b \in Blocks
        BY <1>1, <1>5, <2>2, ElementsType DEF Core, TypeOK, Free
      <3> QED BY <1>1, <1>3, <1>4, <2>2, <3>1 DEF Census, Ended
    <2>3. ASSUME NEW p \in 2 .. last_pid' - 1
          PROVE  \E b \in Blocks : pid'[b] = p
      <3>1. CASE p = last_pid
        BY <1>4, <3>1
      <3>2. CASE p # last_pid
        <4>1. PICK b \in Blocks : pid[b] = p
          BY <1>1, <1>4, <3>2 DEF Census, Ended
        <4>2. ~(pid[c] > 1)
          BY <1>1, <1>3, <1>4 DEF Census, Ended
        <4>3. b # c
          BY <4>1, <4>2
        <4> QED BY <1>4, <4>1, <4>3
      <3> QED BY <3>1, <3>2
    <2> QED BY <2>1, <2>2, <2>3 DEF Ended
  <1> QED BY <1>9, <1>10, <1>11 DEF Census

\* The arithmetic of the next lemma.
LEMMA NatStep ==
  ASSUME NEW a \in Nat, NEW n \in Nat
  PROVE  a = a + 0 /\ ~(n + 2 <= n + 1)
  OBVIOUS

\* What a reaped child takes out of the census:
\* one that init counts, or one that it waits for.
LEMMA OneLess ==
  ASSUME TestInv, Census, NEW c \in Live, pid[c] > 1, last_pid = NumChildren + 2,
         pc[c] = Len(Steps[test]), c # init_pcb,
         UNCHANGED <<pid, last_pid, init_pcb, parent, pc, test>>,
         Free' = Free \cup {c}, zombie_list' \subseteq zombie_list,
         KidsOf(init_pcb) \ {c} \subseteq KidsNext(init_pcb), Asleep' = Asleep,
         init_pcb \notin waiting_list',
         alive_children' \in Nat,
         alive_children' + 1 = alive_children + (IF init_pcb \in waiting_list THEN 1 ELSE 0)
  PROVE  Census'
  <1>0. Live' = Live \ {c}
    BY DEF Live
  <1>1. Family'
    BY <1>0 DEF Census, Family, KidsOf, KidsNext
  <1>2. Unreaped' = Unreaped \ {c} /\ c \in Unreaped
    BY <1>0 DEF Unreaped
  <1>3. /\ IsFiniteSet(Unreaped) /\ Cardinality(Unreaped) \in Nat /\ NumChildren \in Nat
    BY UnreapedFinite
  <1>4. Cardinality(Unreaped') = Cardinality(Unreaped) - 1
    BY <1>2, <1>3, FS_RemoveElement
  <1>5. Ledger'
    <2>1. /\ Cardinality(Unreaped) = alive_children + (IF init_pcb \in waiting_list THEN 1 ELSE 0)
          /\ alive_children \in Nat
      BY DEF Census, Ledger
    <2>2. PICK n \in Nat : n = Cardinality(Unreaped)
      BY <1>3
    <2>3. Cardinality(Unreaped') = n - 1
      BY <1>4, <2>2
    <2>4. n - 1 = alive_children'
      <3>1. PICK k \in Nat : k = IF init_pcb \in waiting_list THEN 1 ELSE 0
        OBVIOUS
      <3>2. PICK a \in Nat : a = alive_children
        BY <2>1
      <3>3. PICK b \in Nat : b = alive_children'
        OBVIOUS
      <3>4. n = a + k
        BY <2>1, <2>2, <3>1, <3>2, Zenon
      <3>5. b + 1 = a + k
        BY <3>1, <3>2, <3>3, Zenon
      <3>6. n \in Nat /\ k \in Nat /\ a \in Nat /\ b \in Nat
        BY <2>2, <3>1, <3>2, <3>3
      <3>7. n - 1 = b
        BY ONLY <3>4, <3>5, <3>6, SMT
      <3> QED BY <3>3, <3>7, Zenon
    <2>5. Cardinality(Unreaped') = alive_children'
      BY <2>3, <2>4, Zenon
    <2>6. init_pcb' \notin waiting_list' /\ last_pid' = NumChildren + 2
      OBVIOUS
    <2>7. alive_children' = alive_children' + 0 /\ ~(last_pid' <= NumChildren + 1)
      <3>1. PICK a \in Nat : a = alive_children'
        OBVIOUS
      <3>2. a = a + 0 /\ ~(NumChildren + 2 <= NumChildren + 1)
        BY <1>3, NatStep
      <3> QED BY <2>6, <3>1, <3>2, Zenon
    <2>8. Cardinality(Unreaped') = alive_children' + (IF init_pcb' \in waiting_list' THEN 1 ELSE 0)
      BY <2>5, <2>6, <2>7, Zenon
    <2>9. alive_children' \in Nat
      OBVIOUS
    <2>10. init_pcb' \in waiting_list' => last_pid' = NumChildren + 2
      BY <2>6, Zenon
    <2>11. last_pid' <= NumChildren + 1 =>
             alive_children' = IF last_pid' <= 2 THEN 0 ELSE last_pid' - 2
      BY <2>7, Zenon
    <2> QED BY <2>8, <2>9, <2>10, <2>11, Zenon DEF Ledger
  <1>6. Ended'
    <2>2. \A b \in Free' \cup zombie_list' : b = c \/ b \in Free \cup zombie_list
      OBVIOUS
    <2> QED BY <2>2 DEF Census, Ended
  <1> QED BY <1>1, <1>5, <1>6 DEF Census

LEMMA FreeAreBlocks ==
  ASSUME TestInv, TestNext
  PROVE  Free \subseteq Blocks /\ Free' \subseteq Blocks
  <1>1. SemInv /\ SemInv'
    BY BasicStep DEF TestInv
  <1> QED BY <1>1, ElementsType DEF SemInv, Core, TypeOK, Free

\* disastrOS_wait(0, ...) reaps a zombie of init or puts init to sleep.
LEMMA WaitCensus ==
  ASSUME TestInv, Census, Running(0), WaitStep, mode' = "Up"
  PROVE  Census'
  <1>1. /\ Core /\ last_pid = NumChildren + 2 /\ NumChildren \in Nat
        /\ init_pcb \in Live /\ init_pcb \notin zombie_list /\ pid \in [Blocks -> Nat]
        /\ running # NULL
    BY DEF TestInv, SemInv, Core, TypeOK, Pids, InitLives, WaitStep, Running
  <1>2. running = init_pcb /\ init_pcb \notin waiting_list
    BY <1>1, RunningIsLive DEF Running, Census, Family
  <1>3. /\ Calls /\ internal_wait(0) /\ UNCHANGED <<test, pc>>
        /\ alive_children > 0 /\ alive_children \in Nat
        /\ alive_children' = IF reported'.value < 0 THEN 0 ELSE alive_children - 1
    BY DEF WaitStep, internal_wait, Census, Ledger
  <1>4. PICK sleeper \in Live \ zombie_list : pid[sleeper] = 1
    BY <1>1, SleeperLives
  <1>5. KidsOf(init_pcb) # {}
    BY <1>1, <1>4 DEF Census, Family
  <1>6. ~WaitFails(0)
    BY <1>2, <1>5, EmptyElements DEF WaitFails, KidsOf
  <1>7. CASE WaitReaps(0) /\ awaited' = [awaited EXCEPT ![running] = 0]
    <2>1. Reaps /\ UNCHANGED <<init_pcb, waiting_list, timer_list>>
      BY <1>3, <1>7 DEF Reaps, WaitReaps
    <2>2. PICK z \in Blocks : Reaped(z) /\ reported' = [to |-> running, value |-> pid[z]]
      BY <1>1, <2>1, ReapedStep
    <2>3. z \in zombie_list /\ z \in Live /\ z # init_pcb
      BY <1>1, <2>2, Apart DEF Reaped, Live
    <2>4. pid[z] > 1
      <3>1. pid[z] # 0
        BY <2>3 DEF Census, Family
      <3>2. pid[z] # 1
        BY <1>4, <2>2, <2>3 DEF TestInv, Numbers, Live
      <3> QED BY <1>1, <2>2, <3>1, <3>2
    <2>5. alive_children' = alive_children - 1
      <3>1. reported'.value = pid[z] /\ pid[z] \in Nat
        BY <1>1, <2>2
      <3> QED BY <1>3, <2>4, <3>1
    <2>6. Free' = Free \cup {z}
      <3>1. Free \subseteq Blocks /\ Free' \subseteq Blocks
        BY FreeAreBlocks DEF TestNext, initFunction
      <3> QED BY <2>2, <2>3, <3>1 DEF Reaped, Live
    <2>7. /\ UNCHANGED <<pid, parent, last_pid>> /\ zombie_list' \subseteq zombie_list
          /\ KidsOf(init_pcb) \ {z} \subseteq KidsNext(init_pcb)
      BY <1>1, <1>2, <2>2, <2>3 DEF Reaped
    <2>8. pc[z] = Len(Steps[test]) /\ Asleep' = Asleep
      BY <2>1, <2>3, <2>4 DEF Census, Ended, Asleep
    <2>9. alive_children' \in Nat /\ alive_children' + 1 = alive_children
      BY <1>3, <2>5
    <2> QED BY <1>1, <1>2, <1>3, <2>1, <2>3, <2>4, <2>6, <2>7, <2>8, <2>9, OneLess
  <1>8. CASE WaitBlocks(0)
    <2>1. /\ UNCHANGED <<pcb_free, last_pid, pid, parent, children, init_pcb, zombie_list, timer_list>>
          /\ waiting_list' = waiting_list \cup {init_pcb} /\ reported' = NoReport
      BY <1>2, <1>8 DEF WaitBlocks, pools
    <2>2. alive_children' = alive_children - 1
      BY <1>3, <2>1 DEF NoReport
    <2>3. Live' = Live /\ Unreaped' = Unreaped /\ Asleep' = Asleep /\ Free' = Free
      BY <2>1 DEF Live, Free, Unreaped, Asleep
    <2>4. Ledger'
      <3>1. Cardinality(Unreaped) = alive_children
        BY <1>2, <1>3 DEF Census, Ledger
      <3>2. ~(last_pid <= NumChildren + 1)
        BY <1>1
      <3> QED BY <1>1, <1>3, <2>1, <2>2, <2>3, <3>1, <3>2 DEF Ledger
    <2> QED BY <1>3, <2>1, <2>3, <2>4 DEF Census, Family, Ended, KidsOf
  <1> QED BY <1>3, <1>6, <1>7, <1>8 DEF internal_wait, WaitCrashes, Crash

\* A child that exits becomes a zombie, or is reaped at once if init waits.
LEMMA ExitCensus ==
  ASSUME TestInv, Census, Calls, pid[running] > 1, pc[running] = Len(Steps[test]),
         internal_exit, SemaphoresKept, UNCHANGED program, mode' = "Up"
  PROVE  Census'
  <1>1. /\ Core /\ Exits /\ UNCHANGED <<test, pc, alive_children>>
        /\ init_pcb \in Live /\ init_pcb \notin zombie_list
    BY DEF TestInv, SemInv, Core, InitLives, internal_exit, Crash, Exits, CallsOther, Calls, program
  <1>2. /\ running \in Blocks /\ running \in Live /\ running # init_pcb
    BY <1>1, ExitFields
  <1>3. parent[running] = init_pcb
    BY <1>2 DEF Census, Family
  <1>4. Gone(running)
    BY <1>1, GoneStep
  <1>5. UNCHANGED <<pid, parent, last_pid, init_pcb>>
    BY <1>4 DEF Gone
  <1>6. CASE ExitWakesParent
    <2>1. /\ init_pcb \in waiting_list /\ waiting_list' = waiting_list \ {init_pcb}
          /\ timer_list' = timer_list /\ zombie_list' = zombie_list
      <3>1. ~ExitToZombie
        BY <1>6 DEF ExitToZombie, ExitWakesParent
      <3> QED BY <1>1, <1>3, <3>1, ExitFields
    <2>2. /\ Live' = Live \ {running}
          /\ \A c \in Live' : KidsNext(c) = Inherits(c, running) \ {running}
      BY <1>4, <2>1 DEF Gone
    <2>3. Free' = Free \cup {running}
      <3>1. Free \subseteq Blocks /\ Free' \subseteq Blocks
        BY FreeAreBlocks DEF TestNext, childFunction
      <3> QED BY <1>2, <2>2, <3>1 DEF Live
    <2>4. KidsOf(init_pcb) \ {running} \subseteq KidsNext(init_pcb)
      BY <1>1, <1>2, <2>2 DEF Inherits
    <2>5. last_pid = NumChildren + 2 /\ alive_children \in Nat /\ Asleep' = Asleep
      BY <2>1 DEF Census, Ledger, Asleep
    <2>6. alive_children' \in Nat /\ alive_children' + 1 = alive_children + 1
      BY <1>1, <2>5
    <2> QED BY <1>1, <1>2, <1>5, <2>1, <2>3, <2>4, <2>5, <2>6, OneLess
  <1>7. CASE ExitToZombie
    <2>1. /\ zombie_list' = zombie_list \cup {running}
          /\ UNCHANGED <<pools, waiting_list, timer_list>>
      <3>1. ~ExitWakesParent
        BY <1>7 DEF ExitToZombie, ExitWakesParent
      <3> QED BY <1>1, <3>1, ExitFields
    <2>2. \A c \in Live \ {running} : KidsNext(c) = Inherits(c, running)
      BY <1>4, <2>1 DEF Gone
    <2>3. KidsOf(init_pcb) \subseteq KidsNext(init_pcb)
      BY <1>1, <1>2, <2>2 DEF Inherits
    <2>4. Free' = Free /\ Asleep' = Asleep
      BY <2>1 DEF pools, Free, Asleep
    <2>5. Bystands
      BY <1>1, <1>5, <2>1, <2>3, <2>4 DEF Bystands
    <2> QED BY <2>5, CensusFrame
  <1> QED BY <1>1, <1>6, <1>7 DEF Exits

\* Only children block on semaphores.
LEMMA BlockedAreChildren ==
  ASSUME TestInv
  PROVE  \A b \in SemBlocked : b \in Blocks /\ pid[b] > 1
  <1>1. \A b \in SemBlocked : b \in Blocks
    BY DEF TestInv, SemInv, WaitsForOneThing, Core, TypeOK
  <1>2. CASE test = "semaphoreClean"
    BY <1>1, <1>2 DEF TestInv, OneToken, Numbers
  <1>3. CASE test # "semaphoreClean"
    BY <1>3, EmptyElements DEF TestInv, NobodyWaits, SemBlocked, AllWaiting, Waiting
  <1> QED BY <1>2, <1>3

\* What the semaphore calls do to the process table: they block the caller, or
\* wake who waits on a semaphore.
LEMMA SemCallTable ==
  ASSUME SemInv, running # NULL, NEW x, NEW flags, NEW c,
         \/ internal_semOpen(x, flags, c) \/ internal_semClose(x)
         \/ internal_semWait(x) \/ internal_semPost(x)
  PROVE  /\ UNCHANGED <<init_pcb, parent, children, timer_list>> /\ mode' # "Shutdown"
         /\ \A b \in Blocks \ {running} : b \notin SemBlocked =>
              (b \in waiting_list' <=> b \in waiting_list)
  <1>1. running \in Blocks
    BY RunningFacts
  <1>2. ASSUME NEW v, CallsSem, ReturnsSem(v)
        PROVE  /\ UNCHANGED <<init_pcb, parent, children, timer_list, waiting_list>>
               /\ mode' # "Shutdown"
    BY <1>2 DEF ReturnsSem, processes, pools, table, CallsSem, CallsOther, Calls
  <1>3. CASE internal_semOpen(x, flags, c)
    <2>1. \E v : CallsSem /\ ReturnsSem(v)
      BY <1>3 DEF internal_semOpen, FailsSem, OpenSemDescriptor
    <2> QED BY <1>2, <2>1
  <1>4. CASE internal_semClose(x)
    <2>1. \E v : CallsSem /\ ReturnsSem(v)
      BY <1>4 DEF internal_semClose, FailsSem
    <2> QED BY <1>2, <2>1
  <1>5. ASSUME NEW s, NEW d, SemBlocks(s, d)
        PROVE  /\ UNCHANGED <<init_pcb, parent, children, timer_list>> /\ mode' # "Shutdown"
               /\ waiting_list' = waiting_list \cup {running}
    BY <1>5 DEF SemBlocks, processes, pools, table, Resume
  <1>6. CASE internal_semWait(x)
    <2>1. ASSUME NEW fault, fault = "NullDereference", Crash(fault)
          PROVE  /\ UNCHANGED <<init_pcb, parent, children, timer_list, waiting_list>>
                 /\ mode' # "Shutdown"
      BY <2>1 DEF Crash, table, queues
    <2>2. \/ \E v : CallsSem /\ ReturnsSem(v)
          \/ \E s, d : SemBlocks(s, d)
          \/ Crash("NullDereference")
      BY <1>6 DEF internal_semWait, FailsSem
    <2> QED BY <1>2, <1>5, <2>1, <2>2
  <1>7. ASSUME NEW s \in Semaphores, waiters[s] # <<>>, CallsSem, SemWakes(s)
        PROVE  /\ UNCHANGED <<init_pcb, parent, children, timer_list>> /\ mode' # "Shutdown"
               /\ \A b \in Blocks : b \notin SemBlocked =>
                    (b \in waiting_list' <=> b \in waiting_list)
    <2> DEFINE p == sem_des[Head(waiters[s])].pcb
    <2>1. p \in SemBlocked
      <3>1. waiters[s] \in Seq(SemDescriptors)
        BY DEF SemInv, SemTyped
      <3>2. Head(waiters[s]) \in Elements(waiters[s])
        BY <1>7, <3>1 DEF Elements
      <3> QED BY <3>2 DEF SemBlocked, AllWaiting, Waiting
    <2>2. /\ waiting_list' = waiting_list \ {p} /\ mode' = mode
          /\ UNCHANGED <<init_pcb, parent, children, timer_list>>
      BY <1>7 DEF SemWakes, WaitingListWithout, processes, pools, table
    <2> HIDE DEF p
    <2> QED BY <1>7, <2>1, <2>2 DEF CallsSem, CallsOther, Calls
  <1>8. CASE internal_semPost(x)
    <2> DEFINE d == SemDescriptorList_byFd(x)
               s == sem_des[d].semaphore
    <2>1. d # NULL => s \in Semaphores
      BY <1>1, FoundDescriptor, RunningUses DEF SemInv
    <2>2. \/ \E v : CallsSem /\ ReturnsSem(v)
          \/ d # NULL /\ waiters[s] # <<>> /\ CallsSem /\ SemWakes(s)
      BY <1>8 DEF internal_semPost, FailsSem
    <2> HIDE DEF s, d
    <2> QED BY <1>2, <1>7, <2>1, <2>2
  <1> QED BY <1>3, <1>4, <1>6, <1>8

ProgramUp == mode \in {"Up", "Shutdown"}

\* Init shuts the system down when nobody is left to reap.
AtShutdown ==
  mode = "Shutdown" =>
    running = init_pcb /\ last_pid = NumChildren + 2 /\ alive_children = 0

ChildExits ==
  /\ Calls /\ pid[running] > 1
  /\ pc[running] = Len(Steps[test])
  /\ internal_exit /\ SemaphoresKept
  /\ UNCHANGED program

\* The ticks, the sleeps, the steps of init and the exits of children keep the
\* census, and init shuts down only when it counts nobody.
LEMMA TableCensus ==
  ASSUME TestInv, Census, ProgramUp',
         \/ Tick \/ SleepStep \/ initFunction
         \/ ChildExits
  PROVE  Census' /\ AtShutdown'
  <1>1. Core /\ SemInv /\ init_pcb \in Live /\ init_pcb \notin zombie_list
    BY DEF TestInv, SemInv, Core, InitLives
  <1>2. ASSUME NEW f, f = "NullDereference", Crash(f) PROVE FALSE
    BY <1>2 DEF Crash, ProgramUp
  <1>3. ASSUME NEW b, Resume(b) PROVE mode' = "Up"
    BY <1>3 DEF Resume, ProgramUp
  <1>4. CASE Tick
    <2>1. /\ mode = "Up" /\ running # NULL /\ internal_schedule(TimersAfterTick)
          /\ UNCHANGED program
      BY <1>2, <1>4 DEF Tick, timerInterrupt
    <2>2. PICK W \in SUBSET Asleep : ScheduleEffect(W)
      BY <1>1, <2>1, TurnIsSchedule
    <2>3. /\ Asleep' = Asleep \ W /\ waiting_list' = waiting_list \ W
          /\ UNCHANGED <<pools, pid, parent, children, init_pcb, zombie_list>>
      BY <2>2 DEF ScheduleEffect
    <2>4. init_pcb \notin W
      BY DEF Census, Family
    <2>5. UNCHANGED <<test, pc, alive_children, last_pid, pcb_free>>
      BY <2>1, <2>3 DEF program, pools
    <2>6. Bystands
      BY <2>3, <2>4, <2>5 DEF Bystands, KidsOf, KidsNext, Free
    <2>7. mode' # "Shutdown"
      BY <1>3, <2>1 DEF internal_schedule
    <2> QED BY <2>6, <2>7, CensusFrame DEF AtShutdown
  <1>5. CASE SleepStep
    <2>1. At("sleep") /\ internal_sleep(1) /\ UNCHANGED others
      BY <1>5 DEF SleepStep
    <2>2. Sleeps
      BY <2>1 DEF Sleeps
    <2>3. /\ running \in Blocks /\ waiting_list' = waiting_list \cup {running}
          /\ UNCHANGED <<pools, pid, parent, children, init_pcb, zombie_list>>
      BY <1>1, <2>2, BlockFields
    <2>4. timer_list' = TimerList_add(timer_list, 1, running)
      BY <2>1 DEF internal_sleep
    <2>5. Asleep' = Asleep \cup {running}
      <3>1. ~WaitsForChild
        <4>1. ASSUME NEW a, a \in WaitPids, awaited' = [awaited EXCEPT ![running] = a] PROVE FALSE
          <5>1. awaited' = [awaited EXCEPT ![running] = NotWaiting] /\ awaited \in [Blocks -> Waits]
            BY <1>1, <2>1 DEF internal_sleep, CallsOther, Core, TypeOK, Waits
          <5>2. a = NotWaiting
            BY <2>3, <4>1, <5>1
          <5>3. WaitPids \subseteq Nat /\ NotWaiting \notin Nat
            BY DEF NotWaiting
          <5> QED BY <4>1, <5>2, <5>3
        <4> QED BY <4>1 DEF WaitsForChild
      <3> QED BY <1>1, <2>2, <3>1, BlockFields
    <2>6. /\ pid[running] > 1 /\ running \notin Free \cup zombie_list /\ running # init_pcb
          /\ \A b \in Blocks : b = running \/ pc'[b] = pc[b]
      BY <1>1, <2>1, AtFacts, RunningFacts DEF At, Census, Family
    <2>7. UNCHANGED <<test, alive_children, last_pid, pcb_free>> /\ Free \subseteq Blocks /\ zombie_list \subseteq Blocks
      BY <1>1, <2>1, <2>3, Apart, ElementsType DEF others, pools, Core, TypeOK, Free
    <2>8. Bystands
      BY <2>3, <2>5, <2>6, <2>7 DEF Bystands, KidsOf, KidsNext, Free
    <2>9. mode' # "Shutdown"
      BY <1>3, <2>1 DEF internal_sleep, At
    <2> QED BY <2>8, <2>9, CensusFrame DEF AtShutdown
  <1>6. CASE initFunction
    <2>1. Running(0) /\ mode = "Up"
      BY <1>6 DEF initFunction, Running
    <2>2. CASE SpawnStep
      <3>1. mode' = "Up"
        BY <1>2, <2>2, <2>1 DEF SpawnStep, internal_spawn, Create
      <3> QED BY <2>1, <2>2, <3>1, SpawnCensus DEF AtShutdown
    <2>3. CASE WaitStep
      <3>1. mode' = "Up"
        BY <1>2, <1>3, <2>3, <2>1 DEF WaitStep, internal_wait, WaitFails, WaitReaps, WaitBlocks, WaitCrashes
      <3> QED BY <2>1, <2>3, <3>1, WaitCensus DEF AtShutdown
    <2>4. CASE ShutdownStep
      <3>1. /\ UNCHANGED <<pools, table, running, init_pcb, queues>> /\ UNCHANGED program
            /\ last_pid = NumChildren + 2 /\ alive_children = 0
        BY <2>4 DEF ShutdownStep, internal_shutdown
      <3>2. UNCHANGED <<pcb_free, last_pid, pid, parent, children, waiting_list, zombie_list, timer_list,
                        test, pc, alive_children>>
        BY <3>1 DEF pools, table, queues, program
      <3>3. Bystands
        BY <3>1, <3>2 DEF Bystands, Asleep, Free, KidsOf, KidsNext
      <3>4. running = init_pcb
        BY <1>1, <2>1, RunningIsLive DEF Running, Census, Family
      <3> QED BY <3>1, <3>2, <3>3, <3>4, CensusFrame DEF AtShutdown
    <2> QED BY <1>6, <2>2, <2>3, <2>4 DEF initFunction
  <1>7. CASE ChildExits
    <2>1. mode' = "Up"
      <3>1. ASSUME NEW f, f \in {"NullDereference", "Hang"}, Crash(f) PROVE FALSE
        BY <3>1 DEF Crash, ProgramUp
      <3> QED BY <1>3, <1>7, <3>1 DEF ChildExits, internal_exit, ExitWakesParent, ExitToZombie
    <2> QED BY <1>7, <2>1, ExitCensus DEF ChildExits, AtShutdown
  <1> QED BY <1>4, <1>5, <1>6, <1>7

LEMMA CensusStep ==
  ASSUME TestInv, Census, TestNext, ProgramUp'
  PROVE  Census' /\ AtShutdown'
  <1>1. Core /\ SemInv /\ IdleAwake /\ zombie_list \subseteq Blocks /\ Free \subseteq Blocks
    BY ElementsType DEF TestInv, SemInv, Core, TypeOK, Free
  <1>2. CASE SemOpenStep \/ SemStep
    <2>1. PICK kind : At(kind)
      BY <1>2, CallKeeps
    <2>2. /\ \E x, flags, c : \/ internal_semOpen(x, flags, c) \/ internal_semClose(x)
                              \/ internal_semWait(x) \/ internal_semPost(x)
          /\ UNCHANGED <<test, alive_children>>
      BY <1>2 DEF SemOpenStep, SemStep, others
    <2>3. /\ running # NULL /\ pid[running] > 1 /\ running \notin Free \cup zombie_list
          /\ \A b \in Blocks : b = running \/ pc'[b] = pc[b]
      BY <1>1, <2>1, AtFacts, RunningFacts DEF At
    <2>4. UNCHANGED <<pid, last_pid, pcb_free, zombie_list>>
      BY <1>1, <2>2, SemCallFrame
    <2>5. /\ UNCHANGED <<init_pcb, parent, children, timer_list>> /\ mode' # "Shutdown"
          /\ \A b \in Blocks \ {running} : b \notin SemBlocked =>
               (b \in waiting_list' <=> b \in waiting_list)
      BY <1>1, <2>2, <2>3, SemCallTable
    <2>6. init_pcb \in Blocks \ {running} /\ init_pcb \notin SemBlocked
      <3>1. init_pcb \in Blocks /\ ~(pid[init_pcb] > 1)
        BY <1>1 DEF Core, TypeOK, Census, Family
      <3> QED BY <2>3, <3>1, BlockedAreChildren
    <2>7. Bystands
      BY <1>1, <2>2, <2>3, <2>4, <2>5, <2>6 DEF Bystands, KidsOf, KidsNext, Free, Asleep
    <2> QED BY <2>5, <2>7, CensusFrame DEF AtShutdown
  <1>3. CASE LoadStep \/ StoreStep
    <2>1. PICK kind : At(kind) /\ UNCHANGED sem_vars
      BY <1>3, OwnStep
    <2>2. UNCHANGED <<test, alive_children>> /\ mode = "Up"
      BY <1>3, <2>1 DEF LoadStep, StoreStep, others, At
    <2>3. /\ running \notin Free \cup zombie_list
          /\ \A b \in Blocks : b = running \/ pc'[b] = pc[b]
      BY <1>1, <2>1, AtFacts, RunningFacts DEF At
    <2>4. UNCHANGED <<pid, last_pid, pcb_free, zombie_list, init_pcb, parent, children,
                      timer_list, waiting_list, mode>>
      BY <2>1 DEF sem_vars, vars, pools, table, queues
    <2>5. Bystands
      BY <1>1, <2>2, <2>3, <2>4 DEF Bystands, KidsOf, KidsNext, Free, Asleep
    <2> QED BY <2>2, <2>4, <2>5, CensusFrame DEF AtShutdown
  <1> QED BY <1>2, <1>3, TableCensus DEF TestNext, childFunction, ChildExits

-----------------------------------------------------------------------------
(* When a variable of a child holds an open descriptor *)

\* The steps of the other tests, with their variables
LEMMA OpenCloseSteps ==
  LET s == Steps["semaphoreOpenClose"] IN
  /\ Len(s) = 2
  /\ s[1][1] = "semOpen" /\ s[1][2] = "fd"
  /\ s[2][1] = "semClose" /\ s[2][2] = "fd"
  BY DEF Steps

\* What each test consists of.
LEMMA NoOpenSteps ==
  LET s == Steps["semaphoreNoOpen"] IN
  /\ Len(s) = 3
  /\ s[1][1] = "semWait" /\ s[1][2] = "ID"
  /\ s[2][1] = "semPost" /\ s[2][2] = "ID"
  /\ s[3][1] = "semClose" /\ s[3][2] = "ID"
  BY DEF Steps

LEMMA DoubleOpenSteps ==
  LET s == Steps["semaphoreDoubleOpen"] IN
  /\ Len(s) = 4
  /\ s[1][1] = "semOpen" /\ s[1][2] = "fd"
  /\ s[2][1] = "semOpen" /\ s[2][2] = "fd2"
  /\ s[3][1] = "semClose" /\ s[3][2] = "fd"
  /\ s[4][1] = "semClose" /\ s[4][2] = "fd2"
  BY DEF Steps

LEMMA BoundsSteps ==
  LET s == Steps["semaphoreBoundsException"] IN
  /\ Len(s) = 4
  /\ s[1][1] = "semOpen" /\ s[1][2] = "fd"
  /\ s[2][1] = "semWait" /\ s[2][2] = "fd"
  /\ s[3][1] = "semPost" /\ s[3][2] = "fd"
  /\ s[4][1] = "semClose" /\ s[4][2] = "fd"
  BY DEF Steps

LEMMA ReOpenSteps ==
  LET s == Steps["semaphoreReOpen"] IN
  /\ Len(s) = 6
  /\ s[1][1] = "semOpen" /\ s[1][2] = "fd"
  /\ s[2][1] = "sleep" /\ s[2][2] = ""
  /\ s[3][1] = "semClose" /\ s[3][2] = "fd"
  /\ s[4][1] = "semOpen" /\ s[4][2] = "fd"
  /\ s[5][1] = "sleep" /\ s[5][2] = ""
  /\ s[6][1] = "semClose" /\ s[6][2] = "fd"
  BY DEF Steps

LEMMA NoCloseSteps ==
  LET s == Steps["semaphoreNoClose"] IN
  /\ Len(s) = 1
  /\ s[1][1] = "semOpen" /\ s[1][2] = "fd"
  BY DEF Steps

LEMMA MQNoCloseSteps ==
  LET s == Steps["messageQueueNoClose"] IN
  /\ Len(s) = 1
  /\ s[1][1] = "semOpen" /\ s[1][2] = "fd"
  BY DEF Steps

\* The variable x of a child holds an open descriptor once it has done n steps of
\* test t.
IsOpen(t, n, x) ==
  \/ /\ x = "fd"
     /\ \/ t = "semaphoreClean" /\ n \in 2 .. 7
        \/ t \in {"semaphoreOpenClose", "semaphoreNoClose", "messageQueueNoClose"} /\ n = 1
        \/ t = "semaphoreDoubleOpen" /\ n \in 1 .. 2
        \/ t = "semaphoreBoundsException" /\ n \in 1 .. 3
        \/ t = "semaphoreReOpen" /\ n \in {1, 2, 4, 5}
  \/ x = "fd2" /\ t = "semaphoreDoubleOpen" /\ n \in 2 .. 3

OpensNext(t, n) == n < Len(Steps[t]) /\ Steps[t][n + 1][1] = "semOpen"

\* The n-th step of a test, of this kind and with variable v, as far as the
\* descriptors go
Uses(t, n, kind, v) ==
  /\ kind = "semOpen" =>
       /\ v \in {"fd", "fd2"} /\ ~IsOpen(t, n - 1, v)
       /\ \A x \in {"fd", "fd2"} : IsOpen(t, n, x) <=> IsOpen(t, n - 1, x) \/ x = v
  /\ kind = "semClose" =>
       \A x \in {"fd", "fd2"} : /\ IsOpen(t, n, x) <=> IsOpen(t, n - 1, x) /\ x # v
                                /\ IsOpen(t, n - 1, x) => v # "ID"
  /\ kind \notin {"semOpen", "semClose"} =>
       \A x \in {"fd", "fd2"} : IsOpen(t, n, x) <=> IsOpen(t, n - 1, x)
  /\ kind \in {"load_OK", "load_KO"} => v \in {"a", "b"}
  /\ t \in {"semaphoreNoClose", "messageQueueNoClose"} => kind = "semOpen" /\ n = 1

\* Every step of every test does to its variables what IsOpen says of it.
LEMMA EveryStepUses ==
  ASSUME NEW t \in DOMAIN Steps, NEW n \in 1 .. Len(Steps[t])
  PROVE  Uses(t, n, Steps[t][n][1], Steps[t][n][2])
  <1>1. CASE t = "semaphoreClean"
    <2>1. Len(Steps[t]) = 9
      BY <1>1, CleanSteps
    <2>2. n \in {1, 2, 3, 4, 5, 6, 7, 8, 9}
      BY <2>1
    <2>3. CASE n = 1
      <3>1. Uses("semaphoreClean", 1, "load_KO", "b")
        BY DEF Uses, IsOpen
      <3> QED BY <1>1, <2>3, <3>1, CleanSteps
    <2>4. CASE n = 2
      <3>1. Uses("semaphoreClean", 2, "semOpen", "fd")
        BY DEF Uses, IsOpen
      <3> QED BY <1>1, <2>4, <3>1, CleanSteps
    <2>5. CASE n = 3
      <3>1. Uses("semaphoreClean", 3, "semWait", "fd")
        BY DEF Uses, IsOpen
      <3> QED BY <1>1, <2>5, <3>1, CleanSteps
    <2>6. CASE n = 4
      <3>1. Uses("semaphoreClean", 4, "load_OK", "a")
        BY DEF Uses, IsOpen
      <3> QED BY <1>1, <2>6, <3>1, CleanSteps
    <2>7. CASE n = 5
      <3>1. Uses("semaphoreClean", 5, "sleep", "")
        BY DEF Uses, IsOpen
      <3> QED BY <1>1, <2>7, <3>1, CleanSteps
    <2>8. CASE n = 6
      <3>1. Uses("semaphoreClean", 6, "store_OK", "a")
        BY DEF Uses, IsOpen
      <3> QED BY <1>1, <2>8, <3>1, CleanSteps
    <2>9. CASE n = 7
      <3>1. Uses("semaphoreClean", 7, "semPost", "fd")
        BY DEF Uses, IsOpen
      <3> QED BY <1>1, <2>9, <3>1, CleanSteps
    <2>10. CASE n = 8
      <3>1. Uses("semaphoreClean", 8, "semClose", "fd")
        BY DEF Uses, IsOpen
      <3> QED BY <1>1, <2>10, <3>1, CleanSteps
    <2>11. CASE n = 9
      <3>1. Uses("semaphoreClean", 9, "store_KO", "b")
        BY DEF Uses, IsOpen
      <3> QED BY <1>1, <2>11, <3>1, CleanSteps
    <2> QED BY <2>2, <2>3, <2>4, <2>5, <2>6, <2>7, <2>8, <2>9, <2>10, <2>11
  <1>2. CASE t = "semaphoreOpenClose"
    <2>1. Len(Steps[t]) = 2
      BY <1>2, OpenCloseSteps
    <2>2. n \in {1, 2}
      BY <2>1
    <2>3. CASE n = 1
      <3>1. Uses("semaphoreOpenClose", 1, "semOpen", "fd")
        BY DEF Uses, IsOpen
      <3> QED BY <1>2, <2>3, <3>1, OpenCloseSteps
    <2>4. CASE n = 2
      <3>1. Uses("semaphoreOpenClose", 2, "semClose", "fd")
        BY DEF Uses, IsOpen
      <3> QED BY <1>2, <2>4, <3>1, OpenCloseSteps
    <2> QED BY <2>2, <2>3, <2>4
  <1>3. CASE t = "semaphoreNoOpen"
    <2>1. Len(Steps[t]) = 3
      BY <1>3, NoOpenSteps
    <2>2. n \in {1, 2, 3}
      BY <2>1
    <2>3. CASE n = 1
      <3>1. Uses("semaphoreNoOpen", 1, "semWait", "ID")
        BY DEF Uses, IsOpen
      <3> QED BY <1>3, <2>3, <3>1, NoOpenSteps
    <2>4. CASE n = 2
      <3>1. Uses("semaphoreNoOpen", 2, "semPost", "ID")
        BY DEF Uses, IsOpen
      <3> QED BY <1>3, <2>4, <3>1, NoOpenSteps
    <2>5. CASE n = 3
      <3>1. Uses("semaphoreNoOpen", 3, "semClose", "ID")
        BY DEF Uses, IsOpen
      <3> QED BY <1>3, <2>5, <3>1, NoOpenSteps
    <2> QED BY <2>2, <2>3, <2>4, <2>5
  <1>4. CASE t = "semaphoreDoubleOpen"
    <2>1. Len(Steps[t]) = 4
      BY <1>4, DoubleOpenSteps
    <2>2. n \in {1, 2, 3, 4}
      BY <2>1
    <2>3. CASE n = 1
      <3>1. Uses("semaphoreDoubleOpen", 1, "semOpen", "fd")
        BY DEF Uses, IsOpen
      <3> QED BY <1>4, <2>3, <3>1, DoubleOpenSteps
    <2>4. CASE n = 2
      <3>1. Uses("semaphoreDoubleOpen", 2, "semOpen", "fd2")
        BY DEF Uses, IsOpen
      <3> QED BY <1>4, <2>4, <3>1, DoubleOpenSteps
    <2>5. CASE n = 3
      <3>1. Uses("semaphoreDoubleOpen", 3, "semClose", "fd")
        BY DEF Uses, IsOpen
      <3> QED BY <1>4, <2>5, <3>1, DoubleOpenSteps
    <2>6. CASE n = 4
      <3>1. Uses("semaphoreDoubleOpen", 4, "semClose", "fd2")
        BY DEF Uses, IsOpen
      <3> QED BY <1>4, <2>6, <3>1, DoubleOpenSteps
    <2> QED BY <2>2, <2>3, <2>4, <2>5, <2>6
  <1>5. CASE t = "semaphoreBoundsException"
    <2>1. Len(Steps[t]) = 4
      BY <1>5, BoundsSteps
    <2>2. n \in {1, 2, 3, 4}
      BY <2>1
    <2>3. CASE n = 1
      <3>1. Uses("semaphoreBoundsException", 1, "semOpen", "fd")
        BY DEF Uses, IsOpen
      <3> QED BY <1>5, <2>3, <3>1, BoundsSteps
    <2>4. CASE n = 2
      <3>1. Uses("semaphoreBoundsException", 2, "semWait", "fd")
        BY DEF Uses, IsOpen
      <3> QED BY <1>5, <2>4, <3>1, BoundsSteps
    <2>5. CASE n = 3
      <3>1. Uses("semaphoreBoundsException", 3, "semPost", "fd")
        BY DEF Uses, IsOpen
      <3> QED BY <1>5, <2>5, <3>1, BoundsSteps
    <2>6. CASE n = 4
      <3>1. Uses("semaphoreBoundsException", 4, "semClose", "fd")
        BY DEF Uses, IsOpen
      <3> QED BY <1>5, <2>6, <3>1, BoundsSteps
    <2> QED BY <2>2, <2>3, <2>4, <2>5, <2>6
  <1>6. CASE t = "semaphoreReOpen"
    <2>1. Len(Steps[t]) = 6
      BY <1>6, ReOpenSteps
    <2>2. n \in {1, 2, 3, 4, 5, 6}
      BY <2>1
    <2>3. CASE n = 1
      <3>1. Uses("semaphoreReOpen", 1, "semOpen", "fd")
        BY DEF Uses, IsOpen
      <3> QED BY <1>6, <2>3, <3>1, ReOpenSteps
    <2>4. CASE n = 2
      <3>1. Uses("semaphoreReOpen", 2, "sleep", "")
        BY DEF Uses, IsOpen
      <3> QED BY <1>6, <2>4, <3>1, ReOpenSteps
    <2>5. CASE n = 3
      <3>1. Uses("semaphoreReOpen", 3, "semClose", "fd")
        BY DEF Uses, IsOpen
      <3> QED BY <1>6, <2>5, <3>1, ReOpenSteps
    <2>6. CASE n = 4
      <3>1. Uses("semaphoreReOpen", 4, "semOpen", "fd")
        BY DEF Uses, IsOpen
      <3> QED BY <1>6, <2>6, <3>1, ReOpenSteps
    <2>7. CASE n = 5
      <3>1. Uses("semaphoreReOpen", 5, "sleep", "")
        BY DEF Uses, IsOpen
      <3> QED BY <1>6, <2>7, <3>1, ReOpenSteps
    <2>8. CASE n = 6
      <3>1. Uses("semaphoreReOpen", 6, "semClose", "fd")
        BY DEF Uses, IsOpen
      <3> QED BY <1>6, <2>8, <3>1, ReOpenSteps
    <2> QED BY <2>2, <2>3, <2>4, <2>5, <2>6, <2>7, <2>8
  <1>7. CASE t = "semaphoreNoClose"
    <2>1. Len(Steps[t]) = 1
      BY <1>7, NoCloseSteps
    <2>2. n \in {1}
      BY <2>1
    <2>3. CASE n = 1
      <3>1. Uses("semaphoreNoClose", 1, "semOpen", "fd")
        BY DEF Uses, IsOpen
      <3> QED BY <1>7, <2>3, <3>1, NoCloseSteps
    <2> QED BY <2>2, <2>3
  <1>8. CASE t = "messageQueueNoClose"
    <2>1. Len(Steps[t]) = 1
      BY <1>8, MQNoCloseSteps
    <2>2. n \in {1}
      BY <2>1
    <2>3. CASE n = 1
      <3>1. Uses("messageQueueNoClose", 1, "semOpen", "fd")
        BY DEF Uses, IsOpen
      <3> QED BY <1>8, <2>3, <3>1, MQNoCloseSteps
    <2> QED BY <2>2, <2>3
  <1> QED BY TestNames, <1>1, <1>2, <1>3, <1>4, <1>5, <1>6, <1>7, <1>8

\* A test that opens a descriptor after another kind of step has none by then.
LEMMA NoneBeforeOpen ==
  ASSUME NEW t \in DOMAIN Steps, NEW n \in 1 .. Len(Steps[t]), Steps[t][n][1] # "semOpen",
         OpensNext(t, n), NEW x \in {"fd", "fd2"}
  PROVE  ~IsOpen(t, n, x)
  <1>1. CASE t = "semaphoreClean"
    <2>1. n + 1 = 2
      <3>1. Len(Steps[t]) = 9
        BY <1>1, CleanSteps
      <3>2. n \in Nat /\ n >= 1 /\ n < 9 /\ Steps["semaphoreClean"][n + 1][1] = "semOpen"
        BY <1>1, <3>1 DEF OpensNext
      <3>3. n + 1 \in 1 .. 9
        BY <3>2
      <3> QED BY <3>2, <3>3, CleanKinds
    <2> QED BY <1>1, <2>1 DEF IsOpen
  <1>2. CASE t = "semaphoreOpenClose"
    <2>1. Len(Steps[t]) = 2
      BY <1>2, OpenCloseSteps
    <2>2. n = 1
      BY <2>1 DEF OpensNext
    <2> QED BY <1>2, <2>2, OpenCloseSteps
  <1>3. CASE t = "semaphoreNoClose" \/ t = "messageQueueNoClose"
    <2>1. Len(Steps[t]) = 1
      BY <1>3, NoCloseSteps, MQNoCloseSteps
    <2> QED BY <2>1 DEF OpensNext
  <1>4. CASE t = "semaphoreNoOpen"
    BY <1>4 DEF IsOpen
  <1>5. CASE t = "semaphoreDoubleOpen" \/ t = "semaphoreBoundsException"
    <2>1. Len(Steps[t]) = 4
      BY <1>5, DoubleOpenSteps, BoundsSteps
    <2>2. n \in {1, 2, 3}
      BY <2>1 DEF OpensNext
    <2>3. Steps[t][3][1] # "semOpen" /\ Steps[t][4][1] # "semOpen" /\ Steps[t][1][1] = "semOpen"
      BY <1>5, DoubleOpenSteps, BoundsSteps
    <2> QED BY <2>2, <2>3 DEF OpensNext
  <1>6. CASE t = "semaphoreReOpen"
    <2>1. Len(Steps[t]) = 6
      BY <1>6, ReOpenSteps
    <2>2. n \in {1, 2, 3, 4, 5}
      BY <2>1 DEF OpensNext
    <2>3. /\ Steps[t][2][1] # "semOpen" /\ Steps[t][3][1] # "semOpen"
          /\ Steps[t][5][1] # "semOpen" /\ Steps[t][6][1] # "semOpen"
      BY <1>6, ReOpenSteps
    <2>4. n = 3
      BY <2>2, <2>3 DEF OpensNext
    <2> QED BY <1>6, <2>4 DEF IsOpen
  <1> QED BY TestNames, <1>1, <1>2, <1>3, <1>4, <1>5, <1>6

\* No variable is open before the first step, and in a tidy test none after the last.
LEMMA OpenAtTheEnds ==
  ASSUME NEW t \in DOMAIN Steps, NEW x
  PROVE  /\ ~IsOpen(t, 0, x)
         /\ IsOpen(t, Len(Steps[t]), x) => t \in {"semaphoreNoClose", "messageQueueNoClose"}
  <1>1. /\ Len(Steps["semaphoreOpenClose"]) = 2 /\ Len(Steps["semaphoreNoOpen"]) = 3
        /\ Len(Steps["semaphoreDoubleOpen"]) = 4 /\ Len(Steps["semaphoreBoundsException"]) = 4
        /\ Len(Steps["semaphoreReOpen"]) = 6 /\ Len(Steps["semaphoreClean"]) = 9
    BY OpenCloseSteps, NoOpenSteps, DoubleOpenSteps, BoundsSteps, ReOpenSteps, CleanSteps
  <1> QED BY <1>1, TestNames DEF IsOpen

-----------------------------------------------------------------------------
(* What each child holds, by name *)

\* An open variable of b has this number.
InVariable(b, fd) ==
  \E x \in {"fd", "fd2"} : IsOpen(test, pc[b], x) /\ local[b][x] = fd

\* Every descriptor b holds is in a variable of b that is open; no two have the
\* same number, and none has that of the descriptor b opens next.
Fitting(b) ==
  /\ last_sem_fd[b] = Len(sem_descriptors[b])
  /\ \A d \in Held(b) :
       /\ sem_des[d].fd \in 0 .. MAX_NUM_SEMDESCRIPTORS_PER_PROCESS
       /\ InVariable(b, sem_des[d].fd)
       /\ OpensNext(test, pc[b]) => sem_des[d].fd < last_sem_fd[b]
  /\ \A d, e \in Held(b) : sem_des[d].fd = sem_des[e].fd => d = e

\* A descriptor that is not in the pool is held.
Allotted == \A d \in SemDescriptors \ sem_des_free : \E b \in Blocks : d \in Held(b)

\* In a test that closes nothing, who has opened holds.
LeftOpen == ~Tidy => \A b \in Blocks : pc[b] > 0 => Held(b) # {}

\* There is at most one semaphore, and somebody uses it or waits on it.
OneSemaphore ==
  \A s \in semaphores_list : /\ sem_id[s] = ID /\ semaphores_list = {s}
                             /\ users[s] \cup Waiting(s) # {}

Named == (\A b \in Blocks : Fitting(b)) /\ Allotted /\ LeftOpen /\ OneSemaphore

\* A step that leaves b what it holds and its open variables as they are
Unmoved(b) ==
  /\ UNCHANGED <<test, sem_descriptors[b], last_sem_fd[b]>>
  /\ \A d \in Held(b) : sem_des'[d] = sem_des[d]
  /\ \A x \in {"fd", "fd2"} : IsOpen(test, pc[b], x) =>
       IsOpen(test, pc'[b], x) /\ local'[b][x] = local[b][x]
  /\ OpensNext(test, pc'[b]) => OpensNext(test, pc[b]) \/ Held(b) = {}

\* A process that the step leaves as it is keeps its descriptors in its variables.
LEMMA FittingKept ==
  ASSUME NEW b, Fitting(b), Unmoved(b)
  PROVE  Fitting(b)' /\ Held(b)' = Held(b)
  <1>1. Held(b)' = Held(b)
    BY DEF Held, Unmoved
  <1>2. last_sem_fd'[b] = Len(sem_descriptors'[b])
    BY DEF Fitting, Unmoved
  <1>3. ASSUME NEW d \in Held(b)
        PROVE  /\ sem_des'[d].fd \in 0 .. MAX_NUM_SEMDESCRIPTORS_PER_PROCESS
               /\ InVariable(b, sem_des[d].fd)'
               /\ OpensNext(test', pc'[b]) => sem_des'[d].fd < last_sem_fd'[b]
    BY <1>3 DEF Fitting, Unmoved, InVariable
  <1>4. \A d, e \in Held(b) : sem_des'[d].fd = sem_des'[e].fd => d = e
    BY DEF Fitting, Unmoved
  <1>5. \A d \in Held(b) : sem_des'[d] = sem_des[d]
    BY DEF Unmoved
  <1> QED BY <1>1, <1>2, <1>3, <1>4, <1>5 DEF Fitting, InVariable

\* A block that no child runs in, or has run in, holds nothing.
LEMMA NothingYet ==
  ASSUME ProgramTyped, SemTyped, NEW b \in Blocks, Fitting(b), pc[b] = 0
  PROVE  Held(b) = {} /\ last_sem_fd[b] = 0
  <1>1. Held(b) = {}
    BY OpenAtTheEnds DEF Fitting, InVariable, ProgramTyped
  <1>2. sem_descriptors[b] \in Seq(SemDescriptors)
    BY DEF SemTyped
  <1>3. ASSUME Len(sem_descriptors[b]) > 0 PROVE FALSE
    <2>1. 1 \in 1 .. Len(sem_descriptors[b])
      BY <1>2, <1>3
    <2>2. sem_descriptors[b][1] \in Held(b)
      BY <2>1 DEF Held, Elements
    <2> QED BY <1>1, <2>2
  <1> QED BY <1>1, <1>2, <1>3 DEF Fitting

\* The running child's step, and that the others stay where they are
LEMMA StepUses ==
  ASSUME TestInv, NEW kind, At(kind)
  PROVE  /\ running \in Blocks /\ pc' \in [Blocks -> Nat] /\ pc'[running] = pc[running] + 1
         /\ Uses(test, pc'[running], kind, Variable)
         /\ pc'[running] \in 1 .. Len(Steps[test]) /\ Steps[test][pc'[running]][1] = kind
         /\ test \in DOMAIN Steps /\ pc'[running] - 1 = pc[running] /\ pc[running] \in Nat
         /\ \A b \in Blocks : b = running \/ pc'[b] = pc[b]
  <1>1. /\ running \in Blocks /\ pid[running] > 1
        /\ pc[running] + 1 \in 1 .. Len(Steps[test])
        /\ Steps[test][pc[running] + 1][1] = kind
        /\ pc' \in [Blocks -> Nat]
        /\ \A b \in Blocks : b = running \/ pc'[b] = pc[b]
    BY AtFacts
  <1>2. test \in DOMAIN Steps /\ pc \in [Blocks -> Nat]
    BY DEF TestInv, ProgramTyped
  <1>3. pc'[running] = pc[running] + 1
    BY <1>1, <1>2 DEF At
  <1>4. Uses(test, pc[running] + 1, kind, Variable)
    BY <1>1, <1>2, EveryStepUses DEF Variable
  <1> QED BY <1>1, <1>2, <1>3, <1>4

\* A step that neither opens nor closes leaves the one semaphore used.
LEMMA OneSemaphoreKept ==
  ASSUME OneSemaphore, UNCHANGED <<sem_free, sem_id>>,
         \A s \in semaphores_list : users[s] \cup Waiting(s) # {} =>
                                    users'[s] \cup WaitingNext(s) # {}
  PROVE  OneSemaphore'
  <1>1. semaphores_list' = semaphores_list
    BY DEF semaphores_list
  <1> QED BY <1>1 DEF OneSemaphore, Waiting, WaitingNext

\* The steps of a child that neither open nor close
LEMMA QuietStep ==
  ASSUME TestInv, Named, NEW kind, At(kind), kind \notin {"semOpen", "semClose"}, test' = test,
         UNCHANGED <<sem_descriptors, last_sem_fd, sem_des, sem_des_free>>,
         \A b \in Blocks : \A x \in {"fd", "fd2"} : local'[b][x] = local[b][x]
  PROVE  (\A b \in Blocks : Fitting(b)') /\ Allotted' /\ LeftOpen'
  <1>1. /\ running \in Blocks /\ pc'[running] - 1 = pc[running]
        /\ Uses(test, pc'[running], kind, Variable)
        /\ pc'[running] \in 1 .. Len(Steps[test]) /\ Steps[test][pc'[running]][1] = kind
        /\ test \in DOMAIN Steps
        /\ \A b \in Blocks : b = running \/ pc'[b] = pc[b]
    BY StepUses
  <1>2. \A x \in {"fd", "fd2"} : IsOpen(test, pc'[running], x) <=> IsOpen(test, pc[running], x)
    BY <1>1 DEF Uses
  <1>3. OpensNext(test, pc'[running]) => Held(running) = {}
    <2> SUFFICES ASSUME OpensNext(test, pc'[running]) PROVE Held(running) = {}
      OBVIOUS
    <2>1. \A x \in {"fd", "fd2"} : ~IsOpen(test, pc'[running], x)
      BY <1>1, NoneBeforeOpen
    <2> QED BY <1>1, <1>2, <2>1 DEF Named, Fitting, InVariable
  <1>4. ASSUME NEW b \in Blocks PROVE Fitting(b)' /\ Held(b)' = Held(b)
    <2>1. Unmoved(b)
      BY <1>1, <1>2, <1>3 DEF Unmoved
    <2> QED BY <2>1, FittingKept DEF Named
  <1>5. Allotted'
    BY <1>4 DEF Named, Allotted
  <1>6. Tidy /\ Tidy'
    BY <1>1 DEF Uses, Tidy
  <1> QED BY <1>4, <1>5, <1>6 DEF LeftOpen

\* What a handler releases goes in front of the pool.
LEMMA ConsKeeps ==
  ASSUME NEW S, NEW s \in Seq(S), NEW x
  PROVE  Elements(s) \subseteq Elements(<<x>> \o s)
  <1> DEFINE one == <<x>>
             T == S \cup {x}
  <1>1. one \in Seq(T) /\ s \in Seq(T)
    OBVIOUS
  <1> HIDE DEF one, T
  <1>2. Elements(one \o s) = Elements(one) \cup Elements(s)
    BY <1>1, ConcatElements
  <1> QED BY <1>2 DEF one

\* Only a spawn takes a PCB from the pool.
LEMMA PoolGrows ==
  ASSUME TestInv, TableStep, ~SpawnStep
  PROVE  Free \subseteq Free'
  <1>1. pcb_free' = pcb_free \/ \E x : pcb_free' = <<x>> \o pcb_free
    BY DEF TableStep, Tick, WaitStep, ShutdownStep, SleepStep,
           timerInterrupt, internal_schedule, internal_wait, WaitFails, WaitReaps,
           WaitBlocks, WaitCrashes, internal_sleep, internal_exit, ExitWakesParent,
           ExitToZombie, internal_shutdown, Crash, pools
  <1>2. pcb_free \in Seq(Blocks)
    BY DEF TestInv, SemInv, Core, TypeOK
  <1> QED BY <1>1, <1>2, ConsKeeps DEF Free

\* The handlers of the process table leave every child what it holds: they reset
\* last_sem_fd only in a block that no child has run in.
LEMMA TableNamed ==
  ASSUME TestInv, Census, Named, TableStep
  PROVE  Named'
  <1>1. /\ SemInv /\ IdleAwake /\ SemTyped /\ ProgramTyped /\ Numbers
        /\ last_sem_fd \in [Blocks -> Int] /\ pid \in [Blocks -> Nat] /\ pc \in [Blocks -> Nat]
        /\ last_pid \in Nat /\ NumChildren \in Nat
    <2>1. SemInv /\ IdleAwake /\ ProgramTyped /\ Numbers
      BY DEF TestInv
    <2>2. SemTyped /\ Core
      BY <2>1 DEF SemInv
    <2>3. pid \in [Blocks -> Nat] /\ last_pid \in Nat
      BY <2>2 DEF Core, TypeOK, Pids
    <2> QED BY <2>1, <2>2, <2>3 DEF SemTyped, ProgramTyped
  <1>2. /\ ProgramKernelStep /\ UNCHANGED <<test, local>> /\ (pc' = pc \/ At("sleep"))
    BY TableStepFacts
  <1>3. UNCHANGED <<sem_free, sem_id, users, waiters, sem_descriptors, sem_des, sem_des_free>>
    BY <1>1, <1>2, KernelKeeps
  <1>4. ASSUME NEW b \in Blocks PROVE last_sem_fd'[b] = last_sem_fd[b]
    <2> SUFFICES ASSUME b \in Elements(pcb_free) \ Elements(pcb_free'), last_sem_fd'[b] = 0
                 PROVE  last_sem_fd[b] = 0
      BY <1>2 DEF ProgramKernelStep, SemaphoresKept
    <2>1. last_pid <= NumChildren + 1
      BY PoolGrows DEF Free, SpawnStep
    <2>2. ~(pid[b] > 1)
      BY <1>1, <2>1 DEF Census, Ended, Free
    <2>3. pc[b] = 0
      BY <1>1, <2>2 DEF Numbers
    <2> QED BY <1>1, <2>3, NothingYet DEF Named
  <1>5. last_sem_fd' = last_sem_fd
    <2>1. last_sem_fd' \in [Blocks -> Int]
      BY <1>1, <1>2 DEF ProgramKernelStep, SemaphoresKept
    <2> QED BY <1>1, <1>4, <2>1
  <1>6. OneSemaphore'
    BY <1>3, OneSemaphoreKept DEF Named, Waiting, WaitingNext
  <1>7. CASE At("sleep")
    BY <1>2, <1>3, <1>5, <1>6, <1>7, QuietStep DEF Named
  <1>8. CASE pc' = pc
    <2>1. ASSUME NEW b \in Blocks PROVE Fitting(b)' /\ Held(b)' = Held(b)
      <3>1. Unmoved(b)
        BY <1>2, <1>3, <1>5, <1>8 DEF Unmoved
      <3> QED BY <3>1, FittingKept DEF Named
    <2>2. Allotted' /\ LeftOpen'
      BY <1>2, <1>3, <1>8, <2>1 DEF Named, Allotted, LeftOpen, Tidy
    <2> QED BY <1>6, <2>1, <2>2 DEF Named
  <1> QED BY <1>2, <1>7, <1>8

\* Nor do a load and a store.
LEMMA OwnNamed ==
  ASSUME TestInv, Named, LoadStep \/ StoreStep
  PROVE  Named'
  <1>1. PICK kind : At(kind) /\ kind \notin {"semOpen", "semClose"}
    BY DEF LoadStep, StoreStep
  <1>2. /\ UNCHANGED <<sem_free, sem_id, users, waiters, sem_descriptors, last_sem_fd, sem_des,
                       sem_des_free>>
        /\ test' = test
    BY OwnStep DEF sem_vars, semaphore, semopened
  <1>3. \A b \in Blocks : \A x \in {"fd", "fd2"} : local'[b][x] = local[b][x]
    <2>1. CASE LoadStep
      <3>1. PICK k \in {"load_OK", "load_KO"} : At(k)
        BY <2>1 DEF LoadStep
      <3>2. Variable \in {"a", "b"}
        BY <3>1, StepUses DEF Uses
      <3>3. \E v : local' = [local EXCEPT ![running][Variable] = v]
        BY <2>1 DEF LoadStep, Assign
      <3>4. local \in [Blocks -> [Locals -> Int]] /\ running \in Blocks
        BY <3>1, StepUses DEF TestInv, ProgramTyped
      <3> QED BY <3>2, <3>3, <3>4 DEF Locals
    <2>2. CASE StoreStep
      BY <2>2 DEF StoreStep
    <2> QED BY <2>1, <2>2
  <1>4. OneSemaphore'
    BY <1>2, OneSemaphoreKept DEF Named, Waiting, WaitingNext
  <1> QED BY <1>1, <1>2, <1>3, <1>4, QuietStep DEF Named

\* A wait and a post move the caller's descriptor, or that of the one who is
\* woken, between the users and the waiters of the semaphore.
LEMMA WaitPostNamed ==
  ASSUME TestInv, Named, UNCHANGED <<local, test>>,
         \/ At("semWait") /\ internal_semWait(Value)
         \/ At("semPost") /\ internal_semPost(Value)
  PROVE  Named'
  <1> DEFINE d == SemDescriptorList_byFd(Value)
             s == sem_des[d].semaphore
  <1>1. PICK kind : At(kind) /\ kind \notin {"semOpen", "semClose"}
    OBVIOUS
  <1>2. /\ SemInv /\ SemTyped /\ running \in Blocks /\ running # NULL
        /\ users \in [Semaphores -> SUBSET SemDescriptors]
        /\ waiters \in [Semaphores -> Seq(SemDescriptors)]
    BY <1>1, StepUses DEF TestInv, SemInv, SemTyped, At
  <1>3. d # NULL => s \in Semaphores /\ d \in SemDescriptors
    BY <1>2, FoundDescriptor, RunningUses
  <1> HIDE DEF s
  <1>4. \/ UNCHANGED <<sem_free, sem_id, semopened>>
        \/ d # NULL /\ SemBlocks(s, d)
        \/ d # NULL /\ waiters[s] # <<>> /\ SemWakes(s)
    BY DEF internal_semWait, internal_semPost, FailsSem, semaphore, s
  <1> HIDE DEF d
  <1>5. UNCHANGED <<sem_free, sem_id, sem_descriptors, last_sem_fd, sem_des, sem_des_free>>
    BY <1>4 DEF SemBlocks, SemWakes, semopened, semaphore
  <1>6. \A q \in semaphores_list : users[q] \cup Waiting(q) # {} =>
                                   users'[q] \cup WaitingNext(q) # {}
    <2>1. CASE UNCHANGED semopened
      BY <2>1 DEF semopened, Waiting, WaitingNext
    <2>2. CASE d # NULL /\ SemBlocks(s, d)
      <3>1. waiters' = [waiters EXCEPT ![s] = Append(@, d)]
            /\ users' = [users EXCEPT ![s] = NoLongerUser(s, d)]
        BY <2>2 DEF SemBlocks
      <3>2. d \in WaitingNext(s)
        <4>1. WaitingNext(s) = Waiting(s) \cup {d}
          BY <1>2, <1>3, <2>2, <3>1, AppendElements DEF Waiting, WaitingNext
        <4> QED BY <4>1
      <3>3. \A q \in Semaphores \ {s} : users'[q] = users[q] /\ WaitingNext(q) = Waiting(q)
        BY <1>2, <3>1 DEF Waiting, WaitingNext
      <3> QED BY <3>2, <3>3 DEF semaphores_list
    <2>3. CASE d # NULL /\ waiters[s] # <<>> /\ SemWakes(s)
      <3> DEFINE w == Head(waiters[s])
      <3>1. /\ waiters' = [waiters EXCEPT ![s] = DetachAt(@, IndexIn(@, w))]
            /\ users' = [users EXCEPT ![s] = @ \cup {w}]
        BY <2>3 DEF SemWakes
      <3> HIDE DEF w
      <3>2. w \in users'[s]
        BY <1>2, <1>3, <2>3, <3>1
      <3>3. \A q \in Semaphores \ {s} : users'[q] = users[q] /\ WaitingNext(q) = Waiting(q)
        BY <1>2, <3>1 DEF Waiting, WaitingNext
      <3> QED BY <3>2, <3>3 DEF semaphores_list
    <2> QED BY <1>4, <2>1, <2>2, <2>3
  <1>7. OneSemaphore'
    BY <1>5, <1>6, OneSemaphoreKept DEF Named
  <1> QED BY <1>1, <1>5, <1>7, QuietStep DEF Named

-----------------------------------------------------------------------------
(* semClose *)

\* The descriptor a call finds has the number it was given, and one is found if
\* the caller holds one of that number.
LEMMA FoundByNumber ==
  ASSUME SemTyped, running \in Blocks, NEW fd
  PROVE  LET d == SemDescriptorList_byFd(fd) IN
         /\ d # NULL => d \in Held(running) /\ sem_des[d].fd = fd
         /\ \A e \in Held(running) :
              sem_des[e].fd = fd /\ fd \in 0 .. MAX_NUM_SEMDESCRIPTORS_PER_PROCESS => d # NULL
  <1> DEFINE mine == sem_descriptors[running]
             hits == {k \in 1 .. Len(mine) : sem_des[mine[k]].fd = fd}
             least == CHOOSE k \in hits : \A l \in hits : k <= l
  <1>1. mine \in Seq(SemDescriptors) /\ NULL \notin SemDescriptors
    BY DEF SemTyped, SemDescriptors
  <1>2. ASSUME hits # {}
        PROVE  mine[least] \in Held(running) /\ mine[least] # NULL /\ sem_des[mine[least]].fd = fd
    <2>1. hits \in SUBSET Nat
      BY <1>1
    <2>2. \E k \in hits : \A l \in hits : k <= l
      BY <1>2, <2>1, LeastNatural
    <2>3. least \in hits
      BY <2>2
    <2> HIDE DEF least
    <2> QED BY <1>1, <2>3 DEF Held, Elements
  <1>3. ASSUME NEW e \in Held(running), sem_des[e].fd = fd PROVE hits # {}
    BY <1>3 DEF Held, Elements
  <1>4. SemDescriptorList_byFd(fd) =
          IF hits = {} \/ fd < 0 \/ fd > MAX_NUM_SEMDESCRIPTORS_PER_PROCESS
            THEN NULL ELSE mine[least]
    BY DEF SemDescriptorList_byFd
  <1> HIDE DEF mine, hits, least
  <1> QED BY <1>2, <1>3, <1>4

\* semClose closes what the variable names, and the last to close destroys
\* the semaphore.
LEMMA CloseNamed ==
  ASSUME TestInv, Named, UNCHANGED <<local, test>>, At("semClose"), internal_semClose(Value)
  PROVE  Named'
  <1>0. PICK r : r = running
    OBVIOUS
  <1> DEFINE v == Variable
             n == pc[r]
             d == SemDescriptorList_byFd(Value)
             s == sem_des[d].semaphore
             mine == sem_descriptors[r]
             fd(e) == sem_des[e].fd
  <1>1. /\ r \in Blocks /\ pc'[r] - 1 = n
        /\ Uses(test, pc'[r], "semClose", v)
        /\ pc'[r] \in 1 .. Len(Steps[test]) /\ Steps[test][pc'[r]][1] = "semClose"
        /\ test \in DOMAIN Steps
        /\ \A b \in Blocks : b = r \/ pc'[b] = pc[b]
    BY <1>0, StepUses
  <1>2. /\ SemInv /\ SemTyped /\ r # NULL /\ \A b \in Blocks : Fitting(b)
        /\ mine \in Seq(SemDescriptors) /\ Distinct(mine) /\ Elements(mine) = Held(r)
        /\ sem_des \in [SemDescriptors -> SemDesRecords]
        /\ users \in [Semaphores -> SUBSET SemDescriptors]
        /\ last_sem_fd \in [Blocks -> Int] /\ sem_descriptors \in [Blocks -> Seq(SemDescriptors)]
    BY <1>0, <1>1 DEF TestInv, SemInv, SemTyped, Linked, At, Named, Held
  <1>3. \A x \in {"fd", "fd2"} : /\ IsOpen(test, pc'[r], x) <=> IsOpen(test, n, x) /\ x # v
                                 /\ IsOpen(test, n, x) => v # "ID"
    BY <1>1 DEF Uses
  <1>4. v # "ID" => Value = local[r][v]
    BY <1>0 DEF Value
  <1>5. OpensNext(test, pc'[r]) => \A x \in {"fd", "fd2"} : ~IsOpen(test, pc'[r], x)
    BY <1>1, NoneBeforeOpen
  <1>6. /\ d # NULL => d \in Held(r) /\ fd(d) = Value
        /\ \A e \in Held(r) :
             fd(e) = Value /\ Value \in 0 .. MAX_NUM_SEMDESCRIPTORS_PER_PROCESS => d # NULL
    BY <1>0, <1>1, <1>2, FoundByNumber
  <1>7. d # NULL => /\ d \in SemDescriptors /\ s \in Semaphores /\ d \in users[s]
                    /\ s \in semaphores_list /\ sem_des[d].pcb = r
    BY <1>0, <1>2, <1>6, RunningUses
  <1>8. \/ d = NULL /\ UNCHANGED <<semaphore, semopened>>
        \/ /\ d # NULL
           /\ sem_descriptors' = [sem_descriptors EXCEPT ![r] = DetachAt(@, IndexIn(@, d))]
           /\ users' = [users EXCEPT ![s] = @ \ {d}]
           /\ sem_des_free' = sem_des_free \cup {d}
           /\ last_sem_fd' = [last_sem_fd EXCEPT ![r] = @ - 1]
           /\ sem_des' = [sem_des EXCEPT ![d] = Unset]
           /\ IF NobodyUses(s, d) THEN Semaphore_free(s) ELSE UNCHANGED semaphore
           /\ UNCHANGED waiters
    BY <1>0 DEF internal_semClose, FailsSem
  <1> HIDE DEF v, n, d, s, mine
  <1>9. /\ HeldNext(r) = Held(r) \ {d} /\ last_sem_fd'[r] = Len(sem_descriptors'[r])
        /\ sem_des_free' = (sem_des_free \cup {d}) \cap SemDescriptors
        /\ \A e \in SemDescriptors \ {d} : sem_des'[e] = sem_des[e]
        /\ \A b \in Blocks \ {r} : /\ sem_descriptors'[b] = sem_descriptors[b]
                                   /\ last_sem_fd'[b] = last_sem_fd[b]
    <2>1. NULL \notin SemDescriptors /\ NULL \notin Held(r) /\ last_sem_fd[r] = Len(mine)
          /\ sem_des_free \subseteq SemDescriptors
      BY <1>1, <1>2, ElementsType DEF Fitting, SemDescriptors, mine, SemTyped
    <2>2. CASE d = NULL
      <3>1. UNCHANGED <<sem_descriptors, last_sem_fd, sem_des, sem_des_free>>
        BY <1>8, <2>2 DEF semopened
      <3> QED BY <2>1, <2>2, <3>1 DEF HeldNext, Held, mine
    <2>3. CASE d # NULL
      <3> DEFINE k == IndexIn(mine, d)
      <3>1. k \in 1 .. Len(mine) /\ mine[k] = d
        BY <1>2, <1>6, <2>3, IndexInList
      <3> HIDE DEF k
      <3>2. /\ Len(DetachAt(mine, k)) = Len(mine) - 1
            /\ Elements(DetachAt(mine, k)) = Held(r) \ {d}
        BY <1>2, <3>1, DetachAtSeq, DetachAtElements
      <3>3. sem_descriptors'[r] = DetachAt(mine, k)
        BY <1>1, <1>2, <1>8, <2>3 DEF mine, k
      <3>4. last_sem_fd'[r] = last_sem_fd[r] - 1
        BY <1>1, <1>2, <1>8, <2>3
      <3>5. \A b \in Blocks \ {r} : /\ sem_descriptors'[b] = sem_descriptors[b]
                                    /\ last_sem_fd'[b] = last_sem_fd[b]
        BY <1>2, <1>8, <2>3
      <3>6. \A e \in SemDescriptors \ {d} : sem_des'[e] = sem_des[e]
        BY <1>2, <1>8, <2>3
      <3>7. sem_des_free' = (sem_des_free \cup {d}) \cap SemDescriptors
        BY <1>7, <1>8, <2>1, <2>3
      <3> QED BY <2>1, <3>2, <3>3, <3>4, <3>5, <3>6, <3>7 DEF HeldNext
    <2> QED BY <2>2, <2>3
  <1>10. ASSUME NEW b \in Blocks, b # r PROVE Fitting(b)' /\ Held(b)' = Held(b)
    <2>1. d \notin Held(b) /\ Held(b) \subseteq SemDescriptors
      <3>1. Held(b) \subseteq SemDescriptors
        BY <1>2, ElementsType DEF SemTyped, Held
      <3>2. \A e \in Held(b) : sem_des[e].pcb = b
        BY <1>2 DEF SemInv, Linked, HeldLinked
      <3>3. NULL \notin SemDescriptors
        BY DEF SemDescriptors
      <3> QED BY <1>7, <1>10, <3>1, <3>2, <3>3
    <2>2. Unmoved(b)
      BY <1>1, <1>9, <1>10, <2>1 DEF Unmoved
    <2> QED BY <1>2, <2>2, FittingKept
  <1>11. ASSUME NEW e \in HeldNext(r)
         PROVE  /\ e \in Held(r) /\ sem_des'[e] = sem_des[e]
                /\ v # "ID" => local[r][v] # fd(e)
    <2>1. e \in Held(r) /\ e # d /\ e \in SemDescriptors
      BY <1>2, <1>9, <1>11, ElementsType
    <2>2. fd(e) \in 0 .. MAX_NUM_SEMDESCRIPTORS_PER_PROCESS
      BY <1>1, <1>2, <2>1 DEF Fitting
    <2>3. fd(e) # Value
      BY <1>1, <1>2, <1>6, <2>1, <2>2 DEF Fitting
    <2> QED BY <1>4, <1>9, <2>1, <2>3
  <1>12. ASSUME NEW e \in HeldNext(r)
         PROVE  \E x \in {"fd", "fd2"} : IsOpen(test, pc'[r], x) /\ local[r][x] = fd(e)
    <2>1. PICK x \in {"fd", "fd2"} : IsOpen(test, n, x) /\ local[r][x] = fd(e)
      BY <1>1, <1>2, <1>11, <1>12 DEF Fitting, InVariable, n
    <2>2. x # v
      BY <1>3, <1>11, <1>12, <2>1
    <2> QED BY <1>3, <2>1, <2>2
  <1>13. Fitting(r)'
    <2>1. Held(r)' = HeldNext(r) /\ Held(r)' \subseteq Held(r)
      BY <1>9 DEF Held, HeldNext
    <2>2. ASSUME NEW e \in HeldNext(r)
          PROVE  /\ sem_des'[e].fd \in 0 .. MAX_NUM_SEMDESCRIPTORS_PER_PROCESS
                 /\ \E x \in {"fd", "fd2"} : IsOpen(test', pc'[r], x) /\ local'[r][x] = sem_des'[e].fd
                 /\ ~OpensNext(test', pc'[r])
      <3>1. e \in Held(r) /\ sem_des'[e] = sem_des[e]
        BY <1>11, <2>2
      <3>2. sem_des[e].fd \in 0 .. MAX_NUM_SEMDESCRIPTORS_PER_PROCESS
        BY <1>1, <1>2, <3>1 DEF Fitting
      <3>3. PICK x \in {"fd", "fd2"} : IsOpen(test, pc'[r], x) /\ local[r][x] = fd(e)
        BY <1>12, <2>2
      <3>4. ~OpensNext(test, pc'[r])
        BY <1>5, <3>3
      <3> QED BY <3>1, <3>2, <3>3, <3>4
    <2>3. ASSUME NEW e \in HeldNext(r), NEW g \in HeldNext(r), sem_des'[e].fd = sem_des'[g].fd
          PROVE  e = g
      BY <1>1, <1>2, <1>11, <2>3 DEF Fitting
    <2> QED BY <1>9, <2>1, <2>2, <2>3 DEF Fitting, InVariable
  <1>14. Allotted'
    <2> SUFFICES ASSUME NEW e \in SemDescriptors \ sem_des_free' PROVE \E b \in Blocks : e \in HeldNext(b)
      BY DEF Allotted, Held, HeldNext
    <2>1. e # d /\ e \in SemDescriptors \ sem_des_free
      BY <1>9
    <2>2. PICK b \in Blocks : e \in Held(b)
      BY <2>1 DEF Named, Allotted
    <2> QED BY <1>9, <1>10, <2>1, <2>2 DEF Held, HeldNext
  <1>15. LeftOpen'
    BY <1>1 DEF LeftOpen, Uses, Tidy
  <1>16. OneSemaphore'
    <2>1. CASE d = NULL
      <3>1. UNCHANGED <<sem_free, sem_id, users, waiters>>
        BY <1>8, <2>1 DEF semopened, semaphore
      <3> QED BY <3>1, OneSemaphoreKept DEF Named, Waiting, WaitingNext
    <2>2. CASE d # NULL /\ ~NobodyUses(s, d)
      <3>1. UNCHANGED <<sem_free, sem_id, waiters>>
        BY <1>8, <2>2 DEF semaphore
      <3>2. users'[s] # {} /\ \A q \in Semaphores \ {s} : users'[q] = users[q]
        BY <1>2, <1>7, <1>8, <2>2 DEF NobodyUses
      <3>3. \A q \in semaphores_list : q \in Semaphores
        BY DEF semaphores_list
      <3> QED BY <3>1, <3>2, <3>3, OneSemaphoreKept DEF Named, Waiting, WaitingNext
    <2>3. CASE d # NULL /\ NobodyUses(s, d)
      <3>1. sem_free' = <<s>> \o sem_free
        BY <1>8, <2>3 DEF Semaphore_free
      <3>2. semaphores_list = {s}
        BY <1>7, <2>3 DEF Named, OneSemaphore
      <3>3. Elements(sem_free) \subseteq Elements(<<s>> \o sem_free) /\ s \in Elements(<<s>> \o sem_free)
        <4> DEFINE one == <<s>>
        <4>1. one \in Seq(Semaphores) /\ Elements(one) = {s} /\ sem_free \in Seq(Semaphores)
          BY <1>2, <1>7, <2>3, SingletonElements DEF SemTyped
        <4> HIDE DEF one
        <4>2. Elements(one \o sem_free) = Elements(one) \cup Elements(sem_free)
          BY <4>1, ConcatElements
        <4> QED BY <4>1, <4>2 DEF one
      <3>4. semaphores_list' = {}
        BY <3>1, <3>2, <3>3 DEF semaphores_list
      <3> QED BY <3>4 DEF OneSemaphore
    <2> QED BY <2>1, <2>2, <2>3
  <1> QED BY <1>10, <1>13, <1>14, <1>15, <1>16 DEF Named

-----------------------------------------------------------------------------
(* semOpen *)

\* Without a semaphore nobody holds anything.
LEMMA NobodyHolds ==
  ASSUME TestInv, Named, semaphores_list = {}
  PROVE  sem_des_free = SemDescriptors /\ SemDescriptors # {}
  <1>1. /\ SemInv /\ sem_des_free \subseteq SemDescriptors
        /\ waiters \in [Semaphores -> Seq(SemDescriptors)]
    BY DEF TestInv, SemInv, SemTyped
  <1>2. \A s \in Semaphores : waiters[s] = <<>>
    BY DEF TestInv, OneToken, NobodyWaits
  <1>3. ASSUME NEW b \in Blocks, NEW d \in Held(b) PROVE FALSE
    <2>1. /\ sem_des[d].semaphore \in Semaphores
          /\ d \in users[sem_des[d].semaphore] \cup Waiting(sem_des[d].semaphore)
          /\ d \notin users[sem_des[d].semaphore]
      BY <1>1 DEF SemInv, Linked, HeldLinked
    <2> QED BY <1>2, <2>1, EmptyElements DEF Waiting
  <1>4. 1 \in SemDescriptors
    BY DEF SemDescriptors
  <1> QED BY <1>1, <1>3, <1>4 DEF Named, Allotted

\* The tests that do not close hold one descriptor of each child at most.
LEMMA OneEach ==
  ASSUME TestInv, Named, ~Tidy, NEW b \in Blocks, NEW d \in Held(b), NEW e \in Held(b)
  PROVE  d = e
  <1>1. /\ InVariable(b, sem_des[d].fd) /\ InVariable(b, sem_des[e].fd)
        /\ sem_des[d].fd = sem_des[e].fd => d = e
    BY DEF Named, Fitting
  <1>2. \A x \in {"fd", "fd2"} : IsOpen(test, pc[b], x) => x = "fd"
    BY DEF IsOpen, Tidy
  <1> QED BY <1>1, <1>2 DEF InVariable

\* Either the child gets the descriptor d for s, or it is refused; never in the
\* tests that do not close.
Gets(s, d) ==
  /\ d \in sem_des_free /\ s \in Semaphores /\ semaphores_list' = {s} /\ sem_id'[s] = ID
  /\ last_sem_fd[running] + 1 <= MAX_NUM_SEMDESCRIPTORS_PER_PROCESS
  /\ sem_des_free' = sem_des_free \ {d}
  /\ sem_des' = [sem_des EXCEPT ![d] =
                   [pcb |-> running, semaphore |-> s, fd |-> last_sem_fd[running]]]
  /\ sem_descriptors' = [sem_descriptors EXCEPT ![running] = Append(@, d)]
  /\ last_sem_fd' = [last_sem_fd EXCEPT ![running] = @ + 1]
  /\ d \in users'[s]
  /\ reported'.value = last_sem_fd[running]

Refused == UNCHANGED <<sem_free, sem_id, semopened>>

\* semOpen gives the caller a descriptor of the one semaphore, or, in a tidy
\* test only, changes nothing.
LEMMA OpenOutcome ==
  ASSUME TestInv, Named, At("semOpen"), internal_semOpen(OpenId, {"CREATE"}, OpenCount)
  PROVE  (\E s, d : Gets(s, d)) \/ (Tidy /\ Refused)
  <1> DEFINE s == SemaphoreList_byId(OpenId)
             h == Head(sem_free)
  <1>1. /\ SemInv /\ SemTyped /\ ProgramTyped /\ running \in Blocks /\ OneSemaphore
        /\ users \in [Semaphores -> SUBSET SemDescriptors] /\ sem_free \in Seq(Semaphores)
        /\ Distinct(sem_free) /\ sem_id \in [Semaphores -> Int]
        /\ last_sem_fd \in [Blocks -> Int]
    <2>1. SemInv /\ ProgramTyped /\ running \in Blocks /\ OneSemaphore
      BY AtFacts DEF TestInv, Named
    <2> QED BY <2>1 DEF SemInv, SemTyped, ProgramTyped
  <1>2. ASSUME NEW q \in Semaphores, NEW before, NEW d \in sem_des_free,
               semaphores_list' = {q}, sem_id'[q] = ID,
               last_sem_fd[running] + 1 <= MAX_NUM_SEMDESCRIPTORS_PER_PROCESS,
               sem_des_free' = sem_des_free \ {d},
               sem_des' = [sem_des EXCEPT ![d] =
                             [pcb |-> running, semaphore |-> q, fd |-> last_sem_fd[running]]],
               sem_descriptors' = [sem_descriptors EXCEPT ![running] = Append(@, d)],
               users' = [users EXCEPT ![q] = before \cup {d}],
               last_sem_fd' = [last_sem_fd EXCEPT ![running] = @ + 1],
               ReturnsSem(last_sem_fd[running])
        PROVE  Gets(q, d)
    <2>1. d \in users'[q]
      BY <1>1, <1>2
    <2>2. reported'.value = last_sem_fd[running]
      BY <1>2 DEF ReturnsSem, Answers
    <2> QED BY <1>2, <2>1, <2>2 DEF Gets
  <1>3. ASSUME NEW q \in Semaphores, NEW before, OpenSemDescriptor(q, before),
               semaphores_list' = {q}, sem_id'[q] = ID, sem_des_free # {},
               last_sem_fd[running] + 1 <= MAX_NUM_SEMDESCRIPTORS_PER_PROCESS
        PROVE  \E d : Gets(q, d)
    BY <1>2, <1>3 DEF OpenSemDescriptor
  <1>4. s # NULL => s \in semaphores_list /\ s \in Semaphores
    BY DEF SemaphoreList_byId, semaphores_list
  <1>5. OpenId < 0 \/ OpenId = ID
    BY DEF OpenId
  <1>6. s = NULL /\ OpenId = ID => semaphores_list = {}
    <2> SUFFICES ASSUME NEW q \in semaphores_list, OpenId = ID PROVE s # NULL
      OBVIOUS
    <2>1. {x \in semaphores_list : sem_id[x] = ID} = {q}
      BY <1>1 DEF OneSemaphore
    <2> QED BY <2>1 DEF SemaphoreList_byId, semaphores_list, Semaphores
  <1>7. ~Tidy => /\ OpenId = ID /\ sem_des_free # {}
                 /\ last_sem_fd[running] + 1 <= MAX_NUM_SEMDESCRIPTORS_PER_PROCESS
    <2> SUFFICES ASSUME ~Tidy
                 PROVE  /\ OpenId = ID /\ sem_des_free # {} /\ last_sem_fd[running] = 0
      OBVIOUS
    <2>1. OpenId = ID
      BY DEF OpenId, Tidy
    <2>2. pc[running] = 0
      BY StepUses DEF Uses, Tidy
    <2>3. Held(running) = {} /\ last_sem_fd[running] = 0
      BY <1>1, <2>2, NothingYet DEF Named
    <2>4. \A b \in Blocks : \A d, e \in Held(b) : d = e
      BY OneEach
    <2>5. sem_des_free # {}
      BY <1>1, <2>3, <2>4, DescriptorLeft DEF Named, Allotted
    <2> QED BY <2>1, <2>3, <2>5
  <1>8. semaphores_list = {} => sem_free # <<>>
    <2>1. 1 \in Semaphores
      BY DEF Semaphores
    <2> QED BY <2>1, EmptyElements DEF semaphores_list
  <1> HIDE DEF s
  <1>9. CASE SemOpenRefused(OpenId, s, {"CREATE"}) /\ FailsSem(DSOS_ESEMAPHOREOPEN)
    <2>1. Refused
      BY <1>9 DEF FailsSem, semaphore, Refused
    <2>2. Tidy
      <3> DEFINE F == {"CREATE"}
      <3>1. ~({"CREATE", "EXCL"} \subseteq F) /\ "CREATE" \in F
        OBVIOUS
      <3>2. SemOpenRefused(OpenId, s, F)
        BY <1>9
      <3> HIDE DEF F
      <3>3. ID \in Nat /\ last_sem_fd[running] \in Int
        BY <1>1 DEF ID
      <3>4. SUFFICES ASSUME ~Tidy PROVE FALSE
        OBVIOUS
      <3>5. OpenId = ID /\ last_sem_fd[running] + 1 <= MAX_NUM_SEMDESCRIPTORS_PER_PROCESS
        BY <1>7, <3>4
      <3>6. ~(last_sem_fd[running] + 1 > MAX_NUM_SEMDESCRIPTORS_PER_PROCESS) /\ ~(OpenId < 0)
        BY <3>3, <3>5
      <3>7. s = NULL => sem_free # <<>>
        BY <1>6, <1>8, <3>5
      <3> QED BY <3>1, <3>2, <3>6, <3>7 DEF SemOpenRefused
    <2> QED BY <2>1, <2>2
  <1>10. CASE /\ ~SemOpenRefused(OpenId, s, {"CREATE"}) /\ s # NULL
              /\ OpenSemDescriptor(s, users[s]) /\ UNCHANGED <<semaphore, waiters>>
    <2>1. /\ semaphores_list' = {s} /\ sem_id'[s] = ID /\ UNCHANGED <<sem_free, sem_id>>
      BY <1>1, <1>4, <1>10 DEF OneSemaphore, semaphore, semaphores_list
    <2>2. last_sem_fd[running] + 1 <= MAX_NUM_SEMDESCRIPTORS_PER_PROCESS
      BY <1>1, <1>10 DEF SemOpenRefused
    <2>3. CASE sem_des_free # {}
      BY <1>3, <1>4, <1>10, <2>1, <2>2, <2>3
    <2>4. CASE sem_des_free = {}
      <3>1. /\ users' = [users EXCEPT ![s] = users[s]]
            /\ UNCHANGED <<sem_descriptors, last_sem_fd, sem_des, sem_des_free>>
        BY <1>10, <2>4 DEF OpenSemDescriptor
      <3>2. users' = users
        BY <1>1, <3>1
      <3> QED BY <1>7, <1>10, <2>1, <2>4, <3>1, <3>2 DEF Refused, semopened
    <2> QED BY <2>3, <2>4
  <1>11. CASE /\ ~SemOpenRefused(OpenId, s, {"CREATE"}) /\ s = NULL
              /\ Semaphore_alloc(OpenId, OpenCount) /\ OpenSemDescriptor(h, {})
    <2>1. last_sem_fd[running] + 1 <= MAX_NUM_SEMDESCRIPTORS_PER_PROCESS /\ OpenId = ID
      BY <1>1, <1>5, <1>11 DEF SemOpenRefused
    <2>2. semaphores_list = {} /\ sem_free # <<>> /\ sem_des_free # {}
      BY <1>6, <1>8, <1>11, <2>1, NobodyHolds
    <2>3. /\ h \in Elements(sem_free) /\ Elements(Tail(sem_free)) = Elements(sem_free) \ {h}
      BY <1>1, <2>2, TailElements
    <2>4. h \in Semaphores
      BY <1>1, <2>3, ElementsType
    <2>5. sem_free' = Tail(sem_free) /\ sem_id' = [sem_id EXCEPT ![h] = ID]
      BY <1>11, <2>1 DEF Semaphore_alloc
    <2> HIDE DEF h
    <2>6. semaphores_list' = {h} /\ sem_id'[h] = ID
      BY <1>1, <2>2, <2>3, <2>4, <2>5 DEF semaphores_list
    <2> QED BY <1>3, <1>11, <2>1, <2>2, <2>4, <2>6
  <1> HIDE DEF h
  <1> QED BY <1>9, <1>10, <1>11 DEF internal_semOpen, s, h

\* semOpen finds the one semaphore or creates it, and the variable names the
\* new descriptor.
LEMMA OpenNamed ==
  ASSUME TestInv, Named, At("semOpen"), internal_semOpen(OpenId, {"CREATE"}, OpenCount),
         Assign(reported'.value), test' = test
  PROVE  Named'
  <1>0. PICK r : r = running
    OBVIOUS
  <1> DEFINE v == Variable
             n == pc[r]
  <1>1. /\ r \in Blocks /\ pc'[r] - 1 = n /\ pc'[r] = n + 1 /\ n \in Nat
        /\ Uses(test, pc'[r], "semOpen", v)
        /\ pc'[r] \in 1 .. Len(Steps[test]) /\ Steps[test][pc'[r]][1] = "semOpen"
        /\ \A b \in Blocks : b = r \/ pc'[b] = pc[b]
    BY <1>0, StepUses
  <1>2. /\ SemInv /\ SemTyped /\ Linked /\ \A b \in Blocks : Fitting(b)
        /\ sem_des \in [SemDescriptors -> SemDesRecords]
        /\ last_sem_fd \in [Blocks -> Int] /\ sem_descriptors \in [Blocks -> Seq(SemDescriptors)]
        /\ local \in [Blocks -> [Locals -> Int]]
    <2>1. SemInv /\ \A b \in Blocks : Fitting(b)
      BY DEF TestInv, Named
    <2> QED BY <2>1 DEF SemInv, SemTyped, TestInv, ProgramTyped
  <1>3. v \in {"fd", "fd2"} /\ ~IsOpen(test, n, v)
        /\ \A x \in {"fd", "fd2"} : IsOpen(test, pc'[r], x) <=> IsOpen(test, n, x) \/ x = v
    BY <1>1 DEF Uses
  <1>4. OpensNext(test, n)
    <2>1. Len(Steps[test]) \in Nat
      BY StepLengths DEF TestInv, ProgramTyped
    <2>2. n < Len(Steps[test])
      BY <1>1, <2>1
    <2> QED BY <1>1, <2>2 DEF OpensNext
  <1>5. /\ \A b \in Blocks \ {r} : local'[b] = local[b]
        /\ \A x \in {"fd", "fd2"} : IsOpen(test, n, x) => local'[r][x] = local[r][x]
        /\ local'[r][v] = reported'.value
    <2>1. local' = [local EXCEPT ![r][v] = reported'.value]
      BY <1>0 DEF Assign
    <2> HIDE DEF v, n
    <2> QED BY <1>1, <1>2, <1>3, <2>1 DEF Locals
  <1> HIDE DEF v, n
  <1>6. CASE Tidy /\ Refused
    <2>1. UNCHANGED <<sem_free, sem_id, users, waiters, sem_descriptors, last_sem_fd, sem_des,
                      sem_des_free>>
      BY <1>6 DEF Refused, semopened
    <2>2. ASSUME NEW b \in Blocks PROVE Fitting(b)' /\ Held(b)' = Held(b)
      <3>1. Unmoved(b)
        BY <1>1, <1>3, <1>4, <1>5, <2>1 DEF Unmoved, n
      <3> QED BY <1>2, <3>1, FittingKept
    <2>3. Allotted'
      BY <2>1, <2>2 DEF Named, Allotted
    <2>4. LeftOpen'
      BY <1>6 DEF LeftOpen, Tidy
    <2>5. OneSemaphore'
      BY <2>1, OneSemaphoreKept DEF Named, Waiting, WaitingNext
    <2> QED BY <2>2, <2>3, <2>4, <2>5 DEF Named
  <1>7. ASSUME NEW s, NEW d, Gets(s, d)
        PROVE  Named'
    <2>1. /\ d \in SemDescriptors /\ d \in sem_des_free /\ \A b \in Blocks : d \notin Held(b)
      BY <1>2, <1>7, FreshDescriptor DEF Gets, SemTyped
    <2>2. /\ sem_des'[d].fd = last_sem_fd[r]
          /\ \A e \in SemDescriptors \ {d} : sem_des'[e] = sem_des[e]
      BY <1>0, <1>2, <1>7, <2>1 DEF Gets
    <2>3. /\ HeldNext(r) = Held(r) \cup {d} /\ Len(sem_descriptors'[r]) = Len(sem_descriptors[r]) + 1
          /\ \A b \in Blocks \ {r} : sem_descriptors'[b] = sem_descriptors[b]
      <3>1. sem_descriptors'[r] = Append(sem_descriptors[r], d)
        BY <1>0, <1>1, <1>2, <1>7 DEF Gets
      <3>2. sem_descriptors[r] \in Seq(SemDescriptors)
        BY <1>1, <1>2
      <3>3. HeldNext(r) = Held(r) \cup {d}
        BY <2>1, <3>1, <3>2, AppendElements DEF HeldNext, Held
      <3>4. Len(sem_descriptors'[r]) = Len(sem_descriptors[r]) + 1
        BY <3>1, <3>2
      <3> QED BY <1>0, <1>2, <1>7, <3>3, <3>4 DEF Gets
    <2>4. /\ last_sem_fd'[r] = last_sem_fd[r] + 1 /\ last_sem_fd[r] \in Int
          /\ \A b \in Blocks \ {r} : last_sem_fd'[b] = last_sem_fd[b]
          /\ last_sem_fd[r] + 1 <= MAX_NUM_SEMDESCRIPTORS_PER_PROCESS
          /\ reported'.value = last_sem_fd[r]
      BY <1>0, <1>1, <1>2, <1>7 DEF Gets
    <2>5. /\ last_sem_fd[r] = Len(sem_descriptors[r]) /\ last_sem_fd[r] \in Nat
          /\ \A e \in Held(r) : sem_des[e].fd \in Int /\ sem_des[e].fd < last_sem_fd[r]
      <3>1. Len(sem_descriptors[r]) \in Nat
        BY <1>1, <1>2
      <3> QED BY <1>1, <1>2, <1>4, <3>1 DEF Fitting, n
    <2>6. \A b \in Blocks : Held(b) \subseteq SemDescriptors \ {d}
      BY <1>2, <2>1, ElementsType DEF Held
    <2>7. ASSUME NEW b \in Blocks, b # r PROVE Fitting(b)' /\ Held(b)' = Held(b)
      <3>1. Unmoved(b)
        BY <1>1, <1>5, <2>2, <2>3, <2>4, <2>6, <2>7 DEF Unmoved
      <3> QED BY <1>2, <3>1, FittingKept
    <2>8. ASSUME NEW e \in HeldNext(r)
          PROVE  /\ sem_des'[e].fd \in 0 .. MAX_NUM_SEMDESCRIPTORS_PER_PROCESS
                 /\ \E x \in {"fd", "fd2"} : IsOpen(test', pc'[r], x) /\ local'[r][x] = sem_des'[e].fd
                 /\ sem_des'[e].fd < last_sem_fd'[r]
      <3>1. CASE e = d
        BY <1>3, <1>5, <2>2, <2>4, <2>5, <3>1
      <3>2. CASE e \in Held(r)
        <4>1. /\ sem_des[e].fd \in 0 .. MAX_NUM_SEMDESCRIPTORS_PER_PROCESS
              /\ InVariable(r, sem_des[e].fd) /\ sem_des'[e] = sem_des[e]
          BY <1>1, <1>2, <2>2, <2>6, <3>2 DEF Fitting
        <4>2. PICK x \in {"fd", "fd2"} : IsOpen(test, n, x) /\ local[r][x] = sem_des[e].fd
          BY <4>1 DEF InVariable, n
        <4>3. IsOpen(test', pc'[r], x) /\ local'[r][x] = sem_des'[e].fd
          BY <1>3, <1>5, <4>1, <4>2
        <4> QED BY <2>4, <2>5, <3>2, <4>1, <4>3
      <3> QED BY <2>3, <2>8, <3>1, <3>2
    <2>9. ASSUME NEW e \in HeldNext(r), NEW g \in HeldNext(r), sem_des'[e].fd = sem_des'[g].fd
          PROVE  e = g
      <3>1. \A z \in Held(r) : sem_des'[z] = sem_des[z] /\ sem_des[z].fd # last_sem_fd[r]
        BY <1>1, <2>2, <2>4, <2>5, <2>6
      <3> QED BY <1>1, <1>2, <2>2, <2>3, <2>9, <3>1 DEF Fitting
    <2>10. Fitting(r)'
      <3>1. Held(r)' = HeldNext(r) /\ last_sem_fd'[r] = Len(sem_descriptors'[r])
        BY <2>3, <2>4, <2>5 DEF Held, HeldNext
      <3> QED BY <2>8, <2>9, <3>1 DEF Fitting, InVariable
    <2>11. \A b \in Blocks : Fitting(b)'
      BY <2>7, <2>10
    <2>12. Allotted'
      <3> SUFFICES ASSUME NEW e \in SemDescriptors \ sem_des_free'
                   PROVE  \E b \in Blocks : e \in HeldNext(b)
        BY DEF Allotted, Held, HeldNext
      <3>1. CASE e = d
        BY <1>1, <2>3, <3>1
      <3>2. CASE e # d
        <4>1. PICK b \in Blocks : e \in Held(b)
          BY <1>7, <3>2 DEF Gets, Named, Allotted
        <4> QED BY <2>3, <2>7, <4>1 DEF Held, HeldNext
      <3> QED BY <3>1, <3>2
    <2>13. LeftOpen'
      <3> SUFFICES ASSUME ~Tidy', NEW b \in Blocks, pc'[b] > 0 PROVE HeldNext(b) # {}
        BY DEF LeftOpen, Held, HeldNext
      <3>1. CASE b = r
        BY <2>3, <3>1
      <3>2. CASE b # r
        BY <1>1, <2>3, <3>2 DEF Named, LeftOpen, Held, HeldNext, Tidy
      <3> QED BY <3>1, <3>2
    <2>14. OneSemaphore'
      <3>1. semaphores_list' = {s} /\ sem_id'[s] = ID /\ d \in users'[s]
        BY <1>7 DEF Gets
      <3> QED BY <3>1 DEF OneSemaphore
    <2> QED BY <2>11, <2>12, <2>13, <2>14 DEF Named
  <1> QED BY <1>6, <1>7, OpenOutcome

\* Every step of the program, as long as nobody has been reaped too early
LEMMA NamedStep ==
  ASSUME TestInv, Census, Named, TestNext
  PROVE  Named'
  <1>1. CASE TableStep
    BY <1>1, TableNamed
  <1>2. CASE SemOpenStep
    BY <1>2, OpenNamed DEF SemOpenStep, others
  <1>3. CASE SemStep
    BY <1>3, WaitPostNamed, CloseNamed DEF SemStep, others
  <1>4. CASE LoadStep \/ StoreStep
    BY <1>4, OwnNamed
  <1> QED BY <1>1, <1>2, <1>3, <1>4, NextKinds

-----------------------------------------------------------------------------
(* The end *)

\* The inductive invariant of the program, up to the shutdown included
ProgramInv == TestInv /\ Named /\ (ProgramUp => Census) /\ AtShutdown

LEMMA ProgramInit == TestInit => ProgramInv
  <1> SUFFICES ASSUME TestInit PROVE ProgramInv
    OBVIOUS
  <1>1. TestInv /\ test \in DOMAIN Steps
    BY TestInitInv DEF TestInit
  <1>2. /\ pid = [b \in Blocks |-> 0] /\ last_pid = 1 /\ waiting_list = {} /\ timer_list = <<>>
        /\ mode = "Up" /\ zombie_list = {} /\ alive_children = 0 /\ init_pcb \in Live
        /\ pc = [b \in Blocks |-> 0]
    BY <1>1 DEF TestInit, SemInit, Init, TestInv, SemInv, Core, InitLives
  <1>3. Free \subseteq Blocks
    BY <1>1, ElementsType DEF TestInv, SemInv, Core, TypeOK, Free
  <1>4. Family
    <2>1. Live = {init_pcb}
      <3>1. Init
        BY DEF TestInit, SemInit
      <3>2. Free = Blocks \ {1} /\ 1 \in Blocks /\ init_pcb = 1
        BY <3>1, InitialPool DEF Init
      <3> QED BY <3>2 DEF Live
    <2>2. Asleep = {}
      BY <1>2 DEF Asleep
    <2> QED BY <1>2, <2>1, <2>2 DEF Family, Live
  <1>5. Ledger
    <2>1. Unreaped = {}
      BY <1>2 DEF Unreaped, Live
    <2>2. Cardinality(Unreaped) = 0
      BY <2>1, FS_EmptySet
    <2> QED BY <1>2, <2>2 DEF Ledger
  <1>6. Ended
    BY <1>2, <1>3 DEF Ended
  <1>7. \A b \in Blocks : Held(b) = {} /\ sem_descriptors[b] = <<>> /\ last_sem_fd[b] = 0
    BY EmptyElements DEF TestInit, SemInit, Held
  <1>8. Allotted /\ LeftOpen /\ OneSemaphore
    <2>1. semaphores_list = {}
      BY DEF TestInit, SemInit, semaphores_list, Semaphores, Elements
    <2>2. sem_des_free = SemDescriptors
      BY DEF TestInit, SemInit
    <2> QED BY <1>2, <2>1, <2>2 DEF Allotted, LeftOpen, OneSemaphore
  <1>9. \A b \in Blocks : Fitting(b)
    BY <1>7 DEF Fitting
  <1> QED BY <1>1, <1>2, <1>4, <1>5, <1>6, <1>8, <1>9 DEF ProgramInv, Named, Census, AtShutdown

LEMMA StepsWhileUp == TestNext => mode = "Up"
  BY DEF TestNext, Tick, timerInterrupt, childFunction, SemOpenStep, SemStep, SleepStep, LoadStep,
         StoreStep, At, Calls, initFunction, Running

LEMMA ProgramNext == ProgramInv /\ [TestNext]_test_vars => ProgramInv'
  <1> SUFFICES ASSUME ProgramInv, [TestNext]_test_vars PROVE ProgramInv'
    OBVIOUS
  <1>1. TestInv /\ TestInv' /\ Named /\ AtShutdown
    BY TestNextInv DEF ProgramInv
  <1>2. CASE TestNext
    <2>1. Census
      BY <1>2, StepsWhileUp DEF ProgramInv, ProgramUp
    <2>2. Named'
      BY <1>1, <1>2, <2>1, NamedStep
    <2>3. ProgramUp' => Census' /\ AtShutdown'
      BY <1>1, <1>2, <2>1, CensusStep
    <2>4. ~ProgramUp' => AtShutdown'
      BY DEF ProgramUp, AtShutdown
    <2> QED BY <1>1, <2>2, <2>3, <2>4 DEF ProgramInv
  <1>3. CASE UNCHANGED test_vars
    <2>1. /\ UNCHANGED <<pcb_free, last_pid, pid, parent, children, running, init_pcb, mode,
                         waiting_list, zombie_list, timer_list>>
      BY <1>3 DEF test_vars, sem_vars, vars, pools, table, queues
    <2>2. UNCHANGED <<sem_free, sem_id, users, waiters, sem_descriptors, last_sem_fd, sem_des,
                      sem_des_free>>
      BY <1>3 DEF test_vars, sem_vars, semaphore, semopened
    <2>3. UNCHANGED <<test, pc, local, alive_children>>
      BY <1>3 DEF test_vars, program
    <2>4. ProgramUp => Census'
      <3>1. Bystands
        BY <2>1, <2>3 DEF Bystands, Free, KidsOf, KidsNext, Asleep
      <3> QED BY <3>1, CensusFrame DEF ProgramInv
    <2>5. AtShutdown' /\ (ProgramUp' <=> ProgramUp)
      BY <1>1, <2>1, <2>3 DEF AtShutdown, ProgramUp
    <2>6. ASSUME NEW b \in Blocks PROVE Fitting(b)' /\ Held(b)' = Held(b)
      <3>1. Unmoved(b)
        BY <2>2, <2>3 DEF Unmoved
      <3> QED BY <1>1, <3>1, FittingKept DEF Named
    <2>7. Allotted' /\ LeftOpen'
      BY <1>1, <2>2, <2>3, <2>6 DEF Named, Allotted, LeftOpen, Tidy
    <2>8. OneSemaphore'
      BY <1>1, <2>2, OneSemaphoreKept DEF Named, Waiting, WaitingNext
    <2> QED BY <1>1, <2>4, <2>5, <2>6, <2>7, <2>8 DEF ProgramInv, Named
  <1> QED BY <1>2, <1>3

\* Nobody holds anything at the end of a test that closes what it opens, and
\* every child one descriptor at the end of the others.
LEMMA EndsClean ==
  ASSUME ProgramInv, mode = "Shutdown", NumChildren > 0
  PROVE  CleanShutdown
  <1>1. /\ TestInv /\ SemInv /\ Core /\ ProgramTyped /\ Numbers /\ Named /\ Census
        /\ pid \in [Blocks -> Nat] /\ pc \in [Blocks -> Nat] /\ init_pcb \in Live
        /\ NumChildren \in Nat
        /\ sem_des_free \subseteq SemDescriptors /\ users \in [Semaphores -> SUBSET SemDescriptors]
        /\ waiters \in [Semaphores -> Seq(SemDescriptors)]
    <2>1. TestInv /\ Named /\ Census
      BY DEF ProgramInv, ProgramUp
    <2>2. SemInv /\ ProgramTyped /\ Numbers
      BY <2>1 DEF TestInv
    <2>3. Core /\ SemTyped
      BY <2>2 DEF SemInv
    <2>4. pid \in [Blocks -> Nat] /\ init_pcb \in Live
      BY <2>3 DEF Core, TypeOK, Pids, InitLives
    <2> QED BY <2>1, <2>2, <2>3, <2>4 DEF SemTyped, ProgramTyped
  <1>2. running = init_pcb /\ last_pid = NumChildren + 2 /\ alive_children = 0
    BY DEF ProgramInv, AtShutdown
  <1>3. Unreaped = {}
    <2>1. init_pcb # NULL
      BY <1>1 DEF Live, Blocks
    <2>2. init_pcb \notin waiting_list
      BY <1>1, <1>2, <2>1, RunningIsLive
    <2>3. Cardinality(Unreaped) = 0
      BY <1>1, <1>2, <2>2 DEF Census, Ledger
    <2>4. IsFiniteSet(Unreaped)
      BY <1>1, UnreapedFinite
    <2> QED BY <2>3, <2>4, FS_EmptySet
  <1>4. Live \ {init_pcb} = {b \in Live : pid[b] = 1}
    <2>1. ASSUME NEW b \in Live PROVE pid[b] = 0 \/ pid[b] = 1
      BY <1>1, <1>3 DEF Unreaped, Live
    <2> QED BY <1>1, <2>1 DEF Census, Family
  <1>5. ASSUME NEW b \in Blocks PROVE pc[b] = 0 \/ pc[b] = Len(Steps[test])
    <2>1. CASE pid[b] > 1
      <3>1. b \in Free
        BY <1>3, <2>1 DEF Unreaped, Live
      <3> QED BY <1>1, <2>1, <3>1 DEF Census, Ended
    <2>2. CASE ~(pid[b] > 1)
      BY <1>1, <2>2 DEF Numbers
    <2> QED BY <2>1, <2>2
  <1>6. ASSUME NEW s \in Semaphores, NEW d \in users[s] \cup Waiting(s)
        PROVE  \E b \in Blocks : d \in Held(b)
    BY <1>1 DEF SemInv, Linked, UsedLinked
  <1>7. ASSUME Tidy PROVE semaphores_list = {} /\ sem_des_free = SemDescriptors
    <2>1. ASSUME NEW b \in Blocks PROVE Held(b) = {}
      <3>1. ASSUME NEW x PROVE ~IsOpen(test, pc[b], x)
        <4>1. test \in DOMAIN Steps
          BY <1>1 DEF ProgramTyped
        <4>2. ~IsOpen(test, 0, x) /\ ~IsOpen(test, Len(Steps[test]), x)
          BY <1>7, <4>1, OpenAtTheEnds DEF Tidy
        <4> QED BY <1>5, <4>2
      <3> QED BY <1>1, <3>1 DEF Named, Fitting, InVariable
    <2>2. sem_des_free = SemDescriptors
      BY <1>1, <2>1 DEF Named, Allotted
    <2>3. semaphores_list = {}
      BY <1>1, <1>6, <2>1 DEF Named, OneSemaphore, semaphores_list
    <2> QED BY <2>2, <2>3
  <1>8. ASSUME ~Tidy
        PROVE  \E s \in semaphores_list :
                 /\ users[s] = SemDescriptors \ sem_des_free
                 /\ \A d \in users[s] : pid[sem_des[d].pcb] \in Children /\ sem_des[d].pcb \in Free
                 /\ \A d, e \in users[s] : pid[sem_des[d].pcb] = pid[sem_des[e].pcb] => d = e
                 /\ \A p \in Children : \E d \in users[s] : pid[sem_des[d].pcb] = p
    <2>1. \A s \in Semaphores : Waiting(s) = {}
      BY <1>1, <1>8, EmptyElements DEF TestInv, NobodyWaits, Tidy, Waiting
    <2>2. ASSUME NEW b \in Blocks, pid[b] > 1
          PROVE  b \in Free /\ pc[b] = 1 /\ Held(b) # {}
      <3>1. b \in Free
        BY <1>3, <2>2 DEF Unreaped, Live
      <3>2. pc[b] = Len(Steps[test])
        BY <1>1, <2>2, <3>1 DEF Census, Ended
      <3>3. Len(Steps[test]) = 1
        BY <1>8, NoCloseSteps, MQNoCloseSteps DEF Tidy
      <3> QED BY <1>1, <1>8, <3>1, <3>2, <3>3 DEF Named, LeftOpen
    <2>3. ASSUME NEW b \in Blocks, NEW d \in Held(b)
          PROVE  /\ sem_des[d].semaphore \in semaphores_list /\ d \in users[sem_des[d].semaphore]
                 /\ d \notin sem_des_free /\ sem_des[d].pcb = b
                 /\ pid[b] \in Children /\ b \in Free
      <3>1. pid[b] > 1
        <4>1. \E x : IsOpen(test, pc[b], x)
          BY <1>1 DEF Named, Fitting, InVariable
        <4>2. pc[b] > 0
          BY <1>1, <4>1, OpenAtTheEnds DEF ProgramTyped
        <4> QED BY <1>1, <4>2 DEF Numbers
      <3>2. pid[b] \in Children
        BY <1>1, <1>2, <3>1 DEF Numbers, Children
      <3> QED BY <1>1, <2>1, <2>2, <3>1, <3>2 DEF SemInv, Linked, HeldLinked
    <2>4. ASSUME NEW b \in Blocks, NEW d \in Held(b), NEW e \in Held(b)
          PROVE  d = e
      <3>1. \A x : IsOpen(test, pc[b], x) => x = "fd"
        BY <1>8 DEF Tidy, IsOpen
      <3>2. sem_des[d].fd = local[b]["fd"] /\ sem_des[e].fd = local[b]["fd"]
        BY <1>1, <3>1 DEF Named, Fitting, InVariable
      <3> QED BY <1>1, <3>2 DEF Named, Fitting
    <2>5. \A p \in Children : \E b \in Blocks, d \in SemDescriptors : d \in Held(b) /\ pid[b] = p
      <3> SUFFICES ASSUME NEW p \in Children
                   PROVE  \E b \in Blocks, d \in SemDescriptors : d \in Held(b) /\ pid[b] = p
        OBVIOUS
      <3>1. p \in 2 .. last_pid - 1 /\ p > 1
        BY <1>1, <1>2 DEF Children
      <3>2. PICK b \in Blocks : pid[b] = p
        BY <1>1, <3>1 DEF Census, Ended
      <3>3. PICK d \in Held(b) : TRUE
        BY <2>2, <3>1, <3>2
      <3>4. d \in SemDescriptors
        BY <1>1, <2>3, <3>3 DEF semaphores_list
      <3> QED BY <3>2, <3>3, <3>4
    <2>6. PICK b \in Blocks, d \in SemDescriptors : d \in Held(b) /\ pid[b] = 2
      <3>1. NumChildren \in Nat /\ NumChildren > 0
        BY <1>1
      <3>2. 2 \in Children
        BY ONLY <3>1 DEF Children
      <3> QED BY <2>5, <3>2
    <2>7. PICK s : s = sem_des[d].semaphore
      OBVIOUS
    <2>8. s \in semaphores_list /\ s \in Semaphores /\ semaphores_list = {s}
      BY <1>1, <2>3, <2>6, <2>7 DEF Named, OneSemaphore, semaphores_list
    <2>9. users[s] \subseteq SemDescriptors \ sem_des_free
      BY <1>1, <1>6, <2>3, <2>8
    <2>10. \A e \in SemDescriptors \ sem_des_free : \E c \in Blocks : e \in Held(c)
      BY <1>1 DEF Named, Allotted
    <2>11. \A c \in Blocks : \A e \in Held(c) : e \in users[s]
      BY <2>3, <2>8
    <2>12. \A e \in users[s] : sem_des[e].pcb \in Blocks /\ e \in Held(sem_des[e].pcb)
      BY <2>3, <2>9, <2>10
    <2>13. \A e \in users[s] : pid[sem_des[e].pcb] \in Children /\ sem_des[e].pcb \in Free
      BY <2>3, <2>12
    <2>14. ASSUME NEW e \in users[s], NEW f \in users[s], pid[sem_des[e].pcb] = pid[sem_des[f].pcb]
           PROVE  e = f
      <3>1. pid[sem_des[e].pcb] > 0
        BY <1>1, <2>13 DEF Children
      <3>2. sem_des[e].pcb = sem_des[f].pcb
        BY <1>1, <2>12, <2>14, <3>1 DEF Numbers
      <3> QED BY <2>4, <2>12, <3>2
    <2>15. \A p \in Children : \E e \in users[s] : pid[sem_des[e].pcb] = p
      BY <2>3, <2>5, <2>11
    <2> QED BY <2>8, <2>9, <2>10, <2>11, <2>13, <2>14, <2>15
  <1> QED BY <1>4, <1>7, <1>8 DEF CleanShutdown

\* The end is clean: for any number of children, one at least, when init shuts the
\* system down every child has been reaped, the tests that close what they open
\* leave no semaphore and no descriptor, and the others one semaphore with
\* exactly one descriptor of each child, whatever the order of the steps.
THEOREM ShutdownIsClean == NumChildren > 0 => (TestSpec => []CleanShutdown)
  <1> SUFFICES ASSUME NumChildren > 0 PROVE TestSpec => []CleanShutdown
    OBVIOUS
  <1>1. ProgramInv => CleanShutdown
    BY EndsClean DEF CleanShutdown
  <1> QED BY <1>1, ProgramInit, ProgramNext, PTL DEF TestSpec
=============================================================================
