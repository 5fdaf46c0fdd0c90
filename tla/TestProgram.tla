---------------------------- MODULE TestProgram ----------------------------
(***************************************************************************)
(* disastrOS_test.c on top of the kernel: init (pid 0) spawns the sleeper  *)
(* (pid 1) and the children, waits for them and shuts down; every child    *)
(* runs the test chosen on the command line and exits.  The tests are      *)
(* those that use semaphores, messageQueueNoClose among them.              *)
(*                                                                         *)
(* A call is one step, and so is each access to a shared total; the timer  *)
(* interrupt strikes between any two steps.  Left out: printing, and the   *)
(* openResource of init before each spawn, which touches nothing here.     *)
(***************************************************************************)
EXTENDS Semaphores, FiniteSets

CONSTANTS
  NumChildren,   \* 10 in the code
  Tests          \* the tests a run may choose

VARIABLES
  test,             \* testFunPtr
  pc,               \* steps of its test that each child has done
  local,            \* the local variables of each process
  totalOK, totalKO,
  alive_children    \* of init: what its loop still waits for

program == <<test, pc, local, totalOK, totalKO, alive_children>>
test_vars == <<sem_vars, program>>

ID == 153
Locals == {"fd", "fd2", "a", "b"}

\* The steps of each test, with the local variable that each of them uses.
Steps ==
  [semaphoreClean |->
     << <<"load_KO", "b">>, <<"semOpen", "fd">>, <<"semWait", "fd">>,
        <<"load_OK", "a">>, <<"sleep", "">>, <<"store_OK", "a">>,
        <<"semPost", "fd">>, <<"semClose", "fd">>, <<"store_KO", "b">> >>,
   semaphoreOpenClose |-> << <<"semOpen", "fd">>, <<"semClose", "fd">> >>,
   semaphoreNoOpen |-> << <<"semWait", "ID">>, <<"semPost", "ID">>, <<"semClose", "ID">> >>,
   semaphoreDoubleOpen |->
     << <<"semOpen", "fd">>, <<"semOpen", "fd2">>, <<"semClose", "fd">>,
        <<"semClose", "fd2">> >>,
   semaphoreBoundsException |->
     << <<"semOpen", "fd">>, <<"semWait", "fd">>, <<"semPost", "fd">>,
        <<"semClose", "fd">> >>,
   semaphoreReOpen |->
     << <<"semOpen", "fd">>, <<"sleep", "">>, <<"semClose", "fd">>,
        <<"semOpen", "fd">>, <<"sleep", "">>, <<"semClose", "fd">> >>,
   semaphoreNoClose |-> << <<"semOpen", "fd">> >>,
   messageQueueNoClose |-> << <<"semOpen", "fd">> >>]

ASSUME TestProgramAssumption ==
  /\ NumChildren \in Nat
  /\ MAX_NUM_PROCESSES >= NumChildren + 2
  /\ MaxPid >= NumChildren + 2
  /\ MAX_NUM_SEMAPHORES >= 1 /\ MAX_NUM_SEMDESCRIPTORS_PER_PROCESS >= 1
  /\ IdlePids = {1}
  /\ 0 \in WaitPids /\ 1 \in SleepTimes   \* what the program passes to the kernel
  /\ Tests \subseteq DOMAIN Steps

TestInit ==
  /\ SemInit
  /\ test \in Tests
  /\ pc = [b \in Blocks |-> 0]
  /\ local = [b \in Blocks |-> [x \in Locals |-> 0]]
  /\ totalOK = 0
  /\ totalKO = 0
  /\ alive_children = 0

-----------------------------------------------------------------------------
\* A slip the properties must catch: the semaphore is opened with two tokens.
OpenedWithTwo == 2

OpenId == IF test = "semaphoreBoundsException" THEN -1 ELSE ID

\* COUNT, or PRIORITY where the test calls semOpen for mqOpen
OpenCount == IF test = "messageQueueNoClose" THEN 0 ELSE 1

Running(p) == mode = "Up" /\ running # NULL /\ pid[running] = p

\* The running process is a child whose next step is of this kind.
At(kind) ==
  /\ mode = "Up" /\ running # NULL /\ pid[running] > 1
  /\ pc[running] < Len(Steps[test])
  /\ Steps[test][pc[running] + 1][1] = kind
  /\ pc' = [pc EXCEPT ![running] = @ + 1]

Variable == Steps[test][pc[running] + 1][2]

Value == IF Variable = "ID" THEN ID ELSE local[running][Variable]

Assign(value) == local' = [local EXCEPT ![running][Variable] = value]

others == <<test, totalOK, totalKO, alive_children>>

-----------------------------------------------------------------------------
(* The steps of a child *)

\* The answers of the other calls are printed or never read.
SemOpenStep ==
  /\ At("semOpen")
  /\ internal_semOpen(OpenId, {"CREATE"}, OpenCount)
  /\ Assign(reported'.value)
  /\ UNCHANGED others

SemStep ==
  /\ \/ At("semWait") /\ internal_semWait(Value)
     \/ At("semPost") /\ internal_semPost(Value)
     \/ At("semClose") /\ internal_semClose(Value)
  /\ UNCHANGED <<local, others>>

SleepStep ==
  /\ At("sleep")
  /\ internal_sleep(1) /\ SemaphoresKept
  /\ UNCHANGED <<local, others>>

LoadStep ==
  /\ \/ At("load_OK") /\ Assign(totalOK)
     \/ At("load_KO") /\ Assign(totalKO)
  /\ UNCHANGED <<sem_vars, others>>

StoreStep ==
  /\ \/ At("store_OK") /\ totalOK' = Value + 1 /\ UNCHANGED totalKO
     \/ At("store_KO") /\ totalKO' = Value + 1 /\ UNCHANGED totalOK
  /\ UNCHANGED <<sem_vars, test, local, alive_children>>

childFunction ==
  \/ SemOpenStep \/ SemStep \/ SleepStep \/ LoadStep \/ StoreStep
  \/ /\ Calls /\ pid[running] > 1
     /\ pc[running] = Len(Steps[test])
     /\ internal_exit /\ SemaphoresKept
     /\ UNCHANGED program

-----------------------------------------------------------------------------
(* initFunction *)

\* The sleeper first, then the children
SpawnStep ==
  /\ last_pid <= NumChildren + 1
  /\ internal_spawn /\ SemaphoresKept
  /\ alive_children' = last_pid - 1
  /\ UNCHANGED <<test, pc, local, totalOK, totalKO>>

\* The loop ends with the last child, or with an error of wait.
WaitStep ==
  /\ last_pid = NumChildren + 2
  /\ alive_children > 0
  /\ internal_wait(0) /\ SemaphoresKept
  /\ alive_children' = IF reported'.value < 0 THEN 0 ELSE alive_children - 1
  /\ UNCHANGED <<test, pc, local, totalOK, totalKO>>

ShutdownStep ==
  /\ last_pid = NumChildren + 2
  /\ alive_children = 0
  /\ internal_shutdown /\ SemaphoresKept
  /\ UNCHANGED program

initFunction == Running(0) /\ (SpawnStep \/ WaitStep \/ ShutdownStep)

Tick == timerInterrupt /\ SemaphoresKept /\ UNCHANGED program

TestNext == Tick \/ childFunction \/ initFunction

\* SIGALRM keeps coming, and a process that gets the processor again and again
\* gets on: a turn lasts 100 ms.
TestFairness ==
  /\ WF_test_vars(Tick)
  /\ \A b \in Blocks : SF_test_vars(running = b /\ (childFunction \/ initFunction))

TestSpec == TestInit /\ [][TestNext]_test_vars /\ TestFairness
-----------------------------------------------------------------------------
(* Properties *)

\* Between the return of semWait and the call of semPost.
InCriticalSection(b) ==
  /\ test = "semaphoreClean"
  /\ b \notin Free \cup SemBlocked
  /\ pc[b] \in 3 .. 6

(* disastrOS_test.c: "in critical section, concurrent access to resources should
   be coordinated": at most one child is between its semWait and its semPost,
   asleep or not, and the count is up exactly when there is none: the token is
   either in the count or with the child inside, never in both and never lost. *)
MutualExclusion ==
  /\ \A b, c \in Blocks : InCriticalSection(b) /\ InCriticalSection(c) => b = c
  /\ test = "semaphoreClean" =>
       \A s \in semaphores_list :
         count[s] = IF \E b \in Blocks : InCriticalSection(b) THEN 0 ELSE 1

(* No token lies idle while somebody waits for it, and no semaphore is destroyed
   under a waiter: the tests close a semaphore only after they have passed their
   token on, and whoever got it is a user again. *)
NoIdleTokens ==
  \A s \in Semaphores : waiters[s] # <<>> => s \in semaphores_list /\ count[s] <= 0

Tidy == test \notin {"semaphoreNoClose", "messageQueueNoClose"}

Children == 2 .. NumChildren + 1

(* At shutdown every child has been reaped; the tests that close what they open
   leave no semaphore and no descriptor, the others one semaphore with exactly
   one descriptor of each child, in a block that its owner has given back. *)
CleanShutdown ==
  mode = "Shutdown" =>
    /\ Live \ {init_pcb} = {b \in Live : pid[b] = 1}
    /\ Tidy => semaphores_list = {} /\ sem_des_free = SemDescriptors
    /\ ~Tidy => \E s \in semaphores_list :
         /\ users[s] = SemDescriptors \ sem_des_free
         /\ \A d \in users[s] : pid[sem_des[d].pcb] \in Children /\ sem_des[d].pcb \in Free
         /\ \A d, e \in users[s] : pid[sem_des[d].pcb] = pid[sem_des[e].pcb] => d = e
         /\ \A p \in Children : \E d \in users[s] : pid[sem_des[d].pcb] = p

Counted == {b \in Blocks : pc[b] >= 6}

Counter == INSTANCE AtomicCounter WITH
  total <- totalOK,
  remaining <- IF test = "semaphoreClean" THEN NumChildren - Cardinality(Counted) ELSE 0

(* disastrOS_test.c: "no race condition should interfere with final result of
   shared resources": though reading and writing totalOK are two steps with a
   sleep between them, the children count as if each of them added one in a
   single step, and each of them gets to it. *)
CountsAtomically == Counter!Spec

(* The program ends: whatever the test and wherever the ticks strike, init reaps
   all its children and shuts the system down. *)
Terminates == <>(mode = "Shutdown")
=============================================================================
