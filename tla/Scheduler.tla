------------------------------ MODULE Scheduler ------------------------------
(***************************************************************************)
(* The process table of disastrOS: process control blocks and their pool,  *)
(* the ready, waiting and zombie lists, the timers, and the handlers of    *)
(* preempt, fork, spawn, wait, exit, sleep and shutdown.  A handler runs   *)
(* with SIGALRM blocked, so it is one step; between two handlers the timer *)
(* interrupt may strike at any time.                                       *)
(*                                                                         *)
(* waiting_list and zombie_list are only ever appended to and detached     *)
(* from by pointer, so their order is never observed and they are sets.    *)
(* A timer carries the ticks left until its awakening time.  The fields of *)
(* a released block keep their values, as the memory does.                 *)
(***************************************************************************)
EXTENDS ListOps

CONSTANTS
  MAX_NUM_PROCESSES,  \* blocks in the PCB pool and in the PCBPtr pool
  MaxPid,             \* bound: pids are below MaxPid
  SleepTimes,         \* the arguments of sleep
  WaitPids,           \* the first argument of wait
  IdlePids,           \* processes that never make a system call (sleeperFunction)
  Disciplined         \* TRUE: programs keep to the habits of disastrOS_test.c

ASSUME SchedulerAssumption ==
  /\ MAX_NUM_PROCESSES \in Nat \ {0}
  /\ MaxPid \in Nat \ {0}
  /\ SleepTimes \subseteq Nat
  /\ WaitPids \subseteq 0 .. MaxPid
  /\ IdlePids \subseteq 1 .. MaxPid - 1
  /\ Disciplined \in BOOLEAN

VARIABLES
  pcb_free,      \* free PCB blocks, the next one to hand out first
  ptr_free,      \* number of free PCBPtr blocks
  last_pid,      \* next pid
  pid, status, parent, children,  \* fields of each PCB; children in list order
  awaited,       \* argument of the block's last system call if that was wait
  forked,        \* blocks whose cpu_state was never filled in
  running, init_pcb,
  ready_list, waiting_list, zombie_list, timer_list,
  abandoned,     \* blocks whose function returned: in no list, never released
  reported,      \* what this step stored in a syscall_retvalue, and in whose
  mode           \* "Up", "Shutdown", or how the host process died

pools  == <<pcb_free, ptr_free, last_pid>>
table  == <<pid, status, parent, children, forked>>
queues == <<ready_list, waiting_list, zombie_list, timer_list>>
vars   == <<pools, table, awaited, running, init_pcb, queues, abandoned,
            reported, mode>>

Blocks == 1 .. MAX_NUM_PROCESSES
Pids == 0 .. MaxPid - 1
NotWaiting == -1
NoReport == [to |-> NULL, value |-> 0]
NotAPid == MaxPid        \* any argument of wait that names no process
DSOS_EWAIT == -5
Statuses == {"Created", "Running", "Ready", "Waiting", "Zombie"}
Faults == {"NullDereference", "WildJump", "Hang"}

TypeOK ==
  /\ pcb_free \in Seq(Blocks)
  /\ ptr_free \in 0 .. MAX_NUM_PROCESSES
  /\ last_pid \in 1 .. MaxPid
  /\ pid \in [Blocks -> Pids]
  /\ status \in [Blocks -> Statuses]
  /\ parent \in [Blocks -> Blocks \cup {NULL}]
  /\ children \in [Blocks -> Seq(Blocks)]
  /\ awaited \in [Blocks -> Pids \cup {NotWaiting, NotAPid}]
  /\ forked \subseteq Blocks
  /\ running \in Blocks \cup {NULL}
  /\ init_pcb \in Blocks
  /\ ready_list \in Seq(Blocks)
  /\ waiting_list \subseteq Blocks
  /\ zombie_list \subseteq Blocks
  /\ timer_list \in Seq([pcb : Blocks, left : Int])
  /\ abandoned \subseteq Blocks
  /\ reported \in [to : Blocks, value : Int] \cup {NoReport}
  /\ mode \in {"Up", "Shutdown"} \cup Faults
-----------------------------------------------------------------------------
(* timer.c and pcb.c *)

\* Slips the properties must catch: a timer is added at the end; elapsed means
\* later than the awakening time; time stands still; the head of the ready list
\* is read but not detached; a process that lost its turn goes to the front, or
\* nowhere; a woken process keeps its status; a system call does not store its
\* number; the children of an exiting process stay in its list too, or are
\* dropped; exit forgets that wait was called for any child; wait answers with
\* its argument; wait releases a PCBPtr twice.
TimerList_addLast(s, ticks, b) == Append(s, [pcb |-> b, left |-> ticks])

ElapsedIfLater(t) == t.left < 0

TimersUnticked == timer_list

ReadyListUndetached == ready_list

RequeueFirst(ready) == <<running>> \o Tail(ready)

RequeueNowhere(ready) == Tail(ready)

WokenStatusKept(woken) == status

CallsUnrecorded == mode = "Up" /\ running # NULL /\ pid[running] \notin IdlePids
                   /\ UNCHANGED awaited

ReparentedTwice == [children EXCEPT ![init_pcb] = @ \o children[running]]

ReparentedNowhere == [children EXCEPT ![running] = <<>>]

ParentAwaitsThis ==
  LET p == parent[running]
  IN  status[p] = "Waiting" /\ awaited[p] = pid[running]

ReapedPidAsAsked(a, z) == a

PCBPtrFreedTwice == ptr_free + 2

\* A new timer goes behind every timer that does not elapse later.
TimerList_add(s, ticks, b) ==
  LET k == CHOOSE k \in 0 .. Len(s) :
             /\ \A i \in 1 .. k : s[i].left <= ticks
             /\ k < Len(s) => ticks < s[k + 1].left
  IN  InsertAfter(s, k, [pcb |-> b, left |-> ticks])

Elapsed(t) == t.left <= 0

\* How many timers TimerList_current/removeCurrent take off the front of s.
ElapsedCount(s) ==
  CHOOSE k \in 0 .. Len(s) :
    /\ \A i \in 1 .. k : Elapsed(s[i])
    /\ k < Len(s) => ~Elapsed(s[k + 1])

PCBPtrsExhausted == ptr_free = 0

PCBPtr_free == ptr_free + 1

\* ready_list once its first element is detached to be resumed
ReadyListRest == Tail(ready_list)

\* The host process dies; nothing that follows can be observed.
Crash(fault) ==
  /\ mode' = fault
  /\ reported' = NoReport
  /\ UNCHANGED <<pools, table, awaited, running, init_pcb, queues, abandoned>>

\* setcontext to block b, whose saved context may be garbage.
Resume(b) ==
  /\ running' = b
  /\ mode' = IF b \in forked THEN "WildJump" ELSE "Up"

\* PCB_alloc for a process with parent p and status st (a fork leaves the
\* context of the block unset); reading the null pointer of an exhausted pool
\* is a crash of the caller.
PCB_alloc(p, st, context) ==
  LET b == Head(pcb_free) IN
  /\ pcb_free' = Tail(pcb_free)
  /\ last_pid' = last_pid + 1
  /\ pid' = [pid EXCEPT ![b] = last_pid]
  /\ status' = [status EXCEPT ![b] = st]
  /\ parent' = [parent EXCEPT ![b] = p]
  /\ children' = [c \in Blocks |->
                    IF c = b THEN <<>>
                    ELSE IF c = p THEN Append(children[c], b)
                    ELSE children[c]]
  /\ forked' = IF context THEN forked \ {b} ELSE forked \cup {b}

\* The start of a system call by the running process; every call but wait
\* overwrites what the block's last wait left behind.
Calls ==
  /\ mode = "Up"
  /\ running # NULL
  /\ pid[running] \notin IdlePids

IdleStarted == \A i \in IdlePids : i < last_pid

CallsOther == Calls /\ awaited' = [awaited EXCEPT ![running] = NotWaiting]

-----------------------------------------------------------------------------
(* disastrOS_start, and its second half again when main_context is resumed *)

Init ==
  /\ pcb_free = [i \in 1 .. MAX_NUM_PROCESSES - 1 |-> i + 1]
  /\ ptr_free = MAX_NUM_PROCESSES
  /\ last_pid = 1
  /\ pid = [b \in Blocks |-> 0]
  /\ status = [b \in Blocks |-> IF b = 1 THEN "Running" ELSE "Created"]
  /\ parent = [b \in Blocks |-> NULL]
  /\ children = [b \in Blocks |-> <<>>]
  /\ awaited = [b \in Blocks |-> NotWaiting]
  /\ forked = {}
  /\ running = 1
  /\ init_pcb = 1
  /\ ready_list = <<>>
  /\ waiting_list = {}
  /\ zombie_list = {}
  /\ timer_list = <<>>
  /\ abandoned = {}
  /\ reported = NoReport
  /\ mode = "Up"

\* main_context is resumed: when the trap returns because no process is left
\* to run, or when the function of the running process returns.
Restart ==
  /\ mode = "Up"
  /\ \/ pcb_free = <<>> /\ Crash("NullDereference")
     \/ /\ pcb_free # <<>> /\ last_pid < MaxPid
        /\ PCB_alloc(NULL, "Running", TRUE)
        /\ running' = Head(pcb_free)
        /\ init_pcb' = Head(pcb_free)
        /\ abandoned' = abandoned \cup ({running} \ {NULL})
        /\ reported' = NoReport
        /\ UNCHANGED <<ptr_free, awaited, queues, mode>>

\* With a log file open, the trap writes the pid of the running process before
\* it looks whether there is one.
AllAsleep ==
  /\ mode = "Up"
  /\ running = NULL
  /\ Restart \/ Crash("NullDereference")

FunctionReturns == ~Disciplined /\ Calls /\ Restart

-----------------------------------------------------------------------------
\* The process that loses its turn goes to the end of the ready list.
Requeue(ready) == Append(Tail(ready), running)

WokenStatus(woken) ==
  [b \in Blocks |-> IF b \in Elements(woken) THEN "Ready" ELSE status[b]]

\* timerInterrupt and internal_preempt: timers is the timer list as the
\* current time makes it look.
internal_schedule(timers) ==
  LET k     == ElapsedCount(timers)
      woken == [i \in 1 .. k |-> timers[i].pcb]
      ready == woken \o ready_list
      st    == WokenStatus(woken)
  IN
  /\ timer_list' = SubSeq(timers, k + 1, Len(timers))
  /\ waiting_list' = waiting_list \ Elements(woken)
  /\ IF ready = <<>>
       THEN /\ ready_list' = ready
            /\ status' = st
            /\ UNCHANGED <<running, mode>>
       ELSE /\ ready_list' = Requeue(ready)
            /\ status' = [st EXCEPT ![running] = "Ready",
                                    ![Head(ready)] = "Running"]
            /\ Resume(Head(ready))
  /\ reported' = NoReport
  /\ UNCHANGED <<pools, pid, parent, children, forked, init_pcb,
                 zombie_list, abandoned>>

\* ++disastrOS_time
TimersAfterTick ==
  [i \in 1 .. Len(timer_list) |-> [timer_list[i] EXCEPT !.left = @ - 1]]

\* SIGALRM outside a handler.  Between the return of the trap and the restart
\* there is no running process, and the handler dereferences a null pointer.
timerInterrupt ==
  /\ mode = "Up"
  /\ \/ running = NULL /\ Crash("NullDereference")
     \/ /\ running # NULL
        /\ internal_schedule(TimersAfterTick)
        /\ UNCHANGED awaited

internal_preempt ==
  /\ CallsOther
  /\ IdleStarted
  /\ internal_schedule(timer_list)

-----------------------------------------------------------------------------
\* Spawning and forking differ in the child's context only.
Create(context) ==
  /\ Calls
  /\ \/ /\ pcb_free = <<>> \/ PCBPtrsExhausted
        /\ ~Disciplined
        /\ Crash("NullDereference")
     \/ /\ pcb_free # <<>> /\ ~PCBPtrsExhausted /\ last_pid < MaxPid
        /\ CallsOther
        /\ PCB_alloc(running, "Ready", context)
        /\ ptr_free' = ptr_free - 1
        /\ ready_list' = Append(ready_list, Head(pcb_free))
        /\ reported' = [to |-> running, value |-> last_pid]
        /\ UNCHANGED <<running, init_pcb, waiting_list, zombie_list,
                       timer_list, abandoned, mode>>

internal_spawn == Create(TRUE)

internal_fork == ~Disciplined /\ IdleStarted /\ Create(FALSE)

-----------------------------------------------------------------------------
\* The child the scan of internal_wait stops at: the first match, or, when
\* there is none, the last child scanned.
AwaitedIndex(kids, a) ==
  LET Matches(i) == IF a = 0 THEN status[kids[i]] = "Zombie"
                             ELSE pid[kids[i]] = a
      hits == {i \in 1 .. Len(kids) : Matches(i)}
  IN  IF hits = {} THEN Len(kids)
      ELSE CHOOSE i \in hits : \A j \in hits : i <= j

WaitFails(a) ==
  /\ children[running] = <<>>
  /\ reported' = [to |-> running, value |-> DSOS_EWAIT]
  /\ UNCHANGED <<pools, table, running, init_pcb, queues, abandoned, mode>>

ReapedPid(a, z) == pid[z]

WaitReaps(a) ==
  LET i == AwaitedIndex(children[running], a)
      z == children[running][i]
  IN
  /\ children[running] # <<>>
  /\ status[z] = "Zombie"
  /\ children' = [children EXCEPT ![running] = DetachAt(@, i)]
  /\ ptr_free' = PCBPtr_free
  /\ zombie_list' = zombie_list \ {z}
  /\ reported' = [to |-> running, value |-> ReapedPid(a, z)]
  /\ pcb_free' = <<z>> \o pcb_free
  /\ UNCHANGED <<last_pid, pid, status, parent, forked, running, init_pcb,
                 ready_list, waiting_list, timer_list, abandoned,
                 mode>>

\* The next process is taken off the ready list without a test for an empty
\* list, and its status is not set.
WaitBlocks(a) ==
  /\ children[running] # <<>>
  /\ status[children[running][AwaitedIndex(children[running], a)]] # "Zombie"
  /\ ready_list # <<>>
  /\ status' = [status EXCEPT ![running] = "Waiting"]
  /\ waiting_list' = waiting_list \cup {running}
  /\ ready_list' = ReadyListRest
  /\ Resume(Head(ready_list))
  /\ reported' = NoReport
  /\ UNCHANGED <<pools, pid, parent, children, forked, init_pcb,
                 zombie_list, timer_list, abandoned>>

WaitCrashes(a) ==
  /\ children[running] # <<>>
  /\ status[children[running][AwaitedIndex(children[running], a)]] # "Zombie"
  /\ ready_list = <<>>
  /\ Crash("NullDereference")

internal_wait(a) ==
  /\ Calls
  /\ IdleStarted
  /\ \/ /\ WaitFails(a) \/ WaitReaps(a) \/ WaitBlocks(a)
        /\ awaited' = [awaited EXCEPT ![running] = a]
     \/ WaitCrashes(a)

-----------------------------------------------------------------------------
\* A sleeper always gets a timer: it has none while it runs, and the pool has
\* one for every process.
internal_sleep(ticks) ==
  /\ CallsOther
  /\ IdleStarted
  /\ timer_list' = TimerList_add(timer_list, ticks, running)
  /\ status' = [status EXCEPT ![running] = "Waiting"]
  /\ waiting_list' = waiting_list \cup {running}
  /\ IF ready_list = <<>>
       THEN running' = NULL /\ UNCHANGED <<ready_list, mode>>
       ELSE ready_list' = ReadyListRest /\ Resume(Head(ready_list))
  /\ reported' = NoReport
  /\ UNCHANGED <<pools, pid, parent, children, forked, init_pcb,
                 zombie_list, abandoned>>

-----------------------------------------------------------------------------
\* children after the exiting process has given its own to init
Reparented ==
  [children EXCEPT ![init_pcb] = @ \o children[running], ![running] = <<>>]

\* The test of internal_exit on the parent block, whoever occupies it now.
ParentAwaits ==
  LET p == parent[running]
  IN  status[p] = "Waiting" /\ awaited[p] \in {0, pid[running]}

\* The timer list without the timers of b (a running process has none).
WithoutTimersOf(s, b) ==
  IF \A i \in 1 .. Len(s) : s[i].pcb # b THEN s
  ELSE SelectSeq(s, LAMBDA t : t.pcb # b)

\* The exiting process leaves its parent's children, but the PCBPtr that linked
\* it there is not released.  (Its resource descriptors: module Resources.)
ExitWakesParent ==
  LET p == parent[running] IN
  /\ ParentAwaits
  /\ running \in Elements(Reparented[p])
  /\ waiting_list' = waiting_list \ {p}
  /\ status' = [status EXCEPT ![running] = "Zombie", ![p] = "Running"]
  /\ children' = [Reparented EXCEPT ![p] = DetachAt(@, IndexIn(@, running))]
  /\ reported' = [to |-> p, value |-> pid[running]]
  /\ timer_list' = WithoutTimersOf(timer_list, running)
  /\ pcb_free' = <<running>> \o pcb_free
  /\ Resume(p)
  /\ UNCHANGED <<ptr_free, last_pid, ready_list, zombie_list>>

\* Nobody waits: the process stays a zombie.
ExitToZombie ==
  /\ ~ParentAwaits
  /\ ready_list # <<>>
  /\ status' = [status EXCEPT ![running] = "Zombie",
                              ![Head(ready_list)] = "Running"]
  /\ zombie_list' = zombie_list \cup {running}
  /\ children' = Reparented
  /\ ready_list' = ReadyListRest
  /\ Resume(Head(ready_list))
  /\ reported' = NoReport
  /\ UNCHANGED <<pools, waiting_list, timer_list>>

\* The dereferences that fail: the parent of a process started by
\* disastrOS_start, the entry for self in the list of a block that is no longer
\* the parent, the head of an empty ready list.
ExitCrashes ==
  \/ parent[running] = NULL
  \/ /\ parent[running] # NULL
     /\ IF ParentAwaits THEN running \notin Elements(Reparented[parent[running]])
                        ELSE ready_list = <<>>

internal_exit ==
  /\ Calls
  /\ IdleStarted
  /\ Disciplined => running # init_pcb /\ children[running] = <<>>
  /\ \/ /\ running = init_pcb /\ children[running] # <<>>
        /\ Crash("Hang")  \* each child is moved from init's list to init's list
     \/ /\ ~(running = init_pcb /\ children[running] # <<>>)
        /\ ExitCrashes
        /\ Crash("NullDereference")
     \/ /\ parent[running] # NULL
        /\ CallsOther
        /\ ExitWakesParent \/ ExitToZombie
        /\ UNCHANGED <<pid, parent, forked, init_pcb, abandoned>>

internal_shutdown ==
  /\ CallsOther
  /\ Disciplined => running = init_pcb
  /\ IdleStarted
  /\ mode' = "Shutdown"
  /\ reported' = NoReport
  /\ UNCHANGED <<pools, table, running, init_pcb, queues, abandoned>>

Next ==
  \/ timerInterrupt
  \/ AllAsleep
  \/ FunctionReturns
  \/ internal_preempt
  \/ internal_spawn
  \/ internal_fork
  \/ \E a \in WaitPids : internal_wait(a)
  \/ \E ticks \in SleepTimes : internal_sleep(ticks)
  \/ internal_exit
  \/ internal_shutdown

Spec == Init /\ [][Next]_vars

\* setitimer keeps SIGALRM coming, and nothing stops disastrOS_start once
\* main_context is resumed.
FairSpec == Spec /\ WF_vars(timerInterrupt) /\ WF_vars(AllAsleep)
-----------------------------------------------------------------------------
(* Properties *)

Free == Elements(pcb_free)
Live == Blocks \ Free

\* The places a block can be in, by name.
Places ==
  [run   |-> {running} \ {NULL}, ready |-> Elements(ready_list),
   wait  |-> waiting_list,       zombie |-> zombie_list,
   free  |-> Free,               lost |-> abandoned]

(* Every PCB is in exactly one place: running, in one of the three lists, in
   the free pool, or abandoned by a function that returned.  Hence no handler
   links a PCB into a list while it is in another (one ListItem per PCB), none
   detaches a PCB from a list it is not in, and none is released twice. *)
Placement ==
  /\ UNION {Places[x] : x \in DOMAIN Places} = Blocks
  /\ \A x, y \in DOMAIN Places : x # y => Places[x] \cap Places[y] = {}
  /\ Distinct(ready_list)
  /\ Distinct(pcb_free)

(* The status field agrees with the place: exit decides by the status of the
   parent whether to take it off the waiting list, wait by the status of the
   child whether to take it off the zombie list.  (sleep and wait leave the
   status of the process they resume at Ready.) *)
StatusAgrees ==
  /\ \A b \in Elements(ready_list) : status[b] = "Ready"
  /\ \A b \in waiting_list : status[b] = "Waiting"
  /\ \A b \in zombie_list : status[b] = "Zombie"
  /\ \A b \in ({running} \ {NULL}) \cup abandoned : status[b] \in {"Running", "Ready"}
  /\ \A b \in Free : status[b] \in {"Created", "Zombie"}

Asleep == {timer_list[i].pcb : i \in 1 .. Len(timer_list)}

(* A process in the waiting list sleeps on exactly one timer or is blocked in
   wait on a non-empty list of children, never both, and every timer belongs to
   a waiting process: a timer never wakes a process twice, never wakes one out
   of wait, and never outlives its process. *)
BlockedForAReason ==
  /\ Asleep \subseteq waiting_list
  /\ \A i, j \in 1 .. Len(timer_list) :
       timer_list[i].pcb = timer_list[j].pcb => i = j
  /\ \A b \in waiting_list :
       IF b \in Asleep THEN awaited[b] = NotWaiting
       ELSE awaited[b] # NotWaiting /\ children[b] # <<>>

(* The timer list stays sorted, and no timer is overdue: internal_schedule
   looks at the head only. *)
TimersSorted ==
  /\ \A i \in 1 .. Len(timer_list) : timer_list[i].left >= 0
  /\ \A i, j \in 1 .. Len(timer_list) :
       i < j => timer_list[i].left <= timer_list[j].left

(* The children lists of live processes hold live processes, each at most once
   in all of them together: no list refers to a released PCB, though exit,
   wait and re-use of blocks interleave. *)
ChildrenAreLive ==
  \A p \in Live :
    /\ Elements(children[p]) \subseteq Live
    /\ Distinct(children[p])
    /\ \A q \in Live : p # q => Elements(children[p]) \cap Elements(children[q]) = {}

(* Every zombie can still be reaped: it is a child of a process that has not
   exited. *)
ZombiesReapable ==
  \A z \in zombie_list :
    \E p \in Live \ zombie_list : z \in Elements(children[p])

\* Process b is blocked in wait and z is a zombie its call asked for.
Misses(b, z) ==
  /\ b \in waiting_list \ Asleep
  /\ z \in Elements(children[b]) \cap zombie_list
  /\ awaited[b] \in {0, pid[z]}

(* No wakeup is lost between a process and the children it created: whichever
   of the parent's wait and the child's exit comes first, the parent is never
   left blocked on a child of its own that has exited. *)
OwnChildrenWake == \A b, z \in Blocks : Misses(b, z) => parent[z] # b

(* Each process is reaped once, by a process that had it as a child: in the step
   that releases a PCB its pid is stored as the answer of wait of exactly such a
   process, whether wait finds the zombie or exit finds its parent waiting. *)
ReapedByAParent ==
  [][\A b \in Free' \ Free :
       /\ reported'.value = pid[b]
       /\ reported'.to \notin Free'
       /\ b \in Elements(children[reported'.to]) \ Elements(children'[reported'.to])]_vars

\* How many turns may still come before the turn of b.
Rank(b) == IndexIn(ready_list, b) + Len(timer_list)

(* No starvation by sleepers, though those that wake up jump to the front of
   the ready list: no step moves a ready process further from its turn, every
   sleeping process counted in, and a timer interrupt that does not give it the
   turn brings it nearer. *)
TurnComesNearer ==
  [][\A b \in Elements(ready_list) :
       b \in Elements(ready_list') /\ mode' = "Up" =>
         /\ Rank(b)' <= Rank(b)
         /\ timerInterrupt => Rank(b)' < Rank(b)]_vars

(* A timer interrupt serves every timer that has elapsed by then, not only the
   first, and none before its time. *)
TickWakesElapsed ==
  [][timerInterrupt /\ mode' # "NullDereference" =>
       Asleep' = {timer_list[i].pcb : i \in
                    {j \in 1 .. Len(timer_list) : timer_list[j].left > 1}}]_vars

(* A ready process runs, unless the system goes down. *)
ReadyRuns ==
  \A b \in Blocks :
    b \in Elements(ready_list) /\ mode = "Up" ~> running = b \/ mode # "Up"

(* A sleeper is woken, unless the system goes down. *)
SleepersWake ==
  \A b \in Blocks : b \in Asleep /\ mode = "Up" ~> b \notin Asleep \/ mode # "Up"

(* With an idle process that never blocks, and programs that keep to the habits
   of disastrOS_test.c, no handler ever dereferences a null pointer and there is
   always a process to run. *)
NeverStuck == mode \in {"Up", "Shutdown"} /\ running # NULL
=============================================================================
