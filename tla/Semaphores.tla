----------------------------- MODULE Semaphores -----------------------------
(***************************************************************************)
(* The semaphores of disastrOS over its process table: semopen.c,          *)
(* semclose.c, semwait.c and sempost.c with semaphore.c and                *)
(* semdescriptor.c.  A semaphore is in semaphores_list exactly when it is  *)
(* not in its pool; ids in the list are unique, so its order is never      *)
(* observed.  SemDescriptor and SemDescriptorPtr blocks are taken and      *)
(* released in pairs from pools of one size, so a pair is one block here.  *)
(* The fields of a released block that are set again before they are read  *)
(* are cleared here: all but waiting_descriptors.                          *)
(***************************************************************************)
EXTENDS Scheduler

CONSTANTS
  MAX_NUM_SEMAPHORES, MAX_NUM_SEMDESCRIPTORS_PER_PROCESS,
  SemIds,     \* first argument of semOpen
  SemFlags,   \* second argument of semOpen: sets of flags
  SemCounts,  \* third argument of semOpen
  MaxCount    \* bound: no semPost beyond this count

ASSUME SemaphoresAssumption ==
  /\ MAX_NUM_SEMAPHORES \in Nat
  /\ MAX_NUM_SEMDESCRIPTORS_PER_PROCESS \in Nat
  /\ SemIds \cup SemCounts \cup {MaxCount} \subseteq Int
  /\ SemFlags \subseteq SUBSET {"CREATE", "EXCL"}

VARIABLES
  sem_free,         \* free Semaphore blocks, the next one to hand out first
  sem_id, count,    \* fields of each Semaphore block
  users,            \* sem->descriptors: those that do not wait
  waiters,          \* sem->waiting_descriptors, in list order
  sem_descriptors, last_sem_fd,  \* fields of each PCB
  sem_des,          \* pcb, semaphore and fd of each descriptor block
  sem_des_free      \* free descriptor blocks

semaphore == <<sem_free, sem_id, count>>
semopened == <<users, waiters, sem_descriptors, last_sem_fd, sem_des, sem_des_free>>
processes == <<pools, table, init_pcb, zombie_list, timer_list, abandoned>>
sem_vars  == <<vars, semaphore, semopened>>

Semaphores == 1 .. MAX_NUM_SEMAPHORES
SemDescriptors == 1 .. MAX_NUM_PROCESSES
semaphores_list == Semaphores \ Elements(sem_free)
Unset == [pcb |-> NULL, semaphore |-> NULL, fd |-> 0]
DSOS_ESEMAPHOREOPEN == -14
DSOS_ESEMAPHORECLOSE == -15
DSOS_ESEMAPHOREPOST == -16
DSOS_ESEMAPHOREWAIT == -17

SemInit ==
  /\ Init
  /\ sem_free = [i \in Semaphores |-> i]
  /\ sem_id = [s \in Semaphores |-> 0]
  /\ count = [s \in Semaphores |-> 0]
  /\ users = [s \in Semaphores |-> {}]
  /\ waiters = [s \in Semaphores |-> <<>>]
  /\ sem_descriptors = [b \in Blocks |-> <<>>]
  /\ last_sem_fd = [b \in Blocks |-> 0]
  /\ sem_des = [d \in SemDescriptors |-> Unset]
  /\ sem_des_free = SemDescriptors

-----------------------------------------------------------------------------
\* Slips the properties must catch: semPost forgets to take the process it wakes
\* off the waiting list, or tests the count before it adds one (count++ > 0), so
\* that the token goes to nobody; the semaphore is destroyed one descriptor too soon, or the test for that comes before the
\* descriptor is detached.
WaitingListKept(b) == waiting_list

PositiveBefore(s) == count[s] > 0

NobodyUsedBefore(s, d) == users[s] = {}

OneUserLeft(s, d) == \E e \in users[s] : users[s] \subseteq {d, e}

-----------------------------------------------------------------------------
SemaphoreList_byId(i) ==
  LET hits == {s \in semaphores_list : sem_id[s] = i}
  IN  IF hits = {} THEN NULL ELSE CHOOSE s \in hits : TRUE

\* The descriptor a call of the running process finds for fd: the first in its
\* list, NULL if there is none or fd is out of bounds.
SemDescriptorList_byFd(fd) ==
  LET mine == sem_descriptors[running]
      hits == {k \in 1 .. Len(mine) : sem_des[mine[k]].fd = fd}
  IN  IF hits = {} \/ fd < 0 \/ fd > MAX_NUM_SEMDESCRIPTORS_PER_PROCESS
        THEN NULL
        ELSE mine[CHOOSE k \in hits : \A l \in hits : k <= l]

Answers(value) == reported' = [to |-> running, value |-> value]

\* The call leaves the process table alone but for its answer.
ReturnsSem(value) ==
  /\ Answers(value)
  /\ UNCHANGED <<processes, running, ready_list, waiting_list, mode>>

FailsSem(code) == ReturnsSem(code) /\ UNCHANGED <<semaphore, semopened>>

CallsSem == CallsOther /\ IdleStarted

-----------------------------------------------------------------------------
(* semOpen: the test for a negative count is made on an unsigned number *)

SemOpenRefused(i, s, flags) ==
  \/ last_sem_fd[running] + 1 > MAX_NUM_SEMDESCRIPTORS_PER_PROCESS
  \/ i < 0
  \/ s # NULL /\ {"CREATE", "EXCL"} \subseteq flags
  \/ s = NULL /\ ("CREATE" \notin flags \/ sem_free = <<>>)

\* The descriptor of running for s, whose users so far are given; a semaphore
\* just created stays when there is no block.  Which block the pool hands out is
\* never observed: it is the smallest.
OpenSemDescriptor(s, before) ==
  \/ /\ sem_des_free = {}
     /\ ReturnsSem(DSOS_ESEMAPHOREOPEN)
     /\ users' = [users EXCEPT ![s] = before]
     /\ UNCHANGED <<sem_descriptors, last_sem_fd, sem_des, sem_des_free>>
  \/ \E d \in sem_des_free :
       /\ \A e \in sem_des_free : d <= e
       /\ sem_des_free' = sem_des_free \ {d}
       /\ sem_des' = [sem_des EXCEPT ![d] =
                        [pcb |-> running, semaphore |-> s, fd |-> last_sem_fd[running]]]
       /\ sem_descriptors' = [sem_descriptors EXCEPT ![running] = Append(@, d)]
       /\ users' = [users EXCEPT ![s] = before \cup {d}]
       /\ last_sem_fd' = [last_sem_fd EXCEPT ![running] = @ + 1]
       /\ ReturnsSem(last_sem_fd[running])

\* waiting_descriptors keeps what the last user of the block left in it.
Semaphore_alloc(i, c) ==
  /\ sem_free' = Tail(sem_free)
  /\ sem_id' = [sem_id EXCEPT ![Head(sem_free)] = i]
  /\ count' = [count EXCEPT ![Head(sem_free)] = c]

internal_semOpen(i, flags, c) ==
  LET s == SemaphoreList_byId(i) IN
  /\ CallsSem
  /\ \/ /\ SemOpenRefused(i, s, flags)
        /\ FailsSem(DSOS_ESEMAPHOREOPEN)
     \/ /\ ~SemOpenRefused(i, s, flags) /\ s # NULL
        /\ OpenSemDescriptor(s, users[s])
        /\ UNCHANGED <<semaphore, waiters>>
     \/ /\ ~SemOpenRefused(i, s, flags) /\ s = NULL
        /\ Semaphore_alloc(i, c)
        /\ OpenSemDescriptor(Head(sem_free), {})
        /\ UNCHANGED waiters

-----------------------------------------------------------------------------
(* semClose *)

\* With d closed nobody uses s; those who wait do not count.
NobodyUses(s, d) == users[s] \subseteq {d}

Semaphore_free(s) ==
  /\ sem_free' = <<s>> \o sem_free
  /\ sem_id' = [sem_id EXCEPT ![s] = 0]
  /\ count' = [count EXCEPT ![s] = 0]

internal_semClose(fd) ==
  LET d == SemDescriptorList_byFd(fd)
      s == sem_des[d].semaphore
  IN
  /\ CallsSem
  /\ \/ d = NULL /\ FailsSem(DSOS_ESEMAPHORECLOSE)
     \/ /\ d # NULL
        /\ sem_descriptors' =
             [sem_descriptors EXCEPT ![running] = DetachAt(@, IndexIn(@, d))]
        /\ users' = [users EXCEPT ![s] = @ \ {d}]
        /\ sem_des_free' = sem_des_free \cup {d}
        /\ last_sem_fd' = [last_sem_fd EXCEPT ![running] = @ - 1]
        /\ sem_des' = [sem_des EXCEPT ![d] = Unset]
        /\ IF NobodyUses(s, d) THEN Semaphore_free(s) ELSE UNCHANGED semaphore
        /\ ReturnsSem(0)
        /\ UNCHANGED waiters

-----------------------------------------------------------------------------
(* semWait *)

Available(s) == count[s] > 0

\* sem->descriptors once d has been moved to waiting_descriptors
NoLongerUser(s, d) == users[s] \ {d}

\* The status of the process that blocks, and of the one that runs, stay as they
\* are; the first of the ready list is taken without a test.
SemBlocks(s, d) ==
  /\ users' = [users EXCEPT ![s] = NoLongerUser(s, d)]
  /\ waiters' = [waiters EXCEPT ![s] = Append(@, d)]
  /\ waiting_list' = waiting_list \cup {running}
  /\ ready_list' = ReadyListRest
  /\ Resume(Head(ready_list))
  /\ reported' = NoReport
  /\ UNCHANGED <<processes, semaphore, sem_descriptors, last_sem_fd, sem_des,
                 sem_des_free>>

internal_semWait(fd) ==
  LET d == SemDescriptorList_byFd(fd)
      s == sem_des[d].semaphore
  IN
  /\ Calls /\ IdleStarted
  /\ \/ d = NULL /\ CallsSem /\ FailsSem(DSOS_ESEMAPHOREWAIT)
     \/ /\ d # NULL /\ Available(s)
        /\ CallsSem
        /\ count' = [count EXCEPT ![s] = @ - 1]
        /\ ReturnsSem(0)
        /\ UNCHANGED <<sem_free, sem_id, semopened>>
     \/ /\ d # NULL /\ ~Available(s) /\ ready_list # <<>>
        /\ CallsSem
        /\ SemBlocks(s, d)
     \/ /\ d # NULL /\ ~Available(s) /\ ready_list = <<>>
        /\ Crash("NullDereference")
        /\ UNCHANGED <<semaphore, semopened>>

-----------------------------------------------------------------------------
(* semPost *)

\* ++sem->count > 0
Positive(s) == count[s] + 1 > 0

WaitingListWithout(b) == waiting_list \ {b}

\* The token goes to the first waiter: neither its answer nor that of the poster
\* is stored, and its status is not set.
SemWakes(s) ==
  LET w == Head(waiters[s]) IN
  /\ waiters' = [waiters EXCEPT ![s] = DetachAt(@, IndexIn(@, w))]
  /\ users' = [users EXCEPT ![s] = @ \cup {w}]
  /\ waiting_list' = WaitingListWithout(sem_des[w].pcb)
  /\ ready_list' = Append(ready_list, sem_des[w].pcb)
  /\ reported' = NoReport
  /\ UNCHANGED <<processes, running, mode, semaphore, sem_descriptors,
                 last_sem_fd, sem_des, sem_des_free>>

internal_semPost(fd) ==
  LET d == SemDescriptorList_byFd(fd)
      s == sem_des[d].semaphore
  IN
  /\ CallsSem
  /\ \/ d = NULL /\ FailsSem(DSOS_ESEMAPHOREPOST)
     \/ d # NULL /\ Positive(s) /\ waiters[s] # <<>> /\ SemWakes(s)
     \/ /\ d # NULL /\ ~(Positive(s) /\ waiters[s] # <<>>)
        /\ count[s] < MaxCount
        /\ count' = [count EXCEPT ![s] = @ + 1]
        /\ ReturnsSem(0)
        /\ UNCHANGED <<sem_free, sem_id, semopened>>

-----------------------------------------------------------------------------
\* What a handler of the process table does to the semaphores: PCB_alloc resets
\* last_sem_fd and not sem_descriptors, so a new process finds those of the last
\* one in its block.
SemaphoresKept ==
  /\ last_sem_fd' = [b \in Blocks |->
                       IF b \in Elements(pcb_free) \ Elements(pcb_free')
                         THEN 0 ELSE last_sem_fd[b]]
  /\ UNCHANGED <<semaphore, users, waiters, sem_descriptors, sem_des, sem_des_free>>

KernelStep == Next /\ SemaphoresKept

SemFds == -1 .. MAX_NUM_SEMDESCRIPTORS_PER_PROCESS

SemNext ==
  \/ KernelStep
  \/ \E i \in SemIds, flags \in SemFlags, c \in SemCounts :
       internal_semOpen(i, flags, c)
  \/ \E fd \in SemFds : internal_semClose(fd)
  \/ \E fd \in SemFds : internal_semWait(fd)
  \/ \E fd \in SemFds : internal_semPost(fd)

SemSpec == SemInit /\ [][SemNext]_sem_vars
-----------------------------------------------------------------------------
(* Properties *)

Waiting(s) == Elements(waiters[s])
AllWaiting == UNION {Waiting(s) : s \in Semaphores}
SemBlocked == {sem_des[d].pcb : d \in AllWaiting}

(* A blocked process waits for one thing: a timer, a child, or a semaphore, and
   through one descriptor of its own.  The three ways to wake up (schedule, exit
   and semPost) all take a process off waiting_list without a look at why it is
   there: schedule goes by its timer, semPost by its descriptor, exit by its
   last system call and its status, which semWait leaves at Running or Ready. *)
WaitsForOneThing ==
  /\ Asleep \cup SemBlocked \subseteq waiting_list
  /\ Asleep \cap SemBlocked = {}
  /\ \A d, e \in AllWaiting : sem_des[d].pcb = sem_des[e].pcb => d = e
  /\ \A b \in waiting_list :
       IF b \in SemBlocked
         THEN awaited[b] = NotWaiting /\ status[b] \in {"Running", "Ready"}
       ELSE status[b] = "Waiting" /\ (b \in Asleep <=> awaited[b] = NotWaiting)

(* Descriptors and semaphores agree, whatever opens, closes, waits, deaths and
   re-used blocks come together: a descriptor in the list of a process is its
   own, is allocated, is in no other list, and is either a user of a live
   semaphore or waits on one; nothing else is a user or waits, and a semaphore
   in the pool has no user. *)
SemDescriptorsAgree ==
  /\ \A b \in Blocks :
       /\ Distinct(sem_descriptors[b])
       /\ \A d \in Elements(sem_descriptors[b]) :
            LET s == sem_des[d].semaphore IN
            /\ sem_des[d].pcb = b
            /\ d \notin sem_des_free
            /\ \/ d \in users[s] /\ s \in semaphores_list /\ d \notin AllWaiting
               \/ d \notin users[s] /\ d \in Waiting(s)
  /\ \A s \in Semaphores :
       /\ \A d \in users[s] \cup Waiting(s) :
            /\ sem_des[d].semaphore = s
            /\ d \in Elements(sem_descriptors[sem_des[d].pcb])
       /\ Distinct(waiters[s])
  /\ \A s \in Elements(sem_free) : users[s] = {}

\* A call of semPost that finds a descriptor of the caller for s.
Posts(s) == \E fd \in SemFds :
  /\ internal_semPost(fd)
  /\ SemDescriptorList_byFd(fd) # NULL
  /\ sem_des[SemDescriptorList_byFd(fd)].semaphore = s

(* Waiters are served in the order in which they came, one for each post, and a
   token given to a waiter cannot be taken by anybody else.  A post that finds
   waiters and a count that is not negative makes the first of them, and only
   it, ready and leaves the count alone; a post that finds nobody, or a negative
   count (semopen.c lets one in), adds one to the count and wakes nobody.  No
   other step changes who waits, but for a caller of semWait who joins at the
   end, and only while there is no token. *)
TokensHandedOver ==
  [][\A s \in Semaphores :
       IF Posts(s)
         THEN IF waiters[s] # <<>> /\ count[s] >= 0
                THEN /\ waiters'[s] = Tail(waiters[s])
                     /\ waiting_list \ waiting_list' = {sem_des[Head(waiters[s])].pcb}
                     /\ count' = count
              ELSE waiters'[s] = waiters[s] /\ count'[s] = count[s] + 1
       ELSE waiters'[s] = waiters[s] \/
            \E d \in users[s] :
              /\ waiters'[s] = Append(waiters[s], d)
              /\ sem_des[d].pcb = running
              /\ waiting_list' \ waiting_list = {running}
              /\ count[s] <= 0]_sem_vars

-----------------------------------------------------------------------------
(* What a comment of the code says, and the handlers do not do *)

(* semclose.c: "if noone is using the semaphore anymore, semaphore can be
   destroyed": a semaphore that was given back to its pool has no waiter. *)
DestroyedWhenUnused == \A s \in Elements(sem_free) : waiters[s] = <<>>
=============================================================================
