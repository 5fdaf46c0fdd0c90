# disastrOS: a TLA+ verification project

disastrOS is a teaching operating system that runs inside one Unix process. System calls are
traps done with `swapcontext`, the timer interrupt is `SIGALRM`, and every kernel object comes
from a statically sized pool and lives in doubly linked lists. This directory holds TLA+ models
of its core, the TLC configurations that check them, and proofs for TLAPS.

## 1. Inventory

| Part | State it keeps | Operations | Correct when |
|---|---|---|---|
| Pool allocator (`pool_allocator.c`) | `free_list[]`, `first_idx`, `size` | init, getBlock, releaseBlock | the free list is one chain of exactly the free blocks; bad releases are refused without effect |
| Linked list (`linked_list.c`) | `next`/`prev` per item; `first`/`last`/`size` per head | init, insert, detach, find | pointers are the list the callers think of; one item, one list |
| Process table and scheduler (`pcb`, `schedule`, `preempt`, `fork`, `spawn`, `wait`, `exit`, `shutdown`) | PCBs, PCBPtrs, `running`, `init_pcb`, ready, waiting and zombie lists | one handler per call | a PCB is in one place; statuses agree with places; no lost wakeup; no starvation; zombies can be reaped |
| Timers (`timer.c`, `sleep.c`) | sorted `timer_list`, `disastrOS_time` | add, current, removeCurrent; sleep | every elapsed timer is served at the tick, none earlier |
| Traps, interrupt, start-up (`disastrOS.c`) | contexts, signal mask, `log_file` | `disastrOS_syscall`, `timerHandler`, `disastrOS_trap`, `disastrOS_start` | handlers are not interrupted; contexts stay apart; each call is executed once; ticks get through |
| Message queues (`mq`, `mqdescriptor`, `mqopen`, `mqclose`, `mqwrite`, `mqread`, `mqunlink`) | message queues, one queue per priority, messages, descriptors | mqOpen, mqClose, mqWrite, mqRead, mqUnlink | priority order, FIFO in a priority; no message lost; no dangling descriptor |
| Resources (`resource`, `descriptor`, `open/close/destroy_resource`) | resources, descriptors per process | open, close, destroy | no dangling descriptor; one exclusive user; descriptors closed when their process dies |
| Semaphores (`semaphore`, `semdescriptor`, `semopen`, `semclose`, `semwait`, `sempost`) | count, descriptors, waiting descriptors | semOpen, semClose, semWait, semPost | a blocked process waits for one thing; tokens are handed over in order; no waiter is forgotten |
| Test program (`disastrOS_test.c`) | init, idle and child processes, two totals | one test per run | the critical section excludes, `totalOK` counts, the program ends with everything released |
| `semops.c`, printing | none | - | not compiled; output only |

**Interaction.** A process calls `disastrOS_syscall`, which stores number and arguments in `running`
and swaps to the trap context, whose mask blocks `SIGALRM`; the trap calls the handler of the number
and resumes whatever `running` is then. Handlers communicate only through the shared tables: the
PCB fields, the lists and the pools. The timer interrupt (`timerInterrupt`) strikes between two
handlers, advances the time and calls `internal_schedule`. When `running` is null after a handler
the trap returns and `main_context` goes on in the middle of `disastrOS_start`, which makes one
more initial process.

**What is hard.** Every interleaving of handlers of several processes with ticks; the single
`ListItem` of a PCB that three lists share; decisions `exit` takes by fields that other handlers
left behind in the parent's block; re-use of released blocks; pools at their limit (nearly every
allocation is dereferenced unchecked); semaphores destroyed under their waiters and re-used with
them; ticks during a trap, an interrupt or a restart; lists that are linked to one another by mistake; three
different bounds in the loops over priorities. `PROJECT.json` lists the hazards line by line.

## 2. Modules

| Module | Models | State and actions |
|---|---|---|
| `BlockPool` | what a pool promises (abstract) | `free`, `got`, `code`; `Get`, `Release` |
| `PoolAllocator` | `pool_allocator.c` | `free_list`, `first_idx`, `size` as in the struct, plus the answers of the last calls; refines `BlockPool` |
| `ListOps` | sequences used for lists everywhere | `InsertAfter`, `DetachAt`, `IndexIn` |
| `LinkedList` | `linked_list.c` | `List_insert`, `List_detach` as operators from memory to memory |
| `ListClients` | the callers of `linked_list.c` | pointer memory next to the sequences the callers mean |
| `Scheduler` | PCBs, timers, scheduler, `disastrOS_start` | an action per handler, `timerInterrupt`, `AllAsleep`, `FunctionReturns` |
| `Semaphores` (over `Scheduler`) | semaphores and their descriptors | an action per handler, and every step of the process table |
| `Resources` (over `Scheduler`) | resources and their descriptors | an action per handler, and every step of the process table with what it does to descriptors |
| `AtomicCounter` | what the test program promises of `totalOK` (abstract) | `total`, `remaining`; `Count` |
| `TestProgram` (over `Semaphores`) | `disastrOS_test.c` | the steps of init and of the children; refines `AtomicCounter` |
| `Traps` | contexts, stacks, signal mask of `disastrOS.c` | the steps of a system call, a trap, a tick and start-up between which a signal may strike |
| `MessageQueues` (over `LinkedList`) | message queues and their descriptors | an action per handler, and the replacement of a process |
| `PoolAllocatorProofs`, `ListClientsProofs`, `SchedulerProofs`, `ResourcesProofs`, `SemaphoresProofs` (`Semaphores` and `TestProgram`), `TrapsProofs`, `MessageQueuesProofs` | - | theorems; `LinkedListProofs` holds the lemmas on sequences and on `LinkedList` they share |
| `MC*` | - | instances for TLC |

**Pool allocator.** Addresses are integers relative to the buffer, and callers may release any
address of `Offsets`, so that all three refusals happen. `NotEnoughMemory` is left out because each
`XXX_init` asserts that it does not occur.

**Lists.** `ListClients` keeps the contract the `_LIST_DEBUG_` build asserts: insert only items in
no list, detach only members. It also tries items that are still linked to a neighbour, which
`List_insert` refuses. (The only item of a list has two null pointers, so the release build would
accept it; `Placement` in `Scheduler` is what shows that the process table never does that.)

**Scheduler.** A handler is one step because `SIGALRM` is blocked from the swap to the trap context
until the context of the next process is resumed; a tick is a step of its own. (Number and arguments
are stored before that, with ticks enabled; `Traps` shows that it makes no difference. Start-up is one
step here, the initial state; `Traps` has its steps, and what a tick in between does.) PCBs are
numbered blocks, and the free list is kept in order because re-use of a released block is what
stale `parent` pointers are about: released fields keep their values, as the memory does.
Abstractions:

- `waiting_list` and `zombie_list` are sets: the code appends and detaches by pointer and never
  looks at their order.
- Time is relative: a timer holds the ticks that are left; a tick subtracts one from all.
- `awaited` is `syscall_num`/`syscall_args[0]` as far as `exit` reads them: the argument if the
  last call was wait, `NotWaiting` otherwise.
- A fault ends the model: `NullDereference` (unchecked pool result, empty ready list, no parent,
  `running` null), `WildJump` (a forked child is resumed: `fork` never fills in its context),
  `Hang` (init exits with children: each is moved from its list to the same list, forever).
- After the last process has gone to sleep the trap either resumes `main_context`, which makes
  another initial process (`Restart`), or, with a log file open, dereferences the null `running`
  for its log line; `AllAsleep` allows both. Abandoned processes (functions that return) are in
  no list and never released.
- `Disciplined` and `IdlePids` stand for the habits of `disastrOS_test.c`: an idle process
  (`sleeperFunction`) that never calls the kernel and is spawned before any other call; children
  exit explicitly and have no children; init does not exit; nobody forks or spawns from an
  exhausted pool. Runs set them where the property needs them, and say so.
- `WaitPids` are the arguments of wait; one beyond the pids stands for any that names no process.

**Semaphores.** `Semaphores` extends `Scheduler`: semWait and semPost move processes between its
lists. Descriptors are blocks with the fields of the struct; `users` is `sem->descriptors`, `waiters`
is `sem->waiting_descriptors`, in order. What makes the state space interesting is what the code
does *not* do: `exit` closes no descriptor, `PCB_alloc` does not reset `sem_descriptors` (a new
process inherits those of its block, and closing one takes `last_sem_fd` below zero), `Semaphore_alloc`
does not reset `waiting_descriptors`, the count may be negative (a post then only raises it and
wakes nobody, whoever waits), a semaphore is destroyed while processes wait on it. Fields of a released block are kept where something reads them again.

**Resources.** `Resources` extends `Scheduler` too. `KernelStep` adds to each step of the process
table what it does to descriptors: the `exit` that releases the PCB closes them, `PCB_alloc` starts
with none. Modes are the numbers of `constants.h`, since `DSOS_WRITE` (3) contains the bit of
`DSOS_CREATE`. The `exclusive` flag of a descriptor is not in the code; it only serves the property.

**Test program.** `TestProgram` runs init, the sleeper and the children on top of `Semaphores`. The
tests are sequences of steps, one per system call and one per access to `totalOK` or `totalKO`; a tick
may come between any two. The tests are 0 to 6 and 14 (`messageQueueNoClose` opens a semaphore). The
others make message queue calls in sequence; no message queue call blocks or looks at another
process, and the runs of `MessageQueues` cover all orders of such calls. The resources init opens
before each spawn are left out; nothing else here touches resources.

**Traps.** Here a process, the trap, the interrupt and `disastrOS_start` take several steps each,
and a tick may come between them unless the mask forbids it. A saved context is the stack it is on,
the point at which it goes on and its mask; it can be resumed once, after which its frames are gone
(`Stale`). The timer runs from `setupSignals` on (`StartTimer`), before the log is opened and before the
first `setcontext` (`StartFirst`), and for good. A tick between the two finds `running` set and saves the
stack of `disastrOS_start` in the PCB of init, over the context just made; the interrupt resumes it, and `setcontext`
then takes a used context. That is why `ContextsApart` speaks of the time when a process runs, and why
`OverrunsOnlyInterrupts` has that one lost context besides the tick inside `timerInterrupt`. Handlers are reduced to which process is resumed; any process may be. Calls are a number
and one argument; one that has no handler takes the first way of `CallReturns`. Entering the handler of the
signal and saving the context is one step, for the signal is blocked in between, and so is resuming
that handler and returning from it. Assumed of the C library: `swapcontext` and `setcontext` are not
interrupted half way. POSIX does not promise it, and an implementation that saves the registers first
and sets the mask afterwards leaves a window in `disastrOS_syscall` in which a tick would make the
call run twice, and one that sets the mask first leaves a window at the end of the trap in which a
pending tick would be taken on the system stack.

**Message queues.** `messageQueues_list` and `mq->queues` are real pointers (module `LinkedList`),
because `mqopen.c` inserts into one of them behind an item of the other, and what happens then is
decided by the pointers. Lists of messages and of descriptors are sequences and sets: their callers
keep the contract of `ListClients`. A message is a stamp and a length. `MQDescriptor` and
`MQDescriptorPtr` blocks come and go in pairs from pools of one size and are one block. A call that
runs into a `Queue` while it walks `messageQueues_list` treats it as a `MessageQueue`: that is
undefined behaviour and ends the model as `TypeConfusion`. `ProcessReplaced` is the death of a
process and the re-use of its PCB: no handler closes its descriptors.

## 3. Runs

Passing runs:

| Run | Instance | Shows |
|---|---|---|
| `pool` | 4 blocks of 3 bytes, every address from one block before to one past the buffer | `TypeOK`, `FreeListIsChain`, and refinement of `BlockPool` |
| `lists` | 2 heads, 4 items | `MemoryIsLists`. Two lists and four items give inserts and removals at the front, in the middle, at the end and of the only item, next to a second list |
| `scheduler` | 3 PCBs for 4 pids, sleeps of 0 and 2 ticks, every argument of wait, undisciplined | `TypeOK`, `Placement`, `StatusAgrees`, `BlockedForAReason`, `TimersSorted`, `ChildrenAreLive`, `ZombiesReapable`, `OwnChildrenWake`, `TurnComesNearer`, `TickWakesElapsed`, `ReapedByAParent` |
| `idle` | 4 PCBs, idle process, disciplined, fair | `NeverStuck`, `ReadyRuns`, `SleepersWake` |
| `messages` | one process, 3 queues, 3 blocks for 4 messages, every flag set | `TypeOK`, `QueuesComplete`, `MessagesCounted`, `HighestOldestFirst` |
| `mq_descriptors` | two processes, two ids, two message queues, symmetric | `DescriptorsAgree` |
| `semaphores` | 3 PCBs for 4 pids, one semaphore, one descriptor each, counts -1 and 1, disciplined, no idle process | `Placement`, `WaitsForOneThing`, `SemDescriptorsAgree`, `TokensHandedOver` (a post wakes the first waiter if the count is not negative, and adds one to the count otherwise) |
| `resources` | 2 PCBs for 4 pids, one resource block, two ids, two types, every mode, undisciplined | `ResDescriptorsAgree`, `OneExclusiveUser`, `OnlyZombiesLeakDescriptors` |
| `test_program` | init, sleeper, 2 children, each of the 8 tests, fair | `MutualExclusion`, `NoIdleTokens`, `WaitsForOneThing`, `CleanShutdown`, `CountsAtomically` (refinement), `Terminates` |
| `traps` | 3 processes, an invalid and a valid number, 2 arguments, fair | `ContextsApart`, `OverrunsOnlyInterrupts`, `CalledOnce`, `TicksDelivered` |

Why the bounds are enough: with three PCBs there are a grandparent, a parent and a child, and one
of them is re-used, by the fourth pid, while another still points at it (a stale
`parent`). Sleeping 0 ticks (served by the next `schedule`) and 2 ticks gives equal, nested and crossing
timers. Three message blocks and four writes refill the pool once; an open priority of 3 asks for
more queues than there are (the half-made creation), one of 2 fits exactly. In `messages` readers
offer buffers as large as the largest message and there is one id, because with a short buffer
(`mqread.c:82`, below) or a second message queue (`two_mqs`) the properties do not hold.

Three processes on one semaphore give two waiters, whose order matters, and a poster; a fourth pid
inherits a block with its descriptors. Sleeping is left to `test_program`, where processes sleep
inside the critical section while others wait for it. Two children there are one in the critical
section and one in front of it; with three the state space (above a million states) is out of
reach of a five-minute run with liveness, and the order of several waiters is what `semaphores` checks.
One resource block makes its re-use under another id, and the crash of an exhausted pool, frequent;
two descriptor blocks suffice for two users. Three processes in `traps`: one that runs, one that is
preempted in the middle of a call and one that is created or ends meanwhile.

`semaphores` and `resources` use a `VIEW` (`Anonymous`): the answer of the last call is dropped, since
nothing reads it, and descriptor blocks are named by who holds them and where, since which free block
the pool hands out is never observed. Both runs check invariants and action properties only.

`CHECK_DEADLOCK FALSE` is set where the system really stops: after shutdown or a fault, and when
the bound on pids or writes is reached. `pool`, `lists`, `messages` and `two_mqs` check deadlock.

**Fairness.** `idle`: `WF(timerInterrupt)`, as `setitimer(ITIMER_REAL)` keeps sending `SIGALRM` and it
is unblocked whenever a process runs; `WF(AllAsleep)`, as nothing stops `disastrOS_start` once
`main_context` is resumed. No process is assumed to make any call at all. `test_program`: `WF` of the
tick again, and `SF` of the steps of each process: a process that gets the processor again and again
does its next step in the end, since a turn lasts 100 ms. `traps`: `SF(timerHandler)`, as the host
delivers a pending signal as soon as it is unblocked, and `WF` of the steps inside the kernel and
inside a call; what a process does between two calls is not assumed to end.

**Violation runs.** Each states what a comment or an assertion of the code says, and TLC finds the
behaviour that contradicts it.

| Run | Property | The code says | TLC shows |
|---|---|---|---|
| `two_mqs` | `QueuesComplete` | a queue per priority (`mqopen.c:12`) | the queues of the second message queue go into `messageQueues_list` |
| `sem_close` | `DestroyedWhenUnused` | a semaphore is destroyed "if noone is using the semaphore anymore" (`semclose.c:55`) | descriptors that wait do not count: the semaphore is released under its waiters |

The divergences are the reason some properties above are conditional: `OwnChildrenWake` is about
children a process created itself (`exit.c:40`, below), `OnlyZombiesLeakDescriptors` about the way out of `exit` that
cleans up, `MessagesCounted` about large buffers, `HighestOldestFirst` about the reads that get a
message, `ContextsApart` about the time from the first process to the first return to `main_context`. `SemDescriptorsAgree` lets the semaphore of a waiter be
in the pool; that the tests of the program never get there is `NoIdleTokens`.

Other places where the code differs from its comments, or from what one would expect. The models
follow the code; these have no run of their own:

- `exit.c:40`: a child given to init keeps its `parent` pointer, so its exit does not wake an init
  that is blocked in wait for any child, although `exit.c:10-14` says so (`ParentAwaits`).
- `exit.c:52`: the PCBPtr detached from a waiting parent is never released (`ExitWakesParent`); that
  pool runs out while PCBs are free, and the next spawn dereferences null.
- `disastrOS.c:270`: the timer is started before the log is opened and before "we start the first process"
  (`disastrOS.c:272`); after a tick in between, `setcontext` takes a used context (`StartTimer`, `StartFirst`).
- `disastrOS.c:229`: "we will come back here on shutdown", but also when the last process goes to sleep and
  when a function returns (`CallEndsInMain`, `FunctionReturns`).
- `mqclose.c:61`: the next file descriptor is the number of open ones; after open, open, close of the
  first, open, two descriptors have one number (`OpenDescriptor`).
- `mqread.c:82`: the head of a queue is detached before its length is compared with the buffer; a
  message that does not fit is lost and the answer is 0, though `mqread.c:18-20` promises an error that
  leaves the message queue as it was (`Scanned`).
- `semopen.c:34`: `count < 0` on an unsigned number; a negative count is accepted (`SemOpenRefused`).
- `sempost.c:65`: a process woken by a post, and the poster, return the answer of an earlier call.
- `pcb.h:11`: status `Waiting` is commented "io or semaphore wait"; semWait never sets it.
- `constants.h:76`: `DSOS_WRITE` is 3 and contains `DSOS_CREATE`: opening a resource for writing
  creates it, or fails if it exists (`Creates`).
- `open_resource.c:37`: exclusive opening keeps out nobody who opens without `DSOS_EXCL` later on.
- `open_resource.c:28`: an exhausted pool of resources is linked into the list (`Creating`).

- `wait.c:36`: the test for a pid that is no child is never true (`AwaitedIndex`: without a match it
  is the last child), so the call blocks, or reaps that child.
- `exit.c:74`: resources are released only when the parent is already waiting (`ExitToZombie`).
- `pcb.c:44`: an exhausted PCB pool is dereferenced before `spawn.c:14` can test it (`Create`).
- `mqopen.c:54`: `DSOS_EXCL` without `DSOS_CREATE` opens the message queue (`OpenRefused`).
- `mqwrite.c:82`: a full message queue answers 0, like a write with priority 0 (`internal_mqWrite`).
- `mqread.c:65`: the queue of the lowest priority is written to and never read (`Scanned`).
- `mqread.c:92`: one character is copied whatever the length (contents are not modelled).

## 4. Proofs

Each theorem holds for every value of the constants that satisfies the assumption of the module,
so for any number of processes, blocks, semaphores, children and any arguments of the calls.

| Module | Theorem | Statement |
|---|---|---|
| `PoolAllocator` | `PoolTypeCorrect` | `Spec => []TypeOK` |
| | `PoolFreeListIsChain` | `Spec => []FreeListIsChain` |
| | `PoolImplementsBlockPool` | `Spec => ImplementsBlockPool` |
| `ListClients` | `ListsAreLists` | `Spec => []MemoryIsLists` |
| `Scheduler` | `CoreHolds` | `Spec => []Core`, the inductive invariant |
| | `TypeCorrect` | `Spec => []TypeOK` |
| | `PlacementHolds` | `Spec => []Placement` |
| | `ChildrenLive` | `Spec => []ChildrenAreLive` |
| | `StatusesAgree` | `Spec => []StatusAgrees` |
| | `EveryBlockHasAReason` | `Spec => []BlockedForAReason` |
| | `TimersStaySorted` | `Spec => []TimersSorted` |
| | `NoLostWakeup` | `Spec => []OwnChildrenWake` |
| | `ZombiesStayReapable` | `Spec => []ZombiesReapable` |
| | `ReapedOnce` | `Spec => ReapedByAParent` (action property) |
| | `ElapsedTimersServed` | `Spec => TickWakesElapsed` (action property) |
| | `NoOvertaking` | `Spec => TurnComesNearer` (action property) |
| | `DisciplinedNeverStuck` | `Disciplined`, `IdlePids # {}` imply `Spec => []NeverStuck` |
| `Resources` | `ResInvHolds` | `ResSpec => []ResInv`, the inductive invariant |
| | `ResDescriptorsStayAgreed` | `ResSpec => []ResDescriptorsAgree` |
| | `ExclusiveUseIsExclusive` | `ResSpec => []OneExclusiveUser` |
| | `LeaksOnlyThroughZombies` | `ResSpec => OnlyZombiesLeakDescriptors` (action property) |
| `Semaphores` | `SemInvHolds` | `SemSpec => []SemInv`, the inductive invariant |
| | `SemPlacementHolds` | `SemSpec => []Placement` |
| | `OneReasonToWait` | `SemSpec => []WaitsForOneThing` |
| | `SemDescriptorsStayAgreed` | `SemSpec => []SemDescriptorsAgree` |
| | `TokensAreHandedOver` | `SemSpec => TokensHandedOver` (action property) |
| `TestProgram` | `TestInvHolds` | `TestSpec => []TestInv`, the inductive invariant |
| | `CriticalSectionExcludes` | `TestSpec => []MutualExclusion` |
| | `TokensNeverIdle` | `TestSpec => []NoIdleTokens` |
| | `ProgramWaitsForOneThing` | `TestSpec => []WaitsForOneThing` |
| | `NoUpdateIsLost` | `TestSpec => Counter!CountsOneByOne`: the safety part of the refinement of `AtomicCounter` |
| | `ShutdownIsClean` | `NumChildren > 0` implies `TestSpec => []CleanShutdown` |
| `MessageQueues` | `MQInvHolds` | `Spec => []MQInv`, the inductive invariant |
| | `TypeCorrect` | `Spec => []TypeOK` |
| | `DescriptorsSafe` | `Spec => []DescriptorsAgree` |
| | `NoMessageLost` | `LargeBuffers` implies `Spec => []MessagesCounted` |
| | `OldestOfHighest` | `LargeBuffers` implies `Spec => HighestOldestFirst` (action property) |
| | `OneNameComplete` | `OneName` implies `Spec => []QueuesComplete` |
| `Traps` | `TrapInvHolds` | `Spec => []TrapInv`, the inductive invariant |
| | `ContextsStayApart` | `Spec => []ContextsApart` |
| | `OnlyInterruptsOverrun` | `Spec => []OverrunsOnlyInterrupts` |
| | `CallsExecutedOnce` | `Spec => []CalledOnce` |

*Pool.* For every number and size of blocks and every set of released addresses (`PoolAssumption`:
both numbers are positive, addresses are integers). `TypeOK` alone is not inductive: that `first_idx`
is null or a free block after `getBlock` follows only from the chain, so the invariant is
`TypeOK /\ FreeListIsChain`. The chain is an existential: after `getBlock` the witness is the old
chain without its first element, after `releaseBlock` the old one with the block in front; that
the other links are undisturbed is where distinctness is used. The refinement maps `free` to the
blocks not marked detached; `getBlock` answers null exactly when that set is empty because
`first_idx` is null exactly when the chain is.

*Lists.* For any number of heads and any set of items (`ListAssumption`: items are not null). The
invariant is `TypeOK /\ MemoryIsLists`. The argument has three layers: what `InsertAfter` and
`DetachAt` do to a sequence, index by index; that `List_insert` behind the k-th item, and
`List_detach` of the k-th, yield the pointers of those sequences (`InsertRepresents`,
`DetachRepresents`); that no other list changes, because its items are disjoint from the neighbours
written to (`OtherList`). An item that is linked to a neighbour has a non-null pointer, so a second
insertion changes nothing (`InsertAgainRefused`).

*Scheduler.* `Core` is `TypeOK`, `Placement`, `ChildrenAreLive` and four facts these need:

- `StatusFits`, what a status says of the place of its block. `wait` decides by the status of a
  child whether to reap it and `exit` by that of the parent whether to wake it; without the fact they might detach a block
  from a list it is not in. It is weaker than `StatusAgrees`, for semWait blocks a process without
  setting its status: so `Core` can be used again under `Semaphores`.
- `SleepersApart`: each sleeper has one timer and is not taken by `exit` for a parent in wait;
  otherwise two parties would make it ready.
- `InitLives`: the process that inherits the children of the others has not exited.
- `PtrsCounted`: free PCBPtrs and children together are at most the size of the pool, hence the pool
  never overflows. It is an inequality because `exit.c:52` loses blocks.

The preservation of `Core` has a lemma per handler, after lemmas on what a handler's parts (`PCB_alloc`,
`internal_schedule`, reparenting) do. `StepKinds` then reduces every step to eight kinds, by which the
other invariants are proved: `ReadyAndWaiting` for `StatusAgrees`; `WaitersHaveChildren` for
`BlockedForAReason`; for the zombies and the wakeups `Adopted` (whoever has a parent is in somebody's list),
`ListedByParent` (only initial processes hold children of others, which is why `OwnChildrenWake` speaks
of own children) and `PidsUnique`. `NeverStuck` needs `DisciplinedInv`: in addition no forked process is
about, the idle process is running or ready (`IdleAwake`), and every process but
init stays in the list of the parent that created it (`AtHome`);
the hypotheses are the habits of the test program (section 2).

*Resources.* `ResInv` is `Core`, the types, `Numbered` (a descriptor of a live process has a number
below the next one to be given, so numbers do not repeat), `ResDescriptorsAgree` and `OneExclusiveUser`.
The process table steps are taken from `SchedulerProofs`; what is new is which descriptors each of them closes.

*Semaphores.* `SemInv` is `Core`, the types, `Linked` and `WaitsForOneThing`. `Linked` says of *every* block,
released ones too, that the descriptors in its list name it and are used by, or wait on, the
semaphore they name: a new process inherits the list of its block. `WaitsForOneThing` is needed for
`Placement`: semPost moves the process of the first waiter from the waiting list to the ready list, and
that is a move only if nothing else has woken it. The run `semaphores` has no sleepers; the theorem
covers them.

*Test program.* `TestInv` is `SemInv`, `IdleAwake`, types, and `Numbers`: pids differ,
and children have those from 2 on. In `semaphoreClean` there are also: `Holding`, that a child holds exactly one descriptor from semOpen to
semClose, which gives that semOpen never fails (a descriptor for every process, and nobody holds
two); `OneToken`, that there is one semaphore whose token is with the one child inside or in the
count (what `MutualExclusion` says in both directions: nobody inside, the count is 1), and that no semaphore in the pool has waiters; `Fresh`, that what a child has read of
`totalOK` is still so when it writes. A semClose cannot destroy the semaphore under a waiter,
because who waits does so for a child inside, and that child's descriptor still uses the semaphore. In the
other tests nobody blocks (`NobodyWaits`). The refinement counts the children by their pids.
Assumed (`TestProgramAssumption`): PCBs and pids for all children, a semaphore, a descriptor for every
process, and that the kernel is called with the arguments the program passes.
`CleanShutdown` speaks of one state, but what leads to it are all the steps of all the children; its
invariant is `ProgramInv`, which adds to `TestInv`:
`Census`, that the children about and not yet reaped are as many as `alive_children` says (one more while init
is in wait, for the step that lowers the counter stands before the call), that init is everybody's parent, that who has exited had no step left, and that every child spawned so far
still has a block with its pid, since nothing is reaped before all are spawned; `Named`, that each child holds exactly the descriptors its
variables name after so many steps of its test (`IsOpen`, a table checked against the steps by
`EveryStepUses`), that there is one semaphore at most and it has a user, and that no descriptor is
lost. In the tests that close nothing that is one descriptor for each child and each pid has its child, which is
"exactly one of each child". The shutdown then finds nobody to reap, so every child is at the end of its test, where `IsOpen` says what is left.
`Census` is claimed only while the system is up (`ProgramUp`). A child with two descriptors
of the same number would close the wrong one; that this does not happen (`mqclose` and `semclose` both count the numbers down) needs
the order in which each test closes, hence the last part of `Fitting`. `NumChildren > 0` is needed,
because without a child nobody creates the semaphore that the last conjunct speaks of.

*Message queues.* `MQInv` is `TypeOK` and the existence of the lists the pointers stand for: `S`, what
hangs on `messageQueues_list` (message queues, and the queues `mqopen.c` links in between them), and
`own[mq]`, what hangs on `mq->queues`. Of these it says: the pointers are those of the lists
(`Shape`); an own list that is not empty has a queue for each priority, the highest first (`Ranked`); no block is in
two lists, or in a list and in a pool (`Apart`); the descriptors agree with the processes and with the message queues in
`S` (`Opened`); stamps are unique and increase within a queue (`Stamped`); the counters are the numbers
of messages stored (`Counted`). None of these is inductive alone: closing a message queue releases the messages
of the queues it finds, and that these are all of its own needs `Ranked` and `Apart`; that a write leaves
the other message queues' counts alone needs `Apart`; and all of them need `Shape`, to know what a walk visits.
A walk is a recursive function on pointers; what it visits is obtained from the least number
of steps at which it would leave the list (`LeastNatural`, `RunExists` in `LinkedListProofs`), not by induction.
The invariant makes no restriction on ids or buffers. Two theorems need one, since the
property fails without it, as the code goes (section 3): `LargeBuffers` (no reader's buffer is shorter than `MAX_MESSAGE_LENGTH`)
because `mqread.c:82` drops a message that does not fit, and `OneName` (all processes use the same valid id)
because the queues of a second message queue go into `messageQueues_list`. With `OneName`, `MQInv`
contains `Single`: that list is empty or holds one message queue that has all its queues.

*Traps.* `TrapInv` is: the trap runs masked; the faults are those of `OverrunsOnlyInterrupts`; and until
`main_context` is resumed `Calm`. While the thread is Main, `Calm` says where start-up is: nobody is there yet, or
there is one PCB, whose context is the one made for it (`FirstMade`) or, with the timer running, what
a tick has saved of start-up or that context used up (`FirstStruck`): from there further ticks only do the same again, and `StartFirst` loses the context. Once a process runs,
`running` is the thread on the processor, every other live process has its context on its own stack, and what has been stored and
executed of its call fits the point at which it goes on. The last part makes `CalledOnce` provable: a
tick between storing the arguments and storing the number changes neither.

*Tokens.* `TokensAreHandedOver` comes from `SemInv` and a lemma per call: `PostKeeps` says of a post what it
does to the semaphore it finds and that it touches no other, `BlocksKeeps` that semWait joins at the end, and
the steps of the process table leave the waiters alone.

Where an argument takes the first element of its kind (the first zombie in a children list, the first
timer that has not elapsed) it uses the least natural number with a property, not an induction.

**Model-checked only.**

- Liveness, outside the prover's reach as is `ENABLED`: `ReadyRuns`, `SleepersWake`, `Terminates`,
  `TicksDelivered`, and the fair part of `CountsAtomically`. `TurnComesNearer` and `NeverStuck` are the
  safety facts behind `ReadyRuns`, and they are proved.

## 5. Not modelled

- `semops.c` (not compiled); all printing.
- Ticks inside `swapcontext` and `setcontext` (see **Traps**), and the number 32, which the range
  test of `disastrOS_syscall` lets through and no caller passes.
- The test program's message queue tests (see **Test program**).
- The text of messages: `Message.text` is the writer's pointer (hazard at `mq.c:77`).
- Sleeping for a negative number of ticks: `sleep.c` takes any number unchecked, `SleepTimes` holds natural ones.
- Signals between processes (set, never read), the exit value, the log's content.
- 32-bit overflow of pids, counts and times: far away in any run of the program.

## 6. Plan

1. The text of messages: a read delivers what was written.
2. The message queue tests of the program, over `MessageQueues`.
