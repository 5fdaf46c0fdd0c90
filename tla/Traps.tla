-------------------------------- MODULE Traps --------------------------------
(***************************************************************************)
(* Contexts, stacks and the signal mask of disastrOS.c: how a system call  *)
(* reaches its handler, how SIGALRM reaches timerInterrupt, and how both   *)
(* get back to a process.  The other modules take a handler to be one step *)
(* of the running process; this one looks inside.                          *)
(*                                                                         *)
(* A handler is reduced to what it does to contexts: it leaves running     *)
(* alone, picks another process (which one is up to the lists of module    *)
(* Scheduler, here any), creates one, ends the caller, finds nobody to     *)
(* run, or shuts down.  A thread is a process or Main, the stack on which  *)
(* disastrOS_start runs.  getcontext, setcontext, swapcontext and the      *)
(* delivery of a signal are taken to be atomic.                            *)
(***************************************************************************)
EXTENDS Integers, Sequences

CONSTANTS
  MAX_NUM_PROCESSES,
  DSOS_MAX_SYSCALLS,
  Implemented,        \* the numbers that have a handler
  Numbers, Arguments  \* what processes pass to disastrOS_syscall

ASSUME TrapsAssumption ==
  /\ MAX_NUM_PROCESSES \in Nat \ {0}
  /\ DSOS_MAX_SYSCALLS \in Nat
  /\ Implemented \subseteq 0 .. DSOS_MAX_SYSCALLS - 1
  /\ Numbers \subseteq Int \ {DSOS_MAX_SYSCALLS}

VARIABLES
  code,      \* what has the processor: a "thread", or on the system stack
             \* the "trap" or the "interrupt"
  self,      \* the thread that has it, or had it last
  masked,    \* SIGALRM is blocked
  pending,   \* SIGALRM has been sent and not delivered
  running, shutdown_now,
  pc,        \* how far each thread is in disastrOS_syscall or disastrOS_start
  cpu_state, \* the context saved in each PCB
  syscall_num, syscall_args,  \* fields of each PCB
  call,      \* the call each process is making
  executed,  \* the calls that handlers have seen since then
  back,      \* main_context has been resumed
  mode       \* "Up", "Exited", or what went wrong

cpu == <<code, self, masked, pending>>
pcb == <<cpu_state, syscall_num, syscall_args>>
ghosts == <<call, executed>>
vars == <<cpu, running, shutdown_now, pc, pcb, ghosts, back, mode>>

NULL == 0
Main == -1
Processes == 1 .. MAX_NUM_PROCESSES
Threads == Processes \cup {Main}
Points == {"user", "args", "number", "return", "top", "allocated", "made", "timed"}

\* A saved context: the thread on whose stack it is, where that goes on, and the
\* signal mask it goes on with.
Context(t, at, mask) == [stack |-> t, at |-> at, masked |-> mask]

\* A block without a process; a context that has been resumed, so that its
\* frames are gone; the same in a process whose function has returned.
Unset == Context(NULL, "user", FALSE)
Stale == Context(NULL, "return", FALSE)
Abandoned == Context(NULL, "top", FALSE)
Contexts ==
  [stack : Threads, at : Points, masked : BOOLEAN] \cup {Unset, Stale, Abandoned}

NoCall == [num |-> 0, arg |-> 0]
Live == {p \in Processes : cpu_state[p] # Unset}

\* Those that a list of the scheduler may hold.
Listed == {p \in Live \ {running} : cpu_state[p] # Abandoned}

\* disastrOS_start when everything is initialised and running is null
Init ==
  /\ code = "thread" /\ self = Main
  /\ masked = FALSE /\ pending = FALSE
  /\ running = NULL /\ shutdown_now = FALSE
  /\ pc = [t \in Threads |-> IF t = Main THEN "top" ELSE "user"]
  /\ cpu_state = [p \in Processes |-> Unset]
  /\ syscall_num = [p \in Processes |-> 0]
  /\ syscall_args = [p \in Processes |-> 0]
  /\ call = [p \in Processes |-> NoCall]
  /\ executed = [p \in Processes |-> <<>>]
  /\ back = FALSE /\ mode = "Up"

-----------------------------------------------------------------------------
\* Slips the properties must catch: the trap, or a new process, runs with the
\* mask of whoever made its context; the tick does not save the context it
\* interrupts; the arguments of a call have one place for all processes.
TrapMaskOfStart == FALSE

NewProcessMaskOfTrap == masked

NotSaved == cpu_state

OneArgumentBuffer(arg) == [p \in Processes |-> arg]

-----------------------------------------------------------------------------
\* trap_context, interrupt_context and the context of a new process
TrapMask == TRUE
InterruptMask == FALSE
NewProcessMask == FALSE

Breaks(fault) ==
  /\ mode' = fault
  /\ UNCHANGED <<cpu, running, shutdown_now, pc, pcb, ghosts, back>>

\* setcontext to what the PCB of p holds, saved being the contexts by then.
Resume(p, saved) ==
  LET c == saved[p] IN
  /\ running' = p
  /\ IF c.stack = NULL
       THEN mode' = "LostContext" /\ cpu_state' = saved /\ UNCHANGED <<cpu, pc>>
       ELSE /\ code' = "thread" /\ self' = c.stack /\ masked' = c.masked
            /\ pc' = [pc EXCEPT ![c.stack] = c.at]
            /\ cpu_state' = [saved EXCEPT ![p] = Stale]
            /\ UNCHANGED <<pending, mode>>

\* main_context: disastrOS_start goes on from its getcontext, on a stack that
\* nothing saved before can use any more.
ResumeMain(saved) ==
  /\ code' = "thread" /\ self' = Main /\ masked' = FALSE
  /\ pc' = [pc EXCEPT ![Main] = "top"]
  /\ cpu_state' = [p \in Processes |->
                     IF saved[p].stack = Main THEN Stale ELSE saved[p]]
  /\ back' = TRUE
  /\ UNCHANGED <<pending, mode>>

-----------------------------------------------------------------------------
(* The timer *)

\* setupSignals starts it before the log is opened and the first process runs.
TimerRuns == pc[Main] = "timed" \/ back

Expire ==
  /\ mode = "Up" /\ ~pending /\ TimerRuns
  /\ pending' = TRUE
  /\ UNCHANGED <<code, self, masked, running, shutdown_now, pc, pcb, ghosts, back, mode>>

\* swapcontext saves the interrupted thread where running points.
SavedByTick == [cpu_state EXCEPT ![running] = Context(self, pc[self], masked)]

\* SIGALRM is delivered.  On the system stack the context of the interrupt or of
\* the trap would be saved as that of a process, and its frames overwritten.
timerHandler ==
  /\ mode = "Up" /\ pending /\ ~masked
  /\ \/ running = NULL /\ Breaks("NullDereference")
     \/ running # NULL /\ code # "thread" /\ Breaks("Overrun")
     \/ /\ running # NULL /\ code = "thread"
        /\ cpu_state' = SavedByTick
        /\ code' = "interrupt"
        /\ masked' = InterruptMask
        /\ pending' = FALSE
        /\ UNCHANGED <<self, running, shutdown_now, pc, syscall_num, syscall_args,
                       ghosts, back, mode>>

timerInterrupt ==
  /\ mode = "Up" /\ code = "interrupt"
  /\ \E next \in Listed \cup {running} : Resume(next, cpu_state)
  /\ UNCHANGED <<shutdown_now, syscall_num, syscall_args, ghosts, back>>

-----------------------------------------------------------------------------
(* disastrOS_syscall *)

At(point) == mode = "Up" /\ code = "thread" /\ self \in Processes /\ pc[self] = point

GoOn(point) == pc' = [pc EXCEPT ![self] = point]

OutOfRange(n) == n < 0 \/ n > DSOS_MAX_SYSCALLS

ArgumentsStored(arg) == [syscall_args EXCEPT ![running] = arg]

\* A number out of range is answered on the spot.
StoreArguments(n, arg) ==
  /\ At("user")
  /\ ~OutOfRange(n)
  /\ GoOn("args")
  /\ syscall_args' = ArgumentsStored(arg)
  /\ call' = [call EXCEPT ![self] = [num |-> n, arg |-> arg]]
  /\ UNCHANGED <<cpu, running, shutdown_now, cpu_state, syscall_num, executed, back, mode>>

StoreNumber ==
  /\ At("args")
  /\ GoOn("number")
  /\ syscall_num' = [syscall_num EXCEPT ![running] = call[self].num]
  /\ UNCHANGED <<cpu, running, shutdown_now, cpu_state, syscall_args, ghosts, back, mode>>

SwapToTrap ==
  /\ At("number")
  /\ cpu_state' = [cpu_state EXCEPT ![running] = Context(self, "return", masked)]
  /\ code' = "trap"
  /\ masked' = TrapMask
  /\ UNCHANGED <<self, pending, running, shutdown_now, pc, syscall_num, syscall_args,
                 ghosts, back, mode>>

ReturnFromCall ==
  /\ At("return")
  /\ GoOn("user")
  /\ call' = [call EXCEPT ![self] = NoCall]
  /\ executed' = [executed EXCEPT ![self] = <<>>]
  /\ UNCHANGED <<cpu, running, shutdown_now, pcb, back, mode>>

-----------------------------------------------------------------------------
(* disastrOS_trap *)

Executes ==
  executed' = [executed EXCEPT ![running] =
                 Append(@, [num |-> syscall_num[running], arg |-> syscall_args[running]])]

Switch(saved) == \E next \in Listed : Resume(next, saved)

Spawn ==
  \E new \in Processes \ Live :
    Resume(running, [cpu_state EXCEPT ![new] = Context(new, "user", NewProcessMask)])

\* The handlers that hand the processor to a process; without a handler for the
\* number the caller just goes on.
CallReturns ==
  /\ Executes
  /\ \/ Resume(running, cpu_state)
     \/ syscall_num[running] \in Implemented /\ (Switch(cpu_state) \/ Spawn)
  /\ UNCHANGED <<shutdown_now, call, back>>

\* The caller ends; its block goes back to the pool, at the latest when it is
\* reaped.
CallExits ==
  /\ syscall_num[running] \in Implemented
  /\ Switch([cpu_state EXCEPT ![running] = Unset])
  /\ call' = [call EXCEPT ![running] = NoCall]
  /\ executed' = [executed EXCEPT ![running] = <<>>]
  /\ UNCHANGED <<shutdown_now, back>>

\* Nobody is left to run, and the trap returns to its uc_link, or internal_shutdown
\* goes to main_context itself.
CallEndsInMain ==
  /\ syscall_num[running] \in Implemented
  /\ Executes
  /\ ResumeMain(cpu_state)
  /\ \/ running' = NULL /\ UNCHANGED shutdown_now
     \/ shutdown_now' = TRUE /\ UNCHANGED running
  /\ UNCHANGED call

disastrOS_trap ==
  /\ mode = "Up" /\ code = "trap"
  /\ CallReturns \/ CallExits \/ CallEndsInMain
  /\ UNCHANGED <<syscall_num, syscall_args>>

\* The function of a process returns to its uc_link.
FunctionReturns ==
  /\ At("user")
  /\ ResumeMain([cpu_state EXCEPT ![running] = Abandoned])
  /\ UNCHANGED <<running, shutdown_now, syscall_num, syscall_args, ghosts>>

-----------------------------------------------------------------------------
(* disastrOS_start from its getcontext on *)

Starting(point) == mode = "Up" /\ code = "thread" /\ self = Main /\ pc[Main] = point

\* PCB_alloc; its answer is used unchecked.
StartAlloc ==
  /\ Starting("top")
  /\ \/ shutdown_now /\ Breaks("Exited")
     \/ ~shutdown_now /\ Live = Processes /\ Breaks("NullDereference")
     \/ /\ ~shutdown_now
        /\ \E new \in Processes \ Live :
             /\ running' = new
             /\ cpu_state' = [cpu_state EXCEPT ![new] = Stale]
        /\ GoOn("allocated")
        /\ UNCHANGED <<cpu, shutdown_now, syscall_num, syscall_args, ghosts, back, mode>>

\* getcontext and makecontext
StartMake ==
  /\ Starting("allocated")
  /\ cpu_state' = [cpu_state EXCEPT ![running] = Context(running, "user", masked)]
  /\ GoOn("made")
  /\ UNCHANGED <<cpu, running, shutdown_now, syscall_num, syscall_args, ghosts, back, mode>>

\* setupSignals
StartTimer ==
  /\ Starting("made")
  /\ GoOn("timed")
  /\ UNCHANGED <<cpu, running, shutdown_now, pcb, ghosts, back, mode>>

\* The log is opened, and setcontext to the first process: not as it was made, if
\* a tick has come since the timer runs.
StartFirst ==
  /\ Starting("timed")
  /\ Resume(running, cpu_state)
  /\ UNCHANGED <<shutdown_now, syscall_num, syscall_args, ghosts, back>>

disastrOS_start == StartAlloc \/ StartMake \/ StartTimer \/ StartFirst

disastrOS_syscall ==
  \/ \E n \in Numbers, arg \in Arguments : StoreArguments(n, arg)
  \/ StoreNumber \/ SwapToTrap \/ ReturnFromCall

Next ==
  \/ Expire \/ timerHandler \/ timerInterrupt
  \/ disastrOS_syscall \/ disastrOS_trap \/ FunctionReturns
  \/ disastrOS_start

\* The processor does not stop in the middle of the system or of a call, and a
\* signal is delivered when it is not blocked.  What a process does between two
\* calls is its own affair: it may never call.
Fairness ==
  /\ SF_vars(timerHandler)
  /\ WF_vars(timerInterrupt \/ disastrOS_trap \/ disastrOS_start
             \/ StoreNumber \/ SwapToTrap \/ ReturnFromCall)

Spec == Init /\ [][Next]_vars /\ Fairness
-----------------------------------------------------------------------------
(* Properties *)

(* The types of the variables. *)
TypeOK ==
  /\ code \in {"thread", "trap", "interrupt"}
  /\ self \in Threads
  /\ {masked, pending, shutdown_now, back} \subseteq BOOLEAN
  /\ running \in Processes \cup {NULL}
  /\ pc \in [Threads -> Points]
  /\ cpu_state \in [Processes -> Contexts]
  /\ syscall_num \in [Processes -> 0 .. DSOS_MAX_SYSCALLS]
  /\ syscall_args \in [Processes -> Arguments \cup {0}]
  /\ mode \in {"Up", "Exited", "NullDereference", "Overrun", "LostContext"}

(* Once a process runs, and wherever ticks strike, the contexts stay apart: a
   process that has the processor is the one running points to, so that what
   disastrOS_syscall and timerHandler write through running is its own, and every
   other process has a context saved that has not been resumed yet, on its own
   stack.  Start-up is not like that: from setupSignals on a tick saves the code
   of disastrOS_start in the PCB of init, and so it is again once main_context
   has been resumed. *)
ContextsApart ==
  mode = "Up" /\ ~back /\ self # Main =>
    /\ code = "thread" => running = self
    /\ \A p \in Live : (code # "thread" \/ p # running) => cpu_state[p].stack = p

(* Where ticks do harm: nothing on the system stack is interrupted but
   timerInterrupt, whose context leaves SIGALRM enabled.  As long as main_context
   is not resumed, running is never null when a tick comes, and the one context
   that can be lost is that of the first process, by a tick between setupSignals
   and the setcontext that ends disastrOS_start. *)
OverrunsOnlyInterrupts ==
  /\ mode = "Overrun" => code = "interrupt"
  /\ mode = "NullDereference" => back
  /\ mode = "LostContext" => back \/ (self = Main /\ pc[Main] = "timed" /\ Live = {running})

(* Each system call is executed once, with its own number and arguments, before
   it returns and not earlier, though both are stored in the PCB with ticks
   enabled and other processes make their calls in between. *)
CalledOnce ==
  mode = "Up" /\ ~back =>
    \A p \in Live :
      /\ (self = p /\ code = "thread" /\ pc[p] \in {"args", "number"}) => executed[p] = <<>>
      /\ (self = p /\ code = "thread" /\ pc[p] = "return") => executed[p] = <<call[p]>>

(* Every tick is delivered: SIGALRM is blocked only for the time of a trap, and
   no process, a new one in particular, runs on with it blocked. *)
TicksDelivered == pending /\ mode = "Up" ~> ~pending \/ mode # "Up"
=============================================================================
