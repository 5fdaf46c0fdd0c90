----------------------------- MODULE TrapsProofs -----------------------------
(***************************************************************************)
(* For any number of processes, any system calls and ticks at any time:    *)
(* once a process runs, and until main_context is resumed, contexts stay   *)
(* apart and every call is executed once.  Before that, a tick may cost    *)
(* the first process its context and nothing else.                         *)
(***************************************************************************)
EXTENDS Traps, TLAPS

-----------------------------------------------------------------------------
(* The inductive invariant.  Only its first part outlives the return to
   main_context; back is never reset, so the rest needs no more. *)

\* Whoever is in the trap has SIGALRM blocked.
TrapIsMasked == code \in {"thread", "interrupt"} \/ (code = "trap" /\ masked)

CallRecords == [num : Int, arg : Arguments \cup {0}]

Typed ==
  /\ self \in Threads
  /\ masked \in BOOLEAN
  /\ pc \in [Threads -> Points]
  /\ cpu_state \in [Processes -> Contexts]
  /\ syscall_num \in [Processes -> Int]
  /\ syscall_args \in [Processes -> Arguments \cup {0}]
  /\ call \in [Processes -> CallRecords]
  /\ executed \in [Processes -> Seq(CallRecords)]

\* The first process as disastrOS_start has made it
FirstMade ==
  /\ code = "thread" /\ running \in Processes /\ Live = {running}
  /\ cpu_state[running].stack = running /\ cpu_state[running].at = "user"

\* The same after a tick has saved disastrOS_start in its PCB: what is there is that
\* code, or has been resumed.
FirstStruck ==
  /\ running \in Processes /\ Live = {running}
  /\ \/ code = "interrupt" /\ cpu_state[running] \in Contexts
        /\ cpu_state[running].stack = Main /\ cpu_state[running].at = "timed"
     \/ code = "thread" /\ cpu_state[running] = Stale

\* disastrOS_start makes the first process before it starts the timer.
StartingUp ==
  /\ \A p \in Processes : executed[p] = <<>>
  /\ \/ /\ code = "thread" /\ ~pending
        /\ \/ pc[Main] = "top" /\ running = NULL /\ Live = {}
           \/ pc[Main] = "allocated" /\ running \in Processes /\ Live = {running}
           \/ pc[Main] = "made" /\ FirstMade
     \/ pc[Main] = "timed" /\ (FirstMade \/ FirstStruck)

\* How far the PCB of p, its call and what was executed of it have got when p is
\* at a point of disastrOS_syscall
Stored(p) == call[p] = [num |-> syscall_num[p], arg |-> syscall_args[p]]

InPlace(p, at) ==
  \/ at = "user" /\ executed[p] = <<>>
  \/ at = "args" /\ executed[p] = <<>> /\ call[p].arg = syscall_args[p]
  \/ at = "number" /\ executed[p] = <<>> /\ Stored(p)
  \/ /\ at = "return"
     /\ IF code = "trap" /\ p = running THEN executed[p] = <<>> /\ Stored(p)
                                        ELSE executed[p] = <<call[p]>>

Serving ==
  /\ code \in {"thread", "trap", "interrupt"}
  /\ running = self /\ running \in Live
  /\ \A p \in Processes \ Live : executed[p] = <<>>
  /\ code = "thread" => InPlace(running, pc[running])
  /\ \A p \in Live : code # "thread" \/ p # running =>
                       cpu_state[p].stack = p /\ InPlace(p, cpu_state[p].at)
  /\ code = "trap" => cpu_state[running].at = "return"

Calm == Typed /\ IF self = Main THEN StartingUp ELSE Serving

TrapInv ==
  /\ TrapIsMasked
  /\ OverrunsOnlyInterrupts
  /\ mode = "Up" /\ ~back => Calm

USE TrapsAssumption DEF NULL, Main

\* The same after a step, for a process that is not in the trap by then
PlainNext(p, at) ==
  \/ at = "user" /\ executed'[p] = <<>>
  \/ at = "args" /\ executed'[p] = <<>> /\ call'[p].arg = syscall_args'[p]
  \/ /\ at = "number" /\ executed'[p] = <<>>
     /\ call'[p] = [num |-> syscall_num'[p], arg |-> syscall_args'[p]]
  \/ at = "return" /\ executed'[p] = <<call'[p]>>

GhostsTyped ==
  /\ syscall_num \in [Processes -> Int]
  /\ syscall_args \in [Processes -> Arguments \cup {0}]
  /\ call \in [Processes -> CallRecords]
  /\ executed \in [Processes -> Seq(CallRecords)]

LEMMA ThreadsApart ==
  /\ 0 \notin Threads /\ -1 \in Threads /\ -1 \notin Processes
  /\ Processes \subseteq Threads /\ \A t \in Threads : t = -1 \/ t \in Processes
  /\ Unset \in Contexts /\ Stale \in Contexts /\ Stale # Unset
  /\ \A p \in Threads, at \in Points, m \in BOOLEAN :
       /\ Context(p, at, m) \in Contexts /\ Context(p, at, m) # Unset
       /\ Context(p, at, m).stack = p /\ Context(p, at, m).at = at
  /\ \A c \in Contexts : c.stack = 0 \/ (c.stack \in Threads /\ c.at \in Points /\ c.masked \in BOOLEAN)
  /\ Unset.stack = 0
  <1>1. Processes \subseteq Threads /\ \A t \in Threads : t = -1 \/ t \in Processes
    BY DEF Threads
  <1>2. 0 \notin Threads /\ -1 \in Threads /\ -1 \notin Processes
    BY DEF Threads, Processes
  <1>3. Unset \in Contexts /\ Stale \in Contexts
    BY DEF Contexts
  <1>4. Stale # Unset
    <2>1. Stale.at = "return" /\ Unset.at = "user"
      BY DEF Stale, Unset, Context
    <2> QED BY <2>1
  <1>5. Unset.stack = 0 /\ Stale.stack = 0 /\ Abandoned.stack = 0
    BY DEF Unset, Stale, Abandoned, Context
  <1>6. ASSUME NEW p \in Threads, NEW at \in Points, NEW m \in BOOLEAN
        PROVE  /\ Context(p, at, m) \in Contexts /\ Context(p, at, m) # Unset
               /\ Context(p, at, m).stack = p /\ Context(p, at, m).at = at
    <2>1. Context(p, at, m).stack = p /\ Context(p, at, m).at = at
      BY DEF Context
    <2>2. Context(p, at, m) \in [stack : Threads, at : Points, masked : BOOLEAN]
      BY DEF Context
    <2> QED BY <1>2, <1>5, <2>1, <2>2 DEF Contexts
  <1>7. ASSUME NEW c \in Contexts
        PROVE  c.stack = 0 \/ (c.stack \in Threads /\ c.at \in Points /\ c.masked \in BOOLEAN)
    <2>1. CASE c \in [stack : Threads, at : Points, masked : BOOLEAN]
      BY <2>1
    <2> QED BY <1>5, <2>1 DEF Contexts
  <1> QED BY <1>1, <1>2, <1>3, <1>4, <1>5, <1>6, <1>7

\* A process is resumed: what is saved of the others is in place, and so is it.
LEMMA ResumeServes ==
  ASSUME NEW p \in Processes, NEW saved \in [Processes -> Contexts],
         Typed, GhostsTyped', Resume(p, saved), saved[p].stack = p,
         \A q \in Processes : saved[q] = Unset => executed'[q] = <<>>,
         \A q \in Processes : saved[q] # Unset => saved[q].stack = q /\ PlainNext(q, saved[q].at)
  PROVE  Calm' /\ mode' = mode /\ code' = "thread"
  <1> USE ThreadsApart
  <1>1. saved[p] \in Contexts /\ saved[p].stack # 0 /\ saved[p] # Unset
    OBVIOUS
  <1>2. saved[p].at \in Points /\ saved[p].masked \in BOOLEAN
    BY <1>1
  <1>3. /\ running' = p /\ code' = "thread" /\ self' = p /\ masked' = saved[p].masked
        /\ pc' = [pc EXCEPT ![p] = saved[p].at]
        /\ cpu_state' = [saved EXCEPT ![p] = Stale]
        /\ mode' = mode
    BY <1>1 DEF Resume
  <1>4. pc' \in [Threads -> Points] /\ pc'[p] = saved[p].at
    BY <1>2, <1>3 DEF Typed
  <1>5. /\ cpu_state' \in [Processes -> Contexts] /\ cpu_state'[p] = Stale
        /\ \A q \in Processes \ {p} : cpu_state'[q] = saved[q]
    BY <1>3
  <1>6. Typed'
    BY <1>2, <1>3, <1>4, <1>5 DEF Typed, GhostsTyped
  <1>7. \A q \in Processes : q \in Live' <=> saved[q] # Unset
    BY <1>1, <1>5 DEF Live
  <1>8. InPlace(running, pc[running])'
    BY <1>1, <1>3, <1>4 DEF PlainNext, InPlace, Stored
  <1>9. ASSUME NEW q \in Live', q # running'
        PROVE  cpu_state'[q].stack = q /\ InPlace(q, cpu_state[q].at)'
    <2>1. q \in Processes \ {p}
      BY <1>3, <1>9 DEF Live
    <2>2. cpu_state'[q] = saved[q] /\ saved[q].stack = q /\ PlainNext(q, saved[q].at)
      BY <1>5, <1>7, <2>1
    <2> QED BY <1>3, <2>2 DEF PlainNext, InPlace, Stored
  <1>10. \A q \in Processes \ Live' : executed'[q] = <<>>
    BY <1>7
  <1>11. Serving'
    BY <1>1, <1>3, <1>7, <1>8, <1>9, <1>10 DEF Serving
  <1> QED BY <1>3, <1>6, <1>11 DEF Calm

-----------------------------------------------------------------------------
(* Each action, as long as main_context has not been resumed *)

Quiet == mode = "Up" /\ ~back /\ Calm

\* The first process is to run and what its PCB holds has been resumed.
FirstIsLost ==
  mode = "LostContext" /\ self = Main /\ pc[Main] = "timed" /\ Live = {running}

\* What a step may lead to
After ==
  \/ back'
  \/ mode' = "Exited"
  \/ mode' = "Overrun" /\ code' = "interrupt"
  \/ FirstIsLost'
  \/ mode' = "Up" /\ Calm'

LEMMA ServingFacts ==
  ASSUME Calm, self # Main
  PROVE  /\ Typed /\ GhostsTyped /\ Serving
         /\ running = self /\ self \in Processes /\ running \in Processes /\ running \in Threads
         /\ running \in Live
         /\ \A q \in Live : q \in Processes /\ cpu_state[q] # Unset
  BY ThreadsApart DEF Calm, Typed, GhostsTyped, Serving, Live

\* disastrOS_start has the processor, and does not hold it to itself any more: the
\* timer runs.
LEMMA StartFacts ==
  ASSUME Calm, self = Main, pending \/ TimerRuns, ~back
  PROVE  /\ Typed /\ pc[Main] = "timed" /\ (FirstMade \/ FirstStruck)
         /\ running \in Processes /\ Live = {running} /\ code \in {"thread", "interrupt"}
         /\ \A p \in Processes : executed[p] = <<>>
  BY DEF Calm, StartingUp, TimerRuns, FirstMade, FirstStruck

LEMMA ExpireStep ==
  ASSUME Quiet, Expire
  PROVE  After
  <1>1. /\ UNCHANGED <<code, self, masked, running, pc, cpu_state, syscall_num, syscall_args,
                       call, executed, mode>>
        /\ TimerRuns
    BY DEF Expire, pcb, ghosts
  <1>2. Typed'
    BY <1>1 DEF Quiet, Calm, Typed
  <1>3. Live' = Live
    BY <1>1 DEF Live
  <1>4. CASE self = Main
    <2>1. /\ pc[Main] = "timed" /\ (FirstMade \/ FirstStruck)
          /\ \A p \in Processes : executed[p] = <<>>
      BY <1>1, <1>4, StartFacts DEF Quiet
    <2>2. StartingUp'
      BY <1>1, <1>3, <2>1 DEF StartingUp, FirstMade, FirstStruck
    <2> QED BY <1>1, <1>2, <1>4, <2>2 DEF After, Quiet, Calm
  <1>5. CASE self # Main
    <2>1. Serving'
      BY <1>1, <1>3, <1>5, ServingFacts DEF Quiet, Serving, InPlace, Stored
    <2> QED BY <1>1, <1>2, <1>5, <2>1 DEF After, Quiet, Calm
  <1> QED BY <1>4, <1>5

\* A tick in disastrOS_start saves it in the PCB of the first process.
LEMMA StartTick ==
  ASSUME Quiet, TrapIsMasked, timerHandler, self = Main
  PROVE  After
  <1> USE ThreadsApart
  <1>1. /\ Typed /\ pc[Main] = "timed" /\ running \in Processes /\ Live = {running}
        /\ code \in {"thread", "interrupt"} /\ \A p \in Processes : executed[p] = <<>>
    BY StartFacts DEF Quiet, timerHandler
  <1>2. CASE code # "thread" /\ Breaks("Overrun")
    BY <1>1, <1>2 DEF Breaks, cpu, After
  <1>3. CASE code = "thread" /\ code' = "interrupt"
    <2> DEFINE c == Context(self, pc[self], masked)
    <2>1. /\ cpu_state' = [cpu_state EXCEPT ![running] = c]
          /\ masked' = FALSE
          /\ UNCHANGED <<self, running, pc, syscall_num, syscall_args, call, executed, mode>>
      BY <1>1, <1>3 DEF timerHandler, SavedByTick, InterruptMask, ghosts, Breaks, cpu
    <2>2. c \in Contexts /\ c # Unset /\ c.stack = -1 /\ c.at = "timed"
      BY <1>1 DEF Typed
    <2> HIDE DEF c
    <2>3. /\ cpu_state' \in [Processes -> Contexts] /\ cpu_state'[running] = c
          /\ \A q \in Processes \ {running} : cpu_state'[q] = cpu_state[q]
      BY <1>1, <2>1, <2>2 DEF Typed
    <2>4. Typed'
      BY <1>1, <2>1, <2>3 DEF Typed
    <2>5. Live' = {running}
      BY <1>1, <2>2, <2>3 DEF Live
    <2>6. FirstStruck'
      BY <1>1, <1>3, <2>1, <2>2, <2>3, <2>5 DEF FirstStruck
    <2>7. StartingUp'
      BY <1>1, <2>1, <2>6 DEF StartingUp
    <2> QED BY <2>1, <2>4, <2>7 DEF After, Quiet, Calm
  <1> QED BY <1>1, <1>2, <1>3, ThreadsApart DEF timerHandler, Processes

LEMMA TickStep ==
  ASSUME Quiet, TrapIsMasked, timerHandler
  PROVE  After
  <1> USE ThreadsApart
  <1> SUFFICES ASSUME self # Main PROVE After
    BY StartTick
  <1>1. self # Main /\ running # NULL
    BY ServingFacts DEF Quiet
  <1>2. CASE code # "thread" /\ Breaks("Overrun")
    <2>1. code = "interrupt"
      BY <1>1, <1>2, ServingFacts DEF Quiet, Serving, TrapIsMasked, timerHandler
    <2> QED BY <1>2, <2>1 DEF Breaks, cpu, After
  <1>3. CASE code = "thread" /\ code' = "interrupt"
    <2>1. /\ cpu_state' = [cpu_state EXCEPT ![running] = Context(self, pc[self], masked)]
          /\ masked' = FALSE
          /\ UNCHANGED <<self, running, pc, syscall_num, syscall_args, call, executed, mode>>
      BY <1>1, <1>3, ServingFacts DEF timerHandler, SavedByTick, InterruptMask, ghosts, Breaks, cpu
    <2> DEFINE c == Context(self, pc[self], masked)
    <2>2. running \in Processes /\ running = self /\ Typed /\ Serving /\ running \in Live
      BY <1>1, ServingFacts DEF Quiet
    <2>3. c \in Contexts /\ c # Unset /\ c.stack = running /\ c.at = pc[running]
      BY <2>2 DEF Typed
    <2> HIDE DEF c
    <2>4. /\ cpu_state' \in [Processes -> Contexts] /\ cpu_state'[running] = c
          /\ \A q \in Processes \ {running} : cpu_state'[q] = cpu_state[q]
      BY <2>1, <2>2, <2>3 DEF Typed, c
    <2>5. Typed'
      BY <2>1, <2>2, <2>4 DEF Typed
    <2>6. Live' = Live
      BY <2>2, <2>3, <2>4 DEF Live
    <2>7. InPlace(running, pc[running]) /\ code # "trap"
      BY <1>3, <2>2 DEF Serving
    <2>8. ASSUME NEW q \in Live'
          PROVE  cpu_state'[q].stack = q /\ InPlace(q, cpu_state[q].at)'
      <3>1. q \in Live /\ q \in Processes
        BY <2>6 DEF Live
      <3>2. CASE q = running
        BY <1>3, <2>1, <2>2, <2>3, <2>4, <2>7, <3>2 DEF InPlace, Stored
      <3>3. CASE q # running
        <4>1. cpu_state'[q] = cpu_state[q] /\ cpu_state[q].stack = q /\ InPlace(q, cpu_state[q].at)
          BY <2>2, <2>4, <3>1, <3>3 DEF Serving
        <4> QED BY <1>3, <2>1, <2>7, <4>1 DEF InPlace, Stored
      <3> QED BY <3>2, <3>3
    <2>9. Serving'
      BY <1>3, <2>1, <2>2, <2>6, <2>8 DEF Serving
    <2> QED BY <1>1, <2>1, <2>5, <2>9 DEF After, Quiet, Calm
  <1> QED BY <1>1, <1>2, <1>3 DEF timerHandler

\* The tick is over and disastrOS_start goes on.
LEMMA StartGoesOn ==
  ASSUME Quiet, timerInterrupt, self = Main
  PROVE  After
  <1> USE ThreadsApart
  <1>1. /\ Typed /\ running \in Processes /\ Live = {running} /\ code = "interrupt"
        /\ \A p \in Processes : executed[p] = <<>>
        /\ pc[Main] = "timed" /\ FirstStruck
    BY DEF Quiet, Calm, StartingUp, FirstMade, FirstStruck, timerInterrupt
  <1>2. /\ cpu_state[running] \in Contexts /\ cpu_state[running].stack = -1
        /\ cpu_state[running].at = "timed"
    BY <1>1 DEF FirstStruck
  <1>3. Resume(running, cpu_state)
    BY <1>1 DEF timerInterrupt, Listed
  <1>4. /\ running' = running /\ code' = "thread" /\ self' = -1
        /\ masked' = cpu_state[running].masked
        /\ pc' = [pc EXCEPT ![-1] = "timed"]
        /\ cpu_state' = [cpu_state EXCEPT ![running] = Stale]
        /\ UNCHANGED <<syscall_num, syscall_args, call, executed, mode>>
    BY <1>2, <1>3 DEF Resume, timerInterrupt, ghosts
  <1>5. cpu_state[running].masked \in BOOLEAN
    BY <1>2
  <1>6. pc' \in [Threads -> Points] /\ pc'[-1] = "timed"
    BY <1>1, <1>4 DEF Typed, Points
  <1>7. /\ cpu_state' \in [Processes -> Contexts] /\ cpu_state'[running] = Stale
        /\ \A q \in Processes \ {running} : cpu_state'[q] = cpu_state[q]
    BY <1>1, <1>4 DEF Typed
  <1>8. Typed'
    BY <1>1, <1>4, <1>5, <1>6, <1>7 DEF Typed
  <1>9. Live' = {running}
    BY <1>1, <1>7 DEF Live
  <1>10. StartingUp'
    BY <1>1, <1>4, <1>6, <1>7, <1>9 DEF StartingUp, FirstStruck
  <1> QED BY <1>4, <1>8, <1>10 DEF After, Quiet, Calm

LEMMA InterruptStep ==
  ASSUME Quiet, timerInterrupt
  PROVE  After
  <1> SUFFICES ASSUME self # Main PROVE After
    BY StartGoesOn
  <1>1. self # Main /\ code = "interrupt" /\ code # "thread"
    BY DEF timerInterrupt
  <1>2. PICK next \in Listed \cup {running} : Resume(next, cpu_state)
    BY DEF timerInterrupt
  <1>3. /\ Typed /\ GhostsTyped /\ Serving /\ next \in Live
        /\ \A q \in Live : q \in Processes
    BY <1>1, <1>2, ServingFacts DEF Quiet, Listed
  <1>4. UNCHANGED <<syscall_num, syscall_args, call, executed>>
    BY DEF timerInterrupt, ghosts
  <1>5. \A q \in Processes : cpu_state[q] # Unset
          => cpu_state[q].stack = q /\ PlainNext(q, cpu_state[q].at)
    BY <1>1, <1>3, <1>4 DEF Serving, Live, InPlace, PlainNext, Stored
  <1>6. \A q \in Processes : cpu_state[q] = Unset => executed'[q] = <<>>
    BY <1>3, <1>4 DEF Serving, Live
  <1>7. GhostsTyped'
    BY <1>3, <1>4 DEF GhostsTyped
  <1>8. cpu_state \in [Processes -> Contexts] /\ cpu_state[next].stack = next /\ next \in Processes
    BY <1>3, <1>5 DEF Typed, Live
  <1>9. Calm' /\ mode' = mode
    BY <1>2, <1>3, <1>5, <1>6, <1>7, <1>8, ResumeServes
  <1> QED BY <1>9 DEF Quiet, After

\* A step of a process in disastrOS_syscall touches nothing of the others.
LEMMA ThreadStep ==
  ASSUME Quiet, self # Main, code = "thread", NEW at \in Points,
         UNCHANGED <<code, self, masked, running, cpu_state, mode>>,
         pc' = [pc EXCEPT ![self] = at], GhostsTyped', PlainNext(self, at),
         \A q \in Processes \ {self} :
           /\ syscall_num'[q] = syscall_num[q] /\ syscall_args'[q] = syscall_args[q]
           /\ call'[q] = call[q] /\ executed'[q] = executed[q]
  PROVE  After
  <1>1. /\ Typed /\ Serving /\ running = self /\ self \in Processes /\ self \in Threads
        /\ running \in Live
    BY ServingFacts DEF Quiet
  <1>2. pc' \in [Threads -> Points] /\ pc'[self] = at
    BY <1>1 DEF Typed
  <1>3. Typed'
    BY <1>1, <1>2 DEF Typed, GhostsTyped
  <1>4. Live' = Live
    BY DEF Live
  <1>5. InPlace(running, pc[running])'
    BY <1>1, <1>2 DEF PlainNext, InPlace, Stored
  <1>6. ASSUME NEW q \in Live', q # running'
        PROVE  cpu_state'[q].stack = q /\ InPlace(q, cpu_state[q].at)'
    <2>1. q \in Live /\ q \in Processes \ {self}
      BY <1>1, <1>4, <1>6 DEF Live
    <2>2. cpu_state[q].stack = q /\ InPlace(q, cpu_state[q].at)
      BY <1>1, <2>1 DEF Serving
    <2> QED BY <2>1, <2>2 DEF InPlace, Stored
  <1>7. \A q \in Processes \ Live' : executed'[q] = <<>>
    BY <1>1, <1>4 DEF Serving
  <1>8. Serving'
    BY <1>1, <1>4, <1>5, <1>6, <1>7 DEF Serving
  <1> QED BY <1>3, <1>8 DEF After, Quiet, Calm

LEMMA AtFacts ==
  ASSUME Quiet, NEW at, At(at)
  PROVE  /\ self # Main /\ code = "thread" /\ running = self /\ self \in Processes
         /\ Typed /\ GhostsTyped /\ Serving /\ InPlace(self, at)
  <1>1. self # Main /\ code = "thread" /\ pc[self] = at
    BY ThreadsApart DEF At
  <1> QED BY <1>1, ServingFacts DEF Quiet, Serving

LEMMA StoreArgumentsStep ==
  ASSUME Quiet, NEW n \in Numbers, NEW arg \in Arguments, StoreArguments(n, arg)
  PROVE  After
  <1>1. At("user")
    BY DEF StoreArguments
  <1>2. /\ self # Main /\ code = "thread" /\ running = self /\ self \in Processes
        /\ GhostsTyped /\ InPlace(self, "user")
    BY <1>1, AtFacts
  <1>3. /\ syscall_args' = [syscall_args EXCEPT ![self] = arg]
        /\ call' = [call EXCEPT ![self] = [num |-> n, arg |-> arg]]
        /\ pc' = [pc EXCEPT ![self] = "args"]
        /\ UNCHANGED <<code, self, masked, running, cpu_state, mode, syscall_num, executed>>
    BY <1>2 DEF StoreArguments, ArgumentsStored, GoOn, cpu
  <1>4. [num |-> n, arg |-> arg] \in CallRecords
    BY DEF CallRecords
  <1>5. GhostsTyped'
    BY <1>2, <1>3, <1>4 DEF GhostsTyped
  <1>6. executed[self] = <<>>
    BY <1>2 DEF InPlace
  <1>7. call'[self].arg = arg /\ syscall_args'[self] = arg
    BY <1>2, <1>3 DEF GhostsTyped
  <1>8. PlainNext(self, "args")
    BY <1>3, <1>6, <1>7 DEF PlainNext
  <1>9. \A q \in Processes \ {self} :
          /\ syscall_num'[q] = syscall_num[q] /\ syscall_args'[q] = syscall_args[q]
          /\ call'[q] = call[q] /\ executed'[q] = executed[q]
    BY <1>2, <1>3 DEF GhostsTyped
  <1>10. "args" \in Points
    BY DEF Points
  <1> QED BY <1>2, <1>3, <1>5, <1>8, <1>9, <1>10, ThreadStep

LEMMA StoreNumberStep ==
  ASSUME Quiet, StoreNumber
  PROVE  After
  <1>1. At("args")
    BY DEF StoreNumber
  <1>2. /\ self # Main /\ code = "thread" /\ running = self /\ self \in Processes
        /\ GhostsTyped /\ InPlace(self, "args")
    BY <1>1, AtFacts
  <1>3. /\ syscall_num' = [syscall_num EXCEPT ![self] = call[self].num]
        /\ pc' = [pc EXCEPT ![self] = "number"]
        /\ UNCHANGED <<code, self, masked, running, cpu_state, mode, syscall_args, call, executed>>
    BY <1>2 DEF StoreNumber, GoOn, cpu, ghosts
  <1>4. call[self] \in CallRecords
    BY <1>2 DEF GhostsTyped
  <1>5. GhostsTyped'
    BY <1>2, <1>3, <1>4 DEF GhostsTyped, CallRecords
  <1>6. executed[self] = <<>> /\ call[self].arg = syscall_args[self]
    BY <1>2 DEF InPlace
  <1>7. call[self] = [num |-> call[self].num, arg |-> call[self].arg]
    BY <1>4 DEF CallRecords
  <1>8. syscall_num'[self] = call[self].num
    BY <1>2, <1>3 DEF GhostsTyped
  <1>9. PlainNext(self, "number")
    BY <1>3, <1>6, <1>7, <1>8 DEF PlainNext
  <1>10. \A q \in Processes \ {self} :
          /\ syscall_num'[q] = syscall_num[q] /\ syscall_args'[q] = syscall_args[q]
          /\ call'[q] = call[q] /\ executed'[q] = executed[q]
    BY <1>2, <1>3 DEF GhostsTyped
  <1>11. "number" \in Points
    BY DEF Points
  <1> QED BY <1>2, <1>3, <1>5, <1>9, <1>10, <1>11, ThreadStep

LEMMA ReturnStep ==
  ASSUME Quiet, ReturnFromCall
  PROVE  After
  <1>1. At("return")
    BY DEF ReturnFromCall
  <1>2. /\ self # Main /\ code = "thread" /\ running = self /\ self \in Processes /\ GhostsTyped
    BY <1>1, AtFacts
  <1>3. /\ call' = [call EXCEPT ![self] = NoCall]
        /\ executed' = [executed EXCEPT ![self] = <<>>]
        /\ pc' = [pc EXCEPT ![self] = "user"]
        /\ UNCHANGED <<code, self, masked, running, cpu_state, mode, syscall_args, syscall_num>>
    BY <1>2 DEF ReturnFromCall, GoOn, cpu, pcb
  <1>4. NoCall \in CallRecords
    BY DEF NoCall, CallRecords
  <1>5. GhostsTyped'
    BY <1>2, <1>3, <1>4 DEF GhostsTyped
  <1>6. executed'[self] = <<>>
    BY <1>2, <1>3 DEF GhostsTyped
  <1>7. PlainNext(self, "user")
    BY <1>6 DEF PlainNext
  <1>8. \A q \in Processes \ {self} :
          /\ syscall_num'[q] = syscall_num[q] /\ syscall_args'[q] = syscall_args[q]
          /\ call'[q] = call[q] /\ executed'[q] = executed[q]
    BY <1>2, <1>3 DEF GhostsTyped
  <1>9. "user" \in Points
    BY DEF Points
  <1> QED BY <1>2, <1>3, <1>5, <1>7, <1>8, <1>9, ThreadStep

LEMMA SwapStep ==
  ASSUME Quiet, SwapToTrap
  PROVE  After
  <1> USE ThreadsApart
  <1>1. At("number")
    BY DEF SwapToTrap
  <1>2. /\ self # Main /\ code = "thread" /\ running = self /\ self \in Processes
        /\ Typed /\ GhostsTyped /\ Serving /\ InPlace(self, "number") /\ running \in Live
    BY <1>1, AtFacts DEF Serving
  <1> DEFINE c == Context(self, "return", masked)
  <1>3. /\ cpu_state' = [cpu_state EXCEPT ![self] = c]
        /\ code' = "trap" /\ masked' = TRUE
        /\ UNCHANGED <<self, running, pc, syscall_num, syscall_args, call, executed, mode>>
    BY <1>2 DEF SwapToTrap, TrapMask, ghosts
  <1>4. c \in Contexts /\ c # Unset /\ c.stack = self /\ c.at = "return"
    BY <1>2 DEF Typed, Points
  <1> HIDE DEF c
  <1>5. /\ cpu_state' \in [Processes -> Contexts] /\ cpu_state'[self] = c
        /\ \A q \in Processes \ {self} : cpu_state'[q] = cpu_state[q]
    BY <1>2, <1>3, <1>4 DEF Typed
  <1>6. Typed'
    BY <1>2, <1>3, <1>5 DEF Typed
  <1>7. Live' = Live
    BY <1>2, <1>4, <1>5 DEF Live
  <1>8. executed[self] = <<>> /\ Stored(self)
    BY <1>2 DEF InPlace
  <1>9. ASSUME NEW q \in Live'
        PROVE  cpu_state'[q].stack = q /\ InPlace(q, cpu_state[q].at)'
    <2>1. q \in Live /\ q \in Processes
      BY <1>7 DEF Live
    <2>2. CASE q = self
      BY <1>2, <1>3, <1>4, <1>5, <1>8, <2>2 DEF InPlace, Stored
    <2>3. CASE q # self
      <3>1. cpu_state'[q] = cpu_state[q] /\ cpu_state[q].stack = q /\ InPlace(q, cpu_state[q].at)
        BY <1>2, <1>5, <2>1, <2>3 DEF Serving
      <3> QED BY <1>2, <1>3, <2>3, <3>1 DEF InPlace, Stored
    <2> QED BY <2>2, <2>3
  <1>10. Serving'
    BY <1>2, <1>3, <1>4, <1>5, <1>7, <1>9 DEF Serving
  <1> QED BY <1>2, <1>3, <1>6, <1>10 DEF After, Quiet, Calm

LEMMA TrapFacts ==
  ASSUME Quiet, disastrOS_trap
  PROVE  /\ Typed /\ GhostsTyped /\ Serving /\ running \in Processes /\ running \in Live
         /\ cpu_state[running].at = "return" /\ executed[running] = <<>> /\ Stored(running)
         /\ UNCHANGED <<syscall_num, syscall_args>>
         /\ \A q \in Processes : cpu_state[q] # Unset => cpu_state[q].stack = q
         /\ \A q \in Processes \ {running} : cpu_state[q] # Unset =>
              (executed'[q] = executed[q] /\ call'[q] = call[q] => PlainNext(q, cpu_state[q].at))
         /\ \A q \in Processes : cpu_state[q] = Unset => executed[q] = <<>>
  <1>1. code = "trap" /\ code # "thread" /\ UNCHANGED <<syscall_num, syscall_args>>
    BY DEF disastrOS_trap
  <1>2. self # Main
    BY <1>1 DEF Quiet, Calm, StartingUp, FirstMade, FirstStruck
  <1>3. Typed /\ GhostsTyped /\ Serving /\ running \in Processes /\ running \in Live
    BY <1>2, ServingFacts DEF Quiet
  <1>4. /\ cpu_state[running].at = "return"
        /\ \A q \in Processes : cpu_state[q] # Unset =>
              cpu_state[q].stack = q /\ InPlace(q, cpu_state[q].at)
        /\ \A q \in Processes : cpu_state[q] = Unset => executed[q] = <<>>
    BY <1>1, <1>3 DEF Serving, Live
  <1>5. executed[running] = <<>> /\ Stored(running)
    <2>1. InPlace(running, "return")
      BY <1>3, <1>4 DEF Live
    <2> QED BY <1>1, <2>1 DEF InPlace
  <1>6. ASSUME NEW q \in Processes \ {running}, cpu_state[q] # Unset,
               executed'[q] = executed[q], call'[q] = call[q]
        PROVE  PlainNext(q, cpu_state[q].at)
    <2>1. InPlace(q, cpu_state[q].at)
      BY <1>4, <1>6
    <2> QED BY <1>1, <1>6, <2>1 DEF InPlace, PlainNext, Stored
  <1> QED BY <1>1, <1>3, <1>4, <1>5, <1>6

LEMMA CallReturnsStep ==
  ASSUME Quiet, disastrOS_trap, CallReturns
  PROVE  After
  <1> USE ThreadsApart
  <1>1. /\ Typed /\ GhostsTyped /\ Serving /\ running \in Processes /\ running \in Live
        /\ cpu_state[running].at = "return" /\ executed[running] = <<>> /\ Stored(running)
        /\ UNCHANGED <<syscall_num, syscall_args>>
        /\ \A q \in Processes : cpu_state[q] # Unset => cpu_state[q].stack = q
        /\ \A q \in Processes \ {running} : cpu_state[q] # Unset =>
              (executed'[q] = executed[q] /\ call'[q] = call[q] => PlainNext(q, cpu_state[q].at))
        /\ \A q \in Processes : cpu_state[q] = Unset => executed[q] = <<>>
    BY TrapFacts
  <1>2. /\ executed' = [executed EXCEPT ![running] = Append(executed[running], call[running])]
        /\ call' = call
    BY <1>1 DEF CallReturns, Executes, Stored
  <1>3. call[running] \in CallRecords
    BY <1>1 DEF GhostsTyped
  <1>4. Append(executed[running], call[running]) = <<call[running]>>
    BY <1>1, <1>3
  <1>5. /\ executed'[running] = <<call'[running]>>
        /\ \A q \in Processes \ {running} : executed'[q] = executed[q]
    BY <1>1, <1>2, <1>4 DEF GhostsTyped
  <1>6. GhostsTyped'
    <2>1. <<call[running]>> \in Seq(CallRecords)
      BY <1>3
    <2> QED BY <1>1, <1>2, <1>4, <2>1 DEF GhostsTyped
  <1>7. \A q \in Processes : cpu_state[q] # Unset => PlainNext(q, cpu_state[q].at)
    BY <1>1, <1>2, <1>5 DEF PlainNext
  <1>8. \A q \in Processes : cpu_state[q] = Unset => executed'[q] = <<>>
    BY <1>1, <1>5 DEF Live
  <1>9. cpu_state \in [Processes -> Contexts]
    BY <1>1 DEF Typed
  <1>10. ASSUME NEW next \in Live, Resume(next, cpu_state)
         PROVE  After
    <2>1. next \in Processes /\ cpu_state[next].stack = next
      BY <1>1 DEF Live
    <2>2. Calm' /\ mode' = mode
      BY <1>1, <1>6, <1>7, <1>8, <1>9, <1>10, <2>1, ResumeServes
    <2> QED BY <2>2 DEF After, Quiet
  <1>11. ASSUME NEW new \in Processes \ Live,
                Resume(running, [cpu_state EXCEPT ![new] = Context(new, "user", NewProcessMask)])
         PROVE  After
    <2> DEFINE c == Context(new, "user", NewProcessMask)
               saved == [cpu_state EXCEPT ![new] = c]
    <2>1. c \in Contexts /\ c # Unset /\ c.stack = new /\ c.at = "user"
      <3>1. NewProcessMask \in BOOLEAN /\ "user" \in Points /\ new \in Threads
        BY DEF NewProcessMask, Points
      <3> QED BY <3>1
    <2>2. new # running /\ cpu_state[new] = Unset /\ executed'[new] = <<>>
      BY <1>1, <1>8 DEF Live
    <2> HIDE DEF c
    <2>3. /\ saved \in [Processes -> Contexts] /\ saved[new] = c
          /\ \A q \in Processes \ {new} : saved[q] = cpu_state[q]
      BY <1>9, <2>1
    <2>4. Resume(running, saved)
      BY <1>11 DEF c
    <2> HIDE DEF saved
    <2>5. saved[running].stack = running
      BY <1>1, <2>2, <2>3 DEF Live
    <2>6. \A q \in Processes : saved[q] = Unset => executed'[q] = <<>>
      BY <1>8, <2>2, <2>3
    <2>7. \A q \in Processes : saved[q] # Unset => saved[q].stack = q /\ PlainNext(q, saved[q].at)
      <3>1. PlainNext(new, saved[new].at)
        BY <2>1, <2>2, <2>3 DEF PlainNext
      <3> QED BY <1>1, <1>7, <2>1, <2>3, <3>1
    <2>8. Calm' /\ mode' = mode
      BY <1>1, <1>6, <2>3, <2>4, <2>5, <2>6, <2>7, ResumeServes
    <2> QED BY <2>8 DEF After, Quiet
  <1>12. \/ Resume(running, cpu_state)
         \/ \E next \in Live : Resume(next, cpu_state)
         \/ Spawn
    BY DEF CallReturns, Switch, Listed
  <1> QED BY <1>1, <1>10, <1>11, <1>12 DEF Spawn

LEMMA CallExitsStep ==
  ASSUME Quiet, disastrOS_trap, CallExits
  PROVE  After
  <1> USE ThreadsApart
  <1>1. /\ Typed /\ GhostsTyped /\ Serving /\ running \in Processes /\ running \in Live
        /\ UNCHANGED <<syscall_num, syscall_args>>
        /\ \A q \in Processes : cpu_state[q] # Unset => cpu_state[q].stack = q
        /\ \A q \in Processes \ {running} : cpu_state[q] # Unset =>
              (executed'[q] = executed[q] /\ call'[q] = call[q] => PlainNext(q, cpu_state[q].at))
        /\ \A q \in Processes : cpu_state[q] = Unset => executed[q] = <<>>
    BY TrapFacts
  <1> DEFINE saved == [cpu_state EXCEPT ![running] = Unset]
  <1>2. /\ executed' = [executed EXCEPT ![running] = <<>>]
        /\ call' = [call EXCEPT ![running] = NoCall]
    BY DEF CallExits
  <1>3. NoCall \in CallRecords
    BY DEF NoCall, CallRecords
  <1>4. GhostsTyped'
    BY <1>1, <1>2, <1>3 DEF GhostsTyped
  <1>5. /\ executed'[running] = <<>>
        /\ \A q \in Processes \ {running} : executed'[q] = executed[q] /\ call'[q] = call[q]
    BY <1>1, <1>2 DEF GhostsTyped
  <1>6. /\ saved \in [Processes -> Contexts] /\ saved[running] = Unset
        /\ \A q \in Processes \ {running} : saved[q] = cpu_state[q]
    BY <1>1 DEF Typed
  <1>7. PICK next \in Listed : Resume(next, saved)
    BY DEF CallExits, Switch
  <1> HIDE DEF saved
  <1>8. next \in Processes /\ next # running /\ saved[next].stack = next
    BY <1>1, <1>6 DEF Listed, Live
  <1>9. \A q \in Processes : saved[q] = Unset => executed'[q] = <<>>
    BY <1>1, <1>5, <1>6
  <1>10. \A q \in Processes : saved[q] # Unset => saved[q].stack = q /\ PlainNext(q, saved[q].at)
    BY <1>1, <1>5, <1>6
  <1>11. Calm' /\ mode' = mode
    BY <1>1, <1>4, <1>6, <1>7, <1>8, <1>9, <1>10, ResumeServes
  <1> QED BY <1>11 DEF After, Quiet

LEMMA TrapStep ==
  ASSUME Quiet, disastrOS_trap
  PROVE  After
  <1>1. CASE CallEndsInMain
    BY <1>1 DEF CallEndsInMain, ResumeMain, After
  <1> QED BY <1>1, CallReturnsStep, CallExitsStep DEF disastrOS_trap

LEMMA StartStep ==
  ASSUME Quiet, disastrOS_start
  PROVE  After
  <1> USE ThreadsApart
  <1>1. self = Main /\ self = -1 /\ code = "thread" /\ Typed /\ GhostsTyped /\ StartingUp
    BY DEF disastrOS_start, StartAlloc, StartMake, StartTimer, StartFirst, Starting, Quiet, Calm, Typed, GhostsTyped
  <1>2. 1 \in Processes
    BY DEF Processes
  <1>3. CASE StartAlloc
    <2>1. Live = {} /\ Live # Processes
      BY <1>1, <1>2, <1>3 DEF StartAlloc, Starting, StartingUp
    <2>2. CASE Breaks("Exited")
      BY <2>2 DEF Breaks, After
    <2>3. CASE ~Breaks("Exited")
      <3>1. PICK new \in Processes \ Live : running' = new /\ cpu_state' = [cpu_state EXCEPT ![new] = Stale]
        BY <1>3, <2>1, <2>3 DEF StartAlloc
      <3>2. /\ pc' = [pc EXCEPT ![-1] = "allocated"]
            /\ UNCHANGED <<code, self, masked, pending, syscall_num, syscall_args, call, executed, mode>>
        BY <1>1, <1>3, <2>1, <2>3 DEF StartAlloc, GoOn, cpu, ghosts
      <3>3. pc' \in [Threads -> Points] /\ pc'[-1] = "allocated"
        BY <1>1, <3>2 DEF Typed, Points
      <3>4. /\ cpu_state' \in [Processes -> Contexts] /\ cpu_state'[new] = Stale
            /\ \A q \in Processes \ {new} : cpu_state'[q] = cpu_state[q]
        BY <1>1, <3>1 DEF Typed
      <3>5. Typed'
        BY <1>1, <3>2, <3>3, <3>4 DEF Typed
      <3>6. Live' = {new}
        BY <2>1, <3>4 DEF Live
      <3>7. StartingUp'
        BY <1>1, <3>1, <3>2, <3>3, <3>6 DEF StartingUp
      <3> QED BY <1>1, <3>2, <3>5, <3>7 DEF After, Quiet, Calm
    <2> QED BY <2>2, <2>3
  <1>4. CASE StartMake
    <2>1. running \in Processes /\ Live = {running}
      BY <1>1, <1>4 DEF StartMake, Starting, StartingUp
    <2> DEFINE c == Context(running, "user", masked)
    <2>2. /\ pc' = [pc EXCEPT ![-1] = "made"]
          /\ cpu_state' = [cpu_state EXCEPT ![running] = c]
          /\ UNCHANGED <<code, self, masked, pending, running, syscall_num, syscall_args, call,
                         executed, mode>>
      BY <1>1, <1>4 DEF StartMake, GoOn, cpu, ghosts
    <2>3. c \in Contexts /\ c # Unset /\ c.stack = running /\ c.at = "user"
      BY <1>1, <2>1 DEF Typed, Points
    <2> HIDE DEF c
    <2>4. pc' \in [Threads -> Points] /\ pc'[-1] = "made"
      BY <1>1, <2>2 DEF Typed, Points
    <2>5. /\ cpu_state' \in [Processes -> Contexts] /\ cpu_state'[running] = c
          /\ \A q \in Processes \ {running} : cpu_state'[q] = cpu_state[q]
      BY <1>1, <2>1, <2>2, <2>3 DEF Typed
    <2>6. Typed'
      BY <1>1, <2>2, <2>4, <2>5 DEF Typed
    <2>7. Live' = {running}
      BY <2>1, <2>3, <2>5 DEF Live
    <2>8. FirstMade'
      BY <1>1, <2>1, <2>2, <2>3, <2>5, <2>7 DEF FirstMade
    <2>9. ~pending /\ \A p \in Processes : executed[p] = <<>>
      BY <1>1, <1>4 DEF StartMake, Starting, StartingUp
    <2>10. StartingUp'
      BY <1>1, <2>2, <2>4, <2>8, <2>9 DEF StartingUp, FirstMade
    <2> QED BY <1>1, <2>2, <2>6, <2>10 DEF After, Quiet, Calm
  <1>5. CASE StartTimer
    <2>1. pc[Main] = "made" /\ FirstMade
      BY <1>1, <1>5 DEF StartTimer, Starting, StartingUp
    <2>2. /\ pc' = [pc EXCEPT ![-1] = "timed"]
          /\ UNCHANGED <<code, self, masked, running, cpu_state, syscall_num, syscall_args, call,
                         executed, mode>>
      BY <1>1, <1>5 DEF StartTimer, GoOn, cpu, pcb, ghosts
    <2>3. pc' \in [Threads -> Points] /\ pc'[-1] = "timed"
      BY <1>1, <2>2 DEF Typed, Points
    <2>4. Typed'
      BY <1>1, <2>2, <2>3 DEF Typed
    <2>5. Live' = Live
      BY <2>2 DEF Live
    <2>6. StartingUp'
      BY <1>1, <2>1, <2>2, <2>3, <2>5 DEF StartingUp, FirstMade
    <2> QED BY <1>1, <2>2, <2>4, <2>6 DEF After, Quiet, Calm
  <1>6. CASE StartFirst
    <2>1. /\ running \in Processes /\ Live = {running} /\ pc[-1] = "timed"
          /\ \/ cpu_state[running].stack = running /\ cpu_state[running].at = "user"
             \/ cpu_state[running] = Stale
          /\ \A p \in Processes : executed[p] = <<>>
      BY <1>1, <1>6 DEF StartFirst, Starting, StartingUp, FirstMade, FirstStruck
    <2>2. Resume(running, cpu_state) /\ UNCHANGED <<syscall_num, syscall_args, call, executed>>
      BY <1>6 DEF StartFirst, ghosts
    <2>3. CASE cpu_state[running] = Stale
      <3>1. /\ mode' = "LostContext" /\ running' = running /\ cpu_state' = cpu_state
            /\ UNCHANGED <<self, pc>>
        BY <2>2, <2>3 DEF Resume, cpu, Stale, Context
      <3>2. Live' = Live
        BY <3>1 DEF Live
      <3> QED BY <1>1, <2>1, <3>1, <3>2 DEF After, FirstIsLost
    <2>4. CASE cpu_state[running].stack = running /\ cpu_state[running].at = "user"
      <3>1. GhostsTyped'
        BY <1>1, <2>2 DEF GhostsTyped
      <3>2. \A q \in Processes : cpu_state[q] # Unset =>
              cpu_state[q].stack = q /\ PlainNext(q, cpu_state[q].at)
        BY <2>1, <2>2, <2>4 DEF PlainNext, Live
      <3>3. cpu_state \in [Processes -> Contexts]
        BY <1>1 DEF Typed
      <3>4. \A q \in Processes : cpu_state[q] = Unset => executed'[q] = <<>>
        BY <2>1, <2>2
      <3>5. Calm' /\ mode' = mode
        BY <1>1, <2>1, <2>2, <2>4, <3>1, <3>2, <3>3, <3>4, ResumeServes
      <3> QED BY <3>5 DEF After, Quiet
    <2> QED BY <2>1, <2>3, <2>4
  <1> QED BY <1>3, <1>4, <1>5, <1>6 DEF disastrOS_start

-----------------------------------------------------------------------------
(* The invariant and what follows from it *)

\* Only the trap's context is entered with code = "trap".
LEMMA TrapIsMaskedStep ==
  ASSUME TrapIsMasked, [Next]_vars
  PROVE  TrapIsMasked'
  <1>1. CASE UNCHANGED vars
    BY <1>1 DEF vars, cpu, TrapIsMasked
  <1>2. CASE Expire
    BY <1>2 DEF Expire, TrapIsMasked
  <1>3. CASE timerHandler
    BY <1>3 DEF timerHandler, Breaks, cpu, TrapIsMasked
  <1>4. ASSUME NEW p, NEW saved, Resume(p, saved)
        PROVE  TrapIsMasked'
    BY <1>4 DEF Resume, cpu, TrapIsMasked
  <1>5. ASSUME NEW saved, ResumeMain(saved)
        PROVE  TrapIsMasked'
    BY <1>5 DEF ResumeMain, TrapIsMasked
  <1>6. CASE timerInterrupt
    BY <1>4, <1>6 DEF timerInterrupt
  <1>7. CASE disastrOS_syscall
    BY <1>7 DEF disastrOS_syscall, StoreArguments, StoreNumber, SwapToTrap, ReturnFromCall,
                TrapMask, cpu, TrapIsMasked
  <1>8. CASE disastrOS_trap
    BY <1>4, <1>5, <1>8 DEF disastrOS_trap, CallReturns, CallExits, CallEndsInMain, Switch, Spawn
  <1>9. CASE FunctionReturns
    BY <1>5, <1>9 DEF FunctionReturns
  <1>10. CASE disastrOS_start
    BY <1>4, <1>10 DEF disastrOS_start, StartAlloc, StartMake, StartTimer, StartFirst, Breaks, cpu, TrapIsMasked
  <1> QED BY <1>1, <1>2, <1>3, <1>6, <1>7, <1>8, <1>9, <1>10 DEF Next

LEMMA OverrunStep ==
  ASSUME TrapIsMasked, OverrunsOnlyInterrupts, [Next]_vars
  PROVE  mode' = "Overrun" => code' = "interrupt"
  <1> SUFFICES ASSUME mode' = "Overrun" PROVE code' = "interrupt"
    OBVIOUS
  <1>1. CASE UNCHANGED vars
    BY <1>1 DEF vars, cpu, OverrunsOnlyInterrupts
  <1>2. CASE timerHandler
    BY <1>2 DEF timerHandler, Breaks, cpu, TrapIsMasked
  <1>3. ASSUME NEW p, NEW saved, Resume(p, saved), mode = "Up"
        PROVE  FALSE
    BY <1>3 DEF Resume
  <1>4. ASSUME NEW saved, ResumeMain(saved), mode = "Up"
        PROVE  FALSE
    BY <1>4 DEF ResumeMain
  <1>5. CASE Expire \/ disastrOS_syscall
    BY <1>5 DEF Expire, disastrOS_syscall, StoreArguments, StoreNumber, SwapToTrap,
                ReturnFromCall, At
  <1>6. CASE timerInterrupt \/ FunctionReturns
    BY <1>3, <1>4, <1>6 DEF timerInterrupt, FunctionReturns, At
  <1>7. CASE disastrOS_trap
    BY <1>3, <1>4, <1>7 DEF disastrOS_trap, CallReturns, CallExits, CallEndsInMain, Switch, Spawn
  <1>8. CASE disastrOS_start
    BY <1>3, <1>8 DEF disastrOS_start, StartAlloc, StartMake, StartTimer, StartFirst, Starting, Breaks
  <1> QED BY <1>1, <1>2, <1>5, <1>6, <1>7, <1>8 DEF Next

LEMMA BackStays ==
  ASSUME back, [Next]_vars
  PROVE  back'
  <1>1. ASSUME NEW saved, ResumeMain(saved)
        PROVE  back'
    BY <1>1 DEF ResumeMain
  <1>2. CASE UNCHANGED vars \/ Expire \/ timerHandler \/ timerInterrupt
    BY <1>2 DEF vars, Expire, timerHandler, timerInterrupt, Breaks
  <1>3. CASE disastrOS_syscall
    BY <1>3 DEF disastrOS_syscall, StoreArguments, StoreNumber, SwapToTrap, ReturnFromCall
  <1>4. CASE disastrOS_trap \/ FunctionReturns
    BY <1>1, <1>4 DEF disastrOS_trap, FunctionReturns, CallReturns, CallExits, CallEndsInMain
  <1>5. CASE disastrOS_start
    BY <1>5 DEF disastrOS_start, StartAlloc, StartMake, StartTimer, StartFirst, Breaks
  <1> QED BY <1>2, <1>3, <1>4, <1>5 DEF Next

\* Nothing happens any more once the kernel has ended.
LEMMA OnlyUp ==
  ASSUME Next
  PROVE  mode = "Up"
  BY DEF Next, Expire, timerHandler, timerInterrupt, disastrOS_syscall, StoreArguments, StoreNumber,
         SwapToTrap, ReturnFromCall, disastrOS_trap, FunctionReturns, disastrOS_start, StartAlloc,
         StartMake, StartTimer, StartFirst, Starting, At

LEMMA QuietStep ==
  ASSUME Quiet, TrapIsMasked, Next
  PROVE  After
  <1>1. CASE disastrOS_syscall
    BY <1>1, StoreArgumentsStep, StoreNumberStep, SwapStep, ReturnStep DEF disastrOS_syscall
  <1>2. CASE FunctionReturns
    BY <1>2 DEF FunctionReturns, ResumeMain, After
  <1> QED BY <1>1, <1>2, ExpireStep, TickStep, InterruptStep, TrapStep, StartStep DEF Next

LEMMA NextTrap ==
  ASSUME TrapInv, [Next]_vars
  PROVE  TrapInv'
  <1>1. TrapIsMasked' /\ (mode' = "Overrun" => code' = "interrupt")
    BY TrapIsMaskedStep, OverrunStep DEF TrapInv
  <1>2. CASE UNCHANGED vars
    <2>1. UNCHANGED <<code, self, masked, pending, running, shutdown_now, pc, cpu_state,
                      syscall_num, syscall_args, call, executed, back, mode>>
      BY <1>2 DEF vars, cpu, pcb, ghosts
    <2>2. Live' = Live
      BY <2>1 DEF Live
    <2>3. Calm => Calm'
      BY <2>1, <2>2 DEF Calm, Typed, StartingUp, FirstMade, FirstStruck, Serving, InPlace, Stored
    <2> QED BY <1>1, <2>1, <2>2, <2>3 DEF TrapInv, OverrunsOnlyInterrupts
  <1>3. CASE Next /\ back
    BY <1>1, <1>3, BackStays DEF TrapInv, OverrunsOnlyInterrupts
  <1>4. CASE Next /\ ~back
    <2>1. Quiet
      BY <1>4, OnlyUp DEF TrapInv, Quiet
    <2>2. After
      BY <1>4, <2>1, QuietStep DEF TrapInv
    <2>3. /\ mode' = "NullDereference" => back'
          /\ mode' = "LostContext" => back' \/ FirstIsLost'
      BY <2>2 DEF After, FirstIsLost
    <2>4. mode' = "Up" /\ ~back' => Calm'
      BY <2>2 DEF After, FirstIsLost
    <2> QED BY <1>1, <2>3, <2>4 DEF TrapInv, OverrunsOnlyInterrupts, FirstIsLost
  <1> QED BY <1>2, <1>3, <1>4

LEMMA InitTrap ==
  ASSUME Init
  PROVE  TrapInv
  <1> USE ThreadsApart
  <1>1. Typed
    <2>1. NoCall \in CallRecords /\ <<>> \in Seq(CallRecords) /\ {"top", "user"} \subseteq Points
      BY DEF NoCall, CallRecords, Points
    <2>2. pc \in [Threads -> Points] /\ cpu_state \in [Processes -> Contexts]
      BY <2>1 DEF Init
    <2>3. /\ syscall_num \in [Processes -> Int] /\ syscall_args \in [Processes -> Arguments \cup {0}]
          /\ call \in [Processes -> CallRecords] /\ executed \in [Processes -> Seq(CallRecords)]
      BY <2>1 DEF Init
    <2> QED BY <2>2, <2>3 DEF Init, Typed
  <1>2. StartingUp
    BY DEF Init, StartingUp, Live
  <1> QED BY <1>1, <1>2 DEF Init, TrapInv, TrapIsMasked, OverrunsOnlyInterrupts, Calm

(* The trap keeps SIGALRM blocked.  Until main_context is resumed, once a process
   runs, every context is where disastrOS_syscall, timerHandler and
   disastrOS_trap look for it; while disastrOS_start runs, the PCB of the first
   process holds the context made for it or, after a tick, what the tick has
   saved of disastrOS_start.  What the next theorems rest on. *)
THEOREM TrapInvHolds == Spec => []TrapInv
  BY InitTrap, NextTrap, PTL DEF Spec

(* Ticks may strike anywhere in user code, in disastrOS_syscall and in
   disastrOS_start after setupSignals: once a process runs, the thread that has
   the processor is the one running points to, and every other process has a
   context on its own stack that has not been resumed. *)
THEOREM ContextsStayApart == Spec => []ContextsApart
  <1>1. TrapInv => ContextsApart
    BY DEF TrapInv, ContextsApart, Calm, Serving
  <1> QED BY <1>1, TrapInvHolds, PTL

(* Without a return to main_context there are two faults: a tick that strikes
   inside timerInterrupt, whose context timerHandler enters with SIGALRM enabled,
   and one that strikes disastrOS_start between setupSignals and setcontext. *)
THEOREM OnlyInterruptsOverrun == Spec => []OverrunsOnlyInterrupts
  <1>1. TrapInv => OverrunsOnlyInterrupts
    BY DEF TrapInv
  <1> QED BY <1>1, TrapInvHolds, PTL

(* A system call is executed once, with the number and the arguments its caller
   passed to disastrOS_syscall, though ticks and the calls of others come in
   between storing them in the PCB and the trap that reads them. *)
THEOREM CallsExecutedOnce == Spec => []CalledOnce
  <1>1. TrapInv => CalledOnce
    <2> SUFFICES ASSUME TrapInv, mode = "Up", ~back, NEW p \in Live, self = p, code = "thread"
                 PROVE  /\ pc[p] \in {"args", "number"} => executed[p] = <<>>
                        /\ pc[p] = "return" => executed[p] = <<call[p]>>
      BY DEF CalledOnce
    <2>1. self # Main
      BY ThreadsApart DEF Live
    <2>2. running = p /\ InPlace(running, pc[running])
      BY <2>1 DEF TrapInv, Calm, Serving
    <2> QED BY <2>2 DEF InPlace
  <1> QED BY <1>1, TrapInvHolds, PTL
=============================================================================
