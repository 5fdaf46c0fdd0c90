---------------------------- MODULE MCSemaphores ----------------------------
(* Small instances of the semaphores for TLC. *)
EXTENDS Semaphores

SomeFlags == {{}, {"CREATE"}}
CountsFromBelow == {-1, 1}
IdsFromBelow == {-1, 7}

\* Where descriptor d is held: every process that has it, and at which place.
HeldAt(d) ==
  {<<b, k>> \in Blocks \X (1 .. MAX_NUM_PROCESSES) :
     k <= Len(sem_descriptors[b]) /\ sem_descriptors[b][k] = d}

\* The state without the answer of the last call, which nothing depends on, and
\* with descriptors named by where they are held: their pool is symmetric.
Anonymous ==
  <<pools, table, awaited, running, init_pcb, queues, abandoned, mode, semaphore,
    last_sem_fd, sem_des_free = {},
    [s \in Semaphores |-> {HeldAt(d) : d \in users[s]}],
    [s \in Semaphores |-> [k \in 1 .. Len(waiters[s]) |-> HeldAt(waiters[s][k])]],
    [b \in Blocks |-> [k \in 1 .. Len(sem_descriptors[b]) |->
                         sem_des[sem_descriptors[b][k]]]]>>
=============================================================================
