---------------------------- MODULE MCResources -----------------------------
(* A small instance of the resources for TLC. *)
EXTENDS Resources, FiniteSets

\* nothing, DSOS_CREATE, DSOS_WRITE, DSOS_EXCL, DSOS_CREATE | DSOS_EXCL
Modes == {0, 1, 3, 4, 5}

\* What tells descriptor d from others: its holder, and its fields.
Looks(d) == <<{b \in Blocks : d \in descriptors[b]}, des[d]>>

\* The state without the answer of the last call, which nothing depends on, and
\* with descriptors counted by looks: their pool is symmetric.
Anonymous ==
  <<pools, table, awaited, running, init_pcb, queues, abandoned, mode, resource,
    last_fd,
    [r \in ResourceBlocks |->
       [x \in {Looks(d) : d \in res_descriptors[r]} |->
          Cardinality({d \in res_descriptors[r] : Looks(d) = x})]],
    [b \in Blocks |-> {des[d] : d \in descriptors[b]}]>>
=============================================================================
