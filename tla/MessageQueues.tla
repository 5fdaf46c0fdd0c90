---------------------------- MODULE MessageQueues ----------------------------
(***************************************************************************)
(* The message queues of disastrOS: mqopen.c, mqclose.c, mqwrite.c,        *)
(* mqread.c, mqunlink.c with mq.c and mqdescriptor.c.  Every call is one   *)
(* step (SIGALRM is blocked), the calls of all processes interleave.       *)
(*                                                                         *)
(* messageQueues_list and the list mq->queues are kept at the level of     *)
(* pointers, because mqopen.c links one into the other.  The lists of      *)
(* messages and descriptors are sequences and sets: their callers keep the *)
(* contract under which ListClients shows that they are.  MQDescriptor and *)
(* MQDescriptorPtr blocks are taken and released in pairs from pools of    *)
(* one size, so a pair is one block here.                                  *)
(***************************************************************************)
EXTENDS LinkedList, FiniteSets

CONSTANTS
  MAX_NUM_MQS, MAX_NUM_QUEUES, MAX_NUM_MESSAGES, MAX_NUM_MESSAGES_PER_MQ,
  MAX_MESSAGE_LENGTH, MAX_NUM_MQDESCRIPTORS_PER_PROCESS,
  MaxDescriptors,   \* blocks in the descriptor pools (MAX_NUM_PROCESSES)
  Processes,        \* PCB blocks whose processes make the calls
  Ids,              \* first argument of mqOpen and mqUnlink
  FlagSets,         \* second argument of mqOpen: sets of flags
  OpenPriorities,   \* third argument of mqOpen
  WritePriorities,  \* fourth argument of mqWrite
  WriteSizes,       \* buf_size of mqWrite
  ReadSizes,        \* buf_size of mqRead
  MaxWrites         \* bound: messages ever accepted

ASSUME MessageQueuesAssumption ==
  /\ {MAX_NUM_MQS, MAX_NUM_QUEUES, MAX_NUM_MESSAGES, MAX_NUM_MESSAGES_PER_MQ,
      MAX_MESSAGE_LENGTH, MAX_NUM_MQDESCRIPTORS_PER_PROCESS,
      MaxDescriptors, MaxWrites} \subseteq Nat
  /\ FlagSets \subseteq SUBSET {"CREATE", "EXCL"}
  /\ Ids \cup OpenPriorities \cup WritePriorities \cup WriteSizes \cup ReadSizes
       \subseteq Int

VARIABLES
  mem,             \* pointers of the MessageQueue and Queue blocks
  mq_free, queue_free,     \* free blocks, the next one to hand out first
  id, priority, num_messages,  \* fields of each MessageQueue block
  queue_priority, messages,    \* fields of each Queue block
  descriptors,     \* mq->descriptors
  mq_descriptors, last_mq_fd,  \* fields of each PCB
  des,             \* pcb, fd and mq of each descriptor block
  des_free,        \* free descriptor blocks
  message_free,    \* number of free Message blocks
  written,         \* messages accepted so far: stamps them in order of arrival
  ret,             \* what the last call returned, and the stamp of the message read
  fault            \* "none", or the undefined behaviour a call ran into

store   == <<mem, mq_free, queue_free, id, priority, queue_priority>>
content == <<num_messages, messages, message_free, written>>
open    == <<descriptors, mq_descriptors, last_mq_fd, des, des_free>>
vars    == <<store, content, open, ret, fault>>

MQs == 1 .. MAX_NUM_MQS
Queues == MAX_NUM_MQS + 1 .. MAX_NUM_MQS + MAX_NUM_QUEUES
Descriptors == 1 .. MaxDescriptors
List == 0                  \* the head messageQueues_list; mq is the head mq->queues
DSOS_EMQOPEN == -18
DSOS_EMQCLOSE == -19
DSOS_EMQREAD == -20
DSOS_EMQWRITE == -21
DSOS_EMQUNLINK == -22
NoMessage == 0
Message == [stamp : 1 .. MaxWrites, length : 0 .. MAX_MESSAGE_LENGTH]

TypeOK ==
  /\ mem \in [next : [MQs \cup Queues -> MQs \cup Queues \cup {NULL}],
              prev : [MQs \cup Queues -> MQs \cup Queues \cup {NULL}],
              first : [MQs \cup {List} -> MQs \cup Queues \cup {NULL}],
              last : [MQs \cup {List} -> MQs \cup Queues \cup {NULL}],
              size : [MQs \cup {List} -> Nat]]
  /\ mq_free \in Seq(MQs)
  /\ queue_free \in Seq(Queues)
  /\ id \in [MQs -> Int]
  /\ priority \in [MQs -> 0 .. MAX_NUM_QUEUES]
  /\ num_messages \in [MQs -> 0 .. MAX_NUM_MESSAGES_PER_MQ]
  /\ queue_priority \in [Queues -> 0 .. MAX_NUM_QUEUES]
  /\ messages \in [Queues -> Seq(Message)]
  /\ descriptors \in [MQs -> SUBSET Descriptors]
  /\ mq_descriptors \in [Processes -> Seq(Descriptors)]
  /\ last_mq_fd \in [Processes -> 0 .. MAX_NUM_MQDESCRIPTORS_PER_PROCESS]
  /\ des \in [Descriptors -> [fd : Nat, mq : MQs \cup {NULL}]]
  /\ des_free \subseteq Descriptors
  /\ message_free \in 0 .. MAX_NUM_MESSAGES
  /\ written \in 0 .. MaxWrites
  /\ ret.value \in Int
  /\ fault \in {"none", "NullDereference", "TypeConfusion"}

Init ==
  /\ mem = List_init(MQs \cup {List}, MQs \cup Queues)
  /\ mq_free = [i \in MQs |-> i]
  /\ queue_free = [i \in 1 .. MAX_NUM_QUEUES |-> MAX_NUM_MQS + i]
  /\ id = [m \in MQs |-> 0]
  /\ priority = [m \in MQs |-> 0]
  /\ num_messages = [m \in MQs |-> 0]
  /\ queue_priority = [q \in Queues |-> 0]
  /\ messages = [q \in Queues |-> <<>>]
  /\ descriptors = [m \in MQs |-> {}]
  /\ mq_descriptors = [p \in Processes |-> <<>>]
  /\ last_mq_fd = [p \in Processes |-> 0]
  /\ des = [d \in Descriptors |-> [fd |-> 0, mq |-> NULL]]
  /\ des_free = Descriptors
  /\ message_free = MAX_NUM_MESSAGES
  /\ written = 0
  /\ ret = [value |-> 0, got |-> NoMessage]
  /\ fault = "none"

-----------------------------------------------------------------------------
Returns(value) == ret' = [value |-> value, got |-> NoMessage]

Fails(code) == Returns(code) /\ UNCHANGED <<store, content, open, fault>>

Crash(kind) ==
  /\ fault' = kind
  /\ UNCHANGED <<store, content, open, ret>>

\* The nodes met along next, from the first of head on, in list order.
Walk(head) ==
  LET node[n \in 1 .. MAX_NUM_MQS + MAX_NUM_QUEUES] ==
        IF n = 1 THEN mem.first[head]
        ELSE IF node[n - 1] = NULL THEN NULL ELSE mem.next[node[n - 1]]
  IN  [n \in 1 .. Cardinality({n \in DOMAIN node : node[n] # NULL}) |-> node[n]]

\* The first of s that satisfies P, NULL if there is none.
FirstOf(s, P(_)) ==
  LET hits == {i \in 1 .. Len(s) : P(s[i])}
  IN  IF hits = {} THEN NULL ELSE s[CHOOSE i \in hits : \A j \in hits : i <= j]

\* MessageQueueList_byId reads the field at the offset of MessageQueue.id of
\* every node; in a Queue that field is its priority.
MessageQueueList_byId(i) ==
  FirstOf(Walk(List), LAMBDA x : i = IF x \in MQs THEN id[x] ELSE queue_priority[x])

QueueList_byPriority(mq, i) == FirstOf(Walk(mq), LAMBDA q : queue_priority[q] = i)

MQDescriptorList_byFd(p, fd) ==
  FirstOf(mq_descriptors[p], LAMBDA d : des[d].fd = fd)
-----------------------------------------------------------------------------
\* Slips the properties must catch: one descriptor too many is granted; the loop
\* over the priorities stops one short; a message is put at the head; a read
\* goes on to the other queues when it has its message; unlink does not look at
\* the open descriptors.
TooHungryLate(p) == last_mq_fd[p] > MAX_NUM_MQDESCRIPTORS_PER_PROCESS

QueuesToAllocShort(prio) == prio

EnqueueFirst(q, m) == <<m>> \o messages[q]

ScannedAll(mq, size) ==
  {FirstOf(Walk(mq), LAMBDA q : queue_priority[q] = i) : i \in 0 .. priority[mq] - 1}

StillInUseByMessages(mq) == num_messages[mq] # 0

-----------------------------------------------------------------------------
(* mqOpen *)

TooHungry(p) == last_mq_fd[p] + 1 > MAX_NUM_MQDESCRIPTORS_PER_PROCESS

\* One queue for each priority from 0 to prio.
QueuesToAlloc(prio) == prio + 1

\* The errors that internal_mqOpen finds before it changes anything; mq is the
\* node the lookup of i found.
OpenRefused(p, i, mq, flags, prio) ==
  \/ TooHungry(p)
  \/ i < 0
  \/ mq # NULL /\ {"CREATE", "EXCL"} \subseteq flags
  \/ mq = NULL /\ \/ "CREATE" \notin flags
                  \/ mem.size[List] + 1 > MAX_NUM_MQS
                  \/ prio < 0 \/ prio > MAX_NUM_QUEUES
                  \/ mq_free = <<>>

\* The list item behind which internal_mqOpen puts a new Queue: the last item
\* of messageQueues_list, although the list is mq->queues.
QueuePredecessor == mem.last[List]

\* Memory after n queues have been allocated and inserted for the new mq.
QueuesLinked(mq, n) ==
  LET fresh == [mem EXCEPT !.next[mq] = NULL, !.prev[mq] = NULL,
                           !.first[mq] = NULL, !.last[mq] = NULL, !.size[mq] = 0]
      step[k \in 0 .. n] ==
        IF k = 0 THEN fresh
        ELSE List_insert(step[k - 1], mq, QueuePredecessor, queue_free[k])
  IN  step[n]

\* MessageQueue_alloc and n calls of Queue_alloc
AllocMQ(i, prio, n) ==
  LET mq == Head(mq_free)
      new == {queue_free[k] : k \in 1 .. n}
  IN
  /\ mq_free' = Tail(mq_free)
  /\ queue_free' = SubSeq(queue_free, n + 1, Len(queue_free))
  /\ id' = [id EXCEPT ![mq] = i]
  /\ priority' = [priority EXCEPT ![mq] = prio]
  /\ num_messages' = [num_messages EXCEPT ![mq] = 0]
  /\ queue_priority' =
       [q \in Queues |-> IF q \in new THEN (CHOOSE k \in 1 .. n : queue_free[k] = q) - 1
                         ELSE queue_priority[q]]
  /\ messages' = [q \in Queues |-> IF q \in new THEN <<>> ELSE messages[q]]
  /\ UNCHANGED <<message_free, written>>

\* The descriptor of p for mq; the message queue stays when there is no block.
\* Which block the pool hands out is never observed: it is the smallest.
OpenDescriptor(p, mq) ==
  \/ /\ des_free = {}
     /\ Returns(DSOS_EMQOPEN)
     /\ UNCHANGED open
  \/ \E d \in des_free :
       /\ \A e \in des_free : d <= e
       /\ des_free' = des_free \ {d}
       /\ des' = [des EXCEPT ![d] = [fd |-> last_mq_fd[p], mq |-> mq]]
       /\ mq_descriptors' = [mq_descriptors EXCEPT ![p] = Append(@, d)]
       /\ descriptors' = [descriptors EXCEPT ![mq] = @ \cup {d}]
       /\ last_mq_fd' = [last_mq_fd EXCEPT ![p] = @ + 1]
       /\ Returns(last_mq_fd[p])

OpenExisting(p, mq) ==
  /\ mq \in MQs
  /\ OpenDescriptor(p, mq)
  /\ UNCHANGED <<store, content, fault>>

Create(p, i, mq, prio) ==
  /\ mq = NULL
  /\ Len(queue_free) >= QueuesToAlloc(prio)
  /\ AllocMQ(i, prio, QueuesToAlloc(prio))
  /\ mem' = List_insert(QueuesLinked(Head(mq_free), QueuesToAlloc(prio)), List,
                        mem.last[List], Head(mq_free))
  /\ OpenDescriptor(p, Head(mq_free))
  /\ UNCHANGED fault

\* The pool of queues runs out half way: what was allocated is not given back.
CreateHalfway(i, mq, prio) ==
  /\ mq = NULL
  /\ Len(queue_free) < QueuesToAlloc(prio)
  /\ AllocMQ(i, prio, Len(queue_free))
  /\ mem' = QueuesLinked(Head(mq_free), Len(queue_free))
  /\ Returns(DSOS_EMQOPEN)
  /\ UNCHANGED <<open, fault>>

internal_mqOpen(p, i, flags, prio) ==
  LET mq == MessageQueueList_byId(i) IN
  /\ fault = "none"
  /\ \/ OpenRefused(p, i, mq, flags, prio) /\ Fails(DSOS_EMQOPEN)
     \/ /\ ~OpenRefused(p, i, mq, flags, prio)
        /\ \/ mq \in Queues /\ Crash("TypeConfusion")
           \/ OpenExisting(p, mq)
           \/ Create(p, i, mq, prio)
           \/ CreateHalfway(i, mq, prio)

-----------------------------------------------------------------------------
(* mqClose: fd is out of bounds only if it is no descriptor of p either *)

internal_mqClose(p, fd) ==
  LET d == MQDescriptorList_byFd(p, fd) IN
  /\ fault = "none"
  /\ \/ d = NULL /\ Fails(DSOS_EMQCLOSE)
     \/ /\ d # NULL
        /\ mq_descriptors' =
             [mq_descriptors EXCEPT ![p] = DetachAt(@, IndexIn(@, d))]
        /\ descriptors' = [descriptors EXCEPT ![des[d].mq] = @ \ {d}]
        /\ des_free' = des_free \cup {d}
        /\ last_mq_fd' = [last_mq_fd EXCEPT ![p] = @ - 1]
        /\ Returns(0)
        /\ UNCHANGED <<store, content, des, fault>>

-----------------------------------------------------------------------------
(* mqWrite and mqRead, with buffers that are not null *)

\* The priority mqWrite files a message under: an invalid one goes last.
EffectivePriority(mq, prio) ==
  IF prio < 0 \/ prio > priority[mq] - 1 THEN priority[mq] ELSE prio

Enqueue(q, m) == Append(messages[q], m)

Full(mq) == num_messages[mq] + 1 > MAX_NUM_MESSAGES_PER_MQ

internal_mqWrite(p, fd, size, prio) ==
  LET d   == MQDescriptorList_byFd(p, fd)
      mq  == des[d].mq
      q   == QueueList_byPriority(mq, EffectivePriority(mq, prio))
      bad == size < 0 \/ size > MAX_MESSAGE_LENGTH \/ d = NULL
  IN
  /\ fault = "none"
  /\ \/ bad /\ Fails(DSOS_EMQWRITE)
     \/ ~bad /\ Full(mq) /\ Fails(0)
     \/ ~bad /\ ~Full(mq) /\ (q = NULL \/ message_free = 0) /\ Fails(DSOS_EMQWRITE)
     \/ /\ ~bad /\ ~Full(mq) /\ q # NULL /\ message_free > 0
        /\ written < MaxWrites
        /\ written' = written + 1
        /\ message_free' = message_free - 1
        /\ messages' = [messages EXCEPT ![q] =
                          Enqueue(q, [stamp |-> written + 1, length |-> size])]
        /\ num_messages' = [num_messages EXCEPT ![mq] = @ + 1]
        /\ Returns(EffectivePriority(mq, prio))
        /\ UNCHANGED <<store, open, fault>>

\* The queues the loop of internal_mqRead visits until one has a head that
\* fits: a head that does not fit is detached all the same.  The queue of every
\* priority is found: num_messages > 0 means that mqWrite has found one, and the
\* list of a message queue is complete or empty.
Scanned(mq, size) ==
  LET queue(i) == QueueList_byPriority(mq, i)
      Fits(i)  == /\ messages[queue(i)] # <<>>
                  /\ size >= Head(messages[queue(i)]).length
  IN  {queue(i) : i \in {i \in 0 .. priority[mq] - 1 :
                           \A j \in 0 .. i - 1 : ~Fits(j)}}

\* The scanned queue whose head fits, if any.
Source(mq, size) ==
  {q \in Scanned(mq, size) :
     messages[q] # <<>> /\ size >= Head(messages[q]).length}

internal_mqRead(p, fd, size) ==
  LET d  == MQDescriptorList_byFd(p, fd)
      mq == des[d].mq
  IN
  /\ fault = "none"
  /\ \/ d = NULL /\ Fails(DSOS_EMQREAD)
     \/ d # NULL /\ num_messages[mq] = 0 /\ Fails(0)
     \/ /\ d # NULL /\ num_messages[mq] # 0
        /\ messages' = [q \in Queues |->
                          IF q \in Scanned(mq, size) /\ messages[q] # <<>>
                            THEN Tail(messages[q]) ELSE messages[q]]
        /\ \/ /\ Source(mq, size) = {}
              /\ Returns(0)
              /\ UNCHANGED <<num_messages, message_free>>
           \/ \E q \in Source(mq, size) :
                LET m == Head(messages[q]) IN
                /\ num_messages' = [num_messages EXCEPT ![mq] = @ - 1]
                /\ message_free' = message_free + 1
                /\ ret' = [value |-> m.length, got |-> m.stamp]
        /\ UNCHANGED <<store, open, written, fault>>

-----------------------------------------------------------------------------
(* mqUnlink *)

\* Memory and free queues after mq has been detached and, n times, the new head
\* of mq->queues too: a queue without messages is released.
Dismantled(mq, n) ==
  LET step[k \in 0 .. n] ==
        IF k = 0 THEN [mem |-> List_detach(mem, List, mq), free |-> queue_free]
        ELSE LET q == step[k - 1].mem.first[mq]
                 free == step[k - 1].free
             IN  [mem |-> List_detach(step[k - 1].mem, mq, q),
                  free |-> IF messages[q] = <<>> THEN <<q>> \o free ELSE free]
  IN  step[n]

StillInUse(mq) == num_messages[mq] # 0 \/ descriptors[mq] # {}

Unlink(mq) ==
  LET after == Dismantled(mq, priority[mq] + 1) IN
  /\ mem.first[mq] # NULL
  /\ mem' = after.mem
  /\ queue_free' = after.free
  /\ mq_free' = <<mq>> \o mq_free
  /\ Returns(0)
  /\ UNCHANGED <<id, priority, queue_priority, content, open, fault>>

internal_mqUnlink(i) ==
  LET mq == MessageQueueList_byId(i) IN
  /\ fault = "none"
  /\ \/ mq = NULL /\ Fails(DSOS_EMQUNLINK)
     \/ mq \in Queues /\ Crash("TypeConfusion")
     \/ mq \in MQs /\ StillInUse(mq) /\ Fails(DSOS_EMQUNLINK)
     \/ mq \in MQs /\ ~StillInUse(mq) /\ mem.first[mq] = NULL
        /\ Crash("NullDereference")
     \/ mq \in MQs /\ ~StillInUse(mq) /\ Unlink(mq)

\* The process in block p exits and PCB_alloc gives the block to another one:
\* no handler closes the descriptors, the new process starts with none.
ProcessReplaced(p) ==
  /\ fault = "none"
  /\ mq_descriptors[p] # <<>>
  /\ mq_descriptors' = [mq_descriptors EXCEPT ![p] = <<>>]
  /\ last_mq_fd' = [last_mq_fd EXCEPT ![p] = 0]
  /\ Returns(0)
  /\ UNCHANGED <<store, content, descriptors, des, des_free, fault>>

Fds == -1 .. MAX_NUM_MQDESCRIPTORS_PER_PROCESS

Next ==
  \/ \E p \in Processes, i \in Ids, flags \in FlagSets, prio \in OpenPriorities :
       internal_mqOpen(p, i, flags, prio)
  \/ \E p \in Processes, fd \in Fds : internal_mqClose(p, fd)
  \/ \E p \in Processes, fd \in Fds, size \in WriteSizes, prio \in WritePriorities :
       internal_mqWrite(p, fd, size, prio)
  \/ \E p \in Processes, fd \in Fds, size \in ReadSizes : internal_mqRead(p, fd, size)
  \/ \E i \in Ids : internal_mqUnlink(i)
  \/ \E p \in Processes : ProcessReplaced(p)

Spec == Init /\ [][Next]_vars
-----------------------------------------------------------------------------
(* Properties *)

LiveMQs == Elements(Walk(List)) \cap MQs
QueuesOf(mq) == Elements(Walk(mq))
StoredIn(mq) == UNION {Elements(messages[q]) : q \in QueuesOf(mq)}

(* mqopen.c: mqOpen "gives it the ability to manage |priority| priority queues.
   Priorities will go from 0 (maximum) to priority (minimum)": each message
   queue reaches, from its own list, one queue per priority, shares none with
   another message queue, and none of them is in the pool. *)
QueuesComplete ==
  \A mq \in LiveMQs :
    /\ {queue_priority[q] : q \in QueuesOf(mq)} = 0 .. priority[mq]
    /\ Cardinality(QueuesOf(mq)) = priority[mq] + 1
    /\ QueuesOf(mq) \subseteq Queues \ Elements(queue_free)
    /\ \A other \in LiveMQs \ {mq} : QueuesOf(mq) \cap QueuesOf(other) = {}

(* No descriptor dangles, whatever opens, closes, unlinks and exits of several
   processes come together: a descriptor a process can use belongs to it alone
   and refers to a message queue that is still alive and knows of it; a message
   queue with descriptors, those of dead processes included, is never back in
   the pool. *)
DescriptorsAgree ==
  /\ \A p \in Processes :
       /\ last_mq_fd[p] = Len(mq_descriptors[p])
       /\ \A d \in Elements(mq_descriptors[p]) :
            d \notin des_free /\ des[d].mq \in LiveMQs /\ d \in descriptors[des[d].mq]
       /\ \A r \in Processes \ {p} :
            Elements(mq_descriptors[p]) \cap Elements(mq_descriptors[r]) = {}
  /\ \A mq \in Elements(mq_free) : descriptors[mq] = {}

(* As long as readers offer buffers of MAX_MESSAGE_LENGTH no message is lost:
   num_messages is the number of messages in the queues of the message queue,
   and every Message block that is not in the pool is in one of them. *)
MessagesCounted ==
  /\ \A mq \in LiveMQs : num_messages[mq] = Cardinality(StoredIn(mq))
  /\ MAX_NUM_MESSAGES - message_free =
       Cardinality(UNION {StoredIn(mq) : mq \in LiveMQs})

(* mqread.c: "gets the oldest message with highest priority": at the time of
   the call, no message of the same message queue had a higher priority, and
   none of the same priority was older. *)
HighestOldestFirst ==
  [][\A mq \in LiveMQs : \A q \in QueuesOf(mq) :
       (messages[q] # <<>> /\ ret'.got # NoMessage
          /\ ret'.got = Head(messages[q]).stamp /\ messages'[q] # messages[q])
       => \A r \in QueuesOf(mq) : \A m \in Elements(messages[r]) :
            \/ queue_priority[r] > queue_priority[q]
            \/ r = q /\ m.stamp >= ret'.got]_vars
=============================================================================
