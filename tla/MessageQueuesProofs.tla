------------------------- MODULE MessageQueuesProofs -------------------------
(***************************************************************************)
(* For any number of message queues, queues, messages and processes, and   *)
(* although mqopen.c links the queues of a second message queue into       *)
(* messageQueues_list: types are kept and no descriptor dangles.  With     *)
(* readers' buffers that hold every message, none is lost, and a read      *)
(* takes the oldest message of the highest priority.  With one id, a       *)
(* message queue has a queue for each of its priorities.                   *)
(***************************************************************************)
EXTENDS MessageQueues, LinkedListProofs, FiniteSetTheorems

Nodes == MQs \cup Queues
Heads == MQs \cup {List}
Memory == MemoryOf(Nodes, Heads)

\* The bounds are natural numbers.
LEMMA ConstantsAreNumbers ==
  /\ MAX_NUM_MQS \in Nat /\ MAX_NUM_QUEUES \in Nat
  /\ MAX_NUM_MESSAGES \in Nat /\ MAX_NUM_MESSAGES_PER_MQ \in Nat
  /\ MAX_MESSAGE_LENGTH \in Nat /\ MAX_NUM_MQDESCRIPTORS_PER_PROCESS \in Nat
  /\ MaxDescriptors \in Nat /\ MaxWrites \in Nat
  BY MessageQueuesAssumption

USE ConstantsAreNumbers DEF NULL

\* Message queues, queues and the head of the list do not overlap.
LEMMA NodesAre ==
  /\ Nodes = 1 .. MAX_NUM_MQS + MAX_NUM_QUEUES
  /\ NULL \notin Nodes /\ List \notin MQs /\ MQs \cap Queues = {}
  BY DEF Nodes, MQs, Queues, List

\* The library counts intervals of integers; here they start at one.
LEMMA CardInterval ==
  ASSUME NEW k \in Nat
  PROVE  IsFiniteSet(1 .. k) /\ Cardinality(1 .. k) = k
  <1>1. 1 \in Int /\ k \in Int
    OBVIOUS
  <1>2. IsFiniteSet(1 .. k) /\ Cardinality(1 .. k) = IF 1 > k THEN 0 ELSE k - 1 + 1
    BY <1>1, FS_Interval
  <1> QED BY <1>2

-----------------------------------------------------------------------------
(* TypeOK, by the parts of the state that an action leaves alone together. *)

StoreOK ==
  /\ mem \in Memory
  /\ mq_free \in Seq(MQs)
  /\ queue_free \in Seq(Queues)
  /\ id \in [MQs -> Int]
  /\ priority \in [MQs -> 0 .. MAX_NUM_QUEUES]
  /\ queue_priority \in [Queues -> 0 .. MAX_NUM_QUEUES]

ContentOK ==
  /\ num_messages \in [MQs -> 0 .. MAX_NUM_MESSAGES_PER_MQ]
  /\ messages \in [Queues -> Seq(Message)]
  /\ message_free \in 0 .. MAX_NUM_MESSAGES
  /\ written \in 0 .. MaxWrites

OpenOK ==
  /\ descriptors \in [MQs -> SUBSET Descriptors]
  /\ mq_descriptors \in [Processes -> Seq(Descriptors)]
  /\ last_mq_fd \in [Processes -> 0 .. MAX_NUM_MQDESCRIPTORS_PER_PROCESS]
  /\ des \in [Descriptors -> [fd : Nat, mq : MQs \cup {NULL}]]
  /\ des_free \subseteq Descriptors

ResultOK == ret.value \in Int /\ fault \in {"none", "NullDereference", "TypeConfusion"}

\* The type invariant is made of those four parts.
LEMMA TypeParts == TypeOK <=> StoreOK /\ ContentOK /\ OpenOK /\ ResultOK
  BY DEF TypeOK, StoreOK, ContentOK, OpenOK, ResultOK, Memory, MemoryOf, Nodes, Heads

-----------------------------------------------------------------------------
(* The inductive invariant.  S is the list that starts at messageQueues_list,
   with the queues that were linked into it by mistake; own[mq] is the list
   mq->queues, empty if the queues of mq went into S. *)

\* S is linked both ways.  Its head is right; its tail pointer is null or points
\* at its first element.
Shape(S, own) ==
  /\ S \in Seq(Nodes) /\ Chained(mem, S)
  /\ mem.first[List] = After(S, 0)
  /\ mem.last[List] # NULL => S # <<>> /\ mem.last[List] = S[1]
  /\ mem.size[List] = Cardinality(Elements(S) \cap MQs)
  /\ own \in [MQs -> Seq(Queues)]
  /\ \A mq \in MQs :
       /\ own[mq] = <<>> /\ mq \in Elements(S) => mem.first[mq] = NULL
       /\ own[mq] # <<>> => mq \in Elements(S) /\ Represents(mem, mq, own[mq])

\* The list of a message queue runs from the lowest priority to the highest.
Ranked(own) ==
  \A mq \in MQs : own[mq] # <<>> =>
    /\ Len(own[mq]) = priority[mq] + 1
    /\ \A k \in 1 .. Len(own[mq]) : queue_priority[own[mq][k]] = priority[mq] + 1 - k

\* No block is in two places.
Apart(S, own) ==
  /\ Distinct(mq_free) /\ Distinct(queue_free)
  /\ Elements(S) \cap (Elements(mq_free) \cup Elements(queue_free)) = {}
  /\ \A mq \in MQs :
       /\ Elements(own[mq]) \cap (Elements(S) \cup Elements(queue_free)) = {}
       /\ \A other \in MQs \ {mq} : Elements(own[mq]) \cap Elements(own[other]) = {}
  /\ \A q \in Elements(queue_free) : mem.next[q] = NULL /\ mem.prev[q] = NULL

\* With one id there is at most one message queue, and it has its queues.
OneName == \A i, j \in Ids : i >= 0 /\ j >= 0 => i = j

Single(S, own) ==
  \/ S = <<>> /\ mem.last[List] = NULL
  \/ \E mq \in MQs : /\ S = <<mq>> /\ mem.last[List] = mq
                     /\ own[mq] # <<>> /\ id[mq] \in Ids /\ id[mq] >= 0

Held(p) == Elements(mq_descriptors[p])

Opened(L) ==
  /\ \A p \in Processes :
       /\ Distinct(mq_descriptors[p]) /\ last_mq_fd[p] = Len(mq_descriptors[p])
       /\ \A d \in Held(p) :
            d \notin des_free /\ des[d].mq \in L /\ d \in descriptors[des[d].mq]
       /\ \A r \in Processes \ {p} : Held(p) \cap Held(r) = {}
  /\ \A mq \in MQs : \A d \in descriptors[mq] :
       mq \in L /\ d \notin des_free /\ des[d].mq = mq

\* Stamps tell messages apart and grow along each queue.
Stamped(msgs, last) ==
  \A q, r \in Queues : \A i \in 1 .. Len(msgs[q]), j \in 1 .. Len(msgs[r]) :
    /\ msgs[q][i].stamp <= last
    /\ msgs[q][i].stamp = msgs[r][j].stamp => q = r /\ i = j
    /\ q = r /\ i < j => msgs[q][i].stamp < msgs[r][j].stamp

InQueues(msgs, Q) == UNION {Elements(msgs[q]) : q \in Q}

\* With such buffers a head always fits.
LargeBuffers == \A size \in ReadSizes : size >= MAX_MESSAGE_LENGTH

Counted(S, own) ==
  /\ \A q \in Queues : messages[q] # <<>> => \E mq \in MQs : q \in Elements(own[mq])
  /\ \A mq \in MQs : LET n == Cardinality(InQueues(messages, Elements(own[mq]))) IN
       /\ mq \in Elements(S) /\ own[mq] = <<>> => num_messages[mq] = 0
       /\ own[mq] # <<>> => n <= num_messages[mq]
       /\ own[mq] # <<>> /\ LargeBuffers => n = num_messages[mq]
  /\ Cardinality(InQueues(messages, Queues)) <= MAX_NUM_MESSAGES - message_free
  /\ LargeBuffers => Cardinality(InQueues(messages, Queues)) = MAX_NUM_MESSAGES - message_free

Whole(S, own) ==
  /\ Shape(S, own) /\ Ranked(own) /\ Apart(S, own)
  /\ OneName => Single(S, own)
  /\ Opened(Elements(S) \cap MQs)
  /\ Stamped(messages, written) /\ Counted(S, own)

MQInv == TypeOK /\ \E S, own : Whole(S, own)

-----------------------------------------------------------------------------
(* Walking and looking up *)

\* A list without repetitions is not longer than there are nodes.
LEMMA ListFits ==
  ASSUME NEW n \in Nat, NEW s \in Seq(1 .. n), Distinct(s)
  PROVE  Len(s) <= n
  <1>1. s \in [1 .. Len(s) -> 1 .. n] /\ Len(s) \in Nat
    OBVIOUS
  <1>2. IsFiniteSet(1 .. Len(s)) /\ Cardinality(1 .. Len(s)) = Len(s)
    BY <1>1, CardInterval
  <1>3. IsFiniteSet(1 .. n) /\ Cardinality(1 .. n) = n
    BY CardInterval
  <1>4. ASSUME Len(s) > n PROVE FALSE
    <2>1. \E x, y \in 1 .. Len(s) : x # y /\ s[x] = s[y]
      BY <1>1, <1>2, <1>3, <1>4, FS_PigeonHole
    <2> QED BY <2>1 DEF Distinct
  <1> QED BY <1>1, <1>4

\* Following the next pointers from a head gives the list that is linked there.
LEMMA WalkIs ==
  ASSUME NEW head, NEW s \in Seq(Nodes), Chained(mem, s),
         mem.first[head] = IF s = <<>> THEN NULL ELSE s[1]
  PROVE  Walk(head) = s
  <1> DEFINE N == MAX_NUM_MQS + MAX_NUM_QUEUES
             Step(f) == [n \in 1 .. N |->
                           IF n = 1 THEN mem.first[head]
                           ELSE IF f[n - 1] = NULL THEN NULL ELSE mem.next[f[n - 1]]]
             node == CHOOSE f : f = Step(f)
             want == [n \in 1 .. N |-> IF n <= Len(s) THEN s[n] ELSE NULL]
  <1>1. N \in Nat /\ Len(s) \in Nat /\ Len(s) <= N /\ Distinct(s)
    BY ListFits, NodesAre DEF Chained
  <1>2. \A i \in 1 .. Len(s) : s[i] \in Nodes /\ s[i] # NULL
    BY NodesAre
  <1>3. \A i \in 1 .. Len(s) : mem.next[s[i]] = IF i = Len(s) THEN NULL ELSE s[i + 1]
    BY DEF Chained
  <1>4. want = Step(want)
    <2>1. ASSUME NEW n \in 1 .. N PROVE want[n] = Step(want)[n]
      <3>1. CASE n = 1
        BY <3>1, <1>1
      <3>2. CASE n # 1 /\ n - 1 <= Len(s)
        <4>1. n - 1 \in 1 .. Len(s) /\ want[n - 1] = s[n - 1] /\ n - 1 + 1 = n
          BY <3>2, <1>1
        <4> QED BY <4>1, <3>2, <1>1, <1>2, <1>3
      <3>3. CASE n # 1 /\ n - 1 > Len(s)
        <4>1. n - 1 \in 1 .. N /\ want[n - 1] = NULL /\ want[n] = NULL
          BY <3>3, <1>1
        <4> QED BY <4>1, <3>3
      <3> QED BY <3>1, <3>2, <3>3, <1>1
    <2> HIDE DEF N
    <2> QED BY <2>1
  <1>5. node = Step(node)
    BY <1>4
  <1> HIDE DEF node, want
  <1>6. node = want
    <2> DEFINE T == {n \in 1 .. N : node[n] # want[n]}
    <2>1. ASSUME T # {} PROVE FALSE
      <3>1. T \in SUBSET Nat
        OBVIOUS
      <3>2. PICK m \in T : \A n \in T : m <= n
        BY <2>1, <3>1, LeastNatural
      <3>3. m \in 1 .. N /\ node[m] # want[m]
        OBVIOUS
      <3>4. m = 1 \/ (m - 1 \in 1 .. N /\ node[m - 1] = want[m - 1])
        BY <3>2, <3>3, <1>1
      <3>5. node[m] = Step(node)[m] /\ want[m] = Step(want)[m]
        BY <1>4, <1>5
      <3> HIDE DEF N
      <3> QED BY <3>3, <3>4, <3>5
    <2>2. \A n \in 1 .. N : node[n] = want[n]
      BY <2>1
    <2> HIDE DEF N
    <2>3. node = [n \in 1 .. N |-> node[n]] /\ want = [n \in 1 .. N |-> want[n]]
      BY <1>5, <1>4
    <2> QED BY <2>2, <2>3
  <1>7. {n \in DOMAIN node : node[n] # NULL} = 1 .. Len(s)
    BY <1>1, <1>2, <1>6 DEF want
  <1>8. Cardinality(1 .. Len(s)) = Len(s)
    BY <1>1, CardInterval
  <1>9. Walk(head) = [n \in 1 .. Len(s) |-> node[n]]
    BY <1>7, <1>8 DEF Walk, node
  <1>10. Walk(head) = [n \in 1 .. Len(s) |-> s[n]]
    BY <1>1, <1>6, <1>9 DEF want
  <1> QED BY <1>10

\* What every search in messageQueues_list goes through, queues included.
LEMMA WalkFromList ==
  ASSUME NEW S, NEW own, Shape(S, own)
  PROVE  Walk(List) = S
  <1>1. mem.first[List] = IF S = <<>> THEN NULL ELSE S[1]
    BY DEF Shape, After
  <1> QED BY <1>1, WalkIs DEF Shape

\* What every search in mq->queues goes through.
LEMMA WalkFromMQ ==
  ASSUME NEW S, NEW own, Shape(S, own), NEW mq \in Elements(S) \cap MQs
  PROVE  Walk(mq) = own[mq]
  <1>1. CASE own[mq] = <<>>
    <2>1. mem.first[mq] = NULL /\ <<>> \in Seq(Nodes) /\ Chained(mem, <<>>)
      BY <1>1 DEF Shape, Chained, Distinct
    <2> QED BY <1>1, <2>1, WalkIs
  <1>2. CASE own[mq] # <<>>
    <2>1. Represents(mem, mq, own[mq]) /\ own[mq] \in Seq(Nodes)
      BY <1>2 DEF Shape, Nodes
    <2>2. /\ Chained(mem, own[mq])
          /\ mem.first[mq] = IF own[mq] = <<>> THEN NULL ELSE own[mq][1]
      BY <2>1, RepresentsIs
    <2> QED BY <2>1, <2>2, WalkIs
  <1> QED BY <1>1, <1>2

\* The message queues that are alive, and the queues each of them reaches.
LEMMA LiveIs ==
  ASSUME NEW S, NEW own, Shape(S, own)
  PROVE  /\ LiveMQs = Elements(S) \cap MQs
         /\ \A mq \in LiveMQs : QueuesOf(mq) = Elements(own[mq])
  BY WalkFromList, WalkFromMQ DEF LiveMQs, QueuesOf

\* The least of the positions that satisfy a condition.
LEMMA FirstHit ==
  ASSUME NEW H \in SUBSET Nat, H # {}
  PROVE  /\ (CHOOSE i \in H : \A j \in H : i <= j) \in H
         /\ \A j \in H : (CHOOSE i \in H : \A k \in H : i <= k) <= j
  <1>1. \E i \in H : \A j \in H : i <= j
    BY LeastNatural
  <1> QED BY <1>1

\* MessageQueueList_byId finds no block outside the list, and misses none.
LEMMA FoundMQ ==
  ASSUME NEW S, NEW own, Shape(S, own), NEW i
  PROVE  /\ MessageQueueList_byId(i) \in Elements(S) \cup {NULL}
         /\ MessageQueueList_byId(i) = NULL =>
              \A mq \in Elements(S) \cap MQs : id[mq] # i
  <1> DEFINE s == Walk(List)
             hits == {k \in 1 .. Len(s) :
                        i = IF s[k] \in MQs THEN id[s[k]] ELSE queue_priority[s[k]]}
             k == CHOOSE n \in hits : \A m \in hits : n <= m
  <1>1. s = S
    BY WalkFromList
  <1>2. MessageQueueList_byId(i) = IF hits = {} THEN NULL ELSE s[k]
    BY DEF MessageQueueList_byId, FirstOf
  <1> HIDE DEF s
  <1>3. hits # {} => k \in 1 .. Len(s)
    <2>1. hits \in SUBSET Nat
      OBVIOUS
    <2> HIDE DEF hits
    <2>2. hits # {} => k \in hits
      BY <2>1, FirstHit
    <2> QED BY <2>2 DEF hits
  <1>4. hits # {} => s[k] \in Elements(S)
    BY <1>1, <1>3 DEF Elements
  <1>5. NULL \notin Elements(S)
    BY NodesAre, ElementsType DEF Shape
  <1>6. ASSUME hits = {}, NEW mq \in Elements(S) \cap MQs PROVE id[mq] # i
    <2>1. PICK j \in 1 .. Len(S) : S[j] = mq
      BY DEF Elements
    <2> QED BY <1>1, <1>6, <2>1
  <1> HIDE DEF hits, k
  <1>7. CASE hits = {}
    BY <1>2, <1>6, <1>7
  <1>8. CASE hits # {}
    BY <1>2, <1>4, <1>5, <1>8
  <1> QED BY <1>7, <1>8

\* A call only finds descriptors of its own process.
LEMMA FoundDescriptor ==
  ASSUME OpenOK, NEW p \in Processes, NEW fd
  PROVE  MQDescriptorList_byFd(p, fd) \in Held(p) \cup {NULL}
  <1> DEFINE s == mq_descriptors[p]
             hits == {k \in 1 .. Len(s) : des[s[k]].fd = fd}
             k == CHOOSE n \in hits : \A m \in hits : n <= m
  <1>1. MQDescriptorList_byFd(p, fd) = IF hits = {} THEN NULL ELSE s[k]
    BY DEF MQDescriptorList_byFd, FirstOf
  <1>2. hits \in SUBSET Nat /\ hits \subseteq 1 .. Len(s)
    OBVIOUS
  <1> HIDE DEF hits
  <1>3. hits # {} => k \in 1 .. Len(s)
    BY <1>2, FirstHit
  <1> QED BY <1>1, <1>3 DEF Held, Elements

\* QueueList_byPriority finds the queue by its rank in the list, if there is one.
LEMMA FoundQueue ==
  ASSUME NEW S, NEW own, Shape(S, own), Ranked(own), StoreOK,
         NEW mq \in Elements(S) \cap MQs, NEW i \in 0 .. priority[mq]
  PROVE  QueueList_byPriority(mq, i) =
           IF own[mq] = <<>> THEN NULL ELSE own[mq][priority[mq] + 1 - i]
  <1> DEFINE s == Walk(mq)
             hits == {k \in 1 .. Len(s) : queue_priority[s[k]] = i}
             k == CHOOSE n \in hits : \A m \in hits : n <= m
  <1>0. s = own[mq]
    BY WalkFromMQ
  <1>1. QueueList_byPriority(mq, i) = IF hits = {} THEN NULL ELSE s[k]
    BY DEF QueueList_byPriority, FirstOf
  <1> HIDE DEF s
  <1>2. CASE s = <<>>
    <2>1. hits = {}
      BY <1>2
    <2> QED BY <1>0, <1>1, <1>2, <2>1
  <1>3. CASE s # <<>>
    <2>1. priority[mq] \in Nat /\ Len(s) = priority[mq] + 1
      BY <1>0, <1>3 DEF Ranked, StoreOK
    <2>2. \A j \in 1 .. Len(s) : queue_priority[s[j]] = priority[mq] + 1 - j
      BY <1>0, <1>3 DEF Ranked
    <2>3. hits = {priority[mq] + 1 - i}
      <3> DEFINE P == priority[mq]
      <3>1. P \in Nat /\ Len(s) = P + 1 /\ i \in 0 .. P
        BY <2>1
      <3> HIDE DEF P
      <3>2. P + 1 - i \in 1 .. Len(s)
        BY <3>1
      <3>3. \A j \in 1 .. Len(s) : P + 1 - j = i <=> j = P + 1 - i
        BY <3>1
      <3> QED BY <2>2, <3>2, <3>3 DEF P
    <2> HIDE DEF hits
    <2>4. k = priority[mq] + 1 - i
      <3>1. hits \in SUBSET Nat
        BY <2>1, <2>3
      <3>2. k \in hits
        BY <2>3, <3>1, FirstHit
      <3> QED BY <2>3, <3>2
    <2> QED BY <1>0, <1>1, <1>3, <2>3, <2>4
  <1> QED BY <1>2, <1>3

-----------------------------------------------------------------------------
(* Descriptors *)

\* mqOpen takes a free descriptor for a live message queue.
LEMMA OpenDescriptorKeeps ==
  ASSUME OpenOK, NEW L \in SUBSET MQs, Opened(L), NEW p \in Processes, NEW mq \in L,
         ~TooHungry(p), OpenDescriptor(p, mq)
  PROVE  OpenOK' /\ Opened(L)' /\ ret'.value \in Int
  <1>1. last_mq_fd[p] \in Nat /\ last_mq_fd[p] + 1 <= MAX_NUM_MQDESCRIPTORS_PER_PROCESS
    BY DEF OpenOK, TooHungry
  <1>2. CASE UNCHANGED open /\ Returns(DSOS_EMQOPEN)
    <2>1. OpenOK' /\ Opened(L)'
      BY <1>2 DEF OpenOK, Opened, Held, open
    <2> QED BY <1>2, <2>1 DEF Returns, DSOS_EMQOPEN
  <1>3. CASE \E d \in des_free :
               /\ des_free' = des_free \ {d}
               /\ des' = [des EXCEPT ![d] = [fd |-> last_mq_fd[p], mq |-> mq]]
               /\ mq_descriptors' = [mq_descriptors EXCEPT ![p] = Append(@, d)]
               /\ descriptors' = [descriptors EXCEPT ![mq] = @ \cup {d}]
               /\ last_mq_fd' = [last_mq_fd EXCEPT ![p] = @ + 1]
               /\ Returns(last_mq_fd[p])
    <2>1. PICK d \in des_free :
               /\ des_free' = des_free \ {d}
               /\ des' = [des EXCEPT ![d] = [fd |-> last_mq_fd[p], mq |-> mq]]
               /\ mq_descriptors' = [mq_descriptors EXCEPT ![p] = Append(@, d)]
               /\ descriptors' = [descriptors EXCEPT ![mq] = @ \cup {d}]
               /\ last_mq_fd' = [last_mq_fd EXCEPT ![p] = @ + 1]
               /\ Returns(last_mq_fd[p])
      BY <1>3
    <2>2. d \in Descriptors /\ mq \in MQs
      BY DEF OpenOK
    <2>3. /\ \A r \in Processes : d \notin Held(r)
          /\ \A m \in MQs : d \notin descriptors[m]
      BY DEF Opened
    <2> DEFINE s == mq_descriptors[p]
    <2>4. s \in Seq(Descriptors) /\ Distinct(s) /\ Len(s) = last_mq_fd[p]
      BY DEF OpenOK, Opened
    <2>5. /\ Append(s, d) \in Seq(Descriptors)
          /\ Elements(Append(s, d)) = Elements(s) \cup {d}
          /\ Distinct(Append(s, d))
          /\ Len(Append(s, d)) = Len(s) + 1
      BY <2>2, <2>3, <2>4, AppendElements DEF Held
    <2> HIDE DEF s
    <2>6. OpenOK'
      BY <1>1, <2>1, <2>2, <2>5 DEF OpenOK, s
    <2>7. /\ mq_descriptors'[p] = Append(s, d)
          /\ Held(p)' = Held(p) \cup {d}
          /\ last_mq_fd'[p] = Len(s) + 1
          /\ \A r \in Processes \ {p} : /\ mq_descriptors'[r] = mq_descriptors[r]
                                        /\ last_mq_fd'[r] = last_mq_fd[r]
                                        /\ Held(r)' = Held(r)
      BY <2>1, <2>4, <2>5 DEF OpenOK, Held, s
    <2>8. /\ des'[d].mq = mq
          /\ \A e \in Descriptors \ {d} : des'[e] = des[e]
          /\ \A m \in MQs : descriptors'[m] = IF m = mq THEN descriptors[m] \cup {d}
                                               ELSE descriptors[m]
      BY <2>1, <2>2 DEF OpenOK
    <2>9. ASSUME NEW r \in Processes
          PROVE  /\ Distinct(mq_descriptors'[r]) /\ last_mq_fd'[r] = Len(mq_descriptors'[r])
                 /\ \A e \in Held(r)' :
                      e \notin des_free' /\ des'[e].mq \in L /\ e \in descriptors'[des'[e].mq]
                 /\ \A q \in Processes \ {r} : Held(r)' \cap Held(q)' = {}
      <3>1. Distinct(mq_descriptors'[r]) /\ last_mq_fd'[r] = Len(mq_descriptors'[r])
        BY <2>5, <2>7 DEF Opened
      <3>2. ASSUME NEW e \in Held(r)'
            PROVE  e \notin des_free' /\ des'[e].mq \in L /\ e \in descriptors'[des'[e].mq]
        <4>1. CASE e = d
          <5>1. d \notin des_free'
            BY <2>1
          <5>2. descriptors'[mq] = descriptors[mq] \cup {d}
            BY <2>2, <2>8
          <5> QED BY <2>8, <4>1, <5>1, <5>2
        <4>2. CASE e # d
          <5>1. e \in Held(r)
            BY <2>7, <3>2, <4>2
          <5>2. e \in Descriptors
            BY <5>1, ElementsType DEF Held, OpenOK
          <5> QED BY <2>1, <2>8, <4>2, <5>1, <5>2 DEF Opened
        <4> QED BY <4>1, <4>2
      <3>3. \A q \in Processes \ {r} : Held(r)' \cap Held(q)' = {}
        <4>1. \A q \in Processes \ {r} : Held(r) \cap Held(q) = {}
          BY DEF Opened
        <4>2. \A q \in Processes : Held(q)' = IF q = p THEN Held(q) \cup {d} ELSE Held(q)
          BY <2>7
        <4> QED BY <2>3, <4>1, <4>2
      <3> QED BY <3>1, <3>2, <3>3
    <2>10. ASSUME NEW m \in MQs, NEW e \in descriptors'[m]
           PROVE  m \in L /\ e \notin des_free' /\ des'[e].mq = m
      <3>1. CASE e = d
        BY <2>1, <2>3, <2>8, <3>1, <2>10
      <3>2. CASE e # d
        <4>1. e \in descriptors[m] /\ descriptors[m] \subseteq Descriptors
          <5>1. descriptors'[m] = IF m = mq THEN descriptors[m] \cup {d} ELSE descriptors[m]
            BY <2>8
          <5> QED BY <5>1, <3>2, <2>10 DEF OpenOK
        <4> QED BY <2>1, <2>8, <3>2, <4>1 DEF Opened
      <3> QED BY <3>1, <3>2
    <2>11. Opened(L)'
      BY <2>9, <2>10 DEF Opened
    <2>12. ret'.value \in Int
      BY <1>1, <2>1 DEF Returns
    <2> QED BY <2>6, <2>11, <2>12
  <1> QED BY <1>2, <1>3 DEF OpenDescriptor

\* mqClose takes a descriptor out of both lists that it is in.
LEMMA CloseKeeps ==
  ASSUME OpenOK, NEW L \in SUBSET MQs, Opened(L), NEW p \in Processes, NEW d \in Held(p),
         mq_descriptors' = [mq_descriptors EXCEPT ![p] = DetachAt(@, IndexIn(@, d))],
         descriptors' = [descriptors EXCEPT ![des[d].mq] = @ \ {d}],
         des_free' = des_free \cup {d},
         last_mq_fd' = [last_mq_fd EXCEPT ![p] = @ - 1],
         des' = des
  PROVE  OpenOK' /\ Opened(L)'
  <1> DEFINE s == mq_descriptors[p]
             t == DetachAt(s, IndexIn(s, d))
  <1>1. s \in Seq(Descriptors) /\ Distinct(s) /\ Len(s) = last_mq_fd[p]
    BY DEF OpenOK, Opened
  <1>2. IndexIn(s, d) \in 1 .. Len(s) /\ s[IndexIn(s, d)] = d
    BY IndexInList DEF Held
  <1>3. /\ t \in Seq(Descriptors) /\ Len(t) = Len(s) - 1
        /\ Elements(t) = Elements(s) \ {d} /\ Distinct(t)
    <2> DEFINE k == IndexIn(s, d)
    <2>1. k \in 1 .. Len(s) /\ s[k] = d
      BY <1>2
    <2> HIDE DEF k, s
    <2> USE <1>1, <2>1
    <2>2. DetachAt(s, k) \in Seq(Descriptors) /\ Len(DetachAt(s, k)) = Len(s) - 1
      BY DetachAtSeq
    <2>3. Elements(DetachAt(s, k)) = Elements(s) \ {s[k]}
      BY DetachAtElements
    <2>4. Distinct(DetachAt(s, k))
      BY DetachAtDistinct
    <2> QED BY <2>2, <2>3, <2>4 DEF k
  <1>4. d \in Descriptors /\ des[d].mq \in L /\ L \subseteq MQs
    BY <1>1, ElementsType DEF Held, Opened
  <1>5. last_mq_fd[p] - 1 \in 0 .. MAX_NUM_MQDESCRIPTORS_PER_PROCESS
    BY <1>1, <1>2 DEF OpenOK
  <1>6. mq_descriptors' = [mq_descriptors EXCEPT ![p] = t]
    OBVIOUS
  <1> HIDE DEF s, t
  <1>7. OpenOK'
    BY <1>3, <1>4, <1>5, <1>6 DEF OpenOK
  <1>8. /\ mq_descriptors'[p] = t
        /\ Held(p)' = Held(p) \ {d}
        /\ last_mq_fd'[p] = Len(t)
        /\ \A r \in Processes \ {p} : /\ mq_descriptors'[r] = mq_descriptors[r]
                                      /\ last_mq_fd'[r] = last_mq_fd[r]
                                      /\ Held(r)' = Held(r)
    BY <1>1, <1>3, <1>6 DEF OpenOK, Held, s
  <1>9. /\ \A r \in Processes : d \notin Held(r)'
        /\ \A r \in Processes : Held(r)' \subseteq Held(r)
    BY <1>8 DEF Opened
  <1>10. \A m \in MQs : descriptors'[m] = descriptors[m] \ {d}
    <2>1. \A m \in MQs : d \in descriptors[m] => m = des[d].mq
      BY DEF Opened
    <2> QED BY <1>4, <2>1 DEF OpenOK
  <1>11. ASSUME NEW r \in Processes
         PROVE  /\ Distinct(mq_descriptors'[r]) /\ last_mq_fd'[r] = Len(mq_descriptors'[r])
                /\ \A e \in Held(r)' :
                     e \notin des_free' /\ des'[e].mq \in L /\ e \in descriptors'[des'[e].mq]
                /\ \A q \in Processes \ {r} : Held(r)' \cap Held(q)' = {}
    <2>1. Distinct(mq_descriptors'[r]) /\ last_mq_fd'[r] = Len(mq_descriptors'[r])
      BY <1>3, <1>8 DEF Opened
    <2>2. ASSUME NEW e \in Held(r)'
          PROVE  e \notin des_free' /\ des'[e].mq \in L /\ e \in descriptors'[des'[e].mq]
      <3>1. e \in Held(r) /\ e # d
        BY <1>9, <2>2
      <3>2. e \notin des_free /\ des[e].mq \in L /\ e \in descriptors[des[e].mq]
        BY <3>1 DEF Opened
      <3> QED BY <1>10, <3>1, <3>2
    <2>3. \A q \in Processes \ {r} : Held(r)' \cap Held(q)' = {}
      <3>1. \A q \in Processes \ {r} : Held(r) \cap Held(q) = {}
        BY DEF Opened
      <3> QED BY <1>9, <3>1
    <2> QED BY <2>1, <2>2, <2>3
  <1>12. ASSUME NEW m \in MQs, NEW e \in descriptors'[m]
         PROVE  m \in L /\ e \notin des_free' /\ des'[e].mq = m
    <2>1. e \in descriptors[m] /\ e # d
      BY <1>10, <1>12
    <2> QED BY <2>1 DEF Opened
  <1>13. Opened(L)'
    BY <1>11, <1>12 DEF Opened
  <1> QED BY <1>7, <1>13

\* A process that dies leaves its descriptors with the next one in its block.
LEMMA ReplaceKeeps ==
  ASSUME OpenOK, NEW L \in SUBSET MQs, Opened(L), NEW p \in Processes, ProcessReplaced(p)
  PROVE  OpenOK' /\ Opened(L)'
  <1>1. /\ mq_descriptors' = [mq_descriptors EXCEPT ![p] = <<>>]
        /\ last_mq_fd' = [last_mq_fd EXCEPT ![p] = 0]
        /\ descriptors' = descriptors /\ des' = des /\ des_free' = des_free
    BY DEF ProcessReplaced
  <1>2. OpenOK'
    BY <1>1 DEF OpenOK
  <1>3. /\ mq_descriptors'[p] = <<>> /\ last_mq_fd'[p] = 0 /\ Held(p)' = {}
        /\ \A r \in Processes \ {p} : /\ mq_descriptors'[r] = mq_descriptors[r]
                                      /\ last_mq_fd'[r] = last_mq_fd[r]
                                      /\ Held(r)' = Held(r)
    BY <1>1, EmptyElements DEF OpenOK, Held
  <1>4. \A r \in Processes : /\ Distinct(mq_descriptors'[r])
                             /\ last_mq_fd'[r] = Len(mq_descriptors'[r])
                             /\ Held(r)' \subseteq Held(r)
    BY <1>3, EmptyElements DEF Opened
  <1>5. \A r \in Processes : \A q \in Processes \ {r} : Held(r)' \cap Held(q)' = {}
    <2>1. \A r \in Processes : \A q \in Processes \ {r} : Held(r) \cap Held(q) = {}
      BY DEF Opened
    <2> QED BY <1>4, <2>1
  <1>6. Opened(L)'
    BY <1>1, <1>4, <1>5 DEF Opened
  <1> QED BY <1>2, <1>6

-----------------------------------------------------------------------------
(* Messages *)

Contents == [Queues -> Seq(Message)]

\* A stored message is in one of the queues.
LEMMA InQueuesMember ==
  ASSUME NEW msgs, NEW Q, NEW x
  PROVE  x \in InQueues(msgs, Q) <=> \E q \in Q : x \in Elements(msgs[q])
  BY DEF InQueues

\* So messages can be counted.
LEMMA InQueuesFinite ==
  ASSUME NEW msgs \in Contents, NEW Q \in SUBSET Queues
  PROVE  IsFiniteSet(InQueues(msgs, Q)) /\ Cardinality(InQueues(msgs, Q)) \in Nat
  <1> DEFINE F == [q \in Q |-> Elements(msgs[q])]
             E == {Elements(msgs[q]) : q \in Q}
  <1>1. IsFiniteSet(Q)
    <2>1. MAX_NUM_MQS + 1 \in Int /\ MAX_NUM_MQS + MAX_NUM_QUEUES \in Int
      OBVIOUS
    <2>2. IsFiniteSet(Queues)
      BY <2>1, FS_Interval DEF Queues
    <2> QED BY <2>2, FS_Subset
  <1>2. IsFiniteSet(E)
    <2>1. F \in Surjection(Q, E)
      BY DEF Surjection
    <2> HIDE DEF F, E
    <2> QED BY <1>1, <2>1, FS_Surjection
  <1>3. ASSUME NEW q \in Q PROVE IsFiniteSet(Elements(msgs[q]))
    <2> DEFINE s == msgs[q]
    <2>1. s \in Seq(Message) /\ Len(s) \in Nat
      BY DEF Contents
    <2>2. [i \in 1 .. Len(s) |-> s[i]] \in Surjection(1 .. Len(s), Elements(s))
      BY DEF Surjection, Elements
    <2> HIDE DEF s
    <2>3. IsFiniteSet(Elements(s))
      BY <2>1, <2>2, CardInterval, FS_Surjection
    <2> QED BY <2>3 DEF s
  <1>4. \A T \in E : IsFiniteSet(T)
    BY <1>3
  <1>5. IsFiniteSet(UNION E)
    <2> HIDE DEF E
    <2> QED BY <1>2, <1>4, FS_UNION
  <1>6. IsFiniteSet(InQueues(msgs, Q))
    BY <1>5 DEF InQueues
  <1> QED BY <1>6, FS_CardinalityType

\* No message is stored twice.
LEMMA StampsDistinct ==
  ASSUME NEW msgs, NEW last, Stamped(msgs, last), NEW q \in Queues
  PROVE  /\ Distinct(msgs[q])
         /\ \A r \in Queues \ {q} : Elements(msgs[q]) \cap Elements(msgs[r]) = {}
         /\ \A m \in Elements(msgs[q]) : m.stamp <= last
  <1>1. Distinct(msgs[q])
    <2> SUFFICES ASSUME NEW i \in 1 .. Len(msgs[q]), NEW j \in 1 .. Len(msgs[q]),
                        msgs[q][i] = msgs[q][j]
                 PROVE  i = j
      BY DEF Distinct
    <2> QED BY DEF Stamped
  <1>2. ASSUME NEW r \in Queues \ {q}, NEW x \in Elements(msgs[q]), x \in Elements(msgs[r])
        PROVE  FALSE
    <2>1. PICK i \in 1 .. Len(msgs[q]) : x = msgs[q][i]
      BY DEF Elements
    <2>2. PICK j \in 1 .. Len(msgs[r]) : x = msgs[r][j]
      BY <1>2 DEF Elements
    <2>3. msgs[q][i].stamp = msgs[r][j].stamp => q = r
      BY DEF Stamped
    <2> QED BY <2>1, <2>2, <2>3
  <1>3. ASSUME NEW m \in Elements(msgs[q]) PROVE m.stamp <= last
    <2>1. PICK i \in 1 .. Len(msgs[q]) : m = msgs[q][i]
      BY DEF Elements
    <2> QED BY <2>1 DEF Stamped
  <1> QED BY <1>1, <1>2, <1>3

\* From msgs to new, delta messages more in the queues of Own, or fewer than
\* that if a buffer was short.
Grows(msgs, new, Own, delta) ==
  \A Q \in SUBSET Queues :
    /\ Q \cap Own = {} => Cardinality(InQueues(new, Q)) = Cardinality(InQueues(msgs, Q))
    /\ Own \subseteq Q =>
         /\ Cardinality(InQueues(new, Q)) <= Cardinality(InQueues(msgs, Q)) + delta
         /\ LargeBuffers =>
              Cardinality(InQueues(new, Q)) = Cardinality(InQueues(msgs, Q)) + delta

\* A message put at the end of q.
LEMMA OneMessageMore ==
  ASSUME NEW msgs \in Contents, NEW last \in Nat, Stamped(msgs, last), NEW q \in Queues,
         NEW m \in Message, m.stamp = last + 1,
         NEW new \in Contents, new[q] = Append(msgs[q], m),
         \A r \in Queues \ {q} : new[r] = msgs[r]
  PROVE  /\ Stamped(new, last + 1)
         /\ \A Own \in SUBSET Queues : q \in Own => Grows(msgs, new, Own, 1)
  <1>1. \A r \in Queues : msgs[r] \in Seq(Message)
    BY DEF Contents
  <1> DEFINE s == msgs[q]
             t == Append(s, m)
  <1>2. s \in Seq(Message) /\ Len(s) \in Nat
    BY <1>1
  <1>3. /\ t \in Seq(Message)
        /\ Len(t) = Len(s) + 1
        /\ \A i \in 1 .. Len(s) : t[i] = s[i]
        /\ t[Len(s) + 1] = m
        /\ Elements(t) = Elements(s) \cup {m}
    BY <1>2, AppendProperties, AppendElements
  <1>4. /\ new[q] = t
        /\ \A r \in Queues \ {q} : new[r] = msgs[r]
    OBVIOUS
  <1> HIDE DEF s, t
  <1>5. ASSUME NEW x \in Queues, NEW i \in 1 .. Len(new[x])
        PROVE  \/ i \in 1 .. Len(msgs[x]) /\ new[x][i] = msgs[x][i]
               \/ x = q /\ i = Len(s) + 1 /\ new[x][i] = m
    <2>1. CASE x # q
      BY <1>4, <2>1
    <2>2. CASE x = q
      <3>1. new[x] = t /\ msgs[x] = s
        BY <1>4, <2>2 DEF s
      <3>2. i = Len(s) + 1 \/ i \in 1 .. Len(s)
        BY <1>2, <1>3, <3>1
      <3> QED BY <1>3, <2>2, <3>1, <3>2
    <2> QED BY <2>1, <2>2
  <1>6. ASSUME NEW z \in Queues, NEW k \in 1 .. Len(msgs[z])
        PROVE  msgs[z][k].stamp \in Nat /\ msgs[z][k].stamp <= last
    <2>1. msgs[z][k] \in Message
      BY <1>1
    <2> QED BY <2>1 DEF Stamped, Message
  <1>7. Stamped(new, last + 1)
    <2> SUFFICES ASSUME NEW x \in Queues, NEW y \in Queues,
                        NEW i \in 1 .. Len(new[x]), NEW j \in 1 .. Len(new[y])
                 PROVE  /\ new[x][i].stamp <= last + 1
                        /\ new[x][i].stamp = new[y][j].stamp => x = y /\ i = j
                        /\ x = y /\ i < j => new[x][i].stamp < new[y][j].stamp
      BY DEF Stamped
    <2> DEFINE a == new[x][i].stamp
               b == new[y][j].stamp
    <2>1. \/ i \in 1 .. Len(msgs[x]) /\ a = msgs[x][i].stamp /\ a \in Nat /\ a <= last
          \/ x = q /\ i = Len(s) + 1 /\ a = last + 1
      BY <1>5, <1>6
    <2>2. \/ j \in 1 .. Len(msgs[y]) /\ b = msgs[y][j].stamp /\ b \in Nat /\ b <= last
          \/ y = q /\ j = Len(s) + 1 /\ b = last + 1
      BY <1>5, <1>6
    <2>3. ASSUME i \in 1 .. Len(msgs[x]), a = msgs[x][i].stamp,
                 j \in 1 .. Len(msgs[y]), b = msgs[y][j].stamp
          PROVE  (a = b => x = y /\ i = j) /\ (x = y /\ i < j => a < b)
      BY <2>3 DEF Stamped
    <2>4. x = q => msgs[x] = s
      BY DEF s
    <2> HIDE DEF a, b
    <2>5. a <= last + 1
      BY <2>1
    <2>6. (a = b => x = y /\ i = j) /\ (x = y /\ i < j => a < b)
      BY <1>2, <2>1, <2>2, <2>3, <2>4
    <2> QED BY <2>5, <2>6 DEF a, b
  <1>8. ASSUME NEW Q \in SUBSET Queues
        PROVE  Cardinality(InQueues(new, Q)) =
                 IF q \in Q THEN Cardinality(InQueues(msgs, Q)) + 1
                 ELSE Cardinality(InQueues(msgs, Q))
    <2>1. m \notin InQueues(msgs, Q)
      BY InQueuesMember, StampsDistinct
    <2>2. ASSUME NEW r \in Queues, NEW x
          PROVE  x \in Elements(new[r]) <=> x \in Elements(msgs[r]) \/ (r = q /\ x = m)
      <3>1. CASE r = q
        <4>1. new[r] = t /\ msgs[r] = s
          BY <1>4, <3>1 DEF s
        <4> QED BY <1>3, <3>1, <4>1
      <3>2. CASE r # q
        <4>1. new[r] = msgs[r]
          BY <1>4, <3>2
        <4> QED BY <3>2, <4>1
      <3> QED BY <3>1, <3>2
    <2>3. InQueues(new, Q) = IF q \in Q THEN InQueues(msgs, Q) \cup {m} ELSE InQueues(msgs, Q)
      <3>1. ASSUME NEW x
            PROVE  x \in InQueues(new, Q) <=>
                     x \in InQueues(msgs, Q) \/ (q \in Q /\ x = m)
        <4>1. x \in InQueues(new, Q) <=> \E r \in Q : x \in Elements(new[r])
          BY InQueuesMember
        <4>2. x \in InQueues(msgs, Q) <=> \E r \in Q : x \in Elements(msgs[r])
          BY InQueuesMember
        <4>3. \A r \in Q : x \in Elements(new[r]) <=> x \in Elements(msgs[r]) \/ (r = q /\ x = m)
          BY <2>2
        <4> QED BY <4>1, <4>2, <4>3
      <3>2. CASE q \in Q
        BY <3>1, <3>2
      <3>3. CASE q \notin Q
        BY <3>1, <3>3
      <3> QED BY <3>2, <3>3
    <2> QED BY <2>1, <2>3, InQueuesFinite, FS_AddElement
  <1>9. \A Q \in SUBSET Queues : /\ Cardinality(InQueues(msgs, Q)) \in Nat
                                 /\ Cardinality(InQueues(new, Q)) \in Nat
    BY InQueuesFinite
  <1>10. ASSUME NEW Own \in SUBSET Queues, q \in Own PROVE Grows(msgs, new, Own, 1)
    BY <1>8, <1>9, <1>10 DEF Grows
  <1> QED BY <1>7, <1>10

\* From msgs to new, the heads of the queues in R are taken.
Beheaded(msgs, R, new) ==
  /\ R \in SUBSET Queues
  /\ \A r \in R : msgs[r] # <<>> /\ new[r] = Tail(msgs[r])
  /\ \A r \in Queues \ R : new[r] = msgs[r]

\* Without the first message of each queue in R the stamps still grow, and
\* the messages are fewer by one at least, and by one if R is a single queue.
LEMMA HeadsTaken ==
  ASSUME NEW msgs \in Contents, NEW new \in Contents, NEW last \in Nat, Stamped(msgs, last),
         NEW R, Beheaded(msgs, R, new)
  PROVE  /\ Stamped(new, last)
         /\ \A Q \in SUBSET Queues :
              /\ Cardinality(InQueues(new, Q)) <= Cardinality(InQueues(msgs, Q))
              /\ Q \cap R = {} => InQueues(new, Q) = InQueues(msgs, Q)
              /\ Q \cap R # {} =>
                   /\ Cardinality(InQueues(msgs, Q)) > 0
                   /\ Cardinality(InQueues(new, Q)) <= Cardinality(InQueues(msgs, Q)) - 1
              /\ \A r \in Q : R = {r} =>
                   Cardinality(InQueues(new, Q)) = Cardinality(InQueues(msgs, Q)) - 1
  <1>0. /\ R \in SUBSET Queues
        /\ \A r \in R : msgs[r] # <<>> /\ new[r] = Tail(msgs[r])
        /\ \A r \in Queues \ R : new[r] = msgs[r]
    BY DEF Beheaded
  <1> USE <1>0
  <1> DEFINE shift(r) == IF r \in R THEN 1 ELSE 0
  <1>1. \A r \in Queues : msgs[r] \in Seq(Message) /\ Len(msgs[r]) \in Nat
    BY DEF Contents
  <1>2. ASSUME NEW r \in Queues
        PROVE  \A i \in 1 .. Len(new[r]) :
                 i + shift(r) \in 1 .. Len(msgs[r]) /\ new[r][i] = msgs[r][i + shift(r)]
    <2> DEFINE t == msgs[r]
    <2>1. t \in Seq(Message)
      BY <1>1
    <2>2. CASE r \in R
      <3>1. t # <<>> /\ new[r] = Tail(t)
        BY <2>2
      <3> HIDE DEF t
      <3>2. Len(new[r]) = Len(t) - 1 /\ \A i \in 1 .. Len(new[r]) : new[r][i] = t[i + 1]
        BY <2>1, <3>1, HeadTailProperties
      <3>3. Len(t) \in Nat
        BY <2>1
      <3>4. \A i \in 1 .. Len(t) - 1 : i + 1 \in 1 .. Len(t)
        BY <3>3
      <3> QED BY <2>2, <3>2, <3>4 DEF t
    <2>3. CASE r \notin R
      <3>1. new[r] = t
        BY <2>3
      <3> QED BY <1>1, <2>3, <3>1
    <2> QED BY <2>2, <2>3
  <1>3. \A r \in Queues : shift(r) \in Nat
    OBVIOUS
  <1> HIDE DEF shift
  <1>4. Stamped(new, last)
    <2> SUFFICES ASSUME NEW x \in Queues, NEW y \in Queues,
                        NEW i \in 1 .. Len(new[x]), NEW j \in 1 .. Len(new[y])
                 PROVE  /\ new[x][i].stamp <= last
                        /\ new[x][i].stamp = new[y][j].stamp => x = y /\ i = j
                        /\ x = y /\ i < j => new[x][i].stamp < new[y][j].stamp
      BY DEF Stamped
    <2> DEFINE k == i + shift(x)
               l == j + shift(y)
    <2>1. /\ k \in 1 .. Len(msgs[x]) /\ new[x][i] = msgs[x][k]
          /\ l \in 1 .. Len(msgs[y]) /\ new[y][j] = msgs[y][l]
      BY <1>2
    <2>2. x = y => (k = l <=> i = j) /\ (k < l <=> i < j)
      BY <1>3
    <2> HIDE DEF k, l
    <2>3. /\ msgs[x][k].stamp <= last
          /\ msgs[x][k].stamp = msgs[y][l].stamp => x = y /\ k = l
          /\ x = y /\ k < l => msgs[x][k].stamp < msgs[y][l].stamp
      BY <2>1 DEF Stamped
    <2> QED BY <2>1, <2>2, <2>3
  <1>5. ASSUME NEW r \in Queues
        PROVE  Elements(new[r]) = IF r \in R THEN Elements(msgs[r]) \ {Head(msgs[r])}
                                  ELSE Elements(msgs[r])
    <2>1. CASE r \in R
      <3>1. msgs[r] \in Seq(Message) /\ msgs[r] # <<>> /\ Distinct(msgs[r])
        BY <1>1, <2>1, StampsDistinct
      <3>2. Elements(Tail(msgs[r])) = Elements(msgs[r]) \ {Head(msgs[r])}
        BY <3>1, TailElements
      <3> QED BY <2>1, <3>2
    <2>2. CASE r \notin R
      BY <2>2
    <2> QED BY <2>1, <2>2
  <1>6. ASSUME NEW Q \in SUBSET Queues
        PROVE  /\ InQueues(new, Q) \subseteq InQueues(msgs, Q)
               /\ Q \cap R = {} => InQueues(new, Q) = InQueues(msgs, Q)
               /\ \A r \in Q \cap R :
                    /\ Head(msgs[r]) \in InQueues(msgs, Q)
                    /\ Head(msgs[r]) \notin InQueues(new, Q)
               /\ \A r \in Q : R = {r} =>
                    InQueues(new, Q) = InQueues(msgs, Q) \ {Head(msgs[r])}
    <2>1. \A x : /\ x \in InQueues(new, Q) <=> \E r \in Q : x \in Elements(new[r])
                 /\ x \in InQueues(msgs, Q) <=> \E r \in Q : x \in Elements(msgs[r])
      BY InQueuesMember
    <2>2. \A r \in Q : Elements(new[r]) \subseteq Elements(msgs[r])
      BY <1>5
    <2>3. InQueues(new, Q) \subseteq InQueues(msgs, Q)
      BY <2>1, <2>2
    <2>4. ASSUME Q \cap R = {} PROVE InQueues(new, Q) = InQueues(msgs, Q)
      <3>1. \A r \in Q : Elements(new[r]) = Elements(msgs[r])
        BY <1>5, <2>4
      <3>2. \A x : x \in InQueues(new, Q) <=> x \in InQueues(msgs, Q)
        BY <2>1, <3>1
      <3> QED BY <3>2
    <2>5. ASSUME NEW r \in Q \cap R
          PROVE  Head(msgs[r]) \in InQueues(msgs, Q) /\ Head(msgs[r]) \notin InQueues(new, Q)
      <3>1. Head(msgs[r]) \in Elements(msgs[r])
        BY <1>1, ElementsType
      <3>2. \A o \in Q \ {r} : Head(msgs[r]) \notin Elements(msgs[o])
        BY <3>1, StampsDistinct
      <3>3. Head(msgs[r]) \notin Elements(new[r])
        BY <1>5
      <3> QED BY <2>1, <2>2, <3>1, <3>2, <3>3
    <2>6. ASSUME NEW r \in Q, R = {r}
          PROVE  InQueues(new, Q) = InQueues(msgs, Q) \ {Head(msgs[r])}
      <3>1. \A o \in Q : Elements(new[o]) = IF o = r THEN Elements(msgs[o]) \ {Head(msgs[r])}
                                            ELSE Elements(msgs[o])
        BY <1>5, <2>6
      <3>2. Head(msgs[r]) \notin InQueues(new, Q)
        BY <2>5, <2>6
      <3>3. \A x : x \in InQueues(msgs, Q) /\ x # Head(msgs[r]) => x \in InQueues(new, Q)
        BY <2>1, <3>1
      <3> QED BY <2>3, <3>2, <3>3
    <2> QED BY <2>3, <2>4, <2>5, <2>6
  <1>7. ASSUME NEW Q \in SUBSET Queues
        PROVE  /\ Cardinality(InQueues(new, Q)) <= Cardinality(InQueues(msgs, Q))
               /\ Q \cap R # {} =>
                    /\ Cardinality(InQueues(msgs, Q)) > 0
                    /\ Cardinality(InQueues(new, Q)) <= Cardinality(InQueues(msgs, Q)) - 1
               /\ \A r \in Q : R = {r} =>
                    Cardinality(InQueues(new, Q)) = Cardinality(InQueues(msgs, Q)) - 1
    <2> DEFINE A == InQueues(msgs, Q)
               B == InQueues(new, Q)
    <2>1. /\ IsFiniteSet(A) /\ Cardinality(A) \in Nat
          /\ IsFiniteSet(B) /\ Cardinality(B) \in Nat
      BY InQueuesFinite
    <2>2. B \in SUBSET A
      BY <1>6
    <2>3. \A r \in Q \cap R : Head(msgs[r]) \in A /\ Head(msgs[r]) \notin B
      BY <1>6
    <2>4. \A r \in Q : R = {r} => B = A \ {Head(msgs[r])}
      BY <1>6
    <2> HIDE DEF A, B
    <2>5. Cardinality(B) <= Cardinality(A)
      BY <2>1, <2>2, FS_Subset
    <2>6. ASSUME NEW r \in Q \cap R
          PROVE  /\ Cardinality(A) > 0 /\ Cardinality(B) <= Cardinality(A) - 1
      <3> DEFINE h == Head(msgs[r])
      <3>1. h \in A /\ B \in SUBSET (A \ {h})
        BY <2>2, <2>3
      <3> HIDE DEF h
      <3>2. IsFiniteSet(A \ {h}) /\ Cardinality(A \ {h}) = Cardinality(A) - 1
        BY <2>1, <3>1, FS_RemoveElement
      <3>3. Cardinality(B) <= Cardinality(A \ {h})
        BY <3>1, <3>2, FS_Subset
      <3> QED BY <2>1, <3>2, <3>3
    <2>7. ASSUME NEW r \in Q, R = {r}
          PROVE  Cardinality(B) = Cardinality(A) - 1
      <3>1. Head(msgs[r]) \in A /\ B = A \ {Head(msgs[r])}
        BY <2>3, <2>4, <2>7
      <3> QED BY <2>1, <3>1, FS_RemoveElement
    <2> QED BY <2>5, <2>6, <2>7 DEF A, B
  <1> QED BY <1>4, <1>6, <1>7

\* No other message queue shares a queue with mq.
Alone(own, mq) ==
  \A other \in MQs \ {mq} : Elements(own[mq]) \cap Elements(own[other]) = {}

CountersGrow(mq, delta) ==
  /\ \A x \in MQs : num_messages'[x] =
                       IF x = mq THEN num_messages[x] + delta ELSE num_messages[x]
  /\ message_free' = message_free - delta

\* If the messages in one list of queues and both counters change by the same
\* number, the counters stay right for every message queue.
LEMMA CountKeeps ==
  ASSUME ContentOK, ContentOK', NEW S, NEW own \in [MQs -> Seq(Queues)], Counted(S, own),
         NEW mq \in Elements(S) \cap MQs, own[mq] # <<>>, Alone(own, mq),
         NEW delta \in Int, Grows(messages, messages', Elements(own[mq]), delta),
         CountersGrow(mq, delta),
         \A r \in Queues \ Elements(own[mq]) : messages'[r] = messages[r]
  PROVE  Counted(S, own)'
  <1> DEFINE n(x) == Cardinality(InQueues(messages, Elements(own[x])))
             all  == Cardinality(InQueues(messages, Queues))
  <1>1. \A x \in MQs : Elements(own[x]) \in SUBSET Queues
    BY ElementsType
  <1>2. /\ \A x \in MQs : n(x) \in Nat /\ n(x)' \in Nat
        /\ all \in Nat /\ all' \in Nat
    <2>1. messages \in Contents /\ messages' \in Contents
      BY DEF ContentOK, Contents
    <2> QED BY <1>1, <2>1, InQueuesFinite
  <1>3. \A x \in MQs \ {mq} : n(x)' = n(x)
    BY <1>1 DEF Alone, Grows
  <1>4. /\ n(mq)' <= n(mq) + delta
        /\ LargeBuffers => n(mq)' = n(mq) + delta
        /\ all' <= all + delta
        /\ LargeBuffers => all' = all + delta
    BY <1>1 DEF Grows
  <1>5. \A x \in MQs :
          /\ x \in Elements(S) /\ own[x] = <<>> => num_messages[x] = 0
          /\ own[x] # <<>> => n(x) <= num_messages[x]
          /\ own[x] # <<>> /\ LargeBuffers => n(x) = num_messages[x]
    BY DEF Counted
  <1>6. /\ all <= MAX_NUM_MESSAGES - message_free
        /\ LargeBuffers => all = MAX_NUM_MESSAGES - message_free
    BY DEF Counted
  <1>7. \A x \in MQs : num_messages[x] \in Nat
    BY DEF ContentOK
  <1>8. message_free \in Nat /\ message_free' = message_free - delta
    BY DEF ContentOK, CountersGrow
  <1>9. ASSUME NEW r \in Queues, messages'[r] # <<>>
        PROVE  \E x \in MQs : r \in Elements(own[x])
    BY <1>9 DEF Counted
  <1> HIDE DEF n, all
  <1>10. \A x \in MQs :
           /\ x \in Elements(S) /\ own[x] = <<>> => num_messages'[x] = 0
           /\ own[x] # <<>> => n(x)' <= num_messages'[x]
           /\ own[x] # <<>> /\ LargeBuffers => n(x)' = num_messages'[x]
    <2> SUFFICES ASSUME NEW x \in MQs
                 PROVE  /\ x \in Elements(S) /\ own[x] = <<>> => num_messages'[x] = 0
                        /\ own[x] # <<>> => n(x)' <= num_messages'[x]
                        /\ own[x] # <<>> /\ LargeBuffers => n(x)' = num_messages'[x]
      OBVIOUS
    <2>1. CASE x = mq
      <3>1. num_messages'[x] = num_messages[x] + delta
        BY <2>1 DEF CountersGrow
      <3> QED BY <1>2, <1>4, <1>5, <1>7, <2>1, <3>1
    <2>2. CASE x # mq
      <3>1. num_messages'[x] = num_messages[x] /\ n(x)' = n(x)
        BY <1>3, <2>2 DEF CountersGrow
      <3> QED BY <1>5, <3>1
    <2> QED BY <2>1, <2>2
  <1>11. /\ all' <= MAX_NUM_MESSAGES - message_free'
         /\ LargeBuffers => all' = MAX_NUM_MESSAGES - message_free'
    BY <1>2, <1>4, <1>6, <1>8
  <1> QED BY <1>9, <1>10, <1>11 DEF Counted, n, all

\* mqWrite stores one message and counts it twice.
LEMMA WriteKeeps ==
  ASSUME ContentOK, Stamped(messages, written),
         NEW S, NEW own \in [MQs -> Seq(Queues)], Counted(S, own),
         NEW mq \in Elements(S) \cap MQs, NEW q \in Elements(own[mq]),
         Alone(own, mq), NEW m \in Message, m.stamp = written + 1,
         ~Full(mq), message_free > 0, written < MaxWrites,
         written' = written + 1, message_free' = message_free - 1,
         messages' = [messages EXCEPT ![q] = Append(messages[q], m)],
         num_messages' = [num_messages EXCEPT ![mq] = @ + 1]
  PROVE  ContentOK' /\ Stamped(messages', written') /\ Counted(S, own)'
  <1>1. q \in Queues /\ written \in Nat /\ messages \in Contents /\ own[mq] # <<>>
    BY ElementsType, EmptyElements DEF ContentOK, Contents
  <1>2. messages' \in Contents
    <2>1. Append(messages[q], m) \in Seq(Message)
      BY <1>1, AppendElements DEF Contents
    <2> QED BY <1>1, <2>1 DEF Contents
  <1>3. /\ messages'[q] = Append(messages[q], m)
        /\ \A r \in Queues \ {q} : messages'[r] = messages[r]
    BY <1>1 DEF Contents
  <1>4. \A x \in MQs : num_messages'[x] =
                         IF x = mq THEN num_messages[x] + 1 ELSE num_messages[x]
    BY DEF ContentOK
  <1>5. ContentOK'
    <2>1. num_messages[mq] + 1 \in 0 .. MAX_NUM_MESSAGES_PER_MQ
      BY DEF ContentOK, Full
    <2>2. num_messages' \in [MQs -> 0 .. MAX_NUM_MESSAGES_PER_MQ]
      BY <2>1 DEF ContentOK
    <2>3. message_free' \in 0 .. MAX_NUM_MESSAGES /\ written' \in 0 .. MaxWrites
      BY DEF ContentOK
    <2> QED BY <1>2, <2>2, <2>3 DEF ContentOK, Contents
  <1>6. Stamped(messages', written') /\ Grows(messages, messages', Elements(own[mq]), 1)
    <2> DEFINE msgs == messages
               new == messages'
               last == written
               Own == Elements(own[mq])
    <2>1. /\ msgs \in Contents /\ new \in Contents /\ last \in Nat /\ Stamped(msgs, last)
          /\ q \in Queues /\ m \in Message /\ m.stamp = last + 1
          /\ new[q] = Append(msgs[q], m) /\ \A r \in Queues \ {q} : new[r] = msgs[r]
          /\ Own \in SUBSET Queues /\ q \in Own
      BY <1>1, <1>2, <1>3, ElementsType
    <2>2. written' = last + 1
      OBVIOUS
    <2> HIDE DEF msgs, new, last, Own
    <2>3. Stamped(new, last + 1) /\ Grows(msgs, new, Own, 1)
      BY <2>1, OneMessageMore
    <2> QED BY <2>2, <2>3 DEF msgs, new, last, Own
  <1>7. Counted(S, own)'
    <2>1. 1 \in Int /\ \A r \in Queues \ Elements(own[mq]) : messages'[r] = messages[r]
      BY <1>3
    <2>2. CountersGrow(mq, 1)
      BY <1>4 DEF CountersGrow
    <2> QED BY <1>1, <1>5, <1>6, <2>1, <2>2, CountKeeps
  <1> QED BY <1>5, <1>6, <1>7

\* R: the queues of mq whose heads a read has taken off; s, if there is one: the
\* queue the reader gets its message from.
LEMMA ReadKeeps ==
  ASSUME ContentOK, Stamped(messages, written),
         NEW S, NEW own \in [MQs -> Seq(Queues)], Counted(S, own),
         NEW mq \in Elements(S) \cap MQs, own[mq] # <<>>, num_messages[mq] # 0,
         Alone(own, mq), NEW R \in SUBSET Elements(own[mq]), \A r \in R : messages[r] # <<>>,
         messages' = [q \in Queues |-> IF q \in R THEN Tail(messages[q]) ELSE messages[q]],
         written' = written,
         NEW taken \in SUBSET R,
         LargeBuffers => R = taken /\ \A r, o \in R : r = o,
         \/ taken = {} /\ UNCHANGED <<num_messages, message_free>>
         \/ /\ taken # {}
            /\ num_messages' = [num_messages EXCEPT ![mq] = @ - 1]
            /\ message_free' = message_free + 1
  PROVE  ContentOK' /\ Stamped(messages', written') /\ Counted(S, own)'
  <1> DEFINE Own == Elements(own[mq])
  <1>1. Own \in SUBSET Queues /\ R \in SUBSET Queues /\ R \in SUBSET Own
    BY ElementsType
  <1>2. messages \in Contents /\ messages' \in Contents
    <2>1. \A r \in R : Tail(messages[r]) \in Seq(Message)
      BY <1>1 DEF ContentOK
    <2> QED BY <2>1 DEF ContentOK, Contents
  <1>3. /\ Stamped(messages', written)
        /\ \A Q \in SUBSET Queues :
             /\ Cardinality(InQueues(messages', Q)) <= Cardinality(InQueues(messages, Q))
             /\ Q \cap R = {} => InQueues(messages', Q) = InQueues(messages, Q)
             /\ Q \cap R # {} =>
                  /\ Cardinality(InQueues(messages, Q)) > 0
                  /\ Cardinality(InQueues(messages', Q)) <= Cardinality(InQueues(messages, Q)) - 1
             /\ \A r \in Q : R = {r} =>
                  Cardinality(InQueues(messages', Q)) = Cardinality(InQueues(messages, Q)) - 1
    <2> DEFINE msgs == messages
               new == messages'
               last == written
    <2>1. /\ msgs \in Contents /\ new \in Contents /\ last \in Nat /\ Stamped(msgs, last)
          /\ Beheaded(msgs, R, new)
      BY <1>1, <1>2 DEF ContentOK, Beheaded
    <2> HIDE DEF msgs, new, last
    <2>2. /\ Stamped(new, last)
          /\ \A Q \in SUBSET Queues :
               /\ Cardinality(InQueues(new, Q)) <= Cardinality(InQueues(msgs, Q))
               /\ Q \cap R = {} => InQueues(new, Q) = InQueues(msgs, Q)
               /\ Q \cap R # {} =>
                    /\ Cardinality(InQueues(msgs, Q)) > 0
                    /\ Cardinality(InQueues(new, Q)) <= Cardinality(InQueues(msgs, Q)) - 1
               /\ \A r \in Q : R = {r} =>
                    Cardinality(InQueues(new, Q)) = Cardinality(InQueues(msgs, Q)) - 1
      BY <2>1, HeadsTaken
    <2> QED BY <2>2 DEF msgs, new, last
  <1> DEFINE delta == IF taken = {} THEN 0 ELSE -1
  <1>4. /\ delta \in Int /\ message_free' = message_free - delta
        /\ \A x \in MQs : num_messages'[x] =
                            IF x = mq THEN num_messages[x] + delta ELSE num_messages[x]
    BY DEF ContentOK
  <1>5. taken # {} => /\ Cardinality(InQueues(messages, Queues)) > 0
                      /\ Cardinality(InQueues(messages, Queues)) <= MAX_NUM_MESSAGES - message_free
    BY <1>1, <1>3 DEF Counted
  <1>6. ContentOK'
    <2>1. num_messages[mq] \in 0 .. MAX_NUM_MESSAGES_PER_MQ
      BY DEF ContentOK
    <2>2. num_messages' \in [MQs -> 0 .. MAX_NUM_MESSAGES_PER_MQ]
      <3>1. num_messages[mq] - 1 \in 0 .. MAX_NUM_MESSAGES_PER_MQ
        BY <2>1
      <3>2. num_messages \in [MQs -> 0 .. MAX_NUM_MESSAGES_PER_MQ]
        BY DEF ContentOK
      <3> QED BY <3>1, <3>2
    <2>3. message_free' \in 0 .. MAX_NUM_MESSAGES
      <3>1. Cardinality(InQueues(messages, Queues)) \in Nat
        BY <1>2, InQueuesFinite
      <3> QED BY <1>5, <3>1 DEF ContentOK
    <2> QED BY <1>2, <2>2, <2>3 DEF ContentOK, Contents
  <1>7. ASSUME NEW Q \in SUBSET Queues
        PROVE  /\ Q \cap Own = {} =>
                    Cardinality(InQueues(messages', Q)) = Cardinality(InQueues(messages, Q))
               /\ Own \subseteq Q =>
                    Cardinality(InQueues(messages', Q)) <= Cardinality(InQueues(messages, Q)) + delta
               /\ Own \subseteq Q /\ LargeBuffers =>
                    Cardinality(InQueues(messages', Q)) = Cardinality(InQueues(messages, Q)) + delta
    <2> DEFINE a == Cardinality(InQueues(messages, Q))
               b == Cardinality(InQueues(messages', Q))
    <2>1. a \in Nat /\ b \in Nat
      BY <1>2, InQueuesFinite
    <2>2. /\ b <= a
          /\ Q \cap R = {} => b = a
          /\ Q \cap R # {} => b <= a - 1
          /\ \A r \in Q : R = {r} => b = a - 1
      BY <1>3
    <2> HIDE DEF a, b, Own
    <2>3. Q \cap Own = {} => b = a
      BY <1>1, <2>2
    <2>4. Own \subseteq Q => b <= a + delta
      <3>1. CASE taken = {}
        BY <2>1, <2>2, <3>1
      <3>2. CASE taken # {}
        <4>1. Own \subseteq Q => Q \cap R # {}
          BY <1>1, <3>2
        <4>2. delta = -1
          BY <3>2
        <4> QED BY <2>1, <2>2, <4>1, <4>2
      <3> QED BY <3>1, <3>2
    <2>5. ASSUME Own \subseteq Q, LargeBuffers PROVE b = a + delta
      <3>1. CASE taken = {}
        <4>1. Q \cap R = {}
          BY <2>5, <3>1
        <4> QED BY <2>1, <2>2, <3>1, <4>1
      <3>2. CASE taken # {}
        <4>1. PICK r \in taken : TRUE
          BY <3>2
        <4>2. R = {r} /\ r \in Q
          BY <1>1, <2>5, <4>1
        <4>3. delta = -1
          BY <3>2
        <4> QED BY <2>1, <2>2, <4>2, <4>3
      <3> QED BY <3>1, <3>2
    <2> QED BY <2>3, <2>4, <2>5 DEF a, b
  <1>8. \A r \in Queues \ Own : messages'[r] = messages[r]
    BY <1>1
  <1> HIDE DEF delta
  <1>9. Grows(messages, messages', Own, delta)
    <2> HIDE DEF Own
    <2> QED BY <1>7 DEF Grows
  <1>10. Counted(S, own)'
    <2>1. CountersGrow(mq, delta)
      BY <1>4 DEF CountersGrow
    <2> HIDE DEF Own
    <2>2. \A r \in Queues \ Elements(own[mq]) : messages'[r] = messages[r]
      BY <1>8 DEF Own
    <2>3. Grows(messages, messages', Elements(own[mq]), delta)
      BY <1>9 DEF Own
    <2> QED BY <1>4, <1>6, <2>1, <2>2, <2>3, CountKeeps
  <1> QED BY <1>3, <1>6, <1>10

-----------------------------------------------------------------------------
(* A new message queue *)

\* mq with no links and an empty list.
Fresh(mq) ==
  [mem EXCEPT !.next[mq] = NULL, !.prev[mq] = NULL,
              !.first[mq] = NULL, !.last[mq] = NULL, !.size[mq] = 0]

\* Message_queue_alloc resets the block it hands out and no other.
LEMMA FreshFields ==
  ASSUME mem \in Memory, NEW mq \in MQs
  PROVE  /\ Fresh(mq) \in Memory
         /\ Fresh(mq).next[mq] = NULL /\ Fresh(mq).prev[mq] = NULL
         /\ Fresh(mq).first[mq] = NULL /\ Fresh(mq).last[mq] = NULL /\ Fresh(mq).size[mq] = 0
         /\ \A i \in Nodes \ {mq} : Fresh(mq).next[i] = mem.next[i] /\ Fresh(mq).prev[i] = mem.prev[i]
         /\ \A h \in Heads \ {mq} : /\ Fresh(mq).first[h] = mem.first[h]
                                    /\ Fresh(mq).last[h] = mem.last[h]
                                    /\ Fresh(mq).size[h] = mem.size[h]
  <1>1. /\ mem = [next |-> mem.next, prev |-> mem.prev,
                  first |-> mem.first, last |-> mem.last, size |-> mem.size]
        /\ mem.next \in [Nodes -> Nodes \cup {NULL}] /\ mem.prev \in [Nodes -> Nodes \cup {NULL}]
        /\ mem.first \in [Heads -> Nodes \cup {NULL}] /\ mem.last \in [Heads -> Nodes \cup {NULL}]
        /\ mem.size \in [Heads -> Nat]
    BY DEF Memory, MemoryOf
  <1>2. mq \in Nodes /\ mq \in Heads
    BY DEF Nodes, Heads
  <1>3. /\ Fresh(mq).next = [mem.next EXCEPT ![mq] = NULL]
        /\ Fresh(mq).prev = [mem.prev EXCEPT ![mq] = NULL]
        /\ Fresh(mq).first = [mem.first EXCEPT ![mq] = NULL]
        /\ Fresh(mq).last = [mem.last EXCEPT ![mq] = NULL]
        /\ Fresh(mq).size = [mem.size EXCEPT ![mq] = 0]
    BY <1>1 DEF Fresh
  <1>4. Fresh(mq) \in Memory
    BY <1>2 DEF Memory, MemoryOf, Fresh
  <1> QED BY <1>1, <1>2, <1>3, <1>4

\* What holds of a fresh mq and is kept by every insertion holds in the end.
LEMMA QueuesLinkedSteps ==
  ASSUME NEW mq, NEW n \in Nat, NEW D \in [0 .. n -> SUBSET Memory], Fresh(mq) \in D[0],
         \A k \in 1 .. n : \A m \in D[k - 1] :
           List_insert(m, mq, QueuePredecessor, queue_free[k]) \in D[k]
  PROVE  QueuesLinked(mq, n) \in D[n]
  <1> DEFINE F(k, m) == List_insert(m, mq, QueuePredecessor, queue_free[k])
             G == [k \in 1 .. n |-> {z \in Memory \X Memory : z[2] = F(k, z[1])}]
             Step(c) == [k \in 0 .. n |-> IF k = 0 THEN Fresh(mq) ELSE F(k, c[k - 1])]
             step == CHOOSE c : c = Step(c)
  <1>1. Advances(n, D, G)
    <2> SUFFICES ASSUME NEW k \in 1 .. n, NEW x \in D[k - 1]
                 PROVE  <<x, F(k, x)>> \in G[k] /\ F(k, x) \in D[k]
      <3> HIDE DEF F, G
      <3> QED BY DEF Advances
    <2>1. F(k, x) \in D[k]
      OBVIOUS
    <2>2. k \in 0 .. n /\ k - 1 \in 0 .. n
      OBVIOUS
    <2>3. x \in Memory /\ F(k, x) \in Memory
      BY <2>1, <2>2
    <2> HIDE DEF F
    <2> QED BY <2>1, <2>3
  <1> HIDE DEF F
  <1>2. PICK f \in [0 .. n -> Memory] :
          f[0] = Fresh(mq) /\ Runs(f, n, D, G)
    <2> HIDE DEF G
    <2>1. Stages(D, n, Memory) /\ Fresh(mq) \in D[0]
      BY DEF Stages
    <2>2. \E f : RunsFrom(f, Fresh(mq), n, D, G, Memory)
      BY <1>1, <2>1, RunExists
    <2> QED BY <2>2 DEF RunsFrom
  <1>3. f[n] \in D[n] /\ \A k \in 1 .. n : f[k] = F(k, f[k - 1])
    <2>1. f[n] \in D[n] /\ \A k \in 1 .. n : <<f[k - 1], f[k]>> \in G[k]
      <3> HIDE DEF G
      <3>1. n \in 0 .. n
        OBVIOUS
      <3> QED BY <1>2, <3>1 DEF Runs
    <2> QED BY <2>1
  <1>4. f = Step(f)
    <2>1. \A k \in 0 .. n : f[k] = Step(f)[k]
      BY <1>2, <1>3
    <2> QED BY <2>1
  <1>5. step = Step(step)
    BY <1>4
  <1> HIDE DEF step
  <1>6. step[n] = f[n]
    <2>1. step[0] = f[0]
      BY <1>2, <1>5
    <2>2. \A k \in 1 .. n : step[k - 1] = f[k - 1] => step[k] = f[k]
      BY <1>3, <1>5
    <2> QED BY <2>1, <2>2, SameSteps
  <1>7. QueuesLinked(mq, n) = step[n]
    BY DEF QueuesLinked, step, F, Fresh
  <1> QED BY <1>3, <1>6, <1>7

\* The first n free queues: as a set, and in the order of a list each of them
\* has been put in front of.
Taken(n) == {queue_free[j] : j \in 1 .. n}
Backwards(n) == [j \in 1 .. n |-> queue_free[n + 1 - j]]

\* Insertion at the front leaves the blocks in reverse order.
LEMMA BackwardsIs ==
  ASSUME queue_free \in Seq(Queues), Distinct(queue_free), NEW n \in 0 .. Len(queue_free)
  PROVE  /\ Backwards(n) \in Seq(Queues) /\ Len(Backwards(n)) = n
         /\ \A j \in 1 .. n : Backwards(n)[j] = queue_free[n + 1 - j]
         /\ Elements(Backwards(n)) = Taken(n) /\ Taken(n) \subseteq Elements(queue_free)
         /\ n > 0 => /\ InsertAfter(Backwards(n - 1), 0, queue_free[n]) = Backwards(n)
                     /\ queue_free[n] \in Queues /\ queue_free[n] \in Elements(queue_free)
                     /\ queue_free[n] \notin Taken(n - 1)
                     /\ Taken(n) = Taken(n - 1) \cup {queue_free[n]}
  <1>1. \A j \in 1 .. n : n + 1 - j \in 1 .. n /\ queue_free[n + 1 - j] \in Queues
    OBVIOUS
  <1>2. /\ Backwards(n) \in Seq(Queues) /\ Len(Backwards(n)) = n
        /\ \A j \in 1 .. n : Backwards(n)[j] = queue_free[n + 1 - j]
    BY <1>1 DEF Backwards
  <1>3. Elements(Backwards(n)) = Taken(n)
    <2>1. \A j \in 1 .. n : queue_free[j] = Backwards(n)[n + 1 - j] /\ n + 1 - j \in 1 .. n
      BY <1>1, <1>2
    <2> QED BY <1>1, <1>2, <2>1 DEF Elements, Taken
  <1>4. Taken(n) \subseteq Elements(queue_free)
    BY DEF Taken, Elements
  <1>5. ASSUME n > 0
        PROVE  /\ InsertAfter(Backwards(n - 1), 0, queue_free[n]) = Backwards(n)
               /\ queue_free[n] \in Queues /\ queue_free[n] \in Elements(queue_free)
               /\ queue_free[n] \notin Taken(n - 1)
               /\ Taken(n) = Taken(n - 1) \cup {queue_free[n]}
    <2>1. n \in 1 .. Len(queue_free)
      BY <1>5
    <2>2. queue_free[n] \in Queues /\ queue_free[n] \in Elements(queue_free)
      BY <2>1 DEF Elements
    <2>3. queue_free[n] \notin Taken(n - 1)
      BY <2>1 DEF Taken, Distinct
    <2>4. Taken(n) = Taken(n - 1) \cup {queue_free[n]}
      <3>1. \A j : j \in 1 .. n <=> j \in 1 .. n - 1 \/ j = n
        BY <2>1
      <3> QED BY <3>1 DEF Taken
    <2>5. InsertAfter(Backwards(n - 1), 0, queue_free[n]) = Backwards(n)
      <3>1. Len(Backwards(n - 1)) = n - 1
        BY <2>1 DEF Backwards
      <3>2. \A i \in 1 .. n :
              (IF i <= 0 THEN Backwards(n - 1)[i]
               ELSE IF i = 0 + 1 THEN queue_free[n] ELSE Backwards(n - 1)[i - 1])
                = queue_free[n + 1 - i]
        <4> SUFFICES ASSUME NEW i \in 1 .. n
                     PROVE  (IF i = 1 THEN queue_free[n] ELSE Backwards(n - 1)[i - 1])
                              = queue_free[n + 1 - i]
          OBVIOUS
        <4>1. CASE i = 1
          BY <2>1, <4>1
        <4>2. CASE i # 1
          <5>1. i - 1 \in 1 .. n - 1 /\ n - 1 + 1 - (i - 1) = n + 1 - i
            BY <2>1, <4>2
          <5> QED BY <4>2, <5>1 DEF Backwards
        <4> QED BY <4>1, <4>2
      <3>3. n - 1 + 1 = n
        BY <2>1
      <3> QED BY <3>1, <3>2, <3>3 DEF InsertAfter, Backwards
    <2> QED BY <2>2, <2>3, <2>4, <2>5
  <1> QED BY <1>2, <1>3, <1>4, <1>5

\* Nothing but the lists that grow has changed.
Elsewhere(m, X, mq) ==
  /\ m.next[mq] = NULL /\ m.prev[mq] = NULL
  /\ \A i \in Nodes \ (X \cup {mq}) : m.next[i] = mem.next[i] /\ m.prev[i] = mem.prev[i]
  /\ \A h \in Heads \ {mq} : /\ m.first[h] = mem.first[h]
                             /\ m.last[h] = mem.last[h]
                             /\ m.size[h] = mem.size[h]

\* The free queues are not linked.
Loose == \A q \in Elements(queue_free) : mem.next[q] = NULL /\ mem.prev[q] = NULL

\* As long as the tail pointer of messageQueues_list is null, each queue goes to
\* the front of the list of its message queue.
LEMMA OwnListLinked ==
  ASSUME StoreOK, Distinct(queue_free), Loose, mem.last[List] = NULL,
         NEW mq \in MQs, NEW n \in 0 .. Len(queue_free)
  PROVE  LET m == QueuesLinked(mq, n) IN
         m \in Memory /\ Represents(m, mq, Backwards(n)) /\ Elsewhere(m, Taken(n), mq)
  <1> DEFINE Good(k, m) == /\ Represents(m, mq, Backwards(k))
                           /\ Elsewhere(m, Taken(k), mq)
             D == [k \in 0 .. n |-> {m \in Memory : Good(k, m)}]
  <1>1. mem \in Memory /\ queue_free \in Seq(Queues) /\ n \in Nat
    BY DEF StoreOK
  <1>2. mq \in Nodes /\ mq \in Heads /\ mq \notin Queues /\ Queues \subseteq Nodes
    BY NodesAre DEF Nodes, Heads
  <1>3. \A k \in 0 .. n :
          /\ Backwards(k) \in Seq(Queues) /\ Len(Backwards(k)) = k
          /\ Elements(Backwards(k)) = Taken(k) /\ Taken(k) \subseteq Elements(queue_free)
          /\ k > 0 => /\ InsertAfter(Backwards(k - 1), 0, queue_free[k]) = Backwards(k)
                      /\ queue_free[k] \in Queues /\ queue_free[k] \in Elements(queue_free)
                      /\ queue_free[k] \notin Taken(k - 1)
                      /\ Taken(k) = Taken(k - 1) \cup {queue_free[k]}
    BY <1>1, BackwardsIs
  <1>4. Fresh(mq) \in D[0]
    <2>1. Backwards(0) = <<>> /\ Taken(0) = {}
      BY <1>3, ElementsType
    <2>2. Represents(Fresh(mq), mq, <<>>)
      BY <1>1, FreshFields DEF Represents, Distinct
    <2>3. Elsewhere(Fresh(mq), {}, mq)
      BY <1>1, FreshFields DEF Elsewhere
    <2>4. Good(0, Fresh(mq)) /\ 0 \in 0 .. n
      BY <2>1, <2>2, <2>3
    <2> HIDE DEF Good
    <2> QED BY <1>1, <2>4, FreshFields
  <1>5. ASSUME NEW k \in 1 .. n, NEW m \in D[k - 1]
        PROVE  List_insert(m, mq, QueuePredecessor, queue_free[k]) \in D[k]
    <2> DEFINE x == queue_free[k]
               s == Backwards(k - 1)
               new == List_insert(m, mq, Before(s, 0), x)
    <2>1. k \in 0 .. n /\ k - 1 \in 0 .. n /\ k > 0
      OBVIOUS
    <2>2. m \in Memory /\ Good(k - 1, m)
      BY <2>1
    <2>3. /\ s \in Seq(Nodes) /\ 0 \in 0 .. Len(s) /\ Represents(m, mq, s)
          /\ x \in Nodes /\ x \notin Elements(s) /\ x \in Queues /\ InsertAfter(s, 0, x) = Backwards(k)
          /\ Taken(k) = Taken(k - 1) \cup {x} /\ Elements(s) = Taken(k - 1)
      <3>1. /\ s \in Seq(Queues) /\ Elements(s) = Taken(k - 1) /\ Len(s) = k - 1
        BY <1>3, <2>1
      <3>2. /\ x \in Queues /\ x \notin Taken(k - 1) /\ InsertAfter(s, 0, x) = Backwards(k)
            /\ Taken(k) = Taken(k - 1) \cup {x}
        BY <1>3, <2>1
      <3>3. Represents(m, mq, s)
        BY <2>2
      <3> HIDE DEF s, x
      <3> QED BY <1>2, <3>1, <3>2, <3>3
    <2>4. m.next[x] = NULL /\ m.prev[x] = NULL
      <3>1. x \in Nodes \ (Taken(k - 1) \cup {mq}) /\ mem.next[x] = NULL /\ mem.prev[x] = NULL
        BY <1>2, <1>3, <2>1, <2>3 DEF Loose
      <3> QED BY <2>2, <3>1 DEF Elsewhere
    <2>5. /\ Chained(m, s) /\ m.first[mq] = After(s, 0)
          /\ Before(s, 0) = NULL /\ NULL \notin Nodes
      BY <2>3, NodesAre, RepresentsIs DEF Before, After
    <2> HIDE DEF s, x, new, Good
    <2>6. m \in MemoryOf(Nodes, Heads) /\ mq \in Heads /\ new = List_insert(m, mq, Before(s, 0), x)
      BY <1>2, <2>2 DEF Memory, new
    <2>7. Represents(new, mq, Backwards(k))
      BY <2>3, <2>4, <2>5, <2>6, InsertRepresents
    <2>8. /\ new \in MemoryOf(Nodes, Heads)
          /\ \A i \in Nodes :
               new.next[i] = IF i = x /\ 0 # Len(s) THEN After(s, 0)
                             ELSE IF i = Before(s, 0) THEN x ELSE m.next[i]
          /\ \A i \in Nodes :
               new.prev[i] = IF i = After(s, 0) THEN x
                             ELSE IF i = x /\ 0 # 0 THEN Before(s, 0) ELSE m.prev[i]
          /\ \A g \in Heads :
               /\ new.first[g] = IF g = mq /\ 0 = 0 THEN x ELSE m.first[g]
               /\ new.last[g] = IF g = mq /\ 0 = Len(s) THEN x ELSE m.last[g]
               /\ new.size[g] = IF g = mq THEN m.size[g] + 1 ELSE m.size[g]
      BY <2>3, <2>4, <2>5, <2>6, InsertFields
    <2>9. After(s, 0) \in Elements(s) \cup {NULL}
      BY <2>3 DEF After, Elements
    <2>10. Elsewhere(new, Taken(k), mq)
      <3>1. Elsewhere(m, Taken(k - 1), mq)
        BY <2>2 DEF Good
      <3>2. mq # x /\ mq \notin Elements(s) /\ mq # NULL
        BY <1>2, <1>3, <2>1, <2>3, <2>5, ElementsType
      <3>3. new.next[mq] = NULL /\ new.prev[mq] = NULL
        BY <1>2, <2>5, <2>8, <2>9, <3>1, <3>2 DEF Elsewhere
      <3>4. \A i \in Nodes \ (Taken(k) \cup {mq}) :
              new.next[i] = mem.next[i] /\ new.prev[i] = mem.prev[i]
        BY <2>3, <2>5, <2>8, <2>9, <3>1 DEF Elsewhere
      <3>5. \A h \in Heads \ {mq} : /\ new.first[h] = mem.first[h]
                                    /\ new.last[h] = mem.last[h]
                                    /\ new.size[h] = mem.size[h]
        BY <2>8, <3>1 DEF Elsewhere
      <3> QED BY <3>3, <3>4, <3>5 DEF Elsewhere
    <2>11. new \in D[k]
      <3>1. new \in Memory /\ Good(k, new)
        BY <2>7, <2>8, <2>10 DEF Memory, Good
      <3> QED BY <2>1, <3>1
    <2> QED BY <2>5, <2>11 DEF new, x, QueuePredecessor
  <1>6. D \in [0 .. n -> SUBSET Memory]
    OBVIOUS
  <1>7. QueuesLinked(mq, n) \in D[n]
    <2> HIDE DEF D
    <2> QED BY <1>1, <1>4, <1>5, <1>6, QueuesLinkedSteps
  <1>8. n \in 0 .. n
    BY <1>1
  <1> QED BY <1>7, <1>8

\* Otherwise it goes behind the element the tail pointer points at, and the list
\* of the message queue stays empty.
Ahead(S, mq, n) ==
  /\ S \in Seq(Nodes) /\ Chained(mem, S) /\ S # <<>> /\ mem.last[List] = S[1]
  /\ Elements(S) \cap Elements(queue_free) = {}
  /\ mq \in MQs \ Elements(S) /\ n \in 0 .. Len(queue_free)
Woven(m, S, mq, n) ==
  /\ m \in Memory /\ m.first[mq] = NULL /\ Elsewhere(m, Elements(S) \cup Taken(n), mq)
  /\ \E R \in Seq(Nodes) : /\ Chained(m, R) /\ R # <<>> /\ R[1] = S[1]
                           /\ Elements(R) = Elements(S) \cup Taken(n)

LEMMA QueuesMixed ==
  ASSUME StoreOK, Distinct(queue_free), Loose, mem.last[List] # NULL,
         NEW S, NEW mq, NEW n, Ahead(S, mq, n)
  PROVE  Woven(QueuesLinked(mq, n), S, mq, n)
  <1>0. /\ S \in Seq(Nodes) /\ Chained(mem, S) /\ S # <<>> /\ mem.last[List] = S[1]
        /\ Elements(S) \cap Elements(queue_free) = {}
        /\ mq \in MQs \ Elements(S) /\ n \in 0 .. Len(queue_free)
    BY DEF Ahead
  <1> USE <1>0
  <1> DEFINE Line(k, m, R) == /\ Chained(m, R) /\ R # <<>> /\ R[1] = S[1]
                              /\ Elements(R) = Elements(S) \cup Taken(k)
             Good(k, m) == /\ m.first[mq] = NULL
                           /\ Elsewhere(m, Elements(S) \cup Taken(k), mq)
                           /\ \E R \in Seq(Nodes) : Line(k, m, R)
             D == [k \in 0 .. n |-> {m \in Memory : Good(k, m)}]
  <1>1. mem \in Memory /\ queue_free \in Seq(Queues) /\ n \in Nat
    BY DEF StoreOK
  <1>2. mq \in Nodes /\ mq \in Heads /\ mq \notin Queues /\ Queues \subseteq Nodes
    BY NodesAre DEF Nodes, Heads
  <1>3. \A k \in 0 .. n :
          /\ Elements(Backwards(k)) = Taken(k) /\ Backwards(k) \in Seq(Queues)
          /\ Len(Backwards(k)) = k
          /\ Taken(k) \subseteq Elements(queue_free)
          /\ k > 0 => /\ queue_free[k] \in Queues /\ queue_free[k] \in Elements(queue_free)
                      /\ queue_free[k] \notin Taken(k - 1)
                      /\ Taken(k) = Taken(k - 1) \cup {queue_free[k]}
    BY <1>1, BackwardsIs
  <1>4. Fresh(mq) \in D[0]
    <2>1. Taken(0) = {}
      BY <1>3, ElementsType
    <2>2. Elements(S) \subseteq Nodes \ {mq}
      BY ElementsType
    <2>3. Chained(Fresh(mq), S)
      BY <1>1, <2>2, FreshFields, OtherChain
    <2>4. Elsewhere(Fresh(mq), Elements(S), mq) /\ Fresh(mq).first[mq] = NULL
      BY <1>1, FreshFields DEF Elsewhere
    <2>5. Line(0, Fresh(mq), S)
      BY <2>1, <2>3
    <2> HIDE DEF Line
    <2>6. Good(0, Fresh(mq))
      BY <2>1, <2>4, <2>5
    <2>7. 0 \in 0 .. n
      BY <1>1
    <2> HIDE DEF Good
    <2> QED BY <1>1, <2>6, <2>7, FreshFields
  <1>5. ASSUME NEW k \in 1 .. n, NEW m \in D[k - 1]
        PROVE  List_insert(m, mq, QueuePredecessor, queue_free[k]) \in D[k]
    <2> DEFINE x == queue_free[k]
               new == List_insert(m, mq, S[1], x)
    <2>1. k \in 0 .. n /\ k - 1 \in 0 .. n /\ k > 0
      <3> HIDE DEF D
      <3> QED BY <1>1
    <2>2. m \in Memory /\ Good(k - 1, m)
      BY <2>1
    <2>3. PICK R \in Seq(Nodes) : Line(k - 1, m, R)
      BY <2>2
    <2>4. /\ Chained(m, R) /\ R # <<>> /\ R[1] = S[1]
          /\ Elements(R) = Elements(S) \cup Taken(k - 1)
      BY <2>3
    <2>5. /\ x \in Queues /\ x \notin Taken(k - 1) /\ x \in Elements(queue_free)
          /\ Taken(k) = Taken(k - 1) \cup {x}
      <3> HIDE DEF D, Good, Line
      <3> QED BY <1>3, <2>1
    <2>6. m.first[mq] = NULL /\ Elsewhere(m, Elements(S) \cup Taken(k - 1), mq)
      BY <2>2
    <2> HIDE DEF x, new, D, Good, Line
    <2>7. /\ x \in Nodes /\ x \notin Elements(R) /\ x # mq /\ x \notin Elements(S)
          /\ mem.next[x] = NULL /\ mem.prev[x] = NULL
      BY <1>2, <2>4, <2>5 DEF Loose
    <2>8. m.next[x] = NULL /\ m.prev[x] = NULL
      BY <2>5, <2>6, <2>7 DEF Elsewhere
    <2>9. m \in MemoryOf(Nodes, Heads) /\ NULL \notin Nodes /\ mq \in Heads
      BY <1>2, <2>2, NodesAre DEF Memory
    <2>10. new = List_insert(m, mq, R[1], x)
      BY <2>4 DEF new
    <2>11. /\ new \in MemoryOf(Nodes, Heads)
           /\ GrownBehind(new, R, x, Nodes)
           /\ SameOutside(m, new, R, x, mq, Nodes, Heads)
           /\ new.first[mq] = m.first[mq]
      <3>1. R # <<>> /\ Chained(m, R) /\ x \notin Elements(R)
        BY <2>4, <2>7
      <3> QED BY <2>7, <2>8, <2>9, <2>10, <3>1, InsertSecond
    <2>12. \E T \in Seq(Nodes) : Line(k, new, T)
      <3>1. PICK T \in Seq(Nodes) : /\ Chained(new, T) /\ T # <<>> /\ T[1] = R[1]
                                    /\ Elements(T) = Elements(R) \cup {x}
        BY <2>11 DEF GrownBehind
      <3>2. Line(k, new, T)
        BY <2>4, <2>5, <3>1 DEF Line
      <3> QED BY <3>2
    <2>13. mq \in Nodes \ (Elements(R) \cup {x})
      <3>1. Taken(k - 1) \subseteq Queues
        BY <1>1, <1>3, <2>1, ElementsType
      <3> QED BY <1>2, <2>4, <2>7, <3>1
    <2>14. new.first[mq] = NULL /\ Elsewhere(new, Elements(S) \cup Taken(k), mq)
      <3>1. new.next[mq] = NULL /\ new.prev[mq] = NULL /\ new.first[mq] = NULL
        BY <2>6, <2>9, <2>11, <2>13 DEF Elsewhere, SameOutside
      <3>2. \A i \in Nodes \ (Elements(S) \cup Taken(k) \cup {mq}) :
              new.next[i] = mem.next[i] /\ new.prev[i] = mem.prev[i]
        BY <2>4, <2>5, <2>6, <2>11 DEF Elsewhere, SameOutside
      <3>3. \A h \in Heads \ {mq} : /\ new.first[h] = mem.first[h]
                                    /\ new.last[h] = mem.last[h]
                                    /\ new.size[h] = mem.size[h]
        BY <2>6, <2>11 DEF Elsewhere, SameOutside
      <3> QED BY <3>1, <3>2, <3>3 DEF Elsewhere
    <2>15. Good(k, new)
      BY <2>12, <2>14 DEF Good
    <2>16. new \in D[k]
      BY <2>1, <2>11, <2>15 DEF D, Memory
    <2> QED BY <2>16 DEF new, x, QueuePredecessor
  <1>6. D \in [0 .. n -> SUBSET Memory]
    OBVIOUS
  <1>7. QueuesLinked(mq, n) \in D[n]
    <2> HIDE DEF D
    <2> QED BY <1>1, <1>4, <1>5, <1>6, QueuesLinkedSteps
  <1>8. n \in 0 .. n
    BY <1>1
  <1> QED BY <1>7, <1>8 DEF Woven

-----------------------------------------------------------------------------
(* A message queue less *)

\* messageQueues_list after mq has left it: T takes the place of S.
Left(m, T, S, mq) ==
  /\ m \in Memory /\ T \in Seq(Nodes) /\ Chained(m, T) /\ Elements(T) = Elements(S) \ {mq}
  /\ m.next[mq] = NULL /\ m.prev[mq] = NULL
  /\ m.first[List] = After(T, 0)
  /\ m.last[List] # NULL => T # <<>> /\ m.last[List] = T[1]
  /\ mem.last[List] = mq => m.last[List] = NULL
  /\ m.size[List] = Cardinality(Elements(T) \cap MQs)
  /\ \A i \in Nodes \ Elements(S) : m.next[i] = mem.next[i] /\ m.prev[i] = mem.prev[i]
  /\ \A h \in Heads \ {List} : /\ m.first[h] = mem.first[h]
                               /\ m.last[h] = mem.last[h] /\ m.size[h] = mem.size[h]

\* What List_detach leaves of messageQueues_list when mq is taken out.
LEMMA ListDetached ==
  ASSUME StoreOK, NEW S, NEW own, Shape(S, own), NEW mq \in Elements(S) \cap MQs,
         NEW m, m = List_detach(mem, List, mq), NEW T, T = DetachAt(S, IndexIn(S, mq))
  PROVE  Left(m, T, S, mq)
  <1> DEFINE k == IndexIn(S, mq)
             last == mem.last[List]
             first == mem.first[List]
  <1>1. /\ S \in Seq(Nodes) /\ Chained(mem, S) /\ Distinct(S) /\ first = After(S, 0)
        /\ (last # NULL => S # <<>> /\ last = S[1])
        /\ mem.size[List] = Cardinality(Elements(S) \cap MQs)
        /\ mem \in MemoryOf(Nodes, Heads) /\ List \in Heads /\ NULL \notin Nodes
    BY NodesAre DEF Shape, StoreOK, Memory, Heads, Chained
  <1>2. k \in 1 .. Len(S) /\ S[k] = mq /\ Len(S) \in Nat /\ Len(S) # 0
    <2>1. k \in 1 .. Len(S) /\ S[k] = mq
      BY IndexInList
    <2> HIDE DEF k
    <2> QED BY <1>1, <2>1
  <1>3. T = DetachAt(S, k)
    OBVIOUS
  <1> HIDE DEF k, last, first
  <1>4. /\ Cardinality(Elements(S) \cap MQs) \in Nat
        /\ Cardinality(Elements(S) \cap MQs) > 0
        /\ Cardinality((Elements(S) \cap MQs) \ {mq}) = Cardinality(Elements(S) \cap MQs) - 1
    <2>1. IsFiniteSet(MQs)
      BY CardInterval DEF MQs
    <2>2. IsFiniteSet(Elements(S) \cap MQs)
      BY <2>1, FS_Subset
    <2>3. Cardinality(Elements(S) \cap MQs) \in Nat
      BY <2>2, FS_CardinalityType
    <2>4. Cardinality(Elements(S) \cap MQs) # 0
      BY <2>2, FS_EmptySet
    <2>5. Cardinality((Elements(S) \cap MQs) \ {mq}) = Cardinality(Elements(S) \cap MQs) - 1
      BY <2>2, FS_RemoveElement
    <2> QED BY <2>3, <2>4, <2>5
  <1>5. m = List_detach(mem, List, S[k]) /\ mem.size[List] > 0
    BY <1>1, <1>2, <1>4
  <1>6. /\ m \in MemoryOf(Nodes, Heads)
        /\ \A i \in Nodes :
             m.next[i] = IF i = S[k] THEN NULL
                         ELSE IF i = Before(S, k - 1) THEN After(S, k) ELSE mem.next[i]
        /\ \A i \in Nodes :
             m.prev[i] = IF i = S[k] THEN NULL
                         ELSE IF i = After(S, k) THEN Before(S, k - 1) ELSE mem.prev[i]
        /\ \A g \in Heads :
             /\ m.first[g] = IF g = List /\ mem.first[List] = S[k] THEN After(S, k)
                             ELSE mem.first[g]
             /\ m.last[g] = IF g = List /\ mem.last[List] = S[k] THEN Before(S, k - 1)
                            ELSE mem.last[g]
             /\ m.size[g] = IF g = List THEN mem.size[List] - 1 ELSE mem.size[g]
    BY <1>1, <1>2, <1>5, DetachFields
  <1>7. Chained(m, T)
    BY <1>1, <1>2, <1>3, <1>5, DetachChains
  <1>8. /\ T \in Seq(Nodes) /\ Elements(T) = Elements(S) \ {mq} /\ Len(T) = Len(S) - 1
        /\ \A i \in 1 .. Len(S) - 1 : T[i] = IF i < k THEN S[i] ELSE S[i + 1]
    <2>1. Elements(T) = Elements(S) \ {S[k]}
      BY <1>1, <1>2, <1>3, DetachAtElements
    <2>2. /\ T \in Seq(Nodes) /\ Len(T) = Len(S) - 1
          /\ \A i \in 1 .. Len(S) - 1 : T[i] = IF i < k THEN S[i] ELSE S[i + 1]
      BY <1>1, <1>2, <1>3, DetachAtSeq
    <2> QED BY <1>2, <2>1, <2>2
  <1>9. /\ After(S, k) \in Elements(S) \cup {NULL}
        /\ Before(S, k - 1) \in Elements(S) \cup {NULL}
    <2>1. k \in 0 .. Len(S)
      BY <1>2
    <2>2. Before(S, k - 1) \in Elements(S) \cup {NULL}
      BY <1>2 DEF Before, Elements
    <2> QED BY <1>1, <2>1, <2>2, AfterIs
  <1>10. S[1] = mq <=> k = 1
    BY <1>1, <1>2 DEF Distinct
  <1>11. After(S, 0) = S[1]
    BY <1>2 DEF After
  <1>12. m.first[List] = After(T, 0)
    <2>1. CASE k = 1
      <3>1. m.first[List] = After(S, 1)
        BY <1>1, <1>2, <1>6, <1>10, <1>11, <2>1 DEF first
      <3>2. After(S, 1) = After(T, 0)
        BY <1>2, <1>8, <2>1 DEF After
      <3> QED BY <3>1, <3>2
    <2>2. CASE k # 1
      <3>1. m.first[List] = S[1]
        BY <1>1, <1>2, <1>6, <1>10, <1>11, <2>2 DEF first
      <3>2. 1 < k /\ Len(T) # 0 /\ T[1] = S[1]
        BY <1>2, <1>8, <2>2
      <3> QED BY <3>1, <3>2 DEF After
    <2> QED BY <2>1, <2>2
  <1>13. m.last[List] = IF last = mq THEN NULL ELSE last
    <2>1. last = mq => k = 1
      <3>1. mq # NULL
        BY <1>1 DEF Nodes
      <3> QED BY <1>1, <1>10, <3>1
    <2>2. last = mq => Before(S, k - 1) = NULL
      BY <2>1 DEF Before
    <2> QED BY <1>1, <1>2, <1>6, <2>2 DEF last
  <1>14. last # NULL /\ last # mq => T # <<>> /\ last = T[1]
    <2>1. last # NULL /\ last # mq => k # 1
      BY <1>1, <1>10
    <2>2. k # 1 => 1 < k /\ Len(T) # 0 /\ T[1] = S[1]
      BY <1>2, <1>8
    <2> QED BY <1>1, <2>1, <2>2
  <1>15. m.size[List] = Cardinality(Elements(T) \cap MQs)
    <2>1. Elements(T) \cap MQs = (Elements(S) \cap MQs) \ {mq}
      BY <1>8
    <2> QED BY <1>1, <1>4, <1>6, <2>1
  <1>16. /\ \A i \in Nodes \ Elements(S) : m.next[i] = mem.next[i] /\ m.prev[i] = mem.prev[i]
         /\ m.next[mq] = NULL /\ m.prev[mq] = NULL
    BY <1>1, <1>2, <1>6, <1>9, ElementsType
  <1>17. \A h \in Heads \ {List} : /\ m.first[h] = mem.first[h]
                                   /\ m.last[h] = mem.last[h] /\ m.size[h] = mem.size[h]
    BY <1>6
  <1>18. m.last[List] # NULL => T # <<>> /\ m.last[List] = T[1]
    BY <1>13, <1>14
  <1>19. mem.last[List] = mq => m.last[List] = NULL
    BY <1>13 DEF last
  <1> QED BY <1>6, <1>7, <1>8, <1>12, <1>15, <1>16, <1>17, <1>18, <1>19 DEF Memory, Left

Detached(mq) == [mem |-> List_detach(mem, List, mq), free |-> queue_free]

\* The head of mq->queues leaves the list, and goes to the pool if it has no messages.
Released(mq, x) ==
  LET q == x.mem.first[mq] IN
  [mem |-> List_detach(x.mem, mq, q),
   free |-> IF messages[q] = <<>> THEN <<q>> \o x.free ELSE x.free]

Stores == [mem : Memory, free : Seq(Queues)]

\* What holds after mq has left its list and is kept by every release holds in the end.
LEMMA DismantledSteps ==
  ASSUME NEW mq, NEW n \in Nat, NEW D \in [0 .. n -> SUBSET Stores], Detached(mq) \in D[0],
         \A k \in 1 .. n : \A x \in D[k - 1] : Released(mq, x) \in D[k]
  PROVE  Dismantled(mq, n) \in D[n]
  <1> DEFINE G == [k \in 1 .. n |-> {z \in Stores \X Stores : z[2] = Released(mq, z[1])}]
             Step(c) == [k \in 0 .. n |-> IF k = 0 THEN Detached(mq) ELSE Released(mq, c[k - 1])]
             step == CHOOSE c : c = Step(c)
  <1>1. Advances(n, D, G)
    <2> SUFFICES ASSUME NEW k \in 1 .. n, NEW x \in D[k - 1]
                 PROVE  <<x, Released(mq, x)>> \in G[k] /\ Released(mq, x) \in D[k]
      <3> HIDE DEF G
      <3> QED BY DEF Advances
    <2>1. Released(mq, x) \in D[k]
      OBVIOUS
    <2>2. k \in 0 .. n /\ k - 1 \in 0 .. n
      OBVIOUS
    <2>3. x \in Stores /\ Released(mq, x) \in Stores
      BY <2>1, <2>2
    <2> QED BY <2>1, <2>3
  <1>2. PICK f : RunsFrom(f, Detached(mq), n, D, G, Stores)
    <2> HIDE DEF G
    <2>1. Stages(D, n, Stores)
      BY DEF Stages
    <2> QED BY <1>1, <2>1, RunExists
  <1>3. f[n] \in D[n] /\ \A k \in 1 .. n : f[k] = Released(mq, f[k - 1])
    <2>1. f[n] \in D[n] /\ \A k \in 1 .. n : <<f[k - 1], f[k]>> \in G[k]
      <3> HIDE DEF G
      <3>1. n \in 0 .. n
        OBVIOUS
      <3> QED BY <1>2, <3>1 DEF Runs, RunsFrom
    <2> QED BY <2>1
  <1>4. f = Step(f)
    <2>1. \A k \in 0 .. n : f[k] = Step(f)[k]
      BY <1>2, <1>3 DEF RunsFrom
    <2>2. f \in [0 .. n -> Stores]
      BY <1>2 DEF RunsFrom
    <2> QED BY <2>1, <2>2
  <1>5. step = Step(step)
    BY <1>4
  <1> HIDE DEF step
  <1>6. step[n] = f[n]
    <2>1. step[0] = f[0]
      BY <1>2, <1>5 DEF RunsFrom
    <2>2. \A k \in 1 .. n : step[k - 1] = f[k - 1] => step[k] = f[k]
      BY <1>3, <1>5
    <2> QED BY <2>1, <2>2, SameSteps
  <1>7. Dismantled(mq, n) = step[n]
    BY DEF Dismantled, step, Released, Detached
  <1> QED BY <1>3, <1>6, <1>7

\* No block of a pool is linked.
Unlinked(x) == \A q \in Elements(x.free) : x.mem.next[q] = NULL /\ x.mem.prev[q] = NULL

\* The two memories agree on all but the nodes of Q and the list of mq.
Untouched(m, n, Q, mq) ==
  /\ \A i \in Nodes \ Q : n.next[i] = m.next[i] /\ n.prev[i] = m.prev[i]
  /\ \A h \in Heads \ {mq} : /\ n.first[h] = m.first[h]
                             /\ n.last[h] = m.last[h] /\ n.size[h] = m.size[h]

\* One round of the loop of mqUnlink: the first queue goes back to its pool.
LEMMA OneReleased ==
  ASSUME NEW mq \in MQs, NEW x \in Stores, NEW t \in Seq(Queues), t # <<>>,
         Represents(x.mem, mq, t), Elements(t) \cap Elements(x.free) = {},
         Distinct(x.free), Unlinked(x), \A q \in Elements(t) : messages[q] = <<>>,
         NEW out, out = Released(mq, x)
  PROVE  /\ out \in Stores /\ Represents(out.mem, mq, Tail(t))
         /\ Elements(out.free) = {Head(t)} \cup Elements(x.free)
         /\ Distinct(out.free) /\ Unlinked(out)
         /\ Untouched(x.mem, out.mem, Elements(t), mq)
  <1> DEFINE q == x.mem.first[mq]
             new == List_detach(x.mem, mq, q)
             free == <<q>> \o x.free
             old == x.free
  <1>1. mq \in Heads /\ Queues \subseteq Nodes /\ NULL \notin Nodes
    BY NodesAre DEF Nodes, Heads
  <1>2. x.mem \in MemoryOf(Nodes, Heads) /\ old \in Seq(Queues)
    BY DEF Stores, Memory
  <1>3. t \in Seq(Nodes)
    BY <1>1
  <1>4. new = List_detach(x.mem, mq, x.mem.first[mq])
    OBVIOUS
  <1> HIDE DEF new
  <1>5. /\ q = Head(t) /\ new \in MemoryOf(Nodes, Heads) /\ Represents(new, mq, Tail(t))
        /\ new.next[q] = NULL /\ new.prev[q] = NULL
        /\ SameOutside(x.mem, new, t, q, mq, Nodes, Heads)
    BY <1>1, <1>2, <1>3, <1>4, HeadDetached
  <1>6. q \in Elements(t) /\ q \in Queues /\ messages[q] = <<>>
    BY <1>5, ElementsType
  <1>7. out = [mem |-> new, free |-> free]
    BY <1>6 DEF Released, new
  <1> HIDE DEF q, old
  <1>8. free \in Seq(Queues) /\ Elements(free) = {q} \cup Elements(old) /\ Distinct(free)
    <2>1. <<q>> \in Seq(Queues) /\ Elements(<<q>>) = {q} /\ Distinct(<<q>>)
      BY <1>6, SingletonElements
    <2>2. q \notin Elements(old) /\ Distinct(old)
      BY <1>6 DEF old
    <2>3. free = <<q>> \o old
      BY DEF old
    <2> HIDE DEF free
    <2> DEFINE one == <<q>>
    <2>4. one \in Seq(Queues) /\ Elements(one) = {q} /\ Distinct(one) /\ free = one \o old
      BY <2>1, <2>3
    <2> HIDE DEF one
    <2> QED BY <1>2, <2>2, <2>4, ConcatElements
  <1> HIDE DEF free
  <1>9. out.mem = new /\ out.free = free /\ out \in Stores
    BY <1>5, <1>7, <1>8 DEF Stores, Memory
  <1>10. Unlinked(out)
    <2> SUFFICES ASSUME NEW r \in Elements(free)
                 PROVE  new.next[r] = NULL /\ new.prev[r] = NULL
      BY <1>9 DEF Unlinked
    <2>1. CASE r = q
      BY <1>5, <2>1
    <2>2. CASE r # q
      <3>1. r \in Elements(x.free) /\ r \notin Elements(t)
        BY <1>8, <2>2 DEF old
      <3>2. r \in Nodes
        BY <1>1, <1>2, <3>1, ElementsType DEF old
      <3> QED BY <1>5, <2>2, <3>1, <3>2 DEF Unlinked, SameOutside
    <2> QED BY <2>1, <2>2
  <1>11. Untouched(x.mem, out.mem, Elements(t), mq)
    BY <1>5, <1>6, <1>9 DEF Untouched, SameOutside
  <1> QED BY <1>5, <1>8, <1>9, <1>10, <1>11 DEF old

\* After the last round all queues are free and nothing else has changed.
LEMMA DismantledIs ==
  ASSUME StoreOK, NEW mq \in MQs, NEW s \in Seq(Queues), NEW x0, x0 = Detached(mq),
         x0 \in Stores, Represents(x0.mem, mq, s),
         Distinct(queue_free), Elements(s) \cap Elements(queue_free) = {}, Unlinked(x0),
         \A q \in Elements(s) : messages[q] = <<>>
  PROVE  LET x == Dismantled(mq, Len(s)) IN
         /\ x \in Stores /\ Elements(x.free) = Elements(queue_free) \cup Elements(s)
         /\ Distinct(x.free) /\ Unlinked(x) /\ Untouched(x0.mem, x.mem, Elements(s), mq)
  <1> DEFINE n == Len(s)
             Remaining(k, x, t) == /\ Represents(x.mem, mq, t) /\ Len(t) = n - k
                              /\ Elements(t) \subseteq Elements(s)
                              /\ Elements(t) \cap Elements(x.free) = {}
                              /\ Elements(t) \cup Elements(x.free)
                                   = Elements(s) \cup Elements(queue_free)
                              /\ Distinct(x.free) /\ Unlinked(x)
                              /\ Untouched(x0.mem, x.mem, Elements(s), mq)
             Good(k, x) == \E t \in Seq(Queues) : Remaining(k, x, t)
             D == [k \in 0 .. n |-> {x \in Stores : Good(k, x)}]
  <1>1. n \in Nat /\ queue_free \in Seq(Queues) /\ x0.free = queue_free
    BY DEF StoreOK, Detached
  <1>2. x0 \in D[0]
    <2>1. Untouched(x0.mem, x0.mem, Elements(s), mq)
      BY DEF Untouched
    <2>2. Remaining(0, x0, s)
      BY <1>1, <2>1
    <2> HIDE DEF Remaining
    <2>3. Good(0, x0)
      BY <2>2
    <2>4. 0 \in 0 .. n
      BY <1>1
    <2> HIDE DEF Good, n
    <2> QED BY <2>3, <2>4
  <1>3. ASSUME NEW k \in 1 .. n, NEW x \in D[k - 1]
        PROVE  Released(mq, x) \in D[k]
    <2>1. k \in 0 .. n /\ k - 1 \in 0 .. n /\ k > 0 /\ k \in Nat
      <3> HIDE DEF D, n
      <3> QED BY <1>1
    <2> HIDE DEF Remaining, n
    <2>2. x \in Stores /\ Good(k - 1, x)
      BY <2>1
    <2>3. PICK t \in Seq(Queues) : Remaining(k - 1, x, t)
      BY <2>2
    <2>4. /\ Represents(x.mem, mq, t) /\ Len(t) = n - (k - 1)
          /\ Elements(t) \subseteq Elements(s)
          /\ Elements(t) \cap Elements(x.free) = {}
          /\ Elements(t) \cup Elements(x.free) = Elements(s) \cup Elements(queue_free)
          /\ Distinct(x.free) /\ Unlinked(x)
          /\ Untouched(x0.mem, x.mem, Elements(s), mq)
      BY <2>3 DEF Remaining
    <2> HIDE DEF Good, D
    <2> DEFINE out == Released(mq, x)
    <2>5. out = Released(mq, x)
      OBVIOUS
    <2> HIDE DEF out
    <2>6. t # <<>>
      <3>1. Len(t) > 0
        BY <1>1, <2>1, <2>4
      <3> QED BY <3>1
    <2>7. /\ out \in Stores /\ Represents(out.mem, mq, Tail(t))
          /\ Elements(out.free) = {Head(t)} \cup Elements(x.free)
          /\ Distinct(out.free) /\ Unlinked(out)
          /\ Untouched(x.mem, out.mem, Elements(t), mq)
      <3>1. \A q \in Elements(t) : messages[q] = <<>>
        BY <2>4
      <3> QED BY <2>2, <2>4, <2>5, <2>6, <3>1, OneReleased
    <2>8. /\ Tail(t) \in Seq(Queues) /\ Head(t) \in Elements(t)
          /\ Elements(Tail(t)) = Elements(t) \ {Head(t)}
      BY <2>4, <2>6, TailElements DEF Represents
    <2>9. Len(Tail(t)) = n - k
      <3>1. Len(Tail(t)) = Len(t) - 1 /\ Len(t) \in Nat
        BY <2>6
      <3> QED BY <1>1, <2>1, <2>4, <3>1
    <2>10. Untouched(x0.mem, out.mem, Elements(s), mq)
      BY <2>4, <2>7 DEF Untouched
    <2>11. Remaining(k, out, Tail(t))
      BY <2>4, <2>7, <2>8, <2>9, <2>10 DEF Remaining
    <2>12. Good(k, out)
      BY <2>8, <2>11 DEF Good
    <2> QED BY <2>1, <2>5, <2>7, <2>12 DEF D
  <1>4. D \in [0 .. n -> SUBSET Stores]
    OBVIOUS
  <1> DEFINE x == Dismantled(mq, n)
  <1>5. x \in D[n]
    <2> HIDE DEF D, n
    <2> QED BY <1>1, <1>2, <1>3, <1>4, DismantledSteps
  <1>6. n \in 0 .. n
    BY <1>1
  <1>7. x \in Stores /\ Good(n, x)
    <2> HIDE DEF Good, n, x
    <2> QED BY <1>5, <1>6
  <1> HIDE DEF x, D
  <1>8. PICK t \in Seq(Queues) : Remaining(n, x, t)
    BY <1>7
  <1>9. Elements(t) = {}
    <2>1. Len(t) = 0
      <3> HIDE DEF n
      <3> QED BY <1>1, <1>8
    <2> HIDE DEF Remaining, Good, n
    <2> QED BY <2>1 DEF Elements
  <1> QED BY <1>7, <1>8, <1>9 DEF x

\* The list and the queues of a new message queue b with n queues: T takes the
\* place of S, and B is the list b->queues.
Joined(new, T, B, b, n, S) ==
  /\ new \in Memory /\ Chained(new, T) /\ T # <<>> /\ new.first[List] = T[1]
  /\ new.last[List] # NULL => new.last[List] = T[1]
  /\ new.size[List] = mem.size[List] + 1
  /\ Elements(T) = Elements(S) \cup {b} \cup (Taken(n) \ Elements(B))
  /\ B = <<>> => new.first[b] = NULL
  /\ B # <<>> => B = Backwards(n) /\ Represents(new, b, B)
  /\ S = <<>> /\ mem.last[List] = NULL => T = <<b>> /\ new.last[List] = b /\ B # <<>>
  /\ \A i \in Nodes \ (Elements(S) \cup Taken(n) \cup {b}) :
       new.next[i] = mem.next[i] /\ new.prev[i] = mem.prev[i]
  /\ \A h \in Heads \ {List, b} : /\ new.first[h] = mem.first[h]
                                  /\ new.last[h] = mem.last[h]
                                  /\ new.size[h] = mem.size[h]

\* The first message queue has its queues in a list of its own.
LEMMA JoinedAlone ==
  ASSUME StoreOK, NEW S, NEW own, Shape(S, own), Apart(S, own), mq_free # <<>>,
         mem.last[List] = NULL, NEW b, b = Head(mq_free), NEW n \in 1 .. Len(queue_free),
         NEW new, new = List_insert(QueuesLinked(b, n), List, mem.last[List], b)
  PROVE  \E T \in Seq(Nodes) : Joined(new, T, Backwards(n), b, n, S)
  <1> DEFINE m == QueuesLinked(b, n)
             B == Backwards(n)
  <1>1. /\ S \in Seq(Nodes) /\ Chained(mem, S) /\ mem.first[List] = After(S, 0)
        /\ mem \in Memory /\ queue_free \in Seq(Queues) /\ mq_free \in Seq(MQs)
        /\ n \in Nat /\ n \in 0 .. Len(queue_free) /\ n > 0
    BY DEF Shape, StoreOK
  <1>2. /\ b \in MQs /\ b \in Nodes /\ b \in Heads /\ b # List /\ List \in Heads
        /\ NULL \notin Nodes /\ b \notin Queues
    BY <1>1, NodesAre DEF Nodes, Heads
  <1>3. b \notin Elements(S) /\ Elements(S) \cap Elements(queue_free) = {} /\ Loose
        /\ Distinct(queue_free)
    BY <1>1, ElementsType DEF Apart, Loose
  <1>4. m \in Memory /\ Represents(m, b, B) /\ Elsewhere(m, Taken(n), b)
    BY <1>1, <1>2, <1>3, OwnListLinked
  <1>5. /\ B \in Seq(Queues) /\ Len(B) = n /\ Elements(B) = Taken(n)
        /\ Taken(n) \subseteq Elements(queue_free)
    BY <1>1, <1>3, BackwardsIs
  <1> HIDE DEF m, B
  <1>6. Taken(n) \subseteq Queues /\ B # <<>>
    BY <1>1, <1>5, ElementsType
  <1>7. Elements(S) \subseteq Nodes \ (Taken(n) \cup {b})
    BY <1>1, <1>3, <1>5, ElementsType
  <1>8. Chained(m, S)
    BY <1>1, <1>4, <1>7, OtherChain DEF Elsewhere
  <1>9. m.first[List] = After(S, 0) /\ m.next[b] = NULL /\ m.prev[b] = NULL
    BY <1>1, <1>2, <1>4 DEF Elsewhere
  <1>10. m \in MemoryOf(Nodes, Heads) /\ new = List_insert(m, List, NULL, b)
    BY <1>4 DEF Memory, m
  <1>11. /\ new \in MemoryOf(Nodes, Heads)
         /\ GrownInFront(new, S, b, Nodes)
         /\ SameOutside(m, new, S, b, List, Nodes, Heads)
         /\ new.first[List] = b /\ new.size[List] = m.size[List] + 1
         /\ new.last[List] = IF S = <<>> THEN b ELSE m.last[List]
    BY <1>1, <1>2, <1>3, <1>8, <1>9, <1>10, InsertFront
  <1>12. PICK T \in Seq(Nodes) : /\ Chained(new, T) /\ T # <<>> /\ T[1] = b
                                 /\ Elements(T) = Elements(S) \cup {b}
                                 /\ S = <<>> => T = <<b>>
    BY <1>11 DEF GrownInFront
  <1>13. Represents(new, b, B)
    <2>1. /\ new.first[b] = m.first[b] /\ new.last[b] = m.last[b] /\ new.size[b] = m.size[b]
      BY <1>2, <1>11 DEF SameOutside
    <2>2. \A i \in Elements(B) : new.next[i] = m.next[i] /\ new.prev[i] = m.prev[i]
      <3>1. Elements(B) \subseteq Nodes \ (Elements(S) \cup {b})
        BY <1>2, <1>5, <1>6, <1>7 DEF Nodes
      <3> QED BY <1>11, <3>1 DEF SameOutside
    <2> QED BY <1>4, <2>1, <2>2, OtherList
  <1>14. new.size[List] = mem.size[List] + 1 /\ (S # <<>> => new.last[List] = NULL)
    BY <1>2, <1>4, <1>11 DEF Elsewhere
  <1>15. Elements(T) = Elements(S) \cup {b} \cup (Taken(n) \ Elements(B))
    <2>1. Taken(n) \ Elements(B) = {}
      BY <1>5
    <2> QED BY <1>12, <2>1
  <1>16. \A i \in Nodes \ (Elements(S) \cup Taken(n) \cup {b}) :
           new.next[i] = mem.next[i] /\ new.prev[i] = mem.prev[i]
    BY <1>4, <1>11 DEF Elsewhere, SameOutside
  <1>17. \A h \in Heads \ {List, b} : /\ new.first[h] = mem.first[h]
                                      /\ new.last[h] = mem.last[h]
                                      /\ new.size[h] = mem.size[h]
    BY <1>4, <1>11 DEF Elsewhere, SameOutside
  <1>18. new.last[List] # NULL => new.last[List] = T[1]
    <2>1. T[1] = b
      BY <1>12
    <2> QED BY <1>11, <1>14, <2>1
  <1>19. S = <<>> => T = <<b>> /\ new.last[List] = b
    BY <1>11, <1>12
  <1>20. new \in Memory /\ Chained(new, T) /\ T # <<>> /\ new.first[List] = T[1]
    <2>1. T[1] = b /\ T # <<>> /\ Chained(new, T)
      BY <1>12
    <2> QED BY <1>11, <2>1 DEF Memory
  <1>21. Joined(new, T, B, b, n, S)
    BY <1>6, <1>13, <1>14, <1>15, <1>16, <1>17, <1>18, <1>19, <1>20 DEF Joined, B
  <1> QED BY <1>21 DEF B

\* The next one has them in messageQueues_list.
LEMMA JoinedMixed ==
  ASSUME StoreOK, NEW S, NEW own, Shape(S, own), Apart(S, own), mq_free # <<>>,
         mem.last[List] # NULL, NEW b, b = Head(mq_free), NEW n \in 1 .. Len(queue_free),
         NEW new, new = List_insert(QueuesLinked(b, n), List, mem.last[List], b)
  PROVE  \E T \in Seq(Nodes) : Joined(new, T, <<>>, b, n, S)
  <1> DEFINE m == QueuesLinked(b, n)
  <1>1. /\ S \in Seq(Nodes) /\ Chained(mem, S) /\ mem.first[List] = After(S, 0)
        /\ S # <<>> /\ mem.last[List] = S[1]
        /\ mem \in Memory /\ queue_free \in Seq(Queues) /\ mq_free \in Seq(MQs)
        /\ n \in Nat /\ n \in 0 .. Len(queue_free) /\ n > 0
    BY DEF Shape, StoreOK
  <1>2. /\ b \in MQs /\ b \in Nodes /\ b \in Heads /\ b # List /\ List \in Heads
        /\ NULL \notin Nodes /\ b \notin Queues
    BY <1>1, NodesAre DEF Nodes, Heads
  <1>3. /\ b \notin Elements(S) /\ Elements(S) \cap Elements(queue_free) = {} /\ Loose
        /\ Distinct(queue_free) /\ b \in MQs \ Elements(S)
    BY <1>1, <1>2, ElementsType DEF Apart, Loose
  <1>4. /\ m \in Memory /\ m.first[b] = NULL /\ Elsewhere(m, Elements(S) \cup Taken(n), b)
        /\ \E R \in Seq(Nodes) : /\ Chained(m, R) /\ R # <<>> /\ R[1] = S[1]
                                 /\ Elements(R) = Elements(S) \cup Taken(n)
    <2>1. Ahead(S, b, n)
      BY <1>1, <1>3 DEF Ahead
    <2>2. Woven(m, S, b, n)
      BY <1>3, <2>1, QueuesMixed
    <2> QED BY <2>2 DEF Woven
  <1>5. PICK R \in Seq(Nodes) : /\ Chained(m, R) /\ R # <<>> /\ R[1] = S[1]
                                /\ Elements(R) = Elements(S) \cup Taken(n)
    BY <1>4
  <1>6. Taken(n) \subseteq Elements(queue_free) /\ Taken(n) \subseteq Queues
    <2>1. Taken(n) \subseteq Elements(queue_free)
      BY <1>1, <1>3, BackwardsIs
    <2> QED BY <1>1, <2>1, ElementsType
  <1>7. m.next[b] = NULL /\ m.prev[b] = NULL /\ b \notin Elements(R)
    BY <1>2, <1>3, <1>4, <1>5, <1>6 DEF Elsewhere
  <1> HIDE DEF m
  <1>8. m \in MemoryOf(Nodes, Heads) /\ new = List_insert(m, List, R[1], b)
    BY <1>1, <1>4, <1>5 DEF Memory, m
  <1>9. /\ new \in MemoryOf(Nodes, Heads)
        /\ GrownBehind(new, R, b, Nodes)
        /\ SameOutside(m, new, R, b, List, Nodes, Heads)
        /\ new.first[List] = m.first[List]
        /\ new.size[List] = m.size[List] + 1
        /\ Len(R) > 1 => new.last[List] = m.last[List]
    BY <1>2, <1>5, <1>7, <1>8, InsertSecond
  <1>10. PICK T \in Seq(Nodes) : /\ Chained(new, T) /\ T # <<>> /\ T[1] = R[1]
                                 /\ Elements(T) = Elements(R) \cup {b}
    BY <1>9 DEF GrownBehind
  <1>11. Len(R) > 1
    <2>1. queue_free[1] \in Taken(n) /\ queue_free[1] \notin Elements(S)
      BY <1>1, <1>3, <1>6 DEF Taken
    <2>2. PICK j \in 1 .. Len(R) : R[j] = queue_free[1]
      BY <1>5, <2>1 DEF Elements
    <2>3. S[1] \in Elements(S)
      BY <1>1, ElementsType
    <2>4. j # 1
      BY <1>5, <2>1, <2>2, <2>3
    <2> QED BY <2>2, <2>4
  <1>12. /\ new.size[List] = mem.size[List] + 1 /\ new.last[List] = S[1]
         /\ new.first[List] = After(S, 0)
    BY <1>1, <1>2, <1>4, <1>9, <1>11 DEF Elsewhere
  <1>13. After(S, 0) = S[1]
    BY <1>1 DEF After
  <1>14. Elements(T) = Elements(S) \cup {b} \cup (Taken(n) \ Elements(<<>>))
    BY <1>5, <1>10, EmptyElements
  <1>15. \A i \in Nodes \ (Elements(S) \cup Taken(n) \cup {b}) :
           new.next[i] = mem.next[i] /\ new.prev[i] = mem.prev[i]
    BY <1>4, <1>5, <1>9 DEF Elsewhere, SameOutside
  <1>16. \A h \in Heads \ {List, b} : /\ new.first[h] = mem.first[h]
                                      /\ new.last[h] = mem.last[h]
                                      /\ new.size[h] = mem.size[h]
    BY <1>4, <1>9 DEF Elsewhere, SameOutside
  <1>17. new.first[b] = NULL
    BY <1>2, <1>4, <1>9 DEF SameOutside
  <1>18. Joined(new, T, <<>>, b, n, S)
    BY <1>1, <1>5, <1>9, <1>10, <1>12, <1>13, <1>14, <1>15, <1>16, <1>17 DEF Joined, Memory
  <1> QED BY <1>18

\* Only the nodes of X, the list of all message queues and that of b may differ.
SameBut(new, X, b) ==
  /\ \A i \in Nodes \ X : new.next[i] = mem.next[i] /\ new.prev[i] = mem.prev[i]
  /\ \A h \in Heads \ {List, b} : /\ new.first[h] = mem.first[h]
                                  /\ new.last[h] = mem.last[h]
                                  /\ new.size[h] = mem.size[h]

\* The queue lists of the message queues that an operation on b does not concern.
LEMMA OtherLists ==
  ASSUME NEW S, NEW own, Shape(S, own), NEW T, NEW X, NEW b \in MQs,
         NEW new, SameBut(new, X, b), NEW o \in MQs, o # b,
         Elements(own[o]) \cap X = {}, o \in Elements(S) <=> o \in Elements(T)
  PROVE  /\ own[o] = <<>> /\ o \in Elements(T) => new.first[o] = NULL
         /\ own[o] # <<>> => o \in Elements(T) /\ Represents(new, o, own[o])
  <1>1. /\ own[o] = <<>> /\ o \in Elements(S) => mem.first[o] = NULL
        /\ own[o] # <<>> => o \in Elements(S) /\ Represents(mem, o, own[o])
        /\ own[o] \in Seq(Queues)
    BY DEF Shape
  <1>2. o \in Heads \ {List, b}
    BY NodesAre DEF Heads
  <1>3. Elements(own[o]) \subseteq Nodes \ X
    BY <1>1, ElementsType DEF Nodes
  <1>4. own[o] # <<>> => Represents(new, o, own[o])
    BY <1>1, <1>2, <1>3, OtherList DEF SameBut
  <1> QED BY <1>1, <1>2, <1>4 DEF SameBut

\* The pools after b and n queues have been taken.
LEMMA PoolsTaken ==
  ASSUME StoreOK, NEW S, NEW own, Apart(S, own), mq_free # <<>>,
         NEW b, b = Head(mq_free), NEW n \in 0 .. Len(queue_free),
         NEW f, f = Tail(mq_free), NEW g, g = SubSeq(queue_free, n + 1, Len(queue_free))
  PROVE  /\ f \in Seq(MQs) /\ Distinct(f) /\ Elements(f) = Elements(mq_free) \ {b}
         /\ g \in Seq(Queues) /\ Distinct(g) /\ Elements(g) = Elements(queue_free) \ Taken(n)
         /\ b \in MQs /\ b \in Elements(mq_free)
  <1>1. /\ mq_free \in Seq(MQs) /\ queue_free \in Seq(Queues) /\ Distinct(mq_free)
        /\ Distinct(queue_free)
    BY DEF StoreOK, Apart
  <1>2. f \in Seq(MQs) /\ Distinct(f) /\ Elements(f) = Elements(mq_free) \ {b} /\ b \in Elements(mq_free)
    BY <1>1, TailElements
  <1>3. b \in MQs
    BY <1>1, <1>2, ElementsType
  <1> DEFINE l == Len(queue_free)
  <1>4. l \in Nat /\ n \in Nat /\ n <= l
    BY <1>1
  <1>5. /\ g \in Seq(Queues) /\ Len(g) = l - n
        /\ \A k \in 1 .. l - n : g[k] = queue_free[n + k]
    BY <1>1
  <1> HIDE DEF l
  <1>6. Distinct(g)
    <2> SUFFICES ASSUME NEW i \in 1 .. l - n, NEW j \in 1 .. l - n, g[i] = g[j]
                 PROVE  i = j
      BY <1>5 DEF Distinct
    <2>1. n + i \in 1 .. l /\ n + j \in 1 .. l /\ queue_free[n + i] = queue_free[n + j]
      BY <1>4, <1>5
    <2>2. n + i = n + j
      BY <1>1, <2>1 DEF Distinct, l
    <2> QED BY <1>4, <2>2
  <1>7. Elements(g) = Elements(queue_free) \ Taken(n)
    <2>1. ASSUME NEW x \in Elements(g) PROVE x \in Elements(queue_free) \ Taken(n)
      <3>1. PICK i \in 1 .. l - n : x = queue_free[n + i]
        BY <1>5 DEF Elements
      <3>2. n + i \in 1 .. l
        BY <1>4
      <3>3. ASSUME NEW j \in 1 .. n, x = queue_free[j] PROVE FALSE
        <4>1. j \in 1 .. l
          BY <1>4
        <4>2. j = n + i
          BY <1>1, <3>1, <3>2, <3>3, <4>1 DEF Distinct, l
        <4> QED BY <1>4, <4>2
      <3> QED BY <3>1, <3>2, <3>3 DEF Elements, Taken, l
    <2>2. ASSUME NEW x \in Elements(queue_free) \ Taken(n) PROVE x \in Elements(g)
      <3>1. PICK i \in 1 .. l : x = queue_free[i]
        BY DEF Elements, l
      <3>2. i \notin 1 .. n
        BY <3>1 DEF Taken
      <3>3. i - n \in 1 .. l - n /\ n + (i - n) = i
        BY <1>4, <3>2
      <3>4. x = g[i - n]
        BY <1>5, <3>1, <3>3
      <3> QED BY <1>5, <3>3, <3>4 DEF Elements
    <2> QED BY <2>1, <2>2
  <1> QED BY <1>2, <1>3, <1>5, <1>6, <1>7

\* The priorities after n queues have been allocated for a new message queue.
PrioritiesWith(n) ==
  [q \in Queues |-> IF q \in Taken(n) THEN (CHOOSE k \in 1 .. n : queue_free[k] = q) - 1
                    ELSE queue_priority[q]]

\* The queues get their priorities from the lowest to the highest.
LEMMA PrioritiesGiven ==
  ASSUME StoreOK, Distinct(queue_free), NEW n \in 0 .. Len(queue_free), n <= MAX_NUM_QUEUES + 1,
         NEW given, given = PrioritiesWith(n)
  PROVE  /\ given \in [Queues -> 0 .. MAX_NUM_QUEUES]
         /\ \A k \in 1 .. n : given[Backwards(n)[k]] = n - k
         /\ \A q \in Queues \ Taken(n) : given[q] = queue_priority[q]
  <1> DEFINE at(q) == CHOOSE k \in 1 .. n : queue_free[k] = q
  <1>1. queue_free \in Seq(Queues) /\ queue_priority \in [Queues -> 0 .. MAX_NUM_QUEUES]
    BY DEF StoreOK
  <1>2. \A q \in Taken(n) : at(q) \in 1 .. n /\ queue_free[at(q)] = q
    BY DEF Taken
  <1>3. \A q \in Queues : given[q] = IF q \in Taken(n) THEN at(q) - 1 ELSE queue_priority[q]
    BY DEF PrioritiesWith
  <1> HIDE DEF at
  <1>4. \A q \in Queues : given[q] \in 0 .. MAX_NUM_QUEUES
    <2>1. n \in Nat /\ MAX_NUM_QUEUES \in Nat
      BY <1>1
    <2>2. \A k \in 1 .. n : k - 1 \in 0 .. MAX_NUM_QUEUES
      BY <2>1
    <2>3. \A q \in Taken(n) : at(q) - 1 \in 0 .. MAX_NUM_QUEUES
      BY <1>2, <2>2
    <2> QED BY <1>1, <1>3, <2>3
  <1>5. given \in [Queues -> 0 .. MAX_NUM_QUEUES]
    BY <1>4 DEF PrioritiesWith
  <1>6. ASSUME NEW k \in 1 .. n PROVE given[Backwards(n)[k]] = n - k
    <2> DEFINE j == n + 1 - k
               q == queue_free[j]
    <2>1. Backwards(n)[k] = q
      BY DEF Backwards
    <2>2. j \in 1 .. n /\ j - 1 = n - k /\ \A i \in 1 .. n : i \in 1 .. Len(queue_free)
      OBVIOUS
    <2> HIDE DEF j
    <2>3. q \in Taken(n) /\ q \in Queues
      BY <1>1, <2>2 DEF Taken
    <2>4. at(q) = j
      BY <1>2, <2>2, <2>3 DEF Distinct
    <2> QED BY <1>3, <2>1, <2>2, <2>3, <2>4
  <1> QED BY <1>3, <1>5, <1>6

\* What an allocation of b with n queues does to the blocks and to the messages.
StoreTakes(b, i, prio, n) ==
  /\ mq_free' = Tail(mq_free)
  /\ queue_free' = SubSeq(queue_free, n + 1, Len(queue_free))
  /\ id' = [id EXCEPT ![b] = i]
  /\ priority' = [priority EXCEPT ![b] = prio]
  /\ queue_priority' = PrioritiesWith(n)

ContentTakes(b, n) ==
  /\ num_messages' = [num_messages EXCEPT ![b] = 0]
  /\ messages' = [q \in Queues |-> IF q \in Taken(n) THEN <<>> ELSE messages[q]]
  /\ UNCHANGED <<message_free, written>>

\* b is the next block of the pool.
NextBlock(b) == mq_free # <<>> /\ b = Head(mq_free)

\* With one id, there is no message queue yet.
FirstOfAll(S) == OneName => S = <<>> /\ mem.last[List] = NULL

\* b has come into use with n queues, those of B in its list: T takes the place
\* of S, all that of own.
StoreGrown(T, all, S, own, b, n, B) ==
  /\ StoreOK' /\ Shape(T, all)' /\ Ranked(all)' /\ Apart(T, all)'
  /\ OneName => Single(T, all)'
  /\ b \notin Elements(S) /\ own[b] = <<>> /\ own \in [MQs -> Seq(Queues)] /\ b \in MQs
  /\ Elements(T) \cap MQs = (Elements(S) \cap MQs) \cup {b}
  /\ Elements(B) \subseteq Taken(n) /\ Taken(n) \subseteq Elements(queue_free)

\* After mqOpen has made a message queue the lists and pools are in order again.
LEMMA StoreGrows ==
  ASSUME StoreOK, NEW S, NEW own, Shape(S, own), Ranked(own), Apart(S, own),
         FirstOfAll(S), NEW b, NextBlock(b), NEW i \in Ids, i \in Int, i >= 0,
         NEW prio \in 0 .. MAX_NUM_QUEUES, NEW n, n = prio + 1, n <= Len(queue_free),
         NEW T \in Seq(Nodes), NEW B, Joined(mem', T, B, b, n, S),
         StoreTakes(b, i, prio, n),
         NEW all, all = [own EXCEPT ![b] = B]
  PROVE  StoreGrown(T, all, S, own, b, n, B)
  <1> DEFINE new == mem'
             f == mq_free'
             g == queue_free'
             given == queue_priority'
  <1>1. /\ mq_free' = Tail(mq_free)
        /\ queue_free' = SubSeq(queue_free, n + 1, Len(queue_free))
        /\ id' = [id EXCEPT ![b] = i] /\ priority' = [priority EXCEPT ![b] = prio]
        /\ queue_priority' = PrioritiesWith(n)
    BY DEF StoreTakes
  <1>2. mq_free # <<>> /\ b = Head(mq_free)
    BY DEF NextBlock
  <1>3. /\ queue_free \in Seq(Queues) /\ mq_free \in Seq(MQs) /\ Distinct(queue_free)
        /\ n \in 0 .. Len(queue_free) /\ n \in Nat /\ n <= MAX_NUM_QUEUES + 1 /\ n > 0
        /\ own \in [MQs -> Seq(Queues)] /\ S \in Seq(Nodes)
    BY DEF StoreOK, Apart, Shape
  <1>4. /\ f \in Seq(MQs) /\ Distinct(f) /\ Elements(f) = Elements(mq_free) \ {b}
        /\ g \in Seq(Queues) /\ Distinct(g) /\ Elements(g) = Elements(queue_free) \ Taken(n)
        /\ b \in MQs /\ b \in Elements(mq_free)
    BY <1>1, <1>3, <1>2, PoolsTaken
  <1>5. /\ given \in [Queues -> 0 .. MAX_NUM_QUEUES]
        /\ \A k \in 1 .. n : given[Backwards(n)[k]] = n - k
        /\ \A q \in Queues \ Taken(n) : given[q] = queue_priority[q]
    <2>1. PICK h : h = given
      OBVIOUS
    <2>2. h = PrioritiesWith(n)
      BY <1>1, <2>1
    <2>3. /\ h \in [Queues -> 0 .. MAX_NUM_QUEUES]
          /\ \A k \in 1 .. n : h[Backwards(n)[k]] = n - k
          /\ \A q \in Queues \ Taken(n) : h[q] = queue_priority[q]
      BY <1>3, <2>2, PrioritiesGiven
    <2> QED BY <2>1, <2>3
  <1>6. /\ Backwards(n) \in Seq(Queues) /\ Len(Backwards(n)) = n
        /\ Elements(Backwards(n)) = Taken(n) /\ Taken(n) \subseteq Elements(queue_free)
    BY <1>3, BackwardsIs
  <1>7. /\ new \in Memory /\ Chained(new, T) /\ T # <<>> /\ new.first[List] = T[1]
        /\ (new.last[List] # NULL => new.last[List] = T[1])
        /\ new.size[List] = mem.size[List] + 1
        /\ Elements(T) = Elements(S) \cup {b} \cup (Taken(n) \ Elements(B))
        /\ (B = <<>> => new.first[b] = NULL)
        /\ (B # <<>> => B = Backwards(n) /\ Represents(new, b, B))
        /\ (S = <<>> /\ mem.last[List] = NULL => T = <<b>> /\ new.last[List] = b /\ B # <<>>)
    BY DEF Joined
  <1>8. SameBut(new, Elements(S) \cup Taken(n) \cup {b}, b)
    BY DEF Joined, SameBut
  <1>9. /\ b \notin Elements(S) /\ b \notin Queues
        /\ Elements(S) \cap (Elements(mq_free) \cup Elements(queue_free)) = {}
        /\ Elements(queue_free) \subseteq Queues
    BY <1>3, <1>4, ElementsType, NodesAre DEF Apart
  <1>10. own[b] = <<>>
    BY <1>4, <1>9 DEF Shape
  <1>11. B \in Seq(Queues) /\ Elements(B) \subseteq Taken(n) /\ Elements(B) \subseteq Queues
    <2>1. CASE B = <<>>
      BY <2>1, EmptyElements
    <2>2. CASE B # <<>>
      BY <1>6, <1>7, <1>9, <2>2
    <2> QED BY <2>1, <2>2
  <1>12. /\ all \in [MQs -> Seq(Queues)] /\ all[b] = B
         /\ \A o \in MQs \ {b} : all[o] = own[o]
    BY <1>3, <1>4, <1>11
  <1> HIDE DEF new, f, g, given
  <1>13. Elements(T) \cap MQs = (Elements(S) \cap MQs) \cup {b}
    BY <1>4, <1>6, <1>7, <1>9, NodesAre
  <1>14. StoreOK'
    <2>1. id' \in [MQs -> Int] /\ priority' \in [MQs -> 0 .. MAX_NUM_QUEUES]
      BY <1>1, <1>4 DEF StoreOK
    <2> QED BY <1>4, <1>5, <1>7, <2>1 DEF StoreOK, new, f, g, given
  <1>15. \A o \in MQs : Elements(own[o]) \cap (Elements(S) \cup Elements(queue_free)) = {}
    BY DEF Apart
  <1>16. \A o \in MQs : Elements(own[o]) \subseteq Queues
    BY <1>3, ElementsType
  <1>17. Shape(T, all)'
    <2>1. new.first[List] = After(T, 0)
      <3>1. Len(T) # 0
        BY <1>7
      <3> QED BY <1>7, <3>1 DEF After
    <2>2. new.size[List] = Cardinality(Elements(T) \cap MQs)
      <3>1. IsFiniteSet(MQs)
        BY CardInterval DEF MQs
      <3>2. IsFiniteSet(Elements(S) \cap MQs)
        BY <3>1, FS_Subset
      <3>3. mem.size[List] = Cardinality(Elements(S) \cap MQs)
        BY DEF Shape
      <3>4. Cardinality((Elements(S) \cap MQs) \cup {b}) = Cardinality(Elements(S) \cap MQs) + 1
        BY <1>9, <3>2, FS_AddElement
      <3> QED BY <1>7, <1>13, <3>3, <3>4
    <2> DEFINE X == Elements(S) \cup Taken(n) \cup {b}
    <2>3. \A o \in MQs \ {b} : Elements(own[o]) \cap X = {} /\ (o \in Elements(S) <=> o \in Elements(T))
      BY <1>4, <1>6, <1>9, <1>13, <1>15, <1>16
    <2>4. ASSUME NEW o \in MQs \ {b}
          PROVE  /\ own[o] = <<>> /\ o \in Elements(T) => new.first[o] = NULL
                 /\ own[o] # <<>> => o \in Elements(T) /\ Represents(new, o, own[o])
      <3>1. SameBut(new, X, b)
        BY <1>8
      <3> HIDE DEF X
      <3>2. Elements(own[o]) \cap X = {} /\ (o \in Elements(S) <=> o \in Elements(T))
        BY <2>3
      <3>3. o \in MQs /\ o # b /\ b \in MQs
        BY <1>4
      <3> QED BY <3>1, <3>2, <3>3, OtherLists
    <2>5. ASSUME NEW o \in MQs
          PROVE  /\ all[o] = <<>> /\ o \in Elements(T) => new.first[o] = NULL
                 /\ all[o] # <<>> => o \in Elements(T) /\ Represents(new, o, all[o])
      BY <1>7, <1>12, <2>4
    <2> QED BY <1>7, <1>12, <2>1, <2>2, <2>5 DEF Shape, new
  <1>18. Ranked(all)'
    <2> SUFFICES ASSUME NEW o \in MQs, all[o] # <<>>
                 PROVE  /\ Len(all[o]) = priority'[o] + 1
                        /\ \A k \in 1 .. Len(all[o]) : given[all[o][k]] = priority'[o] + 1 - k
      BY DEF Ranked, given
    <2>1. CASE o = b
      <3>1. priority'[o] = prio /\ all[o] = Backwards(n)
        BY <1>1, <1>4, <1>7, <1>12, <2>1 DEF StoreOK
      <3>2. priority'[o] + 1 = n /\ Len(all[o]) = n
        BY <1>6, <3>1
      <3>3. \A k \in 1 .. n : given[all[o][k]] = n - k
        BY <1>5, <3>1
      <3> DEFINE s == all[o]
                 P == priority'[o]
      <3>4. P \in Nat /\ P + 1 = n /\ Len(s) = n /\ \A k \in 1 .. n : given[s[k]] = n - k
        BY <3>1, <3>2, <3>3
      <3> HIDE DEF s, P
      <3>5. ASSUME NEW k \in 1 .. Len(s) PROVE given[s[k]] = P + 1 - k
        <4>1. k \in 1 .. n
          BY <3>4
        <4>2. given[s[k]] = n - k
          BY <3>4, <4>1
        <4>3. n - k = P + 1 - k
          BY <3>4, <4>1
        <4> QED BY <4>2, <4>3
      <3> QED BY <3>4, <3>5 DEF s, P
    <2>2. CASE o # b
      <3>1. priority'[o] = priority[o] /\ all[o] = own[o]
        BY <1>1, <1>12, <2>2 DEF StoreOK
      <3>2. Len(own[o]) = priority[o] + 1
        BY <3>1 DEF Ranked
      <3>3. ASSUME NEW k \in 1 .. Len(own[o]) PROVE given[own[o][k]] = priority[o] + 1 - k
        <4>1. own[o][k] \in Elements(own[o])
          BY DEF Elements
        <4>2. own[o][k] \in Queues \ Taken(n)
          BY <1>6, <1>15, <1>16, <4>1
        <4> QED BY <1>5, <3>1, <4>2 DEF Ranked
      <3> QED BY <3>1, <3>2, <3>3
    <2> QED BY <2>1, <2>2
  <1>19. Apart(T, all)'
    <2>1. Elements(T) \cap (Elements(f) \cup Elements(g)) = {}
      <3>1. Elements(f) \subseteq MQs
        BY <1>4, ElementsType
      <3> QED BY <1>4, <1>6, <1>7, <1>9, <3>1, NodesAre
    <2>2. ASSUME NEW o \in MQs
          PROVE  Elements(all[o]) \cap (Elements(T) \cup Elements(g)) = {}
      <3>1. CASE o = b
        BY <1>4, <1>6, <1>7, <1>9, <1>11, <1>12, <3>1
      <3>2. CASE o # b
        BY <1>4, <1>6, <1>7, <1>9, <1>12, <1>15, <1>16, <3>2
      <3> QED BY <3>1, <3>2
    <2>3. ASSUME NEW o \in MQs, NEW other \in MQs \ {o}
          PROVE  Elements(all[o]) \cap Elements(all[other]) = {}
      <3>1. Elements(own[o]) \cap Elements(own[other]) = {}
        BY DEF Apart
      <3>2. CASE o # b /\ other # b
        BY <1>12, <3>1, <3>2
      <3>3. CASE o = b
        BY <1>6, <1>11, <1>12, <1>15, <3>3
      <3>4. CASE other = b
        BY <1>6, <1>11, <1>12, <1>15, <3>4
      <3> QED BY <3>2, <3>3, <3>4
    <2>4. \A q \in Elements(g) : new.next[q] = NULL /\ new.prev[q] = NULL
      <3>1. \A q \in Elements(g) : q \in Nodes \ (Elements(S) \cup Taken(n) \cup {b})
        BY <1>4, <1>9 DEF Nodes
      <3>2. \A q \in Elements(g) : mem.next[q] = NULL /\ mem.prev[q] = NULL
        BY <1>4 DEF Apart
      <3> QED BY <1>8, <3>1, <3>2 DEF SameBut
    <2> QED BY <1>4, <2>1, <2>2, <2>3, <2>4 DEF Apart, new, f, g
  <1>20. OneName => Single(T, all)'
    <2>1. id'[b] = i
      BY <1>1, <1>4 DEF StoreOK
    <2>2. ASSUME OneName
          PROVE  T = <<b>> /\ new.last[List] = b /\ all[b] # <<>>
      BY <1>7, <1>12, <2>2 DEF FirstOfAll
    <2> QED BY <1>4, <2>1, <2>2 DEF Single, new
  <1> QED BY <1>3, <1>4, <1>6, <1>9, <1>10, <1>11, <1>13, <1>14, <1>17, <1>18, <1>19, <1>20
          DEF StoreGrown

\* The queues of the pool have no messages, so a new message queue has none.
LEMMA AllocationCounted ==
  ASSUME StoreOK, ContentOK, Stamped(messages, written), NEW S, NEW own, Counted(S, own),
         Apart(S, own), own \in [MQs -> Seq(Queues)], NEW b \in MQs, own[b] = <<>>,
         NEW n, Taken(n) \subseteq Elements(queue_free), NEW B, Elements(B) \subseteq Taken(n),
         NEW T, \A o \in MQs \ {b} : o \in Elements(T) => o \in Elements(S),
         NEW all, all = [own EXCEPT ![b] = B],
         ContentTakes(b, n)
  PROVE  ContentOK' /\ Stamped(messages', written') /\ Counted(T, all)'
  <1>1. \A q \in Queues : q \in Elements(queue_free) => messages[q] = <<>>
    BY DEF Counted, Apart
  <1>2. Elements(queue_free) \subseteq Queues
    BY ElementsType DEF StoreOK
  <1>3. messages' = messages
    BY <1>1, <1>2 DEF ContentOK, ContentTakes
  <1>4. ContentOK' /\ Stamped(messages', written')
    <2>1. num_messages' \in [MQs -> 0 .. MAX_NUM_MESSAGES_PER_MQ]
      BY DEF ContentOK, ContentTakes
    <2> QED BY <1>3, <2>1 DEF ContentOK, ContentTakes
  <1>5. /\ \A o \in MQs \ {b} : all[o] = own[o] /\ num_messages'[o] = num_messages[o]
        /\ all[b] = B /\ num_messages'[b] = 0
    BY DEF ContentOK, ContentTakes
  <1>6. \A q \in Queues : messages[q] # <<>> => \E o \in MQs : q \in Elements(all[o])
    <2> SUFFICES ASSUME NEW q \in Queues, messages[q] # <<>>
                 PROVE  \E o \in MQs : q \in Elements(all[o])
      OBVIOUS
    <2>1. PICK o \in MQs : q \in Elements(own[o])
      BY DEF Counted
    <2>2. o # b
      BY <2>1, EmptyElements
    <2> QED BY <1>5, <2>1, <2>2
  <1>7. InQueues(messages, Elements(B)) = {}
    <2>1. \A q \in Elements(B) : Elements(messages[q]) = {}
      BY <1>1, <1>2, EmptyElements
    <2> QED BY <2>1 DEF InQueues
  <1>8. Cardinality(InQueues(messages, Elements(B))) = 0
    BY <1>7, FS_EmptySet
  <1>9. ASSUME NEW o \in MQs
        PROVE  LET c == Cardinality(InQueues(messages, Elements(all[o]))) IN
               /\ o \in Elements(T) /\ all[o] = <<>> => num_messages'[o] = 0
               /\ all[o] # <<>> => c <= num_messages'[o]
               /\ all[o] # <<>> /\ LargeBuffers => c = num_messages'[o]
    <2>1. CASE o = b
      BY <1>5, <1>8, <2>1
    <2>2. CASE o # b
      BY <1>5, <2>2 DEF Counted
    <2> QED BY <2>1, <2>2
  <1>10. Counted(T, all)'
    BY <1>3, <1>6, <1>9 DEF Counted, LargeBuffers, ContentTakes
  <1> QED BY <1>4, <1>10

\* mqOpen with enough queues in the pool keeps the invariant.
LEMMA CreateKeeps ==
  ASSUME StoreOK, ContentOK, OpenOK, NEW S, NEW own, Whole(S, own),
         NEW p \in Processes, NEW i \in Ids, NEW flags, NEW prio \in OpenPriorities,
         NEW mq, mq = MessageQueueList_byId(i), ~OpenRefused(p, i, mq, flags, prio),
         Create(p, i, mq, prio)
  PROVE  /\ StoreOK' /\ ContentOK' /\ OpenOK' /\ ret'.value \in Int
         /\ \E T, all : Whole(T, all)'
  <1> DEFINE n == prio + 1
             L == Elements(S) \cap MQs
  <1>1. PICK b : b = Head(mq_free)
    OBVIOUS
  <1>2. /\ i \in Int /\ prio \in Int /\ Ids \subseteq Int
    BY MessageQueuesAssumption
  <1>3. /\ mq = NULL /\ ~TooHungry(p) /\ i >= 0 /\ prio \in 0 .. MAX_NUM_QUEUES /\ mq_free # <<>>
        /\ n <= Len(queue_free)
    BY <1>2 DEF OpenRefused, Create, QueuesToAlloc
  <1>4. /\ Shape(S, own) /\ Ranked(own) /\ Apart(S, own) /\ Opened(L)
        /\ Stamped(messages, written) /\ Counted(S, own) /\ (OneName => Single(S, own))
    BY DEF Whole
  <1>5. OneName => S = <<>> /\ mem.last[List] = NULL
    <2> SUFFICES ASSUME OneName, NEW m \in MQs, S = <<m>>, id[m] \in Ids, id[m] >= 0
                 PROVE  FALSE
      BY <1>4 DEF Single
    <2>1. id[m] = i
      BY <1>3 DEF OneName
    <2>2. m \in Elements(S) \cap MQs
      BY SingletonElements
    <2> QED BY <1>3, <1>4, <2>1, <2>2, FoundMQ
  <1>6. StoreTakes(b, i, prio, n) /\ ContentTakes(b, n)
    BY <1>1 DEF Create, AllocMQ, QueuesToAlloc, PrioritiesWith, Taken, StoreTakes, ContentTakes
  <1>7. /\ mem' = List_insert(QueuesLinked(b, n), List, mem.last[List], b)
        /\ OpenDescriptor(p, b)
    BY <1>1 DEF Create, QueuesToAlloc
  <1>8. b = Head(mq_free) /\ n \in 1 .. Len(queue_free)
    BY <1>1, <1>2, <1>3
  <1>9. \E T \in Seq(Nodes) : \E B : Joined(mem', T, B, b, n, S)
    <2> DEFINE new == mem'
               k == n
    <2>1. new = List_insert(QueuesLinked(b, k), List, mem.last[List], b) /\ k \in 1 .. Len(queue_free)
      BY <1>7, <1>8
    <2> HIDE DEF new, n, k
    <2>2. CASE mem.last[List] = NULL
      <3>1. \E T \in Seq(Nodes) : Joined(new, T, Backwards(k), b, k, S)
        BY <1>3, <1>4, <1>8, <2>1, <2>2, JoinedAlone
      <3> QED BY <3>1 DEF new, k
    <2>3. CASE mem.last[List] # NULL
      <3>1. \E T \in Seq(Nodes) : Joined(new, T, <<>>, b, k, S)
        BY <1>3, <1>4, <1>8, <2>1, <2>3, JoinedMixed
      <3> QED BY <3>1 DEF new, k
    <2> QED BY <2>2, <2>3
  <1>10. PICK T \in Seq(Nodes) : \E B : Joined(mem', T, B, b, n, S)
    BY <1>9
  <1>11. PICK B : Joined(mem', T, B, b, n, S)
    BY <1>10
  <1>12. PICK all : all = [own EXCEPT ![b] = B]
    OBVIOUS
  <1>13. StoreGrown(T, all, S, own, b, n, B)
    <2> DEFINE k == n
    <2>1. /\ k = prio + 1 /\ k <= Len(queue_free) /\ Joined(mem', T, B, b, k, S)
          /\ StoreTakes(b, i, prio, k)
      BY <1>3, <1>6, <1>11
    <2> HIDE DEF n, k
    <2>2. i \in Int /\ i >= 0 /\ prio \in 0 .. MAX_NUM_QUEUES /\ NextBlock(b) /\ FirstOfAll(S)
      BY <1>2, <1>3, <1>5, <1>8 DEF NextBlock, FirstOfAll
    <2>3. StoreGrown(T, all, S, own, b, k, B)
      BY <1>4, <1>12, <2>1, <2>2, StoreGrows
    <2> QED BY <2>3 DEF k
  <1> HIDE DEF n
  <1>14. /\ StoreOK' /\ Shape(T, all)' /\ Ranked(all)' /\ Apart(T, all)'
         /\ (OneName => Single(T, all)')
         /\ b \notin Elements(S) /\ own[b] = <<>> /\ own \in [MQs -> Seq(Queues)] /\ b \in MQs
         /\ Elements(T) \cap MQs = (Elements(S) \cap MQs) \cup {b}
         /\ Elements(B) \subseteq Taken(n) /\ Taken(n) \subseteq Elements(queue_free)
    BY <1>13 DEF StoreGrown
  <1>15. ContentOK' /\ Stamped(messages', written') /\ Counted(T, all)'
    <2>2. \A o \in MQs \ {b} : o \in Elements(T) => o \in Elements(S)
      BY <1>14
    <2>3. ContentOK' /\ Stamped(messages', written') /\ Counted(T, all)'
      BY <1>4, <1>6, <1>14, <1>12, <2>2, AllocationCounted
    <2> QED BY <2>3
  <1>16. OpenOK' /\ Opened(L \cup {b})' /\ ret'.value \in Int
    <2> DEFINE M == L \cup {b}
    <2>1. M \in SUBSET MQs /\ b \in M /\ L \subseteq M
      BY <1>14
    <2> HIDE DEF L
    <2>2. Opened(M)
      BY <1>4, <2>1 DEF Opened
    <2> HIDE DEF M
    <2>3. OpenOK' /\ Opened(M)' /\ ret'.value \in Int
      BY <1>3, <1>7, <2>1, <2>2, OpenDescriptorKeeps
    <2> QED BY <2>3 DEF M
  <1>17. Whole(T, all)'
    <2>1. Opened(Elements(T) \cap MQs)'
      BY <1>14, <1>16 DEF Opened, Held
    <2> HIDE DEF L
    <2> QED BY <1>14, <1>15, <2>1 DEF Whole, OneName
  <1> QED BY <1>14, <1>15, <1>16, <1>17

\* The list after n queues have been inserted for a block b that never gets into
\* it: T takes the place of S.
Mixed(new, T, b, n, S) ==
  /\ new \in Memory /\ Chained(new, T) /\ new.first[List] = After(T, 0)
  /\ new.last[List] # NULL => T # <<>> /\ new.last[List] = T[1]
  /\ new.size[List] = mem.size[List]
  /\ Elements(S) \subseteq Elements(T) /\ Elements(T) \subseteq Elements(S) \cup Taken(n)
  /\ S = <<>> /\ mem.last[List] = NULL => T = <<>> /\ new.last[List] = NULL
  /\ SameBut(new, Elements(S) \cup Taken(n) \cup {b}, b)

\* What mqOpen has linked when it runs out of queues: some may be in
\* messageQueues_list, and the message queue is nowhere.
LEMMA MixedIs ==
  ASSUME StoreOK, NEW S, NEW own, Shape(S, own), Apart(S, own), NEW b, NextBlock(b),
         NEW n \in 0 .. Len(queue_free), NEW new, new = QueuesLinked(b, n)
  PROVE  \E T \in Seq(Nodes) : Mixed(new, T, b, n, S)
  <1>1. /\ S \in Seq(Nodes) /\ Chained(mem, S) /\ mem.first[List] = After(S, 0)
        /\ mem \in Memory /\ queue_free \in Seq(Queues) /\ mq_free \in Seq(MQs) /\ mq_free # <<>>
        /\ b = Head(mq_free)
        /\ (mem.last[List] # NULL => S # <<>> /\ mem.last[List] = S[1])
    BY DEF Shape, StoreOK, NextBlock
  <1>2. /\ b \in MQs /\ b \in Nodes /\ b \in Heads /\ b # List /\ List \in Heads
        /\ NULL \notin Nodes
    BY <1>1, NodesAre DEF Nodes, Heads
  <1>3. b \notin Elements(S) /\ Elements(S) \cap Elements(queue_free) = {} /\ Loose
        /\ Distinct(queue_free)
    BY <1>1, ElementsType DEF Apart, Loose
  <1>4. Taken(n) \subseteq Elements(queue_free)
    BY <1>1, <1>3, BackwardsIs
  <1>5. Elements(S) \subseteq Nodes \ (Taken(n) \cup {b})
    BY <1>1, <1>3, <1>4, ElementsType
  <1>6. CASE mem.last[List] = NULL
    <2>1. new \in Memory /\ Elsewhere(new, Taken(n), b)
      BY <1>1, <1>2, <1>3, <1>6, OwnListLinked
    <2>2. Chained(new, S)
      BY <1>1, <1>5, <2>1, OtherChain DEF Elsewhere
    <2>3. /\ new.first[List] = mem.first[List] /\ new.last[List] = mem.last[List]
          /\ new.size[List] = mem.size[List]
      BY <1>2, <2>1 DEF Elsewhere
    <2>4. SameBut(new, Elements(S) \cup Taken(n) \cup {b}, b)
      BY <2>1 DEF Elsewhere, SameBut
    <2>5. Mixed(new, S, b, n, S)
      BY <1>1, <1>6, <2>1, <2>2, <2>3, <2>4 DEF Mixed
    <2> QED BY <1>1, <2>5
  <1>7. CASE mem.last[List] # NULL
    <2> DEFINE m == QueuesLinked(b, n)
    <2>1. /\ m \in Memory /\ Elsewhere(m, Elements(S) \cup Taken(n), b)
          /\ \E R \in Seq(Nodes) : /\ Chained(m, R) /\ R # <<>> /\ R[1] = S[1]
                                   /\ Elements(R) = Elements(S) \cup Taken(n)
      <3>1. b \in MQs \ Elements(S)
        BY <1>2, <1>3
      <3>2. Ahead(S, b, n)
        BY <1>1, <1>3, <1>7, <3>1 DEF Ahead
      <3>3. Woven(m, S, b, n)
        BY <1>3, <1>7, <3>2, QueuesMixed
      <3> QED BY <3>3 DEF Woven
    <2> HIDE DEF m
    <2>2. new = m
      BY DEF m
    <2>3. /\ new \in Memory /\ Elsewhere(new, Elements(S) \cup Taken(n), b)
          /\ \E R \in Seq(Nodes) : /\ Chained(new, R) /\ R # <<>> /\ R[1] = S[1]
                                   /\ Elements(R) = Elements(S) \cup Taken(n)
      BY <2>2, <2>1
    <2>4. PICK R \in Seq(Nodes) : /\ Chained(new, R) /\ R # <<>> /\ R[1] = S[1]
                                  /\ Elements(R) = Elements(S) \cup Taken(n)
      BY <2>3
    <2>5. /\ new.first[List] = mem.first[List] /\ new.last[List] = mem.last[List]
          /\ new.size[List] = mem.size[List]
      BY <1>2, <2>3 DEF Elsewhere
    <2>6. After(R, 0) = R[1] /\ After(S, 0) = S[1]
      <3>1. Len(R) # 0 /\ Len(S) # 0
        BY <1>1, <1>7, <2>4
      <3> QED BY <3>1 DEF After
    <2>7. SameBut(new, Elements(S) \cup Taken(n) \cup {b}, b)
      BY <2>3 DEF Elsewhere, SameBut
    <2>8. new.first[List] = After(R, 0) /\ new.last[List] = R[1]
      BY <1>1, <1>7, <2>4, <2>5, <2>6
    <2>9. Mixed(new, R, b, n, S)
      BY <1>7, <2>3, <2>4, <2>5, <2>7, <2>8 DEF Mixed
    <2> QED BY <2>9
  <1> QED BY <1>6, <1>7

\* The queues of the pool have all been taken for b, and none is reached from b.
StoreUsedUp(T, S, own, b, n) ==
  /\ StoreOK' /\ Shape(T, own)' /\ Ranked(own)' /\ Apart(T, own)'
  /\ OneName => Single(T, own)'
  /\ own[b] = <<>> /\ own \in [MQs -> Seq(Queues)] /\ b \in MQs
  /\ Elements(T) \cap MQs = Elements(S) \cap MQs
  /\ Taken(n) \subseteq Elements(queue_free)

\* The lists and pools are in order even so; the blocks are lost.
LEMMA StoreUsed ==
  ASSUME StoreOK, NEW S, NEW own, Shape(S, own), Ranked(own), Apart(S, own),
         FirstOfAll(S), NEW b, NextBlock(b), NEW i \in Int,
         NEW prio \in 0 .. MAX_NUM_QUEUES, NEW n \in 0 .. Len(queue_free), n <= prio,
         NEW T \in Seq(Nodes), Mixed(mem', T, b, n, S), StoreTakes(b, i, prio, n)
  PROVE  StoreUsedUp(T, S, own, b, n)
  <1> DEFINE new == mem'
             f == mq_free'
             g == queue_free'
             given == queue_priority'
  <1>1. /\ mq_free' = Tail(mq_free)
        /\ queue_free' = SubSeq(queue_free, n + 1, Len(queue_free))
        /\ id' = [id EXCEPT ![b] = i] /\ priority' = [priority EXCEPT ![b] = prio]
        /\ queue_priority' = PrioritiesWith(n)
    BY DEF StoreTakes
  <1>2. mq_free # <<>> /\ b = Head(mq_free)
    BY DEF NextBlock
  <1>3. /\ queue_free \in Seq(Queues) /\ mq_free \in Seq(MQs) /\ Distinct(queue_free)
        /\ n \in 0 .. Len(queue_free) /\ n \in Nat /\ n <= MAX_NUM_QUEUES + 1
        /\ own \in [MQs -> Seq(Queues)] /\ S \in Seq(Nodes)
    BY DEF StoreOK, Apart, Shape
  <1>4. /\ f \in Seq(MQs) /\ Distinct(f) /\ Elements(f) = Elements(mq_free) \ {b}
        /\ g \in Seq(Queues) /\ Distinct(g) /\ Elements(g) = Elements(queue_free) \ Taken(n)
        /\ b \in MQs /\ b \in Elements(mq_free)
    BY <1>1, <1>3, <1>2, PoolsTaken
  <1>5. /\ given \in [Queues -> 0 .. MAX_NUM_QUEUES]
        /\ \A q \in Queues \ Taken(n) : given[q] = queue_priority[q]
    <2>1. PICK h : h = given
      OBVIOUS
    <2>2. h = PrioritiesWith(n)
      BY <1>1, <2>1
    <2>3. /\ h \in [Queues -> 0 .. MAX_NUM_QUEUES]
          /\ \A k \in 1 .. n : h[Backwards(n)[k]] = n - k
          /\ \A q \in Queues \ Taken(n) : h[q] = queue_priority[q]
      BY <1>3, <2>2, PrioritiesGiven
    <2> QED BY <2>1, <2>3
  <1>6. Taken(n) \subseteq Elements(queue_free)
    BY <1>3, BackwardsIs
  <1>7. /\ new \in Memory /\ Chained(new, T) /\ new.first[List] = After(T, 0)
        /\ (new.last[List] # NULL => T # <<>> /\ new.last[List] = T[1])
        /\ new.size[List] = mem.size[List]
        /\ Elements(S) \subseteq Elements(T) /\ Elements(T) \subseteq Elements(S) \cup Taken(n)
        /\ (S = <<>> /\ mem.last[List] = NULL => T = <<>> /\ new.last[List] = NULL)
        /\ SameBut(new, Elements(S) \cup Taken(n) \cup {b}, b)
    BY DEF Mixed
  <1>8. /\ b \notin Elements(S) /\ b \notin Queues
        /\ Elements(S) \cap (Elements(mq_free) \cup Elements(queue_free)) = {}
        /\ Elements(queue_free) \subseteq Queues
    BY <1>3, <1>4, ElementsType, NodesAre DEF Apart
  <1>9. own[b] = <<>>
    BY <1>4, <1>8 DEF Shape
  <1> HIDE DEF new, f, g, given
  <1>10. Elements(T) \cap MQs = Elements(S) \cap MQs
    BY <1>4, <1>6, <1>7, <1>8, NodesAre
  <1>11. StoreOK'
    <2>1. id' \in [MQs -> Int] /\ priority' \in [MQs -> 0 .. MAX_NUM_QUEUES]
      BY <1>1, <1>4 DEF StoreOK
    <2> QED BY <1>4, <1>5, <1>7, <2>1 DEF StoreOK, new, f, g, given
  <1>12. \A o \in MQs : Elements(own[o]) \cap (Elements(S) \cup Elements(queue_free)) = {}
    BY DEF Apart
  <1>13. \A o \in MQs : Elements(own[o]) \subseteq Queues
    BY <1>3, ElementsType
  <1>14. Shape(T, own)'
    <2> DEFINE X == Elements(S) \cup Taken(n) \cup {b}
    <2>1. \A o \in MQs \ {b} : Elements(own[o]) \cap X = {} /\ (o \in Elements(S) <=> o \in Elements(T))
      BY <1>4, <1>6, <1>8, <1>10, <1>12, <1>13
    <2>2. ASSUME NEW o \in MQs \ {b}
          PROVE  /\ own[o] = <<>> /\ o \in Elements(T) => new.first[o] = NULL
                 /\ own[o] # <<>> => o \in Elements(T) /\ Represents(new, o, own[o])
      <3>1. SameBut(new, X, b)
        BY <1>7
      <3> HIDE DEF X
      <3>2. Elements(own[o]) \cap X = {} /\ (o \in Elements(S) <=> o \in Elements(T))
        BY <2>1
      <3>3. o \in MQs /\ o # b /\ b \in MQs
        BY <1>4
      <3> QED BY <3>1, <3>2, <3>3, OtherLists
    <2>3. ASSUME NEW o \in MQs
          PROVE  /\ own[o] = <<>> /\ o \in Elements(T) => new.first[o] = NULL
                 /\ own[o] # <<>> => o \in Elements(T) /\ Represents(new, o, own[o])
      <3>1. b \notin Elements(T)
        BY <1>4, <1>8, <1>10
      <3> QED BY <1>9, <2>2, <3>1
    <2>4. new.size[List] = Cardinality(Elements(T) \cap MQs)
      BY <1>7, <1>10 DEF Shape
    <2> QED BY <1>3, <1>7, <2>3, <2>4 DEF Shape, new
  <1>15. Ranked(own)'
    <2> SUFFICES ASSUME NEW o \in MQs, own[o] # <<>>
                 PROVE  /\ Len(own[o]) = priority'[o] + 1
                        /\ \A k \in 1 .. Len(own[o]) : given[own[o][k]] = priority'[o] + 1 - k
      BY DEF Ranked, given
    <2>1. priority'[o] = priority[o]
      BY <1>1, <1>9 DEF StoreOK
    <2>2. Len(own[o]) = priority[o] + 1
      BY DEF Ranked
    <2>3. ASSUME NEW k \in 1 .. Len(own[o]) PROVE given[own[o][k]] = priority[o] + 1 - k
      <3>1. own[o][k] \in Elements(own[o])
        BY DEF Elements
      <3>2. own[o][k] \in Queues \ Taken(n)
        BY <1>6, <1>12, <1>13, <3>1
      <3> QED BY <1>5, <3>2 DEF Ranked
    <2> QED BY <2>1, <2>2, <2>3
  <1>16. Apart(T, own)'
    <2>1. Elements(T) \cap (Elements(f) \cup Elements(g)) = {}
      <3>1. Elements(f) \subseteq MQs
        BY <1>4, ElementsType
      <3> QED BY <1>4, <1>6, <1>7, <1>8, <3>1, NodesAre
    <2>2. ASSUME NEW o \in MQs
          PROVE  Elements(own[o]) \cap (Elements(T) \cup Elements(g)) = {}
      BY <1>4, <1>6, <1>7, <1>12
    <2>3. ASSUME NEW o \in MQs, NEW other \in MQs \ {o}
          PROVE  Elements(own[o]) \cap Elements(own[other]) = {}
      BY DEF Apart
    <2>4. \A q \in Elements(g) : new.next[q] = NULL /\ new.prev[q] = NULL
      <3>1. \A q \in Elements(g) : q \in Nodes \ (Elements(S) \cup Taken(n) \cup {b})
        BY <1>4, <1>8 DEF Nodes
      <3>2. \A q \in Elements(g) : mem.next[q] = NULL /\ mem.prev[q] = NULL
        BY <1>4 DEF Apart
      <3> QED BY <1>7, <3>1, <3>2 DEF SameBut
    <2> QED BY <1>4, <2>1, <2>2, <2>3, <2>4 DEF Apart, new, f, g
  <1>17. OneName => Single(T, own)'
    BY <1>7 DEF FirstOfAll, Single, new
  <1> QED BY <1>3, <1>4, <1>6, <1>9, <1>10, <1>11, <1>14, <1>15, <1>16, <1>17 DEF StoreUsedUp

\* mqOpen that runs out of queues keeps the invariant.
LEMMA CreateHalfwayKeeps ==
  ASSUME StoreOK, ContentOK, OpenOK, NEW S, NEW own, Whole(S, own),
         NEW p \in Processes, NEW i \in Ids, NEW flags, NEW prio \in OpenPriorities,
         NEW mq, mq = MessageQueueList_byId(i), ~OpenRefused(p, i, mq, flags, prio),
         CreateHalfway(i, mq, prio)
  PROVE  /\ StoreOK' /\ ContentOK' /\ OpenOK' /\ ret'.value \in Int
         /\ \E T, all : Whole(T, all)'
  <1> DEFINE n == Len(queue_free)
  <1>0. PICK b : b = Head(mq_free)
    OBVIOUS
  <1>1. /\ i \in Int /\ prio \in Int /\ Ids \subseteq Int /\ queue_free \in Seq(Queues)
    BY MessageQueuesAssumption DEF StoreOK
  <1>2. /\ mq = NULL /\ i >= 0 /\ prio \in 0 .. MAX_NUM_QUEUES /\ mq_free # <<>>
        /\ n <= prio /\ n \in Nat
    BY <1>1 DEF OpenRefused, CreateHalfway, QueuesToAlloc
  <1>3. /\ Shape(S, own) /\ Ranked(own) /\ Apart(S, own) /\ Opened(Elements(S) \cap MQs)
        /\ Stamped(messages, written) /\ Counted(S, own) /\ (OneName => Single(S, own))
    BY DEF Whole
  <1>4. OneName => S = <<>> /\ mem.last[List] = NULL
    <2> SUFFICES ASSUME OneName, NEW m \in MQs, S = <<m>>, id[m] \in Ids, id[m] >= 0
                 PROVE  FALSE
      BY <1>3 DEF Single
    <2>1. id[m] = i
      BY <1>2 DEF OneName
    <2>2. m \in Elements(S) \cap MQs
      BY SingletonElements
    <2> QED BY <1>2, <1>3, <2>1, <2>2, FoundMQ
  <1>5. StoreTakes(b, i, prio, n) /\ ContentTakes(b, n)
    BY <1>0 DEF CreateHalfway, AllocMQ, PrioritiesWith, Taken, StoreTakes, ContentTakes
  <1>6. /\ mem' = QueuesLinked(b, n) /\ ret'.value \in Int /\ UNCHANGED open
    BY <1>0 DEF CreateHalfway, Returns, DSOS_EMQOPEN
  <1>7. NextBlock(b) /\ FirstOfAll(S)
    BY <1>0, <1>2, <1>4 DEF NextBlock, FirstOfAll
  <1>8. \E T \in Seq(Nodes) : Mixed(mem', T, b, n, S)
    <2> DEFINE new == mem'
               k == n
    <2>1. new = QueuesLinked(b, k) /\ k \in 0 .. Len(queue_free)
      BY <1>2, <1>6
    <2> HIDE DEF new, n, k
    <2>2. \E T \in Seq(Nodes) : Mixed(new, T, b, k, S)
      BY <1>3, <1>7, <2>1, MixedIs
    <2> QED BY <2>2 DEF new, k
  <1>9. PICK T \in Seq(Nodes) : Mixed(mem', T, b, n, S)
    BY <1>8
  <1>10. StoreUsedUp(T, S, own, b, n)
    BY <1>1, <1>2, <1>3, <1>5, <1>7, <1>9, StoreUsed
  <1> HIDE DEF n
  <1>11. /\ StoreOK' /\ Shape(T, own)' /\ Ranked(own)' /\ Apart(T, own)'
         /\ (OneName => Single(T, own)')
         /\ own[b] = <<>> /\ own \in [MQs -> Seq(Queues)] /\ b \in MQs
         /\ Elements(T) \cap MQs = Elements(S) \cap MQs
         /\ Taken(n) \subseteq Elements(queue_free)
    BY <1>10 DEF StoreUsedUp
  <1>12. ContentOK' /\ Stamped(messages', written') /\ Counted(T, own)'
    <2>1. \A o \in MQs \ {b} : o \in Elements(T) => o \in Elements(S)
      BY <1>11
    <2>2. own = [own EXCEPT ![b] = <<>>] /\ Elements(<<>>) \subseteq Taken(n)
      BY <1>11, EmptyElements
    <2> QED BY <1>3, <1>5, <1>11, <2>1, <2>2, AllocationCounted
  <1>13. OpenOK' /\ Opened(Elements(T) \cap MQs)'
    <2>1. Opened(Elements(T) \cap MQs)
      BY <1>3, <1>11
    <2> QED BY <1>6, <2>1 DEF OpenOK, Opened, Held, open
  <1> QED BY <1>6, <1>11, <1>12, <1>13 DEF Whole, OneName

\* The queues of a message queue that stores no messages are empty.
LEMMA NothingStored ==
  ASSUME ContentOK, NEW S, NEW own \in [MQs -> Seq(Queues)], Counted(S, own),
         NEW mq \in MQs, own[mq] # <<>>, num_messages[mq] = 0, NEW q \in Elements(own[mq])
  PROVE  messages[q] = <<>>
  <1>1. Elements(own[mq]) \in SUBSET Queues
    BY ElementsType
  <1>2. messages \in Contents /\ messages \in [Queues -> Seq(Message)]
    BY DEF ContentOK, Contents
  <1> DEFINE Q == InQueues(messages, Elements(own[mq]))
  <1>3. IsFiniteSet(Q) /\ Cardinality(Q) \in Nat
    BY <1>1, <1>2, InQueuesFinite
  <1>4. Cardinality(Q) <= 0
    BY DEF Counted
  <1>5. Q = {}
    <2> HIDE DEF Q
    <2> QED BY <1>3, <1>4, FS_EmptySet
  <1>6. Elements(messages[q]) = {}
    BY <1>5 DEF InQueues
  <1> QED BY <1>1, <1>2, <1>6, ElementsType

\* mq is back in the pool with all its queues: T is S without it.
StoreShrunk(T, all, S, own, mq) ==
  /\ StoreOK' /\ Shape(T, all)' /\ Ranked(all)' /\ Apart(T, all)'
  /\ OneName => Single(T, all)'
  /\ Elements(T) \cap MQs = (Elements(S) \cap MQs) \ {mq}

\* After mqUnlink the lists and pools are in order again.
LEMMA StoreShrinks ==
  ASSUME StoreOK, NEW S, NEW own, Shape(S, own), Ranked(own), Apart(S, own),
         OneName => Single(S, own), NEW mq \in Elements(S) \cap MQs, Unlink(mq),
         \A q \in Elements(own[mq]) : messages[q] = <<>>,
         NEW T, T = DetachAt(S, IndexIn(S, mq)),
         NEW all, all = [own EXCEPT ![mq] = <<>>]
  PROVE  StoreShrunk(T, all, S, own, mq)
  <1>0. PICK m : m = List_detach(mem, List, mq)
    OBVIOUS
  <1> DEFINE s == own[mq]
             x == Dismantled(mq, Len(s))
             f == mq_free'
  <1>1. /\ S \in Seq(Nodes) /\ own \in [MQs -> Seq(Queues)] /\ s \in Seq(Queues)
        /\ mq_free \in Seq(MQs) /\ queue_free \in Seq(Queues)
        /\ priority \in [MQs -> 0 .. MAX_NUM_QUEUES] /\ mem.first[mq] # NULL
        /\ Distinct(mq_free) /\ Distinct(queue_free)
    BY DEF Shape, StoreOK, Apart, Unlink
  <1>2. s # <<>> /\ Represents(mem, mq, s) /\ Len(s) = priority[mq] + 1
    BY <1>1 DEF Shape, Ranked
  <1>3. /\ mem' = x.mem /\ queue_free' = x.free /\ f = <<mq>> \o mq_free
        /\ UNCHANGED <<id, priority, queue_priority>>
    BY <1>2 DEF Unlink
  <1>4. /\ Elements(S) \subseteq Nodes /\ Elements(queue_free) \subseteq Queues
        /\ Elements(mq_free) \subseteq MQs /\ MQs \cap Queues = {} /\ Nodes = MQs \cup Queues
        /\ List \notin MQs /\ NULL \notin Nodes
    BY <1>1, ElementsType, NodesAre DEF Nodes
  <1>5. /\ \A o \in MQs : Elements(own[o]) \subseteq Queues
        /\ \A o \in MQs : Elements(own[o]) \cap (Elements(S) \cup Elements(queue_free)) = {}
        /\ \A o \in MQs : \A other \in MQs \ {o} : Elements(own[o]) \cap Elements(own[other]) = {}
        /\ Elements(S) \cap (Elements(mq_free) \cup Elements(queue_free)) = {}
    BY <1>1, ElementsType DEF Apart
  <1>6. /\ m \in Memory /\ T \in Seq(Nodes) /\ Chained(m, T) /\ Elements(T) = Elements(S) \ {mq}
        /\ m.first[List] = After(T, 0)
        /\ (m.last[List] # NULL => T # <<>> /\ m.last[List] = T[1])
        /\ (mem.last[List] = mq => m.last[List] = NULL)
        /\ m.size[List] = Cardinality(Elements(T) \cap MQs)
        /\ (\A i \in Nodes \ Elements(S) : m.next[i] = mem.next[i] /\ m.prev[i] = mem.prev[i])
        /\ (\A h \in Heads \ {List} : /\ m.first[h] = mem.first[h]
                                      /\ m.last[h] = mem.last[h] /\ m.size[h] = mem.size[h])
    <2>1. Left(m, T, S, mq)
      BY <1>0, ListDetached
    <2> QED BY <2>1 DEF Left
  <1>7. /\ mq \in Heads /\ mq # List /\ List \in Heads /\ Elements(s) \subseteq Nodes \ Elements(S)
        /\ \A o \in MQs : o \in Heads \ {List}
    BY <1>4, <1>5 DEF Heads
  <1>8. /\ x \in Stores /\ Elements(x.free) = Elements(queue_free) \cup Elements(s)
        /\ Distinct(x.free) /\ Unlinked(x) /\ Untouched(m, x.mem, Elements(s), mq)
    <2> DEFINE x0 == Detached(mq)
    <2>1. x0.mem = m /\ x0.free = queue_free /\ x0 \in Stores
      BY <1>0, <1>1, <1>6 DEF Detached, Stores
    <2>2. Represents(m, mq, s)
      BY <1>2, <1>6, <1>7, OtherList
    <2>3. \A q \in Elements(queue_free) : m.next[q] = NULL /\ m.prev[q] = NULL
      <3>1. Elements(queue_free) \subseteq Nodes \ Elements(S)
        BY <1>4, <1>5
      <3> QED BY <1>6, <3>1 DEF Apart
    <2>4. Unlinked(x0)
      BY <2>1, <2>3 DEF Unlinked
    <2> HIDE DEF s
    <2>5. /\ x0 = Detached(mq) /\ mq \in MQs /\ Elements(s) \cap Elements(queue_free) = {}
          /\ \A q \in Elements(s) : messages[q] = <<>>
      BY <1>5 DEF s
    <2> HIDE DEF x0
    <2>6. Represents(x0.mem, mq, s)
      BY <2>1, <2>2
    <2>7. LET y == Dismantled(mq, Len(s)) IN
          /\ y \in Stores /\ Elements(y.free) = Elements(queue_free) \cup Elements(s)
          /\ Distinct(y.free) /\ Unlinked(y) /\ Untouched(x0.mem, y.mem, Elements(s), mq)
      BY <1>1, <2>1, <2>4, <2>5, <2>6, DismantledIs
    <2> QED BY <2>1, <2>7
  <1> DEFINE new == x.mem
             g == x.free
  <1>9. /\ new \in Memory /\ g \in Seq(Queues) /\ Distinct(g)
        /\ Elements(g) = Elements(queue_free) \cup Elements(s)
        /\ (\A q \in Elements(g) : new.next[q] = NULL /\ new.prev[q] = NULL)
        /\ (\A i \in Nodes \ Elements(s) : new.next[i] = m.next[i] /\ new.prev[i] = m.prev[i])
        /\ (\A h \in Heads \ {mq} : /\ new.first[h] = m.first[h]
                                    /\ new.last[h] = m.last[h] /\ new.size[h] = m.size[h])
    BY <1>8 DEF Stores, Unlinked, Untouched
  <1>10. mem' = new /\ queue_free' = g
    BY <1>3
  <1> HIDE DEF x, new, g, s
  <1>11. /\ f \in Seq(MQs) /\ Distinct(f) /\ Elements(f) = Elements(mq_free) \cup {mq}
    <2> DEFINE a == <<mq>>
    <2>1. a \in Seq(MQs) /\ Elements(a) = {mq} /\ Distinct(a) /\ f = a \o mq_free
      BY <1>3, SingletonElements
    <2> HIDE DEF a, f
    <2>2. Elements(a) \cap Elements(mq_free) = {}
      BY <1>5, <2>1
    <2>3. /\ a \o mq_free \in Seq(MQs) /\ Distinct(a \o mq_free)
          /\ Elements(a \o mq_free) = Elements(a) \cup Elements(mq_free)
      BY <1>1, <2>1, <2>2, ConcatElements
    <2> QED BY <2>1, <2>3
  <1> HIDE DEF f
  <1>12. StoreOK'
    BY <1>3, <1>9, <1>10, <1>11 DEF StoreOK, f
  <1>13. /\ all \in [MQs -> Seq(Queues)] /\ all[mq] = <<>>
         /\ \A o \in MQs \ {mq} : all[o] = own[o]
    <2>1. <<>> \in Seq(Queues)
      OBVIOUS
    <2> QED BY <1>1, <2>1
  <1>14. Elements(s) = Elements(own[mq])
    BY DEF s
  <1>15. Shape(T, all)'
    <2> DEFINE X == Elements(S) \cup Elements(s)
    <2>1. SameBut(new, X, mq)
      BY <1>6, <1>9 DEF SameBut
    <2>2. \A o \in MQs \ {mq} : Elements(own[o]) \cap X = {} /\ (o \in Elements(S) <=> o \in Elements(T))
      BY <1>5, <1>6, <1>14
    <2>3. ASSUME NEW o \in MQs \ {mq}
          PROVE  /\ own[o] = <<>> /\ o \in Elements(T) => new.first[o] = NULL
                 /\ own[o] # <<>> => o \in Elements(T) /\ Represents(new, o, own[o])
      <3> HIDE DEF X
      <3>1. o \in MQs /\ o # mq /\ mq \in MQs /\ Elements(own[o]) \cap X = {}
            /\ (o \in Elements(S) <=> o \in Elements(T))
        BY <2>2
      <3> QED BY <2>1, <3>1, OtherLists
    <2>4. ASSUME NEW o \in MQs
          PROVE  /\ all[o] = <<>> /\ o \in Elements(T) => new.first[o] = NULL
                 /\ all[o] # <<>> => o \in Elements(T) /\ Represents(new, o, all[o])
      BY <1>6, <1>13, <2>3
    <2>5. Chained(new, T)
      <3>1. Elements(T) \subseteq Nodes \ Elements(s)
        BY <1>4, <1>6, <1>7
      <3> QED BY <1>6, <1>9, <3>1, OtherChain
    <2>6. /\ new.first[List] = m.first[List] /\ new.last[List] = m.last[List]
          /\ new.size[List] = m.size[List]
      BY <1>7, <1>9
    <2> QED BY <1>6, <1>10, <1>13, <2>4, <2>5, <2>6 DEF Shape
  <1>16. Ranked(all)'
    BY <1>3, <1>13 DEF Ranked
  <1>17. Apart(T, all)'
    <2>1. Elements(T) \cap (Elements(f) \cup Elements(g)) = {}
      BY <1>5, <1>6, <1>7, <1>9, <1>11
    <2>2. ASSUME NEW o \in MQs
          PROVE  Elements(all[o]) \cap (Elements(T) \cup Elements(g)) = {}
      BY <1>5, <1>6, <1>9, <1>13, <1>14, EmptyElements
    <2>3. ASSUME NEW o \in MQs, NEW other \in MQs \ {o}
          PROVE  Elements(all[o]) \cap Elements(all[other]) = {}
      BY <1>5, <1>13, EmptyElements
    <2> QED BY <1>9, <1>10, <1>11, <2>1, <2>2, <2>3 DEF Apart, f
  <1>18. OneName => Single(T, all)'
    <2> SUFFICES ASSUME OneName PROVE T = <<>> /\ new.last[List] = NULL
      BY <1>10 DEF Single
    <2>1. PICK b \in MQs : S = <<b>> /\ mem.last[List] = b
      BY EmptyElements DEF Single
    <2>2. b = mq /\ Elements(S) = {mq}
      BY <2>1, SingletonElements
    <2>3. Elements(T) = {}
      BY <1>6, <2>2
    <2> QED BY <1>6, <1>7, <1>9, <2>1, <2>2, <2>3, ElementsType
  <1> QED BY <1>6, <1>12, <1>15, <1>16, <1>17, <1>18 DEF StoreShrunk

\* mqUnlink of a message queue without descriptors and messages keeps the invariant.
LEMMA UnlinkKeeps ==
  ASSUME StoreOK, ContentOK, OpenOK, NEW S, NEW own, Whole(S, own),
         NEW mq \in Elements(S) \cap MQs, ~StillInUse(mq), Unlink(mq)
  PROVE  /\ StoreOK' /\ ContentOK' /\ OpenOK' /\ ret'.value \in Int
         /\ \E T, all : Whole(T, all)'
  <1>1. /\ Shape(S, own) /\ Ranked(own) /\ Apart(S, own) /\ Opened(Elements(S) \cap MQs)
        /\ Stamped(messages, written) /\ Counted(S, own) /\ (OneName => Single(S, own))
        /\ own \in [MQs -> Seq(Queues)]
    BY DEF Whole, Shape
  <1>2. num_messages[mq] = 0 /\ descriptors[mq] = {}
    BY DEF StillInUse
  <1>3. /\ UNCHANGED <<num_messages, messages, message_free, written>>
        /\ UNCHANGED <<descriptors, mq_descriptors, last_mq_fd, des, des_free>>
        /\ ret'.value = 0 /\ mem.first[mq] # NULL
    BY DEF Unlink, Returns, content, open
  <1>4. own[mq] # <<>>
    BY <1>1, <1>3 DEF Shape
  <1>5. \A q \in Elements(own[mq]) : messages[q] = <<>>
    BY <1>1, <1>2, <1>4, NothingStored
  <1>6. PICK T, all : T = DetachAt(S, IndexIn(S, mq)) /\ all = [own EXCEPT ![mq] = <<>>]
    OBVIOUS
  <1>7. StoreShrunk(T, all, S, own, mq)
    BY <1>1, <1>5, <1>6, StoreShrinks
  <1>8. /\ StoreOK' /\ Shape(T, all)' /\ Ranked(all)' /\ Apart(T, all)'
        /\ (OneName => Single(T, all)')
        /\ Elements(T) \cap MQs = (Elements(S) \cap MQs) \ {mq}
    BY <1>7 DEF StoreShrunk
  <1>9. all[mq] = <<>> /\ \A o \in MQs \ {mq} : all[o] = own[o]
    BY <1>1, <1>6
  <1>10. Counted(T, all)'
    <2>1. \A q \in Queues : messages[q] # <<>> => \E o \in MQs : q \in Elements(all[o])
      BY <1>1, <1>5, <1>9 DEF Counted
    <2>2. ASSUME NEW o \in MQs
          PROVE  LET c == Cardinality(InQueues(messages, Elements(all[o]))) IN
                 /\ o \in Elements(T) /\ all[o] = <<>> => num_messages[o] = 0
                 /\ all[o] # <<>> => c <= num_messages[o]
                 /\ all[o] # <<>> /\ LargeBuffers => c = num_messages[o]
      <3>1. CASE o = mq
        BY <1>2, <1>9, <3>1
      <3>2. CASE o # mq
        <4>1. o \in Elements(T) => o \in Elements(S)
          BY <1>8
        <4> QED BY <1>1, <1>9, <3>2, <4>1 DEF Counted
      <3> QED BY <3>1, <3>2
    <2> QED BY <1>1, <1>3, <2>1, <2>2 DEF Counted, LargeBuffers
  <1>11. Opened(Elements(T) \cap MQs)'
    <2>1. Opened((Elements(S) \cap MQs) \ {mq})
      BY <1>1, <1>2 DEF Opened
    <2> QED BY <1>3, <1>8, <2>1 DEF Opened, Held
  <1>12. Stamped(messages, written)' /\ ContentOK' /\ OpenOK'
    BY <1>1, <1>3 DEF ContentOK, OpenOK
  <1> QED BY <1>3, <1>8, <1>10, <1>11, <1>12 DEF Whole, OneName

-----------------------------------------------------------------------------
(* Writing and reading *)

\* The descriptor a call finds leads to a message queue that is alive.
LEMMA OpenMQ ==
  ASSUME OpenOK, NEW L, Opened(L), NEW p \in Processes, NEW fd,
         NEW d, d = MQDescriptorList_byFd(p, fd), d # NULL
  PROVE  d \in Held(p) /\ des[d].mq \in L
  <1>1. d \in Held(p)
    BY FoundDescriptor
  <1> QED BY <1>1 DEF Opened

\* mqWrite changes messages and counters only, and keeps them right.
LEMMA WriteWhole ==
  ASSUME StoreOK, ContentOK, OpenOK, NEW S, NEW own, Whole(S, own),
         NEW p \in Processes, NEW fd \in Fds, NEW size \in WriteSizes,
         NEW prio \in WritePriorities, internal_mqWrite(p, fd, size, prio)
  PROVE  /\ UNCHANGED <<store, open, fault>> /\ ret'.value \in Int /\ ret'.got = NoMessage
         /\ ContentOK' /\ Stamped(messages', written') /\ Counted(S, own)'
  <1> DEFINE d == MQDescriptorList_byFd(p, fd)
             mq == des[d].mq
             e == EffectivePriority(mq, prio)
             q == QueueList_byPriority(mq, e)
             m == [stamp |-> written + 1, length |-> size]
             bad == size < 0 \/ size > MAX_MESSAGE_LENGTH \/ d = NULL
  <1>1. /\ Shape(S, own) /\ Ranked(own) /\ Apart(S, own) /\ Opened(Elements(S) \cap MQs)
        /\ Stamped(messages, written) /\ Counted(S, own) /\ own \in [MQs -> Seq(Queues)]
    BY DEF Whole, Shape
  <1>2. size \in Int /\ prio \in Int
    BY MessageQueuesAssumption
  <1>3. ASSUME NEW code \in Int, Fails(code)
        PROVE  /\ UNCHANGED <<store, open, fault>> /\ ret'.value \in Int /\ ret'.got = NoMessage
               /\ ContentOK' /\ Stamped(messages', written') /\ Counted(S, own)'
    <2>1. /\ UNCHANGED <<num_messages, messages, message_free, written>>
          /\ UNCHANGED <<store, open, fault>> /\ ret'.value = code /\ ret'.got = NoMessage
      BY <1>3 DEF Fails, Returns, content
    <2> QED BY <1>1, <2>1 DEF ContentOK, Counted, LargeBuffers
  <1>4. CASE bad /\ Fails(DSOS_EMQWRITE)
    BY <1>3, <1>4 DEF DSOS_EMQWRITE
  <1>5. CASE ~bad /\ Full(mq) /\ Fails(0)
    BY <1>3, <1>5
  <1>6. CASE ~bad /\ ~Full(mq) /\ (q = NULL \/ message_free = 0) /\ Fails(DSOS_EMQWRITE)
    BY <1>3, <1>6 DEF DSOS_EMQWRITE
  <1>7. ASSUME ~bad, ~Full(mq), q # NULL, message_free > 0, written < MaxWrites,
               written' = written + 1, message_free' = message_free - 1,
               messages' = [messages EXCEPT ![q] = Append(messages[q], m)],
               num_messages' = [num_messages EXCEPT ![mq] = @ + 1],
               Returns(e), UNCHANGED <<store, open, fault>>
        PROVE  /\ UNCHANGED <<store, open, fault>> /\ ret'.value \in Int /\ ret'.got = NoMessage
               /\ ContentOK' /\ Stamped(messages', written') /\ Counted(S, own)'
    <2>1. mq \in Elements(S) \cap MQs
      BY <1>1, <1>7, OpenMQ
    <2>2. priority[mq] \in Nat
      BY <2>1 DEF StoreOK
    <2>3. e \in 0 .. priority[mq] /\ e \in Int
      <3> HIDE DEF mq
      <3> QED BY <1>2, <2>2 DEF EffectivePriority
    <2>4. m \in Message /\ m.stamp = written + 1
      BY <1>2, <1>7 DEF Message, ContentOK
    <2> HIDE DEF mq, e, q, m
    <2>5. q = IF own[mq] = <<>> THEN NULL ELSE own[mq][priority[mq] + 1 - e]
      BY <1>1, <2>1, <2>3, FoundQueue DEF q
    <2>6. q \in Elements(own[mq])
      <3>1. Len(own[mq]) = priority[mq] + 1
        BY <1>1, <1>7, <2>1, <2>5 DEF Ranked
      <3>2. priority[mq] + 1 - e \in 1 .. Len(own[mq])
        BY <2>2, <2>3, <3>1
      <3> QED BY <1>7, <2>5, <3>2 DEF Elements
    <2>7. Alone(own, mq)
      BY <1>1, <2>1 DEF Apart, Alone
    <2>8. ContentOK' /\ Stamped(messages', written') /\ Counted(S, own)'
      BY <1>1, <1>7, <2>1, <2>4, <2>6, <2>7, WriteKeeps
    <2>9. ret'.value = e /\ ret'.got = NoMessage
      BY <1>7 DEF Returns
    <2> QED BY <1>7, <2>3, <2>8, <2>9
  <1> QED BY <1>4, <1>5, <1>6, <1>7 DEF internal_mqWrite, Enqueue

\* The head of q fits into a buffer of size bytes.
FitsIn(q, size) == messages[q] # <<>> /\ size >= Head(messages[q]).length

\* What a read scans: queues of mq, the highest priorities first, none with a
\* lower priority than that of the first head that fits.
LEMMA ScannedIs ==
  ASSUME StoreOK, NEW S, NEW own, Shape(S, own), Ranked(own),
         NEW mq \in Elements(S) \cap MQs, own[mq] # <<>>, NEW size
  PROVE  /\ Scanned(mq, size) \subseteq Elements(own[mq])
         /\ \A q \in Scanned(mq, size), r \in Elements(own[mq]) :
              queue_priority[r] < queue_priority[q] => ~FitsIn(r, size)
         /\ \A q, r \in Elements(own[mq]) : queue_priority[r] = queue_priority[q] => q = r
  <1> DEFINE o == own[mq]
             n == priority[mq] + 1
             Fits(i) == /\ messages[QueueList_byPriority(mq, i)] # <<>>
                        /\ size >= Head(messages[QueueList_byPriority(mq, i)]).length
  <1>1. /\ priority[mq] \in Nat /\ n \in Nat /\ Len(o) = n
        /\ \A k \in 1 .. n : queue_priority[o[k]] = n - k
    BY DEF StoreOK, Ranked
  <1>2. ASSUME NEW i \in 0 .. priority[mq] PROVE QueueList_byPriority(mq, i) = o[n - i]
    <2>1. QueueList_byPriority(mq, i) = own[mq][priority[mq] + 1 - i]
      BY FoundQueue
    <2>2. n - i = priority[mq] + 1 - i
      BY <1>1
    <2> QED BY <2>1, <2>2
  <1>3. Scanned(mq, size) =
          {QueueList_byPriority(mq, i) : i \in {i \in 0 .. priority[mq] - 1 :
                                                  \A j \in 0 .. i - 1 : ~Fits(j)}}
    BY DEF Scanned
  <1>4. Elements(o) = {o[k] : k \in 1 .. n}
    BY <1>1 DEF Elements
  <1> HIDE DEF o
  <1>5. ASSUME NEW q \in Scanned(mq, size)
        PROVE  \E i \in 0 .. priority[mq] : q = o[n - i] /\ \A j \in 0 .. i - 1 : ~FitsIn(o[n - j], size)
    <2>1. PICK i \in 0 .. priority[mq] - 1 : /\ q = QueueList_byPriority(mq, i)
                                             /\ \A j \in 0 .. i - 1 : ~Fits(j)
      BY <1>3
    <2>2. i \in 0 .. priority[mq] /\ \A j \in 0 .. i - 1 : j \in 0 .. priority[mq]
      BY <1>1
    <2> QED BY <1>2, <2>1, <2>2 DEF FitsIn
  <1>6. ASSUME NEW q \in Scanned(mq, size)
        PROVE  q \in Elements(o)
    <2>1. PICK i \in 0 .. priority[mq] : q = o[n - i]
      BY <1>5
    <2>2. n - i \in 1 .. n
      BY <1>1
    <2> QED BY <1>4, <2>1, <2>2
  <1>7. ASSUME NEW q \in Scanned(mq, size), NEW r \in Elements(o),
               queue_priority[r] < queue_priority[q]
        PROVE  ~FitsIn(r, size)
    <2>1. PICK i \in 0 .. priority[mq] : q = o[n - i] /\ \A j \in 0 .. i - 1 : ~FitsIn(o[n - j], size)
      BY <1>5
    <2>2. PICK k \in 1 .. n : r = o[k]
      BY <1>4
    <2>3. n - i \in 1 .. n /\ n - (n - i) = i
      BY <1>1
    <2>4. queue_priority[q] = i /\ queue_priority[r] = n - k
      BY <1>1, <2>1, <2>2, <2>3
    <2>5. n - k \in 0 .. i - 1 /\ n - (n - k) = k
      BY <1>1, <1>7, <2>4
    <2> QED BY <2>1, <2>2, <2>5
  <1>8. ASSUME NEW q \in Elements(o), NEW r \in Elements(o), queue_priority[r] = queue_priority[q]
        PROVE  q = r
    <2>1. PICK k \in 1 .. n, j \in 1 .. n : q = o[k] /\ r = o[j]
      BY <1>4
    <2>2. n - k = n - j
      BY <1>1, <1>8, <2>1
    <2> QED BY <1>1, <2>1, <2>2
  <1> QED BY <1>6, <1>7, <1>8 DEF o

\* The only queue a read may get its message from, and, with a large buffer, the
\* only one whose head it takes off.
LEMMA SourceIs ==
  ASSUME StoreOK, ContentOK, NEW S, NEW own, Shape(S, own), Ranked(own),
         NEW mq \in Elements(S) \cap MQs, own[mq] # <<>>, NEW size
  PROVE  /\ \A q, r \in Source(mq, size) : q = r
         /\ \A q \in Source(mq, size) : /\ messages[q] # <<>> /\ Head(messages[q]) \in Message
                                        /\ q \in Elements(own[mq]) /\ q \in Queues
         /\ LargeBuffers /\ size \in ReadSizes =>
              \A q \in Elements(own[mq]) : messages[q] # <<>> => FitsIn(q, size)
  <1>1. \A q \in Source(mq, size) : q \in Scanned(mq, size) /\ FitsIn(q, size)
    BY DEF Source, FitsIn
  <1>2. /\ Scanned(mq, size) \subseteq Elements(own[mq])
        /\ \A q \in Scanned(mq, size), r \in Elements(own[mq]) :
             queue_priority[r] < queue_priority[q] => ~FitsIn(r, size)
        /\ \A q, r \in Elements(own[mq]) : queue_priority[r] = queue_priority[q] => q = r
    BY ScannedIs
  <1>3. Elements(own[mq]) \subseteq Queues
    BY ElementsType DEF Shape
  <1>4. \A q \in Queues : queue_priority[q] \in Int
    BY DEF StoreOK
  <1>5. \A q \in Queues : messages[q] # <<>> => Head(messages[q]) \in Message
    BY ElementsType DEF ContentOK
  <1>6. ASSUME NEW q \in Source(mq, size), NEW r \in Source(mq, size) PROVE q = r
    <2>1. /\ q \in Queues /\ r \in Queues /\ ~(queue_priority[r] < queue_priority[q])
          /\ ~(queue_priority[q] < queue_priority[r])
      BY <1>1, <1>2, <1>3
    <2>2. queue_priority[r] = queue_priority[q]
      BY <1>4, <2>1
    <2> QED BY <1>1, <1>2, <2>2
  <1>7. ASSUME LargeBuffers, size \in ReadSizes, NEW q \in Elements(own[mq]), messages[q] # <<>>
        PROVE  FitsIn(q, size)
    <2>1. Head(messages[q]).length \in 0 .. MAX_MESSAGE_LENGTH
      BY <1>3, <1>5, <1>7 DEF Message
    <2>2. size \in Int /\ size >= MAX_MESSAGE_LENGTH
      BY <1>7, MessageQueuesAssumption DEF LargeBuffers
    <2> QED BY <1>7, <2>1, <2>2 DEF FitsIn
  <1> QED BY <1>1, <1>2, <1>3, <1>5, <1>6, <1>7 DEF FitsIn

\* mqRead changes messages and counters only, keeps them right, and returns the
\* message it has taken.
LEMMA ReadWhole ==
  ASSUME StoreOK, ContentOK, OpenOK, NEW S, NEW own, Whole(S, own),
         NEW p \in Processes, NEW fd \in Fds, NEW size \in ReadSizes,
         internal_mqRead(p, fd, size)
  PROVE  /\ UNCHANGED <<store, open, fault>> /\ ret'.value \in Int
         /\ ContentOK' /\ Stamped(messages', written') /\ Counted(S, own)'
         /\ ret'.got # NoMessage =>
              \E mq \in Elements(S) \cap MQs : \E q \in Source(mq, size) :
                own[mq] # <<>> /\ ret'.got = Head(messages[q]).stamp
  <1> DEFINE d == MQDescriptorList_byFd(p, fd)
             mq == des[d].mq
             Goal == /\ UNCHANGED <<store, open, fault>> /\ ret'.value \in Int
                     /\ ContentOK' /\ Stamped(messages', written') /\ Counted(S, own)'
                     /\ ret'.got # NoMessage =>
                          \E x \in Elements(S) \cap MQs : \E q \in Source(x, size) :
                            own[x] # <<>> /\ ret'.got = Head(messages[q]).stamp
  <1>1. /\ Shape(S, own) /\ Ranked(own) /\ Apart(S, own) /\ Opened(Elements(S) \cap MQs)
        /\ Stamped(messages, written) /\ Counted(S, own) /\ own \in [MQs -> Seq(Queues)]
    BY DEF Whole, Shape
  <1>3. ASSUME NEW code \in Int, Fails(code)
        PROVE  Goal
    <2>1. /\ UNCHANGED <<num_messages, messages, message_free, written>>
          /\ UNCHANGED <<store, open, fault>> /\ ret'.value = code /\ ret'.got = NoMessage
      BY <1>3 DEF Fails, Returns, content
    <2> QED BY <1>1, <2>1 DEF ContentOK, Counted, LargeBuffers
  <1>4. CASE d = NULL /\ Fails(DSOS_EMQREAD)
    BY <1>3, <1>4 DEF DSOS_EMQREAD
  <1>5. CASE d # NULL /\ num_messages[mq] = 0 /\ Fails(0)
    BY <1>3, <1>5
  <1>6. ASSUME d # NULL, num_messages[mq] # 0,
               messages' = [q \in Queues |->
                              IF q \in Scanned(mq, size) /\ messages[q] # <<>>
                                THEN Tail(messages[q]) ELSE messages[q]],
               \/ /\ Source(mq, size) = {}
                  /\ Returns(0)
                  /\ UNCHANGED <<num_messages, message_free>>
               \/ \E q \in Source(mq, size) :
                    /\ num_messages' = [num_messages EXCEPT ![mq] = @ - 1]
                    /\ message_free' = message_free + 1
                    /\ ret' = [value |-> Head(messages[q]).length, got |-> Head(messages[q]).stamp],
               UNCHANGED <<store, open, written, fault>>
        PROVE  Goal
    <2>1. PICK b : b = mq
      OBVIOUS
    <2>2. b \in Elements(S) \cap MQs
      BY <1>1, <1>6, <2>1, OpenMQ
    <2>3. own[b] # <<>>
      BY <1>1, <1>6, <2>1, <2>2 DEF Counted
    <2>4. Alone(own, b)
      BY <1>1, <2>2 DEF Apart, Alone
    <2>5. PICK R, taken : R = {q \in Scanned(b, size) : messages[q] # <<>>} /\ taken = Source(b, size)
      OBVIOUS
    <2>6. /\ taken \subseteq Scanned(b, size)
          /\ \A q \in Scanned(b, size) : q \in taken <=> FitsIn(q, size)
      BY <2>5 DEF Source, FitsIn
    <2>7. Scanned(b, size) \subseteq Elements(own[b])
      BY <1>1, <2>2, <2>3, ScannedIs
    <2>8. /\ \A q, r \in taken : q = r
          /\ \A q \in taken : /\ messages[q] # <<>> /\ Head(messages[q]) \in Message
                              /\ q \in Elements(own[b]) /\ q \in Queues
          /\ LargeBuffers => \A q \in Elements(own[b]) : messages[q] # <<>> => FitsIn(q, size)
      BY <1>1, <2>2, <2>3, <2>5, SourceIs
    <2>9. R \in SUBSET Elements(own[b]) /\ \A r \in R : messages[r] # <<>>
      BY <2>5, <2>7
    <2>10. taken \in SUBSET R
      BY <2>5, <2>6, <2>8
    <2>11. LargeBuffers => R = taken /\ \A r, o \in R : r = o
      BY <2>5, <2>6, <2>7, <2>8, <2>10
    <2>12. messages' = [q \in Queues |-> IF q \in R THEN Tail(messages[q]) ELSE messages[q]]
      BY <1>6, <2>1, <2>5
    <2>13. written' = written /\ num_messages[b] # 0
      BY <1>6, <2>1
    <2>14. \/ taken = {} /\ UNCHANGED <<num_messages, message_free>>
           \/ /\ taken # {}
              /\ num_messages' = [num_messages EXCEPT ![b] = @ - 1]
              /\ message_free' = message_free + 1
      BY <1>6, <2>1, <2>5
    <2>15. ContentOK' /\ Stamped(messages', written') /\ Counted(S, own)'
      BY <1>1, <2>2, <2>3, <2>4, <2>9, <2>10, <2>11, <2>12, <2>13, <2>14, ReadKeeps
    <2>16. /\ ret'.value \in Int
           /\ ret'.got # NoMessage => \E q \in taken : ret'.got = Head(messages[q]).stamp
      <3>1. CASE Returns(0)
        BY <3>1 DEF Returns
      <3>2. CASE \E q \in taken :
                   ret' = [value |-> Head(messages[q]).length, got |-> Head(messages[q]).stamp]
        <4>1. PICK q \in taken :
                ret' = [value |-> Head(messages[q]).length, got |-> Head(messages[q]).stamp]
          BY <3>2
        <4>2. Head(messages[q]).length \in Int
          BY <2>8 DEF Message
        <4> QED BY <4>1, <4>2
      <3> QED BY <1>6, <2>1, <2>5, <3>1, <3>2
    <2>17. ret'.got # NoMessage =>
             \E x \in Elements(S) \cap MQs : \E q \in Source(x, size) :
               own[x] # <<>> /\ ret'.got = Head(messages[q]).stamp
      BY <2>2, <2>3, <2>5, <2>16
    <2> QED BY <1>6, <2>15, <2>16, <2>17
  <1> QED BY <1>4, <1>5, <1>6 DEF internal_mqRead

-----------------------------------------------------------------------------
(* The invariant is kept *)

\* What a call leaves behind.
Kept ==
  /\ StoreOK' /\ ContentOK' /\ OpenOK' /\ ret'.value \in Int
  /\ \E T, all : Whole(T, all)'

\* A call that only answers keeps the invariant.
LEMMA NothingChanged ==
  ASSUME StoreOK, ContentOK, OpenOK, ResultOK, NEW S, NEW own, Whole(S, own),
         UNCHANGED <<store, content, open>>, ret'.value \in Int
  PROVE  Kept
  <1>1. /\ UNCHANGED <<mem, mq_free, queue_free, id, priority, queue_priority>>
        /\ UNCHANGED <<num_messages, messages, message_free, written>>
        /\ UNCHANGED <<descriptors, mq_descriptors, last_mq_fd, des, des_free>>
    BY DEF store, content, open
  <1>2. StoreOK' /\ ContentOK' /\ OpenOK'
    BY <1>1 DEF StoreOK, ContentOK, OpenOK
  <1>3. Shape(S, own)' /\ Ranked(own)' /\ Apart(S, own)' /\ (OneName => Single(S, own))'
    BY <1>1 DEF Whole, Shape, Ranked, Apart, OneName, Single
  <1>4. Opened(Elements(S) \cap MQs)' /\ Stamped(messages, written)' /\ Counted(S, own)'
    BY <1>1 DEF Whole, Opened, Held, Counted, LargeBuffers
  <1>5. Whole(S, own)'
    BY <1>3, <1>4 DEF Whole
  <1> QED BY <1>2, <1>5 DEF Kept

\* A call that concerns only the descriptors.
LEMMA OnlyDescriptors ==
  ASSUME StoreOK, ContentOK, NEW S, NEW own, Whole(S, own),
         UNCHANGED <<store, content>>, OpenOK', Opened(Elements(S) \cap MQs)', ret'.value \in Int
  PROVE  Kept
  <1>1. /\ UNCHANGED <<mem, mq_free, queue_free, id, priority, queue_priority>>
        /\ UNCHANGED <<num_messages, messages, message_free, written>>
    BY DEF store, content
  <1>2. StoreOK' /\ ContentOK'
    BY <1>1 DEF StoreOK, ContentOK
  <1>3. Shape(S, own)' /\ Ranked(own)' /\ Apart(S, own)' /\ (OneName => Single(S, own))'
    BY <1>1 DEF Whole, Shape, Ranked, Apart, OneName, Single
  <1>4. Stamped(messages, written)' /\ Counted(S, own)'
    BY <1>1 DEF Whole, Counted, LargeBuffers
  <1>5. Whole(S, own)'
    BY <1>3, <1>4 DEF Whole
  <1> QED BY <1>2, <1>5 DEF Kept

\* A call that concerns only the messages.
LEMMA OnlyMessages ==
  ASSUME StoreOK, OpenOK, NEW S, NEW own, Whole(S, own),
         UNCHANGED <<store, open>>, ContentOK', Stamped(messages', written'), Counted(S, own)',
         ret'.value \in Int
  PROVE  Kept
  <1>1. /\ UNCHANGED <<mem, mq_free, queue_free, id, priority, queue_priority>>
        /\ UNCHANGED <<descriptors, mq_descriptors, last_mq_fd, des, des_free>>
    BY DEF store, open
  <1>2. StoreOK' /\ OpenOK'
    BY <1>1 DEF StoreOK, OpenOK
  <1>3. Shape(S, own)' /\ Ranked(own)' /\ Apart(S, own)' /\ (OneName => Single(S, own))'
    BY <1>1 DEF Whole, Shape, Ranked, Apart, OneName, Single
  <1>4. Opened(Elements(S) \cap MQs)'
    BY <1>1 DEF Whole, Opened, Held
  <1>5. Whole(S, own)'
    BY <1>3, <1>4 DEF Whole
  <1> QED BY <1>2, <1>5 DEF Kept

\* So does one that fails,
LEMMA FailsKeeps ==
  ASSUME StoreOK, ContentOK, OpenOK, ResultOK, NEW S, NEW own, Whole(S, own),
         NEW code \in Int, Fails(code)
  PROVE  Kept /\ fault' = fault
  BY NothingChanged DEF Fails, Returns

\* and one that the program does not survive.
LEMMA CrashKeeps ==
  ASSUME StoreOK, ContentOK, OpenOK, ResultOK, NEW S, NEW own, Whole(S, own),
         NEW kind, Crash(kind)
  PROVE  Kept /\ fault' = kind
  BY NothingChanged DEF Crash, ResultOK

\* mqOpen, with all its outcomes, keeps the invariant.
LEMMA OpenWhole ==
  ASSUME StoreOK, ContentOK, OpenOK, ResultOK, NEW S, NEW own, Whole(S, own),
         NEW p \in Processes, NEW i \in Ids, NEW flags \in FlagSets,
         NEW prio \in OpenPriorities, internal_mqOpen(p, i, flags, prio)
  PROVE  Kept /\ ResultOK'
  <1> SUFFICES Kept /\ (fault' = fault \/ fault' = "TypeConfusion")
    BY DEF Kept, ResultOK
  <1>0. PICK mq : mq = MessageQueueList_byId(i)
    OBVIOUS
  <1>1. mq \in Elements(S) \cup {NULL} /\ NULL \notin MQs
    BY <1>0, FoundMQ, NodesAre DEF Whole, Nodes
  <1>2. CASE Fails(DSOS_EMQOPEN)
    BY <1>2, FailsKeeps DEF DSOS_EMQOPEN
  <1>3. CASE Crash("TypeConfusion")
    BY <1>3, CrashKeeps
  <1>4. CASE ~OpenRefused(p, i, mq, flags, prio) /\ OpenExisting(p, mq)
    <2>1. /\ mq \in MQs /\ OpenDescriptor(p, mq) /\ UNCHANGED <<store, content, fault>>
          /\ ~TooHungry(p)
      BY <1>4 DEF OpenExisting, OpenRefused
    <2>2. mq \in Elements(S) \cap MQs /\ Opened(Elements(S) \cap MQs)
      BY <1>1, <2>1 DEF Whole
    <2> DEFINE L == Elements(S) \cap MQs
    <2>3. L \in SUBSET MQs
      OBVIOUS
    <2> HIDE DEF L
    <2>4. Opened(L) /\ mq \in L
      BY <2>2 DEF L
    <2>5. OpenOK' /\ Opened(L)' /\ ret'.value \in Int
      BY <2>1, <2>3, <2>4, OpenDescriptorKeeps
    <2>6. Opened(Elements(S) \cap MQs)'
      BY <2>5 DEF L
    <2> QED BY <2>1, <2>5, <2>6, OnlyDescriptors
  <1>5. CASE ~OpenRefused(p, i, mq, flags, prio) /\ Create(p, i, mq, prio)
    <2>1. fault' = fault
      BY <1>5 DEF Create
    <2> QED BY <1>0, <1>5, <2>1, CreateKeeps DEF Kept
  <1>6. CASE ~OpenRefused(p, i, mq, flags, prio) /\ CreateHalfway(i, mq, prio)
    <2>1. fault' = fault
      BY <1>6 DEF CreateHalfway
    <2> QED BY <1>0, <1>6, <2>1, CreateHalfwayKeeps DEF Kept
  <1> QED BY <1>0, <1>2, <1>3, <1>4, <1>5, <1>6 DEF internal_mqOpen

\* mqClose keeps the invariant.
LEMMA CloseWhole ==
  ASSUME StoreOK, ContentOK, OpenOK, ResultOK, NEW S, NEW own, Whole(S, own),
         NEW p \in Processes, NEW fd \in Fds, internal_mqClose(p, fd)
  PROVE  Kept /\ ResultOK'
  <1> SUFFICES Kept /\ fault' = fault
    BY DEF Kept, ResultOK
  <1>0. PICK d : d = MQDescriptorList_byFd(p, fd)
    OBVIOUS
  <1>1. CASE Fails(DSOS_EMQCLOSE)
    BY <1>1, FailsKeeps DEF DSOS_EMQCLOSE
  <1>2. ASSUME d # NULL,
               mq_descriptors' =
                 [mq_descriptors EXCEPT ![p] = DetachAt(@, IndexIn(@, d))],
               descriptors' = [descriptors EXCEPT ![des[d].mq] = @ \ {d}],
               des_free' = des_free \cup {d},
               last_mq_fd' = [last_mq_fd EXCEPT ![p] = @ - 1],
               Returns(0), UNCHANGED <<store, content, des, fault>>
        PROVE  Kept /\ fault' = fault
    <2>1. d \in Held(p)
      BY <1>0, <1>2, FoundDescriptor
    <2> DEFINE L == Elements(S) \cap MQs
    <2>2. L \in SUBSET MQs
      OBVIOUS
    <2>3. Opened(L)
      BY DEF Whole
    <2> HIDE DEF L
    <2>4. OpenOK' /\ Opened(L)'
      BY <1>2, <2>1, <2>2, <2>3, CloseKeeps
    <2>5. Opened(Elements(S) \cap MQs)' /\ ret'.value \in Int
      BY <1>2, <2>4 DEF L, Returns
    <2> QED BY <1>2, <2>4, <2>5, OnlyDescriptors
  <1> QED BY <1>0, <1>1, <1>2 DEF internal_mqClose

\* mqUnlink, with all its outcomes, keeps the invariant.
LEMMA UnlinkWhole ==
  ASSUME StoreOK, ContentOK, OpenOK, ResultOK, NEW S, NEW own, Whole(S, own),
         NEW i \in Ids, internal_mqUnlink(i)
  PROVE  Kept /\ ResultOK'
  <1> SUFFICES Kept /\ (fault' = fault \/ fault' \in {"TypeConfusion", "NullDereference"})
    BY DEF Kept, ResultOK
  <1>0. PICK mq : mq = MessageQueueList_byId(i)
    OBVIOUS
  <1>1. mq \in Elements(S) \cup {NULL} /\ NULL \notin MQs
    BY <1>0, FoundMQ, NodesAre DEF Whole, Nodes
  <1>2. CASE Fails(DSOS_EMQUNLINK)
    BY <1>2, FailsKeeps DEF DSOS_EMQUNLINK
  <1>3. CASE Crash("TypeConfusion")
    BY <1>3, CrashKeeps
  <1>4. CASE Crash("NullDereference")
    BY <1>4, CrashKeeps
  <1>5. CASE mq \in MQs /\ ~StillInUse(mq) /\ Unlink(mq)
    <2>1. mq \in Elements(S) \cap MQs /\ fault' = fault
      BY <1>1, <1>5 DEF Unlink
    <2> QED BY <1>5, <2>1, UnlinkKeeps DEF Kept
  <1> QED BY <1>0, <1>2, <1>3, <1>4, <1>5 DEF internal_mqUnlink

\* The death of a process keeps the invariant.
LEMMA ReplacedWhole ==
  ASSUME StoreOK, ContentOK, OpenOK, ResultOK, NEW S, NEW own, Whole(S, own),
         NEW p \in Processes, ProcessReplaced(p)
  PROVE  Kept /\ ResultOK'
  <1> DEFINE L == Elements(S) \cap MQs
  <1>1. L \in SUBSET MQs
    OBVIOUS
  <1>2. Opened(L)
    BY DEF Whole
  <1> HIDE DEF L
  <1>3. OpenOK' /\ Opened(L)'
    BY <1>1, <1>2, ReplaceKeeps
  <1>4. /\ Opened(Elements(S) \cap MQs)' /\ ret'.value \in Int
        /\ UNCHANGED <<store, content, fault>>
    BY <1>3 DEF L, Returns, ProcessReplaced
  <1>5. Kept
    BY <1>3, <1>4, OnlyDescriptors
  <1> QED BY <1>4, <1>5 DEF ResultOK, Kept

\* Every step keeps the invariant.
LEMMA StepKeeps == MQInv /\ [Next]_vars => MQInv'
  <1> SUFFICES ASSUME MQInv, [Next]_vars PROVE MQInv'
    OBVIOUS
  <1>1. StoreOK /\ ContentOK /\ OpenOK /\ ResultOK
    BY TypeParts DEF MQInv
  <1>2. PICK S, own : Whole(S, own)
    BY DEF MQInv
  <1> SUFFICES Kept /\ ResultOK'
    <2>1. ASSUME Kept, ResultOK' PROVE TypeOK'
      <3>1. StoreOK' /\ ContentOK' /\ OpenOK' /\ ResultOK'
        BY <2>1 DEF Kept
      <3> QED BY <3>1, TypeParts, PTL
    <2> QED BY <2>1 DEF MQInv, Kept
  <1>3. ASSUME NEW p \in Processes, NEW i \in Ids, NEW flags \in FlagSets,
               NEW prio \in OpenPriorities, internal_mqOpen(p, i, flags, prio)
        PROVE  Kept /\ ResultOK'
    BY <1>1, <1>2, <1>3, OpenWhole
  <1>4. ASSUME NEW p \in Processes, NEW fd \in Fds, internal_mqClose(p, fd)
        PROVE  Kept /\ ResultOK'
    BY <1>1, <1>2, <1>4, CloseWhole
  <1>5. ASSUME NEW p \in Processes, NEW fd \in Fds, NEW size \in WriteSizes,
               NEW prio \in WritePriorities, internal_mqWrite(p, fd, size, prio)
        PROVE  Kept /\ ResultOK'
    <2>1. /\ UNCHANGED <<store, open, fault>> /\ ret'.value \in Int
          /\ ContentOK' /\ Stamped(messages', written') /\ Counted(S, own)'
      BY <1>1, <1>2, <1>5, WriteWhole
    <2> QED BY <1>1, <1>2, <2>1, OnlyMessages DEF ResultOK
  <1>6. ASSUME NEW p \in Processes, NEW fd \in Fds, NEW size \in ReadSizes,
               internal_mqRead(p, fd, size)
        PROVE  Kept /\ ResultOK'
    <2>1. /\ UNCHANGED <<store, open, fault>> /\ ret'.value \in Int
          /\ ContentOK' /\ Stamped(messages', written') /\ Counted(S, own)'
      BY <1>1, <1>2, <1>6, ReadWhole
    <2> QED BY <1>1, <1>2, <2>1, OnlyMessages DEF ResultOK
  <1>7. ASSUME NEW i \in Ids, internal_mqUnlink(i) PROVE Kept /\ ResultOK'
    BY <1>1, <1>2, <1>7, UnlinkWhole
  <1>8. ASSUME NEW p \in Processes, ProcessReplaced(p) PROVE Kept /\ ResultOK'
    BY <1>1, <1>2, <1>8, ReplacedWhole
  <1>9. CASE UNCHANGED vars
    <2>1. UNCHANGED <<store, content, open>> /\ ret' = ret /\ fault' = fault
      BY <1>9 DEF vars
    <2>2. ret'.value \in Int
      BY <1>1, <2>1 DEF ResultOK
    <2> QED BY <1>1, <1>2, <2>1, <2>2, NothingChanged DEF ResultOK
  <1> QED BY <1>3, <1>4, <1>5, <1>6, <1>7, <1>8, <1>9 DEF Next

\* Before the first call the lists are empty and the pools full.
LEMMA StartsWhole == Init => MQInv
  <1> SUFFICES ASSUME Init PROVE MQInv
    OBVIOUS
  <1> USE DEF Init
  <1> DEFINE own == [m \in MQs |-> <<>>]
             S == <<>>
  <1>1. mem \in Memory /\ mem.first[List] = NULL /\ mem.last[List] = NULL /\ mem.size[List] = 0
        /\ (\A q \in Nodes : mem.next[q] = NULL /\ mem.prev[q] = NULL)
    BY DEF List_init, Memory, MemoryOf, Nodes, Heads
  <1>2. mq_free \in Seq(MQs) /\ Distinct(mq_free)
    <2>1. mq_free \in [1 .. MAX_NUM_MQS -> MQs]
      BY DEF MQs
    <2> QED BY <2>1 DEF Distinct
  <1>3. queue_free \in Seq(Queues) /\ Distinct(queue_free)
    <2>1. queue_free \in [1 .. MAX_NUM_QUEUES -> Queues]
      BY DEF Queues
    <2>2. queue_free \in Seq(Queues) /\ Len(queue_free) = MAX_NUM_QUEUES
      <3> HIDE DEF Init
      <3> QED BY <2>1
    <2>3. \A i \in 1 .. MAX_NUM_QUEUES : queue_free[i] = MAX_NUM_MQS + i
      OBVIOUS
    <2> QED BY <2>2, <2>3 DEF Distinct
  <1>4. StoreOK
    BY <1>1, <1>2, <1>3 DEF StoreOK
  <1>5. ContentOK
    BY DEF ContentOK
  <1>6. OpenOK /\ ResultOK
    BY DEF OpenOK, ResultOK
  <1>7. Elements(S) = {} /\ Distinct(S) /\ \A q \in Queues : messages[q] = <<>>
    BY EmptyElements
  <1>8. Shape(S, own)
    <2>1. Elements(S) \cap MQs = {} /\ Cardinality({}) = 0
      BY <1>7, FS_EmptySet
    <2>2. Chained(mem, S) /\ After(S, 0) = NULL
      BY <1>7 DEF Chained, After
    <2>3. <<>> \in Seq(Queues) /\ S \in Seq(Nodes)
      OBVIOUS
    <2>4. own \in [MQs -> Seq(Queues)] /\ \A m \in MQs : own[m] = <<>> /\ m \notin Elements(S)
      BY <1>7, <2>3
    <2> HIDE DEF own, S, Init
    <2> QED BY <1>1, <2>1, <2>2, <2>3, <2>4 DEF Shape
  <1>9. Ranked(own) /\ (OneName => Single(S, own))
    BY <1>1 DEF Ranked, Single
  <1>10. Apart(S, own)
    <2>1. Elements(queue_free) \subseteq Nodes
      BY <1>3, ElementsType DEF Nodes
    <2>2. \A m \in MQs : Elements(own[m]) = {}
      BY EmptyElements
    <2> QED BY <1>1, <1>2, <1>3, <1>7, <2>1, <2>2 DEF Apart
  <1>11. Opened(Elements(S) \cap MQs)
    BY EmptyElements DEF Opened, Held
  <1>12. Stamped(messages, written)
    BY <1>7 DEF Stamped
  <1>13. Counted(S, own)
    <2>1. InQueues(messages, Queues) = {}
      BY <1>7, EmptyElements DEF InQueues
    <2>2. Cardinality(InQueues(messages, Queues)) = 0
      BY <2>1, FS_EmptySet
    <2> QED BY <1>7, <2>2 DEF Counted
  <1>14. Whole(S, own)
    BY <1>8, <1>9, <1>10, <1>11, <1>12, <1>13 DEF Whole
  <1> QED BY <1>4, <1>5, <1>6, <1>14, TypeParts DEF MQInv

(* The inductive invariant holds in every reachable state: whatever calls come
   together, messageQueues_list and the lists of queues are linked as the code
   takes them to be, but for the queues that mqopen.c links into the wrong one. *)
THEOREM MQInvHolds == Spec => []MQInv
  BY StartsWhole, StepKeeps, PTL DEF Spec

(* Each field of each block, descriptor and PCB keeps its range, whatever
   processes open, close, write, read and unlink. *)
THEOREM TypeCorrect == Spec => []TypeOK
  <1>1. MQInv => TypeOK
    BY DEF MQInv
  <1> QED BY <1>1, MQInvHolds, PTL

(* A descriptor that a process can use belongs to it alone and leads to a
   message queue that is alive and lists it; a block that is back in the pool of
   message queues has no descriptors. *)
THEOREM DescriptorsSafe == Spec => []DescriptorsAgree
  <1>1. MQInv => DescriptorsAgree
    <2> SUFFICES ASSUME MQInv, NEW S, NEW own, Whole(S, own) PROVE DescriptorsAgree
      BY DEF MQInv
    <2>1. LiveMQs = Elements(S) \cap MQs
      BY LiveIs DEF Whole
    <2>2. Opened(LiveMQs)
      BY <2>1 DEF Whole
    <2>3. ASSUME NEW mq \in Elements(mq_free) PROVE descriptors[mq] = {}
      <3>1. mq \notin LiveMQs
        BY <2>1 DEF Whole, Apart
      <3>2. mq \in MQs
        BY TypeParts, ElementsType DEF MQInv, StoreOK
      <3> QED BY <2>2, <3>1, <3>2 DEF Opened
    <2> QED BY <2>2, <2>3 DEF DescriptorsAgree, Opened, Held
  <1> QED BY <1>1, MQInvHolds, PTL

(* With buffers of MAX_MESSAGE_LENGTH bytes no message is lost: num_messages is
   the number of messages stored in each message queue, and every Message block
   that is not in the pool is stored in one of them. *)
THEOREM NoMessageLost ==
  ASSUME LargeBuffers
  PROVE  Spec => []MessagesCounted
  <1>1. MQInv => MessagesCounted
    <2> SUFFICES ASSUME MQInv, NEW S, NEW own, Whole(S, own) PROVE MessagesCounted
      BY DEF MQInv
    <2>1. /\ Shape(S, own) /\ Counted(S, own) /\ own \in [MQs -> Seq(Queues)]
      BY DEF Whole, Shape
    <2>2. LiveMQs = Elements(S) \cap MQs /\ \A mq \in LiveMQs : QueuesOf(mq) = Elements(own[mq])
      BY <2>1, LiveIs
    <2>3. \A mq \in LiveMQs : StoredIn(mq) = InQueues(messages, Elements(own[mq]))
      BY <2>2 DEF StoredIn, InQueues
    <2>4. ASSUME NEW mq \in LiveMQs
          PROVE  num_messages[mq] = Cardinality(StoredIn(mq))
      <3>1. CASE own[mq] = <<>>
        <4>1. StoredIn(mq) = {}
          BY <2>3, <3>1, EmptyElements DEF InQueues
        <4>2. num_messages[mq] = 0
          BY <2>1, <2>2, <3>1 DEF Counted
        <4> QED BY <4>1, <4>2, FS_EmptySet
      <3>2. CASE own[mq] # <<>>
        BY <2>1, <2>2, <2>3, <3>2 DEF Counted
      <3> QED BY <3>1, <3>2
    <2>5. UNION {StoredIn(mq) : mq \in LiveMQs} = InQueues(messages, Queues)
      <3>1. ASSUME NEW x, NEW mq \in LiveMQs, x \in StoredIn(mq)
            PROVE  x \in InQueues(messages, Queues)
        <4>1. PICK q \in Elements(own[mq]) : x \in Elements(messages[q])
          BY <2>3, <3>1 DEF InQueues
        <4>2. q \in Queues
          BY <2>1, <2>2, ElementsType
        <4> QED BY <4>1, <4>2 DEF InQueues
      <3>2. ASSUME NEW x \in InQueues(messages, Queues)
            PROVE  \E mq \in LiveMQs : x \in StoredIn(mq)
        <4>1. PICK q \in Queues : x \in Elements(messages[q])
          BY DEF InQueues
        <4>2. messages[q] # <<>>
          BY <4>1, EmptyElements
        <4>3. PICK mq \in MQs : q \in Elements(own[mq])
          BY <2>1, <4>2 DEF Counted
        <4>4. mq \in LiveMQs
          BY <2>1, <2>2, <4>3, EmptyElements DEF Shape
        <4> QED BY <2>3, <4>1, <4>3, <4>4 DEF InQueues
      <3> QED BY <3>1, <3>2
    <2>6. message_free \in Int
      BY TypeParts DEF MQInv, ContentOK
    <2>7. Cardinality(InQueues(messages, Queues)) = MAX_NUM_MESSAGES - message_free
      BY <2>1 DEF Counted
    <2> QED BY <2>4, <2>5, <2>6, <2>7 DEF MessagesCounted
  <1> QED BY <1>1, MQInvHolds, PTL

\* A list without repetitions has as many elements as it is long.
LEMMA DistinctCardinality ==
  ASSUME NEW S, NEW s \in Seq(S), Distinct(s)
  PROVE  Cardinality(Elements(s)) = Len(s)
  <1>1. IsFiniteSet(1 .. Len(s)) /\ Cardinality(1 .. Len(s)) = Len(s)
    BY CardInterval
  <1>2. Elements(s) = {s[i] : i \in 1 .. Len(s)}
    BY DEF Elements
  <1> DEFINE f == [i \in 1 .. Len(s) |-> s[i]]
  <1>3. f \in Bijection(1 .. Len(s), Elements(s))
    BY <1>2 DEF Distinct, Bijection, Injection, IsInjective, Surjection
  <1>4. IsFiniteSet(Elements(s)) /\ Cardinality(Elements(s)) = Cardinality(1 .. Len(s))
    <2> HIDE DEF f
    <2>1. ExistsBijection(1 .. Len(s), Elements(s))
      BY <1>3 DEF ExistsBijection
    <2> QED BY <1>1, <2>1, FS_Bijection
  <1> QED BY <1>1, <1>4

(* As long as all processes use one id, every message queue reaches from its own
   list a queue for each priority from 0 to its own, and none of those is in the
   pool or belongs to another message queue. *)
THEOREM OneNameComplete ==
  ASSUME OneName
  PROVE  Spec => []QueuesComplete
  <1>1. MQInv => QueuesComplete
    <2> SUFFICES ASSUME MQInv, NEW S, NEW own, Whole(S, own), NEW mq \in LiveMQs
                 PROVE  /\ {queue_priority[q] : q \in QueuesOf(mq)} = 0 .. priority[mq]
                        /\ Cardinality(QueuesOf(mq)) = priority[mq] + 1
                        /\ QueuesOf(mq) \subseteq Queues \ Elements(queue_free)
                        /\ \A other \in LiveMQs \ {mq} : QueuesOf(mq) \cap QueuesOf(other) = {}
      BY DEF MQInv, QueuesComplete
    <2>1. /\ Shape(S, own) /\ Ranked(own) /\ Apart(S, own) /\ Single(S, own)
          /\ own \in [MQs -> Seq(Queues)]
      BY DEF Whole, Shape
    <2>2. LiveMQs = Elements(S) \cap MQs /\ QueuesOf(mq) = Elements(own[mq])
      BY <2>1, LiveIs
    <2>3. own[mq] # <<>> /\ LiveMQs = {mq}
      BY <2>1, <2>2, EmptyElements, SingletonElements DEF Single
    <2> DEFINE o == own[mq]
               n == priority[mq] + 1
    <2>4. priority[mq] \in Nat
      BY <2>2, TypeParts DEF MQInv, StoreOK
    <2>5. /\ mq \in MQs /\ o \in Seq(Queues) /\ Len(o) = n /\ Distinct(o)
          /\ \A k \in 1 .. n : queue_priority[o[k]] = n - k
      <3>1. mq \in MQs /\ o \in Seq(Queues) /\ Represents(mem, mq, o)
        BY <2>1, <2>2, <2>3 DEF Shape
      <3>2. Distinct(o)
        BY <3>1, RepresentsIs DEF Chained
      <3>3. Len(o) = n
        BY <2>1, <2>3, <3>1 DEF Ranked
      <3>4. ASSUME NEW k \in 1 .. n PROVE queue_priority[o[k]] = n - k
        <4>1. queue_priority[own[mq][k]] = priority[mq] + 1 - k
          BY <2>1, <2>3, <3>1, <3>3 DEF Ranked
        <4>2. priority[mq] + 1 - k = n - k
          BY <2>4
        <4> QED BY <4>1, <4>2
      <3> QED BY <3>1, <3>2, <3>3, <3>4
    <2>6. Cardinality(Elements(o)) = n
      BY <2>5, DistinctCardinality
    <2>7. {queue_priority[q] : q \in Elements(o)} = 0 .. priority[mq]
      <3>1. Elements(o) = {o[k] : k \in 1 .. n}
        BY <2>5 DEF Elements
      <3> HIDE DEF o
      <3>2. ASSUME NEW q \in Elements(o) PROVE queue_priority[q] \in 0 .. priority[mq]
        BY <2>5, <2>4, <3>1
      <3>3. ASSUME NEW i \in 0 .. priority[mq]
            PROVE  \E q \in Elements(o) : queue_priority[q] = i
        <4>1. n - i \in 1 .. n /\ n - (n - i) = i
          BY <2>4
        <4> QED BY <2>5, <3>1, <4>1
      <3> QED BY <3>2, <3>3
    <2>8. Elements(o) \subseteq Queues \ Elements(queue_free)
      BY <2>1, <2>5, ElementsType DEF Apart
    <2> QED BY <2>2, <2>3, <2>6, <2>7, <2>8
  <1> QED BY <1>1, MQInvHolds, PTL

\* A message that a read returns is the head of the queue it was taken from.
LEMMA ReturnedFrom ==
  ASSUME MQInv, NEW S, NEW own, Whole(S, own), [Next]_vars,
         messages' # messages, ret'.got # NoMessage
  PROVE  \E size \in ReadSizes, mq \in Elements(S) \cap MQs : \E q \in Source(mq, size) :
           own[mq] # <<>> /\ ret'.got = Head(messages[q]).stamp
  <1> DEFINE Goal == \E size \in ReadSizes, mq \in Elements(S) \cap MQs :
                       \E q \in Source(mq, size) :
                         own[mq] # <<>> /\ ret'.got = Head(messages[q]).stamp
  <1>1. StoreOK /\ ContentOK /\ OpenOK /\ ResultOK
    BY TypeParts DEF MQInv
  <1>2. ASSUME NEW value, Returns(value) PROVE FALSE
    BY <1>2 DEF Returns
  <1>3. ~UNCHANGED content
    BY DEF content
  <1>4. \A code : ~Fails(code) /\ ~Crash(code)
    BY <1>3 DEF Fails, Crash
  <1>5. ASSUME NEW p \in Processes, NEW i \in Ids, NEW flags \in FlagSets,
               NEW prio \in OpenPriorities, internal_mqOpen(p, i, flags, prio)
        PROVE  Goal
    <2> SUFFICES FALSE
      OBVIOUS
    <2>1. PICK mq : \/ OpenExisting(p, mq) \/ Create(p, i, mq, prio) \/ CreateHalfway(i, mq, prio)
      BY <1>4, <1>5 DEF internal_mqOpen
    <2>2. CASE OpenExisting(p, mq)
      BY <1>3, <2>2 DEF OpenExisting
    <2>3. CASE Create(p, i, mq, prio)
      BY <1>2, <2>3 DEF Create, OpenDescriptor
    <2>4. CASE CreateHalfway(i, mq, prio)
      BY <1>2, <2>4 DEF CreateHalfway
    <2> QED BY <2>1, <2>2, <2>3, <2>4
  <1>6. ASSUME NEW p \in Processes, NEW fd \in Fds, internal_mqClose(p, fd)
        PROVE  Goal
    BY <1>3, <1>4, <1>6 DEF internal_mqClose
  <1>7. ASSUME NEW p \in Processes, NEW fd \in Fds, NEW size \in WriteSizes,
               NEW prio \in WritePriorities, internal_mqWrite(p, fd, size, prio)
        PROVE  Goal
    BY <1>1, <1>7, WriteWhole
  <1>8. ASSUME NEW p \in Processes, NEW fd \in Fds, NEW size \in ReadSizes,
               internal_mqRead(p, fd, size)
        PROVE  Goal
    BY <1>1, <1>8, ReadWhole
  <1>9. ASSUME NEW i \in Ids, internal_mqUnlink(i) PROVE Goal
    BY <1>3, <1>4, <1>9 DEF internal_mqUnlink, Unlink
  <1>10. ASSUME NEW p \in Processes, ProcessReplaced(p) PROVE Goal
    BY <1>3, <1>10 DEF ProcessReplaced
  <1>11. ~UNCHANGED vars
    BY DEF vars, content
  <1> QED BY <1>5, <1>6, <1>7, <1>8, <1>9, <1>10, <1>11 DEF Next

(* With buffers of MAX_MESSAGE_LENGTH bytes a read returns the oldest message of
   the highest priority: when it is called, every other message of the same
   message queue has a lower priority, or the same and came later. *)
THEOREM OldestOfHighest ==
  ASSUME LargeBuffers
  PROVE  Spec => HighestOldestFirst
  <1> DEFINE Served ==
               \A mq \in LiveMQs : \A q \in QueuesOf(mq) :
                 (messages[q] # <<>> /\ ret'.got # NoMessage
                    /\ ret'.got = Head(messages[q]).stamp /\ messages'[q] # messages[q])
                 => \A r \in QueuesOf(mq) : \A m \in Elements(messages[r]) :
                      \/ queue_priority[r] > queue_priority[q]
                      \/ r = q /\ m.stamp >= ret'.got
  <1>1. MQInv /\ [Next]_vars => Served
    <2> SUFFICES ASSUME MQInv, NEW S, NEW own, Whole(S, own), [Next]_vars,
                        NEW mq \in LiveMQs, NEW q \in QueuesOf(mq),
                        messages[q] # <<>>, ret'.got # NoMessage,
                        ret'.got = Head(messages[q]).stamp, messages'[q] # messages[q],
                        NEW r \in QueuesOf(mq), NEW m \in Elements(messages[r])
                 PROVE  \/ queue_priority[r] > queue_priority[q]
                        \/ r = q /\ m.stamp >= ret'.got
      BY DEF MQInv
    <2>1. StoreOK /\ ContentOK
      BY TypeParts DEF MQInv
    <2>2. /\ Shape(S, own) /\ Ranked(own) /\ Apart(S, own) /\ Stamped(messages, written)
          /\ own \in [MQs -> Seq(Queues)]
      BY DEF Whole, Shape
    <2>3. /\ mq \in Elements(S) \cap MQs /\ q \in Elements(own[mq]) /\ r \in Elements(own[mq])
          /\ own[mq] # <<>> /\ q \in Queues /\ r \in Queues
      BY <2>2, LiveIs, EmptyElements, ElementsType
    <2>4. messages' # messages
      OBVIOUS
    <2>5. PICK size \in ReadSizes, b \in Elements(S) \cap MQs : \E s \in Source(b, size) :
            own[b] # <<>> /\ ret'.got = Head(messages[s]).stamp
      BY <2>4, ReturnedFrom
    <2>6. PICK s \in Source(b, size) : own[b] # <<>> /\ ret'.got = Head(messages[s]).stamp
      BY <2>5
    <2>7. /\ messages[s] # <<>> /\ s \in Elements(own[b]) /\ s \in Queues
          /\ \A x \in Elements(own[b]) : messages[x] # <<>> => FitsIn(x, size)
      BY <2>1, <2>2, <2>6, SourceIs
    <2>8. \A x \in Queues : /\ messages[x] \in Seq(Message)
                            /\ messages[x] # <<>> => /\ Head(messages[x]) = messages[x][1]
                                                     /\ 1 \in 1 .. Len(messages[x])
      BY <2>1 DEF ContentOK
    <2>9. s = q
      <3>1. messages[s][1].stamp = messages[q][1].stamp
        BY <2>3, <2>6, <2>7, <2>8
      <3> QED BY <2>2, <2>3, <2>7, <2>8, <3>1 DEF Stamped
    <2>10. b = mq
      BY <2>2, <2>3, <2>7, <2>9 DEF Apart
    <2>11. ~(queue_priority[r] < queue_priority[q])
      <3>1. messages[r] # <<>>
        BY EmptyElements
      <3>2. FitsIn(r, size)
        BY <2>3, <2>7, <2>10, <3>1
      <3>3. q \in Scanned(mq, size)
        BY <2>6, <2>9, <2>10 DEF Source
      <3> QED BY <2>1, <2>2, <2>3, <3>2, <3>3, ScannedIs
    <2>12. CASE queue_priority[r] = queue_priority[q]
      <3>1. r = q
        BY <2>1, <2>2, <2>3, <2>12, ScannedIs
      <3>2. PICK i \in 1 .. Len(messages[q]) : m = messages[q][i]
        BY <3>1 DEF Elements
      <3>3. messages[q][1].stamp \in Int /\ messages[q][i].stamp \in Int /\ 1 \in 1 .. Len(messages[q])
        <4> DEFINE z == messages[q]
        <4>1. z \in Seq(Message) /\ 1 \in 1 .. Len(z) /\ i \in 1 .. Len(z)
          BY <2>3, <2>8, <3>2
        <4> HIDE DEF z
        <4>2. z[1] \in Message /\ z[i] \in Message
          BY <4>1
        <4>3. \A x \in Message : x.stamp \in Int
          BY DEF Message
        <4> QED BY <4>1, <4>2, <4>3 DEF z
      <3>4. i = 1 \/ messages[q][1].stamp < messages[q][i].stamp
        BY <2>2, <2>3, <3>2, <3>3 DEF Stamped
      <3>5. ret'.got = messages[q][1].stamp
        BY <2>3, <2>8
      <3> QED BY <3>1, <3>2, <3>3, <3>4, <3>5
    <2>13. queue_priority[r] \in Int /\ queue_priority[q] \in Int
      BY <2>1, <2>3 DEF StoreOK
    <2> QED BY <2>11, <2>12, <2>13
  <1>2. Spec => [][Served]_vars
    <2>1. MQInv /\ [Next]_vars => [Served]_vars
      BY <1>1
    <2> HIDE DEF Served
    <2> QED BY <2>1, MQInvHolds, PTL DEF Spec
  <1> QED BY <1>2 DEF HighestOldestFirst
=============================================================================
