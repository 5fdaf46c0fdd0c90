--------------------------- MODULE ResourcesProofs ---------------------------
(***************************************************************************)
(* For any number of processes, resources and descriptors: the descriptors *)
(* of resources agree with the resources, exclusive use is exclusive, and  *)
(* only zombies lose descriptors.                                          *)
(***************************************************************************)
EXTENDS Resources, SchedulerProofs

-----------------------------------------------------------------------------
(* The inductive invariant: the process table is in order, and what a live
   process holds was numbered by its counter. *)

DesRecords == [fd : Nat, resource : ResourceBlocks \cup {NULL}, exclusive : BOOLEAN]

ResTyped ==
  /\ res_free \subseteq ResourceBlocks
  /\ res_descriptors \in [ResourceBlocks -> SUBSET Descriptors]
  /\ descriptors \in [Blocks -> SUBSET Descriptors]
  /\ last_fd \in [Blocks -> Nat]
  /\ des \in [Descriptors -> DesRecords]
  /\ des_free \subseteq Descriptors

Numbered ==
  \A b \in Live : \A d \in descriptors[b] :
    des[d].resource \in ResourceBlocks /\ des[d].fd < last_fd[b]

Agreeing == ResTyped /\ Numbered /\ ResDescriptorsAgree /\ OneExclusiveUser

ResInv == Core /\ Agreeing

USE SchedulerAssumption, ResourcesAssumption DEF NULL

LEMMA DesFields ==
  /\ UnsetDes \in DesRecords
  /\ \A x \in DesRecords : x.fd \in Nat /\ x.resource \in ResourceBlocks \cup {NULL}
                           /\ x.exclusive \in BOOLEAN
  BY DEF DesRecords, UnsetDes

\* Descriptors D of running are released, and blocks start without any.
LEMMA ReleaseAgrees ==
  ASSUME Agreeing, NEW D, Release(D), UNCHANGED resource,
         D = {} \/ (running \in Live /\ D \subseteq descriptors[running]),
         descriptors' \in [Blocks -> SUBSET Descriptors], last_fd' \in [Blocks -> Nat],
         \A b \in Live' : \/ descriptors'[b] = {}
                          \/ /\ b \in Live
                             /\ descriptors'[b] = descriptors[b] \ D
                             /\ last_fd'[b] = last_fd[b]
  PROVE  Agreeing'
  <1> USE DEF Agreeing
  <1>1. D \subseteq Descriptors
    BY DEF ResTyped, Live
  <1>2. /\ \A r \in ResourceBlocks : res_descriptors'[r] = res_descriptors[r] \ D
        /\ des_free' = des_free \cup D
        /\ \A d \in Descriptors \ D : des'[d] = des[d]
        /\ res_free' = res_free
    BY DEF Release, resource
  <1>3. ResTyped'
    <2>1. res_descriptors' \in [ResourceBlocks -> SUBSET Descriptors]
      BY DEF ResTyped, Release
    <2>2. des' \in [Descriptors -> DesRecords]
      BY DesFields DEF ResTyped, Release
    <2> QED BY <1>1, <1>2, <2>1, <2>2 DEF ResTyped
  <1>4. ASSUME NEW b \in Live', NEW d \in descriptors'[b]
        PROVE  /\ b \in Live /\ d \in descriptors[b] \ D /\ d \in Descriptors
               /\ last_fd'[b] = last_fd[b] /\ des'[d] = des[d]
    <2>1. b \in Live /\ d \in descriptors[b] \ D /\ last_fd'[b] = last_fd[b]
      BY <1>4
    <2>2. d \in Descriptors
      BY <2>1 DEF ResTyped, Live
    <2> QED BY <1>2, <2>1, <2>2
  <1>5. Numbered'
    BY <1>4 DEF Numbered
  <1>6. ASSUME NEW b \in Live', NEW d \in descriptors'[b]
        PROVE  /\ d \in res_descriptors'[des'[d].resource]
               /\ \A e \in descriptors'[b] : des'[d].fd = des'[e].fd => d = e
               /\ \A c \in Live' \ {b} : d \notin descriptors'[c]
    <2>1. d \in res_descriptors[des[d].resource] /\ des[d].resource \in ResourceBlocks
      BY <1>4, <1>6 DEF ResDescriptorsAgree, Numbered
    <2>2. d \in res_descriptors'[des'[d].resource]
      BY <1>2, <1>4, <1>6, <2>1
    <2>3. \A e \in descriptors'[b] : des'[d].fd = des'[e].fd => d = e
      BY <1>4, <1>6 DEF ResDescriptorsAgree
    <2>4. \A c \in Live' \ {b} : d \notin descriptors'[c]
      BY <1>4, <1>6 DEF ResDescriptorsAgree
    <2> QED BY <2>2, <2>3, <2>4
  <1>7. ASSUME NEW r \in ResourceBlocks, NEW d \in res_descriptors'[r]
        PROVE  /\ r \in resources_list' /\ d \notin des_free' /\ des'[d].resource = r
               /\ d \in res_descriptors[r] /\ des'[d] = des[d]
    <2>1. d \in res_descriptors[r] \ D /\ d \in Descriptors
      BY <1>2, <1>7 DEF ResTyped
    <2>2. r \in resources_list /\ d \notin des_free /\ des[d].resource = r
      BY <2>1 DEF ResDescriptorsAgree
    <2> QED BY <1>2, <2>1, <2>2 DEF resources_list
  <1>8. ResDescriptorsAgree'
    BY <1>6, <1>7 DEF ResDescriptorsAgree
  <1>9. OneExclusiveUser'
    BY <1>7 DEF OneExclusiveUser
  <1> QED BY <1>3, <1>5, <1>8, <1>9

\* running gets descriptor d for r, which is or has just been taken from its pool.
Opens(r, d, excl) ==
  /\ d \in des_free
  /\ des_free' = des_free \ {d}
  /\ des' = [des EXCEPT ![d] = [fd |-> last_fd[running], resource |-> r, exclusive |-> excl]]
  /\ descriptors' = [descriptors EXCEPT ![running] = @ \cup {d}]
  /\ res_descriptors' = [res_descriptors EXCEPT ![r] = @ \cup {d}]
  /\ last_fd' = [last_fd EXCEPT ![running] = @ + 1]

LEMMA OpenAgrees ==
  ASSUME Agreeing, running \in Live, Live' = Live,
         NEW r \in ResourceBlocks, NEW d, NEW excl \in BOOLEAN, Opens(r, d, excl),
         res_free' \subseteq res_free, r \notin res_free',
         excl => res_descriptors[r] = {}
  PROVE  Agreeing'
  <1> USE DEF Agreeing
  <1>1. d \in Descriptors /\ running \in Blocks /\ last_fd[running] \in Nat
    BY DEF Opens, ResTyped, Live
  <1> DEFINE new == [fd |-> last_fd[running], resource |-> r, exclusive |-> excl]
  <1>2. new \in DesRecords /\ new.fd = last_fd[running] /\ new.resource = r /\ new.exclusive = excl
    BY <1>1 DEF DesRecords
  <1> HIDE DEF new
  <1>3. /\ des' \in [Descriptors -> DesRecords] /\ des'[d] = new
        /\ \A e \in Descriptors \ {d} : des'[e] = des[e]
    BY <1>1, <1>2 DEF Opens, ResTyped, new
  <1>4. /\ descriptors' \in [Blocks -> SUBSET Descriptors]
        /\ descriptors'[running] = descriptors[running] \cup {d}
        /\ \A b \in Blocks \ {running} : descriptors'[b] = descriptors[b]
    BY <1>1 DEF Opens, ResTyped
  <1>5. /\ res_descriptors' \in [ResourceBlocks -> SUBSET Descriptors]
        /\ res_descriptors'[r] = res_descriptors[r] \cup {d}
        /\ \A q \in ResourceBlocks \ {r} : res_descriptors'[q] = res_descriptors[q]
    BY <1>1 DEF Opens, ResTyped
  <1>6. /\ last_fd' \in [Blocks -> Nat] /\ last_fd'[running] = last_fd[running] + 1
        /\ \A b \in Blocks \ {running} : last_fd'[b] = last_fd[b]
    BY <1>1 DEF Opens, ResTyped
  <1>7. des_free' = des_free \ {d} /\ d \in des_free
    BY DEF Opens
  <1>8. ResTyped'
    BY <1>3, <1>4, <1>5, <1>6, <1>7 DEF ResTyped
  <1>9. ASSUME NEW q \in ResourceBlocks PROVE d \notin res_descriptors[q]
    BY <1>7 DEF ResDescriptorsAgree
  <1>10. ASSUME NEW b \in Live PROVE b \in Blocks /\ d \notin descriptors[b]
    BY <1>9 DEF ResDescriptorsAgree, Numbered, Live
  <1>11. ASSUME NEW b \in Live, NEW e \in descriptors[b]
         PROVE  /\ e \in Descriptors \ {d} /\ des'[e] = des[e]
                /\ des[e].resource \in ResourceBlocks /\ des[e].fd < last_fd[b]
                /\ des[e].fd \in Nat /\ e \in res_descriptors[des[e].resource]
    <2>1. e \in Descriptors \ {d}
      BY <1>10 DEF ResTyped
    <2> QED BY <1>3, <2>1, DesFields DEF ResTyped, Numbered, ResDescriptorsAgree
  <1>12. ASSUME NEW b \in Live', NEW e \in descriptors'[b]
         PROVE  \/ b = running /\ e = d /\ des'[e] = new
                \/ b \in Live /\ e \in descriptors[b]
    BY <1>1, <1>3, <1>4, <1>12 DEF Live
  <1>13. Numbered'
    <2> SUFFICES ASSUME NEW b \in Live', NEW e \in descriptors'[b]
                 PROVE  des'[e].resource \in ResourceBlocks /\ des'[e].fd < last_fd'[b]
      BY DEF Numbered
    <2>1. CASE b = running /\ e = d /\ des'[e] = new
      BY <1>1, <1>2, <1>6, <2>1
    <2>2. CASE b \in Live /\ e \in descriptors[b]
      <3>1. last_fd'[b] >= last_fd[b] /\ last_fd[b] \in Nat /\ last_fd'[b] \in Nat
        BY <1>6, <1>10, <2>2 DEF ResTyped
      <3> QED BY <1>11, <2>2, <3>1
    <2> QED BY <1>12, <2>1, <2>2
  <1>14. ASSUME NEW b \in Live', NEW e \in descriptors'[b]
         PROVE  /\ e \in res_descriptors'[des'[e].resource]
                /\ \A f \in descriptors'[b] : des'[e].fd = des'[f].fd => e = f
                /\ \A c \in Live' \ {b} : e \notin descriptors'[c]
    <2>1. CASE b = running /\ e = d /\ des'[e] = new
      <3>1. \A f \in descriptors[b] : des'[f].fd # new.fd
        BY <1>1, <1>2, <1>11, <2>1
      <3>2. \A c \in Live' \ {b} : e \notin descriptors'[c]
        BY <1>4, <1>10, <2>1 DEF Live
      <3> QED BY <1>2, <1>4, <1>5, <2>1, <3>1, <3>2
    <2>2. CASE b \in Live /\ e \in descriptors[b]
      <3>1. e \in res_descriptors'[des'[e].resource]
        BY <1>5, <1>11, <2>2
      <3>2. ASSUME NEW f \in descriptors'[b], des'[e].fd = des'[f].fd PROVE e = f
        <4>1. CASE b = running /\ f = d /\ des'[f] = new
          BY <1>1, <1>2, <1>11, <2>2, <3>2, <4>1
        <4>2. CASE f \in descriptors[b]
          BY <1>11, <2>2, <3>2, <4>2 DEF ResDescriptorsAgree
        <4> QED BY <1>12, <1>14, <4>1, <4>2
      <3>3. ASSUME NEW c \in Live' \ {b} PROVE e \notin descriptors'[c]
        <4>1. c \in Live /\ c \in Blocks /\ e # d /\ e \notin descriptors[c]
          BY <1>10, <1>11, <2>2 DEF ResDescriptorsAgree
        <4> QED BY <1>4, <4>1
      <3> QED BY <3>1, <3>2, <3>3
    <2> QED BY <1>12, <1>14, <2>1, <2>2
  <1>15. ASSUME NEW q \in ResourceBlocks, NEW e \in res_descriptors'[q]
         PROVE  \/ q = r /\ e = d /\ des'[e] = new
                \/ /\ e \in res_descriptors[q] /\ e # d /\ des'[e] = des[e]
                   /\ q \in resources_list /\ e \notin des_free /\ des[e].resource = q
    <2>1. CASE e = d
      BY <1>3, <1>5, <1>9, <1>15, <2>1
    <2>2. CASE e # d
      <3>1. e \in res_descriptors[q] /\ e \in Descriptors
        BY <1>5, <1>15, <2>2 DEF ResTyped
      <3> QED BY <1>3, <2>2, <3>1 DEF ResDescriptorsAgree
    <2> QED BY <2>1, <2>2
  <1>16. ASSUME NEW q \in ResourceBlocks, NEW e \in res_descriptors'[q]
         PROVE  q \in resources_list' /\ e \notin des_free' /\ des'[e].resource = q
    BY <1>2, <1>7, <1>15, <1>16 DEF resources_list
  <1>17. ResDescriptorsAgree'
    BY <1>14, <1>16 DEF ResDescriptorsAgree
  <1>18. OneExclusiveUser'
    <2> SUFFICES ASSUME NEW q \in ResourceBlocks,
                        NEW e \in res_descriptors'[q], NEW f \in res_descriptors'[q],
                        des'[e].exclusive, des'[f].exclusive
                 PROVE  e = f
      BY DEF OneExclusiveUser
    <2>1. CASE q = r /\ (e = d \/ f = d)
      <3>1. excl
        BY <1>2, <1>3, <2>1
      <3> QED BY <1>5, <2>1, <3>1
    <2>2. CASE ~(q = r /\ (e = d \/ f = d))
      <3>1. /\ e \in res_descriptors[q] /\ des'[e] = des[e]
            /\ f \in res_descriptors[q] /\ des'[f] = des[f]
        BY <1>15, <2>2
      <3> QED BY <3>1 DEF OneExclusiveUser
    <2> QED BY <2>1, <2>2
  <1> QED BY <1>8, <1>13, <1>17, <1>18

-----------------------------------------------------------------------------
(* Each action *)

\* A call that stores its answer leaves the process table as it is.
LEMMA ReturnsCore ==
  ASSUME Core, CallsRes, NEW value \in Int, ReturnsRes(value)
  PROVE  Core' /\ Live' = Live /\ Free' = Free /\ running \in Live
  <1>1. running # NULL /\ awaited' = [awaited EXCEPT ![running] = NotWaiting] /\ NotWaiting \in Waits
    BY DEF CallsRes, CallsOther, Calls, Waits
  <1>2. running \in Blocks /\ running \in Live
    BY <1>1, RunningIsLive
  <1>3. /\ reported' \in Reports /\ mode' \in Modes
        /\ UNCHANGED <<pools, table, running, init_pcb, queues, abandoned>>
    BY <1>2 DEF ReturnsRes, Reports, Modes, Core, TypeOK
  <1>4. Core'
    BY <1>1, <1>3, CoreFrame
  <1> QED BY <1>2, <1>3, <1>4 DEF pools, Live, Free

LEMMA AgreeingFrame ==
  ASSUME Agreeing, UNCHANGED <<resource, opened>>, Live' = Live
  PROVE  Agreeing'
  <1>1. UNCHANGED <<res_free, res_descriptors, descriptors, last_fd, des, des_free>>
    BY DEF resource, opened
  <1> QED BY <1>1 DEF Agreeing, ResTyped, Numbered, ResDescriptorsAgree, OneExclusiveUser,
                      resources_list

LEMMA FailsStep ==
  ASSUME ResInv, CallsRes, NEW code \in Int, FailsRes(code)
  PROVE  ResInv' /\ Free' = Free
  <1>1. Core' /\ Live' = Live /\ Free' = Free
    BY ReturnsCore DEF ResInv, FailsRes
  <1> QED BY <1>1, AgreeingFrame DEF ResInv, FailsRes

LEMMA FoundResource ==
  ASSUME NEW i
  PROVE  ResourceList_byId(i) = NULL \/ ResourceList_byId(i) \in resources_list
  BY DEF ResourceList_byId

LEMMA OpenStep ==
  ASSUME ResInv, CallsRes, NEW r \in ResourceBlocks, NEW open_mode,
         OpenResDescriptor(r, open_mode),
         res_free' \subseteq res_free, r \notin res_free',
         Excludes(open_mode) => res_descriptors[r] = {}
  PROVE  ResInv' /\ Free' = Free
  <1>1. CASE des_free = {} /\ ReturnsRes(DSOS_ERESOURCENOFD) /\ UNCHANGED opened
    <2>1. Core' /\ Live' = Live /\ Free' = Free
      BY <1>1, ReturnsCore DEF ResInv, DSOS_ERESOURCENOFD
    <2>2. UNCHANGED <<res_descriptors, descriptors, last_fd, des, des_free>>
      BY <1>1 DEF opened
    <2>3. Agreeing'
      BY <2>1, <2>2 DEF ResInv, Agreeing, ResTyped, Numbered, ResDescriptorsAgree,
                        OneExclusiveUser, resources_list
    <2> QED BY <2>1, <2>3 DEF ResInv
  <1>2. ASSUME NEW d \in des_free, Opens(r, d, Excludes(open_mode)), ReturnsRes(last_fd[running])
        PROVE  ResInv' /\ Free' = Free
    <2>1. last_fd[running] \in Int
      <3>1. running # NULL
        BY DEF CallsRes, CallsOther, Calls
      <3> QED BY <3>1, RunningIsLive DEF ResInv, Agreeing, ResTyped
    <2>2. Core' /\ Live' = Live /\ Free' = Free /\ running \in Live
      BY <1>2, <2>1, ReturnsCore DEF ResInv
    <2>3. Excludes(open_mode) \in BOOLEAN
      BY DEF Excludes
    <2>4. Agreeing'
      BY <1>2, <2>2, <2>3, OpenAgrees DEF ResInv
    <2> QED BY <2>2, <2>4 DEF ResInv
  <1> QED BY <1>1, <1>2 DEF OpenResDescriptor, Opens

LEMMA OpenResourceStep ==
  ASSUME ResInv, NEW i \in ResIds, NEW type \in ResTypes, NEW open_mode \in ResModes,
         internal_openResource(i, type, open_mode)
  PROVE  ResInv' /\ Free' = Free
  <1> DEFINE r == ResourceList_byId(i)
  <1>1. r = NULL \/ (r \in ResourceBlocks /\ r \notin res_free)
    BY FoundResource DEF resources_list
  <1> HIDE DEF r
  <1>2. CASE CallsRes /\ \E code \in Int : FailsRes(code)
    BY <1>2, FailsStep
  <1>3. CASE Crash("NullDereference") /\ UNCHANGED <<resource, opened>>
    <2>1. Core'
      BY <1>3, CrashCore DEF ResInv, Faults
    <2>2. Live' = Live /\ Free' = Free
      BY <1>3 DEF Crash, pools, Live, Free
    <2> QED BY <1>3, <2>1, <2>2, AgreeingFrame DEF ResInv
  <1>4. ASSUME CallsRes, NEW new \in res_free, Resource_alloc(new, i, type),
               OpenResDescriptor(new, open_mode)
        PROVE  ResInv' /\ Free' = Free
    <2>1. new \in ResourceBlocks /\ res_free' = res_free \ {new}
      BY <1>4 DEF Resource_alloc, ResInv, Agreeing, ResTyped
    <2>2. res_descriptors[new] = {}
      BY <1>4, <2>1 DEF ResInv, Agreeing, ResDescriptorsAgree, resources_list
    <2> QED BY <1>4, <2>1, <2>2, OpenStep
  <1>5. ASSUME CallsRes, r # NULL, ~(Excludes(open_mode) /\ InUseAlready(r)),
               OpenResDescriptor(r, open_mode), UNCHANGED resource
        PROVE  ResInv' /\ Free' = Free
    <2>1. r \in ResourceBlocks /\ r \notin res_free' /\ res_free' \subseteq res_free
      BY <1>1, <1>5 DEF resource
    <2>2. Excludes(open_mode) => res_descriptors[r] = {}
      BY <1>5 DEF InUseAlready
    <2> QED BY <1>5, <2>1, <2>2, OpenStep
  <1>6. CASE Creating(i, type, open_mode)
    <2>1. DSOS_ERESOURCECREATE \in Int
      BY DEF DSOS_ERESOURCECREATE
    <2> QED BY <1>2, <1>3, <1>4, <1>6, <2>1 DEF Creating
  <1>7. CASE CallsRes /\ Existing(i, type, open_mode)
    <2>1. DSOS_ERESOURCEOPEN \in Int /\ DSOS_ERESOURCENOEXCL \in Int
      BY DEF DSOS_ERESOURCEOPEN, DSOS_ERESOURCENOEXCL
    <2> QED BY <1>2, <1>5, <1>7, <2>1 DEF Existing, r
  <1> QED BY <1>6, <1>7 DEF internal_openResource

LEMMA CloseStep ==
  ASSUME ResInv, NEW fd, internal_closeResource(fd)
  PROVE  ResInv' /\ Free' = Free
  <1> DEFINE D == {d \in descriptors[running] : des[d].fd = fd}
  <1>1. CallsRes
    BY DEF internal_closeResource
  <1>2. CASE FailsRes(DSOS_ERESOURCECLOSE)
    <2>1. DSOS_ERESOURCECLOSE \in Int
      BY DEF DSOS_ERESOURCECLOSE
    <2> QED BY <1>1, <1>2, <2>1, FailsStep
  <1>3. CASE /\ Release(D)
             /\ descriptors' = [descriptors EXCEPT ![running] = @ \ D]
             /\ ReturnsRes(0)
             /\ UNCHANGED <<resource, last_fd>>
    <2>1. Core' /\ Live' = Live /\ Free' = Free /\ running \in Live
      BY <1>1, <1>3, ReturnsCore DEF ResInv
    <2>2. D \subseteq descriptors[running] /\ running \in Blocks
      BY <2>1 DEF Live
    <2> HIDE DEF D
    <2>3. /\ descriptors' \in [Blocks -> SUBSET Descriptors]
          /\ descriptors'[running] = descriptors[running] \ D
          /\ \A b \in Blocks \ {running} : descriptors'[b] = descriptors[b]
      BY <1>3, <2>2 DEF ResInv, Agreeing, ResTyped
    <2>4. last_fd' = last_fd /\ last_fd' \in [Blocks -> Nat]
      BY <1>3 DEF ResInv, Agreeing, ResTyped
    <2>5. ASSUME NEW b \in Live'
          PROVE  b \in Live /\ descriptors'[b] = descriptors[b] \ D /\ last_fd'[b] = last_fd[b]
      <3>1. CASE b = running
        BY <2>1, <2>3, <2>4, <3>1
      <3>2. CASE b # running
        <4>1. b \in Live /\ b \in Blocks
          BY <2>1 DEF Live
        <4>2. descriptors[b] \cap descriptors[running] = {}
          BY <2>1, <3>2, <4>1 DEF ResInv, Agreeing, ResDescriptorsAgree
        <4> QED BY <2>2, <2>3, <2>4, <3>2, <4>1, <4>2
      <3> QED BY <3>1, <3>2
    <2>6. Agreeing'
      BY <1>3, <2>1, <2>2, <2>3, <2>4, <2>5, ReleaseAgrees DEF ResInv
    <2> QED BY <2>1, <2>6 DEF ResInv
  <1> QED BY <1>2, <1>3 DEF internal_closeResource

LEMMA DestroyStep ==
  ASSUME ResInv, NEW i, internal_destroyResource(i)
  PROVE  ResInv' /\ Free' = Free
  <1> DEFINE r == ResourceList_byId(i)
  <1>1. CallsRes
    BY DEF internal_destroyResource
  <1>2. CASE FailsRes(DSOS_ERESOURCECLOSE) \/ FailsRes(DSOS_ERESOURCEINUSE)
    <2>1. DSOS_ERESOURCECLOSE \in Int /\ DSOS_ERESOURCEINUSE \in Int
      BY DEF DSOS_ERESOURCECLOSE, DSOS_ERESOURCEINUSE
    <2> QED BY <1>1, <1>2, <2>1, FailsStep
  <1>3. CASE /\ r # NULL /\ ~InUse(r)
             /\ res_free' = res_free \cup {r}
             /\ ReturnsRes(0)
             /\ UNCHANGED opened
    <2>1. Core' /\ Live' = Live /\ Free' = Free
      BY <1>1, <1>3, ReturnsCore DEF ResInv
    <2>2. r \in ResourceBlocks /\ res_descriptors[r] = {}
      BY <1>3, FoundResource DEF InUse, resources_list
    <2> HIDE DEF r
    <2>3. UNCHANGED <<res_descriptors, descriptors, last_fd, des, des_free>>
      BY <1>3 DEF opened
    <2>4. ResTyped' /\ Numbered' /\ OneExclusiveUser'
      BY <1>3, <2>1, <2>2, <2>3 DEF ResInv, Agreeing, ResTyped, Numbered, OneExclusiveUser
    <2>5. ASSUME NEW q \in ResourceBlocks, NEW d \in res_descriptors'[q]
          PROVE  q \in resources_list' /\ d \notin des_free' /\ des'[d].resource = q
      BY <1>3, <2>2, <2>3, <2>5 DEF ResInv, Agreeing, ResDescriptorsAgree, resources_list
    <2>6. ResDescriptorsAgree'
      BY <2>1, <2>3, <2>5 DEF ResInv, Agreeing, ResDescriptorsAgree
    <2> QED BY <2>1, <2>4, <2>6 DEF ResInv, Agreeing
  <1> QED BY <1>2, <1>3 DEF internal_destroyResource

\* What an action of the process table does to the set of free blocks
LEMMA FreedByKernel ==
  ASSUME Core, Next, NEW b \in Free' \ Free
  PROVE  b \in zombie_list \/ b = running
  <1>1. b \in Live /\ b \notin Live'
    <2>1. Core'
      BY NextCore
    <2>2. b \in Blocks
      BY <2>1, ElementsType DEF Core, TypeOK, Free
    <2> QED BY <2>2 DEF Live
  <1>2. [Next]_vars
    OBVIOUS
  <1>3. SameFamily => FALSE
    BY <1>1 DEF SameFamily
  <1>4. ASSUME NEW c \in Blocks, NEW p \in Run \cup {NULL}, Born(c, p) PROVE FALSE
    BY <1>1, <1>4 DEF Born
  <1>5. ASSUME NEW z \in Blocks, Reaped(z) PROVE b \in zombie_list
    BY <1>1, <1>5 DEF Reaped
  <1>6. Gone(running) => b = running
    BY <1>1 DEF Gone
  <1> QED BY <1>2, <1>3, <1>4, <1>5, <1>6, FamilyKinds

LEMMA KernelResStep ==
  ASSUME ResInv, KernelStep
  PROVE  /\ ResInv'
         /\ \A b \in Free' \ Free : descriptors'[b] = {} \/ b \in zombie_list
  <1> DEFINE fresh == Free \ Free'
             dies == running \in Free'
             D == IF dies THEN descriptors[running] ELSE {}
  <1>1. Core /\ Core' /\ Next /\ Agreeing
    BY NextCore DEF ResInv, KernelStep
  <1>2. /\ Release(D)
        /\ descriptors' = [b \in Blocks |-> IF b \in fresh THEN {} ELSE descriptors[b] \ D]
        /\ last_fd' = [b \in Blocks |-> IF b \in fresh THEN 0 ELSE last_fd[b]]
        /\ UNCHANGED resource
    BY DEF KernelStep, Free, DescriptorsReleased
  <1>3. /\ Free \subseteq Blocks /\ Free' \subseteq Blocks
    BY <1>1, ElementsType DEF Core, TypeOK, Free
  <1>4. dies => running \in Live
    <2>1. dies => running # NULL
      BY <1>3 DEF Blocks
    <2> QED BY <1>1, <2>1, RunningIsLive
  <1> HIDE DEF fresh
  <1>5. D = {} \/ (running \in Live /\ D \subseteq descriptors[running])
    BY <1>4
  <1>6. descriptors' \in [Blocks -> SUBSET Descriptors] /\ last_fd' \in [Blocks -> Nat]
    BY <1>1, <1>2 DEF Agreeing, ResTyped
  <1>7. \A b \in Live' : \/ descriptors'[b] = {}
                         \/ /\ b \in Live
                            /\ descriptors'[b] = descriptors[b] \ D
                            /\ last_fd'[b] = last_fd[b]
    BY <1>2 DEF Live, fresh
  <1>8. ASSUME NEW b \in Free' \ Free
        PROVE  descriptors'[b] = {} \/ b \in zombie_list
    BY <1>1, <1>2, <1>3, FreedByKernel DEF fresh
  <1> HIDE DEF D
  <1>9. Agreeing'
    BY <1>1, <1>2, <1>5, <1>6, <1>7, ReleaseAgrees
  <1> QED BY <1>1, <1>8, <1>9 DEF ResInv

-----------------------------------------------------------------------------
(* The invariant and what follows from it *)

LEMMA InitRes == ResInit => ResInv
  <1> SUFFICES ASSUME ResInit PROVE ResInv
    OBVIOUS
  <1>1. Core
    BY InitCore DEF ResInit
  <1>2. ResTyped
    BY DesFields DEF ResInit, ResTyped
  <1>3. Numbered /\ ResDescriptorsAgree /\ OneExclusiveUser
    BY DEF ResInit, Numbered, ResDescriptorsAgree, OneExclusiveUser, Live
  <1> QED BY <1>1, <1>2, <1>3 DEF ResInv, Agreeing

LEMMA NextRes ==
  ASSUME ResInv, [ResNext]_res_vars
  PROVE  /\ ResInv'
         /\ \A b \in Free' \ Free : descriptors'[b] = {} \/ b \in zombie_list
  <1>1. CASE UNCHANGED res_vars
    <2>1. UNCHANGED vars /\ UNCHANGED <<resource, opened>>
      BY <1>1 DEF res_vars
    <2>2. Core'
      BY <2>1, NextCore DEF ResInv
    <2>3. Live' = Live /\ Free' = Free
      BY <2>1 DEF vars, pools, Live, Free
    <2> QED BY <2>1, <2>2, <2>3, AgreeingFrame DEF ResInv
  <1>2. CASE KernelStep
    BY <1>2, KernelResStep
  <1>3. CASE ResNext /\ ~KernelStep
    <2>1. ResInv' /\ Free' = Free
      BY <1>3, OpenResourceStep, CloseStep, DestroyStep DEF ResNext
    <2> QED BY <2>1
  <1> QED BY <1>1, <1>2, <1>3

(* The process table stays in order, and the descriptors of resources with it,
   though exit and wait release PCBs in between: what the next theorems rest on. *)
THEOREM ResInvHolds == ResSpec => []ResInv
  <1>1. ResInv /\ [ResNext]_res_vars => ResInv'
    BY NextRes
  <1> QED BY InitRes, <1>1, PTL DEF ResSpec

(* Whatever opens, closes, destroys, exits and re-used PCBs come together, a
   descriptor of a live process is its own and refers to a live resource that
   lists it, and no resource or descriptor in a pool is still referred to:
   destroyResource, closeResource and internal_exit leave nothing dangling. *)
THEOREM ResDescriptorsStayAgreed == ResSpec => []ResDescriptorsAgree
  <1>1. ResInv => ResDescriptorsAgree
    BY DEF ResInv, Agreeing
  <1> QED BY ResInvHolds, <1>1, PTL

(* openResource keeps DSOS_EXCL exclusive among those who asked for it, with no
   more than a look at the length of the resource's list of descriptors. *)
THEOREM ExclusiveUseIsExclusive == ResSpec => []OneExclusiveUser
  <1>1. ResInv => OneExclusiveUser
    BY DEF ResInv, Agreeing
  <1> QED BY ResInvHolds, <1>1, PTL

(* A PCB that goes back to its pool leaves descriptors open only when wait reaps
   it as a zombie: internal_exit closes them on the way on which it releases the
   PCB itself. *)
THEOREM LeaksOnlyThroughZombies == ResSpec => OnlyZombiesLeakDescriptors
  <1> DEFINE Step == \A b \in Free' \ Free : descriptors'[b] = {} \/ b \in zombie_list
  <1>1. ResInv /\ [ResNext]_res_vars => [Step]_res_vars
    BY NextRes
  <1> QED BY ResInvHolds, <1>1, PTL DEF ResSpec, OnlyZombiesLeakDescriptors
=============================================================================
