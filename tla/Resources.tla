------------------------------ MODULE Resources ------------------------------
(***************************************************************************)
(* The resources of disastrOS over its process table: open_resource.c,     *)
(* close_resource.c and destroy_resource.c with resource.c and             *)
(* descriptor.c, and what exit.c and pcb.c do to descriptors.  A resource  *)
(* is in resources_list exactly when it is not in its pool.  Ids in the    *)
(* list and file descriptors in a process are unique, so the order of      *)
(* lists is never observed.  Descriptor and DescriptorPtr blocks are taken *)
(* and released in pairs from pools of one size, so a pair is one block.   *)
(* Fields of a released block are set before they are read again, and are  *)
(* cleared here.                                                           *)
(***************************************************************************)
EXTENDS Scheduler

CONSTANTS
  MAX_NUM_RESOURCES,
  ResIds, ResTypes, ResModes,  \* the arguments of openResource
  MaxFd                        \* bound: file descriptors a process ever gets

ASSUME ResourcesAssumption ==
  /\ {MAX_NUM_RESOURCES, MaxFd} \subseteq Nat
  /\ ResIds \cup ResTypes \subseteq Int
  /\ ResModes \subseteq 0 .. 7

VARIABLES
  res_free,         \* free Resource blocks
  res_id, res_type, \* fields of each Resource block
  res_descriptors,  \* res->descriptors
  descriptors, last_fd,  \* fields of each PCB
  des,              \* fd and resource of each descriptor block, and whether
                    \* it was opened with DSOS_EXCL (which the code forgets)
  des_free          \* free descriptor blocks

resource  == <<res_free, res_id, res_type>>
opened    == <<res_descriptors, descriptors, last_fd, des, des_free>>
res_vars  == <<vars, resource, opened>>

ResourceBlocks == 1 .. MAX_NUM_RESOURCES
Descriptors == 1 .. MAX_NUM_PROCESSES
resources_list == ResourceBlocks \ res_free
DSOS_ERESOURCECREATE == -8
DSOS_ERESOURCEOPEN == -9
DSOS_ERESOURCENOEXCL == -10
DSOS_ERESOURCENOFD == -11
DSOS_ERESOURCECLOSE == -12
DSOS_ERESOURCEINUSE == -13

\* DSOS_CREATE is bit 0, which DSOS_WRITE (3) has too; DSOS_EXCL is bit 2.
Creates(open_mode) == open_mode % 2 = 1
Excludes(open_mode) == (open_mode \div 4) % 2 = 1

UnsetDes == [fd |-> 0, resource |-> NULL, exclusive |-> FALSE]

ResInit ==
  /\ Init
  /\ res_free = ResourceBlocks
  /\ res_id = [r \in ResourceBlocks |-> 0]
  /\ res_type = [r \in ResourceBlocks |-> 0]
  /\ res_descriptors = [r \in ResourceBlocks |-> {}]
  /\ descriptors = [b \in Blocks |-> {}]
  /\ last_fd = [b \in Blocks |-> 0]
  /\ des = [d \in Descriptors |-> UnsetDes]
  /\ des_free = Descriptors

-----------------------------------------------------------------------------
\* Slips the properties must catch: exit keeps the descriptors; destroy does not
\* look at them; opening for exclusive use looks at those of the caller only.
DescriptorsKept == {}

NeverInUse(r) == FALSE

OpenedByCaller(r) == res_descriptors[r] \cap descriptors[running] # {}

-----------------------------------------------------------------------------
ResourceList_byId(i) ==
  LET hits == {r \in resources_list : res_id[r] = i}
  IN  IF hits = {} THEN NULL ELSE CHOOSE r \in hits : TRUE

\* The call leaves the process table alone but for its answer.
ReturnsRes(value) ==
  /\ reported' = [to |-> running, value |-> value]
  /\ UNCHANGED <<pools, table, running, init_pcb, queues, abandoned, mode>>

FailsRes(code) == ReturnsRes(code) /\ UNCHANGED <<resource, opened>>

CallsRes == CallsOther /\ IdleStarted

InUse(r) == res_descriptors[r] # {}

\* The test of openResource for exclusive use
InUseAlready(r) == res_descriptors[r] # {}

-----------------------------------------------------------------------------
\* Which block a pool hands out is never observed: it is the smallest.
Resource_alloc(r, i, type) ==
  /\ r \in res_free
  /\ \A q \in res_free : r <= q
  /\ res_free' = res_free \ {r}
  /\ res_id' = [res_id EXCEPT ![r] = i]
  /\ res_type' = [res_type EXCEPT ![r] = type]

\* The descriptor of running for r; a resource just created stays when there is
\* no block.
OpenResDescriptor(r, open_mode) ==
  \/ /\ des_free = {}
     /\ ReturnsRes(DSOS_ERESOURCENOFD)
     /\ UNCHANGED opened
  \/ \E d \in des_free :
       /\ last_fd[running] < MaxFd
       /\ \A e \in des_free : d <= e
       /\ des_free' = des_free \ {d}
       /\ des' = [des EXCEPT ![d] = [fd |-> last_fd[running], resource |-> r,
                                     exclusive |-> Excludes(open_mode)]]
       /\ descriptors' = [descriptors EXCEPT ![running] = @ \cup {d}]
       /\ res_descriptors' = [res_descriptors EXCEPT ![r] = @ \cup {d}]
       /\ last_fd' = [last_fd EXCEPT ![running] = @ + 1]
       /\ ReturnsRes(last_fd[running])

\* A null result of Resource_alloc is linked into the list.
Creating(i, type, open_mode) ==
  LET r == ResourceList_byId(i) IN
  \/ r # NULL /\ CallsRes /\ FailsRes(DSOS_ERESOURCECREATE)
  \/ /\ r = NULL /\ res_free = {}
     /\ Crash("NullDereference")
     /\ UNCHANGED <<resource, opened>>
  \/ /\ r = NULL
     /\ CallsRes
     /\ \E new \in res_free :
          Resource_alloc(new, i, type) /\ OpenResDescriptor(new, open_mode)

Existing(i, type, open_mode) ==
  LET r == ResourceList_byId(i)
      found == r # NULL /\ res_type[r] = type
      refused == Excludes(open_mode) /\ InUseAlready(r)
  IN
  \/ ~found /\ FailsRes(DSOS_ERESOURCEOPEN)
  \/ found /\ refused /\ FailsRes(DSOS_ERESOURCENOEXCL)
  \/ found /\ ~refused /\ OpenResDescriptor(r, open_mode) /\ UNCHANGED resource

internal_openResource(i, type, open_mode) ==
  /\ Calls /\ IdleStarted
  /\ \/ Creates(open_mode) /\ Creating(i, type, open_mode)
     \/ ~Creates(open_mode) /\ CallsRes /\ Existing(i, type, open_mode)

\* Detached from both lists and released, whoever does it
Release(D) ==
  /\ res_descriptors' = [r \in ResourceBlocks |-> res_descriptors[r] \ D]
  /\ des_free' = des_free \cup D
  /\ des' = [d \in Descriptors |-> IF d \in D THEN UnsetDes ELSE des[d]]

internal_closeResource(fd) ==
  LET D == {d \in descriptors[running] : des[d].fd = fd} IN
  /\ CallsRes
  /\ \/ D = {} /\ FailsRes(DSOS_ERESOURCECLOSE)
     \/ /\ D # {}
        /\ Release(D)
        /\ descriptors' = [descriptors EXCEPT ![running] = @ \ D]
        /\ ReturnsRes(0)
        /\ UNCHANGED <<resource, last_fd>>

internal_destroyResource(i) ==
  LET r == ResourceList_byId(i) IN
  /\ CallsRes
  /\ \/ r = NULL /\ FailsRes(DSOS_ERESOURCECLOSE)
     \/ r # NULL /\ InUse(r) /\ FailsRes(DSOS_ERESOURCEINUSE)
     \/ /\ r # NULL /\ ~InUse(r)
        /\ res_free' = res_free \cup {r}
        /\ res_id' = [res_id EXCEPT ![r] = 0]
        /\ res_type' = [res_type EXCEPT ![r] = 0]
        /\ ReturnsRes(0)
        /\ UNCHANGED opened

-----------------------------------------------------------------------------
\* The descriptors the loop of internal_exit releases when it releases running.
DescriptorsReleased == descriptors[running]

\* The handlers of the process table.  The exit that releases the PCB closes its
\* descriptors first; PCB_alloc gives a block an empty list whatever it held.
KernelStep ==
  LET fresh == Elements(pcb_free) \ Elements(pcb_free')
      dies  == running \in Elements(pcb_free')
      D     == IF dies THEN DescriptorsReleased ELSE {}
  IN
  /\ Next
  /\ Release(D)
  /\ descriptors' = [b \in Blocks |-> IF b \in fresh THEN {} ELSE descriptors[b] \ D]
  /\ last_fd' = [b \in Blocks |-> IF b \in fresh THEN 0 ELSE last_fd[b]]
  /\ UNCHANGED resource

ResNext ==
  \/ KernelStep
  \/ \E i \in ResIds, type \in ResTypes, open_mode \in ResModes :
       internal_openResource(i, type, open_mode)
  \/ \E fd \in 0 .. MaxFd : internal_closeResource(fd)
  \/ \E i \in ResIds : internal_destroyResource(i)

ResSpec == ResInit /\ [][ResNext]_res_vars
-----------------------------------------------------------------------------
(* Properties *)

(* Descriptors and resources agree, whatever opens, closes, destroys, deaths and
   re-used blocks come together: what a live process holds is allocated, is
   nobody else's, has a file descriptor of its own and refers to a live resource
   that knows of it; no resource is in the pool, and no descriptor is, while one
   refers to the other, those of dead processes included. *)
ResDescriptorsAgree ==
  /\ \A b \in Live : \A d \in descriptors[b] :
       /\ d \in res_descriptors[des[d].resource]
       /\ \A e \in descriptors[b] : des[d].fd = des[e].fd => d = e
       /\ \A c \in Live \ {b} : d \notin descriptors[c]
  /\ \A r \in ResourceBlocks : \A d \in res_descriptors[r] :
       r \in resources_list /\ d \notin des_free /\ des[d].resource = r

(* Of those who opened a resource for exclusive use only one has it open, though
   others come and go in between: exclusion is decided by the length of a list
   when the resource is opened, and nothing is remembered. *)
OneExclusiveUser ==
  \A r \in ResourceBlocks : \A d, e \in res_descriptors[r] :
    des[d].exclusive /\ des[e].exclusive => d = e

(* A descriptor is lost only with a zombie: exit closes all of them on the way
   on which it releases the PCB itself, and whoever is reaped by wait had become
   a zombie first.  A lost descriptor keeps its resource in use forever. *)
OnlyZombiesLeakDescriptors ==
  [][\A b \in Free' \ Free : descriptors'[b] = {} \/ b \in zombie_list]_res_vars
=============================================================================
