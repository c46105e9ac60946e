---------------------------- MODULE ServiceTask ----------------------------
(***************************************************************************)
(* Service tasks of running process instances: the fetch-and-lock queue    *)
(* that external workers poll, the calls that end a task (complete,        *)
(* bpmnError, resolve), the calls that change its lock or its retries, and *)
(* the operator's suspend, resume and delete of the instance.              *)
(*                                                                         *)
(* Every call runs on its own Tokio task.  One step of this module is one  *)
(* critical section of the code: one shard-locked access to the DashMap of *)
(* pending tasks or one scope of the instance's RwLock.  `pc' says which   *)
(* section of which call comes next, so all interleavings of calls at      *)
(* their await points are behaviours.                                      *)
(***************************************************************************)
EXTENDS Integers, FiniteSets

CONSTANTS
  Instance,     \* process instances, all started before the behaviour begins
  Token,        \* execution tokens
  InstOf,       \* the instance of each token
  Task,         \* task ids; Uuid::new_v4 never returns one twice
  Topic,        \* topics of tasks
  Worker,       \* worker ids
  Call,         \* calls that can be in flight at once
  MaxLease,     \* longest lock duration, in ticks
  MaxTasks,     \* max_tasks of a fetch
  MinRetries,   \* bound: failures stop decrementing here (the code: i32)
  InitialRetries, \* retries of a new task (the code: 3)
  RetryArg,     \* the values callers pass for `retries'
  PersistenceMayFail, \* whether a delete from persistence may return an error
  Reliable,     \* workers that go on polling and completing (Fairness)
  NoTask, NoWorker

ASSUME InstOfAssumption == InstOf \in [Token -> Instance]
ASSUME FiniteAssumption == IsFiniteSet(Token)   \* active_tokens is a map in memory
ASSUME BoundsAssumption == /\ MaxLease \in Nat \ {0}
                           /\ MaxTasks \in Nat \ {0}
                           /\ MinRetries \in Int
ASSUME RetryAssumption  == /\ InitialRetries \in Nat \ {0}
                           /\ RetryArg \subseteq Int
ASSUME FlagAssumption   == PersistenceMayFail \in BOOLEAN /\ Reliable \subseteq Worker
ASSUME NullAssumption   == NoTask \notin Task /\ NoWorker \notin Worker

VARIABLES
  pending,      \* keys of pending_service_tasks
  created,      \* task ids given out so far
  tokenOf,      \* PendingServiceTask.token_id
  topic,        \* PendingServiceTask.topic
  owner,        \* PendingServiceTask.worker_id
  lease,        \* ticks until lock_expiration; 0: expired or None
  retries,      \* PendingServiceTask.retries
  exists,       \* keys of the instance store
  state,        \* ProcessInstance.state
  previous,     \* previous_state inside InstanceState::Suspended
  stored,       \* keys of ProcessInstance.tokens, of all instances
  fate,         \* per token: "ended" is its completed flag; the others are
                \* a history that only the properties read
  deleting,     \* instances between the two halves of delete_instance
  pc, job       \* per call: its next critical section, and its task

taskVars == <<pending, created, tokenOf, topic, owner, lease, retries>>
instVars == <<exists, state, previous, stored, fate, deleting>>
callVars == <<pc, job>>
vars     == <<taskVars, instVars, callVars>>

State == {"Running", "Waiting", "Parallel", "Suspended", "Completed"}
Fate  == {"live", "ended", "lost", "stuck"}
PC    == {"idle", "lookup", "check", "take", "run", "route", "takeErr",
          "advance", "batch", "wait", "enqueue", "close"}

TokensOf(i)  == {k \in Token : InstOf[k] = i}
Parallel(i)  == Cardinality(TokensOf(i)) >= 2
JobToken(c)  == tokenOf[job[c]]
JobInst(c)   == InstOf[JobToken(c)]

----------------------------------------------------------------------------
(***************************************************************************)
(* Initially every instance has run to its first wait states: each of its  *)
(* tokens is parked at one pending service task (a fork with several       *)
(* branches leaves the instance in ParallelExecution).                     *)
(***************************************************************************)
Init ==
  /\ pending \in SUBSET Task
  /\ created = pending
  /\ tokenOf \in [Task -> Token]
  /\ topic \in [Task -> Topic]
  /\ \A k \in Token : \E t \in pending : tokenOf[t] = k
  /\ \A t, u \in pending : tokenOf[t] = tokenOf[u] => t = u
  /\ \A t \in Task \ pending : tokenOf[t] = CHOOSE k \in Token : TRUE
  /\ owner = [t \in Task |-> NoWorker]
  /\ lease = [t \in Task |-> 0]
  /\ retries = [t \in Task |-> InitialRetries]
  /\ exists = Instance
  /\ state = [i \in Instance |-> IF Parallel(i) THEN "Parallel" ELSE "Waiting"]
  /\ previous = [i \in Instance |-> "Running"]
  /\ stored = Token
  /\ fate = [k \in Token |-> "live"]
  /\ deleting = {}
  /\ pc = [c \in Call |-> "idle"]
  /\ job = [c \in Call |-> NoTask]

----------------------------------------------------------------------------
(***************************************************************************)
(* Calls that touch one entry of the queue and nothing else.               *)
(***************************************************************************)

\* lock_expiration = now + duration; a duration of 0 is expired at once.
Lock(t, w, d) == /\ owner' = [owner EXCEPT ![t] = w]
                 /\ lease' = [lease EXCEPT ![t] = d]

\* Mutants of Fetchable: locks do not keep other workers away; locks never expire.
FetchableLocked(topics) == {t \in pending : topic[t] \in topics}
FetchableUnlocked(topics) ==
  {t \in pending : topic[t] \in topics /\ owner[t] = NoWorker}

\* A task is skipped only for its topic or a lock that has not expired: its
\* retries and the state of its instance are not looked at.
Fetchable(topics) == {t \in pending : topic[t] \in topics /\ lease[t] = 0}

FetchAndLock(w, topics, d) ==
  \E batch \in SUBSET Fetchable(topics) :
    /\ batch # {}
    /\ \/ Cardinality(batch) = MaxTasks
       \/ Cardinality(batch) < MaxTasks /\ batch = Fetchable(topics)
    /\ owner' = [t \in Task |-> IF t \in batch THEN w ELSE owner[t]]
    /\ lease' = [t \in Task |-> IF t \in batch THEN d ELSE lease[t]]
    /\ UNCHANGED <<pending, created, tokenOf, topic, retries, instVars, callVars>>

\* verify_lock_ownership compares the worker only; the lock may have expired.
OwnsLock(w, t) == t \in pending /\ owner[t] = w

\* Mutant: the duration is added to what is left of the lock.
ExtendLockFromExpiry(w, t, d) ==
  /\ OwnsLock(w, t)
  /\ lease' = [lease EXCEPT ![t] = @ + d]
  /\ UNCHANGED <<pending, created, tokenOf, topic, owner, retries, instVars, callVars>>

ExtendLock(w, t, d) ==
  /\ OwnsLock(w, t)
  /\ lease' = [lease EXCEPT ![t] = d]
  /\ UNCHANGED <<pending, created, tokenOf, topic, owner, retries, instVars, callVars>>

SetRetriesAndUnlock(t, n) ==
  /\ retries' = [retries EXCEPT ![t] = n]
  /\ Lock(t, NoWorker, 0)
  /\ UNCHANGED <<pending, created, tokenOf, topic, instVars, callVars>>

\* retries = None decrements, Some(r) overwrites.
FailTask(w, t) ==
  /\ OwnsLock(w, t)
  /\ \E n \in RetryArg \cup {retries[t] - 1} :
       n >= MinRetries /\ SetRetriesAndUnlock(t, n)

IsIncident(t) == retries[t] <= 0

RetryIncident(t) ==
  /\ t \in pending
  /\ IsIncident(t)
  /\ \E n \in RetryArg \cup {InitialRetries} : SetRetriesAndUnlock(t, n)

----------------------------------------------------------------------------
(***************************************************************************)
(* Calls that end a task.  Each removes it from the queue first, with      *)
(* remove_if, then goes on in several critical sections.                   *)
(***************************************************************************)
Goto(c, label) == pc' = [pc EXCEPT ![c] = label] /\ UNCHANGED job

Return(c) == /\ pc'  = [pc EXCEPT ![c] = "idle"]
             /\ job' = [job EXCEPT ![c] = NoTask]

\* Mutant: the task is read, not removed.
ClaimByReading(c, t, label) ==
  /\ pc[c] = "idle"
  /\ pc'  = [pc EXCEPT ![c] = label]
  /\ job' = [job EXCEPT ![c] = t]
  /\ UNCHANGED <<taskVars, instVars>>

Claim(c, t, label) ==
  /\ pc[c] = "idle"
  /\ pending' = pending \ {t}
  /\ pc'  = [pc EXCEPT ![c] = label]
  /\ job' = [job EXCEPT ![c] = t]
  /\ UNCHANGED <<created, tokenOf, topic, owner, lease, retries, instVars>>

CompleteTask(c, w, t)    == OwnsLock(w, t) /\ Claim(c, t, "lookup")
HandleBpmnError(c, w, t) == OwnsLock(w, t) /\ Claim(c, t, "route")
ResolveIncident(c, t)    == t \in pending /\ IsIncident(t) /\ Claim(c, t, "take")

\* complete: if let Some(inst_arc) = instances.get(..), before its read lock.
LookupInstance(c) ==
  /\ pc[c] = "lookup"
  /\ Goto(c, IF JobInst(c) \in exists THEN "check" ELSE "take")
  /\ UNCHANGED <<taskVars, instVars>>

\* Mutants of CheckSuspended: the task is not put back; it is put back unlocked.
CheckSuspendedDropping(c) ==
  /\ pc[c] = "check"
  /\ IF state[JobInst(c)] = "Suspended" THEN Return(c) ELSE Goto(c, "take")
  /\ UNCHANGED <<taskVars, instVars>>

CheckSuspendedUnlocking(c) ==
  /\ pc[c] = "check"
  /\ IF state[JobInst(c)] = "Suspended"
       THEN /\ pending' = pending \cup {job[c]}
            /\ Lock(job[c], NoWorker, 0)
            /\ Return(c)
       ELSE UNCHANGED <<pending, owner, lease>> /\ Goto(c, "take")
  /\ UNCHANGED <<created, tokenOf, topic, retries, instVars>>

\* complete: a suspended instance gets its task back and the call fails.
CheckSuspended(c) ==
  /\ pc[c] = "check"
  /\ IF state[JobInst(c)] = "Suspended"
       THEN pending' = pending \cup {job[c]} /\ Return(c)
       ELSE UNCHANGED pending /\ Goto(c, "take")
  /\ UNCHANGED <<created, tokenOf, topic, owner, lease, retries, instVars>>

\* The call fails: the token it took from the store is dropped with it.
Abort(c) ==
  /\ Return(c)
  /\ fate' = [fate EXCEPT ![JobToken(c)] = "lost"]
  /\ UNCHANGED <<taskVars, exists, state, previous, stored, deleting>>

\* From here on the call reads the token, node and instance of the task it
\* removed, never its lock or retries again: they are reset.
Forget(t) == /\ retries' = [retries EXCEPT ![t] = InitialRetries]
             /\ Lock(t, NoWorker, 0)
             /\ UNCHANGED <<pending, created, tokenOf, topic>>

\* Mutant: the token is cloned from the store, not removed.
TakeTokenCloning(c) ==
  /\ pc[c] \in {"take", "takeErr"}
  /\ Forget(job[c])
  /\ IF JobInst(c) \in exists /\ JobToken(c) \in stored
       THEN Goto(c, IF pc[c] = "take" THEN "run" ELSE "advance")
       ELSE Return(c)
  /\ UNCHANGED instVars

\* inst.tokens.remove: NoSuchInstance or "Token not found" end the call.
TakeToken(c) ==
  /\ pc[c] \in {"take", "takeErr"}
  /\ Forget(job[c])
  /\ IF JobInst(c) \in exists /\ JobToken(c) \in stored
       THEN /\ stored' = stored \ {JobToken(c)}
            /\ Goto(c, IF pc[c] = "take" THEN "run" ELSE "advance")
       ELSE UNCHANGED stored /\ Return(c)
  /\ UNCHANGED <<exists, state, previous, fate, deleting>>

\* complete, resolve: ParallelExecution is kept, every other state becomes
\* Running, Suspended too.
SetRunning(c) ==
  /\ pc[c] = "run"
  /\ IF JobInst(c) \in exists
       THEN /\ state' = [state EXCEPT ![JobInst(c)] =
                           IF @ = "Parallel" THEN @ ELSE "Running"]
            /\ Goto(c, "advance")
            /\ UNCHANGED <<taskVars, exists, previous, stored, fate, deleting>>
       ELSE Abort(c)

\* bpmnError: a matching boundary event sets Running unconditionally; without
\* one the call ends and leaves the token parked with no task.
RouteBpmnError(c) ==
  /\ pc[c] = "route"
  /\ \/ /\ JobInst(c) \notin exists
        /\ Return(c) /\ Forget(job[c])
        /\ UNCHANGED <<state, fate>>
     \/ /\ JobInst(c) \in exists
        /\ state' = [state EXCEPT ![JobInst(c)] = "Running"]
        /\ Goto(c, "takeErr")
        /\ UNCHANGED <<taskVars, fate>>
     \/ /\ JobInst(c) \in exists
        /\ fate' = [fate EXCEPT ![JobToken(c)] = "stuck"]
        /\ Return(c) /\ Forget(job[c])
        /\ UNCHANGED state
  /\ UNCHANGED <<exists, previous, stored, deleting>>

\* End scripts and resolve_next_target: success, or an error that ends the call.
AdvanceToken(c) ==
  /\ pc[c] = "advance"
  /\ \/ /\ JobInst(c) \in exists
        /\ Goto(c, "batch")
        /\ UNCHANGED <<taskVars, instVars>>
     \/ Abort(c)

----------------------------------------------------------------------------
(***************************************************************************)
(* run_instance_batch on the token: the next node is another service task  *)
(* or an end event, or execute_step fails.                                 *)
(***************************************************************************)
ParkAtServiceTask(c, t) ==
  /\ pc[c] = "batch"
  /\ JobInst(c) \in exists
  /\ t \in Task \ created
  /\ created' = created \cup {t}
  /\ tokenOf' = [tokenOf EXCEPT ![t] = JobToken(c)]
  /\ stored' = stored \cup {JobToken(c)}
  /\ pc'  = [pc EXCEPT ![c] = "wait"]
  /\ job' = [job EXCEPT ![c] = t]
  /\ UNCHANGED <<pending, topic, owner, lease, retries,
                 exists, state, previous, fate, deleting>>

\* handle_next_action, WaitForServiceTask: the state unless the instance is
\* parallel or gone, then the queue, whether the instance is there or not.
SetWaiting(c) ==
  /\ pc[c] = "wait"
  /\ state' = IF JobInst(c) \in exists /\ state[JobInst(c)] # "Parallel"
                THEN [state EXCEPT ![JobInst(c)] = "Waiting"] ELSE state
  /\ Goto(c, "enqueue")
  /\ UNCHANGED <<taskVars, exists, previous, stored, fate, deleting>>

Enqueue(c) ==
  /\ pc[c] = "enqueue"
  /\ pending' = pending \cup {job[c]}
  /\ Return(c)
  /\ UNCHANGED <<created, tokenOf, topic, owner, lease, retries, instVars>>

EndBranch(c) ==
  /\ pc[c] = "batch"
  /\ JobInst(c) \in exists
  /\ fate' = [fate EXCEPT ![JobToken(c)] = "ended"]
  /\ Goto(c, "close")
  /\ UNCHANGED <<taskVars, exists, state, previous, stored, deleting>>

\* Mutant: the flags of active_tokens are not consulted.
AllTokensCompletedStoreOnly(i) == TokensOf(i) \cap stored = {}

\* all_tokens_completed: no token parked, and active_tokens empty (linear
\* flow) or every one of them flagged.
AllTokensCompleted(i) ==
  /\ TokensOf(i) \cap stored = {}
  /\ ~Parallel(i) \/ \A k \in TokensOf(i) : fate[k] = "ended"

CloseInstance(c) ==
  /\ pc[c] = "close"
  /\ state' = IF JobInst(c) \in exists /\ AllTokensCompleted(JobInst(c))
                THEN [state EXCEPT ![JobInst(c)] = "Completed"] ELSE state
  /\ Return(c)
  /\ UNCHANGED <<taskVars, exists, previous, stored, fate, deleting>>

StepFails(c) == pc[c] = "batch" /\ Abort(c)

----------------------------------------------------------------------------
(***************************************************************************)
(* The operator.                                                           *)
(***************************************************************************)
SuspendInstance(i) ==
  /\ i \in exists
  /\ state[i] \notin {"Completed", "Suspended"}
  /\ previous' = [previous EXCEPT ![i] = state[i]]
  /\ state' = [state EXCEPT ![i] = "Suspended"]
  /\ UNCHANGED <<taskVars, exists, stored, fate, deleting, callVars>>

ResumeInstance(i) ==
  /\ i \in exists
  /\ state[i] = "Suspended"
  /\ state' = [state EXCEPT ![i] = previous[i]]
  /\ previous' = [previous EXCEPT ![i] = "Running"]
  /\ UNCHANGED <<taskVars, exists, stored, fate, deleting, callVars>>

\* delete_instance: out of the store first; after the deletes from
\* persistence the queues are purged, unless persistence returned an error.
DeleteInstance(i) ==
  /\ i \in exists
  /\ exists' = exists \ {i}
  /\ deleting' = deleting \cup {i}
  /\ UNCHANGED <<taskVars, state, previous, stored, fate, callVars>>

PurgeQueues(i) ==
  /\ i \in deleting
  /\ deleting' = deleting \ {i}
  /\ pending' = {t \in pending : InstOf[tokenOf[t]] # i}
  /\ UNCHANGED <<created, tokenOf, topic, owner, lease, retries,
                 exists, state, previous, stored, fate, callVars>>

DeleteFails(i) ==
  /\ PersistenceMayFail
  /\ i \in deleting
  /\ deleting' = deleting \ {i}
  /\ UNCHANGED <<taskVars, exists, state, previous, stored, fate, callVars>>

\* Wall-clock time, measured in the time that every lock has left.
Tick ==
  /\ \E t \in Task : lease[t] > 0
  /\ lease' = [t \in Task |-> IF lease[t] > 0 THEN lease[t] - 1 ELSE 0]
  /\ UNCHANGED <<pending, created, tokenOf, topic, owner, retries, instVars, callVars>>

----------------------------------------------------------------------------
WorkerCall ==
  \E w \in Worker :
    \/ \E topics \in SUBSET Topic, d \in 0..MaxLease : FetchAndLock(w, topics, d)
    \/ \E t \in Task : \/ \E d \in 0..MaxLease : ExtendLock(w, t, d)
                       \/ FailTask(w, t)
                       \/ \E c \in Call : \/ CompleteTask(c, w, t)
                                          \/ HandleBpmnError(c, w, t)

OperatorCall ==
  \/ \E t \in Task : RetryIncident(t) \/ \E c \in Call : ResolveIncident(c, t)
  \/ \E i \in Instance : \/ SuspendInstance(i) \/ ResumeInstance(i)
                         \/ DeleteInstance(i)

CallStep(c) ==
  \/ LookupInstance(c) \/ CheckSuspended(c) \/ TakeToken(c) \/ SetRunning(c)
  \/ RouteBpmnError(c) \/ AdvanceToken(c) \/ (\E t \in Task : ParkAtServiceTask(c, t))
  \/ SetWaiting(c) \/ Enqueue(c) \/ EndBranch(c) \/ CloseInstance(c) \/ StepFails(c)

DeleteStep(i) == PurgeQueues(i) \/ DeleteFails(i)

Next ==
  \/ WorkerCall
  \/ OperatorCall
  \/ \E c \in Call : CallStep(c)
  \/ \E i \in Instance : DeleteStep(i)
  \/ Tick

Spec == Init /\ [][Next]_vars

(***************************************************************************)
(* Tokio polls every accepted call until it returns and time passes.  A    *)
(* reliable worker polls all topics with a real lock duration and does not *)
(* forever end its attempts at a task otherwise than by completing it.     *)
(* Nothing is assumed of the other workers or of the operator.             *)
(***************************************************************************)
Fairness ==
  /\ \A c \in Call : WF_vars(CallStep(c))
  /\ WF_vars(Tick)
  /\ \A w \in Reliable :
       /\ WF_vars(\E d \in 1..MaxLease : FetchAndLock(w, Topic, d))
       /\ \A t \in Task : SF_vars(\E c \in Call : CompleteTask(c, w, t))

FairSpec == Spec /\ Fairness

----------------------------------------------------------------------------
(***************************************************************************)
(* Properties.                                                             *)
(***************************************************************************)

\* Every variable has its type.
TypeOK ==
  /\ pending \subseteq Task /\ created \subseteq Task
  /\ tokenOf \in [Task -> Token]
  /\ topic \in [Task -> Topic]
  /\ owner \in [Task -> Worker \cup {NoWorker}]
  /\ lease \in [Task -> 0..MaxLease]
  /\ retries \in [Task -> Int]
  /\ exists \subseteq Instance
  /\ state \in [Instance -> State]
  /\ previous \in [Instance -> State \ {"Completed", "Suspended"}]
  /\ stored \subseteq Token
  /\ fate \in [Token -> Fate]
  /\ deleting \subseteq Instance \ exists
  /\ pc \in [Call -> PC]
  /\ job \in [Call -> Task \cup {NoTask}]
  /\ \A c \in Call : pc[c] = "idle" <=> job[c] = NoTask

\* Calls that hold a task they removed from the queue, and calls about to put
\* the task they created there.
ClaimPC == {"lookup", "check", "take", "route", "takeErr"}
OfferPC == {"wait", "enqueue"}
\* Calls that carry their token, removed from the store, in a local variable.
HandPC  == {"run", "advance", "batch"}

\* Tasks that stand for the right to advance their token.
ActiveTasks == pending \cup {job[c] : c \in {d \in Call : pc[d] \in ClaimPC \cup OfferPC}}
Carriers(k) == {c \in Call : pc[c] \in HandPC /\ JobToken(c) = k}

\* A token is in one place: parked in its instance, in the hands of exactly
\* one call, or gone (ended, or lost with a call that failed).  No two calls
\* carry it, and a carried token is not parked too.
OneTokenOnePlace ==
  \A k \in Token :
    /\ \A c, d \in Carriers(k) : c = d
    /\ Carriers(k) # {} => k \notin stored /\ fate[k] = "live"
    /\ k \in stored => fate[k] \in {"live", "stuck"}
    /\ k \notin stored /\ Carriers(k) = {} => fate[k] \in {"ended", "lost"}

\* No two tasks, queued, claimed by a call or about to be queued, are for the
\* same token, and no two calls hold one task: a token is never advanced
\* twice from one wait state.
OneTaskPerToken ==
  /\ \A t, u \in ActiveTasks : tokenOf[t] = tokenOf[u] => t = u
  /\ \A c, d \in Call : pc[c] # "idle" /\ job[c] = job[d] => c = d
  /\ \A c \in Call : pc[c] # "idle" => job[c] \notin pending

\* A token parked in an instance that has not been deleted can be advanced:
\* some task for it is queued or in a call, unless a worker's bpmnError for
\* its task found no boundary event.
ParkedTokenHasTask ==
  \A k \in stored :
    InstOf[k] \in exists => fate[k] = "stuck" \/ \E t \in ActiveTasks : tokenOf[t] = k

\* A completed instance is quiet: none of its tokens is parked or carried,
\* none of its tasks is active.
CompletedIsQuiet ==
  \A i \in exists : state[i] = "Completed" =>
    /\ \A k \in TokensOf(i) : k \notin stored /\ Carriers(k) = {}
    /\ \A t \in ActiveTasks : InstOf[tokenOf[t]] # i

\* No call, however late it reaches its last critical section, moves an
\* instance out of Completed.
CompletedIsFinal ==
  [][\A i \in exists : state[i] = "Completed" => state'[i] = "Completed"]_state

\* While its lock has not expired a task is not handed to another worker.
UnexpiredLockNotStolen ==
  [][\A t \in pending : lease[t] > 0 /\ t \in pending' =>
       owner'[t] \in {owner[t], NoWorker}]_<<pending, owner>>

\* A worker that hangs stops fetching tasks and extending locks at some point,
\* and the operator stops suspending instances.
HangingWorkersStop ==
  <>[][\A t \in Task : owner'[t] # owner[t] \/ lease'[t] > lease[t] =>
         owner'[t] \in Reliable \cup {NoWorker}]_vars
SuspensionsEnd == <>[](\A i \in Instance : state[i] # "Suspended")

\* A worker that locks a task and is never heard of again does not strand it:
\* the lock expires, another worker gets the task and its token moves on, until
\* it has ended or failed with an error, or its instance is deleted.
EveryTokenMovesOn ==
  HangingWorkersStop /\ SuspensionsEnd =>
    \A k \in Token : <>(fate[k] # "live" \/ InstOf[k] \notin exists)

----------------------------------------------------------------------------
(***************************************************************************)
(* The calls, interleaved in any way, implement one sequential life per    *)
(* token (module TokenLife).                                               *)
(***************************************************************************)
Queued(k)  == \E t \in pending : tokenOf[t] = k
Claimed(k) == \E c \in Call : pc[c] \in ClaimPC /\ JobToken(c) = k
Moving(k)  == \E c \in Call : pc[c] \in HandPC \cup OfferPC /\ JobToken(c) = k
TaskOf(k)  == CHOOSE t \in ActiveTasks : tokenOf[t] = k

lifePhase == [k \in Token |-> IF Queued(k) THEN "open"
                              ELSE IF Claimed(k) THEN "claimed"
                              ELSE IF Moving(k) THEN "moving" ELSE "gone"]
lifeHolder == [k \in Token |-> IF Queued(k) \/ Claimed(k) THEN owner[TaskOf(k)]
                               ELSE NoWorker]
lifeLive == [k \in Token |-> (Queued(k) \/ Claimed(k)) /\ lease[TaskOf(k)] > 0]

Life == INSTANCE TokenLife WITH phase <- lifePhase, holder <- lifeHolder,
                                live <- lifeLive

\* Whatever calls are in flight at once, and whether the instance is suspended
\* or deleted under them, each token is claimed by one call at a time, refused
\* calls give its task back under the same lock, and no token moves twice.
ImplementsTokenLife == Life!Spec
============================================================================
