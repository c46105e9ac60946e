# Formal models of the mini-bpm engine

This directory holds TLA+ specifications of the BPMN engine in `src/`, the TLC
configurations that check them on small instances and TLAPS proofs of what
matters most for every size.  Paths below are relative to the repository
(`src/` is its root); `engine/` is `src/engine-core/src/engine/`.

Check a run with `tlc -config X.cfg Module`, the proofs with `tlapm M.tla` for
each of the proof modules `ServiceTaskProofs`, `TokenEngineProofs`,
`TokenEngineLossProofs`, `WaitStatesProofs`, `CallActivityProofs`,
`PersistenceProofs`, `DefinitionsProofs` and `WorkerProofs`.  `PROJECT.json` lists components, runs, mutants,
the map from definitions to source lines, the hazards and the theorems.

## 1. The system and its components

The engine keeps process instances in memory (`InstanceStore`: a `RwLock` around
a map of `Arc<RwLock<ProcessInstance>>`) and the work that waits for somebody
in four concurrent maps (`DashMap`): pending user tasks, service tasks, timers
and message catches.  Every HTTP request and the timer loop run on their own
Tokio task, on several threads; there is no lock per instance that spans an
operation.  An operation takes a pending entry out of its map, takes the token
out of the instance, runs scripts and conditions, and then runs a *batch*
(`run_instance_batch`): a local queue of tokens that are executed node by node
until each waits, ends or fails.  Between two locks other operations run.

| Component | State | Operations | Interacts by | What makes it correct |
|---|---|---|---|---|
| Service tasks (`engine/service_task.rs`) | pending tasks: topic, owner, lock expiry, retries | fetchAndLock, complete, failure, extendLock, bpmnError, retry/resolve incident | removes tokens from instances, starts batches | a task is ended once; a lock keeps others away until it expires and not longer; a refused call leaves everything as it was |
| Instance lifecycle (`engine/instance_ops.rs`) | instance state, `Suspended{previous}` | suspend, resume, delete, update variables, move token, migrate | changes state under running calls, purges the queues | suspension lasts until resume; delete leaves nothing behind |
| Executor (`engine/executor/`) | batch queue (local), `tokens`, `active_tokens`, `join_barriers` | one step per node, fork, join, complete, error end, terminate | hands tokens to the maps, resumes parent instances | no token duplicated or lost; completed exactly when no token is left; joins fire once |
| Gateways (`engine/gateway.rs`, `handlers/gateways.rs`) | none of their own | choose flows, fork, ask for a join | results of one step | every fork has a join that expects what was forked |
| User tasks (`engine/user_task.rs`) | pending user tasks | complete, with rollback | as service tasks | ended once; a failed completion can be repeated |
| Timers (`engine/timer_processor.rs`) | pending timers | sweep once a second | cancels siblings, moves tokens | a due timer fires once, never while suspended |
| Messages (`engine/message_processor.rs`, `engine/boundary.rs`) | pending catches | correlate | cancels siblings, moves tokens | of the alternatives of an event gateway exactly one fires |
| Call activities (`engine/process_start.rs`) | parent's `WaitingOnCallActivity`, child's parent reference | spawn, complete, propagate error | child's batch continues the parent's | every child that ends continues its parent once |
| Definitions (`engine/definition_ops.rs`, `registry.rs`) | versions by id | deploy, delete | read by every start | versions are distinct and increase |
| Persistence (`engine/persistence_ops.rs`, `retry_queue.rs`, `src/persistence-nats`) | rows per instance, task, timer, catch | save, delete, retry in a FIFO worker, archive | after the in-memory change | a restart resumes every wait state; a deleted row stays deleted |
| Server (`src/engine-server/src`) | long polls, log buffer, files | HTTP endpoints, restore on boot, timer loop | one engine call per request | a poll answers or times out; the log loses nothing |
| Worker client (`src/bpmn-ninja-external-task-client`) | running handlers | poll, extend, complete, retry, stop | HTTP | a handler's result is reported once |
| History (`src/engine-core/src/history`, `record_history_event`) | entries per instance | record a difference, append with retries, query by pages | after every change | replaying the entries gives the instance; paging misses none |
| Parser, scripts, conditions, desktop, orchestrator | none that is shared | pure functions or thin clients | | |

What is hard here: every operation is a sequence of critical sections on
different locks; states read under one lock are used under another; `?`
returns between them; the worker protocol has time-outs; persistence happens
after the fact.  `PROJECT.json` lists each such place under `hazards`.

## 2. Plan

Most important behaviour first; each module gets its MC module, runs and
mutants, and a proof module where it is worth it.

| | Module | State |
|---|---|---|
| 1 | `ServiceTask`, the abstract `TokenLife`, `ServiceTaskProofs` | done, all safety properties and the refinement proved |
| 2 | `TokenEngine`, the abstract `TokenGame`, `JoinSearch`; `TokenEngineProofs`, `TokenEngineLossProofs` | done, proved but for what holds for certain graphs only (`CompletedIsQuiet`, `JoinsAreMet`, the token game); left to model: escalation, multi-instance |
| 3 | `WaitStates`: user tasks, timers, messages, boundary events, event-based gateways; `WaitStatesProofs` | done, all safety properties proved |
| 4 | `CallActivity`: parents and children across batches; `CallActivityProofs` | done, all safety properties proved |
| 5 | `Persistence`: saves, deletes, the retry worker, shutdown, crash and restore; `PersistenceProofs` | done, all four invariants proved |
| 6 | `Definitions`: versions, deletes against starts, restarts; `DefinitionsProofs` | done, all properties proved |
| 7 | `Worker`: the client and the long poll against the task endpoints; `WorkerProofs` | done, all safety properties proved |
| 8 | `History`: differences, late entries, paging | done |

How they compose: every module keeps the state that its own operations fight over
and takes the others as its environment.  `ServiceTask`, `WaitStates`
and `CallActivity` are three views of one instance (what waits in the queue of
workers, what waits for events, what waits for another instance); `TokenEngine`
is the batch all of them start; `Worker` drives `ServiceTask`'s calls from
outside; `Persistence` and `Definitions` say what is left of all that after a
crash.

## 3. What is modelled

### ServiceTask

One step is one critical section: one access to an entry of the `DashMap` or one
scope of the instance's lock.  A call (`Call`) is an HTTP request in flight; `pc`
says which section comes next and `job` is the task it works for.

| State | Code |
|---|---|
| `pending`, `tokenOf`, `topic`, `owner`, `lease`, `retries` | `pending_service_tasks` and the fields of `PendingServiceTask` |
| `exists`, `state`, `previous`, `stored` | the instance store, `ProcessInstance.state`, `Suspended.previous_state`, the keys of `ProcessInstance.tokens` |
| `fate` | `completed` of `active_tokens` ("ended"); "lost" and "stuck" are a history for the properties |
| `deleting` | an instance between `instances.remove` and the purge of the queues |
| `created` | task ids in use, because `Uuid::new_v4` does not repeat |

| Action | Code |
|---|---|
| `FetchAndLock`, `ExtendLock`, `FailTask`, `RetryIncident` | the functions of those names |
| `CompleteTask`, `HandleBpmnError`, `ResolveIncident` | their first section, `remove_if` |
| `LookupInstance`, `CheckSuspended` | the suspension check of `complete_service_task` with the re-insertion |
| `TakeToken`, `SetRunning`, `AdvanceToken`, `RouteBpmnError` | taking the token, the state change, end scripts and the outgoing flow, the search for a boundary error event |
| `ParkAtServiceTask`, `SetWaiting`, `Enqueue` | the batch reaches the next service task |
| `EndBranch`, `CloseInstance`, `StepFails` | the batch reaches an end event, or a step returns an error |
| `SuspendInstance`, `ResumeInstance`, `DeleteInstance`, `PurgeQueues`, `DeleteFails` | the operator |
| `Tick` | time |

Abstractions.  Time is the number of ticks a lock has left, so that a lock with
`lock_expiration <= now` has 0.  `fetch_and_lock_service_tasks` reads the clock once
and locks entry by entry; the model locks the batch in one step, which differs
only in that other calls could run between two entries, each of which is
decided on its own.  Only instances that are already at their wait states are
started with, and between two service tasks no other node is visited: gateways,
user tasks and call activities are in modules of their own.  Scripts,
conditions and the search for a boundary event are a choice of outcomes.
After an end event, `all_tokens_completed` and the assignment of Completed are
one step.  `handle_bpmn_error` reads the definition key and changes the state under two
locks and the model in one.  When an instance is deleted between the existence
check and the store of the token in `handle_service_task`, the token goes into
an instance nobody can reach any more; the model does both at once.
When a call has taken its token it never looks at the lock and the retries of
the task it removed again, so the model resets them (`Forget`), which only
merges equal states.

### TokenLife

What a client may rely on, without calls, queues or locks: a token is open,
claimed by one call, moving, or gone; a refused claim leaves it open under the
same lock; nobody but the holder of an expired or released lock loses it.
`ServiceTask` implements it under the mapping at its end (`ImplementsTokenLife`).

### TokenEngine

One process instance and the batches that run on it.  A batch (`Batch`) is a call of
`run_instance_batch` with its local queue; one step is one scope of the
instance's lock with the local work that leads to it, so that two batches
interleave wherever the code releases the lock.  The process graph is a
constant: `Kind`, `Flow` and the join the engine finds for each fork (`JoinOf`).

| State | Code |
|---|---|
| `at`, `merged`, `born` | `Token.current_node`, `Token.is_merged`; tokens are numbered as they are created |
| `active`, `done` | `ProcessInstance.active_tokens` and the flag `completed` of its entries |
| `parked`, `open` | keys of `ProcessInstance.tokens`; tokens with a pending task |
| `barrier`, `state` | `ProcessInstance.join_barriers`, `ProcessInstance.state` |
| `queue`, `steps` | the `VecDeque` and `step_count` of a batch |
| `hand`, `todo`, `pc` | the token a batch works on, forked tokens still to be registered, the scope that comes next |
| `reported` | how often `run_instance_batch` found the instance completed when it returned (a history) |

| Action | Code |
|---|---|
| `Continue`, `Fork`, `Park`, `EndBranch`, `ArriveAtJoin`, `TerminateTasks` | one iteration of the loop: `execute_step`, the handler and the first scope of `handle_next_action` |
| `RegisterJoinBarrier`, `MarkForked`, `RegisterActiveToken` | `NextAction::ContinueMultiple`, one scope each |
| `LeaveJoin` | the scope after `arrive_at_join` that sets Running and queues the merged token |
| `SetWaiting`, `InsertPending` | `NextAction::WaitForServiceTask` |
| `CheckCompleted`, `CloseInstance` | `all_tokens_completed`, and the assignment of the final state after it |
| `TerminateInstance` | the second half of `NextAction::Terminate` |
| `StepFails`, `AbortRunaway`, `FinishBatch` | the three ways a batch returns |
| `CompleteTask`, `TakeToken`, `ResumeToken` | `complete_service_task` in short; `ServiceTask` has the details |

Abstractions.  Conditions are a choice of flows, scripts may fail at the nodes
of `Fallible`, and the condition of a complex join may hold at any arrival.
"pass" stands for every node that moves its token along one flow; "wait" is a
service task; the other wait states are in `WaitStates` and `CallActivity`.  The instance is neither
suspended nor deleted here (`ServiceTask` covers that), the history and
persistence calls between two scopes are left out, and the two scopes of
`EndBranch` and of `ResumeToken` are one step each, because nothing
reads what lies between them.  `MAX_EXECUTION_STEPS` is the constant `MaxSteps`.
Two flows from one node to one target are excluded by `GraphAssumption`, so `Incoming`
counts nodes.  `Fork` takes the flows in their order, a subsequence given by its
positions; the graph is finite (`FiniteAssumption`).

### TokenGame

The game that a process graph promises: a node consumes a token and produces one on each
flow taken, a join consumes one per incoming flow, an end event consumes its
token, and the process is over only when no token is left.  `TokenEngine`
implements it on block-structured graphs (`PlaysTokenGame`): the tokens of a node are
those in the queues, hands, barriers and the store at that node.

### JoinSearch

`find_downstream_join` step by step, on a graph given as a record.
`MCTokenEngine` uses it to compute `JoinOf`, so that the engine runs with the joins
the code would find; `MCJoinSearch` checks the search on its own.

### WaitStates

The wait states of one instance that an event ends.  A wait (`Wait`) offers
several events (`Offer`), each an entry of a map: a user task with the boundary
events attached to it, a catch event, an event-based gateway with its
alternatives.  One step is one access to a map or one scope of the instance's
lock, as in `ServiceTask`.

| State | Code |
|---|---|
| `pending`, `due` | entries of `pending_user_tasks`, `pending_timers`, `pending_message_catches`, and the timers whose `expires_at` has passed |
| `at`, `parked`, `active`, `fate`, `state`, `previous`, `born` | `ProcessInstance`, as in the modules above |
| `pc`, `job`, `hand`, `list`, `todo` | per call: its next section, the entry it removed, the token it carries, the entries it has collected and not handled, the entries it still inserts |
| `overlap` | a history: two calls were in flight at the same time |
| `early` | a history: tokens taken from the store by an event while their own batch still carried them |
| `stranded` | a history: tokens whose wait was cancelled by an event of their earlier wait |

| Action | Code |
|---|---|
| `CompleteUserTask`, `CheckSuspended`, `TakeUserToken`, `CancelBoundary`, `SetRunningUser`, `RunEndScripts`, `PutBackTask` | `complete_user_task` section by section, with its rollback |
| `ProcessTimers`, `CorrelateMessage`, `NextEntry` | collecting the entries, and taking the next one out of its map |
| `ClearTimers`, `ClearCatches`, `SetRunningTimer`, `TakeToken`, `CloneToken`, `CancelTasks`, `SetRunningMessage` | what a firing timer or message does: cancel the alternatives, set the state, take the token or clone it, cancel the task |
| `ResolveNext`, `ArmBoundary`, `ParkToken`, `SetWaiting`, `InsertPending`, `EndToken`, `CloseInstance`, `StepFails` | the batch until the token waits again or ends |
| `Reschedule`, `BatchReturns` | a recurring timer is inserted again; the call goes on with its list |
| `Expire`, `SuspendInstance`, `ResumeInstance` | time and the operator |

Abstractions.  A list of collected entries is a set handled in any order (the
maps have none).  No node lies between two waits.  `MaxCycle` bounds how often a
recurring timer is rescheduled, `MaxToken` how many tokens its clones make, and a timer
that would make one more does not fall due (`Expire`).  An entry is named by
its event, its token and its cycle and not by a fresh `Uuid`.  When a token has
been taken while its own batch carries it (`early`), there are two copies of it that
go on separately; they would have one name here, so that a behaviour is
followed up to that step (`Next`).

### Persistence

The same waits, seen from the store.  A token goes through the waits of `Route`; the
operation that ends a wait is a *program*: the sequence of its memory steps and
store calls in the order of the source (`LeaveTask`, `LeaveGateway`,
`LeaveByBoundary`, `Enter`, `DeleteProgram`), of which one step runs one.

| State | Code |
|---|---|
| `live`, `at`, `closed`, `pending` | the instance store and the pending maps |
| `saved`, `savedAt`, `savedClosed`, `rows` | the buckets of instances, user and service tasks, timers and messages |
| `ops`, `tries` | what a call has still to do, and the attempts of its store call that failed |
| `queue`, `worker` | the channel of `PersistJob`s and `retry_worker` |
| `running`, `sweeping` | the phase of the process: up, draining requests, flushing, down, crashed; whether the timer loop runs |
| `stray`, `exposed` | histories: rows that were given up after `MAX_RETRIES` or written behind the engine's back, tokens a crash caught between two steps |

| Action | Code |
|---|---|
| `Complete`, `TakeToken`, `ParkToken`, `EndToken`, `Terminate`, `Forget`, `DeleteInstance`, `PurgeEntries` | the memory half of `complete_user_task`, timers, event gateways, terminate and `delete_instance` |
| `Store`, `SkipSave` | a store call with its inline attempts, which ends in success or in a job for the queue; a save that finds its entry gone |
| `SweepRows`, `EraseInstance` | the deletes of `delete_instance` |
| `Receive`, `FindInstance`, `ExecuteJob` | `retry_worker` and `execute_job`, which read the record again before they save it |
| `Signal`, `EndSweep`, `FlushQueue`, `Stop` | the shutdown of `main.rs`: drain the requests, stop the timer loop, flush the queue |
| `Crash`, `Restore` | the process dies; `restore_state` loads the buckets |

Abstractions.  A call that fails may have had its effect.  The repeated save at
the end of a batch is left out, two events of one wait at the same time are in `WaitStates`,
`SweepRows` is one step, and the entries of a new wait get the first number
that nothing uses as their id (`Copy`, up to `MaxCopies`; `Uuid::new_v4` does not repeat).

### CallActivity

A batch that reaches a call activity starts the child inside itself, and the
batch in which a child ends resumes the parent inside itself: a request is a
stack of nested batches (`stack`).

| State | Code |
|---|---|
| `inst` | per instance: definition, `parent_instance_id`, state, the token held in `WaitingOnCallActivity` (`held`) and the child noted there (`sub`), `current_node` (`current`: the branch whose node it is), branches with their nodes; `awaited` is a history |
| `stack` | per request: the nested calls of `run_instance_batch`, each with its queue and its next step; a batch that resumes a parent keeps the token it took (`branch`) and the parent's `current_node` (`called`) |
| `dropped`, `excused` | histories: tokens an error or an overwritten state lost; parents that missed the end of a child |

| Action | Code |
|---|---|
| `StartRoot`, `CompleteTask`, `SuspendInstance`, `ResumeInstance` | requests |
| `ParkAtTask`, `ReachCall`, `EndBranch`, `Report` | the batch and its end, where it looks whether the instance is completed |
| `SpawnChild`, `SpawnFails`, `NoteChild` | `spawn_call_activity`, and writing the child's id into the parent after the child has run |
| `Deliver`, `ResumeFails`, `BecomeIncident`, `ResumeParent`, `Archive` | `resume_parent_if_needed`, with boundary errors and the incident |

`resume_parent_if_needed` goes on from the parent's `current_node`, which need not be
the node of the token that it takes: the end scripts, the boundary error event and the
outgoing flow are those of the node the parent reached last.  `ResumeFails` is the two
ways in which it returns an error: an end script fails (`ScriptFails`, the parent is
over and nobody is told), or no flow leads on (`NoWayOn`, the parent stays Running);
the error then goes down through the nested batches to one that spawned a child, which only
logs it (`Unwound`).

Abstractions.  A process is a set of branches without joins, of which at most one calls
(`ForkAssumption`, a bound: with two the token of one call could go on from the node of the other,
and the branches of the model have no nodes in common).  A call names one
callee (the code takes any version, `executor/next_action.rs:155`).  A child's
variables and its business key are left out.

### Definitions

| State | Code |
|---|---|
| `registered`, `version`, `idOf`, `minted` | `DefinitionRegistry` and the keys handed out |
| `xml` | the object store of BPMN files: the number of a key's last put, 0 when it has none; a restart lists them in this order |
| `live`, `row` | definition key of an instance in memory and in its row |
| `call` | requests in flight |
| `overlapped`, `late`, `revived`, `stored`, `gone`, `kept` | histories for what the properties say and except: `gone` are the definitions whose delete was answered with success, `kept` those whose object the store refused to delete |

`DeployDefinition`, `InsertDefinition`, `SaveXml` are the HTTP handler and
`deploy_definition`; `StartInstance`, `StartInstanceLatest`, `ValidateStart`,
`InsertInstance`, `PersistInstance` a start; `DeleteDefinition`,
`DeleteAllDefinitions`, `DeleteNextDefinition`, `CascadeInstance`, `EraseRow`,
`RemoveDefinition`, `EraseDefinition` a delete with or without cascade;
`DeleteInstance` the operator; `Restart` a crash followed by `restore`.
The bucket "definitions" is written and never read, so only its failures are kept.
`EraseDefinition` has the two ways in which the store fails: an error of the bucket ends
the call, one of the object store is ignored and the call goes on to its success
(`src/persistence-nats/src/trait_impl.rs:136`).

### Worker

The TypeScript client and the server's task endpoints over a network that loses
requests and answers.  One step is what the client does between two awaits, or one request
the server answers; the inside of the engine is `ServiceTask`.

| State | Code |
|---|---|
| `open`, `incident`, `owner`, `lease` | the engine's tasks, as the worker sees them |
| `running`, `current`, `loop` | `running`, `pollLoopPromise` and the poll loops that exist |
| `stopping`, `awaited` | what `stop()` awaits, and the snapshot of `activeHandlers` it took |
| `job` | `activeHandlers`: task, attempt, back-off, and in a client with `autoExtendLock` the timer that extends the lock |
| `spoiled`, `expired`, `restarted` | histories: tasks a request for which was lost; tasks whose lock ran out while a client had them; clients started while they stopped |

`Start`, `Stop`, `LoopEnded`, `HandlersEnded` are `start()` and `stop()`;
`ServeFetch`, `TimeOutFetch` (in `AnswerFetch`), `Dispatch`, `PollFails`, `Awake`
the poll loop with the long poll; `FailAttempt`, `ServeDecision`, `Retry`,
`ServeFailure` a handler with its retries; `ExtendLock` the extension of the lock;
`LoseFetch`, `LoseRequest`, `Crash` the faults; `Tick` time.
The extension is an option of the client, `autoExtendLock`, and off by default
(`ExternalTaskClient.ts:44` and `:344`): the clients that have it are the constant `AutoExtend`, and
the durations are any numbers, since the client compares none of them.  An extension that
comes too late is made all the same while the task has no other owner
(`OwnsLock` does not look at the clock).  A fetch whose answer had been read when `stop()` was
called still starts its handlers (`Stop`).
Abstractions: one topic, hence one lock duration; an extension is made at the tick it is due,
an answer to a fetch takes at most `MaxLatency` ticks and any other request as long as it
likes; one `stop()` at a time.

### History

| State | Code |
|---|---|
| `vars` | `ProcessInstance.variables` |
| `call` | per call: the snapshot it took, the variables it changed, the difference, the entry |
| `entries`, `retrying` | the stored entries in order of arrival, and the jobs `AppendHistoryEntry` of the retry queue |
| `clock` | timestamps handed out |
| `drops` | entries lost: given up, or published and never acknowledged |
| `unsaid` | a history: variables that no entry tells (see section 4) |

`Begin` and `Write` are the snapshot and the change (`update_instance_variables`, a
completion, a batch step), `Record` the difference, `Stamp` the timestamp of
the entry, which is taken after the lock on the instance was released,
`AppendHistoryEntry` the append, `Retry` and `GiveUp` the retry worker, and
`QueryHistory` the query with a filter and a page.  An append that the code takes for
stored may not be: the store answers once the message is published and drops the
acknowledgement (`src/persistence-nats/src/trait_impl.rs:512`; `Store`, `Lose`).
`ResumeParent` and `EndScripts` are an instance that goes on after a call activity:
`CallActivityCompleted` is recorded first and without a difference, then the
variables of the token replace those of the instance, and no later entry compares with
what they were (`engine/process_start.rs:300`).  `Init` has any variables, since
`InstanceStarted` is recorded without a difference too.  `VariableDiff` is
`calculate_diff_from_snapshot` for variables.  Left out: the differences of
state and node, the readable texts, full snapshots, and that a query of the NATS
store stops after 100 ms without a message.

## 4. What the runs show

| Run | Instance | Shows |
|---|---|---|
| `svc_fork` | one instance forked in two branches, 3 tasks, 2 workers, 2 concurrent calls, locks of up to 2 ticks | tokens have one place; a parked token has a task; tasks are exclusive; unexpired locks are not stolen; a completed instance is quiet and stays completed; implements `TokenLife` |
| `svc_live` | one instance, 2 tasks, a reliable and an unreliable worker | a token moves on although a worker may die with its lock |
| `eng_flows` | a process that takes either a parallel fork in a branch of a fork (3 tasks) or an inclusive split with three ends, one with an error; 3 batches | implements `TokenGame`; a completed instance has no token anywhere; no join waits for ever (`JoinsAreMet`) or holds a token per flow (`FullJoinFires`); no registered token is dropped; the process ends and its end is reported |
| `eng_mixed` | a loop, a complex split and join, a terminate event, failing scripts, a step limit of 8, 2 batches | `TypeOK`; a token is never in two places |
| `join_search` | all block-structured graphs with up to 4 levels on one side | a fork finds the join of its own block |
| `wait_states` | a user task with a repeating reminder, which starts a second user task that has an interrupting boundary message; the first one is followed by an event-based gateway with a timer, which repeats although it takes its token along, and the same message; 2 calls, suspension, failing scripts | no token in two places (`Consistent`); a parked token can move (`ParkedTokenCanMove`); no entry but a repeated timer survives its wait (`NoEntryLeftBehind`); due timers fire (`DueTimersFire`); who takes a completed instance back (`CompletedIsFinal`) |
| `persistence` | one instance, two branches, an event-based gateway and a task with a boundary timer, one branch terminating; a request beside the timer loop; three failing store calls and one crash or shutdown | a row nobody works on is what memory says (`StoreFollowsMemory`); a crash leaves no row of a wait that is over (`NoWorkRepeated`); a token that waits can be moved on after a restart (`WaitsCanEnd`) |
| `call_activity` | five roots: a call followed by another whose child fails at once and is caught, a failure that is not caught, a call in a parallel branch, a callee that is not deployed, a chain of three; 2 requests, suspension | no token lost or copied (`Consistent`); no parent waits for a child that is over (`NoWakeUpLost`); callers go on (`CallsReturn`) |
| `worker` | one task, a stable client that extends its locks and one that does not and is stopped, restarted or dies; locks of 4 ticks; one lost message | one handler at a time until a lock runs out, and always for the client that extends (`Consistent`); `stop()` leaves nothing and returns (`StopIsClean`, `StopReturns`); every task is decided (`EveryTaskIsDecided`) |
| `definitions` | one process, 2 keys, two instances, 2 requests, one failing store call, one crash | versions differ (`Consistent`); definitions with instances stay (`InstancesKeepDefinition`); deleted ones do not come back unless the object store refused (`DeletedStaysDeleted`); a restart keeps the order of versions (`RestartKeepsOrder`) |
| `history` | any start variables, 2 of them with a short and a long value, 2 calls, 3 entries, one lost, pages of one entry | replaying the entries gives the variables that an entry tells (`HistoryTellsVariables`); paging misses no stored entry (`PagesMissNothing`) |
| `call_wedge` | the same roots with a persistence attached | a violation: see below |

`Consistent` is the type invariant of a module together with the first statement of the
module about its state: a token in one place, work done by one handler at a time, distinct versions.

Two calls and two branches are enough for every race of two operations on one
token, one task or one instance; a third task lets a token reach a second wait
state while the other branch is still at its first, so that a stale task, an
already ended branch and a new one coexist.  Two workers and a lock of two ticks
let a lock expire, be extended and be taken over.  `MaxTasks = 1` with two tasks
makes the batch of a fetch smaller than what is fetchable.  Retries stop at
`MinRetries`, below which nothing distinguishes them.  Symmetry is used in
`svc_fork`, `eng_mixed`, `definitions` and `history` only, which check no liveness.

The bounds of the executor: `MaxTokens` is the number of tokens the graph can make
(in `eng_mixed`, where a join fires more than once, a cap), `MaxSteps` is more than
any batch needs except in `eng_mixed`, which is about the limit.  Two batches are
every race of two tasks of one instance; `eng_flows` has one per task.

The bounds of the others: in `wait_states` the recurring timer fires and is
rescheduled (`MaxCycle = 1`); its first firing makes the second token (`MaxToken = 2`),
so that two tokens are at different waits and one message may be for both;
the repetition is there as an entry that calls cancel and leave behind.  `persistence` has three failures, as many as it takes to use up the call's attempts
(`InlineRetries = 1`), hand the job to the worker and have it given up there
(`MaxRetries = 1`); the code's further attempts repeat the same steps.
The writes that may fail are those of the instance and of one branch's second wait (`Frail`), since the
rows of the waits are written alike.
`call_activity` starts one root, which makes up to three instances below it, in two
requests, so that two children can end at the same time.  `worker` uses a lock of 4 ticks
with an extension every tick and an answer that takes up to one, and a handler of the client without
extension may outlast it.  `definitions` has two
keys, for two deploys that race or an older version with a newer one, and two instances; `history` three entries:
two that overlap and a later one.

Several properties name what they except, each time by a history variable that the action
which does the damage sets, so that everything else is held to the property:
`overlap` (`WaitStates`: that nothing is left behind is checked for calls one after
the other, because overlapping ones do leave entries behind, see below; that a completed instance is
taken back in no other ways than those the property names is checked for overlapping
ones too), `early` and `stranded` (see `WaitStates` above), `stray` and `exposed`
(`Persistence`: a row that was given up or written behind a delete, a token a crash caught between two
steps), `dropped` and `excused` (`CallActivity`), `overlapped`, `late`, `revived` and `kept`
(`Definitions`), `spoiled`, `expired` and `restarted` (`Worker`), `unsaid` (`History`: the start
variables, those a resumed parent takes over, a change of a call that failed afterwards or that
overlapped with a change of the same variable, and whatever only a lost entry told; a variable
leaves the set when a later entry tells it).  `Repeated` (`WaitStates`) is no history but an entry: a timer
that took its token along and was put back.

`WorkIsExclusive` has two halves.  Of any client: until the lock of a task runs out in its hands, it
has the only handler.  Of a client in `Timely`, which extends and for which the
latency of an answer and the interval together are below the lock duration: it keeps the
lock for good and never runs two handlers for one task.  Nothing is claimed of a handler that outlasts its
lock in a client without extension: the engine gives the task away, to the same
client too (`ExternalTaskClient.ts:239` asks for whatever it can get).  `EveryTaskIsDecided` assumes
that one timely client keeps running: two clients without extension, whose handlers
outlast the lock, may take a task from each other for ever.

*Fairness.*  Tokio polls an accepted request until it returns (`WF` of the steps of
each call), time passes, and in `svc_live` one worker keeps polling all topics and keeps
trying to complete what it holds (the client's poll loop).  A worker that is not
reliable may stop for ever, also with a lock.  That property assumes
that unreliable workers stop fetching at some point and that the operator stops
suspending.  In `eng_flows` every batch is polled until it returns and every open
task is completed at some point.  In `wait_states` the timer loop of `main.rs` starts a
sweep again and again (`SF`: it waits for no other call, while other uses of its
place in `Call` may come in between).  In `call_activity` open tasks are completed
(`SF`, because a suspension may interrupt) and the operator resumes what he suspended.
In `worker` Node runs what is ready, the server answers and handlers end.
Deadlock is not checked where the modelled system may be done: every token has
ended, or the ids of a bound are used up.

### Where the code and its documentation differ

`call_wedge` is the counterexample a run is kept for (`findings`): the error of a
child that no boundary event handles makes an incident of the parent, which is stored
while its write guard is still held; `persist_instance` locks the same instance, so
that the batch waits for itself (`engine/process_start.rs:357`).  The test for this
case runs without a persistence.

The models reach the following behaviour too, for which no run is kept.

Service tasks and the executor:

* A completion that is under way when the instance is suspended overwrites the
  suspension; resume then fails (`engine/service_task.rs:185`;
  `engine/instance_ops.rs:281`: "so that `resume_instance` can restore it").
* A failing end script or condition drops the token and leaves the instance Running
  (`engine/service_task.rs:192`).
* `handle_bpmn_error` and `resolve_incident` do not look at the suspension and
  advance tokens of suspended instances (`engine/instance_ops.rs:280`: "task completions
  are rejected").
* Tasks without retries are handed out by fetchAndLock (`engine/service_task.rs:54`).
* A completion that runs while its suspended instance is deleted puts the task back
  after the purge (`CheckSuspended` after `PurgeQueues`).
* A merged token is in no list of the instance until it waits or forks: another branch
  completes the instance while the token is in the queue (`engine/executor/parallel.rs:164`).
* An inclusive split that takes a single flow registers no barrier, and its join
  waits for a token per incoming flow (`engine/executor/parallel.rs:107`; `src/README.md:117`:
  "Join waits for the expected tokens.").
* A join expects as many tokens as the fork made, also when a branch leads
  elsewhere and never meets it.
* A terminate event reaches neither the store nor the tokens of another batch; a
  batch under way takes the instance out of Completed (`engine/executor/next_action.rs:326`;
  `src/README.md:104`: "immediately aborts all active tokens").
* The end is reported twice, to the parent and to the metrics, when a second batch
  is still on its way out (`engine/executor/mod.rs:175`).
* An error end event that is not the last one leaves no error; when two branches end at
  once both may close the instance, and the later assignment wins.
* The step limit completes the instance without resuming its parent
  (`AbortRunaway` does not report).
* An error in one branch drops the tokens of its siblings in the queue
  (`StepFails`).
* A second fork whose join already holds a token replaces the barrier and the
  token with it (`RegisterJoinBarrier`).

Waits for events (the exceptions of the properties stand for these):

* An event that was taken out of its map before the token moved on takes the token
  from its *next* wait (`src/README.md:118`: "Execution pauses until exactly one of
  the target catch events (timer/message) fires.").  A non-interrupting
  one clears the entries of that wait, so that the token is stuck there (`stranded`).
* A non-interrupting event stores the clone and then lets a batch carry it
  (`engine/timer_processor.rs:147`); when the batch reaches a user task, the
  boundary events of the task are there before the token is stored again
  (`engine/handlers/tasks.rs:20`).  A boundary event that comes in between takes the
  stored copy while the batch keeps its own: the token goes on twice (`early`;
  `src/docs/architecture.md:261`: "Tokens exist in **exactly one place** at any moment in time").
* A clone of a non-interrupting event that ends while a call carries the original
  completes the instance; a firing timer sets Running without looking at
  the state, also over Completed or Suspended; messages do not look at the suspension.
* A recurring timer that takes its token along is rescheduled for this token (`Repeated`)
  (`engine/timer_processor.rs:239`): also without any overlap it stays behind, and when the
  token has ended the next sweep takes the completed instance back to Running; one with a
  number of repetitions repeats for ever as a boundary or catch event
  (`src/engine-core/src/domain/timer.rs:27`).
* A boundary message between the arming of a task's boundary events and the insertion of the task leaves the
  task behind without its token.  `cancel_boundary_*` goes by node and cancels
  events of other tokens at the same node.

Persistence, definitions, workers, calls, history:

* Boundary timers and messages are not stored before the next save of the whole
  and are gone after a crash (`engine/handlers/tasks.rs:22`; `src/README.md:150`: "Timers,
  messages, user/service tasks survive server restarts").
* A restart renumbers versions in the order of the listing; a failed delete of the XML is not reported and
  brings the definition back (`kept`); a start that was validated before a delete leaves an
  instance without definition; a number is used again after the latest version was
  deleted; completed instances block a delete without cascade.
* `start()` during `stop()` leaves a second poll loop
  (`ExternalTaskClient.ts:185`: "Returns once everything is cleaned up"); the lock
  duration of the first topic is used for all; an incident is fetched again at once; when
  the answer to a completion is lost the handler runs again.  Without `autoExtendLock`, the default (`ExternalTaskClient.ts:44`), a handler that
  takes longer than the lock runs again beside itself, in the same client or another.
* A parent is resumed by the late report of an earlier child; a call in a branch of a
  parallel instance is never resumed; a parent whose other branch has gone on meanwhile is continued
  from the node of that branch (`current_node`, `engine/process_start.rs:275`); a callee that is not deployed is only
  logged, and the parent waits for ever; a suspended parent misses the end of its child.
* The history has gaps (`src/README.md:148`: "Gap-free event log with diffs"):
  the variables an instance starts with (`engine/process_start.rs:147`), those a parent has after a
  call activity (`engine/process_start.rs:300`), overlapping calls that change one variable, a failing end
  script, an entry given up after `MAX_RETRIES`, or published and never stored
  (`src/persistence-nats/src/trait_impl.rs:512`); completion and the Waiting states are recorded
  without a difference.  `HistoryTellsVariables` is what remains true, and `unsaid` the list of the gaps.  A late entry is sorted in before what a client has
  read already, and an older entry is shown twice.

## 5. What is proved

Each theorem holds for every value of the constants that satisfies the ASSUMEs
of its module: every number of instances, tokens, tasks, workers and
concurrent calls, and every graph of wait states.  The runs show the same properties on the
instances of section 4.  Each proof has an inductive invariant, `IInv`, with a
lemma per group of actions; TLC checked each invariant before it was proved.

### ServiceTaskProofs

Assumed are the types of the constants, a lock duration of at least one tick,
null values that are no task and no worker, and finitely many tokens
(`FiniteAssumption`, for the cardinalities in the properties).

| Theorem | Property |
|---|---|
| `TypeCorrect` | `TypeOK` |
| `TokensHaveOnePlace` | `OneTokenOnePlace` |
| `TasksAreExclusive` | `OneTaskPerToken` |
| `ParkedTokensHaveTasks` | `ParkedTokenHasTask` |
| `CompletedInstancesAreQuiet` | `CompletedIsQuiet` |
| `CompletedStaysCompleted` | `CompletedIsFinal` |
| `LocksHold` | `UnexpiredLockNotStolen` |
| `TokenLifeImplemented` | `ImplementsTokenLife` |

Neither safety property is inductive: a state in which the token of a queued
task is not parked satisfies them, and completing the task breaks them.
`PlaceInv` adds what each place of a token means: the token of a queued or
claimed task is parked and live, the token of a call in `HandPC` is not parked,
calls and queue never share a token, and every live or stuck token is parked or
carried.  `ParkedTokensHaveTasks` needs the converse, `CompletedInstancesAreQuiet` that
a completed instance has only ended tokens.  `UnexpiredLockNotStolen`
and the refinement are step properties; the refinement reads the abstract token
off the queue and the calls (`Views`), shows that a step changes what is seen
of at most one token, and names the step of `TokenLife` it is.

### TokenEngineProofs

| Theorem | Property |
|---|---|
| `TokensTyped` | `TypeOK` |
| `OnePlaceAlways` | `OneTokenOnePlace` |

Both hold in every finite process graph, structured or not, with any
number of batches, whatever fails and whenever the step limit is hit.  Assumed are the types of
the constants and null values that are no token, node or barrier.

`OneTokenOnePlace` counts places; the invariant gives each batch a set of
tokens of its own (`Local`: its queue, the branches it has still to register, the
token in its hands) and says that these sets, the arrivals at the joins and the store
are pairwise apart (`Apart`), that no batch lists a token twice (`Sorted`), and that
a batch that parks a token or takes one for a task has it in the store without
an open task, alone (`Tasks`).  A step of one batch moves one token out of its
own set (`GiveApart`), brings in tokens that nobody has (`TakeApart`) or only drops
some (`KeepApart`).

### TokenEngineLossProofs

`FullJoinsFire`: `FullJoinFires`, for every graph.  A parallel join never holds a token for
each of its flows, unless a fork with more flows names it as its join (`Wider`): such
a fork registers a barrier that expects more than the join can ever get, and the theorem says
that this is the only way, and by how much the join can fall short.  The graph of `eng_flows` has no such
fork, since its join is never met.  The invariant: a barrier expects more than it has, and
at most the incoming flows of its join or the flows of a fork that names it.

`TokensAreKept`: `TokensKept`, for every behaviour without a step of `LossStep`.  In
an arbitrary graph tokens do get lost; the theorem says that there are
three ways and no other: an error drops the queue of its batch, so does the
step limit, and a fork replaces a barrier at which tokens wait (in a loop that
forks again before its join is met).  In the graph of `eng_flows` none of them happens,
so that the run checks the property as it stands.  The invariant: a token that is
registered and not flagged is in a batch, at a join or in the store
(`Kept`), a batch has nothing left over where the code starts afresh (`Spent`), and
nobody registers a token that has ended (`Ended`).

### WaitStatesProofs

`OneCallGetsTheToken`: `Consistent`, that is, of the completions, timers and messages that
race for a token at most one carries it, and nothing carries a token that
ended or was dropped.  Assumed: the graph is well typed, only timers recur, and
the tokens of the fork are within `MaxToken`.

That a call takes a token only from the store is not enough: a
clone stays in the store while its first batch carries it, and nothing in the
maps says whose it is.  `Sound` adds that a stored token that is carried is such a clone on
its first way (`FirstWay`), and that for a stored token that an error
dropped there is no entry, no collected entry and no call at all (`NoTrace`), so
that nothing picks it up again.

`ParkedTokensMove`: `ParkedTokenCanMove`, with any number of overlapping calls.  "An
entry or a call" is not inductive, since a call that works for a token may do no more
than start a clone of it.  The invariant `Movable` says which of them move the token itself
(`CanMove`): a user task, which is removed only by a completion, which takes the
token or puts the task back, and by a call that has the token; an event of the
gateway or catch event that the token is at; a call that carries the token, is
setting up the wait it is at, or is about to take it (`Minds`).  What the cancellation
of boundary events by node and `clear_wait_states_for_token` remove is none of
these, or the call that removes it takes the token, or the token is `stranded`.
There is a hypothesis, `EventsHaveTheirWait`: a user task is ended by its completion,
only boundary events may leave their activity going on (`timer_processor.rs:116`,
`message_processor.rs:104`), and a boundary event, which is attached to one
activity (`boundary.rs:27`), is not what an event-based gateway leads to
(`definition.rs:170` refuses such a definition).

`NoEntryIsLeft`: `NoEntryLeftBehind`, in every graph, for operations that follow each other.
It says that the three ways of cleaning up (`clear_wait_states_for_token`, `cancel_boundary_*`, the
cancellation of tasks) and the insertions of the handlers fit together: whatever
order the entries are handled in and wherever a call fails, an entry that
remains belongs to the wait of a token in the store, or is a timer that took its token
along and was put back (`Repeated`).  Such a timer comes for its token at any later wait, or in a
completed instance, and the theorem holds for what these calls leave, too.  The invariant
`Orderly` says where each entry stands while the only call in flight is at each of its sections
(`PlacedBy`), what this call has still to clear (`Leftover`), and that only the call of a repeated
timer finds its token elsewhere than at a wait that offers it (`Course`).

`CompletionIsFinal`: `CompletedIsFinal`, in every graph and with any number of
overlapping calls.  The invariant `Closed` says that in a completed instance every token of
`active_tokens` has ended; with `Sound` it follows that a call that carries or is about to clone
such a token does not find its instance completed.  What is left are the
sections that set a state without a token that the check knows, and the property names them.  For operations
that follow each other, `Orderly` adds that the call is that of a repeated timer.

`EventsHaveTheirWait` is a definition of `WaitStates`, and `MCWaitStates` has TLC confirm it for its graph.

### CallActivityProofs

| Theorem | Property |
|---|---|
| `CallTokensHold` | `Consistent`: types, and `OneTokenOnePlace` |
| `CallsAreAnswered` | `NoWakeUpLost` |

They hold for any definitions that call each other, also recursively, any number of requests
and instances, whether or not scripts fail, instances are suspended and a persistence is
attached.  Assumed: every branch of a definition is a non-empty sequence that ends in an end
event (`PlanAssumption`), the types of the bounds, and null values that are no instance, branch or definition; no proof uses
`ForkAssumption`.

`OneTokenOnePlace` counts; the invariant says for each token where it is (`OnePlace`: dropped, parked,
ended, held by the state of its instance, or in one hand) and what the steps need to know to
move it.  Of an instance (`InstOk`): a parked token is at a task, a held one at a
call, and its position lies within the branch.  Of a batch (`FrameOk`): its queue lists each token once
and is empty once it reports or resumes; a batch that resumes has taken a token of the
parent that is at a call.  Below the innermost batch there are only such as started a child or
resumed a parent (`Below`), so that an error that is handed down (`Unwound`) throws away only
batches that carry nothing (`UnwoundHands`), besides the token that `dropped` then names.  Each action takes at most one
batch off a stack and puts at most two on it; what that does to the hands
is shown once (`HandsAfter`).

`NoWakeUpLost` looks only at states without a request in flight.  `WakeInv` says the same of every
state: while its token is held, a parent that missed no end of a child is
about to start one (`Promised`), or its last child is not over, or a batch is on its
way that will find it over and report it (`Coming`).  A step may take away a reason only if it gives
another, releases the token or excuses the parent (`Served`, `Settles`), so
that the actions that change none of it need no more than `Calm`.

### PersistenceProofs

| Theorem | Property |
|---|---|
| `PersistenceTyped` | `TypeOK` |
| `TheStoreFollows` | `StoreFollowsMemory` |
| `NoRepeatedWork` | `NoWorkRepeated` |
| `TokensCanMoveOn` | `WaitsCanEnd` |

They hold for any route of waits, any number of instances, tokens, calls and copies, any
`InlineRetries` and `MaxRetries`, and any failures, crashes and shutdowns.  Assumed are the types
of the constants, a null value that is no job, and that instances, tokens and entries have
different names (`NamesAssumption`).

What a call has still to do is a sequence, and an invariant about what is left of it needs
more than its head.  `Before(x, later)` says for each step what may follow it: an entry leaves its
map before its row is deleted, a deletion concerns the wait that is left and an insertion the one
that begins, an entry is inserted before it is saved, the instance is written last.  A sequence
is `Sound` when each of its steps fits what follows it.  The programs of the source are
sound (`ProgramSound`, `DeleteSound`), and so is what is left of a sound program (`SoundTail`).
`Base` adds that a token is in the hands of one call and that only rows of the kinds that are
stored have jobs (`Shape`), and that in each phase of the shutdown nobody works who has been waited for (`Modes`).

`StoreFollowsMemory` speaks of rows nobody is busy with.  `Stored` says of every row what it means
that somebody is: the row of a stored instance agrees with the memory or its write is due, by
a call or by a job that will find it (`InstanceRows`); the instance of a delete under way is out of the
map (`Deleting`); an entry that is in its map and not in the store is still to be
saved, one that is in the store and not in its map is still to be deleted (`EntryRows`), also when
the job lies behind others in the queue; a row that a delete has been through stays away, since the only save
that could bring it back finds no entry (`Cleared`); and an id of a wait that is to begin is
nowhere else (`Fresh`).  The counterpart on the side of the code is the rule that a job of the queue holds no
content: it saves what the engine has now.

`NoWorkRepeated` compares two rows that different steps write, the place of a token and the
entry of a wait, so the invariant `Waits` orders them through the memory.  An entry is `Kept` as long as it
is in its map, or in the store with no delete queued for it; it is `Present` if it is also due
to be inserted.  While the place of a token may still be written (`Active`: its instance is in
the map, or a call or the worker holds it), everything present belongs to the wait the token is at
or to the next (`NotBefore`); to a single wait as long as no call moves the token (`OneWait`);
a call that is about to move it is about to clear all that is kept of the old wait (`Moved`), even what
the worker saves once more before it leaves its map; and a call that is to take the token at an
entry leaves none of another wait behind (`Taken`).  Hence a write of the instance never stores a place beyond an entry that
is present (`Behind`), which is `NoWorkRepeated` once the row is neither given up nor in the queue.
`WaitsCanEnd` needs the other direction (`Waiting`): a token that waits has a task or a
catch, or one is due to be inserted, or a call is about to move it; a call that fails in
between leaves it at no wait.  Steps of other calls, of the worker, a crash and a restart disturb none of
this for a token they do not expose (`Quiet`): for a restart that is what `Stored` says of
the rows.

### DefinitionsProofs

| Theorem | Property |
|---|---|
| `VersionsToldApart` | `Consistent`: types, and `VersionsDistinct` |
| `DeletedStays` | `DeletedStaysDeleted` |
| `RestartKeepsTheOrder` | `RestartKeepsOrder` |
| `InstancesKeepTheirs` | `InstancesKeepDefinition` |

Assumed are the types of the bounds and null values that are no key and no id:
the theorems hold for any number of deploys, requests, failing calls and
restarts, of which the run has two, two, one and one.

None of the properties is inductive.  The reason why versions
are told apart is an order (`Ordered`): of two versions whose deploys did not
overlap the one that was minted first has the lower number and the earlier object
in the store.  A deploy under way has read a number that no earlier version exceeds,
and no later one is apart from it.  A restart numbers by the order of the store, so the
order survives it; since every key is put once, the numbers in `xml` are bounded by how many
keys were ever stored (`Typing`).  `Lifecycle` says that a key is
inserted before anything else happens to it: a delete never meets a key
that is still to be inserted, and one that removed a definition erases it
while nobody can register it again.

`InstancesKeepDefinition` needs more (`Needed`): an instance and its row never name
two definitions, since otherwise a restart would exchange them; a delete that has looked
knows every instance of its definition, or the instance came in behind its back; a
stored definition that lost its object is not registered, so that a
restart takes no definition that was there; and an instance of a deploy that is
still to store its XML was known when its definition went.

`DeletedStays` covers every failure of the store: a delete that answers an error promises
nothing, a delete that answers success has erased the object or is one of `kept`, whose object the
store refused to delete.  The invariant behind it is that a key in `gone` is not registered, that
nobody is about to insert it or to store its object, and that its object is there
only if it is in `kept`.

### WorkerProofs

| Theorem | Property |
|---|---|
| `HandlersWorkAlone` | `Consistent`: one handler at a time has a task |
| `StopLeavesNothing` | `StopIsClean` |

Assumed: durations and back-off delays are natural numbers (the interval of the extension at
least one tick), `AutoExtend` is a set of clients (`ConfigAssumption`), and there are finitely many
tasks and slots.  Nothing is assumed of how the durations compare or of which clients extend.

That one handler has a task follows from no state of the handlers alone, since the
engine hands out whatever has no valid lock.  Until its lock has run out (`expired`) a task is in
one answer or one slot, whose client has the lock (`Alone`); this is what every client has.  For the
clients in `Timely` the invariant bounds time: while a handler works the time to its next
extension is below what is left of the lock (`Held`); while an answer is on its way the lock has lost no more than the
age of the answer, and outlives the first interval (`Coming`); and a client has a task once
(`Apart`), so that what it starts after somebody else's lock ran out is its only handler.  Tasks
for which a request was lost are excepted (`spoiled`).  For `stop()` the invariant says what
each stage of it has still to wait for (`Tidy`).

### Only model-checked

* Liveness: `EveryTokenMovesOn`, `Completes`, `DueTimersFire`, `CallsReturn`,
  `EveryTaskIsDecided`, `StopReturns` (fairness is outside the prover).
* `CompletedIsQuiet`, `JoinsAreMet` and the refinement of `TokenGame`: they hold
  for the graphs of `eng_flows` and are false for others, so a proof would
  be about the structure of a graph and not about the code.
* `History`, which computes with `FoldLeft` and `SelectSeq`: what those return is an
  induction over data.
* `JoinSearch`, which is recursive.

## 6. Not modelled

* *Administrative operations* (`move_token`, `migrate_instance`, the copies of the variables that
  `update_instance_variables` leaves in the tokens): each reads the instance under one lock and
  writes under another, as the modelled operations do.  Reading them showed that a deleted variable
  stays in the tokens (`engine/instance_ops.rs:243`), that a moved token keeps its barrier, and that a migration
  validates a snapshot and writes later.
* *Guards of the concurrent maps.*  `DashMap` locks whole shards; which keys share one is
  a matter of hashing.  That a guard is held over an await
  (`engine/service_task.rs:276`, `engine/timer_processor.rs:10`) is listed as a
  hazard and not checked.
* *Escalation, compensation, multi-instance, event sub-processes, message and timer start
  events*: the parser produces some of them only, and their handlers add no race that the modelled
  ones do not have.
* *Log buffer*, file upload, statistics, event stream: nothing of the engine's
  state depends on them.
* *Parser, scripts, conditions*: one-shot functions.  Their callers are modelled with
  every outcome.
* *Desktop application, orchestrator, API description, fuzz targets*: no state of
  their own.
