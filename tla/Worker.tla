------------------------------- MODULE Worker -------------------------------
(***************************************************************************)
(* Workers (the TypeScript ExternalTaskClient) against the engine's        *)
(* service-task endpoints, over a network that may lose a request or its   *)
(* answer.  A worker is one event loop: its poll loop fetches and locks    *)
(* tasks and starts a handler for each; every handler is retried with an   *)
(* exponential backoff and reports a failure when the retries are used up; *)
(* in a client with autoExtendLock, which is off by default, a timer       *)
(* extends the lock of its task meanwhile.  start() and stop() may come at *)
(* any time, and the process may die.                                      *)
(*                                                                         *)
(* One step is what happens between two awaits of the client, or one       *)
(* request the server answers.  The inside of the engine is ServiceTask.   *)
(***************************************************************************)
EXTENDS Integers, FiniteSets, FiniteSetsExt, Functions

CONSTANTS
  Task, Worker,
  Unstable,      \* workers that may be stopped or die
  AutoExtend,    \* workers whose client is configured with autoExtendLock
  Loop,          \* poll loops a worker can have at once (start() during stop())
  Slot,          \* bound: handlers a worker runs at once
  MaxTasks,      \* maxTasks of a fetch
  LockDuration,  \* ticks
  ExtendEvery,   \* autoExtendLockInterval, in ticks
  MaxLatency,    \* ticks an answer to a fetch takes at most
  MaxRetries,    \* maxRetries: attempts after the first
  BaseDelay, MaxDelay,  \* the backoff and its cap (30 s), in ticks
  MaxLosses, MaxStarts, MaxCrashes,   \* bounds
  NoWorker, NoTask

ASSUME DurationAssumption ==
  LockDuration \in Nat /\ ExtendEvery \in Nat \ {0} /\ MaxLatency \in Nat
ASSUME ConfigAssumption == AutoExtend \subseteq Worker
ASSUME RetryAssumption ==
  /\ MaxRetries \in Nat /\ BaseDelay \in Nat /\ MaxDelay \in Nat
  /\ \A n \in 0..MaxRetries : BaseDelay * 2 ^ n \in Nat
ASSUME BoundAssumption == MaxLosses \in Nat /\ MaxStarts \in Nat /\ MaxCrashes \in Nat
ASSUME FiniteAssumption == IsFiniteSet(Task) /\ IsFiniteSet(Slot) /\ Loop # {}
ASSUME NullAssumption  == NoWorker \notin Worker /\ NoTask \notin Task

VARIABLES
  open,       \* keys of pending_service_tasks
  incident,   \* tasks with no retries left
  owner,      \* PendingServiceTask.worker_id
  lease,      \* ticks until lock_expiration
  running,    \* the client's running flag
  current,    \* pollLoopPromise
  loop,       \* the poll loops, each with the tasks of the answer on its way
  stopping,   \* what stop() awaits
  awaited,    \* the handlers it awaits: a snapshot of activeHandlers
  job,        \* activeHandlers
  losses, starts, crashes,  \* counters of the bounds
  spoiled,    \* history: tasks some request for which was lost
  expired,    \* history: tasks whose lock ran out while a worker had them
  restarted   \* history: workers that were started while they stopped

serverVars == <<open, incident, owner, lease>>
clientVars == <<running, current, loop, stopping, awaited>>
boundVars  == <<losses, starts, crashes>>
ghostVars  == <<spoiled, expired, restarted>>
vars == <<serverVars, clientVars, job, boundVars, ghostVars>>

NoLoop == [pc |-> "none", got |-> {}, age |-> 0]
NoJob  == [task |-> NoTask, pc |-> "none", attempt |-> 0, extend |-> 0, delay |-> 0]

Init ==
  /\ open = Task /\ incident = {}
  /\ owner = [t \in Task |-> NoWorker] /\ lease = [t \in Task |-> 0]
  /\ running = [w \in Worker |-> FALSE]
  /\ current = [w \in Worker |-> CHOOSE l \in Loop : TRUE]
  /\ loop = [w \in Worker |-> [l \in Loop |-> NoLoop]]
  /\ stopping = [w \in Worker |-> "no"] /\ awaited = [w \in Worker |-> {}]
  /\ job = [w \in Worker |-> [s \in Slot |-> NoJob]]
  /\ losses = 0 /\ starts = 0 /\ crashes = 0
  /\ spoiled = {} /\ expired = {} /\ restarted = {}

----------------------------------------------------------------------------
(***************************************************************************)
(* The engine, as far as the worker sees it.                               *)
(***************************************************************************)
Fetchable == {t \in open : lease[t] = 0}

\* Expiration is not looked at.
OwnsLock(w, t) == t \in open /\ owner[t] = w

Unlocked(t) == /\ owner' = [owner EXCEPT ![t] = NoWorker]
               /\ lease' = [lease EXCEPT ![t] = 0]

----------------------------------------------------------------------------
(***************************************************************************)
(* start, stop and the poll loop.                                          *)
(***************************************************************************)
Idle(w)   == {s \in Slot : job[w][s] = NoJob}
Active(w) == Slot \ Idle(w)
SetLoop(w, l, r)  == loop' = [loop EXCEPT ![w][l] = r]
In(pc)            == [NoLoop EXCEPT !.pc = pc]

Start(w) ==
  /\ ~running[w] /\ starts < MaxStarts
  /\ \E l \in Loop : loop[w][l] = NoLoop
  /\ LET l == CHOOSE l \in Loop : loop[w][l] = NoLoop
     IN SetLoop(w, l, In("fetching")) /\ current' = [current EXCEPT ![w] = l]
  /\ running' = [running EXCEPT ![w] = TRUE]
  /\ starts' = starts + 1
  /\ restarted' = IF stopping[w] # "no" THEN restarted \cup {w} ELSE restarted
  /\ UNCHANGED <<serverVars, stopping, awaited, job, losses, crashes, spoiled, expired>>

\* The abort signal throws in whatever loop awaits a fetch; the request may be
\* served all the same, and an answer that was read by then still gets its
\* handlers.  (Bound: one stop at a time.)
Stop(w) ==
  /\ w \in Unstable /\ running[w] /\ stopping[w] = "no"
  /\ running' = [running EXCEPT ![w] = FALSE]
  /\ \E read \in SUBSET {l \in Loop : loop[w][l].pc = "answered"} :
       loop' = [loop EXCEPT ![w] = [l \in Loop |->
                  IF @[l].pc \in {"fetching", "answered"} /\ l \notin read
                  THEN In("aborted") ELSE @[l]]]
  /\ stopping' = [stopping EXCEPT ![w] = "loop"]
  /\ UNCHANGED <<serverVars, current, awaited, job, boundVars, ghostVars>>

\* Mutant: stop() returns once the poll loop has ended.
LoopEndedOnly(w) ==
  /\ stopping[w] = "loop" /\ loop[w][current[w]] = NoLoop
  /\ stopping' = [stopping EXCEPT ![w] = "no"]
  /\ UNCHANGED <<serverVars, running, current, loop, awaited, job, boundVars, ghostVars>>

\* The handlers that are active when the loop has ended.
LoopEnded(w) ==
  /\ stopping[w] = "loop" /\ loop[w][current[w]] = NoLoop
  /\ stopping' = [stopping EXCEPT ![w] = "handlers"]
  /\ awaited' = [awaited EXCEPT ![w] = Active(w)]
  /\ UNCHANGED <<serverVars, running, current, loop, job, boundVars, ghostVars>>

HandlersEnded(w) ==
  /\ stopping[w] = "handlers" /\ awaited[w] = {}
  /\ stopping' = [stopping EXCEPT ![w] = "no"]
  /\ UNCHANGED <<serverVars, running, current, loop, awaited, job, boundVars, ghostVars>>

\* A long poll: the server answers once it has locked something ...  A lock of
\* no length is over at once.  (Bound: a worker has slots for what it is sent.)
ServeFetch(w, l) ==
  /\ loop[w][l].pc \in {"fetching", "aborted"}
  /\ \E got \in SUBSET Fetchable :
       /\ got # {} /\ Cardinality(got) <= MaxTasks
       /\ Cardinality(got) = MaxTasks \/ got = Fetchable
       /\ owner' = [t \in Task |-> IF t \in got THEN w ELSE owner[t]]
       /\ lease' = [t \in Task |-> IF t \in got THEN LockDuration ELSE lease[t]]
       /\ IF loop[w][l].pc = "fetching"
          THEN /\ MaxTasks * Cardinality({k \in Loop : k = l \/ loop[w][k].got # {}})
                    <= Cardinality(Idle(w))
               /\ SetLoop(w, l, [pc |-> "answered", got |-> got, age |-> 0])
          ELSE UNCHANGED loop
       /\ expired' = IF LockDuration = 0 THEN expired \cup got ELSE expired
  /\ UNCHANGED <<open, incident, running, current, stopping, awaited, job, boundVars,
                 spoiled, restarted>>

\* ... or with nothing when asyncResponseTimeout is over.
TimeOutFetch(w, l) ==
  /\ loop[w][l].pc = "fetching" /\ Fetchable = {}
  /\ SetLoop(w, l, [NoLoop EXCEPT !.pc = "answered"])
  /\ UNCHANGED <<serverVars, running, current, stopping, awaited, job, boundVars, ghostVars>>

\* The end of an iteration: sleep, or leave the loop.
NextPoll(w, l) == SetLoop(w, l, IF running[w] THEN In("sleeping") ELSE NoLoop)

\* The timer that extends the lock is set only if the configuration says so.
NewJob(w, t) ==
  [NoJob EXCEPT !.task = t, !.pc = "run", !.attempt = 1,
                !.extend = IF w \in AutoExtend THEN ExtendEvery ELSE 0]

\* Every task of the answer gets its handler.
Dispatch(w, l) ==
  /\ loop[w][l].pc = "answered"
  /\ LET got == loop[w][l].got
     IN /\ Cardinality(got) <= Cardinality(Idle(w))
        /\ LET slot == CHOOSE f \in [got -> Idle(w)] : IsInjective(f)
           IN job' = [job EXCEPT ![w] = [s \in Slot |->
                        IF s \in Range(slot) THEN NewJob(w, Inverse(slot, got, {s})[s]) ELSE @[s]]]
  /\ NextPoll(w, l)
  /\ UNCHANGED <<serverVars, running, current, stopping, awaited, boundVars, ghostVars>>

\* fetch throws: the loop ends if the client was stopped, or goes on.
PollFails(w, l) ==
  /\ loop[w][l].pc = "aborted"
  /\ NextPoll(w, l)
  /\ UNCHANGED <<serverVars, running, current, stopping, awaited, job, boundVars, ghostVars>>

Awake(w, l) ==
  /\ loop[w][l].pc = "sleeping"
  /\ SetLoop(w, l, IF running[w] THEN In("fetching") ELSE NoLoop)
  /\ UNCHANGED <<serverVars, running, current, stopping, awaited, job, boundVars, ghostVars>>

----------------------------------------------------------------------------
(***************************************************************************)
(* executeHandler with withRetry; the requests of TaskService.             *)
(***************************************************************************)
InJob(w, s, pc) == job[w][s].pc = pc
SetJob(w, s, r) == job' = [job EXCEPT ![w][s] = r]

\* Mutant: the exponent is the number of the attempt, and there is no cap.
BackoffUncapped(attempt) == BaseDelay * 2 ^ attempt

\* Math.min(baseDelay * Math.pow(2, attempt - 1), 30_000)
CalculateBackoff(attempt) == Min({BaseDelay * 2 ^ (attempt - 1), MaxDelay})

\* Mutant: the promise does not settle.
EndJobUnsettled(w, s) == SetJob(w, s, NoJob) /\ UNCHANGED awaited

\* The extension timer is cleared and the promise leaves activeHandlers.
EndJob(w, s) ==
  /\ SetJob(w, s, NoJob)
  /\ awaited' = [awaited EXCEPT ![w] = @ \ {s}]

\* Mutant: no failure is reported.
HandlerThrowsSilently(w, s) ==
  IF job[w][s].attempt <= MaxRetries
  THEN /\ SetJob(w, s, [job[w][s] EXCEPT !.pc = "backoff",
                                         !.delay = CalculateBackoff(job[w][s].attempt)])
       /\ UNCHANGED awaited
  ELSE EndJob(w, s)

HandlerThrows(w, s) ==
  /\ SetJob(w, s,
       IF job[w][s].attempt <= MaxRetries
       THEN [job[w][s] EXCEPT !.pc = "backoff",
                              !.delay = CalculateBackoff(job[w][s].attempt)]
       ELSE [job[w][s] EXCEPT !.pc = "failure"])
  /\ UNCHANGED awaited

\* The handler throws before it sends complete() or bpmnError().
FailAttempt(w, s) ==
  /\ InJob(w, s, "run")
  /\ HandlerThrows(w, s)
  /\ UNCHANGED <<serverVars, running, current, loop, stopping, boundVars, ghostVars>>

\* It may work as long as it likes, and the request be on its way, before the
\* engine answers.  A refusal throws in the handler, whose next attempt does
\* everything again.  (An answer that is not lost arrives with its effect.)
ServeDecision(w, s) ==
  /\ InJob(w, s, "run")
  /\ LET t == job[w][s].task
     IN IF OwnsLock(w, t)
        THEN open' = open \ {t} /\ Unlocked(t) /\ EndJob(w, s)
        ELSE HandlerThrows(w, s) /\ UNCHANGED <<open, owner, lease>>
  /\ UNCHANGED <<incident, running, current, loop, stopping, boundVars, ghostVars>>

Retry(w, s) ==
  /\ InJob(w, s, "backoff") /\ job[w][s].delay = 0
  /\ SetJob(w, s, [job[w][s] EXCEPT !.pc = "run", !.attempt = @ + 1])
  /\ UNCHANGED <<serverVars, clientVars, boundVars, ghostVars>>

\* failure(..., 0): the lock is released, no retries are left.  A refusal is
\* only logged.
Report(w, t) ==
  /\ IF OwnsLock(w, t)
     THEN incident' = incident \cup {t} /\ Unlocked(t)
     ELSE UNCHANGED <<incident, owner, lease>>
  /\ UNCHANGED open

ServeFailure(w, s) ==
  /\ InJob(w, s, "failure")
  /\ Report(w, job[w][s].task)
  /\ EndJob(w, s)
  /\ UNCHANGED <<running, current, loop, stopping, boundVars, ghostVars>>

\* Mutant: the timer does not run during the backoff.
ExtendDueInAttempt(w, s) ==
  w \in AutoExtend /\ job[w][s] # NoJob /\ job[w][s].extend = 0 /\ ~InJob(w, s, "backoff")

ExtendDue(w, s) == w \in AutoExtend /\ job[w][s] # NoJob /\ job[w][s].extend = 0

ExtendLock(w, s) ==
  /\ ExtendDue(w, s)
  /\ SetJob(w, s, [job[w][s] EXCEPT !.extend = ExtendEvery])
  /\ lease' = [t \in Task |-> IF t = job[w][s].task /\ OwnsLock(w, t)
                              THEN LockDuration ELSE lease[t]]
  /\ UNCHANGED <<open, incident, owner, clientVars, boundVars, ghostVars>>

----------------------------------------------------------------------------
(***************************************************************************)
(* Losses, the death of a worker, time.                                    *)
(***************************************************************************)
Lost(tasks) == /\ losses < MaxLosses
               /\ losses' = losses + 1
               /\ spoiled' = spoiled \cup tasks
               /\ UNCHANGED <<starts, crashes, expired, restarted>>

\* The fetch, or its answer with tasks that are locked by now.
LoseFetch(w, l) ==
  /\ loop[w][l].pc \in {"fetching", "answered"}
  /\ NextPoll(w, l)
  /\ Lost({})
  /\ UNCHANGED <<serverVars, running, current, stopping, awaited, job>>

\* A request of a handler, or the answer to it: the client sees an error.
LoseRequest(w, s) ==
  /\ LET t == job[w][s].task
     IN \/ /\ InJob(w, s, "run")
           /\ HandlerThrows(w, s)
           /\ \/ UNCHANGED serverVars
              \/ OwnsLock(w, t) /\ open' = open \ {t} /\ Unlocked(t) /\ UNCHANGED incident
        \/ InJob(w, s, "failure") /\ EndJob(w, s) /\ UNCHANGED serverVars
        \/ /\ ExtendDue(w, s)
           /\ SetJob(w, s, [job[w][s] EXCEPT !.extend = ExtendEvery])
           /\ UNCHANGED <<awaited, serverVars>>
  /\ Lost({job[w][s].task})
  /\ UNCHANGED <<running, current, loop, stopping>>

Crash(w) ==
  /\ w \in Unstable /\ running[w] /\ crashes < MaxCrashes
  /\ crashes' = crashes + 1
  /\ running' = [running EXCEPT ![w] = FALSE]
  /\ loop' = [loop EXCEPT ![w] = [l \in Loop |-> NoLoop]]
  /\ job' = [job EXCEPT ![w] = [s \in Slot |-> NoJob]]
  /\ stopping' = [stopping EXCEPT ![w] = "no"] /\ awaited' = [awaited EXCEPT ![w] = {}]
  /\ restarted' = restarted \ {w}
  /\ UNCHANGED <<serverVars, current, losses, starts, spoiled, expired>>

Jobs(t) == {p \in Worker \X Slot : job[p[1]][p[2]].task = t}

\* A handler works for the task, or will when an answer arrives.
InHands(t) == Jobs(t) # {} \/ \E w \in Worker, l \in Loop : t \in loop[w][l].got

\* An extension is made when it is due, and an answer to a fetch takes
\* MaxLatency ticks at most; everything else may take as long as it likes.
Tick ==
  /\ \A w \in Worker : /\ \A s \in Slot : ~ExtendDue(w, s)
                       /\ \A l \in Loop : loop[w][l].got # {} => loop[w][l].age < MaxLatency
  /\ lease' = [t \in Task |-> IF lease[t] = 0 THEN 0 ELSE lease[t] - 1]
  /\ loop' = [w \in Worker |-> [l \in Loop |->
                IF loop[w][l].got = {} THEN loop[w][l] ELSE [loop[w][l] EXCEPT !.age = @ + 1]]]
  /\ job' = [w \in Worker |-> [s \in Slot |->
               IF job[w][s] = NoJob THEN NoJob
               ELSE [job[w][s] EXCEPT !.extend = IF @ = 0 THEN 0 ELSE @ - 1,
                                      !.delay = IF @ = 0 THEN 0 ELSE @ - 1]]]
  /\ expired' = expired \cup {t \in Task : lease[t] = 1 /\ InHands(t)}
  /\ UNCHANGED <<open, incident, owner, running, current, stopping, awaited,
                 boundVars, spoiled, restarted>>

----------------------------------------------------------------------------
AnswerFetch(w, l) == ServeFetch(w, l) \/ TimeOutFetch(w, l)
LoopStep(w, l) == Dispatch(w, l) \/ PollFails(w, l) \/ Awake(w, l)
JobStep(w, s)  == FailAttempt(w, s) \/ ServeDecision(w, s) \/ Retry(w, s) \/ ServeFailure(w, s)
StopStep(w)    == LoopEnded(w) \/ HandlersEnded(w)

Next ==
  \/ \E w \in Worker :
       \/ Start(w) \/ Stop(w) \/ StopStep(w) \/ Crash(w)
       \/ \E l \in Loop : AnswerFetch(w, l) \/ LoopStep(w, l) \/ LoseFetch(w, l)
       \/ \E s \in Slot : JobStep(w, s) \/ ExtendLock(w, s) \/ LoseRequest(w, s)
  \/ Tick

Spec == Init /\ [][Next]_vars

\* Node runs what is ready, the server answers, handlers come to an end.
Fairness ==
  /\ WF_vars(Tick)
  /\ \A w \in Worker :
       /\ WF_vars(StopStep(w))
       /\ \A l \in Loop : WF_vars(AnswerFetch(w, l)) /\ WF_vars(LoopStep(w, l))
       /\ \A s \in Slot : WF_vars(JobStep(w, s)) /\ WF_vars(ExtendLock(w, s))

FairSpec == Spec /\ Fairness

----------------------------------------------------------------------------
(***************************************************************************)
(* Properties.                                                             *)
(***************************************************************************)

\* Every variable has its type; a worker never runs more handlers than slots.
TypeOK ==
  /\ open \subseteq Task /\ incident \subseteq Task
  /\ owner \in [Task -> Worker \cup {NoWorker}] /\ lease \in [Task -> 0..LockDuration]
  /\ running \in [Worker -> BOOLEAN] /\ current \in [Worker -> Loop]
  /\ loop \in [Worker -> [Loop ->
       [pc : {"none", "fetching", "answered", "aborted", "sleeping"},
        got : SUBSET Task, age : 0..MaxLatency]]]
  /\ stopping \in [Worker -> {"no", "loop", "handlers"}]
  /\ awaited \in [Worker -> SUBSET Slot]
  /\ job \in [Worker -> [Slot ->
       [task : Task \cup {NoTask},
        pc : {"none", "run", "backoff", "failure"},
        attempt : 0..(MaxRetries + 1), extend : 0..ExtendEvery, delay : 0..MaxDelay]]]
  /\ losses \in 0..MaxLosses /\ starts \in 0..MaxStarts /\ crashes \in 0..MaxCrashes
  /\ spoiled \subseteq Task /\ expired \subseteq Task /\ restarted \subseteq Worker

\* The workers that extend a lock before it can run out: autoExtendLock is set,
\* and the way of an answer and the first interval together are shorter than the
\* lock.  The client checks neither.
Timely == IF MaxLatency + ExtendEvery < LockDuration THEN AutoExtend ELSE {}

\* Unless a request for the task was lost: while its lock does not run out in a
\* worker's hands, one handler at most works for it, and has the lock.  A timely
\* worker keeps the lock through all attempts of its handler and the waits between
\* them, and starts no second handler for the task, whatever the others do.
WorkIsExclusive ==
  \A t \in open \ spoiled :
    /\ t \notin expired => /\ Cardinality(Jobs(t)) <= 1
                           /\ \A p \in Jobs(t) : owner[t] = p[1] /\ lease[t] > 0
    /\ \A p \in Jobs(t) : p[1] \in Timely =>
         /\ owner[t] = p[1] /\ lease[t] > 0
         /\ \A q \in Jobs(t) \ {p} : q[1] # p[1]

\* The types hold, and no task is worked on twice before its lock runs out.
Consistent == TypeOK /\ WorkIsExclusive

\* When stop() has returned, no poll loop and no handler is left behind,
\* unless start() was called while it waited.
StopIsClean ==
  \A w \in Worker \ restarted : ~running[w] /\ stopping[w] = "no" =>
    /\ \A l \in Loop : loop[w][l] = NoLoop
    /\ Active(w) = {}

\* Every task is completed or becomes an incident, although requests and
\* answers are lost, locks run out and workers stop or die, if one worker that
\* extends its locks in time keeps running.
EveryTaskIsDecided ==
  (\E w \in Timely : <>[]running[w]) =>
    \A t \in Task : <>(t \notin open \/ t \in incident)

\* stop() comes to an end, unless the client is started again under it.
StopReturns ==
  \A w \in Worker : stopping[w] # "no" ~> (stopping[w] = "no" \/ w \in restarted)
=============================================================================
