------------------------------ MODULE WorkerProofs ------------------------------
(***************************************************************************)
(* Proofs about Worker, for any number of workers, tasks and handlers.     *)
(***************************************************************************)
EXTENDS Worker, FiniteSetTheorems, TLAPS

LoopRec == [pc : {"none", "fetching", "answered", "aborted", "sleeping"},
            got : SUBSET Task, age : 0..MaxLatency]
JobPC   == {"run", "backoff", "failure"}
JobRec  == [task : Task \cup {NoTask}, pc : {"none"} \cup JobPC,
            attempt : 0..(MaxRetries + 1), extend : 0..ExtendEvery, delay : 0..MaxDelay]

(***************************************************************************)
(* The inductive invariant.                                                *)
(***************************************************************************)

\* A slot is empty or has a task in one of its attempts; only an answer has tasks.
FormedJob(j) ==
  \/ j = NoJob
  \/ /\ j.task \in Task /\ j.pc \in JobPC /\ j.attempt >= 1
     /\ j.pc = "backoff" => j.attempt <= MaxRetries

Formed ==
  /\ \A w \in Worker, s \in Slot : FormedJob(job[w][s])
  /\ \A w \in Worker, l \in Loop : loop[w][l].pc # "answered" => loop[w][l].got = {}

\* The lock of a timely worker outlives its next extension.
Held(t) ==
  \A w \in Timely, s \in Slot :
    job[w][s].task = t => owner[t] = w /\ job[w][s].extend < lease[t]

\* It outlives the way of the answer, and the first extension.
Coming(t) ==
  \A w \in Timely, l \in Loop :
    t \in loop[w][l].got => owner[t] = w /\ LockDuration - loop[w][l].age <= lease[t]

\* A worker has a task in one answer on its way or in one slot.
OneHand(w, t) ==
  /\ \A s, u \in Slot : job[w][s].task = t /\ job[w][u].task = t => s = u
  /\ \A k, l \in Loop : t \in loop[w][k].got /\ t \in loop[w][l].got => k = l
  /\ \A s \in Slot, l \in Loop : ~(job[w][s].task = t /\ t \in loop[w][l].got)

Apart(t) == \A w \in Timely : OneHand(w, t)

\* Whoever has a task has its lock, and has it once.
Alone(t) ==
  \A w \in Worker :
    /\ \A s \in Slot : job[w][s].task = t => owner[t] = w /\ lease[t] > 0
    /\ \A l \in Loop : t \in loop[w][l].got => owner[t] = w /\ lease[t] > 0
    /\ OneHand(w, t)

\* Alone holds until a lock runs out, the rest for ever.
Exclusive(t) == /\ Held(t) /\ Coming(t) /\ Apart(t)
                /\ t \notin expired => Alone(t)

\* What stop() has still to wait for.
Tidy(w) ==
  /\ running[w] => stopping[w] = "no"
  /\ \A l \in Loop : loop[w][l] # NoLoop => (running[w] \/ stopping[w] = "loop") /\ l = current[w]
  /\ ~running[w] /\ stopping[w] = "no" => \A s \in Slot : job[w][s] = NoJob
  /\ stopping[w] = "handlers" => \A s \in Slot \ awaited[w] : job[w][s] = NoJob

IInv ==
  /\ TypeOK /\ Formed
  /\ \A t \in open \ spoiled : Exclusive(t)
  /\ \A w \in Worker \ restarted : Tidy(w)

----------------------------------------------------------------------------
USE DEF serverVars, clientVars, boundVars, ghostVars

\* Only a client with the extension turned on is timely, and only if the durations fit.
LEMMA TimelyWorker == /\ Timely \subseteq AutoExtend /\ Timely \subseteq Worker
                      /\ Timely # {} => MaxLatency + ExtendEvery < LockDuration
                      /\ MaxLatency + ExtendEvery < LockDuration => Timely = AutoExtend
  BY ConfigAssumption DEF Timely

\* No slot and no loop.
LEMMA Empty == /\ NoJob \in JobRec /\ NoLoop \in LoopRec
               /\ NoJob.task = NoTask /\ NoJob.pc = "none"
               /\ NoLoop.got = {} /\ NoLoop.pc = "none"
               /\ \A pc \in {"none", "fetching", "answered", "aborted", "sleeping"} :
                    In(pc) \in LoopRec /\ In(pc).got = {} /\ In(pc).pc = pc
  BY RetryAssumption, DurationAssumption DEF NoJob, NoLoop, JobRec, LoopRec, In, JobPC

\* The fields of a job and of a loop.
LEMMA Fields ==
  /\ \A j \in JobRec : /\ j.task \in Task \cup {NoTask} /\ j.pc \in {"none"} \cup JobPC
                       /\ j.attempt \in 0..(MaxRetries + 1) /\ j.extend \in 0..ExtendEvery
                       /\ j.delay \in 0..MaxDelay
  /\ \A r \in LoopRec : r.got \subseteq Task /\ r.age \in 0..MaxLatency
  BY DEF JobRec, LoopRec

\* The types, with names for those of the two tables.
Typed ==
  /\ open \subseteq Task /\ incident \subseteq Task
  /\ owner \in [Task -> Worker \cup {NoWorker}] /\ lease \in [Task -> 0..LockDuration]
  /\ running \in [Worker -> BOOLEAN] /\ current \in [Worker -> Loop]
  /\ loop \in [Worker -> [Loop -> LoopRec]]
  /\ stopping \in [Worker -> {"no", "loop", "handlers"}]
  /\ awaited \in [Worker -> SUBSET Slot]
  /\ job \in [Worker -> [Slot -> JobRec]]
  /\ losses \in 0..MaxLosses /\ starts \in 0..MaxStarts /\ crashes \in 0..MaxCrashes
  /\ spoiled \subseteq Task /\ expired \subseteq Task /\ restarted \subseteq Worker

\* They are those of TypeOK, in this state and in the next.
LEMMA Tables == (TypeOK <=> Typed) /\ (TypeOK' <=> Typed')
<1>1. {"none"} \cup JobPC = {"none", "run", "backoff", "failure"}
  BY DEF JobPC
<1> QED  BY <1>1 DEF TypeOK, Typed, JobRec, LoopRec

\* At the start every slot and every loop is empty.
LEMMA InitIInv == Init => IInv
<1> SUFFICES ASSUME Init PROVE IInv
  OBVIOUS
<1>1. TypeOK
  BY Tables, Empty, BoundAssumption, DurationAssumption, FiniteAssumption DEF Init, Typed
<1>2. Formed
  BY Empty DEF Init, Formed, FormedJob
<1>3. \A t \in Task : Exclusive(t)
  BY Empty, NullAssumption, TimelyWorker DEF Init, Exclusive, Held, Coming, Apart, OneHand, Alone
<1>4. \A w \in Worker : Tidy(w)
  BY DEF Init, Tidy
<1> QED  BY <1>1, <1>2, <1>3, <1>4 DEF IInv, Init

\* One slot of the table changes.
LEMMA SlotSet ==
  ASSUME TypeOK, NEW w \in Worker, NEW s \in Slot, NEW r \in JobRec, SetJob(w, s, r)
  PROVE  /\ job' \in [Worker -> [Slot -> JobRec]]
         /\ job'[w][s] = r
         /\ \A v \in Worker, u \in Slot : v # w \/ u # s => job'[v][u] = job[v][u]
<1> job \in [Worker -> [Slot -> JobRec]]
  BY Tables DEF Typed
<1> QED  BY DEF SetJob

\* One loop of the table changes.
LEMMA LoopSet ==
  ASSUME TypeOK, NEW w \in Worker, NEW l \in Loop, NEW r \in LoopRec, SetLoop(w, l, r)
  PROVE  /\ loop' \in [Worker -> [Loop -> LoopRec]]
         /\ loop'[w][l] = r
         /\ \A v \in Worker, k \in Loop : v # w \/ k # l => loop'[v][k] = loop[v][k]
<1> loop \in [Worker -> [Loop -> LoopRec]]
  BY Tables DEF Typed
<1> QED  BY DEF SetLoop

\* A delay is a number of ticks up to the cap.
LEMMA BackoffTyped == \A n \in 1..(MaxRetries + 1) : n <= MaxRetries => CalculateBackoff(n) \in 0..MaxDelay
<1> SUFFICES ASSUME NEW n \in 1..(MaxRetries + 1), n <= MaxRetries PROVE CalculateBackoff(n) \in 0..MaxDelay
  OBVIOUS
<1> DEFINE d == BaseDelay * 2 ^ (n - 1)
<1>1. d \in Nat
  BY RetryAssumption
<1>2. Min({d, MaxDelay}) \in 0..MaxDelay
  <2> HIDE DEF d
  <2>1. \E x \in {d, MaxDelay} : \A y \in {d, MaxDelay} : x <= y
    BY <1>1, RetryAssumption
  <2> QED  BY <1>1, <2>1, RetryAssumption DEF Min
<1> QED  BY <1>2 DEF CalculateBackoff

\* There is an injection into a finite set that is not smaller.
LEMMA InjectionExists ==
  ASSUME NEW S, NEW T, IsFiniteSet(S), IsFiniteSet(T), Cardinality(S) <= Cardinality(T)
  PROVE  \E f \in [S -> T] : IsInjective(f)
<1> DEFINE m == Cardinality(S)
           n == Cardinality(T)
<1>1. m \in Nat /\ n \in Nat /\ m <= n
  BY FS_CardinalityType
<1>2. PICK b \in [1..m -> S] : \A x \in S : \E i \in 1..m : b[i] = x
  BY FS_CardinalityType DEF ExistsBijection, Bijection, Surjection
<1>3. PICK g \in [1..n -> T] : \A i, j \in 1..n : g[i] = g[j] => i = j
  BY FS_CardinalityType DEF ExistsBijection, Bijection, Injection, IsInjective
<1> HIDE DEF m, n
<1> DEFINE index(x) == CHOOSE i \in 1..m : b[i] = x
           f == [x \in S |-> g[index(x)]]
<1>4. \A x \in S : index(x) \in 1..m /\ b[index(x)] = x /\ index(x) \in 1..n
  BY <1>1, <1>2
<1> HIDE DEF index
<1>5. f \in [S -> T] /\ \A x, y \in S : f[x] = f[y] => x = y
  BY <1>3, <1>4
<1> QED  BY <1>5 DEF IsInjective

\* Where the owner and the lease of a task stay, and nobody gets it, it stays exclusive.
LEMMA StaysExclusive ==
  ASSUME NEW t, Exclusive(t), owner'[t] = owner[t], lease'[t] = lease[t],
         t \in expired => t \in expired',
         \A w \in Worker, s \in Slot :
           job'[w][s].task = t => job[w][s].task = t /\ job'[w][s].extend = job[w][s].extend,
         \A w \in Worker, l \in Loop :
           t \in loop'[w][l].got => t \in loop[w][l].got /\ loop'[w][l].age = loop[w][l].age
  PROVE  Exclusive(t)'
<1>1. Held(t)' /\ Coming(t)' /\ Apart(t)'
  BY TimelyWorker DEF Exclusive, Held, Coming, Apart, OneHand
<1>2. t \notin expired' => Alone(t)'
  BY DEF Exclusive, Alone, OneHand
<1> QED  BY <1>1, <1>2 DEF Exclusive

\* A handler goes on with its task, or leaves its slot.
GoesOn(w, s, r) ==
  /\ SetJob(w, s, r) /\ FormedJob(r)
  /\ job[w][s] # NoJob
  /\ \/ r = NoJob /\ awaited' = [awaited EXCEPT ![w] = @ \ {s}]
     \/ r.task = job[w][s].task /\ r.extend = job[w][s].extend /\ UNCHANGED awaited
  /\ UNCHANGED <<running, current, loop, stopping, expired, restarted>>

\* All that such a step changes is the slot, and what stop() waits for.
LEMMA SlotStep ==
  ASSUME IInv, NEW w \in Worker, NEW s \in Slot, NEW r \in JobRec, GoesOn(w, s, r)
  PROVE  /\ job' \in [Worker -> [Slot -> JobRec]] /\ awaited' \in [Worker -> SUBSET Slot]
         /\ Formed'
         /\ \A v \in Worker \ restarted' : Tidy(v)'
         /\ \A t \in open \ spoiled :
              owner'[t] = owner[t] /\ lease'[t] = lease[t] => Exclusive(t)'
<1>1. TypeOK /\ Formed /\ SetJob(w, s, r) /\ FormedJob(r)
  BY DEF IInv, GoesOn
<1>2. /\ job' \in [Worker -> [Slot -> JobRec]] /\ job'[w][s] = r
      /\ \A v \in Worker, u \in Slot : v # w \/ u # s => job'[v][u] = job[v][u]
  BY <1>1, SlotSet
<1>3. awaited' \in [Worker -> SUBSET Slot]
  BY <1>1, Tables DEF GoesOn, Typed
<1>4. Formed'
  BY <1>1, <1>2 DEF GoesOn, Formed
<1>5. ASSUME NEW v \in Worker \ restarted PROVE Tidy(v)'
  <2>1. Tidy(v)
    BY DEF IInv
  <2>2. ~(v = w /\ ~running[v] /\ stopping[v] = "no")
    BY <2>1 DEF Tidy, GoesOn
  <2>3. awaited \in [Worker -> SUBSET Slot]
    BY <1>1, Tables DEF Typed
  <2>4. ASSUME stopping[v] = "handlers", NEW u \in Slot \ awaited'[v] PROVE job'[v][u] = NoJob
    <3>1. CASE v = w /\ u = s
      BY <1>2, <2>1, <2>3, <2>4, <3>1 DEF Tidy, GoesOn
    <3>2. CASE v # w \/ u # s
      BY <1>2, <2>1, <2>3, <2>4, <3>2 DEF Tidy, GoesOn
    <3> QED  BY <3>1, <3>2
  <2> QED  BY <1>2, <2>1, <2>2, <2>4 DEF Tidy, GoesOn
<1>6. ASSUME NEW t \in open \ spoiled, owner'[t] = owner[t], lease'[t] = lease[t]
      PROVE  Exclusive(t)'
  <2>1. Exclusive(t) /\ t # NoTask
    BY <1>1, Tables, NullAssumption DEF IInv, Typed
  <2>2. \A v \in Worker, u \in Slot :
           job'[v][u].task = t => job[v][u].task = t /\ job'[v][u].extend = job[v][u].extend
    BY <1>2, <2>1, Empty DEF GoesOn
  <2> QED  BY <1>6, <2>1, <2>2, StaysExclusive DEF GoesOn
<1> QED  BY <1>2, <1>3, <1>4, <1>5, <1>6 DEF GoesOn

\* A handler that throws waits for its next attempt, or reports the failure.
LEMMA ThrowsGoOn ==
  ASSUME IInv, NEW w \in Worker, NEW s \in Slot, job[w][s] # NoJob, HandlerThrows(w, s),
         UNCHANGED <<running, current, loop, stopping, expired, restarted>>
  PROVE  \E r \in JobRec : GoesOn(w, s, r)
<1> DEFINE j == job[w][s]
<1>1. j \in JobRec /\ FormedJob(j) /\ j # NoJob
  BY Tables DEF IInv, Formed, Typed
<1>2. /\ j.task \in Task /\ j.attempt \in 1..(MaxRetries + 1) /\ j.extend \in 0..ExtendEvery
      /\ j.delay \in 0..MaxDelay
  BY <1>1, Fields, RetryAssumption DEF FormedJob
<1>3. CASE j.attempt <= MaxRetries
  <2> DEFINE r == [j EXCEPT !.pc = "backoff", !.delay = CalculateBackoff(j.attempt)]
  <2>1. CalculateBackoff(j.attempt) \in 0..MaxDelay
    BY <1>2, <1>3, BackoffTyped
  <2>2. r \in JobRec /\ r.task = j.task /\ r.extend = j.extend /\ r.pc = "backoff" /\ r.attempt = j.attempt
    BY <1>1, <2>1 DEF JobRec, JobPC
  <2>3. FormedJob(r)
    BY <1>2, <1>3, <2>2 DEF FormedJob, JobPC
  <2>4. SetJob(w, s, r) /\ UNCHANGED awaited
    BY <1>3 DEF HandlerThrows
  <2> HIDE DEF r
  <2> QED  BY <2>2, <2>3, <2>4 DEF GoesOn
<1>4. CASE ~(j.attempt <= MaxRetries)
  <2> DEFINE r == [j EXCEPT !.pc = "failure"]
  <2>2. r \in JobRec /\ r.task = j.task /\ r.extend = j.extend /\ r.pc = "failure" /\ r.attempt = j.attempt
    BY <1>1 DEF JobRec, JobPC
  <2>3. FormedJob(r)
    BY <1>2, <2>2 DEF FormedJob, JobPC
  <2>4. SetJob(w, s, r) /\ UNCHANGED awaited
    BY <1>4 DEF HandlerThrows
  <2> HIDE DEF r
  <2> QED  BY <2>2, <2>3, <2>4 DEF GoesOn
<1> QED  BY <1>3, <1>4

\* A handler that ends leaves its slot.
LEMMA EndGoesOn ==
  ASSUME IInv, NEW w \in Worker, NEW s \in Slot, job[w][s] # NoJob, EndJob(w, s),
         UNCHANGED <<running, current, loop, stopping, expired, restarted>>
  PROVE  NoJob \in JobRec /\ GoesOn(w, s, NoJob)
  BY Empty DEF EndJob, GoesOn, FormedJob

\* A handler that works on its task has one.
LEMMA InJobHasTask ==
  ASSUME IInv, NEW w \in Worker, NEW s \in Slot, job[w][s].pc # "none"
  PROVE  /\ job[w][s] # NoJob /\ job[w][s] \in JobRec /\ FormedJob(job[w][s])
         /\ job[w][s].task \in Task
<1>1. job[w][s] # NoJob /\ job[w][s] \in JobRec /\ FormedJob(job[w][s])
  BY Empty, Tables DEF IInv, Formed, Typed
<1> QED  BY <1>1 DEF FormedJob

\* A step of a handler that leaves every other task as it was.
LEMMA SlotIInv ==
  ASSUME IInv, NEW w \in Worker, NEW s \in Slot, NEW r \in JobRec, GoesOn(w, s, r),
         open' \subseteq open, incident' \subseteq Task,
         owner' \in [Task -> Worker \cup {NoWorker}], lease' \in [Task -> 0..LockDuration],
         losses' \in 0..MaxLosses, spoiled \subseteq spoiled', spoiled' \subseteq Task,
         UNCHANGED <<starts, crashes>>,
         \A t \in open' \ spoiled' :
           (owner'[t] = owner[t] /\ lease'[t] = lease[t]) \/ Exclusive(t)'
  PROVE  IInv'
<1>1. TypeOK'
  BY SlotStep, Tables DEF IInv, Typed, GoesOn
<1>2. \A t \in open' \ spoiled' : Exclusive(t)'
  BY SlotStep
<1> QED  BY <1>1, <1>2, SlotStep DEF IInv

\* A handler throws.
LEMMA FailAttemptIInv == ASSUME IInv, NEW w \in Worker, NEW s \in Slot, FailAttempt(w, s) PROVE IInv'
<1>1. /\ job[w][s].pc = "run" /\ HandlerThrows(w, s)
      /\ UNCHANGED <<serverVars, running, current, loop, stopping, boundVars, ghostVars>>
  BY DEF FailAttempt, InJob
<1>2. job[w][s] # NoJob
  BY <1>1, InJobHasTask
<1>3. \E r \in JobRec : GoesOn(w, s, r)
  BY <1>1, <1>2, ThrowsGoOn
<1>4. Typed
  BY Tables DEF IInv
<1> QED  BY <1>1, <1>3, <1>4, SlotIInv DEF Typed

\* The engine answers a completion or an error: the task leaves the queue, or the
\* handler throws.
LEMMA ServeDecisionIInv ==
  ASSUME IInv, NEW w \in Worker, NEW s \in Slot, ServeDecision(w, s) PROVE IInv'
<1> DEFINE t == job[w][s].task
<1>1. job[w][s].pc = "run" /\ UNCHANGED <<incident, running, current, loop, stopping, boundVars, ghostVars>>
  BY DEF ServeDecision, InJob
<1>2. job[w][s] # NoJob /\ t \in Task
  BY <1>1, InJobHasTask
<1>3. Typed
  BY Tables DEF IInv
<1>4. CASE OwnsLock(w, t)
  <2>1. open' = open \ {t} /\ Unlocked(t) /\ EndJob(w, s)
    BY <1>4 DEF ServeDecision
  <2>2. NoJob \in JobRec /\ GoesOn(w, s, NoJob)
    BY <1>1, <1>2, <2>1, EndGoesOn
  <2>3. /\ owner' \in [Task -> Worker \cup {NoWorker}] /\ lease' \in [Task -> 0..LockDuration]
        /\ \A u \in Task \ {t} : owner'[u] = owner[u] /\ lease'[u] = lease[u]
    BY <1>2, <1>3, <2>1, DurationAssumption DEF Unlocked, Typed
  <2> QED  BY <1>1, <1>3, <2>1, <2>2, <2>3, SlotIInv DEF Typed
<1>5. CASE ~OwnsLock(w, t)
  <2>1. HandlerThrows(w, s) /\ UNCHANGED <<open, owner, lease>>
    BY <1>5 DEF ServeDecision
  <2>2. \E r \in JobRec : GoesOn(w, s, r)
    BY <1>1, <1>2, <2>1, ThrowsGoOn
  <2> QED  BY <1>1, <1>3, <2>1, <2>2, SlotIInv DEF Typed
<1> QED  BY <1>4, <1>5

\* The backoff is over.
LEMMA RetryIInv == ASSUME IInv, NEW w \in Worker, NEW s \in Slot, Retry(w, s) PROVE IInv'
<1> DEFINE r == [job[w][s] EXCEPT !.pc = "run", !.attempt = @ + 1]
<1>1. job[w][s].pc = "backoff" /\ UNCHANGED <<serverVars, clientVars, boundVars, ghostVars>>
      /\ SetJob(w, s, r)
  BY DEF Retry, InJob
<1>2. job[w][s] # NoJob /\ job[w][s] \in JobRec /\ FormedJob(job[w][s]) /\ job[w][s].task \in Task
  BY <1>1, InJobHasTask
<1>3. job[w][s].attempt \in 0..(MaxRetries + 1) /\ 1 <= job[w][s].attempt /\ job[w][s].attempt <= MaxRetries
  BY <1>1, <1>2, Fields, Empty DEF FormedJob
<1>4. /\ r \in JobRec /\ r.pc = "run" /\ r.task = job[w][s].task
      /\ r.extend = job[w][s].extend /\ r.attempt = job[w][s].attempt + 1
  <2>1. job[w][s].attempt + 1 \in 0..(MaxRetries + 1)
    BY <1>3, RetryAssumption
  <2> QED  BY <1>2, <2>1 DEF JobRec, JobPC
<1> HIDE DEF r
<1>5. GoesOn(w, s, r)
  BY <1>1, <1>2, <1>3, <1>4 DEF GoesOn, FormedJob, JobPC
<1>6. Typed
  BY Tables DEF IInv
<1> QED  BY <1>1, <1>4, <1>5, <1>6, SlotIInv DEF Typed

\* When the handler of the lock's worker ends, no timely worker has the task, and
\* while its lock has not run out nobody has.
LEMMA EndedIsExclusive ==
  ASSUME IInv, NEW w \in Worker, NEW s \in Slot, NEW t \in open \ spoiled,
         job[w][s].task = t, owner[t] = w, EndJob(w, s), UNCHANGED <<loop, expired>>
  PROVE  Exclusive(t)'
<1>1. Exclusive(t) /\ Typed
  BY Tables DEF IInv
<1>2. NoJob \in JobRec /\ NoJob.task = NoTask /\ t # NoTask
  BY <1>1, Empty, NullAssumption DEF Typed
<1>3. /\ job'[w][s] = NoJob
      /\ \A v \in Worker, u \in Slot : v # w \/ u # s => job'[v][u] = job[v][u]
  BY <1>2, SlotSet DEF EndJob, IInv
<1>4. ASSUME NEW v \in Timely
      PROVE  /\ \A u \in Slot : job'[v][u].task # t
             /\ \A l \in Loop : t \notin loop'[v][l].got
  BY <1>1, <1>2, <1>3, TimelyWorker DEF Exclusive, Held, Coming, Apart, OneHand
<1>5. ASSUME t \notin expired, NEW v \in Worker
      PROVE  /\ \A u \in Slot : job'[v][u].task # t
             /\ \A l \in Loop : t \notin loop'[v][l].got
  BY <1>1, <1>2, <1>3, <1>5 DEF Exclusive, Alone, OneHand
<1>6. Held(t)' /\ Coming(t)' /\ Apart(t)'
  BY <1>4 DEF Held, Coming, Apart, OneHand
<1>7. t \notin expired' => Alone(t)'
  BY <1>5 DEF Alone, OneHand
<1> QED  BY <1>6, <1>7 DEF Exclusive

\* The engine takes the report of a failure and unlocks the task, which nobody has
\* in hand any more.
LEMMA ServeFailureIInv ==
  ASSUME IInv, NEW w \in Worker, NEW s \in Slot, ServeFailure(w, s) PROVE IInv'
<1> DEFINE t == job[w][s].task
<1>1. /\ job[w][s].pc = "failure" /\ Report(w, t) /\ EndJob(w, s)
      /\ UNCHANGED <<running, current, loop, stopping, boundVars, ghostVars>>
  BY DEF ServeFailure, InJob
<1>2. job[w][s] # NoJob /\ t \in Task
  BY <1>1, InJobHasTask
<1>3. Typed
  BY Tables DEF IInv
<1>4. NoJob \in JobRec /\ GoesOn(w, s, NoJob)
  BY <1>1, <1>2, EndGoesOn
<1>5. /\ open' = open /\ incident' \subseteq Task
      /\ owner' \in [Task -> Worker \cup {NoWorker}] /\ lease' \in [Task -> 0..LockDuration]
      /\ \A u \in Task \ {t} : owner'[u] = owner[u] /\ lease'[u] = lease[u]
  <2>1. CASE OwnsLock(w, t)
    <3>1. open' = open /\ incident' = incident \cup {t} /\ Unlocked(t)
      BY <1>1, <2>1 DEF Report
    <3> HIDE DEF t
    <3> QED  BY <1>2, <1>3, <3>1, DurationAssumption DEF Unlocked, Typed
  <2>2. CASE ~OwnsLock(w, t)
    BY <1>1, <1>3, <2>2 DEF Report, Typed
  <2> QED  BY <2>1, <2>2
<1>6. \A u \in open \ spoiled : u = t => (owner'[u] = owner[u] /\ lease'[u] = lease[u]) \/ Exclusive(u)'
  <2>1. CASE OwnsLock(w, t)
    BY <1>1, <2>1, EndedIsExclusive DEF OwnsLock
  <2>2. CASE ~OwnsLock(w, t)
    BY <1>1, <2>2 DEF Report
  <2> QED  BY <2>1, <2>2
<1> QED  BY <1>1, <1>3, <1>4, <1>5, <1>6, SlotIInv DEF Typed

\* The extension makes the lock outlive the next one.
LEMMA ExtendLockIInv ==
  ASSUME IInv, NEW w \in Worker, NEW s \in Slot, ExtendLock(w, s) PROVE IInv'
<1> DEFINE r == [job[w][s] EXCEPT !.extend = ExtendEvery]
<1>1. /\ job[w][s] # NoJob /\ SetJob(w, s, r)
      /\ UNCHANGED <<open, incident, owner, clientVars, boundVars, ghostVars>>
  BY DEF ExtendLock, ExtendDue
<1>2. Typed /\ TypeOK /\ Formed
  BY Tables DEF IInv
<1>3. job[w][s] \in JobRec /\ FormedJob(job[w][s]) /\ job[w][s].task \in Task
  BY <1>1, <1>2 DEF Typed, Formed, FormedJob
<1>4. /\ r \in JobRec /\ r.pc = job[w][s].pc /\ r.task = job[w][s].task
      /\ r.extend = ExtendEvery /\ r.attempt = job[w][s].attempt
  BY <1>3, DurationAssumption DEF JobRec
<1>5. FormedJob(r)
  BY <1>1, <1>3, <1>4 DEF FormedJob
<1>6. /\ job' \in [Worker -> [Slot -> JobRec]] /\ job'[w][s] = r
      /\ \A v \in Worker, u \in Slot : v # w \/ u # s => job'[v][u] = job[v][u]
  <2> HIDE DEF r
  <2> QED  BY <1>1, <1>2, <1>4, SlotSet
<1> HIDE DEF r
<1>7. lease' = [t \in Task |-> IF t = job[w][s].task /\ t \in open /\ owner[t] = w
                               THEN LockDuration ELSE lease[t]]
  BY DEF ExtendLock, OwnsLock
<1>8. TypeOK'
  BY <1>1, <1>2, <1>6, <1>7, DurationAssumption, Tables DEF Typed
<1>9. Formed'
  BY <1>1, <1>2, <1>5, <1>6 DEF Formed
<1>10. ASSUME NEW t \in open \ spoiled PROVE Exclusive(t)'
  <2>1. Exclusive(t) /\ t \in Task
    BY <1>2 DEF IInv, Typed
  <2>2. \A v \in Worker, u \in Slot : job'[v][u].task = job[v][u].task
    BY <1>4, <1>6
  <2>3. lease[t] \in 0..LockDuration /\ LockDuration \in Nat
    BY <1>2, <2>1, DurationAssumption DEF Typed
  <2>4. CASE job[w][s].task = t /\ owner[t] = w
    <3>1. lease'[t] = LockDuration /\ owner'[t] = owner[t]
      BY <1>1, <1>7, <2>1, <2>4
    <3>2. Held(t)'
      <4> SUFFICES ASSUME NEW v \in Timely, NEW u \in Slot, job'[v][u].task = t
                   PROVE  owner'[t] = v /\ job'[v][u].extend < lease'[t]
        BY DEF Held
      <4>1. v \in Worker /\ owner[t] = v /\ ExtendEvery < LockDuration
        BY <2>1, <2>2, TimelyWorker, DurationAssumption DEF Exclusive, Held
      <4>2. v = w /\ u = s
        BY <2>1, <2>2, <2>4, <4>1 DEF Exclusive, Apart, OneHand
      <4> QED  BY <1>4, <1>6, <3>1, <4>1, <4>2
    <3>3. Coming(t)'
      <4> SUFFICES ASSUME NEW v \in Timely, NEW l \in Loop, t \in loop'[v][l].got
                   PROVE  owner'[t] = v /\ LockDuration - loop'[v][l].age <= lease'[t]
        BY DEF Coming
      <4>1. loop'[v][l] = loop[v][l] /\ loop[v][l].age \in 0..MaxLatency
        BY <1>1, <1>2, TimelyWorker, Fields DEF Typed
      <4>2. owner[t] = v
        BY <2>1, <4>1 DEF Exclusive, Coming
      <4> QED  BY <2>3, <3>1, <4>1, <4>2, DurationAssumption
    <3>4. Apart(t)'
      BY <1>1, <2>1, <2>2, TimelyWorker DEF Exclusive, Apart, OneHand
    <3>5. t \notin expired' => Alone(t)'
      <4> SUFFICES ASSUME t \notin expired PROVE Alone(t)'
        BY <1>1
      <4>1. Alone(t)
        BY <2>1 DEF Exclusive
      <4>2. lease'[t] > 0
        BY <2>3, <2>4, <3>1, <4>1 DEF Alone
      <4> QED  BY <1>1, <2>2, <3>1, <4>1, <4>2 DEF Alone, OneHand
    <3> QED  BY <3>2, <3>3, <3>4, <3>5 DEF Exclusive
  <2>5. CASE ~(job[w][s].task = t /\ owner[t] = w)
    <3>1. lease'[t] = lease[t] /\ owner'[t] = owner[t]
      BY <1>1, <1>7, <2>1, <2>5
    <3>2. Held(t)'
      <4> SUFFICES ASSUME NEW v \in Timely, NEW u \in Slot, job'[v][u].task = t
                   PROVE  owner'[t] = v /\ job'[v][u].extend < lease'[t]
        BY DEF Held
      <4>1. v \in Worker /\ owner[t] = v /\ job[v][u].extend < lease[t]
        BY <2>1, <2>2, TimelyWorker DEF Exclusive, Held
      <4>2. job'[v][u] = job[v][u]
        BY <1>6, <2>2, <2>5, <4>1
      <4> QED  BY <3>1, <4>1, <4>2
    <3>3. Coming(t)'
      BY <1>1, <2>1, <3>1 DEF Exclusive, Coming
    <3>4. Apart(t)'
      BY <1>1, <2>1, <2>2, TimelyWorker DEF Exclusive, Apart, OneHand
    <3>5. t \notin expired' => Alone(t)'
      BY <1>1, <2>1, <2>2, <3>1 DEF Exclusive, Alone, OneHand
    <3> QED  BY <3>2, <3>3, <3>4, <3>5 DEF Exclusive
  <2> QED  BY <2>4, <2>5
<1>11. ASSUME NEW v \in Worker \ restarted PROVE Tidy(v)'
  <2>1. Tidy(v)
    BY DEF IInv
  <2>2. \A u \in Slot : job'[v][u] = NoJob <=> job[v][u] = NoJob
    BY <1>1, <1>3, <1>4, <1>6, Empty, NullAssumption
  <2> QED  BY <1>1, <1>2, <2>1, <2>2 DEF Tidy, Typed
<1> QED  BY <1>1, <1>8, <1>9, <1>10, <1>11 DEF IInv

\* A lost request leaves its task out of the promise.
LEMMA LoseRequestIInv ==
  ASSUME IInv, NEW w \in Worker, NEW s \in Slot, LoseRequest(w, s) PROVE IInv'
<1>1. Typed /\ Formed
  BY Tables DEF IInv
<1>2. PICK t : t = job[w][s].task
  OBVIOUS
<1>3. /\ Lost({t}) /\ UNCHANGED <<running, current, loop, stopping, expired, restarted, starts, crashes>>
      /\ losses' \in 0..MaxLosses /\ spoiled' = spoiled \cup {t}
  BY <1>1, <1>2, BoundAssumption DEF LoseRequest, Lost, Typed
<1>4. job[w][s] # NoJob /\ job[w][s] \in JobRec /\ FormedJob(job[w][s]) /\ t \in Task
  <2>1. job[w][s] # NoJob
    BY Empty DEF LoseRequest, InJob, ExtendDue
  <2> QED  BY <1>1, <1>2, <2>1 DEF Typed, Formed, FormedJob
<1>5. CASE job[w][s].pc = "run" /\ HandlerThrows(w, s) /\ UNCHANGED serverVars
  <2>1. \E r \in JobRec : GoesOn(w, s, r)
    BY <1>3, <1>4, <1>5, ThrowsGoOn
  <2> QED  BY <1>1, <1>3, <1>4, <1>5, <2>1, SlotIInv DEF Typed
<1>6. CASE /\ job[w][s].pc = "run" /\ HandlerThrows(w, s)
           /\ open' = open \ {t} /\ Unlocked(t) /\ UNCHANGED incident
  <2>1. \E r \in JobRec : GoesOn(w, s, r)
    BY <1>3, <1>4, <1>6, ThrowsGoOn
  <2>2. /\ owner' \in [Task -> Worker \cup {NoWorker}] /\ lease' \in [Task -> 0..LockDuration]
        /\ \A u \in Task \ {t} : owner'[u] = owner[u] /\ lease'[u] = lease[u]
    BY <1>1, <1>4, <1>6, DurationAssumption DEF Unlocked, Typed
  <2> QED  BY <1>1, <1>3, <1>4, <1>6, <2>1, <2>2, SlotIInv DEF Typed
<1>7. CASE EndJob(w, s) /\ UNCHANGED serverVars
  <2>1. NoJob \in JobRec /\ GoesOn(w, s, NoJob)
    BY <1>3, <1>4, <1>7, EndGoesOn
  <2> QED  BY <1>1, <1>3, <1>4, <1>7, <2>1, SlotIInv DEF Typed
<1>8. CASE /\ SetJob(w, s, [job[w][s] EXCEPT !.extend = ExtendEvery])
           /\ UNCHANGED <<awaited, serverVars>>
  <2> DEFINE r == [job[w][s] EXCEPT !.extend = ExtendEvery]
  <2>1. /\ r \in JobRec /\ r.pc = job[w][s].pc /\ r.task = job[w][s].task
        /\ r.attempt = job[w][s].attempt /\ SetJob(w, s, r)
    BY <1>4, <1>8, DurationAssumption DEF JobRec
  <2>2. FormedJob(r)
    BY <1>4, <2>1 DEF FormedJob
  <2> HIDE DEF r
  <2>3. /\ job' \in [Worker -> [Slot -> JobRec]] /\ job'[w][s] = r
        /\ \A v \in Worker, u \in Slot : v # w \/ u # s => job'[v][u] = job[v][u]
    BY <2>1, SlotSet DEF IInv
  <2>4. TypeOK'
    BY <1>1, <1>3, <1>4, <1>8, <2>3, Tables DEF Typed
  <2>5. Formed'
    BY <1>1, <1>3, <2>2, <2>3 DEF Formed
  <2>6. ASSUME NEW q \in open' \ spoiled' PROVE Exclusive(q)'
    <3>1. Exclusive(q) /\ q # t
      BY <1>3, <1>8, <2>6 DEF IInv
    <3>2. \A v \in Worker, u \in Slot :
             job'[v][u].task = q => job[v][u].task = q /\ job'[v][u].extend = job[v][u].extend
      BY <1>2, <2>1, <2>3, <3>1
    <3> QED  BY <1>3, <1>8, <3>1, <3>2, StaysExclusive
  <2>7. ASSUME NEW v \in Worker \ restarted PROVE Tidy(v)'
    <3>1. Tidy(v)
      BY DEF IInv
    <3>2. \A u \in Slot : job'[v][u] = NoJob <=> job[v][u] = NoJob
      BY <1>2, <1>4, <2>1, <2>3, Empty, NullAssumption
    <3> QED  BY <1>1, <1>3, <1>8, <3>1, <3>2 DEF Tidy, Typed
  <2> QED  BY <1>3, <2>4, <2>5, <2>6, <2>7 DEF IInv
<1> QED  BY <1>2, <1>5, <1>6, <1>7, <1>8 DEF LoseRequest, InJob, OwnsLock

\* A step of a poll loop that brings no task.
LEMMA LoopIInv ==
  ASSUME IInv, NEW w \in Worker, NEW l \in Loop, NEW r \in LoopRec, SetLoop(w, l, r),
         r.got = {}, loop[w][l] # NoLoop, losses' \in 0..MaxLosses,
         UNCHANGED <<serverVars, running, current, stopping, awaited, job, starts, crashes,
                     ghostVars>>
  PROVE  IInv'
<1>1. Typed /\ TypeOK /\ Formed
  BY Tables DEF IInv
<1>2. /\ loop' \in [Worker -> [Loop -> LoopRec]] /\ loop'[w][l] = r
      /\ \A v \in Worker, k \in Loop : v # w \/ k # l => loop'[v][k] = loop[v][k]
  BY <1>1, LoopSet
<1>3. TypeOK'
  BY <1>1, <1>2, Tables DEF Typed
<1>4. Formed'
  BY <1>1, <1>2 DEF Formed
<1>5. ASSUME NEW t \in open \ spoiled PROVE Exclusive(t)'
  <2>1. \A v \in Worker, k \in Loop :
           t \in loop'[v][k].got => t \in loop[v][k].got /\ loop'[v][k].age = loop[v][k].age
    BY <1>2
  <2>2. Exclusive(t)
    BY DEF IInv
  <2> QED  BY <2>1, <2>2, StaysExclusive
<1>6. ASSUME NEW v \in Worker \ restarted PROVE Tidy(v)'
  BY <1>2 DEF IInv, Tidy
<1> QED  BY <1>3, <1>4, <1>5, <1>6 DEF IInv

\* The end of an iteration.
LEMMA NextPollSets ==
  ASSUME NEW w \in Worker, NEW l \in Loop, NextPoll(w, l)
  PROVE  \E r \in LoopRec : SetLoop(w, l, r) /\ r.got = {}
  BY Empty DEF NextPoll

\* The steps of a poll loop without tasks.
LEMMA PollIInv ==
  ASSUME IInv, NEW w \in Worker, NEW l \in Loop,
         TimeOutFetch(w, l) \/ PollFails(w, l) \/ Awake(w, l) \/ LoseFetch(w, l)
  PROVE  IInv'
<1>1. Typed
  BY Tables DEF IInv
<1>2. loop[w][l] # NoLoop
  BY Empty DEF TimeOutFetch, PollFails, Awake, LoseFetch
<1>3. \E r \in LoopRec : SetLoop(w, l, r) /\ r.got = {}
  BY NextPollSets, Empty DEF TimeOutFetch, PollFails, Awake, LoseFetch, In
<1>4. losses' \in 0..MaxLosses
  BY <1>1, BoundAssumption DEF TimeOutFetch, PollFails, Awake, LoseFetch, Lost, Typed
<1>5. UNCHANGED <<serverVars, running, current, stopping, awaited, job, starts, crashes, ghostVars>>
  BY DEF TimeOutFetch, PollFails, Awake, LoseFetch, Lost
<1> QED  BY <1>2, <1>3, <1>4, <1>5, LoopIInv

\* A loop is started when none is left, or while stop() waits.
LEMMA StartIInv == ASSUME IInv, NEW w \in Worker, Start(w) PROVE IInv'
<1>1. Typed /\ TypeOK /\ Formed
  BY Tables DEF IInv
<1>2. PICK l \in Loop : /\ loop[w][l] = NoLoop /\ SetLoop(w, l, In("fetching"))
                        /\ current' = [current EXCEPT ![w] = l]
  BY DEF Start
<1>3. /\ ~running[w] /\ running' = [running EXCEPT ![w] = TRUE]
      /\ starts < MaxStarts /\ starts' = starts + 1
      /\ restarted' = IF stopping[w] # "no" THEN restarted \cup {w} ELSE restarted
      /\ UNCHANGED <<serverVars, stopping, awaited, job, losses, crashes, spoiled, expired>>
  BY DEF Start
<1>4. In("fetching") \in LoopRec /\ In("fetching").got = {} /\ In("fetching").pc = "fetching"
  BY Empty
<1>5. /\ loop' \in [Worker -> [Loop -> LoopRec]] /\ loop'[w][l] = In("fetching")
      /\ \A v \in Worker, k \in Loop : v # w \/ k # l => loop'[v][k] = loop[v][k]
  BY <1>1, <1>2, <1>4, LoopSet
<1>6. TypeOK'
  BY <1>1, <1>2, <1>3, <1>5, BoundAssumption, Tables DEF Typed
<1>7. Formed'
  BY <1>1, <1>3, <1>4, <1>5 DEF Formed
<1>8. ASSUME NEW t \in open \ spoiled PROVE Exclusive(t)'
  <2>1. \A v \in Worker, k \in Loop :
           t \in loop'[v][k].got => t \in loop[v][k].got /\ loop'[v][k].age = loop[v][k].age
    BY <1>4, <1>5
  <2>2. Exclusive(t)
    BY DEF IInv
  <2> QED  BY <1>3, <2>1, <2>2, StaysExclusive
<1>9. ASSUME NEW v \in Worker \ restarted' PROVE Tidy(v)'
  <2>1. Tidy(v) /\ (v = w => stopping[w] = "no")
    BY <1>3 DEF IInv
  <2>2. CASE v = w
    BY <1>1, <1>2, <1>3, <1>5, <2>1, <2>2 DEF Tidy, Typed
  <2>3. CASE v # w
    BY <1>1, <1>2, <1>3, <1>5, <2>1, <2>3 DEF Tidy, Typed
  <2> QED  BY <2>2, <2>3
<1> QED  BY <1>3, <1>6, <1>7, <1>8, <1>9 DEF IInv

\* stop() drops the answers that are on their way.
LEMMA StopIInv == ASSUME IInv, NEW w \in Worker, Stop(w) PROVE IInv'
<1>1. Typed /\ TypeOK /\ Formed
  BY Tables DEF IInv
<1>2. /\ running[w] /\ stopping[w] = "no"
      /\ running' = [running EXCEPT ![w] = FALSE] /\ stopping' = [stopping EXCEPT ![w] = "loop"]
      /\ UNCHANGED <<serverVars, current, awaited, job, boundVars, ghostVars>>
  BY DEF Stop
<1>3. In("aborted") \in LoopRec /\ In("aborted").got = {} /\ In("aborted").pc = "aborted"
  BY Empty
<1>4. /\ loop' \in [Worker -> [Loop -> LoopRec]]
      /\ \A k \in Loop : \/ loop'[w][k] = loop[w][k]
                         \/ loop'[w][k] = In("aborted") /\ loop[w][k] # NoLoop
      /\ \A v \in Worker \ {w} : loop'[v] = loop[v]
  <2>1. PICK read \in SUBSET Loop :
          loop' = [loop EXCEPT ![w] = [k \in Loop |->
                     IF loop[w][k].pc \in {"fetching", "answered"} /\ k \notin read
                     THEN In("aborted") ELSE loop[w][k]]]
    BY DEF Stop
  <2> QED  BY <1>1, <1>3, <2>1, Empty DEF Typed
<1>5. TypeOK'
  BY <1>1, <1>2, <1>4, Tables DEF Typed
<1>6. Formed'
  BY <1>1, <1>2, <1>3, <1>4 DEF Formed
<1>7. ASSUME NEW t \in open \ spoiled PROVE Exclusive(t)'
  <2>1. \A v \in Worker, k \in Loop :
           t \in loop'[v][k].got => t \in loop[v][k].got /\ loop'[v][k].age = loop[v][k].age
    BY <1>3, <1>4
  <2>2. Exclusive(t)
    BY DEF IInv
  <2> QED  BY <1>2, <2>1, <2>2, StaysExclusive
<1>8. ASSUME NEW v \in Worker \ restarted PROVE Tidy(v)'
  <2>1. Tidy(v)
    BY DEF IInv
  <2>2. CASE v = w
    BY <1>1, <1>2, <1>4, <2>1, <2>2 DEF Tidy, Typed
  <2>3. CASE v # w
    BY <1>1, <1>2, <1>4, <2>1, <2>3 DEF Tidy, Typed
  <2> QED  BY <2>2, <2>3
<1> QED  BY <1>2, <1>5, <1>6, <1>7, <1>8 DEF IInv

\* stop() goes on when the loop, and then the handlers it saw, have ended.
LEMMA StopStepIInv == ASSUME IInv, NEW w \in Worker, StopStep(w) PROVE IInv'
<1>1. Typed /\ TypeOK /\ Formed
  BY Tables DEF IInv
<1>2. UNCHANGED <<serverVars, running, current, loop, job, boundVars, ghostVars>>
  BY DEF StopStep, LoopEnded, HandlersEnded
<1>3. TypeOK'
  <2>1. CASE LoopEnded(w)
    BY <1>1, <1>2, <2>1, Tables DEF LoopEnded, Typed, Active
  <2>2. CASE HandlersEnded(w)
    BY <1>1, <1>2, <2>2, Tables DEF HandlersEnded, Typed
  <2> QED  BY <2>1, <2>2 DEF StopStep
<1>4. Formed' /\ \A t \in open \ spoiled : Exclusive(t)'
  BY <1>1, <1>2, TimelyWorker DEF IInv, Formed, Exclusive, Held, Coming, Apart, OneHand, Alone
<1>5. ASSUME NEW v \in Worker \ restarted PROVE Tidy(v)'
  <2>1. Tidy(v)
    BY DEF IInv
  <2>2. CASE v # w
    BY <1>1, <1>2, <2>1, <2>2 DEF StopStep, LoopEnded, HandlersEnded, Tidy, Typed
  <2>3. CASE v = w /\ LoopEnded(w)
    <3>1. /\ ~running[w] /\ stopping[w] = "loop" /\ loop[w][current[w]] = NoLoop
          /\ stopping'[w] = "handlers" /\ awaited'[w] = Active(w)
      BY <1>1, <2>1, <2>3 DEF LoopEnded, Tidy, Typed
    <3> QED  BY <1>1, <1>2, <2>1, <2>3, <3>1 DEF Tidy, Active, Idle
  <2>4. CASE v = w /\ HandlersEnded(w)
    BY <1>1, <1>2, <2>1, <2>4 DEF HandlersEnded, Tidy, Typed
  <2> QED  BY <2>2, <2>3, <2>4 DEF StopStep
<1> QED  BY <1>2, <1>3, <1>4, <1>5 DEF IInv

\* A task that nobody holds is locked for the worker that asked for it.
LEMMA ServeFetchIInv ==
  ASSUME IInv, NEW w \in Worker, NEW l \in Loop, ServeFetch(w, l) PROVE IInv'
<1>1. Typed /\ TypeOK /\ Formed
  BY Tables DEF IInv
<1>2. PICK got \in SUBSET Fetchable :
        /\ got # {}
        /\ owner' = [t \in Task |-> IF t \in got THEN w ELSE owner[t]]
        /\ lease' = [t \in Task |-> IF t \in got THEN LockDuration ELSE lease[t]]
        /\ IF loop[w][l].pc = "fetching"
           THEN SetLoop(w, l, [pc |-> "answered", got |-> got, age |-> 0])
           ELSE UNCHANGED loop
        /\ expired' = IF LockDuration = 0 THEN expired \cup got ELSE expired
  BY DEF ServeFetch
<1>3. /\ loop[w][l].pc \in {"fetching", "aborted"}
      /\ UNCHANGED <<open, incident, running, current, stopping, awaited, job, boundVars,
                     spoiled, restarted>>
  BY DEF ServeFetch
<1>4. got \subseteq Task /\ \A t \in got : t \in open /\ lease[t] = 0
  BY <1>1, <1>2 DEF Fetchable, Typed
<1>5. /\ loop' \in [Worker -> [Loop -> LoopRec]]
      /\ \A v \in Worker, k \in Loop :
           \/ loop'[v][k] = loop[v][k]
           \/ /\ v = w /\ k = l
              /\ loop'[v][k].pc = "answered" /\ loop'[v][k].got = got /\ loop'[v][k].age = 0
              /\ loop[v][k] # NoLoop
  <2>1. CASE loop[w][l].pc = "fetching"
    <3> DEFINE r == [pc |-> "answered", got |-> got, age |-> 0]
    <3>1. r \in LoopRec /\ r.pc = "answered" /\ r.got = got /\ r.age = 0
      BY <1>4, DurationAssumption DEF LoopRec
    <3>2. SetLoop(w, l, r)
      BY <1>2, <2>1
    <3> HIDE DEF r
    <3> QED  BY <1>1, <2>1, <3>1, <3>2, LoopSet, Empty
  <2>2. CASE loop[w][l].pc # "fetching"
    BY <1>1, <1>2, <2>2 DEF Typed
  <2> QED  BY <2>1, <2>2
<1>6. TypeOK'
  BY <1>1, <1>2, <1>3, <1>4, <1>5, DurationAssumption, Tables DEF Typed
<1>7. Formed'
  BY <1>1, <1>3, <1>5 DEF Formed
<1>8. ASSUME NEW t \in open \ spoiled PROVE Exclusive(t)'
  <2>1. Exclusive(t) /\ t \in Task
    BY <1>1 DEF IInv, Typed
  <2>2. CASE t \in got
    <3>1. owner'[t] = w /\ lease'[t] = LockDuration /\ lease[t] = 0
      BY <1>2, <1>4, <2>1, <2>2
    <3>2. ASSUME NEW v \in Timely
          PROVE  /\ \A u \in Slot : job[v][u].task # t
                 /\ \A k \in Loop : t \notin loop[v][k].got
      <4>1. v \in Worker /\ MaxLatency + ExtendEvery < LockDuration
        BY TimelyWorker
      <4>2. \A u \in Slot : job[v][u].extend \in Nat
        BY <1>1, <4>1, Fields, DurationAssumption DEF Typed
      <4>3. \A k \in Loop : loop[v][k].age \in 0..MaxLatency
        BY <1>1, <4>1, Fields DEF Typed
      <4> QED  BY <2>1, <3>1, <4>1, <4>2, <4>3, DurationAssumption DEF Exclusive, Held, Coming
    <3>3. ASSUME NEW v \in Worker, NEW k \in Loop, t \in loop'[v][k].got,
                 \A i \in Loop : t \notin loop[v][i].got
          PROVE  v = w /\ k = l /\ loop'[v][k].age = 0
      BY <1>5, <3>3
    <3>4. Held(t)' /\ Coming(t)' /\ Apart(t)'
      <4>1. Held(t)'
        BY <1>3, <3>2 DEF Held
      <4>2. Coming(t)'
        BY <3>1, <3>2, <3>3, TimelyWorker, DurationAssumption DEF Coming
      <4>3. Apart(t)'
        BY <1>3, <3>2, <3>3, TimelyWorker DEF Apart, OneHand
      <4> QED  BY <4>1, <4>2, <4>3
    <3>5. ASSUME t \notin expired' PROVE Alone(t)'
      <4>1. t \notin expired /\ LockDuration > 0
        BY <1>2, <2>2, <3>5, DurationAssumption
      <4>2. ASSUME NEW v \in Worker
            PROVE  /\ \A u \in Slot : job[v][u].task # t
                   /\ \A k \in Loop : t \notin loop[v][k].got
        BY <2>1, <3>1, <4>1 DEF Exclusive, Alone
      <4> QED  BY <1>3, <3>1, <3>3, <4>1, <4>2 DEF Alone, OneHand
    <3> QED  BY <3>4, <3>5 DEF Exclusive
  <2>3. CASE t \notin got
    <3>1. owner'[t] = owner[t] /\ lease'[t] = lease[t]
      BY <1>2, <2>1, <2>3
    <3>2. \A v \in Worker, k \in Loop :
             t \in loop'[v][k].got => t \in loop[v][k].got /\ loop'[v][k].age = loop[v][k].age
      BY <1>5, <2>3
    <3>3. t \in expired => t \in expired'
      BY <1>2
    <3> QED  BY <1>3, <2>1, <3>1, <3>2, <3>3, StaysExclusive
  <2> QED  BY <2>2, <2>3
<1>9. ASSUME NEW v \in Worker \ restarted PROVE Tidy(v)'
  BY <1>3, <1>5 DEF IInv, Tidy
<1> QED  BY <1>3, <1>6, <1>7, <1>8, <1>9 DEF IInv

\* What a new job is.
LEMMA NewJobFields ==
  ASSUME NEW w \in Worker, NEW t \in Task
  PROVE  /\ NewJob(w, t) \in JobRec /\ NewJob(w, t).task = t
         /\ w \in AutoExtend => NewJob(w, t).extend = ExtendEvery
         /\ NewJob(w, t) # NoJob /\ FormedJob(NewJob(w, t))
<1> DEFINE e == IF w \in AutoExtend THEN ExtendEvery ELSE 0
<1>1. e \in 0..ExtendEvery
  BY DurationAssumption
<1>2. NewJob(w, t) = [NoJob EXCEPT !.task = t, !.pc = "run", !.attempt = 1, !.extend = e]
  BY DEF NewJob
<1> HIDE DEF e
<1>3. /\ NewJob(w, t).task = t /\ NewJob(w, t).pc = "run" /\ NewJob(w, t).attempt = 1
      /\ NewJob(w, t).extend = e
  BY <1>2 DEF NoJob
<1>4. NewJob(w, t) \in JobRec
  <2>1. 1 \in 0..(MaxRetries + 1)
    BY RetryAssumption
  <2> QED  BY <1>1, <1>2, <2>1, Empty DEF JobRec, JobPC
<1>5. w \in AutoExtend => e = ExtendEvery
  BY DEF e
<1> QED
  BY <1>3, <1>4, <1>5, Empty, RetryAssumption DEF FormedJob, JobPC

\* Every task of the answer gets a slot of its own.
LEMMA DispatchSlots ==
  ASSUME TypeOK, NEW w \in Worker, NEW l \in Loop, Dispatch(w, l)
  PROVE  \E f \in [loop[w][l].got -> Slot] :
           /\ job' \in [Worker -> [Slot -> JobRec]]
           /\ \A t \in loop[w][l].got : job[w][f[t]] = NoJob /\ job'[w][f[t]] = NewJob(w, t)
           /\ \A s \in Slot : s \in Range(f) \/ job'[w][s] = job[w][s]
           /\ \A v \in Worker \ {w} : job'[v] = job[v]
<1>1. Typed
  BY Tables
<1>2. PICK got : got = loop[w][l].got
  OBVIOUS
<1>3. got \subseteq Task /\ Idle(w) \subseteq Slot
  BY <1>1, <1>2, Fields DEF Typed, Idle
<1>4. IsFiniteSet(got) /\ IsFiniteSet(Idle(w))
  BY <1>3, FiniteAssumption, FS_Subset
<1>5. \E f \in [got -> Idle(w)] : IsInjective(f)
  BY <1>2, <1>4, InjectionExists DEF Dispatch
<1>6. PICK f \in [got -> Idle(w)] :
        /\ IsInjective(f)
        /\ job' = [job EXCEPT ![w] = [s \in Slot |->
                     IF s \in Range(f) THEN NewJob(w, Inverse(f, got, {s})[s]) ELSE job[w][s]]]
  BY <1>2, <1>5 DEF Dispatch
<1>7. ASSUME NEW t \in got PROVE Inverse(f, got, {f[t]})[f[t]] = t
  <2>1. \A x \in got : f[x] = f[t] => x = t
    BY <1>6 DEF IsInjective
  <2> QED  BY <1>6, <2>1 DEF Inverse, Range
<1>8. \A t \in got : f[t] \in Slot /\ f[t] \in Range(f) /\ job[w][f[t]] = NoJob
  BY <1>3, <1>6 DEF Idle, Range
<1>9. job \in [Worker -> [Slot -> JobRec]]
  BY <1>1 DEF Typed
<1>10. /\ \A t \in got : job'[w][f[t]] = NewJob(w, t)
       /\ \A s \in Slot : s \in Range(f) \/ job'[w][s] = job[w][s]
       /\ \A v \in Worker \ {w} : job'[v] = job[v]
  BY <1>6, <1>7, <1>8, <1>9
<1>11. job' \in [Worker -> [Slot -> JobRec]]
  <2>1. \A s \in Range(f) : \E t \in got : s = f[t]
    BY <1>6 DEF Range
  <2>2. \A s \in Range(f) : NewJob(w, Inverse(f, got, {s})[s]) \in JobRec
    BY <1>3, <1>7, <2>1, NewJobFields
  <2> DEFINE row == [s \in Slot |-> IF s \in Range(f) THEN NewJob(w, Inverse(f, got, {s})[s])
                                    ELSE job[w][s]]
  <2>3. row \in [Slot -> JobRec]
    BY <1>9, <2>2
  <2>4. job' = [job EXCEPT ![w] = row]
    BY <1>6
  <2> HIDE DEF row
  <2> QED  BY <1>9, <2>3, <2>4
<1>12. f \in [got -> Slot]
  BY <1>3, <1>6
<1> QED  BY <1>2, <1>8, <1>10, <1>11, <1>12

\* The handlers of an answer start with a lock that outlives the first extension.
LEMMA DispatchIInv ==
  ASSUME IInv, NEW w \in Worker, NEW l \in Loop, Dispatch(w, l) PROVE IInv'
<1>1. Typed /\ TypeOK /\ Formed
  BY Tables DEF IInv
<1>2. PICK got : got = loop[w][l].got
  OBVIOUS
<1>3. PICK f \in [got -> Slot] :
        /\ job' \in [Worker -> [Slot -> JobRec]]
        /\ \A t \in got : job[w][f[t]] = NoJob /\ job'[w][f[t]] = NewJob(w, t)
        /\ \A s \in Slot : s \in Range(f) \/ job'[w][s] = job[w][s]
        /\ \A v \in Worker \ {w} : job'[v] = job[v]
  BY <1>1, <1>2, DispatchSlots
<1>4. PICK r \in LoopRec : SetLoop(w, l, r) /\ r.got = {}
  BY NextPollSets DEF Dispatch
<1>5. /\ loop' \in [Worker -> [Loop -> LoopRec]] /\ loop'[w][l] = r
      /\ \A v \in Worker, k \in Loop : v # w \/ k # l => loop'[v][k] = loop[v][k]
  BY <1>1, <1>4, LoopSet
<1>6. /\ loop[w][l].pc = "answered" /\ loop[w][l] # NoLoop /\ got \subseteq Task
      /\ UNCHANGED <<serverVars, running, current, stopping, awaited, boundVars, ghostVars>>
  BY <1>1, <1>2, Empty, Fields DEF Dispatch, Typed
<1>7. \A v \in Worker, u \in Slot :
        \/ job'[v][u] = job[v][u]
        \/ v = w /\ \E t \in got : u = f[t] /\ job'[v][u] = NewJob(w, t)
  BY <1>3 DEF Range
<1>8. TypeOK'
  BY <1>1, <1>3, <1>5, <1>6, Tables DEF Typed
<1>9. Formed'
  BY <1>1, <1>4, <1>5, <1>6, <1>7, NewJobFields DEF Formed
<1>10. ASSUME NEW t \in open \ spoiled PROVE Exclusive(t)'
  <2>1. Exclusive(t) /\ t \in Task
    BY <1>1 DEF IInv, Typed
  <2>2. \A v \in Worker, k \in Loop :
           t \in loop'[v][k].got => t \in loop[v][k].got /\ loop'[v][k].age = loop[v][k].age
    BY <1>4, <1>5
  <2>3. CASE t \in got
    <3>1. ASSUME OneHand(w, t)
          PROVE  /\ OneHand(w, t)' /\ \A k \in Loop : t \notin loop'[w][k].got
                 /\ \A u \in Slot :
                      job'[w][u].task = t => u = f[t] /\ job'[w][u] = NewJob(w, t)
      <4>1. \A u \in Slot : job[w][u].task # t
        BY <1>2, <2>3, <3>1 DEF OneHand
      <4>2. \A k \in Loop : t \notin loop'[w][k].got
        BY <1>2, <1>4, <1>5, <2>3, <3>1 DEF OneHand
      <4>3. \A u \in Slot : job'[w][u].task = t => u = f[t] /\ job'[w][u] = NewJob(w, t)
        BY <1>6, <1>7, <4>1, NewJobFields
      <4> QED  BY <4>2, <4>3 DEF OneHand
    <3>2. \A v \in Worker \ {w} : OneHand(v, t) => OneHand(v, t)'
      BY <1>3, <2>2 DEF OneHand
    <3>3. Held(t)'
      <4> SUFFICES ASSUME NEW v \in Timely, NEW u \in Slot, job'[v][u].task = t
                   PROVE  owner'[t] = v /\ job'[v][u].extend < lease'[t]
        BY DEF Held
      <4>1. v \in Worker /\ v \in AutoExtend /\ MaxLatency + ExtendEvery < LockDuration
        BY TimelyWorker
      <4>2. CASE v = w
        <5>1. owner[t] = w /\ LockDuration - loop[w][l].age <= lease[t]
          BY <1>2, <2>1, <2>3, <4>2 DEF Exclusive, Coming
        <5>2. loop[w][l].age \in 0..MaxLatency /\ lease[t] \in 0..LockDuration
          BY <1>1, <2>1, Fields DEF Typed
        <5>3. job'[v][u] = NewJob(w, t) /\ NewJob(w, t).extend = ExtendEvery
          BY <2>1, <3>1, <4>1, <4>2, NewJobFields DEF Exclusive, Apart
        <5> QED  BY <1>6, <4>1, <4>2, <5>1, <5>2, <5>3, DurationAssumption
      <4>3. CASE v # w
        <5>1. job'[v][u] = job[v][u]
          BY <1>3, <4>1, <4>3
        <5> QED  BY <1>6, <2>1, <5>1 DEF Exclusive, Held
      <4> QED  BY <4>2, <4>3
    <3>4. Coming(t)'
      BY <1>6, <2>1, <2>2, TimelyWorker DEF Exclusive, Coming
    <3>5. Apart(t)'
      BY <2>1, <3>1, <3>2, TimelyWorker DEF Exclusive, Apart
    <3>6. ASSUME t \notin expired PROVE Alone(t)'
      <4>1. Alone(t)
        BY <2>1, <3>6 DEF Exclusive
      <4>2. owner[t] = w /\ lease[t] > 0
        BY <1>2, <2>3, <4>1 DEF Alone
      <4>3. \A v \in Worker : OneHand(v, t)'
        BY <3>1, <3>2, <4>1 DEF Alone
      <4>4. \A v \in Worker \ {w} : \A u \in Slot : job'[v][u].task # t
        BY <1>3, <4>1, <4>2 DEF Alone
      <4>5. \A v \in Worker \ {w} : \A k \in Loop : t \notin loop'[v][k].got
        BY <2>2, <4>1, <4>2 DEF Alone
      <4> QED  BY <1>6, <4>2, <4>3, <4>4, <4>5 DEF Alone
    <3> QED  BY <1>6, <3>3, <3>4, <3>5, <3>6 DEF Exclusive
  <2>4. CASE t \notin got
    <3>1. \A v \in Worker, u \in Slot :
             job'[v][u].task = t => job[v][u].task = t /\ job'[v][u].extend = job[v][u].extend
      BY <1>6, <1>7, <2>4, NewJobFields
    <3> QED  BY <1>6, <2>1, <2>2, <3>1, StaysExclusive
  <2> QED  BY <2>3, <2>4
<1>11. ASSUME NEW v \in Worker \ restarted PROVE Tidy(v)'
  <2>1. Tidy(v)
    BY DEF IInv
  <2>2. CASE v = w
    BY <1>1, <1>5, <1>6, <2>1, <2>2 DEF Tidy, Typed
  <2>3. CASE v # w
    BY <1>3, <1>5, <1>6, <2>1, <2>3 DEF Tidy
  <2> QED  BY <2>2, <2>3
<1> QED  BY <1>6, <1>8, <1>9, <1>10, <1>11 DEF IInv

\* The process dies: its loops and handlers are gone.
LEMMA CrashIInv == ASSUME IInv, NEW w \in Worker, Crash(w) PROVE IInv'
<1>1. Typed /\ TypeOK /\ Formed
  BY Tables DEF IInv
<1>2. /\ UNCHANGED <<serverVars, current, losses, starts, spoiled, expired>>
      /\ restarted' = restarted \ {w} /\ crashes < MaxCrashes /\ crashes' = crashes + 1
      /\ running' = [running EXCEPT ![w] = FALSE] /\ stopping' = [stopping EXCEPT ![w] = "no"]
      /\ awaited' = [awaited EXCEPT ![w] = {}]
  BY DEF Crash
<1>3. /\ loop' \in [Worker -> [Loop -> LoopRec]]
      /\ \A k \in Loop : loop'[w][k] = NoLoop
      /\ \A v \in Worker \ {w} : loop'[v] = loop[v]
  BY <1>1, Empty DEF Crash, Typed
<1>4. /\ job' \in [Worker -> [Slot -> JobRec]]
      /\ \A u \in Slot : job'[w][u] = NoJob
      /\ \A v \in Worker \ {w} : job'[v] = job[v]
  BY <1>1, Empty DEF Crash, Typed
<1>5. TypeOK'
  BY <1>1, <1>2, <1>3, <1>4, BoundAssumption, Tables DEF Typed
<1>6. Formed'
  <2>1. ASSUME NEW v \in Worker, NEW u \in Slot PROVE FormedJob(job'[v][u])
    <3>1. CASE v = w
      BY <1>4, <3>1, Empty DEF FormedJob
    <3>2. CASE v # w
      BY <1>1, <1>4, <3>2 DEF Formed
    <3> QED  BY <3>1, <3>2
  <2>2. \A v \in Worker, k \in Loop : loop'[v][k] = NoLoop \/ loop'[v][k] = loop[v][k]
    BY <1>3
  <2> QED  BY <1>1, <2>1, <2>2, Empty DEF Formed
<1>7. ASSUME NEW t \in open \ spoiled PROVE Exclusive(t)'
  <2>1. Exclusive(t) /\ t # NoTask
    BY <1>1, NullAssumption DEF IInv, Typed
  <2>2. \A v \in Worker, k \in Loop :
           t \in loop'[v][k].got => t \in loop[v][k].got /\ loop'[v][k].age = loop[v][k].age
    BY <1>3, Empty
  <2>3. \A v \in Worker, u \in Slot :
           job'[v][u].task = t => job[v][u].task = t /\ job'[v][u].extend = job[v][u].extend
    BY <1>4, <2>1, Empty
  <2> QED  BY <1>2, <2>1, <2>2, <2>3, StaysExclusive
<1>8. ASSUME NEW v \in Worker \ restarted' PROVE Tidy(v)'
  <2>1. CASE v = w
    BY <1>1, <1>2, <1>3, <1>4, <2>1 DEF Tidy, Typed
  <2>2. CASE v # w
    BY <1>1, <1>2, <1>3, <1>4, <2>2 DEF IInv, Tidy, Typed
  <2> QED  BY <2>1, <2>2
<1> QED  BY <1>2, <1>5, <1>6, <1>7, <1>8 DEF IInv

\* A tick brings every lock and every extension one tick nearer.
LEMMA TickIInv == ASSUME IInv, Tick PROVE IInv'
<1>1. Typed /\ TypeOK /\ Formed
  BY Tables DEF IInv
<1>2. /\ lease' = [t \in Task |-> IF lease[t] = 0 THEN 0 ELSE lease[t] - 1]
      /\ UNCHANGED <<open, incident, owner, running, current, stopping, awaited,
                     boundVars, spoiled, restarted>>
      /\ expired' = expired \cup {t \in Task : lease[t] = 1 /\ InHands(t)}
  BY DEF Tick
<1>3. ASSUME NEW v \in Worker, NEW k \in Loop
      PROVE  /\ loop'[v][k] \in LoopRec /\ loop'[v][k].got = loop[v][k].got
             /\ loop'[v][k].pc = loop[v][k].pc
             /\ loop[v][k].got = {} => loop'[v][k] = loop[v][k]
             /\ loop[v][k].got # {} => /\ loop[v][k].age < MaxLatency
                                      /\ loop'[v][k].age = loop[v][k].age + 1
  <2>1. /\ loop[v][k] \in LoopRec
        /\ loop'[v][k] = IF loop[v][k].got = {} THEN loop[v][k]
                         ELSE [loop[v][k] EXCEPT !.age = @ + 1]
        /\ loop[v][k].got # {} => loop[v][k].age < MaxLatency
    BY <1>1 DEF Tick, Typed
  <2>2. CASE loop[v][k].got = {}
    BY <2>1, <2>2
  <2>3. CASE loop[v][k].got # {}
    <3>1. loop[v][k].age + 1 \in 0..MaxLatency
      BY <2>1, <2>3, Fields, DurationAssumption
    <3> QED  BY <2>1, <2>3, <3>1 DEF LoopRec
  <2> QED  BY <2>2, <2>3
<1>4. ASSUME NEW v \in Worker, NEW u \in Slot
      PROVE  /\ job'[v][u] \in JobRec /\ FormedJob(job'[v][u])
             /\ job'[v][u].task = job[v][u].task
             /\ job[v][u] = NoJob <=> job'[v][u] = NoJob
             /\ job[v][u] # NoJob /\ v \in AutoExtend =>
                  /\ job[v][u].extend \in Nat
                  /\ job'[v][u].extend < job[v][u].extend
  <2>1. /\ job[v][u] \in JobRec /\ FormedJob(job[v][u])
        /\ job'[v][u] = IF job[v][u] = NoJob THEN NoJob
                        ELSE [job[v][u] EXCEPT !.extend = IF @ = 0 THEN 0 ELSE @ - 1,
                                               !.delay = IF @ = 0 THEN 0 ELSE @ - 1]
        /\ job[v][u] # NoJob /\ v \in AutoExtend => job[v][u].extend # 0
    <3>1. job[v][u] \in JobRec /\ FormedJob(job[v][u])
      BY <1>1 DEF Typed, Formed
    <3>2. job'[v][u] = IF job[v][u] = NoJob THEN NoJob
                       ELSE [job[v][u] EXCEPT !.extend = IF @ = 0 THEN 0 ELSE @ - 1,
                                              !.delay = IF @ = 0 THEN 0 ELSE @ - 1]
      BY DEF Tick
    <3>3. ~ExtendDue(v, u)
      BY DEF Tick
    <3> QED  BY <3>1, <3>2, <3>3 DEF ExtendDue
  <2>2. CASE job[v][u] = NoJob
    BY <2>1, <2>2
  <2>3. CASE job[v][u] # NoJob
    <3> DEFINE d == IF job[v][u].delay = 0 THEN 0 ELSE job[v][u].delay - 1
               e == IF job[v][u].extend = 0 THEN 0 ELSE job[v][u].extend - 1
    <3>0. job[v][u].extend \in 0..ExtendEvery /\ job[v][u].delay \in 0..MaxDelay
      BY <2>1, Fields
    <3>1. /\ job[v][u].extend \in Nat /\ e \in 0..ExtendEvery /\ d \in 0..MaxDelay
          /\ job[v][u].extend # 0 => e < job[v][u].extend
      BY <3>0, DurationAssumption, RetryAssumption
    <3>2. job'[v][u] = [job[v][u] EXCEPT !.extend = e, !.delay = d]
      BY <2>1, <2>3
    <3> HIDE DEF d, e
    <3>3. /\ job'[v][u] \in JobRec /\ job'[v][u].task = job[v][u].task
          /\ job'[v][u].pc = job[v][u].pc /\ job'[v][u].attempt = job[v][u].attempt
          /\ job'[v][u].extend = e
      BY <2>1, <3>1, <3>2 DEF JobRec
    <3>4. FormedJob(job'[v][u]) /\ job'[v][u] # NoJob
      BY <2>1, <2>3, <3>3, Empty, NullAssumption DEF FormedJob
    <3> QED  BY <2>1, <2>3, <3>1, <3>3, <3>4
  <2> QED  BY <2>2, <2>3
<1>5. TypeOK'
  <2>1. lease' \in [Task -> 0..LockDuration]
    <3>1. \A t \in Task : lease[t] \in 0..LockDuration
      BY <1>1 DEF Typed
    <3>2. \A t \in Task : (IF lease[t] = 0 THEN 0 ELSE lease[t] - 1) \in 0..LockDuration
      BY <3>1, DurationAssumption
    <3> QED  BY <1>2, <3>2
  <2>2. loop' \in [Worker -> [Loop -> LoopRec]]
    <3>1. loop' = [v \in Worker |-> loop'[v]]
      BY DEF Tick
    <3>2. \A v \in Worker : loop'[v] = [k \in Loop |-> loop'[v][k]]
      BY DEF Tick
    <3> QED  BY <1>3, <3>1, <3>2
  <2>3. job' \in [Worker -> [Slot -> JobRec]]
    <3>1. job' = [v \in Worker |-> job'[v]]
      BY DEF Tick
    <3>2. \A v \in Worker : job'[v] = [u \in Slot |-> job'[v][u]]
      BY DEF Tick
    <3> QED  BY <1>4, <3>1, <3>2
  <2> QED  BY <1>1, <1>2, <2>1, <2>2, <2>3, Tables DEF Typed
<1>6. Formed'
  BY <1>1, <1>3, <1>4 DEF Formed
<1>7. ASSUME NEW t \in open \ spoiled PROVE Exclusive(t)'
  <2>1. Exclusive(t) /\ t \in Task /\ t # NoTask
    BY <1>1, NullAssumption DEF IInv, Typed
  <2>2. lease[t] \in Nat /\ owner'[t] = owner[t] /\ lease'[t] = IF lease[t] = 0 THEN 0 ELSE lease[t] - 1
    BY <1>1, <1>2, <2>1, DurationAssumption DEF Typed
  <2>3. Held(t)'
    <3> SUFFICES ASSUME NEW v \in Timely, NEW u \in Slot, job'[v][u].task = t
                 PROVE  owner'[t] = v /\ job'[v][u].extend < lease'[t]
      BY DEF Held
    <3>1. v \in Worker /\ v \in AutoExtend
      BY TimelyWorker
    <3>2. job[v][u].task = t /\ job[v][u] # NoJob
      BY <1>4, <2>1, <3>1, Empty
    <3>3. owner[t] = v /\ job[v][u].extend < lease[t]
      BY <2>1, <3>2 DEF Exclusive, Held
    <3>4. /\ job[v][u].extend \in Nat /\ job'[v][u].extend < job[v][u].extend
          /\ job'[v][u].extend \in 0..ExtendEvery
      BY <1>4, <3>1, <3>2, Fields
    <3> QED  BY <2>2, <3>3, <3>4, DurationAssumption
  <2>4. Coming(t)'
    <3> SUFFICES ASSUME NEW v \in Timely, NEW k \in Loop, t \in loop'[v][k].got
                 PROVE  owner'[t] = v /\ LockDuration - loop'[v][k].age <= lease'[t]
      BY DEF Coming
    <3>1. v \in Worker /\ MaxLatency + ExtendEvery < LockDuration
      BY TimelyWorker
    <3>2. t \in loop[v][k].got /\ loop[v][k].age \in 0..MaxLatency
      BY <1>1, <1>3, <3>1, Fields DEF Typed
    <3>3. owner[t] = v /\ LockDuration - loop[v][k].age <= lease[t]
      BY <2>1, <3>2 DEF Exclusive, Coming
    <3>4. loop[v][k].age < MaxLatency /\ loop'[v][k].age = loop[v][k].age + 1
      BY <1>3, <3>1, <3>2
    <3> QED  BY <2>2, <3>1, <3>2, <3>3, <3>4, DurationAssumption
  <2>5. \A v \in Worker : OneHand(v, t) => OneHand(v, t)'
    BY <1>3, <1>4 DEF OneHand
  <2>6. Apart(t)'
    BY <2>1, <2>5, TimelyWorker DEF Exclusive, Apart
  <2>7. ASSUME t \notin expired' PROVE Alone(t)'
    <3>1. Alone(t) /\ ~(lease[t] = 1 /\ InHands(t))
      BY <1>2, <2>1, <2>7 DEF Exclusive
    <3>2. InHands(t) /\ lease[t] > 0 => lease'[t] > 0
      BY <2>2, <3>1
    <3>3. ASSUME NEW v \in Worker, NEW u \in Slot, job'[v][u].task = t
          PROVE  owner'[t] = v /\ lease'[t] > 0
      <4>1. job[v][u].task = t
        BY <1>4, <3>3
      <4>2. <<v, u>> \in Jobs(t)
        BY <4>1 DEF Jobs
      <4> QED  BY <2>2, <3>1, <3>2, <4>1, <4>2 DEF Alone, InHands
    <3>4. ASSUME NEW v \in Worker, NEW k \in Loop, t \in loop'[v][k].got
          PROVE  owner'[t] = v /\ lease'[t] > 0
      <4>1. t \in loop[v][k].got
        BY <1>3, <3>4
      <4> QED  BY <2>2, <3>1, <3>2, <4>1 DEF Alone, InHands
    <3> QED  BY <2>5, <3>1, <3>3, <3>4 DEF Alone
  <2> QED  BY <2>3, <2>4, <2>6, <2>7 DEF Exclusive
<1>8. ASSUME NEW v \in Worker \ restarted PROVE Tidy(v)'
  <2>1. Tidy(v)
    BY DEF IInv
  <2>2. \A k \in Loop : loop[v][k] = NoLoop => loop'[v][k] = NoLoop
    BY <1>3, Empty
  <2> QED  BY <1>2, <1>4, <2>1, <2>2 DEF Tidy
<1> QED  BY <1>2, <1>5, <1>6, <1>7, <1>8 DEF IInv

\* Every step keeps the invariant.
LEMMA NextIInv == IInv /\ [Next]_vars => IInv'
<1> SUFFICES ASSUME IInv, [Next]_vars PROVE IInv'
  OBVIOUS
<1>1. ASSUME NEW w \in Worker, Start(w) \/ Stop(w) \/ StopStep(w) \/ Crash(w) PROVE IInv'
  BY <1>1, StartIInv, StopIInv, StopStepIInv, CrashIInv
<1>2. ASSUME NEW w \in Worker, NEW l \in Loop, AnswerFetch(w, l) \/ LoopStep(w, l) \/ LoseFetch(w, l)
      PROVE  IInv'
  BY <1>2, ServeFetchIInv, DispatchIInv, PollIInv DEF AnswerFetch, LoopStep
<1>3. ASSUME NEW w \in Worker, NEW s \in Slot, JobStep(w, s) \/ ExtendLock(w, s) \/ LoseRequest(w, s)
      PROVE  IInv'
  BY <1>3, FailAttemptIInv, ServeDecisionIInv, RetryIInv, ServeFailureIInv, ExtendLockIInv,
     LoseRequestIInv DEF JobStep
<1>4. CASE UNCHANGED vars
  BY <1>4, Tables
     DEF vars, IInv, Typed, Formed, Exclusive, Held, Coming, Apart, OneHand, Alone, Tidy
<1> QED  BY <1>1, <1>2, <1>3, <1>4, TickIInv DEF Next

\* The invariant holds along every behaviour.
LEMMA IInvCorrect == Spec => []IInv
  BY InitIInv, NextIInv, PTL DEF Spec

\* ExternalTaskClient.ts and the lock of service_task.rs, for any number of workers,
\* any of them with autoExtendLock or without, and any durations: until its lock runs
\* out in some worker's hands a task has one handler, which has the lock; and a worker
\* whose extension comes in time keeps the lock through the retries of its handler and
\* starts no second one, also when locks of the others run out; unless a request was
\* lost.
THEOREM HandlersWorkAlone == Spec => []Consistent
<1>1. IInv => Consistent
  <2> SUFFICES ASSUME IInv, NEW t \in open \ spoiled
               PROVE  /\ t \notin expired => /\ Cardinality(Jobs(t)) <= 1
                                             /\ \A p \in Jobs(t) : owner[t] = p[1] /\ lease[t] > 0
                      /\ \A p \in Jobs(t) : p[1] \in Timely =>
                           /\ owner[t] = p[1] /\ lease[t] > 0
                           /\ \A q \in Jobs(t) \ {p} : q[1] # p[1]
    BY DEF IInv, Consistent, WorkIsExclusive
  <2>1. Exclusive(t) /\ Typed
    BY Tables DEF IInv
  <2>2. \A p \in Jobs(t) : p[1] \in Worker /\ p[2] \in Slot /\ p = <<p[1], p[2]>> /\ job[p[1]][p[2]].task = t
    BY DEF Jobs
  <2>3. ASSUME t \notin expired
        PROVE  /\ Cardinality(Jobs(t)) <= 1
               /\ \A p \in Jobs(t) : owner[t] = p[1] /\ lease[t] > 0
    <3>1. Alone(t)
      BY <2>1, <2>3 DEF Exclusive
    <3>2. \A p \in Jobs(t) : owner[t] = p[1] /\ lease[t] > 0
      BY <2>2, <3>1 DEF Alone
    <3>3. \A p, q \in Jobs(t) : p = q
      BY <2>2, <3>1, <3>2 DEF Alone, OneHand
    <3>4. CASE Jobs(t) = {}
      BY <3>2, <3>4, FS_EmptySet
    <3>5. ASSUME NEW p \in Jobs(t) PROVE Cardinality(Jobs(t)) <= 1
      <4>1. Jobs(t) = {p}
        BY <3>3, <3>5
      <4>2. Cardinality({p}) = 1
        BY FS_Singleton
      <4> QED  BY <4>1, <4>2
    <3> QED  BY <3>2, <3>4, <3>5
  <2>4. ASSUME NEW p \in Jobs(t), p[1] \in Timely
        PROVE  /\ owner[t] = p[1] /\ lease[t] > 0
               /\ \A q \in Jobs(t) \ {p} : q[1] # p[1]
    <3>1. job[p[1]][p[2]].extend \in Nat /\ lease[t] \in Nat
      BY <2>1, <2>2, Fields, DurationAssumption DEF Typed
    <3>2. owner[t] = p[1] /\ job[p[1]][p[2]].extend < lease[t]
      BY <2>1, <2>2, <2>4 DEF Exclusive, Held
    <3>3. \A q \in Jobs(t) : q[1] = p[1] => q = p
      BY <2>1, <2>2, <2>4 DEF Exclusive, Apart, OneHand
    <3> QED  BY <3>1, <3>2, <3>3
  <2> QED  BY <2>3, <2>4
<1> QED  BY <1>1, IInvCorrect, PTL

\* stop() of client.ts: when it has returned, no poll loop and no handler of the
\* worker is left, although answers arrive, handlers start and end, requests are
\* lost and the process dies while it waits; unless start() came under it.
THEOREM StopLeavesNothing == Spec => []StopIsClean
<1>1. IInv => StopIsClean
  BY DEF IInv, StopIsClean, Tidy, Active, Idle
<1> QED  BY <1>1, IInvCorrect, PTL
=============================================================================
