------------------------- MODULE ServiceTaskProofs -------------------------
(***************************************************************************)
(* Proofs about ServiceTask, for any number of instances, tokens, tasks,   *)
(* workers and concurrent calls.                                           *)
(***************************************************************************)
EXTENDS ServiceTask, FiniteSetTheorems, TLAPS

Busy(c) == pc[c] # "idle"

\* What TypeOK does not say of the places a token can be in.  It is inductive
\* where the two safety properties are not: they do not say that the token of
\* a queued task is parked, nor that a call and the queue never share a token.
PlaceInv ==
  /\ pending \subseteq created
  /\ \A c \in Call : Busy(c) => job[c] \in created
  /\ \A c, d \in Call : Busy(c) /\ Busy(d) /\ c # d => JobToken(c) # JobToken(d)
  /\ \A c \in Call, t \in pending : Busy(c) => tokenOf[t] # JobToken(c)
  /\ \A t, u \in pending : t # u => tokenOf[t] # tokenOf[u]
  /\ \A t \in pending : tokenOf[t] \in stored /\ fate[tokenOf[t]] = "live"
  /\ \A c \in Call : pc[c] \in ClaimPC \cup OfferPC =>
       JobToken(c) \in stored /\ fate[JobToken(c)] = "live"
  /\ \A c \in Call : pc[c] \in HandPC =>
       JobToken(c) \notin stored /\ fate[JobToken(c)] = "live"
  /\ \A k \in Token : fate[k] \in {"live", "stuck"} =>
       k \in stored \/ \E c \in Call : pc[c] \in HandPC /\ JobToken(c) = k
  /\ \A k \in stored : fate[k] \in {"live", "stuck"}

IInv == TypeOK /\ PlaceInv


----------------------------------------------------------------------------
(***************************************************************************)
(* Type correctness.                                                       *)
(***************************************************************************)

USE DEF taskVars, instVars, callVars

\* The instances as the engine leaves them at their first wait states are typed.
LEMMA InitTypeOK == Init => TypeOK
  BY InstOfAssumption, BoundsAssumption, RetryAssumption
  DEF Init, TypeOK, Parallel, State, Fate, PC

\* The worker endpoints keep the types: durations stay in 0..MaxLease, owners
\* are workers, and a call takes a label and a task together.
LEMMA WorkerCallTypeOK == TypeOK /\ WorkerCall => TypeOK'
<1> SUFFICES ASSUME TypeOK, WorkerCall PROVE TypeOK'
  OBVIOUS
<1> USE BoundsAssumption, RetryAssumption, NullAssumption
<1>1. ASSUME NEW w \in Worker, NEW topics \in SUBSET Topic, NEW d \in 0..MaxLease,
             FetchAndLock(w, topics, d)
      PROVE  TypeOK'
  BY <1>1 DEF TypeOK, FetchAndLock, Fetchable
<1>2. ASSUME NEW w \in Worker, NEW t \in Task, NEW d \in 0..MaxLease, ExtendLock(w, t, d)
      PROVE  TypeOK'
  BY <1>2 DEF TypeOK, ExtendLock
<1>3. ASSUME NEW w \in Worker, NEW t \in Task, FailTask(w, t)
      PROVE  TypeOK'
  BY <1>3 DEF TypeOK, FailTask, SetRetriesAndUnlock, Lock
<1>4. ASSUME NEW w \in Worker, NEW t \in Task, NEW c \in Call, CompleteTask(c, w, t)
      PROVE  TypeOK'
  BY <1>4 DEF TypeOK, CompleteTask, Claim, PC
<1>5. ASSUME NEW w \in Worker, NEW t \in Task, NEW c \in Call, HandleBpmnError(c, w, t)
      PROVE  TypeOK'
  BY <1>5 DEF TypeOK, HandleBpmnError, Claim, PC
<1>6. QED
  BY <1>1, <1>2, <1>3, <1>4, <1>5 DEF WorkerCall

\* The operator's endpoints keep the types; a suspension never stores Completed
\* or Suspended as the previous state.
LEMMA OperatorCallTypeOK == TypeOK /\ OperatorCall => TypeOK'
<1> SUFFICES ASSUME TypeOK, OperatorCall PROVE TypeOK'
  OBVIOUS
<1> USE BoundsAssumption, RetryAssumption, NullAssumption
<1>1. ASSUME NEW t \in Task, RetryIncident(t) PROVE TypeOK'
  BY <1>1 DEF TypeOK, RetryIncident, SetRetriesAndUnlock, Lock
<1>2. ASSUME NEW t \in Task, NEW c \in Call, ResolveIncident(c, t) PROVE TypeOK'
  BY <1>2 DEF TypeOK, ResolveIncident, Claim, PC
<1>3. ASSUME NEW i \in Instance, SuspendInstance(i) PROVE TypeOK'
  BY <1>3 DEF TypeOK, SuspendInstance, State
<1>4. ASSUME NEW i \in Instance, ResumeInstance(i) PROVE TypeOK'
  BY <1>4 DEF TypeOK, ResumeInstance, State
<1>5. ASSUME NEW i \in Instance, DeleteInstance(i) PROVE TypeOK'
  BY <1>5 DEF TypeOK, DeleteInstance
<1>6. QED
  BY <1>1, <1>2, <1>3, <1>4, <1>5 DEF OperatorCall

\* Every critical section of a call under way keeps the types.
LEMMA CallStepTypeOK == ASSUME TypeOK, NEW c \in Call, CallStep(c) PROVE TypeOK'
<1> USE InstOfAssumption, BoundsAssumption, RetryAssumption, NullAssumption
        DEF TypeOK, Goto, Return, PC
<1>1. CASE LookupInstance(c)
  BY <1>1 DEF LookupInstance
<1>2. CASE CheckSuspended(c)
  BY <1>2 DEF CheckSuspended
<1>3. CASE TakeToken(c)
  <2>1. CASE JobInst(c) \in exists /\ JobToken(c) \in stored
    BY <1>3, <2>1 DEF TakeToken, Forget, Lock
  <2>2. CASE JobInst(c) \notin exists \/ JobToken(c) \notin stored
    BY <1>3, <2>2 DEF TakeToken, Forget, Lock
  <2> QED  BY <2>1, <2>2
<1>4. CASE SetRunning(c)
  BY <1>4 DEF SetRunning, Abort, JobToken, JobInst, State, Fate
<1>5. CASE RouteBpmnError(c)
  BY <1>5 DEF RouteBpmnError, JobToken, JobInst, Forget, Lock, State, Fate
<1>6. CASE AdvanceToken(c)
  BY <1>6 DEF AdvanceToken, Abort, JobToken, Fate
<1>7. ASSUME NEW t \in Task, ParkAtServiceTask(c, t) PROVE TypeOK'
  BY <1>7 DEF ParkAtServiceTask, JobToken
<1>8. CASE SetWaiting(c)
  BY <1>8 DEF SetWaiting, JobToken, JobInst, State
<1>9. CASE Enqueue(c)
  BY <1>9 DEF Enqueue
<1>10. CASE EndBranch(c)
  BY <1>10 DEF EndBranch, JobToken, Fate
<1>11. CASE CloseInstance(c)
  BY <1>11 DEF CloseInstance, JobToken, JobInst, State
<1>12. CASE StepFails(c)
  BY <1>12 DEF StepFails, Abort, JobToken, Fate
<1>13. QED
  BY <1>1, <1>2, <1>3, <1>4, <1>5, <1>6, <1>7, <1>8, <1>9, <1>10, <1>11, <1>12
  DEF CallStep

\* Every step keeps the types.
LEMMA NextTypeOK == TypeOK /\ [Next]_vars => TypeOK'
<1> SUFFICES ASSUME TypeOK, [Next]_vars PROVE TypeOK'
  OBVIOUS
<1>1. ASSUME NEW i \in Instance, DeleteStep(i) PROVE TypeOK'
  BY <1>1 DEF DeleteStep, PurgeQueues, DeleteFails, TypeOK
<1>2. CASE Tick
  BY <1>2, BoundsAssumption DEF Tick, TypeOK
<1>3. CASE UNCHANGED vars
  BY <1>3 DEF vars, TypeOK
<1>4. QED
  BY <1>1, <1>2, <1>3, WorkerCallTypeOK, OperatorCallTypeOK, CallStepTypeOK DEF Next

\* Every variable of the model keeps its type in every behaviour.
THEOREM TypeCorrect == Spec => []TypeOK
<1>1. QED
  BY InitTypeOK, NextTypeOK, PTL DEF Spec

----------------------------------------------------------------------------
(***************************************************************************)
(* The places of a token.                                                  *)
(***************************************************************************)

\* At the first wait states each token is parked at one queued task.
LEMMA InitPlaceInv == Init => PlaceInv
  BY InstOfAssumption, NullAssumption
  DEF Init, PlaceInv, Busy, JobToken, ClaimPC, OfferPC, HandPC

\* Locks, retries and the instance's own state are no part of PlaceInv.
placeVars == <<pending, created, tokenOf, stored, fate, pc, job>>

\* A step that leaves the queue, the tokens and the calls alone keeps PlaceInv.
LEMMA UnchangedPlaceInv == PlaceInv /\ UNCHANGED placeVars => PlaceInv'
  BY DEF PlaceInv, placeVars, Busy, JobToken

\* A call that ends a task takes it, with its token, out of the queue.
LEMMA ClaimPlaceInv ==
  ASSUME TypeOK, PlaceInv, NEW c \in Call, NEW t \in pending, NEW label \in ClaimPC,
         Claim(c, t, label)
  PROVE  PlaceInv'
  BY NullAssumption
  DEF Claim, TypeOK, PlaceInv, Busy, JobToken, ClaimPC, OfferPC, HandPC, PC

\* A call that goes on, its token where it was.
SameHands(label, next) == \/ label \in ClaimPC /\ next \in ClaimPC
                          \/ label \in HandPC /\ next \in HandPC
                          \/ label \in OfferPC /\ next \in OfferPC

LEMMA GotoPlaceInv ==
  ASSUME TypeOK, PlaceInv, NEW c \in Call, NEW next \in PC, SameHands(pc[c], next), Goto(c, next),
         UNCHANGED <<pending, created, tokenOf, stored, fate>>
  PROVE  PlaceInv'
<1>1. /\ pc'[c] = next /\ \A d \in Call \ {c} : pc'[d] = pc[d]
      /\ job' = job /\ pc[c] # "idle" /\ next # "idle"
  BY DEF TypeOK, Goto, SameHands, ClaimPC, HandPC, OfferPC
<1>2. \A d \in Call : (Busy(d)' <=> Busy(d)) /\ JobToken(d)' = JobToken(d)
  BY <1>1 DEF Busy, JobToken
<1>3. \A d \in Call : /\ pc'[d] \in ClaimPC \cup OfferPC => pc[d] \in ClaimPC \cup OfferPC
                      /\ pc'[d] \in HandPC <=> pc[d] \in HandPC
  BY <1>1 DEF SameHands, ClaimPC, HandPC, OfferPC
<1>4. /\ \A d \in Call : pc'[d] \in ClaimPC \cup OfferPC =>
           JobToken(d)' \in stored' /\ fate'[JobToken(d)'] = "live"
      /\ \A d \in Call : pc'[d] \in HandPC => JobToken(d)' \notin stored' /\ fate'[JobToken(d)'] = "live"
  BY <1>2, <1>3 DEF PlaceInv
<1>5. \A k \in Token : fate'[k] \in {"live", "stuck"} =>
        k \in stored' \/ \E d \in Call : pc'[d] \in HandPC /\ JobToken(d)' = k
  BY <1>2, <1>3 DEF PlaceInv
<1> QED  BY <1>1, <1>2, <1>4, <1>5 DEF PlaceInv

\* The critical sections of a call that move its token or its task.
LEMMA CallStepPlaceInv ==
  ASSUME TypeOK, PlaceInv, NEW c \in Call, CallStep(c)
  PROVE  PlaceInv'
<1> USE NullAssumption
    DEF TypeOK, PlaceInv, Busy, JobToken, ClaimPC, OfferPC, HandPC, PC, Fate, Goto, Return
<1>1. CASE LookupInstance(c)
  BY <1>1 DEF LookupInstance
<1>2. CASE CheckSuspended(c)
  <2>1. CASE pending' = pending \cup {job[c]} /\ Return(c)
    BY <1>2, <2>1 DEF CheckSuspended
  <2>2. CASE pending' = pending /\ Goto(c, "take")
    <3>1. "take" \in PC /\ SameHands(pc[c], "take") /\ UNCHANGED <<created, tokenOf, stored, fate>>
      BY <1>2 DEF CheckSuspended, SameHands
    <3> HIDE DEF TypeOK, PlaceInv, Goto, PC
    <3> QED  BY <2>2, <3>1, GotoPlaceInv
  <2> QED  BY <1>2, <2>1, <2>2 DEF CheckSuspended
<1>3. CASE TakeToken(c)
  <2>1. CASE JobInst(c) \in exists /\ JobToken(c) \in stored
    BY <1>3, <2>1 DEF TakeToken, Forget
  <2>2. CASE JobInst(c) \notin exists \/ JobToken(c) \notin stored
    <3>1. Return(c) /\ UNCHANGED <<pending, created, tokenOf, stored, fate>> /\ pc[c] \in ClaimPC
      BY <1>3, <2>2 DEF TakeToken, Forget
    <3> QED  BY <3>1
  <2> QED  BY <2>1, <2>2
<1>a. ASSUME pc[c] \in HandPC, Abort(c) PROVE PlaceInv'
  BY <1>a DEF Abort
<1>4. CASE SetRunning(c) \/ AdvanceToken(c)
  <2>1. CASE Abort(c)
    <3>1. pc[c] \in HandPC
      BY <1>4 DEF SetRunning, AdvanceToken
    <3> HIDE DEF TypeOK, PlaceInv, HandPC
    <3> QED  BY <1>a, <2>1, <3>1
  <2>2. ASSUME NEW next \in PC, SameHands(pc[c], next), Goto(c, next),
               UNCHANGED <<pending, created, tokenOf, stored, fate>>
        PROVE  PlaceInv'
    <3> HIDE DEF TypeOK, PlaceInv, Goto, PC
    <3> QED  BY <2>2, GotoPlaceInv
  <2>3. \/ Abort(c)
        \/ \E next \in PC : /\ SameHands(pc[c], next) /\ Goto(c, next)
                            /\ UNCHANGED <<pending, created, tokenOf, stored, fate>>
    <3>1. "advance" \in PC /\ "batch" \in PC
          /\ SameHands("run", "advance") /\ SameHands("advance", "batch")
      BY DEF SameHands
    <3> HIDE DEF TypeOK, PlaceInv, Goto, PC, HandPC, ClaimPC, OfferPC
    <3> QED  BY <1>4, <3>1 DEF SetRunning, AdvanceToken
  <2> HIDE DEF TypeOK, PlaceInv, Goto, PC
  <2> QED  BY <2>1, <2>2, <2>3
<1>5. CASE RouteBpmnError(c)
  <2>1. CASE Return(c) /\ fate' = fate
    BY <1>5, <2>1 DEF RouteBpmnError, Forget
  <2>2. CASE Goto(c, "takeErr")
    <3>1. /\ "takeErr" \in PC /\ SameHands(pc[c], "takeErr")
          /\ UNCHANGED <<pending, created, tokenOf, stored, fate>>
      BY <1>5, <2>2 DEF RouteBpmnError, SameHands, Forget
    <3> HIDE DEF TypeOK, PlaceInv, Goto, PC
    <3> QED  BY <2>2, <3>1, GotoPlaceInv
  <2>3. CASE Return(c) /\ fate' = [fate EXCEPT ![JobToken(c)] = "stuck"]
    BY <1>5, <2>3 DEF RouteBpmnError, Forget
  <2> HIDE DEF TypeOK, PlaceInv, Goto, PC, Return
  <2> QED  BY <1>5, <2>1, <2>2, <2>3 DEF RouteBpmnError
<1>7. ASSUME NEW t \in Task, ParkAtServiceTask(c, t) PROVE PlaceInv'
  BY <1>7 DEF ParkAtServiceTask
<1>8. CASE SetWaiting(c)
  BY <1>8 DEF SetWaiting
<1>9. CASE Enqueue(c)
  BY <1>9 DEF Enqueue
<1>10. CASE EndBranch(c)
  BY <1>10 DEF EndBranch
<1>11. CASE CloseInstance(c)
  BY <1>11 DEF CloseInstance
<1>12. CASE StepFails(c)
  BY <1>12, <1>a DEF StepFails
<1>13. QED
  BY <1>1, <1>2, <1>3, <1>4, <1>5, <1>7, <1>8, <1>9, <1>10, <1>11, <1>12
  DEF CallStep

\* Every step keeps the places of tokens and tasks apart.
LEMMA NextPlaceInv == TypeOK /\ PlaceInv /\ [Next]_vars => PlaceInv'
<1> SUFFICES ASSUME TypeOK, PlaceInv, [Next]_vars PROVE PlaceInv'
  OBVIOUS
<1>1. CASE WorkerCall
  <2>1. ASSUME NEW w \in Worker, NEW t \in Task, NEW c \in Call,
               CompleteTask(c, w, t) \/ HandleBpmnError(c, w, t)
        PROVE  PlaceInv'
    BY <2>1, ClaimPlaceInv DEF CompleteTask, HandleBpmnError, OwnsLock, ClaimPC
  <2>2. ASSUME NEW w \in Worker, NEW t \in Task, NEW d \in 0..MaxLease,
               ExtendLock(w, t, d)
        PROVE  UNCHANGED placeVars
    BY <2>2 DEF placeVars, ExtendLock
  <2>3. ASSUME NEW w \in Worker, NEW topics \in SUBSET Topic, NEW d \in 0..MaxLease,
               FetchAndLock(w, topics, d)
        PROVE  UNCHANGED placeVars
    BY <2>3 DEF placeVars, FetchAndLock
  <2>4. ASSUME NEW w \in Worker, NEW t \in Task, FailTask(w, t)
        PROVE  UNCHANGED placeVars
    BY <2>4 DEF placeVars, FailTask, SetRetriesAndUnlock
  <2>5. QED
    BY <1>1, <2>1, <2>2, <2>3, <2>4, UnchangedPlaceInv DEF WorkerCall
<1>2. CASE OperatorCall
  <2>1. ASSUME NEW t \in Task, NEW c \in Call, ResolveIncident(c, t) PROVE PlaceInv'
    BY <2>1, ClaimPlaceInv DEF ResolveIncident, ClaimPC
  <2>2. ASSUME NEW t \in Task, RetryIncident(t) PROVE UNCHANGED placeVars
    BY <2>2 DEF placeVars, RetryIncident, SetRetriesAndUnlock
  <2>3. ASSUME NEW i \in Instance,
               SuspendInstance(i) \/ ResumeInstance(i) \/ DeleteInstance(i)
        PROVE  UNCHANGED placeVars
    BY <2>3 DEF placeVars, SuspendInstance, ResumeInstance, DeleteInstance
  <2>4. QED
    BY <1>2, <2>1, <2>2, <2>3, UnchangedPlaceInv DEF OperatorCall
<1>3. ASSUME NEW i \in Instance, PurgeQueues(i) PROVE PlaceInv'
  BY <1>3 DEF PurgeQueues, TypeOK, PlaceInv, Busy, JobToken
<1>4. ASSUME NEW i \in Instance, DeleteFails(i) PROVE UNCHANGED placeVars
  BY <1>4 DEF DeleteFails, placeVars
<1>5. CASE Tick
  BY <1>5, UnchangedPlaceInv DEF Tick, placeVars
<1>6. CASE UNCHANGED vars
  BY <1>6, UnchangedPlaceInv DEF vars, placeVars
<1>7. QED
  BY <1>1, <1>2, <1>3, <1>4, <1>5, <1>6, UnchangedPlaceInv, CallStepPlaceInv
  DEF Next, DeleteStep

\* The inductive invariant behind the safety theorems: what a token of a queued
\* task, of a call that claimed it and of a call that carries it must look like.
THEOREM IInvCorrect == Spec => []IInv
<1>1. Init => IInv
  BY InitTypeOK, InitPlaceInv DEF IInv
<1>2. IInv /\ [Next]_vars => IInv'
  BY NextTypeOK, NextPlaceInv DEF IInv
<1>3. QED
  BY <1>1, <1>2, PTL DEF Spec

\* However many calls and workers interleave, and whatever the operator does to
\* the instance under them, every token is parked, or carried by one call, or
\* gone with a recorded reason.
THEOREM TokensHaveOnePlace == Spec => []OneTokenOnePlace
<1>1. IInv => OneTokenOnePlace
  BY DEF IInv, TypeOK, PlaceInv, OneTokenOnePlace, Carriers, Busy, HandPC, Fate
<1>2. QED
  BY <1>1, IInvCorrect, PTL

\* No two tasks in the queue or in the hands of calls are for one token, and no
\* two calls hold one task.
THEOREM TasksAreExclusive == Spec => []OneTaskPerToken
<1>1. ASSUME IInv PROVE OneTaskPerToken
  <2> USE <1>1 DEF IInv, PlaceInv, Busy
  <2>1. \A t, u \in ActiveTasks : tokenOf[t] = tokenOf[u] => t = u
    BY DEF ActiveTasks, JobToken, ClaimPC, OfferPC
  <2>2. \A c, d \in Call : pc[c] # "idle" /\ job[c] = job[d] => c = d
    BY NullAssumption DEF TypeOK, JobToken
  <2>3. \A c \in Call : pc[c] # "idle" => job[c] \notin pending
    BY DEF JobToken
  <2>4. QED
    BY <2>1, <2>2, <2>3 DEF OneTaskPerToken
<1>2. QED
  BY <1>1, IInvCorrect, PTL

----------------------------------------------------------------------------
(***************************************************************************)
(* No parked token is left without a task.                                 *)
(***************************************************************************)

\* A step that leaves the queue, the tokens and the calls alone, and creates no
\* instance, strands no token.
LEMMA UnchangedParked ==
  ParkedTokenHasTask /\ UNCHANGED placeVars /\ exists' \subseteq exists => ParkedTokenHasTask'
  BY DEF ParkedTokenHasTask, ActiveTasks, placeVars

\* A claimed task stays active: it moves from the queue to the call.
LEMMA ClaimParked ==
  ASSUME IInv, ParkedTokenHasTask, NEW c \in Call, NEW t \in pending, NEW label \in ClaimPC,
         Claim(c, t, label)
  PROVE  ParkedTokenHasTask'
<1> USE DEF IInv, TypeOK, PlaceInv, Busy, ClaimPC, OfferPC, PC
<1>1. \A u \in ActiveTasks : u \in ActiveTasks'
  BY DEF Claim, ActiveTasks
<1>2. QED
  BY <1>1 DEF Claim, ParkedTokenHasTask

\* The critical sections: a call gives up its task only with its token, or when
\* the instance is gone, or for an error that leaves the token stuck.
LEMMA CallStepParked ==
  ASSUME IInv, ParkedTokenHasTask, NEW c \in Call, CallStep(c)
  PROVE  ParkedTokenHasTask'
<1> USE NullAssumption
    DEF IInv, TypeOK, PlaceInv, ParkedTokenHasTask, ActiveTasks, Busy, JobToken, JobInst,
        ClaimPC, OfferPC, HandPC, PC, Fate, Goto, Return
<1>1. CASE LookupInstance(c)
  BY <1>1 DEF LookupInstance
<1>2. CASE CheckSuspended(c)
  BY <1>2 DEF CheckSuspended
<1>3. CASE TakeToken(c)
  BY <1>3 DEF TakeToken, Forget
<1>a. ASSUME pc[c] \in HandPC, Abort(c) PROVE ParkedTokenHasTask'
  BY <1>a DEF Abort
<1>4. CASE SetRunning(c)
  BY <1>4, <1>a DEF SetRunning
<1>5. CASE RouteBpmnError(c)
  <2>1. CASE JobInst(c) \notin exists /\ Return(c)
    BY <1>5, <2>1 DEF RouteBpmnError, Forget
  <2>2. CASE Goto(c, "takeErr")
    BY <1>5, <2>2 DEF RouteBpmnError, Forget
  <2>3. CASE Return(c) /\ fate' = [fate EXCEPT ![JobToken(c)] = "stuck"]
    BY <1>5, <2>3 DEF RouteBpmnError, Forget
  <2> HIDE DEF IInv, TypeOK, PlaceInv, ParkedTokenHasTask, Goto, PC, Return
  <2> QED  BY <1>5, <2>1, <2>2, <2>3 DEF RouteBpmnError
<1>6. CASE AdvanceToken(c)
  BY <1>6, <1>a DEF AdvanceToken
<1>7. ASSUME NEW t \in Task, ParkAtServiceTask(c, t) PROVE ParkedTokenHasTask'
  BY <1>7 DEF ParkAtServiceTask
<1>8. CASE SetWaiting(c)
  BY <1>8 DEF SetWaiting
<1>9. CASE Enqueue(c)
  BY <1>9 DEF Enqueue
<1>10. CASE EndBranch(c)
  BY <1>10 DEF EndBranch
<1>11. CASE CloseInstance(c)
  BY <1>11 DEF CloseInstance
<1>12. CASE StepFails(c)
  BY <1>12, <1>a DEF StepFails
<1>13. QED
  BY <1>1, <1>2, <1>3, <1>4, <1>5, <1>6, <1>7, <1>8, <1>9, <1>10, <1>11, <1>12
  DEF CallStep

\* Every step leaves every parked token of an instance in the store a task.
LEMMA NextParked == IInv /\ ParkedTokenHasTask /\ [Next]_vars => ParkedTokenHasTask'
<1> SUFFICES ASSUME IInv, ParkedTokenHasTask, [Next]_vars PROVE ParkedTokenHasTask'
  OBVIOUS
<1>1. ASSUME NEW c \in Call, NEW t \in Task,
             ResolveIncident(c, t) \/ \E w \in Worker : CompleteTask(c, w, t) \/ HandleBpmnError(c, w, t)
      PROVE  ParkedTokenHasTask'
  BY <1>1, ClaimParked DEF ResolveIncident, CompleteTask, HandleBpmnError, OwnsLock, ClaimPC
<1>2. ASSUME NEW w \in Worker,
             \/ \E topics \in SUBSET Topic, d \in 0..MaxLease : FetchAndLock(w, topics, d)
             \/ \E t \in Task : FailTask(w, t) \/ \E d \in 0..MaxLease : ExtendLock(w, t, d)
      PROVE  UNCHANGED <<placeVars, exists>>
  BY <1>2 DEF FetchAndLock, ExtendLock, FailTask, SetRetriesAndUnlock, placeVars
<1>3. ASSUME NEW t \in Task, RetryIncident(t) PROVE UNCHANGED <<placeVars, exists>>
  BY <1>3 DEF RetryIncident, SetRetriesAndUnlock, placeVars
<1>4. ASSUME NEW i \in Instance,
             SuspendInstance(i) \/ ResumeInstance(i) \/ DeleteInstance(i) \/ DeleteFails(i)
      PROVE  UNCHANGED placeVars /\ exists' \subseteq exists
  BY <1>4 DEF SuspendInstance, ResumeInstance, DeleteInstance, DeleteFails, placeVars
<1>5. ASSUME NEW i \in Instance, PurgeQueues(i) PROVE ParkedTokenHasTask'
  BY <1>5 DEF PurgeQueues, ParkedTokenHasTask, ActiveTasks, IInv, TypeOK
<1>6. CASE Tick \/ UNCHANGED vars
  BY <1>6, UnchangedParked DEF Tick, vars, placeVars
<1>7. QED
  BY <1>1, <1>2, <1>3, <1>4, <1>5, <1>6, UnchangedParked, CallStepParked
  DEF Next, WorkerCall, OperatorCall, DeleteStep

\* A token parked in an instance that is there can be advanced: some call holds
\* its task or the queue does, whatever was suspended, refused or failed before.
THEOREM ParkedTokensHaveTasks == Spec => []ParkedTokenHasTask
<1>1. Init => ParkedTokenHasTask
  BY DEF Init, ParkedTokenHasTask, ActiveTasks
<1>2. QED
  BY <1>1, NextParked, IInvCorrect, PTL DEF Spec

----------------------------------------------------------------------------
(***************************************************************************)
(* A completed instance is quiet and stays completed.                      *)
(***************************************************************************)

\* A call about to close its instance has ended its token.
CloseInv == \A c \in Call : pc[c] = "close" => fate[JobToken(c)] = "ended"

\* Two tokens of one instance make it parallel (more than one branch).
LEMMA TwoTokensAreParallel ==
  ASSUME NEW i \in Instance, NEW j \in TokensOf(i), NEW k \in TokensOf(i), j # k
  PROVE  Parallel(i)
<1>1. IsFiniteSet(TokensOf(i)) /\ Cardinality(TokensOf(i)) \in Nat
  BY FiniteAssumption, FS_Subset, FS_CardinalityType DEF TokensOf
<1>2. IsFiniteSet({j}) /\ Cardinality({j}) = 1
  BY FS_Singleton
<1>3. Cardinality({j} \cup {k}) = 2
  <2>1. PICK one : one = {j}
    OBVIOUS
  <2>2. Cardinality(one \cup {k}) = Cardinality(one) + 1
    <3>1. IsFiniteSet(one) /\ k \notin one
      BY <1>2, <2>1
    <3> QED  BY <3>1, FS_AddElement
  <2> QED  BY <1>2, <2>1, <2>2
<1>4. Cardinality({j} \cup {k}) <= Cardinality(TokensOf(i))
  BY <1>1, FS_Subset, {j} \cup {k} \subseteq TokensOf(i)
<1>5. QED
  BY <1>1, <1>3, <1>4 DEF Parallel

\* What all_tokens_completed finds is the end of every token of the instance,
\* when the call that asks has ended one of them.
LEMMA AllTokensEnded ==
  ASSUME IInv, CloseInv, NEW c \in Call, pc[c] = "close", AllTokensCompleted(JobInst(c))
  PROVE  \A k \in TokensOf(JobInst(c)) : k \notin stored /\ fate[k] = "ended"
<1>1. JobToken(c) \in TokensOf(JobInst(c)) /\ JobInst(c) \in Instance
  BY InstOfAssumption, NullAssumption DEF IInv, TypeOK, JobToken, JobInst, TokensOf
<1>2. CASE Parallel(JobInst(c))
  BY <1>2 DEF AllTokensCompleted
<1>3. CASE ~Parallel(JobInst(c))
  BY <1>1, <1>3, TwoTokensAreParallel DEF AllTokensCompleted, CloseInv
<1>4. QED
  BY <1>2, <1>3

QuietInv == CompletedIsQuiet /\ CloseInv

\* A call that holds a task or carries a token works on an instance that is not
\* completed; so does the queue.
LEMMA BusyNotCompleted ==
  ASSUME IInv, CompletedIsQuiet
  PROVE  /\ \A c \in Call : pc[c] \in ClaimPC \cup OfferPC \cup HandPC /\ JobInst(c) \in exists
              => state[JobInst(c)] # "Completed"
         /\ \A t \in pending : InstOf[tokenOf[t]] \in exists => state[InstOf[tokenOf[t]]] # "Completed"
<1>1. ASSUME NEW c \in Call, pc[c] \in ClaimPC \cup OfferPC, JobInst(c) \in exists
      PROVE  state[JobInst(c)] # "Completed"
  <2>1. job[c] \in ActiveTasks
    BY <1>1 DEF ActiveTasks
  <2>2. QED
    BY <1>1, <2>1 DEF CompletedIsQuiet, JobInst, JobToken
<1>2. ASSUME NEW c \in Call, pc[c] \in HandPC, JobInst(c) \in exists
      PROVE  state[JobInst(c)] # "Completed"
  <2>1. JobToken(c) \in TokensOf(JobInst(c)) /\ c \in Carriers(JobToken(c))
    BY <1>2, NullAssumption DEF IInv, TypeOK, TokensOf, JobInst, JobToken, Carriers, HandPC
  <2>2. QED
    BY <1>2, <2>1 DEF CompletedIsQuiet
<1>3. \A t \in pending : InstOf[tokenOf[t]] \in exists => state[InstOf[tokenOf[t]]] # "Completed"
  BY DEF CompletedIsQuiet, ActiveTasks
<1>4. QED
  BY <1>1, <1>2, <1>3

\* A completed instance that is there: none of its tokens is at any place.
QuietAt(i) == /\ \A k \in TokensOf(i) : k \notin stored
              /\ \A c \in Call : pc[c] \in HandPC \cup ClaimPC \cup OfferPC => JobInst(c) # i
              /\ \A t \in pending : InstOf[tokenOf[t]] # i

\* The same, said of the calls and the queue instead of tokens and tasks.
LEMMA QuietPlaces ==
  IInv => (CompletedIsQuiet <=> \A i \in exists : state[i] = "Completed" => QuietAt(i))
<1> SUFFICES ASSUME IInv, NEW i \in exists
             PROVE  QuietAt(i) <=> /\ \A k \in TokensOf(i) : k \notin stored /\ Carriers(k) = {}
                                   /\ \A t \in ActiveTasks : InstOf[tokenOf[t]] # i
  BY DEF CompletedIsQuiet
<1>1. ASSUME NEW c \in Call, pc[c] \in HandPC, JobInst(c) = i
      PROVE  JobToken(c) \in TokensOf(i) /\ c \in Carriers(JobToken(c))
  BY <1>1, NullAssumption DEF IInv, TypeOK, TokensOf, JobInst, JobToken, Carriers, HandPC
<1>2. QED
  BY <1>1 DEF QuietAt, TokensOf, Carriers, ActiveTasks, JobInst, JobToken

\* The critical sections leave a completed instance quiet, and completed.
LEMMA CallStepQuiet ==
  ASSUME IInv, IInv', QuietInv, NEW c \in Call, CallStep(c),
         NEW i \in exists', state'[i] = "Completed"
  PROVE  QuietAt(i)'
<1>0. i \in exists /\ (state[i] = "Completed" => QuietAt(i))
  <2>1. exists' = exists
    BY DEF CallStep, LookupInstance, CheckSuspended, TakeToken, SetRunning, RouteBpmnError,
           AdvanceToken, ParkAtServiceTask, SetWaiting, Enqueue, EndBranch, CloseInstance,
           StepFails, Abort
  <2>2. QED
    BY <2>1, QuietPlaces DEF QuietInv
<1> USE <1>0, NullAssumption
    DEF IInv, TypeOK, QuietAt, TokensOf, JobToken, JobInst, ClaimPC, OfferPC, HandPC, PC, Goto, Return
<1>1. CASE LookupInstance(c)
  BY <1>1 DEF LookupInstance
<1>2. CASE CheckSuspended(c)
  BY <1>2 DEF CheckSuspended
<1>3. CASE TakeToken(c)
  BY <1>3 DEF TakeToken, Forget
<1>a. ASSUME pc[c] \in HandPC, Abort(c) PROVE QuietAt(i)'
  BY <1>a DEF Abort
<1>4. CASE SetRunning(c)
  BY <1>4, <1>a DEF SetRunning
<1>5. CASE RouteBpmnError(c)
  BY <1>5 DEF RouteBpmnError, Forget
<1>6. CASE AdvanceToken(c)
  BY <1>6, <1>a DEF AdvanceToken
<1>7. ASSUME NEW t \in Task, ParkAtServiceTask(c, t) PROVE QuietAt(i)'
  BY <1>7 DEF ParkAtServiceTask, PlaceInv, Busy
<1>8. CASE SetWaiting(c)
  BY <1>8 DEF SetWaiting
<1>9. CASE Enqueue(c)
  BY <1>9 DEF Enqueue
<1>10. CASE EndBranch(c)
  BY <1>10 DEF EndBranch
<1>11. CASE CloseInstance(c)
  <2>1. CASE i = JobInst(c) /\ AllTokensCompleted(i)
    <3>1. \A k \in TokensOf(i) : k \notin stored /\ fate[k] = "ended"
      BY <1>11, <2>1, AllTokensEnded DEF QuietInv, CloseInstance
    <3>2. QED
      BY <1>11, <2>1, <3>1 DEF CloseInstance, PlaceInv
  <2>2. CASE ~(i = JobInst(c) /\ AllTokensCompleted(i))
    BY <1>11, <2>2 DEF CloseInstance
  <2>3. QED
    BY <2>1, <2>2
<1>12. CASE StepFails(c)
  BY <1>12, <1>a DEF StepFails
<1>13. QED
  BY <1>1, <1>2, <1>3, <1>4, <1>5, <1>6, <1>7, <1>8, <1>9, <1>10, <1>11, <1>12
  DEF CallStep

\* No other call touches the token of a call that is about to close its instance.
LEMMA CallStepClose ==
  ASSUME IInv, CloseInv, NEW c \in Call, CallStep(c)
  PROVE  CloseInv'
<1> USE NullAssumption
    DEF IInv, TypeOK, PlaceInv, CloseInv, Busy, JobToken, PC, HandPC, Fate, Goto, Return
<1>1. ASSUME LookupInstance(c) \/ CheckSuspended(c) \/ TakeToken(c) PROVE CloseInv'
  BY <1>1 DEF LookupInstance, CheckSuspended, TakeToken, Forget
<1>a. ASSUME pc[c] \in HandPC, Abort(c) PROVE CloseInv'
  BY <1>a DEF Abort
<1>2. ASSUME SetRunning(c) \/ AdvanceToken(c) \/ StepFails(c) PROVE CloseInv'
  BY <1>2, <1>a DEF SetRunning, AdvanceToken, StepFails
<1>3. CASE RouteBpmnError(c)
  BY <1>3 DEF RouteBpmnError, Forget
<1>4. ASSUME NEW t \in Task, ParkAtServiceTask(c, t) PROVE CloseInv'
  BY <1>4 DEF ParkAtServiceTask
<1>5. ASSUME SetWaiting(c) \/ Enqueue(c) \/ EndBranch(c) \/ CloseInstance(c) PROVE CloseInv'
  BY <1>5 DEF SetWaiting, Enqueue, EndBranch, CloseInstance
<1>6. QED
  BY <1>1, <1>2, <1>3, <1>4, <1>5 DEF CallStep

\* Every step leaves a completed instance quiet.
LEMMA NextQuiet == IInv /\ IInv' /\ QuietInv /\ [Next]_vars => QuietInv'
<1> SUFFICES ASSUME IInv, IInv', QuietInv, [Next]_vars PROVE QuietInv'
  OBVIOUS
<1>q. (\A i \in exists' : state'[i] = "Completed" => QuietAt(i)') => CompletedIsQuiet'
  <2>1. IInv' => (CompletedIsQuiet <=> \A i \in exists : state[i] = "Completed" => QuietAt(i))'
    BY QuietPlaces, PTL
  <2>2. QED
    BY <2>1
<1>p. \A i \in exists : state[i] = "Completed" => QuietAt(i)
  BY QuietPlaces DEF QuietInv
<1> USE DEF QuietInv
<1>1. ASSUME NEW c \in Call, CallStep(c) PROVE QuietInv'
  BY <1>1, <1>q, CallStepQuiet, CallStepClose
<1>2. ASSUME NEW c \in Call, NEW t \in pending, NEW label \in ClaimPC, Claim(c, t, label)
      PROVE  QuietInv'
  <2>1. \A i \in exists' : state'[i] = "Completed" => QuietAt(i)'
    BY <1>2, <1>p DEF Claim, QuietAt, IInv, TypeOK, TokensOf, JobInst, JobToken, ClaimPC, PC
  <2>2. CloseInv'
    BY <1>2 DEF Claim, CloseInv, IInv, TypeOK, JobToken, ClaimPC, PC
  <2>3. QED
    BY <2>1, <2>2, <1>q
<1>3. ASSUME NEW i \in Instance, PurgeQueues(i) PROVE QuietInv'
  BY <1>3, <1>p, <1>q DEF PurgeQueues, QuietAt, CloseInv, JobToken, JobInst
<1>4. ASSUME UNCHANGED placeVars, exists' \subseteq exists,
             \A i \in exists' : state'[i] = "Completed" => state[i] = "Completed"
      PROVE  QuietInv'
  BY <1>4, <1>p, <1>q DEF placeVars, QuietAt, CloseInv, JobToken, JobInst
<1>5. ASSUME NEW w \in Worker,
             \/ \E topics \in SUBSET Topic, d \in 0..MaxLease : FetchAndLock(w, topics, d)
             \/ \E t \in Task : FailTask(w, t) \/ \E d \in 0..MaxLease : ExtendLock(w, t, d)
      PROVE  UNCHANGED <<placeVars, exists, state>>
  BY <1>5 DEF FetchAndLock, ExtendLock, FailTask, SetRetriesAndUnlock, placeVars
<1>6. ASSUME NEW t \in Task, RetryIncident(t) PROVE UNCHANGED <<placeVars, exists, state>>
  BY <1>6 DEF RetryIncident, SetRetriesAndUnlock, placeVars
<1>7. ASSUME NEW i \in Instance,
             SuspendInstance(i) \/ ResumeInstance(i) \/ DeleteInstance(i) \/ DeleteFails(i)
      PROVE  /\ UNCHANGED placeVars /\ exists' \subseteq exists
             /\ \A j \in exists' : state'[j] = "Completed" => state[j] = "Completed"
  BY <1>7 DEF SuspendInstance, ResumeInstance, DeleteInstance, DeleteFails, placeVars, IInv, TypeOK
<1>8. CASE Tick \/ UNCHANGED vars
  BY <1>8, <1>4 DEF Tick, vars, placeVars
<1>9. ASSUME NEW c \in Call, NEW t \in Task,
             ResolveIncident(c, t) \/ \E w \in Worker : CompleteTask(c, w, t) \/ HandleBpmnError(c, w, t)
      PROVE  QuietInv'
  BY <1>9, <1>2 DEF ResolveIncident, CompleteTask, HandleBpmnError, OwnsLock, ClaimPC
<1>10. QED
  BY <1>1, <1>3, <1>4, <1>5, <1>6, <1>7, <1>8, <1>9
  DEF Next, WorkerCall, OperatorCall, DeleteStep

\* Quietness of completed instances, with what its proof needs of closing calls.
LEMMA QuietCorrect == Spec => []QuietInv
<1>1. Init => QuietInv
  BY DEF Init, QuietInv, CompletedIsQuiet, CloseInv
<1>2. QED
  BY <1>1, NextQuiet, IInvCorrect, PTL DEF Spec

\* When an instance is completed nothing of it is left to do: the test the closing
\* call makes, on the flags and the store, cannot miss a token in another call.
THEOREM CompletedInstancesAreQuiet == Spec => []CompletedIsQuiet
<1>1. QuietInv => CompletedIsQuiet
  BY DEF QuietInv
<1>2. QED
  BY <1>1, QuietCorrect, PTL

\* Calls and operators leave the state of a completed instance alone.
LEMMA NextKeepsCompleted ==
  IInv /\ QuietInv /\ [Next]_vars =>
    [\A i \in exists : state[i] = "Completed" => state'[i] = "Completed"]_state
<1> SUFFICES ASSUME IInv, QuietInv, [Next]_vars, NEW i \in exists, state[i] = "Completed"
             PROVE  state'[i] = "Completed"
  OBVIOUS
<1> USE DEF IInv, TypeOK
<1>1. ASSUME NEW c \in Call, CallStep(c) PROVE state'[i] = "Completed"
  <2>1. ASSUME pc[c] \in ClaimPC \cup OfferPC \cup HandPC, JobInst(c) \in exists
        PROVE  JobInst(c) # i
    BY <2>1, BusyNotCompleted DEF QuietInv
  <2>2. ASSUME SetRunning(c) \/ RouteBpmnError(c) \/ SetWaiting(c) PROVE state'[i] = "Completed"
    BY <2>1, <2>2 DEF SetRunning, RouteBpmnError, SetWaiting, Abort, ClaimPC, OfferPC, HandPC
  <2>3. CASE CloseInstance(c)
    BY <2>3 DEF CloseInstance
  <2>4. QED
    BY <1>1, <2>2, <2>3 DEF CallStep, LookupInstance, CheckSuspended, TakeToken,
       AdvanceToken, ParkAtServiceTask, Enqueue, EndBranch, StepFails, Abort
<1>2. ASSUME WorkerCall PROVE state' = state
  BY <1>2 DEF WorkerCall, FetchAndLock, ExtendLock, FailTask, SetRetriesAndUnlock,
     CompleteTask, HandleBpmnError, Claim
<1>3. ASSUME OperatorCall PROVE state'[i] = "Completed"
  BY <1>3 DEF OperatorCall, RetryIncident, SetRetriesAndUnlock, ResolveIncident, Claim,
     SuspendInstance, ResumeInstance, DeleteInstance
<1>4. ASSUME NEW j \in Instance, DeleteStep(j) PROVE state' = state
  BY <1>4 DEF DeleteStep, PurgeQueues, DeleteFails
<1>5. QED
  BY <1>1, <1>2, <1>3, <1>4 DEF Next, Tick, vars

\* No call, however late it reaches its last critical section, and no operator
\* moves an instance out of Completed.
THEOREM CompletedStaysCompleted == Spec => CompletedIsFinal
<1>1. QED
  BY NextKeepsCompleted, IInvCorrect, QuietCorrect, PTL DEF Spec, CompletedIsFinal

\* A task that is locked, and stays in the queue, keeps its owner or loses it:
\* only fetch_and_lock gives a task to a worker, and it looks at the expiry.
LEMMA NextKeepsLock ==
  TypeOK /\ [Next]_vars =>
    [\A t \in pending : lease[t] > 0 /\ t \in pending' => owner'[t] \in {owner[t], NoWorker}]_<<pending, owner>>
<1> SUFFICES ASSUME TypeOK, [Next]_vars, NEW t \in pending, lease[t] > 0
             PROVE  owner'[t] \in {owner[t], NoWorker}
  OBVIOUS
<1> USE BoundsAssumption, NullAssumption DEF TypeOK
<1>1. CASE WorkerCall
  BY <1>1 DEF WorkerCall, FetchAndLock, Fetchable, ExtendLock, FailTask, SetRetriesAndUnlock,
     Lock, CompleteTask, HandleBpmnError, Claim
<1>2. CASE OperatorCall
  BY <1>2 DEF OperatorCall, RetryIncident, SetRetriesAndUnlock, Lock, ResolveIncident, Claim,
     SuspendInstance, ResumeInstance, DeleteInstance
<1>3. ASSUME NEW c \in Call, CallStep(c) PROVE owner'[t] \in {owner[t], NoWorker}
  BY <1>3 DEF CallStep, LookupInstance, CheckSuspended, TakeToken, SetRunning, RouteBpmnError,
     AdvanceToken, ParkAtServiceTask, SetWaiting, Enqueue, EndBranch, CloseInstance,
     StepFails, Abort, Forget, Lock
<1>4. QED
  BY <1>1, <1>2, <1>3 DEF Next, DeleteStep, PurgeQueues, DeleteFails, Tick, vars

\* While its lock has not expired, a task is not handed to another worker.
THEOREM LocksHold == Spec => UnexpiredLockNotStolen
<1>1. QED
  BY NextKeepsLock, TypeCorrect, PTL DEF Spec, UnexpiredLockNotStolen

----------------------------------------------------------------------------
(***************************************************************************)
(* ServiceTask implements TokenLife.                                       *)
(***************************************************************************)

\* A task that no worker could see yet is not locked.
LockInv ==
  /\ \A t \in Task \ created : owner[t] = NoWorker /\ lease[t] = 0
  /\ \A c \in Call : pc[c] \in OfferPC => owner[job[c]] = NoWorker /\ lease[job[c]] = 0

LInv == IInv /\ LockInv

\* Every step keeps tasks unlocked until they are in the queue.
LEMMA NextLockInv == IInv /\ LockInv /\ [Next]_vars => LockInv'
<1> SUFFICES ASSUME IInv, LockInv, [Next]_vars PROVE LockInv'
  OBVIOUS
<1> USE BoundsAssumption, NullAssumption
    DEF IInv, TypeOK, PlaceInv, LockInv, Busy, ClaimPC, OfferPC, HandPC, PC
<1>0. \A c \in Call : Busy(c) => job[c] \notin pending
  BY DEF JobToken
<1>1. ASSUME NEW w \in Worker, NEW topics \in SUBSET Topic, NEW d \in 0..MaxLease,
             FetchAndLock(w, topics, d)
      PROVE  LockInv'
  BY <1>0, <1>1 DEF FetchAndLock, Fetchable
<1>2. ASSUME NEW w \in Worker, NEW t \in Task, NEW d \in 0..MaxLease, ExtendLock(w, t, d)
      PROVE  LockInv'
  BY <1>2 DEF ExtendLock, OwnsLock
<1>3. ASSUME NEW t \in Task, RetryIncident(t) \/ \E w \in Worker : FailTask(w, t)
      PROVE  LockInv'
  BY <1>3 DEF RetryIncident, FailTask, SetRetriesAndUnlock, Lock
<1>4. ASSUME NEW c \in Call, NEW t \in pending, NEW label \in ClaimPC, Claim(c, t, label)
      PROVE  LockInv'
  BY <1>4 DEF Claim
<1>5. ASSUME NEW c \in Call, NEW t \in Task,
             ResolveIncident(c, t) \/ \E w \in Worker : CompleteTask(c, w, t) \/ HandleBpmnError(c, w, t)
      PROVE  LockInv'
  BY <1>5, <1>4 DEF ResolveIncident, CompleteTask, HandleBpmnError, OwnsLock
<1>6. ASSUME NEW i \in Instance,
             \/ SuspendInstance(i) \/ ResumeInstance(i) \/ DeleteInstance(i)
             \/ PurgeQueues(i) \/ DeleteFails(i)
      PROVE  LockInv'
  BY <1>6 DEF SuspendInstance, ResumeInstance, DeleteInstance, PurgeQueues, DeleteFails
<1>7. ASSUME NEW c \in Call, TakeToken(c) \/ RouteBpmnError(c) PROVE LockInv'
  BY <1>7 DEF TakeToken, RouteBpmnError, Forget, Lock, Goto, Return
<1>8. ASSUME NEW c \in Call, NEW t \in Task, ParkAtServiceTask(c, t) PROVE LockInv'
  BY <1>8 DEF ParkAtServiceTask
<1>9. ASSUME NEW c \in Call,
             \/ LookupInstance(c) \/ CheckSuspended(c) \/ SetRunning(c) \/ AdvanceToken(c)
             \/ SetWaiting(c) \/ Enqueue(c) \/ EndBranch(c) \/ CloseInstance(c) \/ StepFails(c)
      PROVE  LockInv'
  BY <1>9 DEF LookupInstance, CheckSuspended, SetRunning, AdvanceToken, SetWaiting, Enqueue,
     EndBranch, CloseInstance, StepFails, Abort, Goto, Return
<1>10. CASE Tick \/ UNCHANGED vars
  BY <1>10 DEF Tick, vars
<1>11. QED
  BY <1>1, <1>2, <1>3, <1>5, <1>6, <1>7, <1>8, <1>9, <1>10
  DEF Next, WorkerCall, OperatorCall, CallStep, DeleteStep

\* The invariant of the refinement.
LEMMA LInvCorrect == Spec => []LInv
<1>1. Init => LockInv
  BY DEF Init, LockInv, OfferPC
<1>2. IInv /\ LockInv /\ [Next]_vars => LockInv'
  BY NextLockInv
<1>3. QED
  BY <1>1, <1>2, IInvCorrect, PTL DEF Spec, LInv

\* Where the abstract token is, read off the queue and the calls.
IsGone(k) == /\ \A t \in pending : tokenOf[t] # k
             /\ \A c \in Call : pc[c] \in ClaimPC \cup HandPC \cup OfferPC => JobToken(c) # k

Shows(k, p, w, l) == lifePhase[k] = p /\ lifeHolder[k] = w /\ lifeLive[k] = l

Views ==
  /\ \A t \in pending : Shows(tokenOf[t], "open", owner[t], lease[t] > 0)
  /\ \A c \in Call : pc[c] \in ClaimPC =>
       Shows(JobToken(c), "claimed", owner[job[c]], lease[job[c]] > 0)
  /\ \A c \in Call : pc[c] \in HandPC \cup OfferPC => Shows(JobToken(c), "moving", NoWorker, FALSE)
  /\ \A k \in Token : IsGone(k) => Shows(k, "gone", NoWorker, FALSE)

\* The abstract variables are functions on the tokens.
MapOK == /\ lifePhase = [k \in Token |-> lifePhase[k]]
         /\ lifeHolder = [k \in Token |-> lifeHolder[k]]
         /\ lifeLive = [k \in Token |-> lifeLive[k]]
         /\ \A k \in Token : lifeLive[k] \in BOOLEAN

\* The mapping yields functions on the tokens, so that Life's actions apply to them.
LEMMA MapCorrect == MapOK
  BY DEF MapOK, lifePhase, lifeHolder, lifeLive

\* The refinement mapping, place by place.
LEMMA ViewsCorrect == IInv => Views
<1> SUFFICES ASSUME IInv PROVE Views
  OBVIOUS
<1> USE NullAssumption DEF IInv, TypeOK, PlaceInv, Busy
<1>1. \A t, u \in ActiveTasks : tokenOf[t] = tokenOf[u] => t = u
  BY DEF ActiveTasks, JobToken, ClaimPC, OfferPC
<1>3. ASSUME NEW t \in pending PROVE Shows(tokenOf[t], "open", owner[t], lease[t] > 0)
  <2>1. TaskOf(tokenOf[t]) = t
    BY <1>1 DEF TaskOf, ActiveTasks
  <2>2. Queued(tokenOf[t]) /\ tokenOf[t] \in Token
    BY DEF Queued
  <2>3. QED
    BY <2>1, <2>2 DEF Shows, lifePhase, lifeHolder, lifeLive
<1>4. ASSUME NEW c \in Call, pc[c] \in ClaimPC
      PROVE  Shows(JobToken(c), "claimed", owner[job[c]], lease[job[c]] > 0)
  <2>1. TaskOf(JobToken(c)) = job[c]
    BY <1>1, <1>4 DEF TaskOf, ActiveTasks, JobToken
  <2>2. Claimed(JobToken(c)) /\ ~Queued(JobToken(c)) /\ JobToken(c) \in Token
    BY <1>4 DEF Claimed, Queued, JobToken, ClaimPC
  <2>3. QED
    BY <2>1, <2>2 DEF Shows, lifePhase, lifeHolder, lifeLive
<1>5. ASSUME NEW c \in Call, pc[c] \in HandPC \cup OfferPC
      PROVE  Shows(JobToken(c), "moving", NoWorker, FALSE)
  <2>1. /\ Moving(JobToken(c)) /\ ~Claimed(JobToken(c)) /\ ~Queued(JobToken(c))
        /\ JobToken(c) \in Token
    BY <1>5 DEF Moving, Claimed, Queued, JobToken, ClaimPC, HandPC, OfferPC
  <2>2. QED
    BY <2>1 DEF Shows, lifePhase, lifeHolder, lifeLive
<1>6. ASSUME NEW k \in Token, IsGone(k) PROVE Shows(k, "gone", NoWorker, FALSE)
  BY <1>6 DEF IsGone, Shows, lifePhase, lifeHolder, lifeLive, Queued, Claimed, Moving
<1>7. QED
  BY <1>3, <1>4, <1>5, <1>6 DEF Views

\* A step that leaves token j where it is, under the same lock.
Still(j) ==
  /\ \A t \in pending : tokenOf[t] = j =>
       t \in pending' /\ tokenOf'[t] = j /\ owner'[t] = owner[t] /\ lease'[t] = lease[t]
  /\ \A c \in Call : pc[c] \in ClaimPC /\ JobToken(c) = j =>
       /\ pc'[c] \in ClaimPC /\ JobToken(c)' = j
       /\ owner'[job'[c]] = owner[job[c]] /\ lease'[job'[c]] = lease[job[c]]
  /\ \A c \in Call : pc[c] \in HandPC \cup OfferPC /\ JobToken(c) = j =>
       pc'[c] \in HandPC \cup OfferPC /\ JobToken(c)' = j
  /\ IsGone(j) => IsGone(j)'

SameView(j) == lifePhase'[j] = lifePhase[j] /\ lifeHolder'[j] = lifeHolder[j] /\ lifeLive'[j] = lifeLive[j]

\* A token that stays where it is looks the same to the abstract specification.
LEMMA StillSameView ==
  ASSUME Views, Views', NEW j \in Token, Still(j) PROVE SameView(j)
<1>1. ASSUME NEW t \in pending, tokenOf[t] = j PROVE SameView(j)
  <2>1. Shows(j, "open", owner[t], lease[t] > 0)
    BY <1>1 DEF Views
  <2>2. Shows(j, "open", owner[t], lease[t] > 0)'
    BY <1>1 DEF Views, Still
  <2>3. QED
    BY <2>1, <2>2, <1>1 DEF Shows, SameView, Still
<1>2. ASSUME NEW c \in Call, pc[c] \in ClaimPC, JobToken(c) = j PROVE SameView(j)
  <2>1. Shows(j, "claimed", owner[job[c]], lease[job[c]] > 0)
    BY <1>2 DEF Views
  <2>2. Shows(j, "claimed", owner[job[c]], lease[job[c]] > 0)'
    BY <1>2 DEF Views, Still
  <2>3. QED
    BY <2>1, <2>2, <1>2 DEF Shows, SameView, Still
<1>3. ASSUME NEW c \in Call, pc[c] \in HandPC \cup OfferPC, JobToken(c) = j PROVE SameView(j)
  <2>1. Shows(j, "moving", NoWorker, FALSE)
    BY <1>3 DEF Views
  <2>2. Shows(j, "moving", NoWorker, FALSE)'
    BY <1>3 DEF Views, Still
  <2>3. QED
    BY <2>1, <2>2 DEF Shows, SameView
<1>4. CASE IsGone(j)
  <2>1. Shows(j, "gone", NoWorker, FALSE)
    BY <1>4 DEF Views
  <2>2. Shows(j, "gone", NoWorker, FALSE)'
    BY <1>4 DEF Views, Still
  <2>3. QED
    BY <2>1, <2>2 DEF Shows, SameView
<1>5. \/ IsGone(j)
      \/ \E t \in pending : tokenOf[t] = j
      \/ \E c \in Call : pc[c] \in ClaimPC /\ JobToken(c) = j
      \/ \E c \in Call : pc[c] \in HandPC \cup OfferPC /\ JobToken(c) = j
  BY DEF IsGone
<1>6. QED
  BY <1>1, <1>2, <1>3, <1>4, <1>5, Zenon

ShowsNext(k, p, w, l) == lifePhase'[k] = p /\ lifeHolder'[k] = w /\ lifeLive'[k] = l

\* A function that differs from another in one place is an update of it.
LEMMA PointUpdate ==
  ASSUME NEW S, NEW f, NEW g, f = [x \in S |-> f[x]], g = [x \in S |-> g[x]],
         NEW k \in S, NEW v, g[k] = v, \A x \in S \ {k} : g[x] = f[x]
  PROVE  g = [f EXCEPT ![k] = v] /\ (f[k] = v => g = f)
<1>1. \A x \in S : g[x] = [f EXCEPT ![k] = v][x]
  OBVIOUS
<1>2. DOMAIN f = S /\ DOMAIN g = S
  OBVIOUS
<1>3. QED
  BY <1>1, <1>2

\* If only the places of token k change, the abstract step is one of token k.
LEMMA OneTokenMoves ==
  ASSUME Views, Views', NEW k \in Token, \A j \in Token \ {k} : Still(j),
         NEW p, NEW w, NEW l, ShowsNext(k, p, w, l)
  PROVE  /\ lifePhase' = [lifePhase EXCEPT ![k] = p]
         /\ lifeHolder' = [lifeHolder EXCEPT ![k] = w]
         /\ lifeLive' = [lifeLive EXCEPT ![k] = l]
         /\ lifePhase[k] = p => lifePhase' = lifePhase
         /\ lifeHolder[k] = w => lifeHolder' = lifeHolder
         /\ lifeLive[k] = l => lifeLive' = lifeLive
<1>1. \A j \in Token \ {k} : SameView(j)
  BY StillSameView
<1>2. MapOK /\ MapOK'
  BY MapCorrect, PTL
<1>3. QED
  <2>1. lifePhase'[k] = p /\ lifeHolder'[k] = w /\ lifeLive'[k] = l
    BY DEF ShowsNext
  <2>2. lifePhase' = [lifePhase EXCEPT ![k] = p] /\ (lifePhase[k] = p => lifePhase' = lifePhase)
    BY <1>1, <1>2, <2>1, PointUpdate DEF MapOK, SameView
  <2>3. lifeHolder' = [lifeHolder EXCEPT ![k] = w] /\ (lifeHolder[k] = w => lifeHolder' = lifeHolder)
    BY <1>1, <1>2, <2>1, PointUpdate DEF MapOK, SameView
  <2>4. lifeLive' = [lifeLive EXCEPT ![k] = l] /\ (lifeLive[k] = l => lifeLive' = lifeLive)
    BY <1>1, <1>2, <2>1, PointUpdate DEF MapOK, SameView
  <2>5. QED
    BY <2>2, <2>3, <2>4

\* If no token moves, the abstract specification stutters.
LEMMA NoTokenMoves ==
  ASSUME Views, Views', \A j \in Token : Still(j) PROVE UNCHANGED Life!vars
<1>1. \A j \in Token : SameView(j)
  BY StillSameView
<1>2. MapOK /\ MapOK'
  BY MapCorrect, PTL
<1>3. QED
  BY <1>1, <1>2 DEF MapOK, SameView, Life!vars

\* Initially every token is open and not locked.
LEMMA InitImplements == Init => Life!Init
<1> SUFFICES ASSUME Init PROVE Life!Init
  OBVIOUS
<1>1. Views
  BY InitTypeOK, InitPlaceInv, ViewsCorrect DEF IInv
<1>2. ASSUME NEW k \in Token PROVE Shows(k, "open", NoWorker, FALSE)
  <2>1. PICK t \in pending : tokenOf[t] = k
    BY DEF Init
  <2>2. owner[t] = NoWorker /\ (lease[t] > 0) = FALSE
    BY DEF Init
  <2>3. Shows(k, "open", owner[t], lease[t] > 0)
    BY <1>1, <2>1 DEF Views
  <2>4. QED
    BY <2>2, <2>3
<1>3. QED
  BY <1>2, MapCorrect DEF MapOK, Shows, Life!Init

\* The step of a worker that ends a task claims its token.
LEMMA ClaimImplements ==
  ASSUME IInv, Views, Views', NEW c \in Call, NEW t \in pending, NEW label \in ClaimPC,
         Claim(c, t, label)
  PROVE  Life!Claim(tokenOf[t])
<1>1. PICK k \in Token : k = tokenOf[t]
  BY DEF IInv, TypeOK
<1>2. \A j \in Token \ {k} : Still(j)
  BY <1>1, NullAssumption
  DEF IInv, TypeOK, PlaceInv, Busy, JobToken, ClaimPC, HandPC, OfferPC, PC, Claim, Still, IsGone
<1>3. Shows(k, "open", owner[t], lease[t] > 0)
  BY <1>1 DEF Views
<1>4. ShowsNext(k, "claimed", owner[t], lease[t] > 0)
  <2>1. pc'[c] \in ClaimPC /\ job'[c] = t /\ tokenOf' = tokenOf /\ owner' = owner /\ lease' = lease
    BY DEF Claim, IInv, TypeOK
  <2>2. QED
    BY <1>1, <2>1 DEF Views, Shows, ShowsNext, JobToken
<1>5. lifePhase' = [lifePhase EXCEPT ![k] = "claimed"] /\ UNCHANGED <<lifeHolder, lifeLive>>
  BY <1>2, <1>3, <1>4, OneTokenMoves DEF Shows
<1>6. QED
  BY <1>1, <1>3, <1>5 DEF Shows, Life!Claim, Life!Move

\* What a worker or an operator does to one lock.
LEMMA LockImplements ==
  ASSUME IInv, Views, Views', NEW t \in pending,
         UNCHANGED <<pending, created, tokenOf, topic, instVars, callVars>>,
         \A u \in Task \ {t} : owner'[u] = owner[u] /\ lease'[u] = lease[u]
  PROVE  /\ owner'[t] = NoWorker /\ lease'[t] = 0 => Life!Release(tokenOf[t])
         /\ owner'[t] = owner[t] /\ owner[t] # NoWorker =>
              Life!Renew(tokenOf[t], lease'[t] > 0)
<1>1. PICK k \in Token : k = tokenOf[t]
  BY DEF IInv, TypeOK
<1>2. \A j \in Token \ {k} : Still(j)
  BY <1>1, NullAssumption
  DEF IInv, TypeOK, PlaceInv, Busy, JobToken, ClaimPC, HandPC, OfferPC, PC, Still, IsGone
<1>3. Shows(k, "open", owner[t], lease[t] > 0)
  BY <1>1 DEF Views
<1>4. ShowsNext(k, "open", owner'[t], lease'[t] > 0)
  BY <1>1 DEF Views, Shows, ShowsNext
<1>a. /\ lifePhase' = lifePhase
      /\ lifeHolder' = [lifeHolder EXCEPT ![k] = owner'[t]]
      /\ lifeLive' = [lifeLive EXCEPT ![k] = lease'[t] > 0]
      /\ owner'[t] = owner[t] => lifeHolder' = lifeHolder
  BY <1>2, <1>3, <1>4, OneTokenMoves DEF Shows
<1>5. ASSUME owner'[t] = NoWorker, lease'[t] = 0 PROVE Life!Release(k)
  <2>1. (lease'[t] > 0) = FALSE
    BY <1>5
  <2>2. QED
    BY <1>a, <1>3, <1>5, <2>1 DEF Shows, Life!Release, Life!Unlocked
<1>6. ASSUME owner'[t] = owner[t], owner[t] # NoWorker PROVE Life!Renew(k, lease'[t] > 0)
  BY <1>a, <1>3, <1>6 DEF Shows, Life!Renew
<1>7. QED
  BY <1>1, <1>5, <1>6

\* fetch_and_lock acquires the tokens of its batch.
LEMMA FetchImplements ==
  ASSUME IInv, Views, Views', NEW w \in Worker, NEW topics \in SUBSET Topic,
         NEW d \in 0..MaxLease, FetchAndLock(w, topics, d)
  PROVE  \E batch \in SUBSET Token, lasting \in BOOLEAN : Life!Acquire(w, batch, lasting)
<1>1. PICK tasks \in SUBSET Fetchable(topics) :
        /\ owner' = [t \in Task |-> IF t \in tasks THEN w ELSE owner[t]]
        /\ lease' = [t \in Task |-> IF t \in tasks THEN d ELSE lease[t]]
        /\ UNCHANGED <<pending, created, tokenOf, topic, retries, instVars, callVars>>
  BY DEF FetchAndLock
<1>2. tasks \subseteq pending /\ \A t \in tasks : lease[t] = 0
  BY DEF Fetchable
<1>3. PICK batch \in SUBSET Token : batch = {tokenOf[t] : t \in tasks}
  <2>1. \A t \in tasks : tokenOf[t] \in Token
    BY <1>2 DEF IInv, TypeOK
  <2>2. {tokenOf[t] : t \in tasks} \in SUBSET Token
    BY <2>1
  <2> QED  BY <2>2
<1>4. ASSUME NEW k \in batch
      PROVE  ShowsNext(k, "open", w, d > 0) /\ lifePhase[k] = "open" /\ lifeLive[k] = FALSE
  <2>1. PICK t \in tasks : k = tokenOf[t]
    BY <1>3
  <2>2. Shows(k, "open", owner[t], lease[t] > 0)
    BY <1>2, <2>1 DEF Views
  <2>3. ShowsNext(k, "open", owner'[t], lease'[t] > 0)
    BY <1>1, <1>2, <2>1 DEF Views, Shows, ShowsNext
  <2>4. owner'[t] = w /\ lease'[t] = d /\ (lease[t] > 0) = FALSE
    BY <1>1, <1>2, <2>1 DEF IInv, TypeOK
  <2>5. QED
    BY <2>2, <2>3, <2>4 DEF Shows, ShowsNext
<1>5. ASSUME NEW k \in Token \ batch PROVE SameView(k)
  <2>1. Still(k)
    BY <1>1, <1>2, <1>3, NullAssumption
    DEF IInv, TypeOK, PlaceInv, Busy, JobToken, ClaimPC, HandPC, OfferPC, PC, Still, IsGone
  <2>2. QED
    BY <2>1, StillSameView
<1>6. MapOK /\ MapOK'
  BY MapCorrect, PTL
<1>7. lifePhase' = lifePhase
  <2>1. \A k \in Token : lifePhase'[k] = lifePhase[k]
    BY <1>4, <1>5 DEF ShowsNext, SameView
  <2>2. PICK f, g : f = lifePhase /\ g = lifePhase'
    OBVIOUS
  <2>3. f = [k \in Token |-> f[k]] /\ g = [k \in Token |-> g[k]]
    BY <1>6, <2>2 DEF MapOK
  <2>4. [k \in Token |-> g[k]] = [k \in Token |-> f[k]]
    BY <2>1, <2>2
  <2> QED  BY <2>2, <2>3, <2>4
<1>8. lifeHolder' = [k \in Token |-> IF k \in batch THEN w ELSE lifeHolder[k]]
  BY <1>4, <1>5, <1>6 DEF MapOK, ShowsNext, SameView
<1>9. lifeLive' = [k \in Token |-> IF k \in batch THEN d > 0 ELSE lifeLive[k]]
  BY <1>4, <1>5, <1>6 DEF MapOK, ShowsNext, SameView
<1>10. Life!Acquire(w, batch, d > 0)
  <2>1. \A k \in batch : lifePhase[k] = "open" /\ ~lifeLive[k]
    BY <1>4
  <2>2. QED
    BY <1>7, <1>8, <1>9, <2>1 DEF Life!Acquire
<1>11. (d > 0) \in BOOLEAN
  OBVIOUS
<1>12. QED
  BY <1>10, <1>11

\* The rest of a call concerns the token of its task and no other.
LEMMA CallStepStill ==
  ASSUME IInv, NEW c \in Call, CallStep(c), NEW j \in Token, j # JobToken(c)
  PROVE  Still(j)
<1> USE NullAssumption
    DEF IInv, TypeOK, PlaceInv, Busy, JobToken, ClaimPC, HandPC, OfferPC, PC, Still, IsGone,
        Goto, Return
<1>1. CASE LookupInstance(c)
  BY <1>1 DEF LookupInstance
<1>2. CASE CheckSuspended(c)
  BY <1>2 DEF CheckSuspended
<1>3. CASE TakeToken(c)
  BY <1>3 DEF TakeToken, Forget, Lock
<1>a. ASSUME pc[c] \in HandPC, Abort(c) PROVE Still(j)
  BY <1>a DEF Abort
<1>4. ASSUME SetRunning(c) \/ AdvanceToken(c) \/ StepFails(c) PROVE Still(j)
  BY <1>4, <1>a DEF SetRunning, AdvanceToken, StepFails
<1>5. CASE RouteBpmnError(c)
  BY <1>5 DEF RouteBpmnError, Forget, Lock
<1>6. ASSUME NEW t \in Task, ParkAtServiceTask(c, t) PROVE Still(j)
  BY <1>6 DEF ParkAtServiceTask
<1>7. ASSUME SetWaiting(c) \/ EndBranch(c) \/ CloseInstance(c) PROVE Still(j)
  BY <1>7 DEF SetWaiting, EndBranch, CloseInstance
<1>8. CASE Enqueue(c)
  BY <1>8 DEF Enqueue
<1>9. QED
  BY <1>1, <1>2, <1>3, <1>4, <1>5, <1>6, <1>7, <1>8 DEF CallStep

\* The moves of the abstract token, from what it shows before and after.
LEMMA MovesUnderLock ==
  ASSUME Views, Views', NEW k \in Token, \A j \in Token \ {k} : Still(j),
         NEW w, NEW l
  PROVE  /\ Shows(k, "claimed", w, l) /\ ShowsNext(k, "open", w, l) => Life!Refuse(k)
         /\ Shows(k, "moving", w, l) /\ ShowsNext(k, "open", w, l) => Life!Park(k)
         /\ Shows(k, "moving", w, l) /\ ShowsNext(k, "gone", w, l) => Life!Finish(k)
<1>1. ASSUME NEW p, NEW q, Shows(k, p, w, l), ShowsNext(k, q, w, l)
      PROVE  lifePhase[k] = p /\ lifePhase' = [lifePhase EXCEPT ![k] = q] /\ UNCHANGED <<lifeHolder, lifeLive>>
  BY <1>1, OneTokenMoves DEF Shows
<1>2. QED
  BY <1>1 DEF Life!Refuse, Life!Park, Life!Finish, Life!Move

\* The moves that drop the lock: the token is taken, or its task is gone.
LEMMA MovesUnlocked ==
  ASSUME Views, Views', NEW k \in Token, \A j \in Token \ {k} : Still(j), lifePhase[k] = "claimed"
  PROVE  /\ ShowsNext(k, "moving", NoWorker, FALSE) => Life!Take(k)
         /\ ShowsNext(k, "gone", NoWorker, FALSE) => Life!Drop(k)
<1>1. ASSUME NEW q, NEW l, ShowsNext(k, q, NoWorker, l), l = FALSE
      PROVE  /\ lifePhase' = [lifePhase EXCEPT ![k] = q]
             /\ lifeHolder' = [lifeHolder EXCEPT ![k] = NoWorker]
             /\ lifeLive' = [lifeLive EXCEPT ![k] = l]
  BY <1>1, OneTokenMoves
<1>2. QED
  BY <1>1 DEF Life!Take, Life!Drop, Life!Move, Life!Unlocked

\* Views, read in the next state.
LEMMA NextViews ==
  ASSUME Views'
  PROVE  /\ \A t \in pending' : ShowsNext(tokenOf'[t], "open", owner'[t], lease'[t] > 0)
         /\ \A c \in Call : pc'[c] \in ClaimPC =>
              ShowsNext(tokenOf'[job'[c]], "claimed", owner'[job'[c]], lease'[job'[c]] > 0)
         /\ \A c \in Call : pc'[c] \in HandPC \cup OfferPC =>
              ShowsNext(tokenOf'[job'[c]], "moving", NoWorker, FALSE)
         /\ \A k \in Token : IsGone(k)' => ShowsNext(k, "gone", NoWorker, FALSE)
  BY DEF Views, Shows, ShowsNext, JobToken

\* A call that gives up its task without its token, or its token without a task,
\* leaves the token gone.
LEMMA CallGivesUp ==
  ASSUME IInv, Views', NEW c \in Call, pc[c] # "idle", NEW k \in Token, k = JobToken(c),
         pending' = pending, tokenOf' = tokenOf,
         pc' = [pc EXCEPT ![c] = "idle"] \/ pc' = [pc EXCEPT ![c] = "close"],
         \A d \in Call \ {c} : job'[d] = job[d]
  PROVE  ShowsNext(k, "gone", NoWorker, FALSE)
<1>1. IsGone(k)'
  BY DEF IInv, TypeOK, PlaceInv, Busy, JobToken, IsGone, ClaimPC, HandPC, OfferPC, PC
<1>2. QED
  BY <1>1, NextViews

\* Each critical section of a call is one step of its token's life, or none.
LEMMA CallStepImplements ==
  ASSUME LInv, Views, Views', NEW c \in Call, CallStep(c)
  PROVE  (\E k \in Token : \/ Life!Refuse(k) \/ Life!Take(k) \/ Life!Drop(k)
                           \/ Life!Park(k) \/ Life!Finish(k))
         \/ UNCHANGED Life!vars
<1> DEFINE Goal == (\E k \in Token : \/ Life!Refuse(k) \/ Life!Take(k) \/ Life!Drop(k)
                                     \/ Life!Park(k) \/ Life!Finish(k))
                   \/ UNCHANGED Life!vars
<1>0. pc[c] # "idle"
  BY DEF CallStep, LookupInstance, CheckSuspended, TakeToken, SetRunning, RouteBpmnError,
     AdvanceToken, ParkAtServiceTask, SetWaiting, Enqueue, EndBranch, CloseInstance, StepFails
<1>1. PICK k \in Token : k = JobToken(c)
  BY <1>0, NullAssumption DEF LInv, IInv, TypeOK, JobToken
<1>2. \A j \in Token \ {k} : Still(j)
  BY <1>1, CallStepStill DEF LInv
<1>3. pc[c] \in ClaimPC => Shows(k, "claimed", owner[job[c]], lease[job[c]] > 0)
  BY <1>1 DEF Views
<1>4. pc[c] \in HandPC \cup OfferPC => Shows(k, "moving", NoWorker, FALSE)
  BY <1>1 DEF Views
<1>s. Still(k) => Goal
  <2>1. ASSUME Still(k) PROVE UNCHANGED Life!vars
    BY <2>1, <1>2, NoTokenMoves
  <2>2. QED
    BY <2>1
<1>d. ASSUME pc[c] \in ClaimPC, ShowsNext(k, "gone", NoWorker, FALSE) PROVE Goal
  BY <1>d, <1>2, <1>3, MovesUnlocked DEF Shows
<1>f. ASSUME pc[c] \in HandPC, ShowsNext(k, "gone", NoWorker, FALSE) PROVE Goal
  BY <1>f, <1>2, <1>4, MovesUnderLock
<1>a. ASSUME pc[c] \in HandPC, Abort(c) PROVE Goal
  <2>1. ShowsNext(k, "gone", NoWorker, FALSE)
    BY <1>0, <1>1, <1>a, CallGivesUp DEF LInv, IInv, TypeOK, Abort, Return
  <2>2. QED
    BY <1>a, <1>f, <2>1
<1> SUFFICES Goal
  OBVIOUS
<1> HIDE DEF Goal
<1>k. /\ pc[c] \in ClaimPC => /\ pc'[c] \in ClaimPC /\ tokenOf'[job'[c]] = k
                              /\ owner'[job'[c]] = owner[job[c]] /\ lease'[job'[c]] = lease[job[c]]
      /\ pc[c] \in HandPC \cup OfferPC => pc'[c] \in HandPC \cup OfferPC /\ tokenOf'[job'[c]] = k
      /\ IsGone(k) => IsGone(k)'
      => Still(k)
  <2>1. \A d \in Call : pc[d] \in ClaimPC \cup HandPC \cup OfferPC /\ JobToken(d) = k => d = c
    BY <1>0, <1>1 DEF JobToken, LInv, IInv, PlaceInv, Busy, ClaimPC, HandPC, OfferPC
  <2>2. \A t \in pending : tokenOf[t] # k
    BY <1>0, <1>1 DEF LInv, IInv, PlaceInv, Busy
  <2>3. QED
    BY <2>1, <2>2 DEF Still, JobToken
<1>g. pc[c] \in ClaimPC \cup HandPC \cup OfferPC => ~IsGone(k)
  BY <1>1 DEF IsGone
<1>5. ASSUME LookupInstance(c) \/ SetWaiting(c) PROVE Goal
  <2>1. Still(k)
    BY <1>k, <1>g, <1>5, <1>1 DEF LookupInstance, SetWaiting, Goto, LInv, IInv, TypeOK,
       ClaimPC, HandPC, OfferPC, JobToken
  <2>2. QED
    BY <2>1, <1>s
<1>6. CASE CheckSuspended(c)
  <2>1. CASE state[JobInst(c)] = "Suspended"
    <3>1. ShowsNext(k, "open", owner[job[c]], lease[job[c]] > 0)
      BY <1>1, <1>6, <2>1, NextViews DEF CheckSuspended, JobToken
    <3>2. QED
      BY <1>2, <1>3, <1>6, <3>1, MovesUnderLock DEF CheckSuspended, ClaimPC, Goal
  <2>2. CASE state[JobInst(c)] # "Suspended"
    <3>1. Still(k)
      BY <1>k, <1>g, <1>1, <1>6, <2>2 DEF CheckSuspended, Goto, LInv, IInv, TypeOK,
         ClaimPC, HandPC, OfferPC, JobToken
    <3>2. QED
      BY <3>1, <1>s
  <2>3. QED
    BY <2>1, <2>2
<1>7. CASE TakeToken(c)
  <2>1. CASE JobInst(c) \in exists /\ JobToken(c) \in stored
    <3>1. pc'[c] \in HandPC /\ job' = job /\ tokenOf' = tokenOf
      BY <1>7, <2>1 DEF TakeToken, Goto, Forget, HandPC, LInv, IInv, TypeOK
    <3>2. ShowsNext(k, "moving", NoWorker, FALSE)
      BY <1>1, <3>1, NextViews DEF JobToken
    <3>3. QED
      BY <1>2, <1>3, <1>7, <3>2, MovesUnlocked DEF Shows, TakeToken, ClaimPC, Goal
  <2>2. CASE ~(JobInst(c) \in exists /\ JobToken(c) \in stored)
    <3>1. ShowsNext(k, "gone", NoWorker, FALSE)
      BY <1>0, <1>1, <1>7, <2>2, CallGivesUp DEF LInv, IInv, TypeOK, TakeToken, Forget, Return
    <3>2. QED
      BY <1>7, <1>d, <3>1 DEF TakeToken, ClaimPC
  <2>3. QED
    BY <2>1, <2>2
<1>8. CASE SetRunning(c)
  <2>1. CASE JobInst(c) \in exists
    <3>1. Still(k)
      BY <1>k, <1>g, <1>1, <1>8, <2>1 DEF SetRunning, Goto, LInv, IInv, TypeOK,
         ClaimPC, HandPC, OfferPC, JobToken
    <3>2. QED
      BY <3>1, <1>s
  <2>2. CASE JobInst(c) \notin exists
    BY <1>8, <1>a, <2>2 DEF SetRunning, HandPC
  <2>3. QED
    BY <2>1, <2>2
<1>9. CASE RouteBpmnError(c)
  <2>1. ASSUME Return(c), Forget(job[c]) PROVE Goal
    <3>1. ShowsNext(k, "gone", NoWorker, FALSE)
      BY <1>0, <1>1, <2>1, CallGivesUp DEF LInv, IInv, TypeOK, Forget, Return
    <3>2. QED
      BY <1>9, <1>d, <3>1 DEF RouteBpmnError, ClaimPC
  <2>2. ASSUME Goto(c, "takeErr"), UNCHANGED taskVars PROVE Goal
    <3>1. Still(k)
      BY <1>k, <1>g, <1>1, <1>9, <2>2 DEF RouteBpmnError, Goto, LInv, IInv, TypeOK,
         ClaimPC, HandPC, OfferPC, JobToken
    <3>2. QED
      BY <3>1, <1>s
  <2>3. QED
    BY <1>9, <2>1, <2>2 DEF RouteBpmnError
<1>10. CASE AdvanceToken(c)
  <2>1. ASSUME Goto(c, "batch"), UNCHANGED taskVars PROVE Goal
    <3>1. Still(k)
      BY <1>k, <1>g, <1>1, <1>10, <2>1 DEF AdvanceToken, Goto, LInv, IInv, TypeOK,
         ClaimPC, HandPC, OfferPC, JobToken
    <3>2. QED
      BY <3>1, <1>s
  <2>2. QED
    BY <1>10, <1>a, <2>1 DEF AdvanceToken, HandPC
<1>11. ASSUME NEW t \in Task, ParkAtServiceTask(c, t) PROVE Goal
  <2>1. Still(k)
    BY <1>k, <1>g, <1>1, <1>11 DEF ParkAtServiceTask, LInv, IInv, TypeOK,
       ClaimPC, HandPC, OfferPC, JobToken
  <2>2. QED
    BY <2>1, <1>s
<1>12. CASE Enqueue(c)
  <2>1. owner[job[c]] = NoWorker /\ (lease[job[c]] > 0) = FALSE
    BY <1>12 DEF Enqueue, LInv, LockInv, OfferPC
  <2>2. ShowsNext(k, "open", owner[job[c]], lease[job[c]] > 0)
    BY <1>1, <1>12, NextViews DEF Enqueue, JobToken
  <2>3. Shows(k, "moving", owner[job[c]], lease[job[c]] > 0)
    BY <1>4, <1>12, <2>1 DEF Enqueue, OfferPC
  <2>4. QED
    BY <1>2, <2>2, <2>3, MovesUnderLock DEF Goal
<1>13. CASE EndBranch(c)
  <2>1. ShowsNext(k, "gone", NoWorker, FALSE)
    BY <1>0, <1>1, <1>13, CallGivesUp DEF LInv, IInv, TypeOK, EndBranch, Goto
  <2>2. QED
    BY <1>13, <1>f, <2>1 DEF EndBranch, HandPC
<1>14. CASE CloseInstance(c)
  <2>1. IsGone(k)'
    BY <1>0, <1>1, <1>14 DEF CloseInstance, Return, LInv, IInv, TypeOK, PlaceInv, Busy, JobToken,
       IsGone, ClaimPC, HandPC, OfferPC, PC
  <2>2. Still(k)
    BY <1>k, <1>14, <2>1 DEF CloseInstance, ClaimPC, HandPC, OfferPC
  <2>3. QED
    BY <2>2, <1>s
<1>15. CASE StepFails(c)
  BY <1>15, <1>a DEF StepFails, HandPC
<1>16. QED
  BY <1>5, <1>6, <1>7, <1>8, <1>9, <1>10, <1>11, <1>12, <1>13, <1>14, <1>15 DEF CallStep

\* Time expires some locks.
LEMMA TickImplements ==
  ASSUME LInv, Views, Views', Tick PROVE \E batch \in SUBSET Token : Life!Expire(batch)
<1>1. PICK batch \in SUBSET Token :
        batch = {k \in Token : ~lifeLive'[k]}
  OBVIOUS
<1>2. ASSUME NEW k \in Token
      PROVE  lifePhase'[k] = lifePhase[k] /\ lifeHolder'[k] = lifeHolder[k] /\ (lifeLive'[k] => lifeLive[k])
  <2>0. UNCHANGED <<pending, tokenOf, owner, pc, job>>
    BY DEF Tick
  <2>1. ASSUME NEW t \in pending, tokenOf[t] = k
        PROVE  /\ Shows(k, "open", owner[t], lease[t] > 0) /\ ShowsNext(k, "open", owner[t], lease'[t] > 0)
               /\ lease'[t] > 0 => lease[t] > 0
    <3>1. Shows(k, "open", owner[t], lease[t] > 0) /\ ShowsNext(k, "open", owner[t], lease'[t] > 0)
      BY <2>0, <2>1, NextViews DEF Views
    <3>2. lease'[t] > 0 => lease[t] > 0
      BY BoundsAssumption DEF Tick, LInv, IInv, TypeOK
    <3>3. QED
      BY <3>1, <3>2
  <2>2. ASSUME NEW c \in Call, pc[c] \in ClaimPC, JobToken(c) = k
        PROVE  /\ Shows(k, "claimed", owner[job[c]], lease[job[c]] > 0)
               /\ ShowsNext(k, "claimed", owner[job[c]], lease'[job[c]] > 0)
               /\ lease'[job[c]] > 0 => lease[job[c]] > 0
    <3>1. /\ Shows(k, "claimed", owner[job[c]], lease[job[c]] > 0)
          /\ ShowsNext(k, "claimed", owner[job[c]], lease'[job[c]] > 0)
      BY <2>0, <2>2, NextViews DEF Views, JobToken
    <3>2. lease'[job[c]] > 0 => lease[job[c]] > 0
      BY <2>2, BoundsAssumption, NullAssumption DEF Tick, LInv, IInv, TypeOK, ClaimPC
    <3>3. QED
      BY <3>1, <3>2
  <2>3. ASSUME NEW c \in Call, pc[c] \in HandPC \cup OfferPC, JobToken(c) = k
        PROVE  Shows(k, "moving", NoWorker, FALSE) /\ ShowsNext(k, "moving", NoWorker, FALSE)
    BY <2>0, <2>3, NextViews DEF Views, JobToken
  <2>4. ASSUME IsGone(k)
        PROVE  Shows(k, "gone", NoWorker, FALSE) /\ ShowsNext(k, "gone", NoWorker, FALSE)
    <3>1. IsGone(k)'
      BY <2>0, <2>4 DEF IsGone, JobToken
    <3>2. QED
      BY <2>4, <3>1, NextViews DEF Views
  <2>5. \/ IsGone(k)
        \/ \E t \in pending : tokenOf[t] = k
        \/ \E c \in Call : pc[c] \in ClaimPC /\ JobToken(c) = k
        \/ \E c \in Call : pc[c] \in HandPC \cup OfferPC /\ JobToken(c) = k
    BY DEF IsGone
  <2>6. QED
    BY <2>1, <2>2, <2>3, <2>4, <2>5 DEF Shows, ShowsNext
<1>3. MapOK /\ MapOK'
  BY MapCorrect, PTL
<1>4. lifePhase' = lifePhase /\ lifeHolder' = lifeHolder
  BY <1>2, <1>3 DEF MapOK
<1>5. lifeLive' = [k \in Token |-> lifeLive[k] /\ k \notin batch]
  <2>1. \A k \in Token : lifeLive[k] \in BOOLEAN /\ lifeLive'[k] \in BOOLEAN
    BY <1>3 DEF MapOK
  <2>2. \A k \in Token : lifeLive'[k] = (lifeLive[k] /\ k \notin batch)
    BY <1>1, <1>2, <2>1
  <2>3. QED
    BY <1>3, <2>2 DEF MapOK
<1>6. QED
  BY <1>4, <1>5 DEF Life!Expire

\* purge_wait_states withdraws the queued tokens of the instance.
LEMMA PurgeImplements ==
  ASSUME LInv, Views, Views', NEW i \in Instance, PurgeQueues(i)
  PROVE  \E batch \in SUBSET Token : Life!Withdraw(batch)
<1>1. PICK batch \in SUBSET Token :
        batch = {k \in Token : InstOf[k] = i /\ \E t \in pending : tokenOf[t] = k}
  OBVIOUS
<1>2. ASSUME NEW k \in batch PROVE lifePhase[k] = "open" /\ ShowsNext(k, "gone", NoWorker, FALSE)
  <2>1. PICK t \in pending : tokenOf[t] = k
    BY <1>1
  <2>2. lifePhase[k] = "open"
    BY <2>1 DEF Views, Shows
  <2>3. IsGone(k)'
    BY <1>1, <2>1, NullAssumption
    DEF PurgeQueues, IsGone, LInv, IInv, TypeOK, PlaceInv, Busy, JobToken, ClaimPC, HandPC, OfferPC
  <2>4. QED
    BY <2>2, <2>3, NextViews
<1>3. ASSUME NEW k \in Token \ batch PROVE SameView(k)
  <2>1. Still(k)
    BY <1>1 DEF PurgeQueues, Still, IsGone, JobToken
  <2>2. QED
    BY <2>1, StillSameView
<1>4. MapOK /\ MapOK'
  BY MapCorrect, PTL
<1>5. lifePhase' = [k \in Token |-> IF k \in batch THEN "gone" ELSE lifePhase[k]]
  BY <1>2, <1>3, <1>4 DEF MapOK, ShowsNext, SameView
<1>6. lifeHolder' = [k \in Token |-> IF k \in batch THEN NoWorker ELSE lifeHolder[k]]
  BY <1>2, <1>3, <1>4 DEF MapOK, ShowsNext, SameView
<1>7. lifeLive' = [k \in Token |-> lifeLive[k] /\ k \notin batch]
  <2>1. \A k \in Token : lifeLive[k] \in BOOLEAN
    BY DEF lifeLive
  <2>2. \A k \in Token : lifeLive'[k] = (lifeLive[k] /\ k \notin batch)
    BY <1>2, <1>3, <2>1 DEF ShowsNext, SameView
  <2>3. QED
    BY <1>4, <2>2 DEF MapOK
<1>8. QED
  BY <1>2, <1>5, <1>6, <1>7 DEF Life!Withdraw

\* Every step of the calls, the operator and the clock is a step of TokenLife.
LEMMA NextImplements == LInv /\ LInv' /\ [Next]_vars => [Life!Next]_(Life!vars)
<1> SUFFICES ASSUME LInv, LInv', [Next]_vars PROVE Life!Next \/ UNCHANGED Life!vars
  OBVIOUS
<1>1. Views /\ Views'
  <2>1. Views
    BY ViewsCorrect DEF LInv
  <2>2. IInv' => Views'
    BY ViewsCorrect, PTL
  <2>3. QED
    BY <2>1, <2>2 DEF LInv
<1>2. ASSUME NEW c \in Call, CallStep(c) PROVE Life!Next \/ UNCHANGED Life!vars
  BY <1>1, <1>2, CallStepImplements DEF Life!Next
<1>3. ASSUME NEW c \in Call, NEW t \in pending, NEW label \in ClaimPC, Claim(c, t, label)
      PROVE  Life!Next
  <2>1. Life!Claim(tokenOf[t]) /\ tokenOf[t] \in Token
    BY <1>1, <1>3, ClaimImplements DEF LInv, IInv, TypeOK
  <2>2. QED
    BY <2>1 DEF Life!Next
<1>4. ASSUME NEW c \in Call, NEW t \in Task,
             ResolveIncident(c, t) \/ \E w \in Worker : CompleteTask(c, w, t) \/ HandleBpmnError(c, w, t)
      PROVE  Life!Next
  BY <1>4, <1>3 DEF ResolveIncident, CompleteTask, HandleBpmnError, OwnsLock, ClaimPC
<1>5. ASSUME NEW w \in Worker, NEW topics \in SUBSET Topic, NEW d \in 0..MaxLease,
             FetchAndLock(w, topics, d)
      PROVE  Life!Next
  BY <1>1, <1>5, FetchImplements DEF Life!Next, LInv
<1>6. ASSUME NEW t \in pending, NEW n, SetRetriesAndUnlock(t, n) PROVE Life!Next
  <2>1. Life!Release(tokenOf[t]) /\ tokenOf[t] \in Token
    BY <1>1, <1>6, LockImplements DEF SetRetriesAndUnlock, Lock, LInv, IInv, TypeOK
  <2>2. QED
    BY <2>1 DEF Life!Next
<1>7. ASSUME NEW t \in Task, RetryIncident(t) \/ \E w \in Worker : FailTask(w, t)
      PROVE  Life!Next
  BY <1>6, <1>7 DEF RetryIncident, FailTask, OwnsLock
<1>8. ASSUME NEW w \in Worker, NEW t \in Task, NEW d \in 0..MaxLease, ExtendLock(w, t, d)
      PROVE  Life!Next
  <2>1. t \in pending /\ owner[t] # NoWorker
    BY <1>8, NullAssumption DEF ExtendLock, OwnsLock
  <2>2. Life!Renew(tokenOf[t], lease'[t] > 0) /\ tokenOf[t] \in Token
    BY <1>1, <1>8, <2>1, LockImplements DEF ExtendLock, LInv, IInv, TypeOK
  <2>3. (lease'[t] > 0) \in BOOLEAN
    OBVIOUS
  <2>4. QED
    BY <2>2, <2>3 DEF Life!Next
<1>9. ASSUME UNCHANGED <<pending, tokenOf, owner, lease, pc, job>> PROVE UNCHANGED Life!vars
  <2>1. \A j \in Token : Still(j)
    BY <1>9 DEF Still, IsGone, JobToken
  <2>2. QED
    BY <1>1, <2>1, NoTokenMoves
<1>10. ASSUME NEW i \in Instance,
              SuspendInstance(i) \/ ResumeInstance(i) \/ DeleteInstance(i) \/ DeleteFails(i)
       PROVE  UNCHANGED Life!vars
  BY <1>9, <1>10 DEF SuspendInstance, ResumeInstance, DeleteInstance, DeleteFails
<1>11. ASSUME NEW i \in Instance, PurgeQueues(i) PROVE Life!Next
  BY <1>1, <1>11, PurgeImplements DEF Life!Next
<1>12. CASE Tick
  BY <1>1, <1>12, TickImplements DEF Life!Next
<1>13. CASE UNCHANGED vars
  BY <1>9, <1>13 DEF vars
<1>14. QED
  BY <1>2, <1>4, <1>5, <1>7, <1>8, <1>10, <1>11, <1>12, <1>13
  DEF Next, WorkerCall, OperatorCall, DeleteStep

\* Whatever calls are in flight at once, and whether the instance is suspended or
\* deleted under them, each token lives the sequential life of TokenLife.
THEOREM TokenLifeImplemented == Spec => ImplementsTokenLife
<1>1. QED
  BY InitImplements, NextImplements, LInvCorrect, PTL DEF Spec, ImplementsTokenLife, Life!Spec
============================================================================
