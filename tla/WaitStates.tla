----------------------------- MODULE WaitStates -----------------------------
(***************************************************************************)
(* The wait states of one process instance that are left by an event: user *)
(* tasks with the boundary events attached to them, catch events and       *)
(* event-based gateways.  A wait state offers several events; each is an   *)
(* entry of one of the maps of pending user tasks, timers and message      *)
(* catches.  Three operations take entries out: the completion of a user   *)
(* task, the timer sweep and the correlation of a message; each of them    *)
(* then cancels the other entries, takes the token and runs a batch.       *)
(*                                                                         *)
(* One step is one access to a map or one scope of the instance's lock, so *)
(* that the operations interleave as their Tokio tasks do.                 *)
(***************************************************************************)
EXTENDS Integers, Sequences, FiniteSets

CONSTANTS
  Wait,         \* nodes a token waits at
  Event,        \* nodes that end a wait: a user task, a catch or boundary event
  Kind,         \* "user", "timer" or "message", of each event
  Offer,        \* the events that end each wait
  Target,       \* the node an event leads to: a wait, or "end"
  Interrupting, \* events that take the token (cancel_activity); others clone it
  Recurring,    \* timers with a cycle or a repeating interval
  Message,      \* message name of each message event
  Start,        \* a sequence: the wait of each token of the initial fork
  Call,         \* calls that can be in flight at once
  Loop,         \* the call the server's timer loop makes (Fairness)
  MaxToken,     \* bound: tokens that can be made
  MaxCycle,     \* bound: times a recurring timer is rescheduled
  MayFail,      \* whether scripts, conditions and steps may fail
  MaySuspend,   \* whether the operator suspends the instance
  EarlyEvents,  \* whether an event may come before its wait is fully set up
  NoEntry, NoToken

Token == 1..MaxToken
Entry == [ev : Event, tok : Token, cycle : 0..MaxCycle]

ASSUME GraphAssumption ==
  /\ Kind \in [Event -> {"user", "timer", "message"}]
  /\ Offer \in [Wait -> SUBSET Event]
  /\ Target \in [Event -> Wait \cup {"end"}]
  /\ Interrupting \subseteq Event /\ Recurring \subseteq {e \in Event : Kind[e] = "timer"}
  /\ \A n \in Wait : Offer[n] # {} /\ \A e \in Offer[n] : Kind[e] = "user" => e = n
ASSUME BoundAssumption == MaxToken \in Nat /\ MaxCycle \in Nat
ASSUME StartAssumption == Start \in Seq(Wait) /\ Len(Start) \in 1..MaxToken
ASSUME LoopAssumption  == Loop \in Call
ASSUME NullAssumption  == NoEntry \notin Entry /\ NoToken \notin Token

VARIABLES
  pending,   \* keys of pending_user_tasks, pending_timers, pending_message_catches
  due,       \* timers of pending with expires_at <= now
  born,      \* number of tokens made so far
  at,        \* Token.current_node
  parked,    \* keys of ProcessInstance.tokens
  active,    \* tokens in ProcessInstance.active_tokens
  fate,      \* "ended" is the completed flag; "lost": dropped by a failed call
  state,     \* ProcessInstance.state
  previous,  \* previous_state of Suspended
  pc, job,   \* per call: its next critical section and the entry it removed
  hand,      \* the token it carries
  list,      \* entries it collected and has still to handle
  todo,      \* entries of the wait it is setting up
  overlap,   \* history: two calls were in flight at once
  early,     \* history: tokens taken between the two steps of handle_user_task
  stranded   \* history: tokens whose waits a late event cancelled

mapVars  == <<pending, due>>
instVars == <<born, at, parked, active, fate, state, previous>>
callVars == <<pc, job, hand, list, todo>>
vars     == <<mapVars, instVars, callVars, overlap, early, stranded>>

State == {"Running", "Waiting", "Parallel", "Suspended", "Completed"}
PC    == {"idle", "check", "takeUser", "cancelTimers", "cancelCatches", "runUser",
          "script", "putBack", "next", "batch", "park", "wait", "insert", "close",
          "returned", "list", "clearTimers", "clearCatches", "runTimer", "take",
          "cancelTasks", "runMessage"}

IsUser(n)    == n \in Event /\ Kind[n] = "user"
Boundary(n)  == IF IsUser(n) THEN Offer[n] \ {n} ELSE {}
NewEntry(e, k) == [ev |-> e, tok |-> k, cycle |-> 0]
OfKind(kind) == {x \in pending : Kind[x.ev] = kind}

\* Entries of a wait that some call is still setting up.
Arming(k)  == \E c \in Call : hand[c] = k /\ pc[c] \in {"park", "wait", "insert"}
Settled(x) == EarlyEvents \/ ~Arming(x.tok)

Init ==
  /\ born = Len(Start)
  /\ at = [k \in Token |-> IF k <= born THEN Start[k] ELSE "end"]
  /\ pending = {x \in Entry : x.tok <= born /\ x.ev \in Offer[Start[x.tok]] /\ x.cycle = 0}
  /\ due = {}
  /\ parked = 1..born
  /\ active = IF born > 1 THEN 1..born ELSE {}
  /\ fate = [k \in Token |-> "live"]
  /\ state = IF born > 1 THEN "Parallel" ELSE "Waiting"
  /\ previous = "Running"
  /\ pc = [c \in Call |-> "idle"]
  /\ job = [c \in Call |-> NoEntry]
  /\ hand = [c \in Call |-> NoToken]
  /\ list = [c \in Call |-> {}]
  /\ todo = [c \in Call |-> {}]
  /\ overlap = FALSE
  /\ early = {} /\ stranded = {}

----------------------------------------------------------------------------
Goto(c, label) == pc' = [pc EXCEPT ![c] = label]

\* The call returns, with a result or with an error that also ends the loop
\* over the entries it collected.
Return(c) == /\ Goto(c, "idle")
             /\ job' = [job EXCEPT ![c] = NoEntry]
             /\ hand' = [hand EXCEPT ![c] = NoToken]
             /\ list' = [list EXCEPT ![c] = {}]
             /\ todo' = [todo EXCEPT ![c] = {}]

\* ? with a token in hand: it is in no list of the instance any more (a clone
\* is, until somebody looks for it).
Abort(c) == /\ Return(c)
            /\ fate' = [fate EXCEPT ![hand[c]] = "lost"]
            /\ UNCHANGED <<mapVars, born, at, parked, active, state, previous>>

\* Mutant: the other half of a timer is forgotten.
RemoveKeepingDue(gone) == pending' = pending \ gone /\ UNCHANGED due

Remove(gone) == pending' = pending \ gone /\ due' = due \ gone

KeepParallel(new) == state' = IF state = "Parallel" THEN state ELSE new

----------------------------------------------------------------------------
(***************************************************************************)
(* complete_user_task.                                                     *)
(***************************************************************************)
CompleteUserTask(c, x) ==
  /\ pc[c] = "idle"
  /\ x \in OfKind("user")
  /\ Remove({x})
  /\ Goto(c, "check")
  /\ job' = [job EXCEPT ![c] = x]
  /\ UNCHANGED <<instVars, hand, list, todo>>

\* Mutant: it does not.
CheckSuspendedDropping(c) ==
  /\ pc[c] = "check"
  /\ IF state = "Suspended"
       THEN Return(c)
       ELSE Goto(c, "takeUser") /\ UNCHANGED <<job, hand, list, todo>>
  /\ UNCHANGED <<mapVars, instVars>>

\* A suspended instance gets its task back.
CheckSuspended(c) ==
  /\ pc[c] = "check"
  /\ IF state = "Suspended"
       THEN pending' = pending \cup {job[c]} /\ Return(c) /\ UNCHANGED due
       ELSE Goto(c, "takeUser") /\ UNCHANGED <<mapVars, job, hand, list, todo>>
  /\ UNCHANGED instVars

\* "Token not found": the task is gone for good.
TakeUserToken(c) ==
  /\ pc[c] = "takeUser"
  /\ IF job[c].tok \in parked
       THEN /\ parked' = parked \ {job[c].tok}
            /\ hand' = [hand EXCEPT ![c] = job[c].tok]
            /\ Goto(c, "cancelTimers")
            /\ UNCHANGED <<job, list, todo>>
       ELSE Return(c) /\ UNCHANGED parked
  /\ UNCHANGED <<mapVars, born, at, active, fate, state, previous>>

\* By node, not by token: another token at the same task loses its events too.
CancelBoundary(c, label, kind, nextLabel) ==
  /\ pc[c] = label
  /\ Remove({x \in OfKind(kind) : x.ev \in Boundary(job[c].ev)})
  /\ Goto(c, nextLabel)
  /\ UNCHANGED <<instVars, job, hand, list, todo>>

CancelBoundaryTimers(c)  == CancelBoundary(c, "cancelTimers", "timer", "cancelCatches")
CancelBoundaryCatches(c) == CancelBoundary(c, "cancelCatches", "message", "runUser")

SetRunningUser(c) ==
  /\ pc[c] = "runUser"
  /\ KeepParallel("Running")
  /\ Goto(c, "script")
  /\ UNCHANGED <<mapVars, born, at, parked, active, fate, previous, job, hand, list, todo>>

\* run_end_scripts: on an error the token is put back, and the state becomes
\* WaitingOnUserTask whatever it was.
RunEndScripts(c) ==
  /\ pc[c] = "script"
  /\ \/ Goto(c, "next") /\ UNCHANGED <<parked, state, hand>>
     \/ /\ MayFail
        /\ state' = "Waiting"
        /\ parked' = parked \cup {hand[c]}
        /\ hand' = [hand EXCEPT ![c] = NoToken]
        /\ Goto(c, "putBack")
  /\ UNCHANGED <<mapVars, born, at, active, fate, previous, job, list, todo>>

PutBackTask(c) ==
  /\ pc[c] = "putBack"
  /\ pending' = pending \cup {job[c]}
  /\ Return(c)
  /\ UNCHANGED <<due, instVars>>

----------------------------------------------------------------------------
(***************************************************************************)
(* process_timers and correlate_message: both collect entries and handle   *)
(* them one by one.                                                        *)
(***************************************************************************)
Collect(c, entries) ==
  /\ pc[c] = "idle"
  /\ entries # {}
  /\ list' = [list EXCEPT ![c] = entries]
  /\ Goto(c, "list")
  /\ UNCHANGED <<mapVars, instVars, job, hand, todo>>

\* Mutant: only instances in WaitingOn... are looked at.
ProcessTimersWaiting(c) == state = "Waiting" /\ Collect(c, due)

ProcessTimers(c) == state # "Suspended" /\ Collect(c, due)

\* A correlation looks at the name and the business key, not at the state.
CorrelateMessage(c, m) ==
  Collect(c, {x \in OfKind("message") : Message[x.ev] = m /\ Settled(x)})

\* An entry that disappeared since it was collected ends the whole call.
NextEntry(c, x) ==
  /\ pc[c] = "list"
  /\ x \in list[c]
  /\ IF x \in pending
       THEN /\ Remove({x})
            /\ job' = [job EXCEPT ![c] = x]
            /\ list' = [list EXCEPT ![c] = @ \ {x}]
            /\ Goto(c, "clearTimers")
            /\ UNCHANGED <<hand, todo>>
       ELSE Return(c) /\ UNCHANGED mapVars
  /\ UNCHANGED instVars

\* clear_wait_states_for_token: whatever the token waits for by now.
ClearWaits(c, label, kind, nextLabel) ==
  /\ pc[c] = label
  /\ Remove({x \in OfKind(kind) : x.tok = job[c].tok})
  /\ Goto(c, nextLabel)
  /\ UNCHANGED <<instVars, job, hand, list, todo>>

ClearTimers(c)  == ClearWaits(c, "clearTimers", "timer", "clearCatches")
ClearCatches(c) == ClearWaits(c, "clearCatches", "message",
                              IF Kind[job[c].ev] = "timer" THEN "runTimer" ELSE "take")

\* The sweep sets Running before it looks for the token.
SetRunningTimer(c) ==
  /\ pc[c] = "runTimer"
  /\ state' = "Running"
  /\ Goto(c, "take")
  /\ UNCHANGED <<mapVars, born, at, parked, active, fate, previous, job, hand, list, todo>>

AfterTake(c) == IF Kind[job[c].ev] = "timer" THEN "next" ELSE "runMessage"

\* Mutant: get instead of remove.
TakeTokenByReading(c) ==
  /\ pc[c] = "take"
  /\ job[c].ev \in Interrupting
  /\ IF job[c].tok \in parked
       THEN /\ hand' = [hand EXCEPT ![c] = job[c].tok]
            /\ Goto(c, "cancelTasks")
            /\ UNCHANGED <<job, list, todo>>
       ELSE Return(c)
  /\ UNCHANGED <<mapVars, instVars>>

TakeToken(c) ==
  /\ pc[c] = "take"
  /\ job[c].ev \in Interrupting
  /\ IF job[c].tok \in parked
       THEN /\ parked' = parked \ {job[c].tok}
            /\ hand' = [hand EXCEPT ![c] = job[c].tok]
            /\ Goto(c, "cancelTasks")
            /\ UNCHANGED <<job, list, todo>>
       ELSE Return(c) /\ UNCHANGED parked
  /\ UNCHANGED <<mapVars, born, at, active, fate, state, previous>>

\* A non-interrupting event runs a clone, which is in the store meanwhile.
CloneToken(c) ==
  /\ pc[c] = "take"
  /\ job[c].ev \notin Interrupting
  /\ IF job[c].tok \in parked
       THEN /\ born < MaxToken
            /\ born' = born + 1
            /\ at' = [at EXCEPT ![born'] = at[job[c].tok]]
            /\ parked' = parked \cup {born'}
            /\ active' = active \cup {born'}
            /\ state' = "Parallel"
            /\ hand' = [hand EXCEPT ![c] = born']
            /\ Goto(c, AfterTake(c))
            /\ UNCHANGED <<job, list, todo>>
       ELSE Return(c) /\ UNCHANGED <<born, at, parked, active, state>>
  /\ UNCHANGED <<mapVars, fate, previous>>

\* Mutant: the tasks are left in the queue.
CancelNoTasks(c) ==
  /\ pc[c] = "cancelTasks"
  /\ Goto(c, AfterTake(c))
  /\ UNCHANGED <<mapVars, instVars, job, hand, list, todo>>

\* User (and service) tasks of the token at the node it was taken from.
CancelTasks(c) ==
  /\ pc[c] = "cancelTasks"
  /\ Remove({x \in OfKind("user") : x.tok = job[c].tok /\ x.ev = at[hand[c]]})
  /\ Goto(c, AfterTake(c))
  /\ UNCHANGED <<instVars, job, hand, list, todo>>

SetRunningMessage(c) ==
  /\ pc[c] = "runMessage"
  /\ KeepParallel("Running")
  /\ Goto(c, "next")
  /\ UNCHANGED <<mapVars, born, at, parked, active, fate, previous, job, hand, list, todo>>

ResolveNext(c) ==
  /\ pc[c] = "next"
  /\ \/ /\ at' = [at EXCEPT ![hand[c]] = Target[job[c].ev]]
        /\ Goto(c, "batch")
        /\ UNCHANGED <<mapVars, born, parked, active, fate, state, previous,
                       job, hand, list, todo>>
     \/ MayFail /\ Abort(c)

----------------------------------------------------------------------------
(***************************************************************************)
(* run_instance_batch on the token.                                        *)
(***************************************************************************)

\* handle_user_task puts the boundary events in their maps first.
ArmBoundary(c) ==
  /\ pc[c] = "batch"
  /\ at[hand[c]] \in Wait
  /\ pending' = pending \cup {NewEntry(e, hand[c]) : e \in Boundary(at[hand[c]])}
  /\ Goto(c, "park")
  /\ UNCHANGED <<due, instVars, job, hand, list, todo>>

\* Then the token is stored, in every handler.
ParkToken(c) ==
  /\ pc[c] = "park"
  /\ parked' = parked \cup {hand[c]}
  /\ todo' = [todo EXCEPT ![c] = Offer[at[hand[c]]] \ Boundary(at[hand[c]])]
  /\ Goto(c, "wait")
  /\ UNCHANGED <<mapVars, born, at, active, fate, state, previous, job, hand, list>>

SetWaiting(c) ==
  /\ pc[c] = "wait"
  /\ KeepParallel("Waiting")
  /\ Goto(c, "insert")
  /\ UNCHANGED <<mapVars, born, at, parked, active, fate, previous, job, hand, list, todo>>

\* The alternatives of a gateway are inserted one by one, and each is saved
\* before the next.
InsertPending(c, e) ==
  /\ pc[c] = "insert"
  /\ e \in todo[c]
  /\ pending' = pending \cup {NewEntry(e, hand[c])}
  /\ todo' = [todo EXCEPT ![c] = @ \ {e}]
  /\ IF todo[c] = {e}
       THEN Goto(c, "returned") /\ hand' = [hand EXCEPT ![c] = NoToken]
       ELSE UNCHANGED <<pc, hand>>
  /\ UNCHANGED <<due, instVars, job, list>>

\* complete_branch_token and tokens.remove.
EndToken(c) ==
  /\ pc[c] = "batch"
  /\ at[hand[c]] = "end"
  /\ fate' = [fate EXCEPT ![hand[c]] = "ended"]
  /\ parked' = parked \ {hand[c]}
  /\ hand' = [hand EXCEPT ![c] = NoToken]
  /\ Goto(c, "close")
  /\ UNCHANGED <<mapVars, born, at, active, state, previous, job, list, todo>>

\* Mutant: any for all.
AnyTokenCompleted == \E k \in active : fate[k] = "ended"

AllTokensCompleted == parked = {} /\ \A k \in active : fate[k] = "ended"

CloseInstance(c) ==
  /\ pc[c] = "close"
  /\ state' = IF AllTokensCompleted THEN "Completed" ELSE state
  /\ Goto(c, "returned")
  /\ UNCHANGED <<mapVars, born, at, parked, active, fate, previous, job, hand, list, todo>>

StepFails(c) == MayFail /\ pc[c] = "batch" /\ Abort(c)

\* After the batch a recurring timer is scheduled again, for the same token;
\* remaining_repetitions is None in every timer the engine makes, which counts
\* as "repeat" (up to the bound MaxCycle).
Reschedule(c) ==
  pending' = pending \cup
    {x \in Entry : /\ job[c].ev \in Recurring
                   /\ x = [job[c] EXCEPT !.cycle = @ + 1]}

BatchReturns(c) ==
  /\ pc[c] = "returned"
  /\ Reschedule(c)
  /\ IF list[c] = {} THEN Return(c)
     ELSE /\ Goto(c, "list")
          /\ job' = [job EXCEPT ![c] = NoEntry]
          /\ UNCHANGED <<hand, list, todo>>
  /\ UNCHANGED <<due, instVars>>

----------------------------------------------------------------------------
\* Wall-clock time: a timer's expires_at passes.  (Bound: not that of a timer
\* that makes a token when there is none left to make.)
Expire(x) ==
  /\ x \in OfKind("timer") \ due
  /\ Settled(x)
  /\ x.ev \in Interrupting \/ born < MaxToken
  /\ due' = due \cup {x}
  /\ UNCHANGED <<pending, instVars, callVars>>

SuspendInstance ==
  /\ MaySuspend
  /\ state \notin {"Completed", "Suspended"}
  /\ previous' = state
  /\ state' = "Suspended"
  /\ UNCHANGED <<mapVars, born, at, parked, active, fate, callVars>>

ResumeInstance ==
  /\ state = "Suspended"
  /\ state' = previous
  /\ previous' = "Running"
  /\ UNCHANGED <<mapVars, born, at, parked, active, fate, callVars>>

CallStep(c) ==
  \/ CheckSuspended(c) \/ TakeUserToken(c)
  \/ CancelBoundaryTimers(c) \/ CancelBoundaryCatches(c)
  \/ SetRunningUser(c) \/ RunEndScripts(c) \/ PutBackTask(c)
  \/ \E x \in list[c] : NextEntry(c, x)
  \/ ClearTimers(c) \/ ClearCatches(c) \/ SetRunningTimer(c)
  \/ TakeToken(c) \/ CloneToken(c) \/ CancelTasks(c) \/ SetRunningMessage(c)
  \/ ResolveNext(c) \/ ArmBoundary(c) \/ ParkToken(c) \/ SetWaiting(c)
  \/ \E e \in todo[c] : InsertPending(c, e)
  \/ EndToken(c) \/ CloseInstance(c) \/ StepFails(c) \/ BatchReturns(c)

\* (Bound: no user task is completed in the timer loop's place in Call.)
Begin(c) ==
  \/ c # Loop /\ \E x \in pending : CompleteUserTask(c, x)
  \/ \E m \in {Message[e] : e \in DOMAIN Message} : CorrelateMessage(c, m)
  \/ ProcessTimers(c)

Tracked(c) == /\ overlap' = (overlap \/ \E d \in Call : pc[d] # "idle")
              /\ UNCHANGED <<early, stranded>>

\* A clone is in the store while its batch arms the boundary events.
Armed(k) == \E d \in Call : hand[d] = k /\ pc[d] = "park"

\* The token has left the wait that the event in hand belongs to.
Late(c) == job[c] # NoEntry /\ LET n == at[job[c].tok] IN n \in Wait /\ job[c].ev \notin Offer[n]

Step(c) == /\ CallStep(c)
           /\ early' = early \cup {k \in parked \ parked' : Armed(k)}
           /\ stranded' = stranded \cup {x.tok : x \in {y \in pending \ pending' : Late(c)}}
           /\ UNCHANGED overlap

\* (Bound: two copies of one token go on from there, which have the one name
\* here; a behaviour is followed up to that step.)
Next ==
  /\ early = {}
  /\ \/ \E c \in Call : (Begin(c) /\ Tracked(c)) \/ Step(c)
     \/ /\ (\E x \in pending : Expire(x)) \/ SuspendInstance \/ ResumeInstance
        /\ UNCHANGED <<overlap, early, stranded>>

Spec == Init /\ [][Next]_vars

\* Tokio polls every call until it returns, and the server's timer loop starts
\* a sweep again and again: it waits for no other call, so that the other uses
\* of its place in Call do not keep it out for ever.
Fairness == /\ \A c \in Call : WF_vars(Step(c))
            /\ SF_vars(ProcessTimers(Loop) /\ Tracked(Loop))

FairSpec == Spec /\ Fairness

----------------------------------------------------------------------------
(***************************************************************************)
(* Properties.                                                             *)
(***************************************************************************)

\* Every variable has its type.
TypeOK ==
  /\ pending \subseteq Entry /\ due \subseteq pending
  /\ born \in 0..MaxToken
  /\ at \in [Token -> Wait \cup {"end"}]
  /\ parked \subseteq 1..born /\ active \subseteq 1..born
  /\ fate \in [Token -> {"live", "ended", "lost"}]
  /\ state \in State /\ previous \in State \ {"Completed", "Suspended"}
  /\ pc \in [Call -> PC]
  /\ job \in [Call -> Entry \cup {NoEntry}]
  /\ hand \in [Call -> Token \cup {NoToken}]
  /\ list \in [Call -> SUBSET Entry]
  /\ todo \in [Call -> SUBSET Event]
  /\ overlap \in BOOLEAN /\ early \subseteq 1..born
  /\ stranded \subseteq 1..born

\* Calls that carry a token in a local variable and have not stored it again.
Carriers(k) == {c \in Call : hand[c] = k /\ pc[c] \notin {"wait", "insert"}}

\* Whatever races for a token, one of them gets it: no two calls carry it, a
\* call that carries it has taken it out of the store (a clone is stored from
\* its birth, so that the instance does not complete without it), and a token
\* that ended or was dropped is not carried; unless an event took a clone when
\* the boundary events of its task were armed and its batch still carried it.
OneTokenOnePlace ==
  \A k \in (1..born) \ early :
    /\ Cardinality(Carriers(k)) <= 1
    /\ Carriers(k) # {} => fate[k] = "live" /\ (k \in parked => k > Len(Start))
    /\ k \in parked => fate[k] # "ended"

\* The types hold and no two calls of user_task.rs, timer_processor.rs and
\* message_processor.rs hold one token.
Consistent == TypeOK /\ OneTokenOnePlace

\* Entries of a token, and calls that work for it.
Entries(k)   == {x \in pending : x.tok = k}
WorkersOn(k) == {c \in Call : hand[c] = k \/ (job[c] # NoEntry /\ job[c].tok = k)}

\* A token that is parked can go on: some entry is there for it, or a call is
\* about to take it or to put an entry back; unless a sweep or a correlation
\* came so late that it cancelled the waits of a token that had gone on.
ParkedTokenCanMove ==
  \A k \in parked \ stranded : fate[k] = "live" => Entries(k) # {} \/ WorkersOn(k) # {}

Quiet == \A c \in Call : pc[c] = "idle"

\* A timer that has taken its token (a cycle at a catch event or at an interrupting
\* boundary event) and was put back all the same: the token has gone on.
Repeated(x) == x.ev \in Recurring \cap Interrupting /\ x.cycle > 0

\* As long as no two calls overlapped, every entry, other than a repeated timer,
\* stands for a token that is parked at a wait that offers its event: no call leaves
\* an alternative behind, also when it fails, fires a non-interrupting event or has
\* come for a repeated timer, which takes its token from whatever wait it is at.
NoEntryLeftBehind ==
  Quiet /\ ~overlap =>
    \A x \in pending : Repeated(x) \/ (x.tok \in parked /\ x.ev \in Offer[at[x.tok]])

\* The completion check knows the token call c carries or is about to clone: it is in
\* active_tokens, as every token of an instance that forked.  The one token of a
\* linear instance is not, and stays out when an event clones it.
Counted(c) == IF hand[c] # NoToken THEN hand[c] \in active ELSE job[c].tok \in active

\* However calls overlap, a completed instance is taken back in three ways only: by a
\* sweep, which sets Running before it looks for the token of its timer; by a call that
\* has parked its token and notes only then what the instance waits for; and by a call
\* for a token that the completion check does not know.  As long as no calls
\* overlapped, it takes the sweep of a repeated timer.
CompletedIsFinal ==
  [][state = "Completed" /\ state' # "Completed" =>
       \E c \in Call : /\ pc'[c] # pc[c]
                       /\ pc[c] \in {"runTimer", "wait"} \/ ~Counted(c)
                       /\ overlap' \/ Repeated(job[c])]_vars

\* A due timer fires, or is cancelled with its wait, although sweeps are ended
\* by the first timer that disappears under them; unless the instance stays
\* suspended or two copies of a token are under way.
DueTimersFire ==
  <>[](state # "Suspended") =>
    \A k \in 1..Len(Start) : \A e \in {f \in Event : Kind[f] = "timer"} :
      NewEntry(e, k) \in due ~> NewEntry(e, k) \notin pending \/ early # {}

\* What the proofs need of the graph.  A user task is a node that its completion
\* ends; only boundary events leave their activity going on; and a boundary event is
\* attached to one activity and is not what a gateway leads to (ProcessDefinition::new).
EventsHaveTheirWait ==
  /\ \A e \in Event : Kind[e] = "user" => e \in Wait /\ e \in Offer[e]
  /\ \A n \in Wait : ~IsUser(n) => Offer[n] \subseteq Interrupting
  /\ \A n, m \in Wait : IsUser(n) /\ ~IsUser(m) => Boundary(n) \cap Offer[m] = {}
=============================================================================
