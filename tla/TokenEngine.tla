----------------------------- MODULE TokenEngine -----------------------------
(***************************************************************************)
(* The executor: batches (run_instance_batch) that move the tokens of one  *)
(* process instance over its graph, with forks, join barriers, wait        *)
(* states, end events and the check that completes the instance.           *)
(*                                                                         *)
(* A batch has its queue in a local variable and runs on the Tokio task of *)
(* the call that started it: the start of the instance, or the completion  *)
(* of a waiting task.  One step is one scope of the instance's lock, with  *)
(* the local work before it, so batches interleave between their scopes.   *)
(***************************************************************************)
EXTENDS Integers, FiniteSets, Sequences, Functions

CONSTANTS
  Node,        \* nodes of the process definition
  Kind,        \* what each node is
  Flow,        \* targets of the outgoing flows of each node, in order
  Start,       \* the start event
  JoinOf,      \* the join that find_downstream_join returns for each split
  Fallible,    \* nodes whose scripts or conditions may return an error
  Batch,       \* batches that can run at once
  MaxTokens,   \* bound: tokens of one behaviour
  MaxSteps,    \* MAX_EXECUTION_STEPS of a batch (the code: 10000)
  NoNode, NoToken, NoBarrier

Token == 1..MaxTokens

\* "pass": start events, script and send tasks, exclusive gateways, sub-process
\* borders.  "wait": service tasks.
NodeKind == {"pass", "wait", "parallel", "inclusive", "complex",
             "end", "errorEnd", "terminate"}
Gateway  == {n \in Node : Kind[n] \in {"parallel", "inclusive", "complex"}}

ASSUME GraphAssumption ==
  /\ Kind \in [Node -> NodeKind]
  /\ Flow \in [Node -> Seq(Node)]
  /\ \A n \in Node :
       /\ Flow[n] = <<>> <=> Kind[n] \in {"end", "errorEnd", "terminate"}
       /\ \A i, j \in DOMAIN Flow[n] : Flow[n][i] = Flow[n][j] => i = j
  /\ Start \in Node
  /\ Fallible \subseteq Node
  /\ JoinOf \in [Node -> Node \cup {NoNode}]
ASSUME BoundAssumption == MaxTokens \in Nat \ {0} /\ MaxSteps \in Nat \ {0}
ASSUME NullAssumption  == NoToken \notin Nat /\ NoNode \notin Node
ASSUME BarrierAssumption == NoBarrier \notin [expected : Nat, arrived : SUBSET Token]
ASSUME FiniteAssumption == IsFiniteSet(Node)

VARIABLES
  born,      \* tokens created so far: 1..born
  at,        \* Token.current_node
  merged,    \* Token.is_merged
  active,    \* ids in ProcessInstance.active_tokens
  done,      \* those of them that are flagged completed
  parked,    \* keys of ProcessInstance.tokens
  open,      \* tokens with an entry in a map of pending tasks
  barrier,   \* ProcessInstance.join_barriers
  state,     \* ProcessInstance.state
  reported,  \* how often the end was reported: to the parent, to the metrics
  pc,        \* per batch: what it does next
  queue,     \* per batch: its VecDeque
  hand,      \* per batch: the token it is working on
  todo,      \* per batch: forked tokens not yet registered
  steps      \* per batch: step_count

instVars  == <<born, at, merged, active, done, parked, open, barrier, state, reported>>
tokenVars == <<born, at, merged>>
batchVars == <<pc, queue, hand, todo, steps>>
vars      == <<instVars, batchVars>>

State == {"Running", "Waiting", "Parallel", "Completed", "CompletedWithError"}
Final == {"Completed", "CompletedWithError"}
PC    == {"idle", "loop", "barrier", "fork", "branches", "merged", "wait",
          "enqueue", "ending", "closing", "terminating", "take", "run"}

Targets(n)  == Range(Flow[n])
Incoming(n) == Cardinality({m \in Node : n \in Targets(m)})  \* one flow from m at most

\* The flows a node may take: one, all of them, or those whose condition holds.
Choices(n) ==
  CASE Kind[n] \in {"pass", "wait"}         -> {{m} : m \in Targets(n)}
    [] Kind[n] = "parallel"                 -> {Targets(n)}
    [] Kind[n] \in {"inclusive", "complex"} -> SUBSET Targets(n) \ {{}}
    [] OTHER                                -> {}

IsJoin(n)    == n \in Gateway /\ Incoming(n) >= 2
MustJoin(k)  == IsJoin(at[k]) /\ ~merged[k]

Init ==
  /\ born = 1
  /\ at = [k \in Token |-> Start]
  /\ merged = [k \in Token |-> FALSE]
  /\ active = {} /\ done = {} /\ parked = {} /\ open = {}
  /\ barrier = [n \in Node |-> NoBarrier]
  /\ state = "Running" /\ reported = 0
  /\ \E b \in Batch :
       /\ pc = [c \in Batch |-> IF c = b THEN "loop" ELSE "idle"]
       /\ queue = [c \in Batch |-> IF c = b THEN <<1>> ELSE <<>>]
  /\ hand = [b \in Batch |-> NoToken]
  /\ todo = [b \in Batch |-> <<>>]
  /\ steps = [b \in Batch |-> 0]

----------------------------------------------------------------------------
(***************************************************************************)
(* One iteration of the loop: pop a token, execute_step, then              *)
(* handle_next_action.                                                     *)
(***************************************************************************)
Popped(b) == Head(queue[b])
Pop(b, rest) == /\ queue' = [queue EXCEPT ![b] = rest]
                /\ steps' = [steps EXCEPT ![b] = @ + 1]
Ready(b)  == pc[b] = "loop" /\ queue[b] # <<>> /\ steps[b] < MaxSteps

\* The batch goes on at label with token k in its hands.
Holding(b, k, label) == /\ pc'   = [pc EXCEPT ![b] = label]
                        /\ hand' = [hand EXCEPT ![b] = k]
Loop(b) == Holding(b, NoToken, "loop")

\* The call returns: what its queue still holds is dropped.
Return(b) == /\ Holding(b, NoToken, "idle")
             /\ queue' = [queue EXCEPT ![b] = <<>>]
             /\ steps' = [steps EXCEPT ![b] = 0]
             /\ UNCHANGED todo

\* Mutant: a gateway does not reset is_merged.
KeepMerged(k) == UNCHANGED merged

\* is_merged lets a token pass the join that made it, and no other.
ResetMerged(k) == merged' = [merged EXCEPT ![k] = FALSE]

\* NextAction::Continue, also from a gateway that takes a single flow.
Continue(b) ==
  LET k == Popped(b) IN
  /\ Ready(b) /\ Kind[at[k]] # "wait" /\ ~MustJoin(k)
  /\ \E m \in Targets(at[k]) : {m} \in Choices(at[k]) /\ at' = [at EXCEPT ![k] = m]
  /\ ResetMerged(k)
  /\ Pop(b, Append(Tail(queue[b]), k))
  /\ UNCHANGED <<born, active, done, parked, open, barrier, state, reported, pc, hand, todo>>

\* NextAction::ContinueMultiple: one new token per flow taken, in their order.
Fork(b) ==
  LET k == Popped(b)
      flows == Flow[at[k]]
  IN
  /\ Ready(b) /\ ~MustJoin(k)
  /\ \E n \in 2..Len(flows) : \E taken \in [1..n -> DOMAIN flows] :
       /\ \A i, j \in 1..n : i < j => taken[i] < taken[j]
       /\ {flows[taken[i]] : i \in 1..n} \in Choices(at[k])
       /\ born + n <= MaxTokens
       /\ born' = born + n
       /\ at' = [j \in Token |-> IF j \in (born + 1)..born'
                                   THEN flows[taken[j - born]] ELSE at[j]]
       /\ todo' = [todo EXCEPT ![b] = [j \in 1..n |-> born + j]]
  /\ Holding(b, k, "barrier")
  /\ Pop(b, Tail(queue[b]))
  /\ UNCHANGED <<merged, active, done, parked, open, barrier, state, reported>>

\* Mutant: the forked token is counted among the branches.
RegisterJoinBarrierOneMore(b) ==
  /\ pc[b] = "barrier"
  /\ LET join == JoinOf[at[hand[b]]] IN
       barrier' = IF join = NoNode THEN barrier
                  ELSE [barrier EXCEPT ![join] =
                          [expected |-> Len(todo[b]) + 1, arrived |-> {}]]
  /\ pc' = [pc EXCEPT ![b] = "fork"]
  /\ UNCHANGED <<tokenVars, active, done, parked, open, state, reported, queue, hand, todo, steps>>

\* register_join_barrier_if_needed replaces a barrier that is already there.
RegisterJoinBarrier(b) ==
  /\ pc[b] = "barrier"
  /\ LET join == JoinOf[at[hand[b]]] IN
       barrier' = IF join = NoNode THEN barrier
                  ELSE [barrier EXCEPT ![join] =
                          [expected |-> Len(todo[b]), arrived |-> {}]]
  /\ pc' = [pc EXCEPT ![b] = "fork"]
  /\ UNCHANGED <<tokenVars, active, done, parked, open, state, reported, queue, hand, todo, steps>>

\* Mutant: the forked token is flagged whether it was registered or not.
MarkForkedUnregistered(b) ==
  /\ pc[b] = "fork"
  /\ done' = done \cup {hand[b]}
  /\ state' = "Parallel"
  /\ Holding(b, NoToken, "branches")
  /\ UNCHANGED <<tokenVars, active, parked, open, barrier, reported, queue, todo, steps>>

\* Mutant: the forked token is not flagged.
MarkForkedLater(b) ==
  /\ pc[b] = "fork"
  /\ done' = done
  /\ state' = "Parallel"
  /\ Holding(b, NoToken, "branches")
  /\ UNCHANGED <<tokenVars, active, parked, open, barrier, reported, queue, todo, steps>>

\* The forked token is flagged, then the branches are registered one by one.
MarkForked(b) ==
  /\ pc[b] = "fork"
  /\ done' = done \cup ({hand[b]} \cap active)
  /\ state' = "Parallel"
  /\ Holding(b, NoToken, "branches")
  /\ UNCHANGED <<tokenVars, active, parked, open, barrier, reported, queue, todo, steps>>

RegisterActiveToken(b) ==
  LET k == Head(todo[b]) IN
  /\ pc[b] = "branches"
  /\ active' = active \cup {k}
  /\ queue' = [queue EXCEPT ![b] = Append(@, k)]
  /\ todo' = [todo EXCEPT ![b] = Tail(@)]
  /\ pc' = [pc EXCEPT ![b] = IF Len(todo[b]) = 1 THEN "loop" ELSE "branches"]
  /\ UNCHANGED <<tokenVars, done, parked, open, barrier, state, reported, hand, steps>>

\* Mutant: a join fires for more than the expected tokens only.
ExpectedAndOne(n) == 1 + (IF barrier[n] = NoBarrier THEN Incoming(n) ELSE barrier[n].expected)

\* arrive_at_join: without a barrier the join expects its incoming flows; the
\* condition of a complex gateway may let it fire early.
Expected(n) == IF barrier[n] = NoBarrier THEN Incoming(n) ELSE barrier[n].expected
Arrived(n)  == IF barrier[n] = NoBarrier THEN {} ELSE barrier[n].arrived

ArriveAtJoin(b) ==
  LET k == Popped(b)
      n == at[k]
      arrived == Arrived(n) \cup {k}
      fresh == born + 1
  IN
  /\ Ready(b) /\ MustJoin(k)
  /\ Pop(b, Tail(queue[b]))
  /\ \/ /\ Cardinality(arrived) < Expected(n)
        /\ barrier' = [barrier EXCEPT ![n] = [expected |-> Expected(n),
                                              arrived |-> arrived]]
        /\ UNCHANGED <<tokenVars, done, pc, hand>>
     \/ /\ Cardinality(arrived) >= Expected(n) \/ Kind[n] = "complex"
        /\ fresh <= MaxTokens
        /\ barrier' = [barrier EXCEPT ![n] = NoBarrier]
        /\ done' = done \cup (arrived \cap active)
        /\ born' = fresh
        /\ at' = [at EXCEPT ![fresh] = n]
        /\ merged' = [merged EXCEPT ![fresh] = TRUE]
        /\ Holding(b, fresh, "merged")
  /\ UNCHANGED <<active, parked, open, state, reported, todo>>

\* The merged token is queued; nothing registers it in active_tokens.
LeaveJoin(b) ==
  /\ pc[b] = "merged"
  /\ state' = "Running"
  /\ queue' = [queue EXCEPT ![b] = Append(@, hand[b])]
  /\ Loop(b)
  /\ UNCHANGED <<tokenVars, active, done, parked, open, barrier, reported, todo, steps>>

\* A wait state: the handler stores the token, handle_next_action sets the
\* state and then inserts the pending task.
Park(b) ==
  LET k == Popped(b) IN
  /\ Ready(b) /\ Kind[at[k]] = "wait"
  /\ parked' = parked \cup {k}
  /\ Holding(b, k, "wait")
  /\ Pop(b, Tail(queue[b]))
  /\ UNCHANGED <<tokenVars, active, done, open, barrier, state, reported, todo>>

SetWaiting(b) ==
  /\ pc[b] = "wait"
  /\ state' = IF state = "Parallel" THEN state ELSE "Waiting"
  /\ pc' = [pc EXCEPT ![b] = "enqueue"]
  /\ UNCHANGED <<tokenVars, active, done, parked, open, barrier, reported, queue, hand, todo, steps>>

InsertPending(b) ==
  /\ pc[b] = "enqueue"
  /\ open' = open \cup {hand[b]}
  /\ Loop(b)
  /\ UNCHANGED <<tokenVars, active, done, parked, barrier, state, reported, queue, todo, steps>>

\* NextAction::Complete and ErrorEnd: flag the branch, ask whether every token
\* is completed, and only then set the state.
EndBranch(b) ==
  LET k == Popped(b) IN
  /\ Ready(b) /\ Kind[at[k]] \in {"end", "errorEnd"}
  /\ done' = done \cup ({k} \cap active)
  /\ parked' = parked \ {k}
  /\ Holding(b, k, "ending")
  /\ Pop(b, Tail(queue[b]))
  /\ UNCHANGED <<tokenVars, active, open, barrier, state, reported, todo>>

\* Mutant: only the tokens in the store are looked at.
AllStoredCompleted == parked = {}

\* With no active token the flow is linear: the one token has just ended.
AllTokensCompleted == parked = {} /\ active \subseteq done

CheckCompleted(b) ==
  /\ pc[b] = "ending"
  /\ IF AllTokensCompleted THEN Holding(b, hand[b], "closing") ELSE Loop(b)
  /\ UNCHANGED <<instVars, queue, todo, steps>>

CloseInstance(b) ==
  /\ pc[b] = "closing"
  /\ state' = IF Kind[at[hand[b]]] = "errorEnd" THEN "CompletedWithError" ELSE "Completed"
  /\ Loop(b)
  /\ UNCHANGED <<tokenVars, active, done, parked, open, barrier, reported, queue, todo, steps>>

\* NextAction::Terminate withdraws the pending tasks, then flags every active
\* token and clears this batch's queue, but not the store.
TerminateTasks(b) ==
  LET k == Popped(b) IN
  /\ Ready(b) /\ Kind[at[k]] = "terminate"
  /\ open' = {}
  /\ Holding(b, k, "terminating")
  /\ Pop(b, Tail(queue[b]))
  /\ UNCHANGED <<tokenVars, active, done, parked, barrier, state, reported, todo>>

TerminateInstance(b) ==
  /\ pc[b] = "terminating"
  /\ done' = active
  /\ state' = "Completed"
  /\ queue' = [queue EXCEPT ![b] = <<>>]
  /\ Loop(b)
  /\ UNCHANGED <<tokenVars, active, parked, open, barrier, reported, todo, steps>>

\* The ? of run_instance_batch: an error of one token drops the whole queue.
StepFails(b) ==
  /\ Ready(b) /\ at[Popped(b)] \in Fallible
  /\ Return(b)
  /\ UNCHANGED instVars

\* The step limit completes the instance and drops the queue.
AbortRunaway(b) ==
  /\ pc[b] = "loop" /\ queue[b] # <<>> /\ steps[b] = MaxSteps
  /\ state' = "CompletedWithError"
  /\ Return(b)
  /\ UNCHANGED <<tokenVars, active, done, parked, open, barrier, reported>>

\* A batch that ends looks whether the instance is completed, whoever did that.
FinishBatch(b) ==
  /\ pc[b] = "loop" /\ queue[b] = <<>>
  /\ reported' = IF state \in Final THEN reported + 1 ELSE reported
  /\ Return(b)
  /\ UNCHANGED <<tokenVars, active, done, parked, open, barrier, state>>

----------------------------------------------------------------------------
(***************************************************************************)
(* A waiting task is completed: it is removed from its map, then its token *)
(* from the store, then the token goes on in a batch of its own.  Module   *)
(* ServiceTask has these steps in detail.                                  *)
(***************************************************************************)
CompleteTask(b, k) ==
  /\ pc[b] = "idle" /\ k \in open
  /\ open' = open \ {k}
  /\ Holding(b, k, "take")
  /\ UNCHANGED <<tokenVars, active, done, parked, barrier, state, reported, queue, todo, steps>>

\* Mutant: the token is read, and stays in the store.
TakeTokenCloning(b) ==
  /\ pc[b] = "take"
  /\ IF hand[b] \in parked THEN Holding(b, hand[b], "run")
                           ELSE Holding(b, NoToken, "idle")
  /\ UNCHANGED <<instVars, queue, todo, steps>>

TakeToken(b) ==
  /\ pc[b] = "take"
  /\ parked' = parked \ {hand[b]}
  /\ IF hand[b] \in parked THEN Holding(b, hand[b], "run")
                           ELSE Holding(b, NoToken, "idle")
  /\ UNCHANGED <<tokenVars, active, done, open, barrier, state, reported, queue, todo, steps>>

\* The token keeps its id and gets its next node; end scripts and conditions of
\* the task may fail first, after the state was set.
ResumeToken(b) ==
  LET k == hand[b] IN
  /\ pc[b] = "run"
  /\ state' = IF state = "Parallel" THEN state ELSE "Running"
  /\ \/ /\ \E m \in Targets(at[k]) : at' = [at EXCEPT ![k] = m]
        /\ queue' = [queue EXCEPT ![b] = <<k>>]
        /\ Loop(b)
        /\ UNCHANGED <<todo, steps>>
     \/ /\ at[k] \in Fallible
        /\ Return(b)
        /\ UNCHANGED at
  /\ UNCHANGED <<born, merged, active, done, parked, open, barrier, reported>>

----------------------------------------------------------------------------
BatchStep(b) ==
  \/ Continue(b) \/ Fork(b) \/ RegisterJoinBarrier(b) \/ MarkForked(b)
  \/ RegisterActiveToken(b) \/ ArriveAtJoin(b) \/ LeaveJoin(b)
  \/ Park(b) \/ SetWaiting(b) \/ InsertPending(b)
  \/ EndBranch(b) \/ CheckCompleted(b) \/ CloseInstance(b)
  \/ TerminateTasks(b) \/ TerminateInstance(b)
  \/ StepFails(b) \/ AbortRunaway(b) \/ FinishBatch(b)
  \/ TakeToken(b) \/ ResumeToken(b)

Next == \E b \in Batch : BatchStep(b) \/ \E k \in Token : CompleteTask(b, k)

Spec == Init /\ [][Next]_vars

(***************************************************************************)
(* Tokio polls every batch until it returns, and somebody completes every  *)
(* task at some point.                                                     *)
(***************************************************************************)
Fairness == \A b \in Batch : /\ WF_vars(BatchStep(b))
                             /\ WF_vars(\E k \in Token : CompleteTask(b, k))
FairSpec == Spec /\ Fairness

----------------------------------------------------------------------------
(***************************************************************************)
(* Properties.                                                             *)
(***************************************************************************)

\* Every variable has its type; batches are empty-handed exactly when they
\* have nothing to remember between two scopes.
TypeOK ==
  /\ born \in Token
  /\ at \in [Token -> Node] /\ merged \in [Token -> BOOLEAN]
  /\ active \subseteq 1..born /\ done \subseteq active
  /\ parked \subseteq 1..born /\ open \subseteq 1..born
  /\ \A n \in Node : barrier[n] # NoBarrier =>
       barrier[n].expected \in Nat /\ barrier[n].arrived \subseteq 1..born
  /\ state \in State /\ reported \in Nat
  /\ pc \in [Batch -> PC]
  /\ queue \in [Batch -> Seq(1..born)] /\ todo \in [Batch -> Seq(1..born)]
  /\ hand \in [Batch -> 1..born \cup {NoToken}]
  /\ steps \in [Batch -> 0..MaxSteps]
  /\ \A b \in Batch : hand[b] = NoToken <=> pc[b] \in {"idle", "loop", "branches"}

\* Where a token is: in a queue, among the branches of a fork, in the hands of a
\* batch, at a join, or in the store.
Listed(list, k) == UNION {{b} \X {j \in 1..Len(list[b]) : list[b][j] = k} : b \in Batch}
Queued(k)  == Listed(queue, k)
Forked(k)  == Listed(todo, k)
Carried(k) == {b \in Batch : pc[b] \in {"merged", "run"} /\ hand[b] = k}
AtJoin(k)  == {n \in Node : k \in Arrived(n)}
Places(k)  == Cardinality(Queued(k)) + Cardinality(Forked(k)) + Cardinality(Carried(k))
              + Cardinality(AtJoin(k)) + (IF k \in parked THEN 1 ELSE 0)
Living     == {k \in 1..born : Places(k) > 0}

\* Tokens exist in exactly one place at any moment (or are spent), and a task is
\* open for a token of the store only, to be completed by one batch.
OneTokenOnePlace ==
  /\ \A k \in 1..born : Places(k) <= 1
  /\ open \subseteq parked
  /\ \A b, c \in Batch : pc[b] = "take" =>
       hand[b] \in parked \ open /\ (b # c => hand[b] # hand[c])

\* A token that was registered and is not flagged is somewhere: none is dropped
\* while the completion check still counts on it.
TokensKept ==
  \A k \in active \ done : Places(k) > 0 \/ \E b \in Batch : hand[b] = k

\* The instance is completed only when no token is left anywhere, in the local
\* queue of another batch either.
CompletedIsQuiet == state \in Final => Living = {}

\* When no batch runs and no task waits, the instance has completed: no token is
\* left waiting at a join for others that will never come.
Idle        == \A b \in Batch : pc[b] = "idle"
JoinsAreMet == Idle /\ parked = {} => state \in Final

\* Every process comes to its end when its tasks are completed, and some batch
\* reports the end: to the parent, to the metrics and to the archive.
Completes == <>(state \in Final /\ reported > 0)

\* A join does not hold a token for each of its flows, as the one that came last
\* would have made it fire: only a fork with more flows than the join that
\* find_downstream_join names for it makes the join wait for more, and never for
\* more than that fork has flows.
Wider(s, n) == JoinOf[s] = n /\ Len(Flow[s]) > Incoming(n)
FullJoinFires ==
  \A n \in Node : Kind[n] = "parallel" /\ IsJoin(n) =>
    \/ Cardinality(Arrived(n)) < Incoming(n)
    \/ \E s \in Node : Wider(s, n) /\ Cardinality(Arrived(n)) < Len(Flow[s])

----------------------------------------------------------------------------
(***************************************************************************)
(* The batches play the token game of the graph.                           *)
(***************************************************************************)
Unmerged(n) == {k \in Living : at[k] = n /\ ~merged[k]}
AfterJoin(n) == {k \in Living : at[k] = n /\ merged[k]}

Game == INSTANCE TokenGame WITH
  Ends     <- {n \in Node : Kind[n] \in {"end", "errorEnd"}},
  Joins    <- {n \in Node : IsJoin(n)},
  Inflow   <- [n \in Node |-> Incoming(n)],
  Outcomes <- [n \in Node |-> Choices(n)],
  waiting  <- [n \in Node |-> Cardinality(Unmerged(n))],
  ready    <- [n \in Node |-> Cardinality(AfterJoin(n))],
  over     <- state \in Final

\* However the batches interleave, tokens are produced and consumed one flow at a
\* time, joins fire once per set of incoming tokens, and the instance completes
\* after the last token and never again runs.
PlaysTokenGame == Game!Spec
==============================================================================
