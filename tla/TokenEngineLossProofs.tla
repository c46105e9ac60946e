------------------------- MODULE TokenEngineLossProofs -------------------------
(***************************************************************************)
(* Proofs about TokenEngine: what a join holds, and the only ways in which *)
(* a token of an instance gets lost.                                       *)
(***************************************************************************)
EXTENDS TokenEngineProofs

USE DEF instVars, tokenVars, batchVars, State, PC, HandPC, OwnPC

----------------------------------------------------------------------------
\* The inductive invariant: a barrier expects more tokens than have arrived, at most
\* as many as its join has flows or as a fork has that registers it.
Branches == \A b \in Batch : pc[b] = "barrier" => Len(todo[b]) <= Len(Flow[at[hand[b]]])
OpenBarriers ==
  \A n \in Node : barrier[n] # NoBarrier =>
    /\ \/ barrier[n].expected <= Incoming(n)
       \/ \E s \in Node : JoinOf[s] = n /\ barrier[n].expected <= Len(Flow[s])
    /\ Cardinality(barrier[n].arrived) < barrier[n].expected

JoinInv == IInv /\ Branches /\ OpenBarriers

\* The inductive invariant: what a batch keeps between two scopes is empty when
\* it must be, an ended token was flagged, and a token that counts is somewhere.
Spent == \A b \in Batch :
  /\ pc[b] \notin {"barrier", "fork", "branches"} => todo[b] = <<>>
  /\ pc[b] \in {"idle", "take", "run"} => queue[b] = <<>>
Ended == \A b \in Batch : pc[b] \in {"ending", "closing"} => hand[b] \notin active \ done

Found(k) == \/ \E b \in Batch : k \in Local(b) \/ hand[b] = k
            \/ \E n \in Node : k \in Arrived(n)
            \/ k \in parked
Kept    == \A k \in active \ done : Found(k)
KeptInv == IInv /\ Spent /\ Ended /\ Kept

\* The steps that lose a token: an error of a script or a condition, the step
\* limit, a fork that replaces a barrier at which tokens have arrived.
Loses(b) == \/ StepFails(b) \/ AbortRunaway(b) \/ (ResumeToken(b) /\ Return(b))
            \/ RegisterJoinBarrier(b) /\ \E n \in Node : n = JoinOf[at[hand[b]]] /\ Arrived(n) # {}

----------------------------------------------------------------------------
(***************************************************************************)
(* What a join holds.                                                      *)
(***************************************************************************)

\* A batch that has forked a token finds it at the node that forked.
LEMMA ForkedStays ==
  ASSUME IInv, NEW b \in Batch, BatchStep(b), NEW c \in Batch, c # b, pc[c] = "barrier"
  PROVE  at'[hand[c]] = at[hand[c]]
<1> TypeOK /\ Apart /\ Sorted(b)
  BY DEF IInv
<1>1. hand[c] \in Local(c) /\ hand[c] \in 1..born /\ hand[c] \in Token
  BY TokenNumbers DEF Local, Own, TypeOK
<1>2. hand[c] \notin Local(b)
  BY <1>1 DEF Apart
<1>3. CASE at' = at
  BY <1>3
<1>4. CASE Continue(b)
  <2>1. Popped(b) \in Local(b)
    BY <1>4, Pops DEF Continue, Ready, Local
  <2> QED  BY <1>1, <1>2, <1>4, <2>1 DEF Continue, TypeOK
<1>5. CASE Fork(b)
  <2>1. born \in Nat /\ hand[c] \notin (born + 1)..born'
    BY <1>1, TokenNumbers
  <2> QED  BY <1>1, <1>5, <2>1 DEF Fork
<1>6. CASE ArriveAtJoin(b)
  <2>1. hand[c] # born + 1
    BY <1>1, TokenNumbers
  <2> QED  BY <1>1, <1>6, <2>1 DEF ArriveAtJoin, TypeOK
<1>7. CASE ResumeToken(b)
  <2>1. hand[b] \in Local(b)
    BY <1>7 DEF ResumeToken, Local, Own
  <2> QED  BY <1>1, <1>2, <1>7, <2>1 DEF ResumeToken, TypeOK
<1> QED  BY <1>3, <1>4, <1>5, <1>6, <1>7
         DEF BatchStep, RegisterJoinBarrier, MarkForked, RegisterActiveToken, LeaveJoin, Park, SetWaiting,
             InsertPending, EndBranch, CheckCompleted, CloseInstance, TerminateTasks, TerminateInstance,
             StepFails, AbortRunaway, FinishBatch, TakeToken

\* A fork has at most one branch for each of its flows.
LEMMA StepBranches == ASSUME IInv, Branches, NEW b \in Batch, BatchStep(b) PROVE Branches'
<1> TypeOK /\ Sorted(b) /\ Stay(b)
  BY StepApart DEF IInv
<1> SUFFICES ASSUME NEW c \in Batch, pc'[c] = "barrier"
             PROVE  Len(todo'[c]) <= Len(Flow[at'[hand'[c]]])
  BY DEF Branches
<1>1. CASE c # b
  <2>1. c \in Batch \ {b}
    BY <1>1
  <2>2. todo'[c] = todo[c] /\ hand'[c] = hand[c] /\ pc[c] = "barrier"
    BY <2>1 DEF Stay
  <2> QED  BY <1>1, <2>2, ForkedStays DEF Branches
<1>2. CASE c = b /\ Fork(b)
  <2> DEFINE k == Popped(b)
  <2>1. k \in 1..born /\ k \in Token
    BY <1>2, Pops, TokenNumbers DEF Fork, Ready
  <2>2. PICK n \in 2..Len(Flow[at[k]]) : \E taken \in [1..n -> DOMAIN Flow[at[k]]] :
          /\ born' = born + n
          /\ at' = [j \in Token |-> IF j \in (born + 1)..born' THEN Flow[at[k]][taken[j - born]] ELSE at[j]]
          /\ todo' = [todo EXCEPT ![b] = [j \in 1..n |-> born + j]]
    BY <1>2 DEF Fork
  <2>3. k \notin (born + 1)..born'
    BY <2>1, TokenNumbers
  <2>4. at'[k] = at[k] /\ hand'[b] = k
    BY <1>2, <2>1, <2>2, <2>3 DEF Fork, Holding, TypeOK
  <2>5. PICK t : t = [j \in 1..n |-> born + j] /\ todo'[b] = t /\ Len(t) = n
    <3>1. Len([j \in 1..n |-> born + j]) = n
      OBVIOUS
    <3> QED  BY <2>2, <3>1 DEF TypeOK
  <2> HIDE DEF k
  <2>6. n <= Len(Flow[at[k]])
    BY <2>2
  <2> QED  BY <1>2, <2>4, <2>5, <2>6
<1>3. CASE c = b /\ ~Fork(b)
  <2>1. pc'[b] # "barrier"
    BY <1>3 DEF BatchStep, Continue, RegisterJoinBarrier, MarkForked, RegisterActiveToken, ArriveAtJoin,
           LeaveJoin, Park, SetWaiting, InsertPending, EndBranch, CheckCompleted, CloseInstance,
           TerminateTasks, TerminateInstance, StepFails, AbortRunaway, FinishBatch, TakeToken, ResumeToken,
           Holding, Loop, Return, Ready, TypeOK
  <2> QED  BY <1>3, <2>1
<1> QED  BY <1>1, <1>2, <1>3

\* A barrier that is not met expects more than it has.
LEMMA StepBarriers == ASSUME IInv, Branches, OpenBarriers, NEW b \in Batch, BatchStep(b)
                      PROVE  OpenBarriers'
<1> TypeOK /\ Wellformed /\ Sorted(b)
  BY DEF IInv
<1>1. CASE barrier' = barrier
  BY <1>1 DEF OpenBarriers
<1>2. CASE RegisterJoinBarrier(b) /\ JoinOf[at[hand[b]]] # NoNode
  <2>1. at[hand[b]] \in Node
    BY <1>2, TokenNumbers DEF RegisterJoinBarrier, TypeOK
  <2>2. PICK j \in Node : j = JoinOf[at[hand[b]]]
    BY <1>2, <2>1, GraphAssumption
  <2>3. PICK l \in Nat : l = Len(todo[b]) /\ l # 0
    <3>1. todo[b] # <<>> /\ todo[b] \in Seq(1..born)
      BY <1>2 DEF RegisterJoinBarrier, Wellformed, TypeOK
    <3> QED  BY <3>1, EmptySeq, LenProperties
  <2>4. l <= Len(Flow[at[hand[b]]])
    BY <1>2, <2>3 DEF RegisterJoinBarrier, Branches
  <2>5. barrier' = [barrier EXCEPT ![j] = [expected |-> l, arrived |-> {}]]
    BY <1>2, <2>2, <2>3 DEF RegisterJoinBarrier
  <2>6. Cardinality({}) < l
    BY <2>3, FS_EmptySet
  <2> QED  BY <2>1, <2>2, <2>4, <2>5, <2>6 DEF OpenBarriers, Wellformed
<1>3. CASE ArriveAtJoin(b)
  <2>1. PICK n \in Node : n = at[Popped(b)]
    BY <1>3, Pops, TokenNumbers DEF ArriveAtJoin, Ready, TypeOK
  <2>2. PICK arrived : arrived = Arrived(n) \cup {Popped(b)}
    OBVIOUS
  <2>3. CASE barrier' = [barrier EXCEPT ![n] = NoBarrier]
    BY <2>1, <2>3 DEF OpenBarriers, Wellformed
  <2>4. CASE /\ barrier' = [barrier EXCEPT ![n] = [expected |-> Expected(n), arrived |-> arrived]]
             /\ Cardinality(arrived) < Expected(n)
    <3>1. \/ Expected(n) <= Incoming(n)
          \/ \E s \in Node : JoinOf[s] = n /\ Expected(n) <= Len(Flow[s])
      <4>1. {m \in Node : n \in Targets(m)} \subseteq Node
        OBVIOUS
      <4>2. Incoming(n) \in Nat
        BY <4>1, FiniteAssumption, FS_Subset, FS_CardinalityType DEF Incoming
      <4> QED  BY <4>2 DEF Expected, OpenBarriers
    <3> QED  BY <2>1, <2>4, <3>1 DEF OpenBarriers, Wellformed
  <2> QED  BY <1>3, <2>1, <2>2, <2>3, <2>4 DEF ArriveAtJoin
<1> QED  BY <1>1, <1>2, <1>3
         DEF BatchStep, RegisterJoinBarrier, Continue, Fork, MarkForked, RegisterActiveToken, LeaveJoin, Park,
             SetWaiting, InsertPending, EndBranch, CheckCompleted, CloseInstance, TerminateTasks,
             TerminateInstance, StepFails, AbortRunaway, FinishBatch, TakeToken, ResumeToken

\* Every step of the instance keeps the invariant about its joins.
LEMMA NextJoinInv == ASSUME JoinInv, [Next]_vars PROVE JoinInv'
<1>1. IInv'
  BY NextIInv DEF JoinInv
<1>2. ASSUME NEW b \in Batch, BatchStep(b) PROVE Branches' /\ OpenBarriers'
  BY <1>2, StepBranches, StepBarriers DEF JoinInv
<1>3. ASSUME NEW b \in Batch, NEW k \in Token, CompleteTask(b, k) PROVE Branches' /\ OpenBarriers'
  <2>1. /\ at' = at /\ todo' = todo /\ barrier' = barrier
        /\ pc' = [pc EXCEPT ![b] = "take"] /\ hand' = [hand EXCEPT ![b] = k]
    BY <1>3 DEF CompleteTask, Holding
  <2>2. \A c \in Batch : pc'[c] = "barrier" => c # b /\ pc[c] = "barrier" /\ hand'[c] = hand[c]
    BY <2>1 DEF JoinInv, IInv, TypeOK
  <2> QED  BY <2>1, <2>2 DEF JoinInv, Branches, OpenBarriers
<1>4. CASE UNCHANGED vars
  <2>1. at' = at /\ todo' = todo /\ barrier' = barrier /\ pc' = pc /\ hand' = hand
    BY <1>4 DEF vars
  <2>2. Branches'
    BY <2>1 DEF JoinInv, Branches
  <2>3. OpenBarriers'
    BY <2>1 DEF JoinInv, OpenBarriers
  <2> QED  BY <1>1, <2>2, <2>3 DEF JoinInv
<1> QED  BY <1>1, <1>2, <1>3, <1>4 DEF Next, JoinInv

\* In every graph the token that comes last at a parallel join makes it fire, and
\* arrive_at_join (gateway.rs) never stores it, unless a fork with more flows than the
\* join has was registered there: then the join waits for at most so many.
THEOREM FullJoinsFire == Spec => []FullJoinFires
<1>1. Init => JoinInv
  BY InitIInv DEF Init, JoinInv, Branches, OpenBarriers
<1>2. JoinInv /\ [Next]_vars => JoinInv'
  BY NextJoinInv
<1>3. JoinInv => FullJoinFires
  <2> SUFFICES ASSUME JoinInv, NEW n \in Node, IsJoin(n), ~(Cardinality(Arrived(n)) < Incoming(n))
               PROVE  \E s \in Node : Wider(s, n) /\ Cardinality(Arrived(n)) < Len(Flow[s])
    BY DEF FullJoinFires
  <2>1. {m \in Node : n \in Targets(m)} \subseteq Node
    OBVIOUS
  <2>2. Incoming(n) \in Nat
    BY <2>1, FiniteAssumption, FS_Subset, FS_CardinalityType DEF Incoming
  <2>3. CASE barrier[n] = NoBarrier
    BY <2>2, <2>3, FS_EmptySet DEF Arrived, IsJoin
  <2>4. CASE barrier[n] # NoBarrier
    <3>1. Arrived(n) \subseteq 1..born /\ born \in Int
      BY ExpectedTyped, TokenNumbers DEF JoinInv, IInv
    <3>2. Cardinality(Arrived(n)) \in Nat
      <4>1. IsFiniteSet(1..born)
        BY <3>1, FS_Interval
      <4>2. IsFiniteSet(Arrived(n))
        BY <3>1, <4>1, FS_Subset
      <4> QED  BY <4>2, FS_CardinalityType
    <3>3. barrier[n].expected \in Nat /\ Arrived(n) = barrier[n].arrived
      BY <2>4 DEF JoinInv, IInv, TypeOK, Arrived
    <3>4. PICK s \in Node : JoinOf[s] = n /\ barrier[n].expected <= Len(Flow[s])
      BY <2>2, <2>4, <3>2, <3>3 DEF JoinInv, OpenBarriers
    <3>5. Cardinality(Arrived(n)) < barrier[n].expected
      BY <2>4, <3>3 DEF JoinInv, OpenBarriers
    <3>6. Len(Flow[s]) \in Nat
      BY GraphAssumption
    <3> QED  BY <2>2, <3>2, <3>3, <3>4, <3>5, <3>6 DEF Wider
  <2> QED  BY <2>3, <2>4
<1> QED  BY <1>1, <1>2, <1>3, PTL DEF Spec
----------------------------------------------------------------------------
(***************************************************************************)
(* How tokens are lost.                                                    *)
(***************************************************************************)

\* The steps keep Spent: a batch returns with what its queue held dropped, and
\* leaves a fork when it has registered the last branch.
LEMMA StepSpent == ASSUME IInv, Spent, NEW b \in Batch, BatchStep(b) PROVE Spent'
<1> TypeOK /\ Wellformed /\ Stay(b)
  BY StepApart DEF IInv
<1> USE DEF Holding, Loop, Pop, Return, Ready
<1>1. \A c \in Batch : c # b => /\ queue'[c] = queue[c] /\ todo'[c] = todo[c] /\ pc'[c] = pc[c]
  BY DEF Stay
<1>2. pc'[b] \notin {"barrier", "fork", "branches"} => todo'[b] = <<>>
  <2>1. CASE RegisterActiveToken(b)
    <3>1. CASE Len(todo[b]) = 1
      <4>1. todo[b] # <<>> /\ todo[b] \in Seq(1..born)
        BY <2>1 DEF RegisterActiveToken, Wellformed, TypeOK
      <4>0. Tail(todo[b]) \in Seq(1..born) /\ Len(Tail(todo[b])) = 0
        <5>1. Len(Tail(todo[b])) = Len(todo[b]) - 1 /\ Tail(todo[b]) \in Seq(1..born)
          BY <4>1, HeadTailProperties
        <5> QED  BY <3>1, <5>1
      <4>2. PICK t \in Seq(1..born) : t = Tail(todo[b]) /\ Len(t) = 0
        BY <4>0
      <4>3. t = <<>>
        BY <4>2, EmptySeq
      <4> QED  BY <2>1, <4>2, <4>3 DEF RegisterActiveToken, TypeOK
    <3>2. CASE Len(todo[b]) # 1
      BY <2>1, <3>2 DEF RegisterActiveToken, TypeOK
    <3> QED  BY <3>1, <3>2
  <2>2. CASE Fork(b) \/ RegisterJoinBarrier(b) \/ MarkForked(b)
    BY <2>2 DEF Fork, RegisterJoinBarrier, MarkForked, TypeOK
  <2>3. CASE todo' = todo /\ pc[b] \notin {"barrier", "fork", "branches"}
    BY <2>3 DEF Spent
  <2> QED  BY <2>1, <2>2, <2>3 DEF BatchStep, Continue, ArriveAtJoin, LeaveJoin, Park, SetWaiting,
             InsertPending, EndBranch, CheckCompleted, CloseInstance, TerminateTasks, TerminateInstance,
             StepFails, AbortRunaway, FinishBatch, TakeToken, ResumeToken
<1>3. pc'[b] \in {"idle", "take", "run"} => queue'[b] = <<>>
  <2>1. CASE StepFails(b) \/ AbortRunaway(b) \/ FinishBatch(b)
    BY <2>1 DEF StepFails, AbortRunaway, FinishBatch, TypeOK
  <2>2. CASE ResumeToken(b)
    BY <2>2 DEF ResumeToken, TypeOK
  <2>3. CASE TakeToken(b)
    BY <2>3 DEF TakeToken, Spent
  <2>4. CASE \/ Continue(b) \/ Fork(b) \/ RegisterJoinBarrier(b) \/ MarkForked(b)
             \/ RegisterActiveToken(b) \/ ArriveAtJoin(b) \/ LeaveJoin(b)
             \/ Park(b) \/ SetWaiting(b) \/ InsertPending(b)
             \/ EndBranch(b) \/ CheckCompleted(b) \/ CloseInstance(b)
             \/ TerminateTasks(b) \/ TerminateInstance(b)
    <3>1. pc'[b] \notin {"idle", "take", "run"}
      BY <2>4 DEF Continue, Fork, RegisterJoinBarrier, MarkForked, RegisterActiveToken, ArriveAtJoin, LeaveJoin,
           Park, SetWaiting, InsertPending, EndBranch, CheckCompleted, CloseInstance, TerminateTasks,
           TerminateInstance, TypeOK
    <3> QED  BY <3>1
  <2> QED  BY <2>1, <2>2, <2>3, <2>4 DEF BatchStep
<1>4. \A c \in Batch : pc'[c] \notin {"barrier", "fork", "branches"} => todo'[c] = <<>>
  BY <1>1, <1>2 DEF Spent
<1>5. \A c \in Batch : pc'[c] \in {"idle", "take", "run"} => queue'[c] = <<>>
  BY <1>1, <1>3 DEF Spent
<1> QED  BY <1>4, <1>5 DEF Spent
\* The completion check counts on a new token only when a batch registers a branch.
LEMMA ActiveGrows ==
  ASSUME IInv, NEW b \in Batch, BatchStep(b)
  PROVE  active' \ done' \subseteq (active \ done) \cup Elems(todo[b])
<1> TypeOK /\ Wellformed /\ Sorted(b)
  BY DEF IInv
<1>1. CASE RegisterActiveToken(b)
  <2>1. todo[b] # <<>> /\ todo[b] \in Seq(1..born) /\ Distinct(todo[b])
    BY <1>1 DEF RegisterActiveToken, Wellformed, TypeOK, Sorted
  <2>2. Head(todo[b]) \in Elems(todo[b])
    BY <2>1, PopElems
  <2> QED  BY <1>1, <2>2 DEF RegisterActiveToken
<1>2. CASE TerminateInstance(b)
  BY <1>2 DEF TerminateInstance
<1>3. CASE active' = active /\ done \subseteq done'
  BY <1>3
<1> QED  BY <1>1, <1>2, <1>3 DEF BatchStep, Continue, Fork, RegisterJoinBarrier, MarkForked, ArriveAtJoin,
              LeaveJoin, Park, SetWaiting, InsertPending, EndBranch, CheckCompleted, CloseInstance,
              TerminateTasks, StepFails, AbortRunaway, FinishBatch, TakeToken, ResumeToken

\* Nobody registers a token that has ended.
LEMMA StepEnded == ASSUME IInv, Ended, NEW b \in Batch, BatchStep(b) PROVE Ended'
<1> TypeOK /\ Apart /\ Stay(b)
  BY StepApart DEF IInv
<1> SUFFICES ASSUME NEW c \in Batch, pc'[c] \in {"ending", "closing"}
             PROVE  hand'[c] \notin active' \ done'
  BY DEF Ended
<1>1. CASE c # b
  <2>1. c \in Batch \ {b}
    BY <1>1
  <2>2. pc'[c] = pc[c] /\ hand'[c] = hand[c]
    BY <2>1 DEF Stay
  <2>3. hand[c] \in Local(c)
    BY <2>2 DEF Local, Own
  <2>4. hand[c] \notin Elems(todo[b])
    BY <1>1, <2>3 DEF Apart, Local
  <2> QED  BY <2>2, <2>4, ActiveGrows DEF Ended
<1>2. CASE c = b /\ EndBranch(b)
  BY <1>2 DEF EndBranch, Holding, Pop, TypeOK
<1>3. CASE c = b /\ CheckCompleted(b)
  BY <1>3 DEF CheckCompleted, Holding, Loop, Ended, TypeOK
<1>4. CASE c = b /\ ~EndBranch(b) /\ ~CheckCompleted(b)
  <2>1. pc'[b] \notin {"ending", "closing"}
    BY <1>4 DEF BatchStep, Continue, Fork, RegisterJoinBarrier, MarkForked, RegisterActiveToken, ArriveAtJoin,
           LeaveJoin, Park, SetWaiting, InsertPending, CloseInstance, TerminateTasks, TerminateInstance,
           StepFails, AbortRunaway, FinishBatch, TakeToken, ResumeToken, Holding, Loop, Return, Ready, TypeOK
  <2> QED  BY <1>4, <2>1
<1> QED  BY <1>1, <1>2, <1>3, <1>4

\* A token stays where it is unless the batch at work moves it.
LEMMA FoundStays ==
  ASSUME NEW b \in Batch, Stay(b), NEW k, Found(k),
         k \in Local(b) \/ k = hand[b] => Found(k)',
         \A n \in Node : k \in Arrived(n) => Found(k)',
         k \in parked => Found(k)'
  PROVE  Found(k)'
<1>1. ASSUME NEW c \in Batch, c # b, k \in Local(c) \/ hand[c] = k PROVE Found(k)'
  <2>1. c \in Batch \ {b}
    BY <1>1
  <2>2. Local(c)' = Local(c) /\ hand'[c] = hand[c]
    BY <1>1, <2>1, StayLocal DEF Stay
  <2> QED  BY <1>1, <2>2 DEF Found
<1> QED  BY <1>1 DEF Found

\* A batch that pops a token keeps the others.
LEMMA PopKeeps ==
  ASSUME IInv, Spent, NEW b \in Batch, Ready(b), queue'[b] = Tail(queue[b])
  PROVE  /\ Local(b) \subseteq Local(b)' \cup {Popped(b)}
         /\ hand[b] = NoToken
<1> TypeOK /\ Sorted(b)
  BY DEF IInv
<1>1. pc[b] = "loop" /\ queue[b] # <<>>
  BY DEF Ready
<1>2. todo[b] = <<>> /\ Own(b) = {} /\ hand[b] = NoToken
  BY <1>1 DEF Spent, Own, TypeOK
<1>3. Elems(todo[b]) = {}
  BY <1>2, EmptyElems
<1>4. Elems(queue[b]) = Elems(Tail(queue[b])) \cup {Popped(b)}
  BY <1>1, Pops
<1>5. Elems(queue[b])' = Elems(Tail(queue[b]))
  BY DEF Elems
<1> QED  BY <1>2, <1>3, <1>4, <1>5 DEF Local
\* A token other than the popped one stays, if the joins and the store keep it.
LEMMA KeepToken ==
  ASSUME IInv, Spent, NEW b \in Batch, Stay(b), Ready(b), queue'[b] = Tail(queue[b]),
         NEW k, k # NoToken, Found(k), k = Popped(b) => Found(k)',
         k \in parked => Found(k)', \A n \in Node : k \in Arrived(n) => Found(k)'
  PROVE  Found(k)'
<1>1. Local(b) \subseteq Local(b)' \cup {Popped(b)} /\ hand[b] = NoToken
  BY PopKeeps
<1>2. k \in Local(b)' => Found(k)'
  BY DEF Found
<1>3. k \in Local(b) \/ k = hand[b] => Found(k)'
  BY <1>1, <1>2
<1> QED  BY <1>3, FoundStays

\* Every other step keeps a token that counts.
LEMMA StepKept == ASSUME KeptInv, NEW b \in Batch, BatchStep(b), ~Loses(b) PROVE Kept'
<1> IInv /\ TypeOK /\ Wellformed /\ Sorted(b) /\ Apart /\ Tasks /\ Spent /\ Ended /\ Stay(b)
  BY StepApart DEF KeptInv, IInv
<1> SUFFICES ASSUME NEW k \in active' \ done' PROVE Found(k)'
  BY DEF Kept
<1> USE DEF Holding, Loop, Pop
<1>a. Found(k)
  <2>1. CASE k \in active \ done
    BY <2>1 DEF KeptInv, Kept
  <2>2. CASE k \in Elems(todo[b])
    BY <2>2 DEF Found, Local
  <2> QED  BY <2>1, <2>2, ActiveGrows
<1>b. barrier' = barrier => \A n \in Node : Arrived(n)' = Arrived(n)
  BY DEF Arrived
<1>c. /\ \A n \in Node : k \in Arrived(n)' => Found(k)'
      /\ k \in parked' => Found(k)'
      /\ k \in Local(b)' \/ hand'[b] = k => Found(k)'
  BY DEF Found
<1>d. Ready(b) => Popped(b) \in 1..born /\ Popped(b) # NoToken
  BY Pops, TokenNumbers DEF Ready
<1>e. active' = active => k # NoToken
  BY TokenNumbers DEF TypeOK
<1>1. CASE Fork(b) \/ TerminateTasks(b)
  <2>1. /\ Ready(b) /\ queue'[b] = Tail(queue[b]) /\ hand'[b] = Popped(b)
        /\ parked' = parked /\ barrier' = barrier /\ active' = active
    BY <1>1 DEF Fork, TerminateTasks, TypeOK
  <2>2. k = Popped(b) => Found(k)'
    BY <1>c, <2>1
  <2> QED  BY <1>a, <1>b, <1>c, <1>e, <2>1, <2>2, KeepToken
<1>2. CASE Park(b)
  <2>1. /\ Ready(b) /\ queue'[b] = Tail(queue[b]) /\ hand'[b] = Popped(b)
        /\ parked' = parked \cup {Popped(b)} /\ barrier' = barrier /\ active' = active
    BY <1>2 DEF Park, TypeOK
  <2>2. (k = Popped(b) => Found(k)') /\ (k \in parked => Found(k)')
    BY <1>c, <2>1
  <2> QED  BY <1>a, <1>b, <1>c, <1>e, <2>1, <2>2, KeepToken
<1>3. CASE EndBranch(b)
  <2>1. /\ Ready(b) /\ queue'[b] = Tail(queue[b]) /\ hand'[b] = Popped(b)
        /\ parked' = parked \ {Popped(b)} /\ barrier' = barrier /\ active' = active
    BY <1>3 DEF EndBranch, TypeOK
  <2>2. (k = Popped(b) => Found(k)') /\ (k \in parked => Found(k)')
    BY <1>c, <2>1
  <2> QED  BY <1>a, <1>b, <1>c, <1>e, <2>1, <2>2, KeepToken
<1>4. CASE SetWaiting(b) \/ CheckCompleted(b) \/ CloseInstance(b) \/ InsertPending(b) \/ MarkForked(b)
           \/ FinishBatch(b) \/ RegisterJoinBarrier(b)
  <2>1. /\ parked' = parked /\ todo'[b] = todo[b]
        /\ queue'[b] = queue[b]
    BY <1>4 DEF SetWaiting, CheckCompleted, CloseInstance, InsertPending, MarkForked, FinishBatch, Return,
                RegisterJoinBarrier, TypeOK
  <2>2. Elems(queue[b])' = Elems(queue[b]) /\ Elems(todo[b])' = Elems(todo[b])
    BY <2>1 DEF Elems
  <2>3. k = hand[b] => Found(k)'
    <3>1. CASE k = hand[b] /\ MarkForked(b)
      BY <3>1 DEF MarkForked
    <3>2. CASE k = hand[b] /\ (SetWaiting(b) \/ RegisterJoinBarrier(b))
      BY <1>c, <3>2 DEF SetWaiting, RegisterJoinBarrier
    <3>3. CASE k = hand[b] /\ (CheckCompleted(b) \/ CloseInstance(b))
      BY <3>3 DEF CheckCompleted, CloseInstance, Ended
    <3>4. CASE k = hand[b] /\ InsertPending(b)
      BY <1>c, <2>1, <3>4 DEF InsertPending, Tasks
    <3>5. CASE k = hand[b] /\ FinishBatch(b)
      <4>1. hand[b] = NoToken /\ active' = active
        BY <3>5 DEF FinishBatch, TypeOK
      <4> QED  BY <3>5, <4>1, TokenNumbers DEF TypeOK
    <3> QED  BY <1>4, <3>1, <3>2, <3>3, <3>4, <3>5
  <2>4. k \in Local(b) \/ k = hand[b] => Found(k)'
    BY <1>c, <2>2, <2>3 DEF Local, Own
  <2>5. \A n \in Node : k \in Arrived(n) => Found(k)'
    <3>1. CASE barrier' = barrier
      BY <1>b, <1>c, <3>1
    <3>2. CASE RegisterJoinBarrier(b)
      <4>1. ASSUME NEW n \in Node, k \in Arrived(n) PROVE k \in Arrived(n)'
        <5>1. JoinOf[at[hand[b]]] # n
          BY <3>2, <4>1 DEF Loses
        <5>2. barrier'[n] = barrier[n]
          BY <3>2, <5>1 DEF RegisterJoinBarrier, Wellformed
        <5> QED  BY <4>1, <5>2 DEF Arrived
      <4> QED  BY <1>c, <4>1
    <3> QED  BY <1>4, <3>1, <3>2 DEF SetWaiting, CheckCompleted, CloseInstance, InsertPending, MarkForked,
                                    FinishBatch
  <2> QED  BY <1>a, <1>c, <2>1, <2>4, <2>5, FoundStays
<1>5. CASE Continue(b)
  <2>1. PICK q : Appended(q, Tail(queue[b]), Popped(b)) /\ queue'[b] = q
    BY <1>5 DEF Continue, Appended, TypeOK
  <2>2. Ready(b) /\ todo'[b] = todo[b] /\ pc[b] = "loop" /\ parked' = parked /\ barrier' = barrier
    BY <1>5 DEF Continue, Ready
  <2>3. /\ Popped(b) \in 1..born /\ Tail(queue[b]) \in Seq(1..born)
        /\ Elems(queue[b]) = Elems(Tail(queue[b])) \cup {Popped(b)}
        /\ Popped(b) \notin Elems(Tail(queue[b])) /\ Distinct(Tail(queue[b]))
    BY <2>2, Pops DEF Ready
  <2>4. Elems(q) = Elems(queue[b])
    BY <2>1, <2>3, AppendElems, TokenNumbers
  <2>5. Elems(queue[b])' = Elems(q) /\ Elems(todo[b])' = Elems(todo[b])
    BY <2>1, <2>2 DEF Elems
  <2>6. Own(b) = {} /\ hand[b] = NoToken
    BY <2>2 DEF Own, TypeOK
  <2>7. k # NoToken
    BY <1>5, TokenNumbers DEF Continue, TypeOK
  <2>8. k \in Local(b) \/ k = hand[b] => Found(k)'
    BY <1>c, <2>4, <2>5, <2>6, <2>7 DEF Local
  <2> QED  BY <1>a, <1>b, <1>c, <2>2, <2>8, FoundStays
<1>6. CASE RegisterActiveToken(b)
  <2>1. PICK h, q : /\ h = Head(todo[b]) /\ Appended(q, queue[b], h)
                    /\ queue'[b] = q /\ todo'[b] = Tail(todo[b])
    BY <1>6 DEF RegisterActiveToken, Appended, TypeOK
  <2>2. pc[b] = "branches" /\ hand'[b] = hand[b] /\ parked' = parked /\ barrier' = barrier
    BY <1>6 DEF RegisterActiveToken
  <2>3. /\ h \in 1..born /\ h \in Elems(todo[b])
        /\ Elems(todo[b]) = Elems(Tail(todo[b])) \cup {h}
    <3>1. todo[b] # <<>>
      BY <2>2 DEF Wellformed
    <3> QED  BY <2>1, <3>1, TakesBranch
  <2>4. queue[b] \in Seq(1..born) /\ Distinct(queue[b]) /\ h \notin Elems(queue[b])
    BY <2>3 DEF TypeOK, Sorted
  <2>5. Elems(q) = Elems(queue[b]) \cup {h}
    BY <2>1, <2>3, <2>4, AppendElems, TokenNumbers
  <2>6. PICK t : t = Tail(todo[b]) /\ todo'[b] = t
    BY <2>1
  <2>7. Elems(queue[b])' = Elems(q) /\ Elems(todo[b])' = Elems(t)
    BY <2>1, <2>6 DEF Elems
  <2>8. Own(b) = {}
    BY <2>2 DEF Own
  <2>9. k \in Local(b) \/ k = hand[b] => Found(k)'
    BY <1>c, <2>2, <2>3, <2>5, <2>6, <2>7, <2>8 DEF Local
  <2> QED  BY <1>a, <1>b, <1>c, <2>2, <2>9, FoundStays
<1>7. CASE ArriveAtJoin(b)
  <2>1. Ready(b) /\ queue'[b] = Tail(queue[b]) /\ parked' = parked /\ active' = active
    BY <1>7 DEF ArriveAtJoin, TypeOK
  <2>2. PICK n \in Node : n = at[Popped(b)]
    BY <1>d, <2>1, TokenNumbers DEF TypeOK
  <2>3. PICK arrived : arrived = Arrived(n) \cup {Popped(b)}
    OBVIOUS
  <2>4. CASE barrier' = [barrier EXCEPT ![n] = [expected |-> Expected(n), arrived |-> arrived]]
    <3>1. [expected |-> Expected(n), arrived |-> arrived] # NoBarrier
      <4>1. Expected(n) \in Nat /\ arrived \subseteq Token
        BY <1>d, <2>1, <2>3, ExpectedTyped, TokenNumbers
      <4> QED  BY <4>1, BarrierAssumption
    <3>2. Arrived(n)' = arrived /\ \A m \in Node \ {n} : Arrived(m)' = Arrived(m)
      BY <2>2, <2>4, <3>1 DEF Arrived, Wellformed
    <3>3. \A m \in Node : k \in Arrived(m) => Found(k)'
      <4>1. \A m \in Node : Arrived(m) \subseteq Arrived(m)'
        BY <2>3, <3>2
      <4> QED  BY <1>c, <4>1
    <3>4. k = Popped(b) => Found(k)'
      BY <1>c, <2>2, <2>3, <3>2
    <3> QED  BY <1>a, <1>c, <1>e, <2>1, <3>3, <3>4, KeepToken
  <2>5. CASE /\ barrier' = [barrier EXCEPT ![n] = NoBarrier]
             /\ done' = done \cup (arrived \cap active)
    <3>1. \A m \in Node \ {n} : Arrived(m)' = Arrived(m)
      BY <2>2, <2>5 DEF Arrived, Wellformed
    <3>2. k \notin arrived
      BY <1>7, <2>5 DEF ArriveAtJoin
    <3>3. \A m \in Node : k \in Arrived(m) => Found(k)'
      BY <1>c, <2>2, <2>3, <3>1, <3>2
    <3>4. k # Popped(b)
      BY <2>3, <3>2
    <3> QED  BY <1>a, <1>c, <1>e, <2>1, <3>3, <3>4, KeepToken
  <2> QED  BY <1>7, <2>2, <2>3, <2>4, <2>5 DEF ArriveAtJoin
<1>8. CASE LeaveJoin(b)
  <2>1. PICK q : Appended(q, queue[b], hand[b]) /\ queue'[b] = q
    BY <1>8 DEF LeaveJoin, Appended, TypeOK
  <2>2. pc[b] = "merged" /\ todo'[b] = todo[b] /\ parked' = parked /\ barrier' = barrier
    BY <1>8 DEF LeaveJoin
  <2>3. hand[b] \in 1..born /\ Own(b) = {hand[b]}
    BY <2>2 DEF TypeOK, Own
  <2>4. queue[b] \in Seq(1..born) /\ Distinct(queue[b]) /\ hand[b] \notin Elems(queue[b])
    BY <2>3 DEF TypeOK, Sorted
  <2>5. Elems(q) = Elems(queue[b]) \cup {hand[b]}
    BY <2>1, <2>3, <2>4, AppendElems, TokenNumbers
  <2>6. Elems(queue[b])' = Elems(q) /\ Elems(todo[b])' = Elems(todo[b])
    BY <2>1, <2>2 DEF Elems
  <2>7. k \in Local(b) \/ k = hand[b] => Found(k)'
    BY <1>c, <2>3, <2>5, <2>6 DEF Local
  <2> QED  BY <1>a, <1>b, <1>c, <2>2, <2>7, FoundStays
<1>9. CASE TerminateInstance(b)
  BY <1>9 DEF TerminateInstance
<1>10. CASE TakeToken(b)
  <2>1. hand[b] \in parked
    BY <1>10 DEF TakeToken, Tasks
  <2>2. /\ queue'[b] = queue[b] /\ todo'[b] = todo[b] /\ hand'[b] = hand[b] /\ Own(b) = {}
        /\ parked' = parked \ {hand[b]} /\ barrier' = barrier
    BY <1>10, <2>1 DEF TakeToken, TypeOK, Own
  <2>3. Elems(queue[b])' = Elems(queue[b]) /\ Elems(todo[b])' = Elems(todo[b])
    BY <2>2 DEF Elems
  <2>4. k \in Local(b) \/ k = hand[b] => Found(k)'
    BY <1>c, <2>2, <2>3 DEF Local
  <2>5. k \in parked => Found(k)'
    BY <1>c, <2>2
  <2> QED  BY <1>a, <1>b, <1>c, <2>2, <2>4, <2>5, FoundStays
<1>11. CASE ResumeToken(b)
  <2>1. /\ Own(b) = {hand[b]} /\ queue[b] = <<>> /\ todo[b] = <<>> /\ parked' = parked /\ barrier' = barrier
    BY <1>11 DEF ResumeToken, Own, Spent
  <2>2. queue'[b] = <<hand[b]>>
    BY <1>11 DEF ResumeToken, Loses, TypeOK
  <2>3. Elems(queue[b])' = {hand[b]}
    BY <2>2 DEF Elems
  <2>4. Local(b) = {hand[b]}
    BY <2>1, EmptyElems DEF Local
  <2>5. k \in Local(b) \/ k = hand[b] => Found(k)'
    BY <1>c, <2>3, <2>4 DEF Local
  <2> QED  BY <1>a, <1>b, <1>c, <2>1, <2>5, FoundStays
<1> QED  BY <1>1, <1>2, <1>3, <1>4, <1>5, <1>6, <1>7, <1>8, <1>9, <1>10, <1>11 DEF BatchStep, Loses

\* A completion takes a task and keeps every token.
LEMMA CompleteKept == ASSUME KeptInv, NEW b \in Batch, NEW j \in Token, CompleteTask(b, j)
                      PROVE  Spent' /\ Ended' /\ Kept'
<1> IInv /\ TypeOK /\ Spent /\ Ended /\ Kept
  BY DEF KeptInv, IInv
<1>1. /\ pc[b] = "idle" /\ hand[b] = NoToken
      /\ pc' = [pc EXCEPT ![b] = "take"] /\ hand' = [hand EXCEPT ![b] = j]
      /\ UNCHANGED <<active, done, parked, barrier, queue, todo>>
  BY DEF CompleteTask, Holding, TypeOK
<1>2. Spent'
  BY <1>1 DEF Spent, TypeOK
<1>3. Ended'
  BY <1>1 DEF Ended, TypeOK
<1>4. \A c \in Batch : Own(c)' = Own(c)
  BY <1>1 DEF Own, TypeOK
<1>5. \A c \in Batch : Elems(queue[c])' = Elems(queue[c]) /\ Elems(todo[c])' = Elems(todo[c])
  BY <1>1 DEF Elems
<1>6. \A c \in Batch : Local(c)' = Local(c)
  BY <1>4, <1>5 DEF Local
<1>7. \A n \in Node : Arrived(n)' = Arrived(n)
  BY <1>1 DEF Arrived
<1>8. ASSUME NEW k \in active \ done PROVE Found(k)'
  <2>1. k # NoToken
    BY TokenNumbers DEF TypeOK
  <2>2. \A c \in Batch : hand[c] = k => hand'[c] = k
    BY <1>1, <2>1 DEF TypeOK
  <2> QED  BY <1>1, <1>6, <1>7, <2>2 DEF Kept, Found
<1> QED  BY <1>1, <1>2, <1>3, <1>8 DEF Kept

\* What keeps a token is counted by Places, or holds it.
LEMMA KeptTokens == KeptInv => TokensKept
<1> SUFFICES ASSUME KeptInv, NEW k \in active \ done, \A b \in Batch : hand[b] # k
             PROVE  Places(k) > 0
  BY DEF TokensKept
<1> IInv /\ Found(k)
  BY DEF KeptInv, Kept
<1>1. \/ \E b \in Batch : k \in Elems(queue[b])
      \/ \E b \in Batch : k \in Elems(todo[b])
      \/ \E n \in Node : k \in Arrived(n)
      \/ k \in parked
  BY DEF Found, Local, Own
<1> QED  BY <1>1, PlacesCounted DEF Places

\* A stutter keeps the invariant.
LEMMA KeptStutter == ASSUME KeptInv, IInv', UNCHANGED vars PROVE KeptInv'
<1>1. UNCHANGED <<active, done, parked, barrier, pc, queue, hand, todo>>
  BY DEF vars
<1>2. Spent'
  BY <1>1 DEF KeptInv, Spent
<1>3. Ended'
  BY <1>1 DEF KeptInv, Ended
<1>4. \A c \in Batch : Elems(queue[c])' = Elems(queue[c]) /\ Elems(todo[c])' = Elems(todo[c])
  BY <1>1 DEF Elems
<1>5. \A c \in Batch : Local(c)' = Local(c)
  BY <1>1, <1>4 DEF Local, Own
<1>6. \A n \in Node : Arrived(n)' = Arrived(n)
  BY <1>1 DEF Arrived
<1>7. \A k : Found(k) => Found(k)'
  BY <1>1, <1>5, <1>6 DEF Found
<1> QED  BY <1>1, <1>2, <1>3, <1>7 DEF KeptInv, Kept

\* Some batch loses a token.
LossStep == \E b \in Batch : Loses(b)

\* Whatever the graph and however batches interleave, a token that the completion
\* check counts on is lost only by a failing step, by the step limit, or by a fork
\* that replaces a barrier (register_join_barrier_if_needed) at which tokens wait.
THEOREM TokensAreKept == Spec /\ [][~LossStep]_vars => []TokensKept
<1>1. Init => KeptInv
  <2> SUFFICES ASSUME Init PROVE KeptInv
    OBVIOUS
  <2>1. active = {} /\ \A b \in Batch : todo[b] = <<>> /\ pc[b] \in {"loop", "idle"}
    BY DEF Init
  <2>2. \A b \in Batch : pc[b] = "idle" => queue[b] = <<>>
    BY DEF Init
  <2> QED  BY <2>1, <2>2, InitIInv DEF KeptInv, Spent, Ended, Kept
<1>2. KeptInv /\ [Next]_vars /\ [~LossStep]_vars => KeptInv'
  <2> SUFFICES ASSUME KeptInv, [Next]_vars, [~LossStep]_vars PROVE KeptInv'
    OBVIOUS
  <2>1. IInv'
    BY NextIInv DEF KeptInv
  <2>2. CASE UNCHANGED vars
    BY <2>1, <2>2, KeptStutter
  <2>3. CASE ~LossStep /\ Next
    <3>1. ASSUME NEW b \in Batch, BatchStep(b) PROVE Spent' /\ Ended' /\ Kept'
      <4>1. ~Loses(b)
        BY <2>3 DEF LossStep
      <4> QED  BY <3>1, <4>1, StepSpent, StepEnded, StepKept DEF KeptInv
    <3> QED  BY <2>1, <2>3, <3>1, CompleteKept DEF Next, KeptInv
  <2> QED  BY <2>2, <2>3
<1> QED  BY <1>1, <1>2, KeptTokens, PTL DEF Spec
=============================================================================
