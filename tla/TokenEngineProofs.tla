-------------------------- MODULE TokenEngineProofs --------------------------
(***************************************************************************)
(* Proofs about TokenEngine: for every process graph, any number of        *)
(* batches and whatever fails, no token is in two places.                  *)
(* TokenEngineLossProofs goes on from here.                                *)
(***************************************************************************)
EXTENDS TokenEngine, SequenceTheorems, FiniteSetTheorems, TLAPS

\* The inductive invariant.  A batch has a set of tokens of its own: those in its
\* queue, the branches it has still to register, the one in its hands unless that
\* is in the store.
\* These sets, the arrivals at the joins and the store are apart, and the token
\* of a batch that parks or takes it is in the store without a task.
Elems(s)    == {s[i] : i \in 1..Len(s)}
Distinct(s) == \A i, j \in 1..Len(s) : s[i] = s[j] => i = j
HandPC      == PC \ {"idle", "loop", "branches"}
OwnPC       == {"barrier", "fork", "merged", "ending", "closing", "terminating", "run"}
Own(b)      == {k \in {hand[b]} : pc[b] \in OwnPC}
Local(b)    == Elems(queue[b]) \cup Elems(todo[b]) \cup Own(b)

Wellformed ==
  /\ DOMAIN barrier = Node /\ barrier = [n \in Node |-> barrier[n]]
  /\ \A b \in Batch : pc[b] \in {"barrier", "fork", "branches"} => todo[b] # <<>>

Sorted(b) ==
  /\ Distinct(queue[b]) /\ Distinct(todo[b])
  /\ Elems(queue[b]) \cap Elems(todo[b]) = {}
  /\ Own(b) \cap (Elems(queue[b]) \cup Elems(todo[b])) = {}

Apart ==
  /\ \A b, c \in Batch : b # c => Local(b) \cap Local(c) = {}
  /\ \A b \in Batch : Local(b) \cap parked = {}
  /\ \A b \in Batch, n \in Node : Local(b) \cap Arrived(n) = {}
  /\ \A n \in Node : Arrived(n) \cap parked = {}
  /\ \A m, n \in Node : m # n => Arrived(m) \cap Arrived(n) = {}

Tasks ==
  /\ open \subseteq parked
  /\ \A b \in Batch : pc[b] \in {"wait", "enqueue", "take"} => hand[b] \in parked \ open
  /\ \A b, c \in Batch : /\ pc[b] \in {"wait", "enqueue", "take"}
                         /\ pc[c] \in {"wait", "enqueue", "take"}
                         /\ hand[b] = hand[c]
                         => b = c

IInv == /\ TypeOK /\ Wellformed
        /\ (\A b \in Batch : Sorted(b)) /\ Apart /\ Tasks

----------------------------------------------------------------------------
\* What the empty sequence, a sequence of one, a popped and an appended one hold.
LEMMA EmptyElems == Elems(<<>>) = {} /\ Distinct(<<>>)
  BY DEF Elems, Distinct

LEMMA SingleElems == \A k : Elems(<<k>>) = {k} /\ Distinct(<<k>>)
  BY DEF Elems, Distinct

LEMMA PopElems ==
  ASSUME NEW S, NEW s \in Seq(S), s # <<>>, Distinct(s)
  PROVE  /\ Head(s) \in S /\ Tail(s) \in Seq(S)
         /\ Elems(s) = Elems(Tail(s)) \cup {Head(s)}
         /\ Head(s) \notin Elems(Tail(s)) /\ Distinct(Tail(s))
<1>1. Len(s) \in Nat \ {0} /\ Head(s) = s[1] /\ Len(Tail(s)) = Len(s) - 1
  BY HeadTailProperties, EmptySeq, LenProperties
<1>2. \A i \in 1..Len(Tail(s)) : Tail(s)[i] = s[i + 1] /\ i + 1 \in 1..Len(s)
  BY <1>1, HeadTailProperties
<1>3. \A i \in 1..Len(s) : i = 1 \/ (i - 1 \in 1..Len(Tail(s)) /\ s[i] = Tail(s)[i - 1])
  BY <1>1, <1>2
<1>4. Elems(s) = Elems(Tail(s)) \cup {Head(s)}
  <2>1. PICK t : t = Tail(s)
    OBVIOUS
  <2>2. /\ \A i \in 1..Len(t) : t[i] = s[i + 1] /\ i + 1 \in 1..Len(s)
        /\ \A i \in 1..Len(s) : i = 1 \/ (i - 1 \in 1..Len(t) /\ s[i] = t[i - 1])
        /\ 1 \in 1..Len(s)
    BY <1>1, <1>2, <1>3, <2>1
  <2>3. Elems(t) \cup {s[1]} \subseteq Elems(s)
    BY <2>2 DEF Elems
  <2>4. Elems(s) \subseteq Elems(t) \cup {s[1]}
    BY <2>2 DEF Elems
  <2> QED  BY <1>1, <2>1, <2>3, <2>4
<1>5. Head(s) \notin Elems(Tail(s))
  BY <1>1, <1>2 DEF Elems, Distinct
<1>6. Distinct(Tail(s))
  BY <1>1, <1>2 DEF Distinct
<1> QED  BY <1>4, <1>5, <1>6, HeadTailProperties

\* Append, hidden where the provers would unfold it.
Appended(t, s, k) == t = Append(s, k)

LEMMA AppendElems ==
  ASSUME NEW n \in Nat, NEW s \in Seq(1..n), NEW k \in 1..n, Distinct(s), k \notin Elems(s),
         NEW t, Appended(t, s, k)
  PROVE  Distinct(t) /\ Elems(t) = Elems(s) \cup {k}
  BY AppendProperties DEF Elems, Distinct, Appended

\* The elements of a sequence have its type, and a longer interval is a wider type.
LEMMA ElemsTyped == ASSUME NEW S, NEW s \in Seq(S) PROVE Elems(s) \subseteq S
  BY DEF Elems

LEMMA WiderSeq == ASSUME NEW m \in Nat, NEW n \in Nat, m <= n PROVE Seq(1..m) \subseteq Seq(1..n)
  BY SeqMonotonic

----------------------------------------------------------------------------
USE DEF instVars, tokenVars, batchVars, State, PC, HandPC, OwnPC

\* What the loop pops: one of the tokens of the batch, out of its queue.
LEMMA Pops ==
  ASSUME TypeOK, NEW b \in Batch, Sorted(b), queue[b] # <<>>
  PROVE  LET k == Popped(b) rest == Tail(queue[b])
         IN  /\ k \in 1..born /\ rest \in Seq(1..born)
             /\ Elems(queue[b]) = Elems(rest) \cup {k} /\ k \notin Elems(rest) /\ Distinct(rest)
<1>1. PICK s : s = queue[b]
  OBVIOUS
<1>2. s \in Seq(1..born) /\ s # <<>> /\ Distinct(s)
  BY <1>1 DEF TypeOK, Sorted
<1>3. /\ Head(s) \in 1..born /\ Tail(s) \in Seq(1..born)
      /\ Elems(s) = Elems(Tail(s)) \cup {Head(s)}
      /\ Head(s) \notin Elems(Tail(s)) /\ Distinct(Tail(s))
  BY <1>2, PopElems
<1> QED  BY <1>1, <1>3 DEF Popped

\* What the registration of a branch takes: the first of the fork's tokens.
LEMMA TakesBranch ==
  ASSUME TypeOK, NEW b \in Batch, Sorted(b), todo[b] # <<>>
  PROVE  LET k == Head(todo[b]) rest == Tail(todo[b])
         IN  /\ k \in 1..born /\ rest \in Seq(1..born)
             /\ Elems(todo[b]) = Elems(rest) \cup {k} /\ k \notin Elems(rest) /\ Distinct(rest)
<1>1. PICK s : s = todo[b]
  OBVIOUS
<1>2. s \in Seq(1..born) /\ s # <<>> /\ Distinct(s)
  BY <1>1 DEF TypeOK, Sorted
<1>3. /\ Head(s) \in 1..born /\ Tail(s) \in Seq(1..born)
      /\ Elems(s) = Elems(Tail(s)) \cup {Head(s)}
      /\ Head(s) \notin Elems(Tail(s)) /\ Distinct(Tail(s))
  BY <1>2, PopElems
<1> QED  BY <1>1, <1>3

\* The numbers of tokens.
LEMMA TokenNumbers == TypeOK => /\ born \in Nat \ {0} /\ born <= MaxTokens /\ 1..born \subseteq Token
                                /\ NoToken \notin 1..born
  BY BoundAssumption, NullAssumption DEF TypeOK, Token

\* A join expects a number of tokens.
LEMMA ExpectedTyped == ASSUME TypeOK, NEW n \in Node
                       PROVE  Expected(n) \in Nat /\ Arrived(n) \subseteq 1..born
<1>1. {m \in Node : n \in Targets(m)} \subseteq Node
  OBVIOUS
<1>2. Incoming(n) \in Nat
  BY <1>1, FiniteAssumption, FS_Subset, FS_CardinalityType DEF Incoming
<1> QED  BY <1>2 DEF TypeOK, Expected, Arrived

\* The instance starts with its one token in one queue.
LEMMA InitIInv == Init => IInv
<1> SUFFICES ASSUME Init PROVE IInv
  OBVIOUS
<1> USE GraphAssumption, BoundAssumption, NullAssumption
<1>1. \A b \in Batch : queue[b] \in {<<1>>, <<>>} /\ todo[b] = <<>> /\ pc[b] \in {"loop", "idle"}
  BY DEF Init
<1>2. <<1>> \in Seq(1..1) /\ <<>> \in Seq(1..1)
  OBVIOUS
<1>3. TypeOK
  <2>1. born \in Token /\ 1..born = 1..1
    BY DEF Init, Token
  <2>2. \A b \in Batch : queue[b] \in Seq(1..born) /\ todo[b] \in Seq(1..born)
    BY <1>1, <1>2, <2>1
  <2>3. queue = [b \in Batch |-> queue[b]] /\ todo = [b \in Batch |-> todo[b]]
    BY DEF Init
  <2>4. queue \in [Batch -> Seq(1..born)] /\ todo \in [Batch -> Seq(1..born)]
    BY <2>2, <2>3
  <2> QED  BY <1>1, <2>1, <2>4 DEF Init, TypeOK
<1>4. \A n \in Node : Arrived(n) = {}
  BY DEF Init, Arrived
<1>5. PICK b \in Batch : \A c \in Batch : c # b => queue[c] = <<>>
  BY DEF Init
<1>6. \A c \in Batch : Own(c) = {} /\ Elems(todo[c]) = {} /\ Distinct(todo[c]) /\ Distinct(queue[c])
  <2> SUFFICES ASSUME NEW c \in Batch
               PROVE  Own(c) = {} /\ Elems(todo[c]) = {} /\ Distinct(todo[c]) /\ Distinct(queue[c])
    OBVIOUS
  <2>1. Own(c) = {}
    BY <1>1 DEF Own
  <2>2. Elems(todo[c]) = {} /\ Distinct(todo[c])
    BY <1>1, EmptyElems
  <2>3. Distinct(queue[c])
    <3>1. Distinct(<<1>>) /\ Distinct(<<>>)
      BY EmptyElems, SingleElems
    <3> QED  BY <1>1, <3>1
  <2> QED  BY <2>1, <2>2, <2>3
<1>7. \A c \in Batch : c # b => Local(c) = {}
  BY <1>5, <1>6, EmptyElems DEF Local
<1>8. Apart /\ \A c \in Batch : Sorted(c)
  <2>1. parked = {}
    BY DEF Init
  <2>2. \A c \in Batch : Sorted(c)
    BY <1>6 DEF Sorted
  <2> QED  BY <1>4, <1>7, <2>1, <2>2 DEF Apart
<1>9. Wellformed /\ Tasks
  BY <1>1 DEF Init, Wellformed, Tasks
<1> QED  BY <1>3, <1>8, <1>9 DEF IInv

\* The types of the instance and those of its batches.
InstTyped ==
  /\ born \in Token
  /\ at \in [Token -> Node] /\ merged \in [Token -> BOOLEAN]
  /\ active \subseteq 1..born /\ done \subseteq active
  /\ parked \subseteq 1..born /\ open \subseteq 1..born
  /\ \A n \in Node : barrier[n] # NoBarrier =>
       barrier[n].expected \in Nat /\ barrier[n].arrived \subseteq 1..born
  /\ state \in State /\ reported \in Nat

BatchTyped ==
  /\ pc \in [Batch -> PC]
  /\ queue \in [Batch -> Seq(1..born)] /\ todo \in [Batch -> Seq(1..born)]
  /\ hand \in [Batch -> 1..born \cup {NoToken}]
  /\ steps \in [Batch -> 0..MaxSteps]
  /\ \A b \in Batch : hand[b] = NoToken <=> pc[b] \in {"idle", "loop", "branches"}

LEMMA TypeParts == (TypeOK <=> (InstTyped /\ BatchTyped)) /\ (TypeOK' <=> (InstTyped' /\ BatchTyped'))
  BY DEF TypeOK, InstTyped, BatchTyped

\* A batch goes on with a token in its hands, or with none.
LEMMA HoldTyped ==
  ASSUME BatchTyped, born' = born, NEW b \in Batch,
         NEW k \in 1..born \cup {NoToken}, NEW label \in PC,
         k = NoToken <=> label \in {"idle", "loop", "branches"}, Holding(b, k, label)
  PROVE  /\ pc' \in [Batch -> PC] /\ hand' \in [Batch -> 1..born' \cup {NoToken}]
         /\ \A c \in Batch : hand'[c] = NoToken <=> pc'[c] \in {"idle", "loop", "branches"}
<1>1. pc' = [pc EXCEPT ![b] = label] /\ hand' = [hand EXCEPT ![b] = k]
  BY DEF Holding
<1>2. pc' \in [Batch -> PC] /\ hand' \in [Batch -> 1..born' \cup {NoToken}]
  BY <1>1 DEF BatchTyped
<1>3. \A c \in Batch : hand'[c] = NoToken <=> pc'[c] \in {"idle", "loop", "branches"}
  <2>1. pc'[b] = label /\ hand'[b] = k
    BY <1>1 DEF BatchTyped
  <2>2. \A c \in Batch \ {b} : pc'[c] = pc[c] /\ hand'[c] = hand[c]
    BY <1>1 DEF BatchTyped
  <2> QED  BY <2>1, <2>2 DEF BatchTyped
<1> QED  BY <1>2, <1>3

\* It may pop a token of its queue before.
LEMMA HeldTyped ==
  ASSUME BatchTyped, born' = born, NEW b \in Batch,
         NEW k \in 1..born \cup {NoToken}, NEW label \in PC,
         k = NoToken <=> label \in {"idle", "loop", "branches"}, Holding(b, k, label),
         todo' = todo,
         \/ UNCHANGED <<queue, steps>>
         \/ \E rest \in Seq(1..born) : steps[b] + 1 \in 0..MaxSteps /\ Pop(b, rest)
  PROVE  BatchTyped'
<1>1. queue' \in [Batch -> Seq(1..born')] /\ steps' \in [Batch -> 0..MaxSteps]
  <2>1. CASE UNCHANGED <<queue, steps>>
    BY <2>1 DEF BatchTyped
  <2>2. ASSUME NEW rest \in Seq(1..born), steps[b] + 1 \in 0..MaxSteps, Pop(b, rest)
        PROVE  queue' \in [Batch -> Seq(1..born')] /\ steps' \in [Batch -> 0..MaxSteps]
    BY <2>2 DEF BatchTyped, Pop
  <2> QED  BY <2>1, <2>2
<1>2. todo' \in [Batch -> Seq(1..born')]
  BY DEF BatchTyped
<1>3. /\ pc' \in [Batch -> PC] /\ hand' \in [Batch -> 1..born' \cup {NoToken}]
      /\ \A c \in Batch : hand'[c] = NoToken <=> pc'[c] \in {"idle", "loop", "branches"}
  BY HoldTyped
<1> QED  BY <1>1, <1>2, <1>3 DEF BatchTyped

----------------------------------------------------------------------------
\* The handlers and handle_next_action keep the types.
LEMMA StepTyped == ASSUME TypeOK, Wellformed, NEW b \in Batch, Sorted(b), BatchStep(b)
                   PROVE  TypeOK'
<1> USE GraphAssumption DEF Holding, Loop, Pop, Return, Ready
<1> /\ born \in Nat \ {0} /\ 1..born \subseteq Token /\ NoToken \notin 1..born /\ Token \subseteq Nat
  BY TokenNumbers DEF Token
<1>p. Ready(b) => /\ Popped(b) \in 1..born /\ Tail(queue[b]) \in Seq(1..born)
                  /\ steps[b] + 1 \in 0..MaxSteps
  <2> SUFFICES ASSUME Ready(b)
               PROVE  /\ Popped(b) \in 1..born /\ Tail(queue[b]) \in Seq(1..born)
                      /\ steps[b] + 1 \in 0..MaxSteps
    OBVIOUS
  <2>1. steps[b] + 1 \in 0..MaxSteps
    BY BoundAssumption DEF TypeOK
  <2> QED  BY Pops, <2>1
<1>q. /\ <<>> \in Seq(1..born) /\ 0 \in 0..MaxSteps
      /\ pc[b] \notin {"idle", "loop", "branches"} => hand[b] \in 1..born /\ hand[b] # NoToken
  BY BoundAssumption DEF TypeOK
<1>parts. InstTyped /\ BatchTyped
  BY TypeParts
<1>1. CASE Continue(b)
  <2>1. Append(Tail(queue[b]), Popped(b)) \in Seq(1..born)
    BY <1>1, <1>p DEF Continue
  <2>2. PICK m \in Targets(at[Popped(b)]) : at' = [at EXCEPT ![Popped(b)] = m]
    BY <1>1 DEF Continue
  <2>3. m \in Node
    BY <1>1, <1>p, <2>2 DEF Continue, Targets, Range, TypeOK
  <2> QED  BY <1>1, <1>p, <2>1, <2>2, <2>3 DEF Continue, ResetMerged, TypeOK
<1>2. CASE Fork(b)
  <2> DEFINE k == Popped(b)
  <2>1. PICK n \in 2..Len(Flow[at[k]]) : \E taken \in [1..n -> DOMAIN Flow[at[k]]] :
          /\ born + n <= MaxTokens /\ born' = born + n
          /\ at' = [j \in Token |-> IF j \in (born + 1)..born' THEN Flow[at[k]][taken[j - born]] ELSE at[j]]
          /\ todo' = [todo EXCEPT ![b] = [j \in 1..n |-> born + j]]
    BY <1>2 DEF Fork
  <2>2. PICK taken \in [1..n -> DOMAIN Flow[at[k]]] :
          /\ born + n <= MaxTokens /\ born' = born + n
          /\ at' = [j \in Token |-> IF j \in (born + 1)..born' THEN Flow[at[k]][taken[j - born]] ELSE at[j]]
          /\ todo' = [todo EXCEPT ![b] = [j \in 1..n |-> born + j]]
    BY <2>1
  <2>3. at[k] \in Node /\ n \in Nat
    <3>1. k \in 1..born
      BY <1>2, <1>p DEF Fork
    <3>2. at[k] \in Node
      BY <3>1 DEF TypeOK
    <3> QED  BY <3>2
  <2>4. born' \in Token /\ 1..born \subseteq 1..born'
    BY <2>2, <2>3, BoundAssumption DEF Token
  <2>5. at' \in [Token -> Node]
    <3>1. \A j \in (born + 1)..born' : Flow[at[k]][taken[j - born]] \in Node
      BY <2>2, <2>3
    <3> QED  BY <2>2, <3>1 DEF TypeOK
  <2>6. Seq(1..born) \subseteq Seq(1..born')
    BY <2>2, <2>3, WiderSeq
  <2>7. [j \in 1..n |-> born + j] \in Seq(1..born')
    BY <2>2, <2>3
  <2> HIDE DEF k
  <2>8. /\ queue' = [queue EXCEPT ![b] = Tail(queue[b])] /\ steps' = [steps EXCEPT ![b] = steps[b] + 1]
        /\ pc' = [pc EXCEPT ![b] = "barrier"] /\ hand' = [hand EXCEPT ![b] = Popped(b)]
        /\ UNCHANGED <<merged, active, done, parked, open, barrier, state, reported>> /\ Ready(b)
    BY <1>2 DEF Fork, k
  <2>9. queue' \in [Batch -> Seq(1..born')] /\ todo' \in [Batch -> Seq(1..born')]
    BY <1>p, <2>2, <2>6, <2>7, <2>8 DEF TypeOK
  <2> QED  BY <1>p, <2>4, <2>5, <2>8, <2>9, NullAssumption DEF TypeOK
<1>3. CASE RegisterJoinBarrier(b)
  <2>1. at[hand[b]] \in Node /\ JoinOf[at[hand[b]]] \in Node \cup {NoNode}
    BY <1>3 DEF RegisterJoinBarrier, TypeOK
  <2>2. Len(todo[b]) \in Nat
    BY DEF TypeOK
  <2> QED  BY <1>3, <2>1, <2>2, NullAssumption DEF RegisterJoinBarrier, TypeOK, Wellformed
<1>4. CASE MarkForked(b)
  BY <1>4 DEF MarkForked, TypeOK
<1>5. CASE RegisterActiveToken(b)
  <2>1. /\ Head(todo[b]) \in 1..born /\ Tail(todo[b]) \in Seq(1..born)
        /\ Append(queue[b], Head(todo[b])) \in Seq(1..born)
    BY <1>5 DEF RegisterActiveToken, TypeOK, Wellformed
  <2> QED  BY <1>5, <2>1 DEF RegisterActiveToken, TypeOK

<1>6. CASE ArriveAtJoin(b)
  <2> DEFINE k == Popped(b)
             n == at[k]
             arrived == Arrived(n) \cup {k}
  <2>1. n \in Node /\ Ready(b) /\ Expected(n) \in Nat /\ arrived \subseteq 1..born
    <3>1. Ready(b)
      BY <1>6 DEF ArriveAtJoin
    <3>2. k \in 1..born /\ n \in Node
      BY <1>p, <3>1 DEF TypeOK
    <3> HIDE DEF k, n
    <3> QED  BY <3>1, <3>2, ExpectedTyped
  <2>2. queue' \in [Batch -> Seq(1..born)] /\ steps' \in [Batch -> 0..MaxSteps] /\ todo' = todo
    BY <1>6, <1>p, <2>1 DEF ArriveAtJoin, TypeOK
  <2>3. UNCHANGED <<active, parked, open, state, reported>>
    BY <1>6 DEF ArriveAtJoin
  <2>4. CASE /\ barrier' = [barrier EXCEPT ![n] = [expected |-> Expected(n), arrived |-> arrived]]
             /\ UNCHANGED <<tokenVars, done, pc, hand>>
    BY <2>1, <2>2, <2>3, <2>4 DEF TypeOK, Wellformed
  <2>5. CASE /\ born + 1 <= MaxTokens
             /\ barrier' = [barrier EXCEPT ![n] = NoBarrier]
             /\ done' = done \cup (arrived \cap active)
             /\ born' = born + 1
             /\ at' = [at EXCEPT ![born + 1] = n]
             /\ merged' = [merged EXCEPT ![born + 1] = TRUE]
             /\ Holding(b, born + 1, "merged")
    <3>1. born' \in Token /\ 1..born \subseteq 1..born' /\ Seq(1..born) \subseteq Seq(1..born')
      BY <2>5, WiderSeq DEF Token
    <3>2. queue' \in [Batch -> Seq(1..born')] /\ todo' \in [Batch -> Seq(1..born')]
      BY <2>2, <3>1 DEF TypeOK
    <3>3. \A m \in Node : barrier'[m] # NoBarrier => barrier'[m] = barrier[m]
      BY <2>1, <2>5 DEF Wellformed
    <3>4. at' \in [Token -> Node] /\ merged' \in [Token -> BOOLEAN]
      BY <2>1, <2>5 DEF TypeOK
    <3>5. /\ pc' = [pc EXCEPT ![b] = "merged"] /\ hand' = [hand EXCEPT ![b] = born']
          /\ born' # NoToken
      BY <2>5, NullAssumption
    <3>6. \A m \in Node : barrier'[m] # NoBarrier =>
            barrier'[m].expected \in Nat /\ barrier'[m].arrived \subseteq 1..born'
      BY <3>1, <3>3 DEF TypeOK
    <3>7. /\ active' \subseteq 1..born' /\ done' \subseteq active'
          /\ parked' \subseteq 1..born' /\ open' \subseteq 1..born'
      BY <2>3, <2>5, <3>1 DEF TypeOK
    <3>8. /\ pc' \in [Batch -> PC] /\ hand' \in [Batch -> 1..born' \cup {NoToken}]
          /\ \A c \in Batch : hand'[c] = NoToken <=> pc'[c] \in {"idle", "loop", "branches"}
      BY <2>5, <3>1, <3>5 DEF TypeOK
    <3> QED  BY <2>2, <2>3, <3>1, <3>2, <3>4, <3>6, <3>7, <3>8 DEF TypeOK
  <2> QED  BY <1>6, <2>4, <2>5 DEF ArriveAtJoin
<1>7. CASE LeaveJoin(b)
  <2>1. hand[b] \in 1..born /\ queue[b] \in Seq(1..born)
    BY <1>7, <1>q DEF LeaveJoin, TypeOK
  <2>2. Append(queue[b], hand[b]) \in Seq(1..born)
    BY <2>1
  <2> QED  BY <1>7, <2>2 DEF LeaveJoin, TypeOK
<1>8. CASE Park(b)
  <2> HIDE DEF Holding, Loop, Pop, Return, Ready
  <2>1. /\ Ready(b) /\ parked' = parked \cup {Popped(b)}
        /\ Holding(b, Popped(b), "wait") /\ Pop(b, Tail(queue[b]))
        /\ UNCHANGED <<tokenVars, active, done, open, barrier, state, reported, todo>>
    BY <1>8 DEF Park
  <2>2. InstTyped'
    BY <1>p, <2>1, <1>parts DEF InstTyped
  <2>3. BatchTyped'
    BY <1>p, <2>1, <1>parts, HeldTyped
  <2> QED  BY <2>2, <2>3, TypeParts
<1>9. CASE SetWaiting(b) \/ InsertPending(b)
  <2>1. CASE SetWaiting(b)
    BY <2>1 DEF SetWaiting, TypeOK
  <2>2. CASE InsertPending(b)
    BY <2>2, <1>q DEF InsertPending, TypeOK
  <2> QED  BY <1>9, <2>1, <2>2
<1>10. CASE EndBranch(b)
  <2> HIDE DEF Holding, Loop, Pop, Return, Ready
  <2>1. /\ Ready(b) /\ done' = done \cup ({Popped(b)} \cap active) /\ parked' = parked \ {Popped(b)}
        /\ Holding(b, Popped(b), "ending") /\ Pop(b, Tail(queue[b]))
        /\ UNCHANGED <<tokenVars, active, open, barrier, state, reported, todo>>
    BY <1>10 DEF EndBranch
  <2>2. InstTyped'
    BY <1>p, <2>1, <1>parts DEF InstTyped
  <2>3. BatchTyped'
    BY <1>p, <2>1, <1>parts, HeldTyped
  <2> QED  BY <2>2, <2>3, TypeParts
<1>11. CASE CheckCompleted(b) \/ CloseInstance(b)
  <2> HIDE DEF Holding, Loop, Pop, Return, Ready
  <2>1. state' \in State
    BY <1>11, <1>parts DEF CheckCompleted, CloseInstance, InstTyped
  <2>2. UNCHANGED <<tokenVars, active, done, parked, open, barrier, reported, queue, todo, steps>>
    BY <1>11 DEF CheckCompleted, CloseInstance
  <2>3. InstTyped'
    BY <2>1, <2>2, <1>parts DEF InstTyped
  <2>4. Holding(b, NoToken, "loop") \/ (Holding(b, hand[b], "closing") /\ pc[b] = "ending")
    BY <1>11 DEF CheckCompleted, CloseInstance, Loop
  <2>5. BatchTyped'
    BY <1>q, <2>2, <2>4, <1>parts, HeldTyped
  <2> QED  BY <2>3, <2>5, TypeParts
<1>12. CASE TerminateTasks(b)
  <2> HIDE DEF Holding, Loop, Pop, Return, Ready
  <2>1. /\ Ready(b) /\ open' = {}
        /\ Holding(b, Popped(b), "terminating") /\ Pop(b, Tail(queue[b]))
        /\ UNCHANGED <<tokenVars, active, done, parked, barrier, state, reported, todo>>
    BY <1>12 DEF TerminateTasks
  <2>2. InstTyped'
    BY <2>1, <1>parts DEF InstTyped
  <2>3. BatchTyped'
    BY <1>p, <2>1, <1>parts, HeldTyped
  <2> QED  BY <2>2, <2>3, TypeParts
<1>13. CASE TerminateInstance(b)
  BY <1>13, <1>q DEF TerminateInstance, TypeOK
<1>14. CASE StepFails(b) \/ AbortRunaway(b) \/ FinishBatch(b)
  <2>1. /\ state' \in State /\ reported' \in Nat
        /\ UNCHANGED <<tokenVars, active, done, parked, open, barrier>>
    BY <1>14 DEF StepFails, AbortRunaway, FinishBatch, TypeOK
  <2>2. Return(b)
    BY <1>14 DEF StepFails, AbortRunaway, FinishBatch
  <2> QED  BY <1>q, <2>1, <2>2 DEF TypeOK
<1>15. CASE TakeToken(b)
  <2> HIDE DEF Holding, Loop, Pop, Return, Ready
  <2>1. /\ pc[b] = "take" /\ parked' = parked \ {hand[b]}
        /\ Holding(b, hand[b], "run") \/ Holding(b, NoToken, "idle")
        /\ UNCHANGED <<tokenVars, active, done, open, barrier, state, reported, queue, todo, steps>>
    BY <1>15 DEF TakeToken
  <2>2. InstTyped'
    BY <2>1, <1>parts DEF InstTyped
  <2>3. BatchTyped'
    BY <1>q, <2>1, <1>parts, HeldTyped
  <2> QED  BY <2>2, <2>3, TypeParts
<1>16. CASE ResumeToken(b)
  <2>1. hand[b] \in 1..born
    BY <1>16, <1>q DEF ResumeToken
  <2>2. \A m \in Targets(at[hand[b]]) : m \in Node
    BY <2>1 DEF Targets, Range, TypeOK
  <2>3. <<hand[b]>> \in Seq(1..born)
    BY <2>1
  <2>4. at' \in [Token -> Node]
    <3>1. CASE at' = at
      BY <3>1 DEF TypeOK
    <3>2. ASSUME NEW m \in Node, at' = [at EXCEPT ![hand[b]] = m] PROVE at' \in [Token -> Node]
      BY <3>2 DEF TypeOK
    <3> QED  BY <1>16, <2>2, <3>1, <3>2 DEF ResumeToken
  <2>5. CASE Return(b)
    BY <1>16, <1>q, <2>4, <2>5 DEF ResumeToken, TypeOK
  <2>6. CASE Loop(b) /\ queue' = [queue EXCEPT ![b] = <<hand[b]>>] /\ UNCHANGED <<todo, steps>>
    BY <1>16, <1>q, <2>3, <2>4, <2>6 DEF ResumeToken, TypeOK
  <2> QED  BY <1>16, <2>5, <2>6 DEF ResumeToken
<1> QED  BY <1>1, <1>2, <1>3, <1>4, <1>5, <1>6, <1>7, <1>8, <1>9, <1>10, <1>11, <1>12, <1>13,
            <1>14, <1>15, <1>16 DEF BatchStep

----------------------------------------------------------------------------
\* The other batches keep what they have.
Stay(b) == \A c \in Batch \ {b} : /\ queue'[c] = queue[c] /\ todo'[c] = todo[c]
                                  /\ hand'[c] = hand[c] /\ pc'[c] = pc[c]

\* So their tokens are the same.
LEMMA StayLocal ==
  ASSUME NEW b \in Batch, Stay(b), NEW c \in Batch, c # b
  PROVE  Local(c)' = Local(c) /\ (Sorted(c) => Sorted(c)')
<1>1. queue'[c] = queue[c] /\ todo'[c] = todo[c] /\ hand'[c] = hand[c] /\ pc'[c] = pc[c]
  BY DEF Stay
<1>2. /\ Elems(queue[c])' = Elems(queue[c]) /\ Elems(todo[c])' = Elems(todo[c]) /\ Own(c)' = Own(c)
      /\ Distinct(queue[c])' = Distinct(queue[c]) /\ Distinct(todo[c])' = Distinct(todo[c])
  BY <1>1 DEF Own, Elems, Distinct
<1> QED  BY <1>2 DEF Local, Sorted

\* Tokens have a number below born, wherever they are.
LEMMA PlacesTyped ==
  ASSUME TypeOK
  PROVE  /\ \A b \in Batch : Local(b) \subseteq 1..born
         /\ \A n \in Node : Arrived(n) \subseteq 1..born
         /\ parked \subseteq 1..born
<1>1. ASSUME NEW b \in Batch PROVE Local(b) \subseteq 1..born
  <2>1. Elems(queue[b]) \subseteq 1..born /\ Elems(todo[b]) \subseteq 1..born
    BY ElemsTyped DEF TypeOK
  <2>2. Own(b) \subseteq 1..born
    BY DEF Own, TypeOK
  <2> QED  BY <2>1, <2>2 DEF Local
<1> QED  BY <1>1, ExpectedTyped DEF TypeOK

\* A batch that takes tokens only from where nobody has them keeps all apart.
LEMMA TakeApart ==
  ASSUME Apart, NEW b \in Batch, Stay(b), NEW gained,
         Local(b)' \subseteq Local(b) \cup gained,
         parked' \subseteq parked, \A n \in Node : Arrived(n)' \subseteq Arrived(n),
         \A c \in Batch \ {b} : gained \cap Local(c) = {},
         gained \cap parked' = {}, \A n \in Node : gained \cap Arrived(n)' = {}
  PROVE  Apart'
<1>1. \A c \in Batch \ {b} : Local(c)' = Local(c)
  BY StayLocal
<1>2. \A c, d \in Batch : c # d => Local(c)' \cap Local(d)' = {}
  BY <1>1 DEF Apart
<1>3. \A c \in Batch : Local(c)' \cap parked' = {}
  BY <1>1 DEF Apart
<1>4. \A c \in Batch, n \in Node : Local(c)' \cap Arrived(n)' = {}
  BY <1>1 DEF Apart
<1>5. \A n \in Node : Arrived(n)' \cap parked' = {}
  BY DEF Apart
<1>6. \A m, n \in Node : m # n => Arrived(m)' \cap Arrived(n)' = {}
  BY DEF Apart
<1> QED  BY <1>2, <1>3, <1>4, <1>5, <1>6 DEF Apart

\* The same, when it keeps or drops its tokens.
LEMMA KeepApart ==
  ASSUME Apart, NEW b \in Batch, Stay(b), Local(b)' \subseteq Local(b),
         parked' \subseteq parked, \A n \in Node : Arrived(n)' \subseteq Arrived(n)
  PROVE  Apart'
  BY TakeApart, Local(b)' \subseteq Local(b) \cup {}

\* A batch that hands one of its tokens to the store, or to a join.
LEMMA GiveApart ==
  ASSUME Apart, NEW b \in Batch, Stay(b), NEW k \in Local(b), Local(b)' \subseteq Local(b) \ {k},
         \/ parked' = parked \cup {k} /\ \A n \in Node : Arrived(n)' = Arrived(n)
         \/ /\ parked' = parked
            /\ \E n \in Node : /\ Arrived(n)' = Arrived(n) \cup {k}
                               /\ \A m \in Node \ {n} : Arrived(m)' = Arrived(m)
  PROVE  Apart'
<1>1. \A c \in Batch \ {b} : Local(c)' = Local(c)
  BY StayLocal
<1>2. \A c, d \in Batch : c # d => Local(c)' \cap Local(d)' = {}
  BY <1>1 DEF Apart
<1>3. \A c \in Batch : k \notin Local(c)'
  BY <1>1 DEF Apart
<1>4. k \notin parked /\ \A n \in Node : k \notin Arrived(n)
  BY DEF Apart
<1>5. CASE parked' = parked \cup {k} /\ \A n \in Node : Arrived(n)' = Arrived(n)
  <2>1. \A c \in Batch : Local(c)' \cap parked' = {}
    BY <1>1, <1>3, <1>5 DEF Apart
  <2>2. \A c \in Batch, n \in Node : Local(c)' \cap Arrived(n)' = {}
    BY <1>1, <1>5 DEF Apart
  <2>3. \A n \in Node : Arrived(n)' \cap parked' = {}
    BY <1>4, <1>5 DEF Apart
  <2>4. \A m, n \in Node : m # n => Arrived(m)' \cap Arrived(n)' = {}
    BY <1>5 DEF Apart
  <2> QED  BY <1>2, <2>1, <2>2, <2>3, <2>4 DEF Apart
<1>6. ASSUME parked' = parked, NEW n \in Node, Arrived(n)' = Arrived(n) \cup {k},
             \A m \in Node \ {n} : Arrived(m)' = Arrived(m)
      PROVE  Apart'
  <2>1. \A c \in Batch : Local(c)' \cap parked' = {}
    BY <1>1, <1>6 DEF Apart
  <2>2. \A c \in Batch, m \in Node : Local(c)' \cap Arrived(m)' = {}
    BY <1>1, <1>3, <1>6 DEF Apart
  <2>3. \A m \in Node : Arrived(m)' \cap parked' = {}
    BY <1>4, <1>6 DEF Apart
  <2>4. \A l, m \in Node : l # m => Arrived(l)' \cap Arrived(m)' = {}
    BY <1>4, <1>6 DEF Apart
  <2> QED  BY <1>2, <2>1, <2>2, <2>3, <2>4 DEF Apart
<1> QED  BY <1>5, <1>6

\* A batch that only changes what it does next.
LEMMA SameLists ==
  ASSUME NEW b \in Batch, Sorted(b), queue'[b] = queue[b], todo'[b] = todo[b],
         Own(b)' \subseteq Own(b)
  PROVE  Sorted(b)' /\ Local(b)' \subseteq Local(b)
<1>1. /\ Elems(queue[b])' = Elems(queue[b]) /\ Elems(todo[b])' = Elems(todo[b])
      /\ Distinct(queue[b])' = Distinct(queue[b]) /\ Distinct(todo[b])' = Distinct(todo[b])
  BY DEF Elems, Distinct
<1> QED  BY <1>1 DEF Local, Sorted

\* A batch that pops a token and keeps the rest, that one in its hands or not.
LEMMA PoppedLists ==
  ASSUME TypeOK, NEW b \in Batch, Sorted(b), Ready(b), queue'[b] = Tail(queue[b]), todo'[b] = todo[b],
         Own(b)' \subseteq {Popped(b)}
  PROVE  /\ Sorted(b)' /\ Local(b)' \subseteq Local(b) /\ Popped(b) \in Local(b)
         /\ Own(b)' = {} => Local(b)' \subseteq Local(b) \ {Popped(b)}
<1>1. /\ Elems(queue[b]) = Elems(Tail(queue[b])) \cup {Popped(b)}
      /\ Popped(b) \notin Elems(Tail(queue[b])) /\ Distinct(Tail(queue[b]))
  BY Pops DEF Ready
<1>2. /\ Elems(queue[b])' = Elems(Tail(queue[b])) /\ Elems(todo[b])' = Elems(todo[b])
      /\ Distinct(queue[b])' = Distinct(Tail(queue[b])) /\ Distinct(todo[b])' = Distinct(todo[b])
  BY DEF Elems, Distinct
<1>3. Elems(todo[b]) \cap Elems(queue[b]) = {} /\ Own(b) = {}
  BY DEF Sorted, Own, Ready
<1> QED  BY <1>1, <1>2, <1>3 DEF Local, Sorted

\* A batch that returns or clears its queue.
LEMMA EmptyLists ==
  ASSUME NEW b \in Batch, Sorted(b), queue'[b] = <<>>, todo'[b] = todo[b], Own(b)' = {}
  PROVE  Sorted(b)' /\ Local(b)' \subseteq Local(b)
<1>1. /\ Elems(queue[b])' = {} /\ Elems(todo[b])' = Elems(todo[b])
      /\ Distinct(queue[b])' /\ Distinct(todo[b])' = Distinct(todo[b])
  BY DEF Elems, Distinct
<1> QED  BY <1>1 DEF Local, Sorted

\* What a step leaves in the variables of its batch.
Sets(b, q, t, h, p) ==
  /\ queue' = [queue EXCEPT ![b] = q] /\ todo' = [todo EXCEPT ![b] = t]
  /\ hand' = [hand EXCEPT ![b] = h] /\ pc' = [pc EXCEPT ![b] = p]

\* The others stay, and a token is in its hands only where Own says so.
LEMMA SetsStay ==
  ASSUME TypeOK, NEW b \in Batch, NEW q, NEW t, NEW h, NEW p, Sets(b, q, t, h, p)
  PROVE  /\ Stay(b) /\ queue'[b] = q /\ todo'[b] = t /\ hand'[b] = h /\ pc'[b] = p
         /\ p \notin OwnPC => Own(b)' = {}
         /\ Own(b)' \subseteq {h}
         /\ h = hand[b] /\ pc[b] \in OwnPC => Own(b)' \subseteq Own(b)
  BY DEF TypeOK, Sets, Stay, Own

\* Every step keeps the tokens apart.
LEMMA StepApart == ASSUME IInv, NEW b \in Batch, BatchStep(b)
                   PROVE  Stay(b) /\ Sorted(b)' /\ Apart'
<1> DEFINE k == Popped(b)
           Frame == \A n \in Node : Arrived(n)' = Arrived(n)
<1> TypeOK /\ Wellformed /\ Sorted(b) /\ Apart
  BY DEF IInv
<1>f. barrier' = barrier => Frame
  BY DEF Arrived
<1>u. /\ queue = [queue EXCEPT ![b] = queue[b]] /\ todo = [todo EXCEPT ![b] = todo[b]]
      /\ hand = [hand EXCEPT ![b] = hand[b]] /\ pc = [pc EXCEPT ![b] = pc[b]]
  BY DEF TypeOK
<1>1. CASE RegisterJoinBarrier(b) \/ MarkForked(b) \/ SetWaiting(b) \/ InsertPending(b)
           \/ CheckCompleted(b) \/ CloseInstance(b)
  <2>1. \E h, p : /\ Sets(b, queue[b], todo[b], h, p)
                  /\ p \notin OwnPC \/ (h = hand[b] /\ pc[b] \in OwnPC)
    <3>1. ASSUME NEW h, NEW p, hand' = [hand EXCEPT ![b] = h], pc' = [pc EXCEPT ![b] = p],
                 queue' = queue, todo' = todo
          PROVE  Sets(b, queue[b], todo[b], h, p)
      BY <1>u, <3>1 DEF Sets
    <3>2. /\ queue' = queue /\ todo' = todo
          /\ \E h, p : /\ hand' = [hand EXCEPT ![b] = h] /\ pc' = [pc EXCEPT ![b] = p]
                       /\ p \notin OwnPC \/ (h = hand[b] /\ pc[b] \in OwnPC)
      <4> SUFFICES /\ queue' = queue /\ todo' = todo
                   /\ \/ hand' = hand /\ pc' = [pc EXCEPT ![b] = "fork"] /\ pc[b] \in OwnPC
                      \/ hand' = hand /\ pc' = [pc EXCEPT ![b] = "enqueue"]
                      \/ \E p \in {"branches", "loop"} :
                           hand' = [hand EXCEPT ![b] = NoToken] /\ pc' = [pc EXCEPT ![b] = p]
                      \/ /\ hand' = [hand EXCEPT ![b] = hand[b]] /\ pc' = [pc EXCEPT ![b] = "closing"]
                         /\ pc[b] \in OwnPC
        BY <1>u
      <4>1. CASE CheckCompleted(b)
        BY <4>1 DEF CheckCompleted, Holding, Loop
      <4>2. CASE RegisterJoinBarrier(b) \/ MarkForked(b) \/ SetWaiting(b) \/ InsertPending(b) \/ CloseInstance(b)
        BY <4>2 DEF RegisterJoinBarrier, MarkForked, SetWaiting, InsertPending, CloseInstance, Holding, Loop
      <4> QED  BY <1>1, <4>1, <4>2
    <3> QED  BY <3>1, <3>2
  <2>3. Stay(b) /\ queue'[b] = queue[b] /\ todo'[b] = todo[b] /\ Own(b)' \subseteq Own(b)
    BY <2>1, SetsStay DEF Own
  <2>4. Sorted(b)' /\ Local(b)' \subseteq Local(b)
    BY <2>3, SameLists
  <2>5. parked' \subseteq parked
    BY <1>1 DEF RegisterJoinBarrier, MarkForked, SetWaiting, InsertPending, CheckCompleted, CloseInstance
  <2>6. \A n \in Node : Arrived(n)' \subseteq Arrived(n)
    <3>1. CASE barrier' = barrier
      BY <3>1, <1>f
    <3>2. ASSUME NEW x, barrier' = [barrier EXCEPT ![JoinOf[at[hand[b]]]] = [expected |-> x, arrived |-> {}]]
          PROVE  \A n \in Node : Arrived(n)' \subseteq Arrived(n)
      BY <3>2 DEF Arrived, Wellformed
    <3> QED  BY <1>1, <3>1, <3>2 DEF RegisterJoinBarrier, MarkForked, SetWaiting, InsertPending,
                                     CheckCompleted, CloseInstance
  <2> QED  BY <2>3, <2>4, <2>5, <2>6, KeepApart

<1>2. CASE Park(b)
  <2>1. Stay(b) /\ queue'[b] = Tail(queue[b]) /\ todo'[b] = todo[b] /\ Own(b)' = {}
    <3>1. Sets(b, Tail(queue[b]), todo[b], k, "wait")
      BY <1>2, <1>u DEF Park, Holding, Pop, Sets
    <3> QED  BY <3>1, SetsStay
  <2>2. Sorted(b)' /\ Local(b)' \subseteq Local(b) \ {k} /\ k \in Local(b)
    BY <1>2, <2>1, PoppedLists DEF Park
  <2>3. parked' = parked \cup {k} /\ Frame
    BY <1>2, <1>f DEF Park
  <2> QED  BY <2>1, <2>2, <2>3, GiveApart
<1>3. CASE EndBranch(b) \/ TerminateTasks(b)
  <2>1. Stay(b) /\ queue'[b] = Tail(queue[b]) /\ todo'[b] = todo[b] /\ Own(b)' \subseteq {k}
    <3>1. Sets(b, Tail(queue[b]), todo[b], k, "ending") \/ Sets(b, Tail(queue[b]), todo[b], k, "terminating")
      BY <1>3, <1>u DEF EndBranch, TerminateTasks, Holding, Pop, Sets
    <3> QED  BY <3>1, SetsStay
  <2>2. Sorted(b)' /\ Local(b)' \subseteq Local(b)
    BY <1>3, <2>1, PoppedLists DEF EndBranch, TerminateTasks
  <2>3. parked' \subseteq parked /\ Frame
    BY <1>3, <1>f DEF EndBranch, TerminateTasks
  <2> QED  BY <2>1, <2>2, <2>3, KeepApart
<1>4. CASE TerminateInstance(b) \/ StepFails(b) \/ AbortRunaway(b) \/ FinishBatch(b)
  <2>1. Sets(b, <<>>, todo[b], NoToken, "loop") \/ Sets(b, <<>>, todo[b], NoToken, "idle")
    BY <1>4, <1>u DEF TerminateInstance, StepFails, AbortRunaway, FinishBatch, Return, Holding, Loop, Sets
  <2>3. Stay(b) /\ queue'[b] = <<>> /\ todo'[b] = todo[b] /\ Own(b)' = {}
    BY <2>1, SetsStay
  <2>4. Sorted(b)' /\ Local(b)' \subseteq Local(b)
    BY <2>3, EmptyLists
  <2>5. parked' \subseteq parked /\ Frame
    BY <1>4, <1>f DEF TerminateInstance, StepFails, AbortRunaway, FinishBatch
  <2> QED  BY <2>3, <2>4, <2>5, KeepApart
<1>5. CASE Continue(b)
  <2>1. Ready(b) /\ pc[b] = "loop"
    BY <1>5 DEF Continue, Ready
  <2>2. PICK q : Appended(q, Tail(queue[b]), k) /\ Sets(b, q, todo[b], hand[b], "loop")
    BY <1>5, <1>u, <2>1 DEF Continue, Pop, Sets, Appended
  <2>3. Stay(b) /\ queue'[b] = q /\ todo'[b] = todo[b] /\ Own(b)' = {}
    BY <2>2, SetsStay
  <2>4. /\ k \in 1..born /\ Tail(queue[b]) \in Seq(1..born)
        /\ Elems(queue[b]) = Elems(Tail(queue[b])) \cup {k}
        /\ k \notin Elems(Tail(queue[b])) /\ Distinct(Tail(queue[b]))
    BY <2>1, Pops DEF Ready
  <2>5. Distinct(q) /\ Elems(q) = Elems(queue[b])
    BY <2>2, <2>4, AppendElems, TokenNumbers
  <2>6. /\ Elems(queue[b])' = Elems(queue[b]) /\ Distinct(queue[b])'
        /\ Elems(todo[b])' = Elems(todo[b]) /\ Distinct(todo[b])' = Distinct(todo[b])
    <3>1. Elems(queue[b])' = Elems(q) /\ Distinct(queue[b])' = Distinct(q)
      BY <2>3 DEF Elems, Distinct
    <3>2. Elems(todo[b])' = Elems(todo[b]) /\ Distinct(todo[b])' = Distinct(todo[b])
      BY <2>3 DEF Elems, Distinct
    <3> QED  BY <2>3, <2>5, <3>1, <3>2
  <2>7. Sorted(b)' /\ Local(b)' \subseteq Local(b)
    BY <2>3, <2>6 DEF Sorted, Local
  <2>8. parked' \subseteq parked /\ Frame
    BY <1>5, <1>f DEF Continue
  <2> QED  BY <2>3, <2>7, <2>8, KeepApart
<1>6. CASE Fork(b)
  <2>1. PICK n \in 2..Len(Flow[at[k]]) : born' = born + n /\ todo' = [todo EXCEPT ![b] = [j \in 1..n |-> born + j]]
    BY <1>6 DEF Fork
  <2> DEFINE new == [j \in 1..n |-> born + j]
  <2>2. Elems(new) = (born + 1)..(born + n) /\ Distinct(new)
    <3>1. n \in Nat /\ born \in Nat
      BY TokenNumbers
    <3>2. Len(new) = n /\ \A j \in 1..n : new[j] = born + j
      BY <3>1
    <3>3. \A i \in (born + 1)..(born + n) : i - born \in 1..n /\ new[i - born] = i
      BY <3>1, <3>2
    <3>4. Elems(new) = (born + 1)..(born + n)
      <4>1. ASSUME NEW i \in 1..n PROVE born + i \in (born + 1)..(born + n)
        BY <3>1
      <4> HIDE DEF new
      <4> QED  BY <3>1, <3>2, <3>3, <4>1 DEF Elems
    <3> QED  BY <3>1, <3>2, <3>4 DEF Distinct
  <2> HIDE DEF new
  <2>3. /\ Stay(b) /\ queue'[b] = Tail(queue[b]) /\ todo'[b] = new
        /\ Own(b)' \subseteq {k} /\ Ready(b)
    <3>1. Sets(b, Tail(queue[b]), new, k, "barrier") /\ Ready(b)
      BY <1>6, <2>1 DEF Fork, Holding, Pop, Sets, new
    <3> QED  BY <3>1, SetsStay
  <2>4. /\ Elems(queue[b]) = Elems(Tail(queue[b])) \cup {k}
        /\ k \notin Elems(Tail(queue[b])) /\ Distinct(Tail(queue[b]))
    BY <2>3, Pops DEF Ready
  <2>5. /\ Elems(queue[b])' \subseteq Elems(queue[b]) /\ Distinct(queue[b])'
        /\ Elems(todo[b])' = (born + 1)..(born + n) /\ Distinct(todo[b])'
    BY <2>2, <2>3, <2>4 DEF Elems, Distinct
  <2>g. PICK gained : gained = (born + 1)..(born + n)
    OBVIOUS
  <2>6. /\ \A c \in Batch : gained \cap Local(c) = {}
        /\ gained \cap parked = {}
        /\ \A m \in Node : gained \cap Arrived(m) = {}
    <3>1. gained \cap (1..born) = {}
      BY <2>g, TokenNumbers
    <3> QED  BY <3>1, PlacesTyped
  <2>7. Sorted(b)' /\ Local(b)' \subseteq Local(b) \cup gained
    <3>1. k \in Local(b) /\ k \notin Elems(queue[b])'
      BY <2>3, <2>4 DEF Elems, Local
    <3> HIDE DEF k
    <3> QED  BY <2>3, <2>5, <2>6, <2>g, <3>1 DEF Sorted, Local
  <2>8. parked' = parked /\ Frame
    BY <1>6, <1>f DEF Fork
  <2>9. Stay(b)
    BY <2>3
  <2> HIDE DEF k
  <2>10. parked' \subseteq parked /\ \A m \in Node : Arrived(m)' \subseteq Arrived(m)
    BY <2>8
  <2>11. /\ \A c \in Batch \ {b} : gained \cap Local(c) = {}
         /\ gained \cap parked' = {} /\ \A m \in Node : gained \cap Arrived(m)' = {}
    BY <2>6, <2>8
  <2>12. Local(b)' \subseteq Local(b) \cup gained
    BY <2>7
  <2>13. Apart'
    BY <2>9, <2>10, <2>11, <2>12, TakeApart
  <2> QED  BY <2>7, <2>9, <2>13
<1>7. CASE RegisterActiveToken(b)
  <2>1. PICK h, q : /\ h = Head(todo[b]) /\ Appended(q, queue[b], h)
                    /\ \/ Sets(b, q, Tail(todo[b]), hand[b], "loop")
                       \/ Sets(b, q, Tail(todo[b]), hand[b], "branches")
    BY <1>7, <1>u DEF RegisterActiveToken, Sets, Appended
  <2>2. Stay(b) /\ queue'[b] = q /\ todo'[b] = Tail(todo[b]) /\ Own(b)' = {}
    BY <2>1, SetsStay
  <2>3. /\ h \in 1..born
        /\ Elems(todo[b]) = Elems(Tail(todo[b])) \cup {h}
        /\ h \notin Elems(Tail(todo[b])) /\ Distinct(Tail(todo[b]))
    <3>1. todo[b] # <<>> /\ todo[b] \in Seq(1..born) /\ Distinct(todo[b])
      BY <1>7 DEF RegisterActiveToken, Wellformed, TypeOK, Sorted
    <3> QED  BY <2>1, <3>1, PopElems
  <2>4. queue[b] \in Seq(1..born) /\ Distinct(queue[b]) /\ h \notin Elems(queue[b])
    BY <2>3 DEF TypeOK, Sorted
  <2>5. Distinct(q) /\ Elems(q) = Elems(queue[b]) \cup {h}
    BY <2>1, <2>3, <2>4, AppendElems, TokenNumbers
  <2>6. PICK t : t = Tail(todo[b])
    OBVIOUS
  <2>7. /\ Elems(queue[b])' = Elems(queue[b]) \cup {h} /\ Distinct(queue[b])'
        /\ Elems(todo[b])' = Elems(t) /\ Distinct(todo[b])'
    <3>1. Elems(queue[b])' = Elems(q) /\ Distinct(queue[b])' = Distinct(q)
      BY <2>2 DEF Elems, Distinct
    <3>2. Elems(todo[b])' = Elems(t) /\ Distinct(todo[b])' = Distinct(t)
      BY <2>2, <2>6 DEF Elems, Distinct
    <3> QED  BY <2>3, <2>5, <2>6, <3>1, <3>2
  <2>8. Sorted(b)' /\ Local(b)' \subseteq Local(b)
    BY <2>2, <2>3, <2>6, <2>7 DEF Sorted, Local
  <2>9. parked' \subseteq parked /\ Frame
    BY <1>7, <1>f DEF RegisterActiveToken
  <2> QED  BY <2>2, <2>8, <2>9, KeepApart
<1>8. CASE ArriveAtJoin(b)
  <2>1. /\ Ready(b) /\ queue' = [queue EXCEPT ![b] = Tail(queue[b])] /\ todo' = todo /\ parked' = parked
    BY <1>8 DEF ArriveAtJoin, Pop
  <2>2. PICK n \in Node : n = at[k]
    BY <2>1, Pops, TokenNumbers DEF Ready, TypeOK
  <2>a. PICK arrived : arrived = Arrived(n) \cup {k}
    OBVIOUS
  <2>3. CASE /\ barrier' = [barrier EXCEPT ![n] = [expected |-> Expected(n), arrived |-> arrived]]
             /\ UNCHANGED <<tokenVars, done, pc, hand>>
    <3>1. pc[b] \notin OwnPC /\ Sets(b, Tail(queue[b]), todo[b], hand[b], pc[b])
      BY <1>u, <2>1, <2>3 DEF Ready, Sets
    <3>2. Stay(b) /\ queue'[b] = Tail(queue[b]) /\ todo'[b] = todo[b] /\ Own(b)' = {}
      BY <3>1, SetsStay
    <3>3. Sorted(b)' /\ Local(b)' \subseteq Local(b) \ {k} /\ k \in Local(b)
      BY <2>1, <3>2, PoppedLists
    <3>4. CASE [expected |-> Expected(n), arrived |-> arrived] # NoBarrier
      <4>1. Arrived(n)' = Arrived(n) \cup {k} /\ \A m \in Node \ {n} : Arrived(m)' = Arrived(m)
        BY <2>2, <2>a, <2>3, <3>4 DEF Arrived, Wellformed
      <4> QED  BY <2>1, <2>2, <3>2, <3>3, <4>1, GiveApart
    <3>5. CASE [expected |-> Expected(n), arrived |-> arrived] = NoBarrier
      <4>1. \A m \in Node : Arrived(m)' \subseteq Arrived(m)
        BY <2>2, <2>3, <3>5 DEF Arrived, Wellformed
      <4> QED  BY <2>1, <3>2, <3>3, <4>1, KeepApart
    <3> QED  BY <3>4, <3>5
  <2>4. CASE /\ barrier' = [barrier EXCEPT ![n] = NoBarrier]
             /\ born' = born + 1
             /\ Holding(b, born + 1, "merged")
    <3>1. /\ Stay(b) /\ queue'[b] = Tail(queue[b]) /\ todo'[b] = todo[b]
          /\ Own(b)' \subseteq {born + 1}
      <4>1. Sets(b, Tail(queue[b]), todo[b], born + 1, "merged")
        BY <1>u, <2>1, <2>4 DEF Holding, Sets
      <4> QED  BY <4>1, SetsStay
    <3>2. /\ Elems(queue[b]) = Elems(Tail(queue[b])) \cup {k}
          /\ k \notin Elems(Tail(queue[b])) /\ Distinct(Tail(queue[b]))
      BY <2>1, Pops DEF Ready
    <3>3. /\ Elems(queue[b])' \subseteq Elems(queue[b]) /\ Distinct(queue[b])'
          /\ Elems(todo[b])' = Elems(todo[b]) /\ Distinct(todo[b])' = Distinct(todo[b])
      BY <3>1, <3>2 DEF Elems, Distinct
    <3>g. PICK gained : gained = {born + 1}
      OBVIOUS
    <3>4. /\ \A c \in Batch : gained \cap Local(c) = {}
          /\ gained \cap parked = {}
          /\ \A m \in Node : gained \cap Arrived(m) = {}
      <4>1. gained \cap (1..born) = {}
        BY <3>g, TokenNumbers
      <4> QED  BY <4>1, PlacesTyped
    <3>5. Sorted(b)' /\ Local(b)' \subseteq Local(b) \cup gained
      BY <3>1, <3>3, <3>4, <3>g DEF Sorted, Local
    <3>6. \A m \in Node : Arrived(m)' \subseteq Arrived(m)
      BY <2>2, <2>4 DEF Arrived, Wellformed
    <3>7. \A m \in Node : gained \cap Arrived(m)' = {}
      BY <3>4, <3>6
    <3>8. parked' \subseteq parked
      BY <2>1
    <3>9. /\ \A c \in Batch \ {b} : gained \cap Local(c) = {}
          /\ gained \cap parked' = {}
      BY <3>4, <3>8
    <3>10. Stay(b) /\ Local(b)' \subseteq Local(b) \cup gained
      BY <3>1, <3>5
    <3>11. Apart'
      <4> HIDE DEF k
      <4> QED  BY <3>6, <3>7, <3>8, <3>9, <3>10, TakeApart
    <3> QED  BY <2>1, <3>1, <3>5, <3>11
  <2> QED  BY <1>8, <2>2, <2>a, <2>3, <2>4 DEF ArriveAtJoin
<1>9. CASE LeaveJoin(b)
  <2>1. pc[b] = "merged"
    BY <1>9 DEF LeaveJoin
  <2>2. PICK q : Appended(q, queue[b], hand[b]) /\ Sets(b, q, todo[b], NoToken, "loop")
    BY <1>9, <1>u DEF LeaveJoin, Loop, Holding, Sets, Appended
  <2>3. Stay(b) /\ queue'[b] = q /\ todo'[b] = todo[b] /\ Own(b)' = {}
    BY <2>2, SetsStay
  <2>4. hand[b] \in 1..born /\ Own(b) = {hand[b]}
    BY <2>1 DEF TypeOK, Own
  <2>5. queue[b] \in Seq(1..born) /\ Distinct(queue[b]) /\ hand[b] \notin Elems(queue[b])
    BY <2>4 DEF TypeOK, Sorted
  <2>6. Distinct(q) /\ Elems(q) = Elems(queue[b]) \cup {hand[b]}
    BY <2>2, <2>4, <2>5, AppendElems, TokenNumbers
  <2>7. /\ Elems(queue[b])' = Elems(queue[b]) \cup {hand[b]} /\ Distinct(queue[b])'
        /\ Elems(todo[b])' = Elems(todo[b]) /\ Distinct(todo[b])' = Distinct(todo[b])
    <3>1. Elems(queue[b])' = Elems(q) /\ Distinct(queue[b])' = Distinct(q)
      BY <2>3 DEF Elems, Distinct
    <3>2. Elems(todo[b])' = Elems(todo[b]) /\ Distinct(todo[b])' = Distinct(todo[b])
      BY <2>3 DEF Elems, Distinct
    <3> QED  BY <2>3, <2>6, <3>1, <3>2
  <2>8. Sorted(b)' /\ Local(b)' \subseteq Local(b)
    BY <2>3, <2>4, <2>7 DEF Sorted, Local
  <2>9. parked' \subseteq parked /\ Frame
    BY <1>9, <1>f DEF LeaveJoin
  <2> QED  BY <2>3, <2>8, <2>9, KeepApart
<1>10. CASE TakeToken(b)
  <2>1. \/ Sets(b, queue[b], todo[b], NoToken, "idle")
        \/ Sets(b, queue[b], todo[b], hand[b], "run") /\ hand[b] \in parked
    BY <1>10, <1>u DEF TakeToken, Holding, Sets
  <2>4. /\ Stay(b) /\ queue'[b] = queue[b] /\ todo'[b] = todo[b]
        /\ Own(b)' \subseteq {hand[b]} \cap parked
    BY <2>1, SetsStay
  <2>5. Elems(queue[b]) \cap parked = {} /\ Elems(todo[b]) \cap parked = {}
    BY DEF Apart, Local
  <2>6. /\ Elems(queue[b])' = Elems(queue[b]) /\ Elems(todo[b])' = Elems(todo[b])
        /\ Distinct(queue[b])' = Distinct(queue[b]) /\ Distinct(todo[b])' = Distinct(todo[b])
    BY <2>4 DEF Elems, Distinct
  <2>g. PICK gained : gained = {hand[b]} \cap parked
    OBVIOUS
  <2>7. Sorted(b)' /\ Local(b)' \subseteq Local(b) \cup gained
    BY <2>4, <2>5, <2>6, <2>g DEF Sorted, Local
  <2>8. parked' = parked \ {hand[b]} /\ Frame
    BY <1>10, <1>f DEF TakeToken
  <2>9. /\ \A c \in Batch \ {b} : gained \cap Local(c) = {}
        /\ gained \cap parked' = {}
        /\ \A n \in Node : gained \cap Arrived(n)' = {}
    BY <2>8, <2>g DEF Apart
  <2> QED  BY <2>4, <2>7, <2>8, <2>9, TakeApart
<1>11. CASE ResumeToken(b)
  <2>1. Own(b) = {hand[b]} /\ parked' = parked /\ Frame
    BY <1>11, <1>f DEF ResumeToken, Own
  <2>2. CASE Return(b)
    <3>1. Stay(b) /\ queue'[b] = <<>> /\ todo'[b] = todo[b] /\ Own(b)' = {}
      <4>1. Sets(b, <<>>, todo[b], NoToken, "idle")
        BY <1>u, <2>2 DEF Return, Holding, Sets
      <4> QED  BY <4>1, SetsStay
    <3>2. Sorted(b)' /\ Local(b)' \subseteq Local(b)
      BY <3>1, EmptyLists
    <3> QED  BY <2>1, <3>1, <3>2, KeepApart
  <2>3. CASE Loop(b) /\ queue' = [queue EXCEPT ![b] = <<hand[b]>>] /\ UNCHANGED <<todo, steps>>
    <3>1. Stay(b) /\ queue'[b] = <<hand[b]>> /\ todo'[b] = todo[b] /\ Own(b)' = {}
      <4>1. Sets(b, <<hand[b]>>, todo[b], NoToken, "loop")
        BY <1>u, <2>3 DEF Loop, Holding, Sets
      <4> QED  BY <4>1, SetsStay
    <3>2. /\ Elems(queue[b])' = {hand[b]} /\ Distinct(queue[b])'
          /\ Elems(todo[b])' = Elems(todo[b]) /\ Distinct(todo[b])' = Distinct(todo[b])
      BY <3>1 DEF Elems, Distinct
    <3>3. Sorted(b)' /\ Local(b)' \subseteq Local(b)
      BY <2>1, <3>1, <3>2 DEF Sorted, Local
    <3> QED  BY <2>1, <3>1, <3>3, KeepApart
  <2> QED  BY <1>11, <2>2, <2>3 DEF ResumeToken
<1> QED  BY <1>1, <1>2, <1>3, <1>4, <1>5, <1>6, <1>7, <1>8, <1>9, <1>10, <1>11 DEF BatchStep

----------------------------------------------------------------------------
\* The barriers stay a function on the nodes, and a batch that registers
\* branches has some.
LEMMA StepWellformed == ASSUME IInv, NEW b \in Batch, BatchStep(b) PROVE Wellformed'
<1> TypeOK /\ Wellformed
  BY DEF IInv
<1> USE DEF Holding, Loop, Pop, Return, Ready
<1>1. DOMAIN barrier' = Node /\ barrier' = [n \in Node |-> barrier'[n]]
  <2>1. barrier' = barrier \/ \E n, r : barrier' = [barrier EXCEPT ![n] = r]
    BY DEF BatchStep, Continue, Fork, RegisterJoinBarrier, MarkForked, RegisterActiveToken, ArriveAtJoin,
           LeaveJoin, Park, SetWaiting, InsertPending, EndBranch, CheckCompleted, CloseInstance,
           TerminateTasks, TerminateInstance, StepFails, AbortRunaway, FinishBatch, TakeToken, ResumeToken
  <2> QED  BY <2>1 DEF Wellformed
<1>2. ASSUME NEW c \in Batch, pc'[c] \in {"barrier", "fork", "branches"} PROVE todo'[c] # <<>>
  <2>1. CASE c # b
    BY <1>2, <2>1, StepApart DEF Stay, Wellformed
  <2>2. CASE c = b /\ Fork(b)
    <3>1. PICK n \in 2..Len(Flow[at[Popped(b)]]) : todo' = [todo EXCEPT ![b] = [j \in 1..n |-> born + j]]
      BY <2>2 DEF Fork
    <3>2. Len([j \in 1..n |-> born + j]) = n /\ n >= 2
      OBVIOUS
    <3>3. PICK t : t = [j \in 1..n |-> born + j] /\ todo'[b] = t /\ Len(t) = n
      BY <3>1, <3>2 DEF TypeOK
    <3>4. t # <<>>
      BY <3>2, <3>3
    <3> QED  BY <2>2, <3>3, <3>4
  <2>3. CASE c = b /\ RegisterActiveToken(b)
    <3>1. todo[b] # <<>> /\ todo[b] \in Seq(1..born) /\ Len(todo[b]) # 1
      BY <1>2, <2>3 DEF RegisterActiveToken, Wellformed, TypeOK
    <3>2. Len(todo[b]) \in Nat \ {0} /\ Len(Tail(todo[b])) = Len(todo[b]) - 1
      BY <3>1, HeadTailProperties, EmptySeq, LenProperties
    <3>3. Len(Tail(todo[b])) # 0
      BY <3>1, <3>2
    <3>4. PICK t : t = Tail(todo[b]) /\ Len(t) # 0
      BY <3>3
    <3>5. t # <<>>
      BY <3>4
    <3> QED  BY <2>3, <3>4, <3>5 DEF RegisterActiveToken, TypeOK
  <2>4. CASE c = b /\ (RegisterJoinBarrier(b) \/ MarkForked(b))
    BY <2>4 DEF RegisterJoinBarrier, MarkForked, Wellformed, TypeOK
  <2>5. CASE c = b /\ ~Fork(b) /\ ~RegisterActiveToken(b) /\ ~RegisterJoinBarrier(b) /\ ~MarkForked(b)
    <3>1. pc'[b] \notin {"barrier", "fork", "branches"}
      BY <2>5 DEF BatchStep, Continue, ArriveAtJoin, LeaveJoin, Park, SetWaiting, InsertPending, EndBranch,
           CheckCompleted, CloseInstance, TerminateTasks, TerminateInstance, StepFails, AbortRunaway,
           FinishBatch, TakeToken, ResumeToken, TypeOK
    <3> QED  BY <1>2, <2>5, <3>1
  <2> QED  BY <2>1, <2>2, <2>3, <2>4, <2>5
<1> QED  BY <1>1, <1>2 DEF Wellformed

\* Where a batch has a token in its hands that is in the store.
TaskPC == {"wait", "enqueue", "take"}

\* A task is open for a token of the store, to be completed by one batch.
LEMMA StepTasks == ASSUME IInv, NEW b \in Batch, BatchStep(b) PROVE Tasks'
<1> TypeOK /\ Sorted(b) /\ Apart /\ Tasks /\ Stay(b)
  BY StepApart DEF IInv
<1> USE DEF Holding, Loop, Pop, Return, Ready
<1>1. CASE Park(b)
  <2>1. /\ pc[b] = "loop" /\ Popped(b) \notin parked /\ Popped(b) \in Local(b)
    BY <1>1, Pops DEF Park, Apart, Local
  <2>2. /\ parked' = parked \cup {Popped(b)} /\ open' = open /\ pc'[b] = "wait" /\ hand'[b] = Popped(b)
    BY <1>1 DEF Park, TypeOK
  <2> QED  BY <2>1, <2>2 DEF Tasks, Stay
<1>2. CASE EndBranch(b)
  <2>1. Popped(b) \notin parked
    BY <1>2, Pops DEF EndBranch, Apart, Local
  <2>2. /\ parked' = parked /\ open' = open /\ pc'[b] = "ending"
    BY <1>2, <2>1 DEF EndBranch, TypeOK
  <2> QED  BY <2>2 DEF Tasks, Stay
<1>3. CASE SetWaiting(b)
  <2>1. /\ pc[b] = "wait" /\ parked' = parked /\ open' = open /\ pc'[b] = "enqueue" /\ hand'[b] = hand[b]
    BY <1>3 DEF SetWaiting, TypeOK
  <2> QED  BY <2>1 DEF Tasks, Stay
<1>4. CASE InsertPending(b)
  <2>1. /\ pc[b] = "enqueue" /\ parked' = parked /\ open' = open \cup {hand[b]} /\ pc'[b] = "loop"
    BY <1>4 DEF InsertPending, TypeOK
  <2> QED  BY <2>1 DEF Tasks, Stay
<1>5. CASE TakeToken(b)
  <2>1. pc[b] = "take" /\ hand[b] \in parked \ open
    BY <1>5 DEF TakeToken, Tasks
  <2>2. parked' = parked \ {hand[b]} /\ open' = open /\ pc'[b] = "run"
    BY <1>5, <2>1 DEF TakeToken, TypeOK
  <2> QED  BY <2>1, <2>2 DEF Tasks, Stay
<1>6. CASE TerminateTasks(b)
  <2>1. parked' = parked /\ open' = {} /\ pc'[b] = "terminating"
    BY <1>6 DEF TerminateTasks, TypeOK
  <2> QED  BY <2>1 DEF Tasks, Stay
<1>7. CASE \/ Continue(b) \/ Fork(b) \/ RegisterJoinBarrier(b) \/ MarkForked(b)
           \/ RegisterActiveToken(b) \/ ArriveAtJoin(b) \/ LeaveJoin(b)
           \/ CheckCompleted(b) \/ CloseInstance(b) \/ TerminateInstance(b)
           \/ StepFails(b) \/ AbortRunaway(b) \/ FinishBatch(b) \/ ResumeToken(b)
  <2>1. parked' = parked /\ open' = open
    BY <1>7 DEF Continue, Fork, RegisterJoinBarrier, MarkForked, RegisterActiveToken, ArriveAtJoin, LeaveJoin,
           CheckCompleted, CloseInstance, TerminateInstance, StepFails, AbortRunaway, FinishBatch, ResumeToken
  <2>2. pc'[b] \notin TaskPC
    BY <1>7 DEF Continue, Fork, RegisterJoinBarrier, MarkForked, RegisterActiveToken, ArriveAtJoin, LeaveJoin,
           CheckCompleted, CloseInstance, TerminateInstance, StepFails, AbortRunaway, FinishBatch, ResumeToken,
           TypeOK, TaskPC
  <2> QED  BY <2>1, <2>2 DEF Tasks, Stay, TaskPC
<1> QED  BY <1>1, <1>2, <1>3, <1>4, <1>5, <1>6, <1>7 DEF BatchStep

\* The completion of a task.
LEMMA CompleteIInv == ASSUME IInv, NEW b \in Batch, NEW k \in Token, CompleteTask(b, k) PROVE IInv'
<1> TypeOK /\ Wellformed /\ Sorted(b) /\ Apart /\ Tasks
  BY DEF IInv
<1>1. /\ pc[b] = "idle" /\ k \in open /\ open' = open \ {k} /\ k \in 1..born /\ k # NoToken
      /\ pc' = [pc EXCEPT ![b] = "take"] /\ hand' = [hand EXCEPT ![b] = k]
      /\ UNCHANGED <<tokenVars, active, done, parked, barrier, state, reported, queue, todo, steps>>
  BY TokenNumbers DEF CompleteTask, Holding, TypeOK
<1>2. TypeOK'
  BY <1>1 DEF TypeOK
<1>3. Wellformed'
  BY <1>1 DEF Wellformed, TypeOK
<1>4. Sets(b, queue[b], todo[b], k, "take")
  BY <1>1 DEF Sets, TypeOK
<1>5. Stay(b) /\ queue'[b] = queue[b] /\ todo'[b] = todo[b] /\ Own(b)' = {} /\ pc'[b] = "take" /\ hand'[b] = k
  BY <1>4, SetsStay
<1>6. Sorted(b)' /\ Local(b)' \subseteq Local(b)
  BY <1>5, SameLists
<1>7. \A c \in Batch : Sorted(c)'
  BY <1>5, <1>6, StayLocal DEF IInv
<1>8. Apart'
  <2>1. \A n \in Node : Arrived(n)' = Arrived(n)
    BY <1>1 DEF Arrived
  <2> QED  BY <1>1, <1>5, <1>6, <2>1, KeepApart
<1>9. Tasks'
  <2>1. open' = open \ {k} /\ parked' = parked /\ k \in open /\ k \in parked
    BY <1>1 DEF Tasks
  <2>2. ASSUME NEW c \in Batch, c # b
        PROVE  /\ hand'[c] = hand[c] /\ pc'[c] = pc[c]
               /\ pc[c] \in {"wait", "enqueue", "take"} => hand[c] # k
    <3>1. c \in Batch \ {b}
      BY <2>2
    <3>2. hand'[c] = hand[c] /\ pc'[c] = pc[c]
      BY <1>5, <3>1 DEF Stay
    <3> QED  BY <2>1, <3>2 DEF Tasks
  <2>3. ASSUME NEW c \in Batch, pc'[c] \in {"wait", "enqueue", "take"}
        PROVE  /\ hand'[c] \in parked' \ open' /\ (c # b => hand'[c] # k)
               /\ c # b => pc[c] \in {"wait", "enqueue", "take"} /\ hand[c] = hand'[c]
    <3>1. CASE c = b
      BY <1>5, <2>1, <3>1
    <3>2. CASE c # b
      <4>1. pc[c] \in {"wait", "enqueue", "take"} /\ hand'[c] = hand[c] /\ hand[c] # k
        BY <2>2, <2>3, <3>2
      <4>2. hand[c] \in parked \ open
        BY <4>1 DEF Tasks
      <4> QED  BY <2>1, <4>1, <4>2
    <3> QED  BY <3>1, <3>2
  <2>4. ASSUME NEW c \in Batch, NEW d \in Batch, pc'[c] \in {"wait", "enqueue", "take"},
               pc'[d] \in {"wait", "enqueue", "take"}, hand'[c] = hand'[d]
        PROVE  c = d
    BY <1>5, <2>3, <2>4 DEF Tasks
  <2>5. open' \subseteq parked'
    BY <2>1 DEF Tasks
  <2> QED  BY <2>3, <2>4, <2>5 DEF Tasks
<1> QED  BY <1>2, <1>3, <1>7, <1>8, <1>9 DEF IInv

\* Every step keeps the invariant.
LEMMA NextIInv == IInv /\ [Next]_vars => IInv'
<1> SUFFICES ASSUME IInv, [Next]_vars PROVE IInv'
  OBVIOUS
<1>1. ASSUME NEW b \in Batch, BatchStep(b) PROVE IInv'
  <2>1. TypeOK'
    BY <1>1, StepTyped DEF IInv
  <2>2. \A c \in Batch : Sorted(c)'
    BY <1>1, StepApart, StayLocal DEF IInv
  <2> QED  BY <1>1, <2>1, <2>2, StepWellformed, StepApart, StepTasks DEF IInv
<1>2. CASE UNCHANGED vars
  <2>1. UNCHANGED <<born, at, merged, active, done, parked, open, barrier, state, reported, pc, queue,
                    hand, todo, steps>>
    BY <1>2 DEF vars
  <2>2. TypeOK'
    BY <2>1 DEF IInv, TypeOK
  <2>3. Wellformed' /\ Tasks'
    BY <2>1 DEF IInv, Wellformed, Tasks
  <2>4. \A b \in Batch : /\ Elems(queue[b])' = Elems(queue[b]) /\ Elems(todo[b])' = Elems(todo[b])
                         /\ Distinct(queue[b])' = Distinct(queue[b])
                         /\ Distinct(todo[b])' = Distinct(todo[b])
    BY <2>1 DEF Elems, Distinct
  <2>5. \A b \in Batch : Own(b)' = Own(b)
    BY <2>1 DEF Own
  <2>6. \A b \in Batch : Local(b)' = Local(b) /\ (Sorted(b) => Sorted(b)')
    BY <2>4, <2>5 DEF Local, Sorted
  <2>7. \A n \in Node : Arrived(n)' = Arrived(n)
    BY <2>1 DEF Arrived
  <2>8. Apart'
    BY <2>1, <2>6, <2>7 DEF IInv, Apart
  <2> QED  BY <2>2, <2>3, <2>6, <2>8 DEF IInv
<1> QED  BY <1>1, <1>2, CompleteIInv DEF Next

\* A token is at one position at most of lists that are distinct and apart.
LEMMA OnePosition ==
  ASSUME NEW list \in [Batch -> Seq(Nat)], NEW k,
         \A b \in Batch : Distinct(list[b]),
         \A b, c \in Batch : b # c => Elems(list[b]) \cap Elems(list[c]) = {}
  PROVE  /\ Cardinality(Listed(list, k)) \in {0, 1}
         /\ Cardinality(Listed(list, k)) = 1 <=> \E b \in Batch : k \in Elems(list[b])
<1>0. \A y \in Listed(list, k) : /\ y = <<y[1], y[2]>> /\ y[1] \in Batch
                                /\ y[2] \in 1..Len(list[y[1]]) /\ list[y[1]][y[2]] = k
  BY DEF Listed
<1>1. CASE Listed(list, k) = {}
  <2>1. ASSUME NEW b \in Batch, k \in Elems(list[b]) PROVE FALSE
    <3>1. PICK j \in 1..Len(list[b]) : list[b][j] = k
      BY <2>1 DEF Elems
    <3>2. <<b, j>> \in {b} \X {i \in 1..Len(list[b]) : list[b][i] = k}
      BY <3>1
    <3> QED  BY <1>1, <3>2 DEF Listed
  <2> QED  BY <1>1, <2>1, FS_EmptySet
<1>2. CASE Listed(list, k) # {}
  <2>1. PICK x \in Listed(list, k) : TRUE
    BY <1>2
  <2>3. \A y \in Listed(list, k) : k \in Elems(list[y[1]])
    BY <1>0 DEF Elems
  <2>4. \A y \in Listed(list, k) : y[1] = x[1]
    BY <1>0, <2>1, <2>3
  <2>5. \A y \in Listed(list, k) : y[2] = x[2]
    BY <1>0, <2>1, <2>4 DEF Distinct
  <2>6. Listed(list, k) = {x}
    BY <1>0, <2>1, <2>4, <2>5
  <2> QED  BY <1>0, <2>1, <2>3, <2>6, FS_Singleton
<1> QED  BY <1>1, <1>2

\* A set without two elements has none or one.
LEMMA AtMostOne ==
  ASSUME NEW S, \A x, y \in S : x = y
  PROVE  Cardinality(S) \in {0, 1} /\ (Cardinality(S) = 1 <=> S # {})
<1>1. CASE S = {}
  BY <1>1, FS_EmptySet
<1>2. CASE S # {}
  <2>1. PICK x : S = {x}
    BY <1>2
  <2> QED  BY <2>1, FS_Singleton
<1> QED  BY <1>1, <1>2

\* The numbers that Places adds up.
LEMMA PlacesCounted ==
  ASSUME IInv, NEW k
  PROVE  /\ Cardinality(Queued(k)) \in {0, 1}
         /\ Cardinality(Queued(k)) = 1 <=> \E b \in Batch : k \in Elems(queue[b])
         /\ Cardinality(Forked(k)) \in {0, 1}
         /\ Cardinality(Forked(k)) = 1 <=> \E b \in Batch : k \in Elems(todo[b])
         /\ Cardinality(Carried(k)) \in {0, 1}
         /\ Cardinality(Carried(k)) = 1 => \E b \in Batch : k \in Own(b)
         /\ Cardinality(AtJoin(k)) \in {0, 1}
         /\ Cardinality(AtJoin(k)) = 1 <=> \E n \in Node : k \in Arrived(n)
<1> TypeOK /\ (\A b \in Batch : Sorted(b)) /\ Apart
  BY DEF IInv
<1>1. queue \in [Batch -> Seq(Nat)] /\ todo \in [Batch -> Seq(Nat)]
  <2>1. Seq(1..born) \subseteq Seq(Nat)
    BY SeqMonotonic, TokenNumbers
  <2> QED  BY <2>1 DEF TypeOK
<1>2. /\ Cardinality(Queued(k)) \in {0, 1}
      /\ Cardinality(Queued(k)) = 1 <=> \E b \in Batch : k \in Elems(queue[b])
  BY <1>1, OnePosition DEF Queued, Sorted, Apart, Local
<1>3. /\ Cardinality(Forked(k)) \in {0, 1}
      /\ Cardinality(Forked(k)) = 1 <=> \E b \in Batch : k \in Elems(todo[b])
  BY <1>1, OnePosition DEF Forked, Sorted, Apart, Local
<1>4. \A b \in Carried(k) : k \in Own(b)
  BY DEF Carried, Own
<1>5. /\ Cardinality(Carried(k)) \in {0, 1}
      /\ Cardinality(Carried(k)) = 1 => \E b \in Batch : k \in Own(b)
  <2>1. \A b, c \in Carried(k) : b = c
    BY <1>4 DEF Carried, Apart, Local
  <2> QED  BY <1>4, <2>1, AtMostOne DEF Carried
<1>6. /\ Cardinality(AtJoin(k)) \in {0, 1}
      /\ Cardinality(AtJoin(k)) = 1 <=> \E n \in Node : k \in Arrived(n)
  <2>1. \A m, n \in AtJoin(k) : m = n
    BY DEF AtJoin, Apart
  <2> QED  BY <2>1, AtMostOne DEF AtJoin
<1> QED  BY <1>2, <1>3, <1>5, <1>6

\* The kinds of places exclude each other, so their numbers add up to one at most.
LEMMA IInvOnePlace == IInv => OneTokenOnePlace
<1> SUFFICES ASSUME IInv PROVE OneTokenOnePlace
  OBVIOUS
<1> TypeOK /\ (\A b \in Batch : Sorted(b)) /\ Apart /\ Tasks
  BY DEF IInv
<1>1. ASSUME NEW k \in 1..born PROVE Places(k) <= 1
  <2>7. CASE \E b \in Batch : k \in Local(b)
    <3>1. PICK b \in Batch : k \in Local(b)
      BY <2>7
    <3>2. \A c \in Batch : k \in Local(c) => c = b
      BY <3>1 DEF Apart
    <3>3. k \notin parked /\ \A n \in Node : k \notin Arrived(n)
      BY <3>1 DEF Apart
    <3>4. \A c \in Batch : k \in Elems(queue[c]) \/ k \in Elems(todo[c]) \/ k \in Own(c) => c = b
      BY <3>2 DEF Local
    <3>5. /\ k \in Elems(queue[b]) => k \notin Elems(todo[b]) /\ k \notin Own(b)
          /\ k \in Elems(todo[b]) => k \notin Own(b)
      BY DEF Sorted
    <3> QED  BY PlacesCounted, <3>3, <3>4, <3>5 DEF Places
  <2>8. CASE ~ \E b \in Batch : k \in Local(b)
    <3>1. Cardinality(Queued(k)) = 0 /\ Cardinality(Forked(k)) = 0 /\ Cardinality(Carried(k)) = 0
      BY PlacesCounted, <2>8 DEF Local
    <3> QED  BY PlacesCounted, <3>1 DEF Places, Apart
  <2> QED  BY <2>7, <2>8
<1>2. \A b, c \in Batch : pc[b] = "take" =>
         hand[b] \in parked \ open /\ (b # c => hand[b] # hand[c])
  <2> SUFFICES ASSUME NEW b \in Batch, NEW c \in Batch, pc[b] = "take", b # c, hand[b] = hand[c]
               PROVE  FALSE
    BY DEF Tasks
  <2>1. hand[b] \in parked /\ pc[c] \notin {"wait", "enqueue", "take"}
    BY DEF Tasks
  <2>2. pc[c] \notin OwnPC
    BY <2>1 DEF Own, Apart, Local
  <2>3. hand[c] # NoToken /\ pc[c] \in PC
    BY DEF TypeOK
  <2> QED  BY <2>1, <2>2, <2>3 DEF TypeOK
<1> QED  BY <1>1, <1>2 DEF OneTokenOnePlace, Tasks

\* The invariant holds in every reachable state.
LEMMA IInvCorrect == Spec => []IInv
  BY InitIInv, NextIInv, PTL DEF Spec

\* Type correctness: token numbers, flags of registered tokens, queues, barriers and
\* the states of run_instance_batch.
THEOREM TokensTyped == Spec => []TypeOK
<1>1. IInv => TypeOK
  BY DEF IInv
<1> QED  BY <1>1, IInvCorrect, PTL

\* Tokens exist in exactly one place at any moment (docs/architecture.md) or are
\* spent, however the batches of run_instance_batch interleave and whatever fails.
THEOREM OnePlaceAlways == Spec => []OneTokenOnePlace
  BY IInvOnePlace, IInvCorrect, PTL
=============================================================================
