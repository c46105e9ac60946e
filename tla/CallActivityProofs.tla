------------------------- MODULE CallActivityProofs -------------------------
(***************************************************************************)
(* Proofs about CallActivity: whatever definitions call each other and     *)
(* however their batches nest, no token of a caller or a called instance   *)
(* is lost or copied unseen, and no parent waits for a child that is over. *)
(***************************************************************************)
EXTENDS CallActivity, SequenceTheorems, FiniteSetTheorems, WellFoundedInduction, TLAPS

FrameType == [i : Id, queue : Seq(Branch), pc : PC, branch : Branch \cup {NoBranch},
              called : Branch \cup {NoBranch}, callee : Def \cup {NoDef},
              child : Id \cup {NoInst}]
Below   == {"spawned", "archive"}
Emptied == {"deliver", "resume", "archive", "wedged"}

Typed ==
  /\ inst \in [Id -> Instance \cup {NoInst}]
  /\ stack \in [Call -> Seq(FrameType)]
  /\ \E n \in 0..MaxInst : Born = 1..n
  /\ dropped \subseteq Born \X Branch /\ excused \subseteq Id

\* What holds of an instance, of a batch and of the batches below another one.
InstOk(i) ==
  /\ inst[i].parent \in Born \cup {NoInst}
  /\ inst[i].previous \notin {"Completed", "Error"}
  /\ inst[i].parked \subseteq Branches(i)
  /\ \A b \in Branches(i) : inst[i].at[b] <= Len(Plan[inst[i].def][b])
  /\ \A b \in inst[i].parked : NodeOf(i, b).kind = "task"
  /\ HoldsToken(i) => inst[i].held \in Branches(i) /\ NodeOf(i, inst[i].held).kind = "call"
FrameOk(f) ==
  /\ f.i \in Born
  /\ \A m \in 1..Len(f.queue) : f.queue[m] \in Branches(f.i)
  /\ \A m, n \in 1..Len(f.queue) : f.queue[m] = f.queue[n] => m = n
  /\ f.pc \in Emptied => f.queue = <<>>
  /\ f.pc = "spawn" => f.callee \in Def
  /\ f.pc = "resume" => /\ inst[f.i].parent \in Born
                        /\ f.branch \in Branches(inst[f.i].parent)
                        /\ NodeOf(inst[f.i].parent, f.branch).kind = "call"
Instances == \A i \in Born : InstOk(i)
Frames ==
  \A c \in Call : \A k \in 1..Len(stack[c]) :
    FrameOk(stack[c][k]) /\ (k < Len(stack[c]) => stack[c][k].pc \in Below)

\* A token is in one place, or dropped.
Hand(c, k, i, b) == c \in Call /\ k \in 1..Len(stack[c]) /\ Carries(stack[c][k], i, b)
InAHand(i, b)    == \E c \in Call, k \in Nat : Hand(c, k, i, b)
Held(i, b)       == HoldsToken(i) /\ inst[i].held = b
OneHand(i, b)    == \A c, d \in Call : \A j, k \in Nat :
                      Hand(c, j, i, b) /\ Hand(d, k, i, b) => c = d /\ j = k
OnePlace(i, b) ==
  /\ <<i, b>> \in dropped \/ b \in inst[i].parked \/ b \in inst[i].ended \/ Held(i, b) \/ InAHand(i, b)
  /\ <<i, b>> \in dropped => b \notin inst[i].parked /\ b \notin inst[i].ended /\ ~Held(i, b) /\ ~InAHand(i, b)
  /\ b \in inst[i].parked => b \notin inst[i].ended /\ ~Held(i, b) /\ ~InAHand(i, b)
  /\ b \in inst[i].ended => ~Held(i, b) /\ ~InAHand(i, b)
  /\ Held(i, b) => ~InAHand(i, b)
  /\ OneHand(i, b)
Places == \A i \in Born : \A b \in Branches(i) : OnePlace(i, b)

IInv == Typed /\ Instances /\ Frames /\ Places

----------------------------------------------------------------------------
\* The store: its instances are records of their own type.
LEMMA BornIs ==
  ASSUME Typed
  PROVE  Born \subseteq Id /\ \A i \in Id : i \in Born <=> inst[i] \in Instance
  BY NullAssumption DEF Typed, Born

\* The branches of a definition, and its nodes.
LEMMA Plans ==
  ASSUME NEW d \in Def
  PROVE  /\ DOMAIN Plan[d] \subseteq Branch
         /\ AllBranches(d) \in Seq(Branch) /\ AllBranches(d) # <<>>
         /\ Len(AllBranches(d)) = Len(Plan[d]) /\ Len(Plan[d]) \in Nat
         /\ DOMAIN Plan[d] = 1..Len(Plan[d])
         /\ \A m \in 1..Len(Plan[d]) : AllBranches(d)[m] = m
         /\ \A b \in DOMAIN Plan[d] : /\ Len(Plan[d][b]) \in Nat \ {0}
                                      /\ Plan[d][b][Len(Plan[d][b])].kind \in {"end", "error"}
<1>1. DOMAIN Plan[d] \subseteq Branch
  BY DEF Branch
<1>2. Len(Plan[d]) \in Nat \ {0} /\ DOMAIN Plan[d] = 1..Len(Plan[d])
  BY PlanAssumption DEF NonEmptySeq
<1>3. AllBranches(d) = [b \in 1..Len(Plan[d]) |-> b]
  BY <1>2 DEF AllBranches
<1>4. AllBranches(d) \in Seq(Branch)
  BY <1>1, <1>2, <1>3
<1>5. Len(AllBranches(d)) = Len(Plan[d])
  BY <1>2, <1>3, <1>4
<1>6. \A b \in DOMAIN Plan[d] : /\ Len(Plan[d][b]) \in Nat \ {0}
                                /\ Plan[d][b][Len(Plan[d][b])].kind \in {"end", "error"}
  BY PlanAssumption DEF NonEmptySeq
<1> QED  BY <1>1, <1>2, <1>3, <1>4, <1>5, <1>6

LEMMA BranchesAre ==
  ASSUME Typed, NEW i \in Born
  PROVE  Branches(i) \subseteq Branch
<1>1. inst[i].def \in Def
  BY BornIs DEF Instance
<1> QED  BY <1>1, Plans DEF Branches

LEMMA NextIsNew ==
  ASSUME Typed, NextId \in Id
  PROVE  NextId \notin Born /\ \E n \in 0..MaxInst : Born \cup {NextId} = 1..n
<1>1. PICK n \in 0..MaxInst : Born = 1..n
  BY DEF Typed
<1>2. Cardinality(Born) = n
  BY <1>1, FS_Interval, RootAssumption
<1>3. NextId = n + 1
  BY <1>2 DEF NextId
<1> QED  BY <1>1, <1>3, RootAssumption DEF Id

LEMMA NewIsInstance ==
  ASSUME NEW d \in Def, NEW p \in Id \cup {NoInst}
  PROVE  NewInstance(d, p) \in Instance
  BY DEF NewInstance, Instance, State

----------------------------------------------------------------------------
(***************************************************************************)
(* The stacks.  A step leaves the first k batches of one stack, and puts   *)
(* none, one or two batches on top of them.                                *)
(***************************************************************************)
Kept(c, k) ==
  /\ stack' \in [Call -> Seq(FrameType)]
  /\ \A d \in Call \ {c} : stack'[d] = stack[d]
  /\ k \in 0..Len(stack[c])
  /\ \A j \in 1..k : stack'[c][j] = stack[c][j]
Cut(c, k)          == Kept(c, k) /\ Len(stack'[c]) = k
CutAdd(c, k, f)    == Kept(c, k) /\ Len(stack'[c]) = k + 1 /\ stack'[c][k + 1] = f
CutNest(c, k, f, g) == /\ Kept(c, k) /\ Len(stack'[c]) = k + 2
                       /\ stack'[c][k + 1] = f /\ stack'[c][k + 2] = g

LEMMA FrontIs ==
  ASSUME NEW S, NEW s \in Seq(S), s # <<>>
  PROVE  /\ Len(s) \in Nat \ {0} /\ Front(s) \in Seq(S) /\ Len(Front(s)) = Len(s) - 1
         /\ \A j \in 1..(Len(s) - 1) : Front(s)[j] = s[j]
<1>1. Len(s) \in Nat \ {0} /\ \A j \in 1..Len(s) : s[j] \in S
  BY EmptySeq, ElementOfSeq
<1>2. PICK m \in Nat : m = Len(s) - 1
  BY <1>1
<1>3. PICK t : t = SubSeq(s, 1, m)
  OBVIOUS
<1>4. t \in Seq(S) /\ Len(t) = m /\ \A j \in 1..m : t[j] = s[j]
  <2>1. \A j \in 1..m : s[j] \in S
    BY <1>1, <1>2
  <2>2. t \in Seq(S)
    BY <2>1, <1>3, SubSeqProperties, 1 \in Int, m \in Int
  <2>3. Len(t) = m /\ \A j \in 1..m : t[j] = s[j]
    BY <2>1, <1>3
  <2> QED  BY <2>2, <2>3
<1> QED  BY <1>1, <1>2, <1>3, <1>4 DEF Front

LEMMA PushedIs ==
  \A s \in Seq(FrameType), f \in FrameType :
    \E u \in Seq(FrameType) : /\ u = Append(s, f) /\ Len(u) = Len(s) + 1 /\ u[Len(s) + 1] = f
                             /\ \A j \in 1..Len(s) : u[j] = s[j]
<1>1. SUFFICES ASSUME NEW s \in Seq(FrameType), NEW f \in FrameType
      PROVE  \E u \in Seq(FrameType) :
               /\ u = Append(s, f) /\ Len(u) = Len(s) + 1 /\ u[Len(s) + 1] = f
               /\ \A j \in 1..Len(s) : u[j] = s[j]
  OBVIOUS
<1>2. /\ Append(s, f) \in Seq(FrameType) /\ Len(Append(s, f)) = Len(s) + 1
      /\ Append(s, f)[Len(s) + 1] = f
      /\ \A j \in 1..Len(s) : Append(s, f)[j] = s[j]
  BY AppendProperties
<1> QED  BY <1>2

LEMMA TopIs ==
  ASSUME Typed, NEW c \in Call, stack[c] # <<>>
  PROVE  /\ Len(stack[c]) \in Nat \ {0}
         /\ Top(c) = stack[c][Len(stack[c])] /\ Top(c) \in FrameType
<1>1. stack[c] \in Seq(FrameType)
  BY DEF Typed
<1> QED  BY <1>1, EmptySeq, ElementOfSeq DEF Top, Last

LEMMA ReplaceIs ==
  ASSUME Typed, NEW c \in Call, stack[c] # <<>>, NEW f \in FrameType, Replace(c, f)
  PROVE  CutAdd(c, Len(stack[c]) - 1, f)
<1>1. stack[c] \in Seq(FrameType)
  BY DEF Typed
<1>2. PICK t \in Seq(FrameType) :
        /\ t = Front(stack[c]) /\ Len(t) = Len(stack[c]) - 1 /\ Len(stack[c]) \in Nat \ {0}
        /\ \A j \in 1..(Len(stack[c]) - 1) : t[j] = stack[c][j]
  BY <1>1, FrontIs
<1>3. /\ Append(t, f) \in Seq(FrameType) /\ Len(Append(t, f)) = Len(stack[c])
      /\ Append(t, f)[Len(stack[c])] = f
      /\ \A j \in 1..(Len(stack[c]) - 1) : Append(t, f)[j] = stack[c][j]
  BY <1>2, AppendProperties
<1>4. stack' = [stack EXCEPT ![c] = Append(t, f)]
  BY <1>2 DEF Replace
<1> QED  BY <1>2, <1>3, <1>4 DEF Typed, CutAdd, Kept

LEMMA NestIs ==
  ASSUME Typed, NEW c \in Call, stack[c] # <<>>,
         NEW f \in FrameType, NEW g \in FrameType, Nest(c, f, g)
  PROVE  CutNest(c, Len(stack[c]) - 1, f, g)
<1>1. stack[c] \in Seq(FrameType)
  BY DEF Typed
<1>2. PICK t \in Seq(FrameType) :
        /\ t = Front(stack[c]) /\ Len(t) = Len(stack[c]) - 1 /\ Len(stack[c]) \in Nat \ {0}
        /\ \A j \in 1..(Len(stack[c]) - 1) : t[j] = stack[c][j]
  BY <1>1, FrontIs
<1>3. PICK t1 \in Seq(FrameType) :
        /\ t1 = Append(t, f) /\ Len(t1) = Len(t) + 1 /\ t1[Len(t) + 1] = f
        /\ \A j \in 1..Len(t) : t1[j] = t[j]
  BY <1>2, PushedIs
<1>4. PICK t2 \in Seq(FrameType) :
        /\ t2 = Append(t1, g) /\ Len(t2) = Len(t1) + 1 /\ t2[Len(t1) + 1] = g
        /\ \A j \in 1..Len(t1) : t2[j] = t1[j]
  BY <1>3, PushedIs, Zenon
<1>5. stack' = [stack EXCEPT ![c] = t2]
  BY <1>2, <1>3, <1>4 DEF Nest
<1> QED  BY <1>2, <1>3, <1>4, <1>5 DEF Typed, CutNest, Kept

LEMMA PopIs ==
  ASSUME Typed, NEW c \in Call, stack[c] # <<>>, Pop(c)
  PROVE  Cut(c, Len(stack[c]) - 1)
<1>1. stack[c] \in Seq(FrameType)
  BY DEF Typed
<1>2. PICK t \in Seq(FrameType) :
        /\ t = Front(stack[c]) /\ Len(t) = Len(stack[c]) - 1 /\ Len(stack[c]) \in Nat \ {0}
        /\ \A j \in 1..(Len(stack[c]) - 1) : t[j] = stack[c][j]
  BY <1>1, FrontIs
<1>3. stack' = [stack EXCEPT ![c] = t]
  BY <1>2 DEF Pop
<1> QED  BY <1>2, <1>3 DEF Typed, Cut, Kept

LEMMA OpenIs ==
  ASSUME Typed, NEW c \in Call, NEW g \in FrameType, stack' = [stack EXCEPT ![c] = <<g>>]
  PROVE  CutAdd(c, 0, g)
<1>1. <<g>> \in Seq(FrameType) /\ Len(<<g>>) = 1 /\ <<g>>[1] = g
  OBVIOUS
<1>2. stack[c] \in Seq(FrameType) /\ Len(stack[c]) \in Nat
  BY LenProperties DEF Typed
<1> QED  BY <1>1, <1>2 DEF Typed, CutAdd, Kept

\* A set of numbers below a bound has its greatest member.
LEMMA MaxIs ==
  ASSUME NEW n \in Nat, NEW S \in SUBSET (1..n), S # {}
  PROVE  Max(S) \in S /\ \A x \in S : x <= Max(S)
<1> DEFINE Below_n == {n - x : x \in S}
<1>0. \A x \in S : x \in Nat /\ n - x \in Nat
  OBVIOUS
<1>1. Below_n \subseteq Nat /\ Below_n # {}
  BY <1>0
<1>2. PICK t \in Below_n : \A u \in Below_n : <<u, t>> \notin OpToRel(<, Nat)
  BY <1>1, NatLessThanWellFounded, WFMin
<1>3. \A u \in Below_n : ~(u < t)
  BY <1>1, <1>2 DEF OpToRel
<1>4. PICK m \in S : t = n - m
  OBVIOUS
<1>5. ASSUME NEW x \in S PROVE x <= m
  <2>1. n - x \in Below_n
    OBVIOUS
  <2>2. ~(n - x < n - m)
    BY <2>1, <1>3, <1>4
  <2> QED  BY <2>2
<1> HIDE DEF Below_n
<1> QED  BY <1>5 DEF Max

LEMMA SettledIs ==
  ASSUME NEW f \in FrameType
  PROVE  /\ Settled(f) \in FrameType /\ Settled(f).i = f.i /\ Settled(f).queue = f.queue
         /\ Settled(f).pc = "run"
  BY DEF Settled, FrameType, PC

\* An error that is handed down ends at the highest batch that spawned a child.
LEMMA UnwoundIs ==
  ASSUME Typed, NEW c \in Call, stack[c] # <<>>,
         stack' = [stack EXCEPT ![c] = Unwound(Front(@))]
  PROVE  \/ Cut(c, 0) /\ \A j \in 1..(Len(stack[c]) - 1) : stack[c][j].pc # "spawned"
         \/ \E k \in 1..(Len(stack[c]) - 1) :
              /\ stack[c][k].pc = "spawned" /\ CutAdd(c, k - 1, Settled(stack[c][k]))
              /\ \A j \in 1..(Len(stack[c]) - 1) : stack[c][j].pc = "spawned" => j <= k
<1>1. stack[c] \in Seq(FrameType)
  BY DEF Typed
<1>2. PICK t \in Seq(FrameType) :
        /\ t = Front(stack[c]) /\ Len(t) = Len(stack[c]) - 1 /\ Len(stack[c]) \in Nat \ {0}
        /\ \A j \in 1..(Len(stack[c]) - 1) : t[j] = stack[c][j]
  BY <1>1, FrontIs
<1>3. PICK spawners : spawners = {k \in DOMAIN t : t[k].pc = "spawned"}
  OBVIOUS
<1>4. DOMAIN t = 1..(Len(stack[c]) - 1)
  BY <1>2, LenProperties
<1>5. CASE spawners = {}
  <2>1. Unwound(t) = <<>>
    BY <1>3, <1>5 DEF Unwound
  <2>2. <<>> \in Seq(FrameType) /\ Len(<<>>) = 0
    OBVIOUS
  <2>3. Cut(c, 0)
    BY <1>2, <2>1, <2>2 DEF Typed, Cut, Kept
  <2>4. \A j \in 1..(Len(stack[c]) - 1) : stack[c][j].pc # "spawned"
    BY <1>2, <1>3, <1>4, <1>5
  <2> QED  BY <2>3, <2>4
<1>6. CASE spawners # {}
  <2>1. PICK k \in 1..(Len(stack[c]) - 1) :
          k = Max(spawners) /\ k \in spawners /\ \A x \in spawners : x <= k
    <3>1. Len(stack[c]) - 1 \in Nat /\ spawners \in SUBSET (1..(Len(stack[c]) - 1))
      BY <1>2, <1>3, <1>4
    <3>2. Max(spawners) \in spawners /\ \A x \in spawners : x <= Max(spawners)
      BY <3>1, <1>6, MaxIs
    <3> QED  BY <3>1, <3>2
  <2>2. t[k] = stack[c][k] /\ t[k].pc = "spawned" /\ Settled(t[k]) \in FrameType
    BY <1>2, <1>3, <2>1, ElementOfSeq, SettledIs
  <2>3. PICK low \in Seq(FrameType) :
          /\ low = SubSeq(t, 1, k - 1) /\ Len(low) = k - 1
          /\ \A j \in 1..(k - 1) : low[j] = t[j]
    <3>1. PICK m \in Nat : m = k - 1 /\ m <= Len(t)
      BY <1>2, <2>1
    <3>2. \A j \in 1..m : t[j] \in FrameType
      BY <1>2, <3>1, ElementOfSeq
    <3>3. SubSeq(t, 1, m) \in Seq(FrameType)
      BY <3>2, SubSeqProperties, 1 \in Int, m \in Int
    <3>4. Len(SubSeq(t, 1, m)) = m /\ \A j \in 1..m : SubSeq(t, 1, m)[j] = t[j]
      BY <3>2
    <3> QED  BY <3>1, <3>3, <3>4
  <2>4. PICK u \in Seq(FrameType) :
          /\ u = Append(low, Settled(t[k])) /\ Len(u) = Len(low) + 1
          /\ u[Len(low) + 1] = Settled(t[k])
          /\ \A j \in 1..Len(low) : u[j] = low[j]
    BY <2>2, <2>3, PushedIs
  <2>5. Unwound(t) = u
    BY <1>3, <1>6, <2>1, <2>3, <2>4 DEF Unwound
  <2>6. stack' = [stack EXCEPT ![c] = u]
    BY <1>2, <2>5
  <2>7. CutAdd(c, k - 1, Settled(stack[c][k]))
    <3>1. Len(u) = k /\ u[k] = Settled(stack[c][k])
      BY <2>1, <2>2, <2>3, <2>4
    <3>2. \A j \in 1..(k - 1) : u[j] = stack[c][j]
      BY <1>2, <2>1, <2>3, <2>4
    <3>3. /\ stack' \in [Call -> Seq(FrameType)] /\ stack'[c] = u
          /\ \A d \in Call \ {c} : stack'[d] = stack[d]
      BY <2>4, <2>6 DEF Typed
    <3>4. k - 1 \in 0..Len(stack[c]) /\ k - 1 + 1 = k
      BY <1>2, <2>1
    <3> QED  BY <3>1, <3>2, <3>3, <3>4 DEF CutAdd, Kept
  <2>8. ASSUME NEW j \in 1..(Len(stack[c]) - 1), stack[c][j].pc = "spawned" PROVE j <= k
    <3>1. t[j] = stack[c][j]
      BY <1>2
    <3>2. j \in spawners
      BY <1>3, <1>4, <2>8, <3>1
    <3> QED  BY <2>1, <3>2
  <2> QED  BY <2>1, <2>2, <2>7, <2>8
<1> QED  BY <1>5, <1>6

----------------------------------------------------------------------------
(***************************************************************************)
(* What a step leaves of the batches and of what they carry.               *)
(***************************************************************************)
Lasting ==
  /\ Born \subseteq Born'
  /\ \A i \in Born : inst'[i].def = inst[i].def /\ inst'[i].parent = inst[i].parent
SameAt(i, b) == inst'[i].at[b] = inst[i].at[b]
Above(c, k, i, b) == \E j \in Nat : j > k /\ Hand(c, j, i, b)

LEMMA FrameKept ==
  ASSUME Lasting, NEW f, FrameOk(f), f.pc = "resume" => SameAt(inst[f.i].parent, f.branch)
  PROVE  FrameOk(f)'
<1>1. /\ f.i \in Born' /\ Branches(f.i)' = Branches(f.i)
  BY DEF FrameOk, Lasting, Branches
<1>2. CASE f.pc # "resume"
  BY <1>1, <1>2 DEF FrameOk
<1>3. CASE f.pc = "resume"
  <2>1. PICK p, b : p = inst[f.i].parent /\ b = f.branch /\ p \in Born /\ b \in Branches(p)
                    /\ NodeOf(p, b).kind = "call"
    BY <1>3 DEF FrameOk
  <2>2. inst'[f.i].parent = p /\ p \in Born' /\ inst'[p].def = inst[p].def
    BY <2>1 DEF FrameOk, Lasting
  <2>3. inst'[p].at[b] = inst[p].at[b]
    BY <1>3, <2>1 DEF SameAt
  <2>4. Branches(p)' = Branches(p) /\ NodeOf(p, b)' = NodeOf(p, b)
    BY <2>2, <2>3 DEF Branches, NodeOf
  <2>5. NodeOf(p, b)'.kind = "call" /\ b \in Branches(p)'
    BY <2>1, <2>4
  <2> QED  BY <1>1, <1>3, <2>1, <2>2, <2>5 DEF FrameOk
<1> QED  BY <1>2, <1>3

LEMMA CarriesKept ==
  ASSUME Lasting, NEW f, f.i \in Born, NEW i, NEW b
  PROVE  Carries(f, i, b)' <=> Carries(f, i, b)
  BY DEF Lasting, Carries

LEMMA FramesAfter ==
  ASSUME Typed, Frames, Lasting, NEW c \in Call, NEW k \in Nat, Kept(c, k),
         \A d \in Call : \A j \in 1..Len(stack[d]) :
           (d # c \/ j <= k) /\ stack[d][j].pc = "resume"
             => SameAt(inst[stack[d][j].i].parent, stack[d][j].branch),
         \/ Cut(c, k)
         \/ \E f \in FrameType : /\ CutAdd(c, k, f) /\ FrameOk(f)'
                                 /\ k = 0 \/ k < Len(stack[c])
         \/ \E f, g \in FrameType : /\ CutNest(c, k, f, g) /\ FrameOk(f)' /\ FrameOk(g)'
                                    /\ f.pc \in Below /\ k < Len(stack[c])
  PROVE  Frames'
<1> SUFFICES ASSUME NEW d \in Call, NEW j \in 1..Len(stack'[d]), NEW h, h = stack'[d][j]
    PROVE  FrameOk(h)' /\ (j < Len(stack'[d]) => h.pc \in Below)
  BY DEF Frames
<1>1. /\ stack \in [Call -> Seq(FrameType)] /\ stack' \in [Call -> Seq(FrameType)]
      /\ Len(stack[d]) \in Nat /\ Len(stack'[d]) \in Nat /\ Len(stack[c]) \in Nat
  BY LenProperties DEF Typed, Kept
<1>2. CASE d # c
  <2>1. stack'[d] = stack[d] /\ h = stack[d][j] /\ j \in 1..Len(stack[d])
    BY <1>2 DEF Kept
  <2>2. FrameOk(h) /\ (j < Len(stack[d]) => h.pc \in Below)
    BY <2>1 DEF Frames
  <2> QED  BY <1>2, <2>1, <2>2, FrameKept
<1>3. CASE d = c /\ j <= k
  <2>1. h = stack[c][j] /\ j \in 1..Len(stack[c])
    BY <1>1, <1>3 DEF Kept
  <2>2. FrameOk(h) /\ (j < Len(stack[c]) => h.pc \in Below)
    BY <2>1 DEF Frames
  <2>3. FrameOk(h)'
    BY <1>3, <2>1, <2>2, FrameKept
  <2>4. ASSUME j < Len(stack'[d]) PROVE h.pc \in Below
    <3>1. k = 0 \/ k < Len(stack[c]) \/ (Len(stack'[c]) = k /\ k \in 0..Len(stack[c]))
      BY DEF Cut, CutAdd, CutNest, Kept
    <3>2. j < Len(stack[c])
      BY <1>1, <1>3, <2>4, <3>1
    <3> QED  BY <2>2, <3>2
  <2> QED  BY <2>3, <2>4
<1>4. CASE d = c /\ ~(j <= k)
  BY <1>1, <1>4 DEF Cut, CutAdd, CutNest
<1> QED  BY <1>2, <1>3, <1>4

LEMMA HandsAfter ==
  ASSUME Typed, Frames, Lasting, NEW c \in Call, NEW k \in Nat, Kept(c, k), k <= Len(stack'[c]),
         NEW i, NEW b, OneHand(i, b),
         \A j, l \in Nat : j > k /\ l > k /\ Hand(c, j, i, b)' /\ Hand(c, l, i, b)' => j = l,
         Above(c, k, i, b)' => ~InAHand(i, b) \/ Above(c, k, i, b)
  PROVE  /\ OneHand(i, b)'
         /\ InAHand(i, b)' <=> Above(c, k, i, b)' \/ (InAHand(i, b) /\ ~Above(c, k, i, b))
<1>1. /\ stack \in [Call -> Seq(FrameType)] /\ stack' \in [Call -> Seq(FrameType)]
      /\ \A d \in Call : Len(stack[d]) \in Nat /\ Len(stack'[d]) \in Nat
  BY LenProperties DEF Typed, Kept
<1>2. ASSUME NEW d \in Call, NEW j \in Nat, d # c \/ j <= k
      PROVE  Hand(d, j, i, b)' <=> Hand(d, j, i, b)
  <2>1. CASE j \in 1..Len(stack[d])
    <3>1. PICK h : h = stack[d][j]
      OBVIOUS
    <3>2. h.i \in Born
      BY <2>1, <3>1 DEF Frames, FrameOk
    <3>3. stack'[d][j] = h /\ j \in 1..Len(stack'[d])
      BY <1>1, <1>2, <2>1, <3>1 DEF Kept
    <3>4. Carries(h, i, b)' <=> Carries(h, i, b)
      BY <3>2, CarriesKept
    <3> QED  BY <2>1, <3>1, <3>3, <3>4 DEF Hand
  <2>2. CASE j \notin 1..Len(stack[d])
    <3>1. j \notin 1..Len(stack'[d])
      BY <1>1, <1>2, <2>2 DEF Kept
    <3> QED  BY <2>2, <3>1 DEF Hand
  <2> QED  BY <2>1, <2>2
<1>3. OneHand(i, b)'
  <2> SUFFICES ASSUME NEW d \in Call, NEW e \in Call, NEW j \in Nat, NEW l \in Nat,
                      Hand(d, j, i, b)', Hand(e, l, i, b)'
      PROVE  d = e /\ j = l
    BY DEF OneHand
  <2>1. CASE (d # c \/ j <= k) /\ (e # c \/ l <= k)
    BY <1>2, <2>1 DEF OneHand
  <2>2. CASE d = c /\ j > k /\ e = c /\ l > k
    BY <2>2
  <2>3. CASE d = c /\ j > k /\ (e # c \/ l <= k)
    <3>1. Hand(e, l, i, b) /\ Above(c, k, i, b)'
      BY <1>2, <2>3 DEF Above
    <3>2. Above(c, k, i, b)
      BY <3>1 DEF InAHand
    <3> QED  BY <2>3, <3>1, <3>2 DEF OneHand, Above
  <2>4. CASE e = c /\ l > k /\ (d # c \/ j <= k)
    <3>1. Hand(d, j, i, b) /\ Above(c, k, i, b)'
      BY <1>2, <2>4 DEF Above
    <3>2. Above(c, k, i, b)
      BY <3>1 DEF InAHand
    <3> QED  BY <2>4, <3>1, <3>2 DEF OneHand, Above
  <2> QED  BY <2>1, <2>2, <2>3, <2>4
<1>4. InAHand(i, b)' => Above(c, k, i, b)' \/ (InAHand(i, b) /\ ~Above(c, k, i, b))
  <2> SUFFICES ASSUME NEW d \in Call, NEW j \in Nat, Hand(d, j, i, b)', ~Above(c, k, i, b)'
      PROVE  InAHand(i, b) /\ ~Above(c, k, i, b)
    BY DEF InAHand
  <2>1. d # c \/ j <= k
    BY DEF Above
  <2>2. Hand(d, j, i, b)
    BY <1>2, <2>1
  <2> QED  BY <2>1, <2>2 DEF InAHand, Above, OneHand
<1>5. ASSUME Above(c, k, i, b)' PROVE InAHand(i, b)'
  BY <1>5 DEF Above, InAHand
<1>6. ASSUME InAHand(i, b), ~Above(c, k, i, b) PROVE InAHand(i, b)'
  <2>1. PICK d \in Call, j \in Nat : Hand(d, j, i, b)
    BY <1>6 DEF InAHand
  <2>2. d # c \/ j <= k
    BY <1>6, <2>1 DEF Above
  <2>3. Hand(d, j, i, b)'
    BY <1>2, <2>1, <2>2
  <2> QED  BY <2>3 DEF InAHand
<1> QED  BY <1>3, <1>4, <1>5, <1>6

\* What lies above the batches a step keeps, before and after it.
LEMMA AboveTop ==
  ASSUME Typed, NEW c \in Call, stack[c] # <<>>, NEW i, NEW b
  PROVE  Above(c, Len(stack[c]) - 1, i, b) <=> Carries(Top(c), i, b)
<1>1. Len(stack[c]) \in Nat \ {0} /\ Top(c) = stack[c][Len(stack[c])]
  BY TopIs
<1> QED  BY <1>1 DEF Above, Hand

LEMMA AboveCut ==
  ASSUME NEW c \in Call, NEW k \in Nat, Cut(c, k), NEW i, NEW b
  PROVE  ~Above(c, k, i, b)'
  BY DEF Above, Hand, Cut

LEMMA AboveAdd ==
  ASSUME NEW c \in Call, NEW k \in Nat, NEW f, CutAdd(c, k, f), NEW i, NEW b
  PROVE  /\ Above(c, k, i, b)' <=> Carries(f, i, b)'
         /\ \A j, l \in Nat : j > k /\ l > k /\ Hand(c, j, i, b)' /\ Hand(c, l, i, b)' => j = l
  BY DEF Above, Hand, CutAdd

LEMMA AboveNest ==
  ASSUME NEW c \in Call, NEW k \in Nat, NEW f, NEW g, CutNest(c, k, f, g), NEW i, NEW b
  PROVE  /\ Above(c, k, i, b)' <=> Carries(f, i, b)' \/ Carries(g, i, b)'
         /\ ~(Carries(f, i, b)' /\ Carries(g, i, b)') =>
            \A j, l \in Nat : j > k /\ l > k /\ Hand(c, j, i, b)' /\ Hand(c, l, i, b)' => j = l
<1>1. \A j \in Nat : j > k /\ Hand(c, j, i, b)' =>
        \/ j = k + 1 /\ Carries(f, i, b)'
        \/ j = k + 2 /\ Carries(g, i, b)'
  BY DEF Hand, CutNest
<1>2. Carries(f, i, b)' => Hand(c, k + 1, i, b)'
  BY DEF Hand, CutNest
<1>3. Carries(g, i, b)' => Hand(c, k + 2, i, b)'
  BY DEF Hand, CutNest
<1>4. k + 1 \in Nat /\ k + 2 \in Nat /\ k + 1 > k /\ k + 2 > k
  OBVIOUS
<1>5. Above(c, k, i, b)' <=> Carries(f, i, b)' \/ Carries(g, i, b)'
  BY <1>1, <1>2, <1>3, <1>4 DEF Above
<1> QED  BY <1>1, <1>5

\* A queue gives its first token away.
LEMMA HeadIs ==
  ASSUME NEW S, NEW q \in Seq(S), q # <<>>, \A m, n \in 1..Len(q) : q[m] = q[n] => m = n
  PROVE  /\ Head(q) \in S /\ Tail(q) \in Seq(S) /\ Len(q) \in Nat \ {0} /\ Head(q) = q[1]
         /\ \A m \in 1..Len(Tail(q)) : m + 1 \in 1..Len(q) /\ Tail(q)[m] = q[m + 1]
         /\ \A m, n \in 1..Len(Tail(q)) : Tail(q)[m] = Tail(q)[n] => m = n
         /\ \A b : b \in Range(Tail(q)) <=> b \in Range(q) /\ b # Head(q)
<1>1. Len(q) \in Nat \ {0} /\ Head(q) = q[1] /\ Head(q) \in S
  BY EmptySeq, HeadTailProperties
<1>2. /\ Tail(q) \in Seq(S) /\ Len(Tail(q)) = Len(q) - 1
      /\ \A m \in 1..Len(Tail(q)) : Tail(q)[m] = q[m + 1]
  BY HeadTailProperties
<1>3. \A m \in 1..Len(Tail(q)) : m + 1 \in 1..Len(q) /\ Tail(q)[m] = q[m + 1]
  BY <1>1, <1>2
<1>4. \A m, n \in 1..Len(Tail(q)) : Tail(q)[m] = Tail(q)[n] => m = n
  BY <1>3, <1>1
<1>5. DOMAIN q = 1..Len(q) /\ DOMAIN Tail(q) = 1..Len(Tail(q))
  BY <1>2, LenProperties
<1>6. \A m \in 1..Len(q) : m = 1 \/ (m - 1 \in 1..Len(Tail(q)) /\ Tail(q)[m - 1] = q[m])
  BY <1>1, <1>2
<1>7. \A b : b \in Range(Tail(q)) => b \in Range(q) /\ b # Head(q)
  BY <1>1, <1>3, <1>5 DEF Range
<1>8. \A b : b \in Range(q) /\ b # Head(q) => b \in Range(Tail(q))
  <2> SUFFICES ASSUME NEW m \in 1..Len(q), q[m] # Head(q) PROVE q[m] \in Range(Tail(q))
    BY <1>5 DEF Range
  <2>1. m - 1 \in 1..Len(Tail(q)) /\ Tail(q)[m - 1] = q[m]
    BY <1>1, <1>6
  <2> QED  BY <1>5, <2>1 DEF Range
<1> QED  BY <1>1, <1>2, <1>3, <1>4, <1>7, <1>8

\* The token that goes through a node leaves the hands of its batch.
First(c) == Head(Top(c).queue)
Rest(c)  == Tail(Top(c).queue)

LEMMA SteppingIs ==
  ASSUME IInv, NEW c \in Call, NEW kind, Stepping(c, kind)
  PROVE  /\ stack[c] # <<>> /\ Top(c) \in FrameType /\ FrameOk(Top(c)) /\ Top(c).pc = "run"
         /\ Top(c).i \in Born /\ First(c) \in Branch /\ First(c) \in Branches(Top(c).i)
         /\ NodeOf(Top(c).i, First(c)).kind = kind /\ InAHand(Top(c).i, First(c))
         /\ Popped(c) = [Top(c) EXCEPT !.queue = Rest(c), !.branch = First(c)]
         /\ Rest(c) \in Seq(Branch)
         /\ \A m \in 1..Len(Rest(c)) : Rest(c)[m] \in Branches(Top(c).i)
         /\ \A l, m \in 1..Len(Rest(c)) : Rest(c)[l] = Rest(c)[m] => l = m
         /\ \A y : y \in Range(Rest(c)) <=> y \in Range(Top(c).queue) /\ y # First(c)
         /\ First(c) \in Range(Top(c).queue)
<1>0. PICK f, q, b, rest : /\ f = Top(c) /\ q = f.queue /\ b = Head(q) /\ rest = Tail(q)
                           /\ b = First(c) /\ rest = Rest(c)
  BY DEF First, Rest
<1>1. stack[c] # <<>> /\ f.pc = "run" /\ q # <<>>
  BY <1>0 DEF Stepping, At
<1>2. /\ f \in FrameType /\ Len(stack[c]) \in Nat \ {0} /\ f = stack[c][Len(stack[c])]
  BY <1>0, <1>1, TopIs DEF IInv
<1>3. FrameOk(f)
  BY <1>0, <1>2 DEF IInv, Frames
<1>4. q \in Seq(Branch)
  BY <1>0, <1>2 DEF FrameType
<1>5. /\ rest \in Seq(Branch) /\ Len(q) \in Nat \ {0} /\ b = q[1] /\ b \in Branch
      /\ \A m \in 1..Len(rest) : m + 1 \in 1..Len(q) /\ rest[m] = q[m + 1]
      /\ \A m, k \in 1..Len(rest) : rest[m] = rest[k] => m = k
      /\ \A y : y \in Range(rest) <=> y \in Range(q) /\ y # b
  BY <1>0, <1>1, <1>3, <1>4, HeadIs DEF FrameOk
<1>6. f.i \in Born /\ \A m \in 1..Len(q) : q[m] \in Branches(f.i)
  BY <1>0, <1>3 DEF FrameOk
<1>7. b \in Branches(f.i) /\ \A m \in 1..Len(rest) : rest[m] \in Branches(f.i)
  BY <1>5, <1>6
<1>8. b \in Range(q)
  BY <1>4, <1>5, LenProperties DEF Range
<1>9. InAHand(f.i, b)
  BY <1>0, <1>2, <1>8 DEF InAHand, Hand, Carries
<1>10. Popped(c) = [f EXCEPT !.queue = rest, !.branch = b]
  BY <1>0 DEF Popped
<1>11. NodeOf(f.i, b).kind = kind
  BY <1>0 DEF Stepping
<1> QED
  BY <1>0, <1>1, <1>2, <1>3, <1>5, <1>6, <1>7, <1>8, <1>9, <1>10, <1>11

\* The hands after the first token of a queue has left them.
LEMMA HandsTaken ==
  ASSUME IInv, Lasting, NEW c \in Call, NEW kind, Stepping(c, kind),
         NEW g \in FrameType, g.i = Top(c).i, g.queue = Rest(c),
         g.pc # "resume", CutAdd(c, Len(stack[c]) - 1, g),
         NEW i \in Born, NEW b \in Branches(i)
  PROVE  OneHand(i, b)' /\ (InAHand(i, b)' <=> InAHand(i, b) /\ ~(i = Top(c).i /\ b = First(c)))
<1>1. /\ stack[c] # <<>> /\ Top(c) \in FrameType /\ Top(c).pc = "run" /\ Top(c).i \in Born
      /\ \A y : y \in Range(Rest(c)) <=> y \in Range(Top(c).queue) /\ y # First(c)
      /\ First(c) \in Range(Top(c).queue)
  BY SteppingIs
<1>2. PICK f, q, x, rest : f = Top(c) /\ q = f.queue /\ x = First(c) /\ rest = Rest(c)
  OBVIOUS
<1>3. PICK k \in Nat : k = Len(stack[c]) - 1 /\ k <= Len(stack'[c])
  BY <1>1, TopIs DEF IInv, CutAdd
<1>4. Above(c, k, i, b) <=> i = f.i /\ b \in Range(q)
  BY <1>1, <1>2, <1>3, AboveTop DEF IInv, Carries
<1>5. Above(c, k, i, b)' <=> Carries(g, i, b)'
  BY <1>3, AboveAdd
<1>6. Carries(g, i, b)' <=> i = f.i /\ b \in Range(q) /\ b # x
  BY <1>1, <1>2 DEF Carries
<1>7. \A j, l \in Nat : j > k /\ l > k /\ Hand(c, j, i, b)' /\ Hand(c, l, i, b)' => j = l
  BY <1>3, AboveAdd
<1>8. OneHand(i, b)
  BY DEF IInv, Places, OnePlace
<1>9. /\ OneHand(i, b)'
      /\ InAHand(i, b)' <=> Above(c, k, i, b)' \/ (InAHand(i, b) /\ ~Above(c, k, i, b))
  BY <1>3, <1>4, <1>5, <1>6, <1>7, <1>8, HandsAfter DEF IInv, CutAdd
<1>10. Above(c, k, i, b) => InAHand(i, b)
  BY DEF Above, InAHand
<1> QED  BY <1>1, <1>2, <1>4, <1>5, <1>6, <1>9, <1>10

----------------------------------------------------------------------------
\* One instance changes; the rest of the store does not.
Elsewhere(t) == \A i \in Born \ {t} : inst'[i] = inst[i]
HandsLose(t, b) ==
  \A i \in Born : \A y \in Branches(i) :
    OneHand(i, y)' /\ (InAHand(i, y)' <=> InAHand(i, y) /\ ~(i = t /\ y = b))

LEMMA OneChanged ==
  ASSUME Typed, NEW t \in Born, NEW r \in Instance, inst' = [inst EXCEPT ![t] = r],
         r.def = inst[t].def, r.parent = inst[t].parent
  PROVE  /\ inst' \in [Id -> Instance \cup {NoInst}] /\ Born' = Born /\ Lasting
         /\ inst'[t] = r /\ Elsewhere(t)
<1>1. inst' \in [Id -> Instance \cup {NoInst}] /\ inst'[t] = r /\ \A i \in Id \ {t} : inst'[i] = inst[i]
  BY BornIs DEF Typed
<1>2. r # NoInst
  BY NullAssumption
<1>3. Born' = Born
  BY <1>1, <1>2 DEF Born
<1> QED  BY <1>1, <1>3, BornIs DEF Lasting, Elsewhere

LEMMA NoneChanged ==
  ASSUME Typed, inst' = inst
  PROVE  inst' \in [Id -> Instance \cup {NoInst}] /\ Born' = Born /\ Lasting
  BY DEF Typed, Born, Lasting

LEMMA InstKept ==
  ASSUME Typed, Lasting, Instances, NEW i \in Born, inst'[i] = inst[i]
  PROVE  InstOk(i)'
<1>1. InstOk(i)
  BY DEF Instances
<1>2. Branches(i)' = Branches(i) /\ HoldsToken(i)' = HoldsToken(i) /\ \A b : NodeOf(i, b)' = NodeOf(i, b)
  BY DEF Branches, HoldsToken, NodeOf
<1> QED  BY <1>1, <1>2 DEF InstOk, Lasting

LEMMA NoQueue ==
  ASSUME NEW f, f.queue = <<>>, f.pc # "resume", NEW i, NEW b
  PROVE  ~Carries(f, i, b)
  BY DEF Carries, Range

\* The tokens of an instance that does not exist are nowhere.
LEMMA NewUnseen ==
  ASSUME IInv, NEW i \in Id \ Born, NEW b
  PROVE  ~InAHand(i, b) /\ OneHand(i, b)
<1>1. ASSUME NEW c \in Call, NEW k \in Nat, Hand(c, k, i, b) PROVE FALSE
  <2>1. PICK f : f = stack[c][k] /\ k \in 1..Len(stack[c]) /\ Carries(f, i, b)
    BY <1>1 DEF Hand
  <2>2. FrameOk(f)
    BY <2>1 DEF IInv, Frames
  <2> QED  BY <2>1, <2>2 DEF FrameOk, Carries
<1> QED  BY <1>1 DEF InAHand, OneHand

LEMMA TopOk ==
  ASSUME IInv, NEW c \in Call, stack[c] # <<>>
  PROVE  /\ Len(stack[c]) \in Nat \ {0} /\ Top(c) = stack[c][Len(stack[c])]
         /\ Top(c) \in FrameType /\ FrameOk(Top(c)) /\ Top(c).i \in Born
         /\ \A i, b : Carries(Top(c), i, b) => InAHand(i, b)
<1>1. /\ Len(stack[c]) \in Nat \ {0} /\ Top(c) = stack[c][Len(stack[c])]
      /\ Top(c) \in FrameType
  BY TopIs DEF IInv
<1>2. FrameOk(Top(c))
  BY <1>1 DEF IInv, Frames
<1>3. \A i, b : Carries(Top(c), i, b) => InAHand(i, b)
  BY <1>1 DEF InAHand, Hand
<1> QED  BY <1>1, <1>2, <1>3 DEF FrameOk

----------------------------------------------------------------------------
(***************************************************************************)
(* No wake-up is lost.  While its token is held, a parent that missed no   *)
(* end of a child is about to start one, or its last child is not over, or *)
(* is over and in the hands of a batch that will look at it and report it. *)
(***************************************************************************)
Promises(c, p) == c \in Call /\ At(c, "spawn") /\ Top(c).i = p
Reports(c, q)  == c \in Call /\ stack[c] # <<>> /\ Top(c).i = q /\ Top(c).pc \in {"run", "deliver"}
Promised(p)  == \E c \in Call : Promises(c, p)
Reporting(q) == \E c \in Call : Reports(c, q)
Coming(p, q) == inst[p].awaited = q /\ q \in Born /\ inst[q].parent = p /\ (~IsOver(q) \/ Reporting(q))
Wake(p) == p \notin excused /\ HoldsToken(p) => Promised(p) \/ \E q : Coming(p, q)
WakeInv == \A p \in Born : Wake(p)

\* What a step may do to the batch of c, to a waiting parent and to a child.
OtherCalls(c) == \A d \in Call \ {c} : stack'[d] = stack[d]
Calm(c, p) ==
  /\ p \notin excused' => p \notin excused
  /\ HoldsToken(p)' => HoldsToken(p) /\ inst'[p].awaited = inst[p].awaited
  /\ Promises(c, p) => Promised(p)'
Settles(c, q) ==
  \/ ~IsOver(q)' \/ Reporting(q)' \/ (IsOver(q) /\ ~Reports(c, q))
  \/ \E p : p = inst[q].parent /\ (p \notin Born \/ p \in excused' \/ ~HoldsToken(p)')
Served(p) == p \in excused' \/ ~HoldsToken(p)' \/ Promised(p)' \/ \E q : Coming(p, q)'

LEMMA CallKept ==
  ASSUME NEW d \in Call, stack'[d] = stack[d]
  PROVE  /\ \A p : Promises(d, p)' <=> Promises(d, p)
         /\ \A q : Reports(d, q)' <=> Reports(d, q)
  BY DEF Promises, Reports, At, Top

LEMMA WakeKept ==
  ASSUME WakeInv, Lasting, NEW c, OtherCalls(c),
         \A p \in Born : Calm(c, p) \/ Served(p), \A p \in Born' \ Born : ~HoldsToken(p)',
         \A q \in Born : Settles(c, q)
  PROVE  WakeInv'
<1>1. ASSUME NEW p \in Born, p \notin excused', HoldsToken(p)', ~Served(p)
      PROVE  Promised(p)' \/ \E q : Coming(p, q)'
  <2>1. Calm(c, p)
    BY <1>1
  <2>2. p \notin excused /\ HoldsToken(p) /\ inst'[p].awaited = inst[p].awaited
    BY <1>1, <2>1 DEF Calm
  <2>3. CASE Promised(p)
    <3>1. PICK d \in Call : Promises(d, p)
      BY <2>3 DEF Promised
    <3>2. CASE d = c
      BY <2>1, <3>1, <3>2 DEF Calm
    <3>3. CASE d # c
      <4>1. Promises(d, p)'
        BY <3>1, <3>3, CallKept DEF OtherCalls
      <4> QED  BY <4>1 DEF Promised
    <3> QED  BY <3>2, <3>3
  <2>4. ASSUME NEW q, Coming(p, q) PROVE Coming(p, q)'
    <3>1. q \in Born /\ inst[q].parent = p /\ inst[p].awaited = q /\ (~IsOver(q) \/ Reporting(q))
      BY <2>4 DEF Coming
    <3>2. q \in Born' /\ inst'[q].parent = p /\ inst'[p].awaited = q
      BY <2>2, <3>1 DEF Lasting
    <3>3. ~IsOver(q)' \/ Reporting(q)'
      <4>1. Settles(c, q)
        BY <3>1
      <4>2. CASE IsOver(q) /\ ~Reports(c, q)
        <5>1. PICK d \in Call : Reports(d, q)
          BY <3>1, <4>2 DEF Reporting
        <5>2. Reports(d, q)'
          BY <4>2, <5>1, CallKept DEF OtherCalls
        <5> QED  BY <5>2 DEF Reporting
      <4> QED  BY <1>1, <3>1, <4>1, <4>2 DEF Settles
    <3> QED  BY <3>2, <3>3 DEF Coming
  <2> QED  BY <2>2, <2>3, <2>4 DEF WakeInv, Wake
<1>2. ASSUME NEW p \in Born' PROVE Wake(p)'
  BY <1>1, <1>2 DEF Wake, Served
<1> QED  BY <1>2 DEF WakeInv

\* The batch of c after the step, as far as a parent or a child looks at it.
LEMMA TopReplaced ==
  ASSUME IInv, NEW c \in Call, stack[c] # <<>>, NEW f \in FrameType, Replace(c, f)
  PROVE  /\ OtherCalls(c)
         /\ f.pc \in {"run", "deliver"} => Reporting(f.i)'
         /\ f.pc = "spawn" => Promised(f.i)'
<1>1. PICK k \in Nat : k = Len(stack[c]) - 1 /\ CutAdd(c, k, f)
  BY TopOk, ReplaceIs DEF IInv
<1>2. OtherCalls(c) /\ Len(stack'[c]) = k + 1 /\ stack'[c][k + 1] = f
  BY <1>1 DEF CutAdd, Kept, OtherCalls
<1>3. stack'[c] # <<>> /\ Top(c)' = f
  BY <1>2 DEF Top, Last
<1> QED  BY <1>2, <1>3 DEF Reporting, Reports, Promised, Promises, At

LEMMA OthersStay ==
  ASSUME IInv, NEW c \in Call, NEW s, stack' = [stack EXCEPT ![c] = s]
  PROVE  OtherCalls(c)
  BY DEF OtherCalls, IInv, Typed

\* An instance that keeps its state keeps what is said of it.
LEMMA SameState ==
  ASSUME NEW i, inst'[i].state = inst[i].state, inst'[i].previous = inst[i].previous
  PROVE  (HoldsToken(i)' <=> HoldsToken(i)) /\ (IsOver(i)' <=> IsOver(i))
  BY DEF HoldsToken, IsOver

\* One instance changes, and the batch of c is not about to start a child.
LEMMA OneWakes ==
  ASSUME WakeInv, Lasting, Born' = Born, NEW c, OtherCalls(c), NEW t, Elsewhere(t),
         \A p \in Born \ {t} : p \notin excused' => p \notin excused,
         \A p : Promises(c, p) => Promised(p)',
         t \in Born => (Calm(c, t) \/ Served(t)) /\ Settles(c, t),
         \A q \in Born \ {t} : Reports(c, q) => Settles(c, q)
  PROVE  WakeInv'
<1>1. ASSUME NEW p \in Born \ {t}
      PROVE  (HoldsToken(p)' <=> HoldsToken(p)) /\ (IsOver(p)' <=> IsOver(p)) /\ inst'[p].awaited = inst[p].awaited
  BY SameState DEF Elsewhere
<1>2. \A p \in Born : Calm(c, p) \/ Served(p)
  BY <1>1 DEF Calm
<1>3. \A q \in Born : Settles(c, q)
  <2>1. ASSUME NEW q \in Born \ {t}, ~Reports(c, q) PROVE Settles(c, q)
    BY <1>1, <2>1 DEF Settles
  <2> QED  BY <2>1
<1> QED  BY <1>2, <1>3, WakeKept

LEMMA NoneWakes ==
  ASSUME IInv, WakeInv, inst' = inst, NEW c, OtherCalls(c),
         \A p \in Born : p \notin excused' => p \notin excused,
         \A p : Promises(c, p) => Promised(p)',
         \A q \in Born : Reports(c, q) => Settles(c, q)
  PROVE  WakeInv'
<1>1. NoInst \notin Born /\ Elsewhere(NoInst) /\ Born' = Born /\ Lasting
  BY NoneChanged, NullAssumption DEF Elsewhere, Born, IInv
<1> QED  BY <1>1, OneWakes

\* The stacks stay as they are, and an instance is not over.
LEMMA StackWakes ==
  ASSUME IInv, WakeInv, Lasting, Born' = Born, stack' = stack, NEW t \in Born, Elsewhere(t),
         excused' = excused, ~IsOver(t)', Calm(t, t)
  PROVE  WakeInv'
<1>1. OtherCalls(t)
  BY DEF OtherCalls
<1>2. ASSUME NEW p, Promises(t, p) PROVE Promised(p)'
  BY <1>2, CallKept DEF Promises, Promised
<1>3. ASSUME NEW q, Reports(t, q) PROVE Settles(t, q)
  BY <1>3, CallKept DEF Reports, Reporting, Settles
<1>4. Settles(t, t)
  BY DEF Settles
<1> QED  BY <1>1, <1>2, <1>3, <1>4, OneWakes


----------------------------------------------------------------------------
\* Token b of instance t goes through a node: the batch of c has it no longer.
Goes(c, kind, t, b) == Stepping(c, kind) /\ t = Top(c).i /\ b = First(c)
Takes(c, kind, t, b, r, g) ==
  /\ Goes(c, kind, t, b)
  /\ r \in Instance /\ inst' = [inst EXCEPT ![t] = r]
  /\ r.def = inst[t].def /\ r.parent = inst[t].parent /\ r.at = inst[t].at
  /\ g \in FrameType /\ Replace(c, g) /\ g.i = t /\ g.queue = Rest(c)
  /\ g.pc \in {"run", "spawn"} /\ (g.pc = "spawn" => g.callee \in Def)

LEMMA TakenIs ==
  ASSUME IInv, NEW c \in Call, NEW kind, NEW t, NEW b, NEW r, NEW g, Takes(c, kind, t, b, r, g)
  PROVE  /\ inst' \in [Id -> Instance \cup {NoInst}] /\ Born' = Born /\ Lasting
         /\ inst'[t] = r /\ Elsewhere(t)
         /\ stack' \in [Call -> Seq(FrameType)] /\ Frames' /\ HandsLose(t, b)
<1>0. PICK rest : rest = Rest(c)
  OBVIOUS
<1>1. /\ stack[c] # <<>> /\ t \in Born
      /\ \A m \in 1..Len(rest) : rest[m] \in Branches(t)
      /\ \A l, m \in 1..Len(rest) : rest[l] = rest[m] => l = m
  <2>1. /\ stack[c] # <<>> /\ Top(c).i \in Born
        /\ \A m \in 1..Len(Rest(c)) : Rest(c)[m] \in Branches(Top(c).i)
        /\ \A l, m \in 1..Len(Rest(c)) : Rest(c)[l] = Rest(c)[m] => l = m
    BY SteppingIs DEF Takes, Goes
  <2> QED  BY <1>0, <2>1 DEF Takes, Goes
<1>a. Len(stack[c]) \in Nat \ {0}
  BY <1>1, TopIs DEF IInv
<1>2. /\ inst' \in [Id -> Instance \cup {NoInst}] /\ Born' = Born /\ Lasting
      /\ inst'[t] = r /\ Elsewhere(t)
  BY <1>1, OneChanged DEF IInv, Takes
<1>3. PICK k \in Nat : k = Len(stack[c]) - 1
  BY <1>a
<1>4. CutAdd(c, k, g)
  BY <1>1, <1>3, ReplaceIs DEF IInv, Takes
<1>5. Branches(t)' = Branches(t)
  BY <1>2 DEF Branches, Takes
<1>6. FrameOk(g)'
  BY <1>0, <1>1, <1>2, <1>5 DEF FrameOk, Emptied, Takes
<1>7. \A i \in Born : \A y : SameAt(i, y)
  BY <1>2 DEF SameAt, Elsewhere, Takes
<1>8. Frames'
  <2>1. \A d \in Call : \A j \in 1..Len(stack[d]) : stack[d][j].pc = "resume" =>
          SameAt(inst[stack[d][j].i].parent, stack[d][j].branch)
    BY <1>7 DEF IInv, Frames, FrameOk
  <2>2. g \in FrameType
    BY DEF Takes
  <2>3. Typed /\ Frames /\ Lasting /\ Kept(c, k) /\ (k = 0 \/ k < Len(stack[c]))
    BY <1>a, <1>2, <1>3, <1>4 DEF IInv, CutAdd
  <2>4. \A d \in Call : \A j \in 1..Len(stack[d]) :
          (d # c \/ j <= k) /\ stack[d][j].pc = "resume"
            => SameAt(inst[stack[d][j].i].parent, stack[d][j].branch)
    BY <2>1
  <2> QED  BY <1>3, <1>4, <1>6, <2>2, <2>3, <2>4, FramesAfter
<1>9. HandsLose(t, b)
  <2>1. /\ Stepping(c, kind) /\ g \in FrameType /\ g.i = Top(c).i /\ g.queue = Rest(c)
        /\ g.pc # "resume" /\ CutAdd(c, Len(stack[c]) - 1, g)
    BY <1>3, <1>4 DEF Takes, Goes
  <2>2. \A i \in Born : \A y \in Branches(i) :
          OneHand(i, y)' /\ (InAHand(i, y)' <=> InAHand(i, y) /\ ~(i = Top(c).i /\ y = First(c)))
    BY <1>2, <2>1, HandsTaken
  <2> QED  BY <2>2 DEF HandsLose, Takes, Goes
<1> QED  BY <1>2, <1>4, <1>8, <1>9 DEF CutAdd, Kept

\* Where the tokens are that a step does not touch.
LEMMA PlaceKept ==
  ASSUME NEW i, NEW b, OnePlace(i, b), inst'[i] = inst[i],
         <<i, b>> \in dropped' <=> <<i, b>> \in dropped,
         InAHand(i, b)' <=> InAHand(i, b), OneHand(i, b)'
  PROVE  OnePlace(i, b)'
<1>1. Held(i, b)' <=> Held(i, b)
  BY DEF Held, HoldsToken
<1> QED  BY <1>1 DEF OnePlace

LEMMA OverwrittenIs ==
  ASSUME NEW t
  PROVE  \A i, b : <<i, b>> \in Overwritten(t) <=> i = t /\ Held(t, b)
  BY DEF Overwritten, Held

LEMMA OverwrittenTyped ==
  ASSUME IInv, NEW t \in Born
  PROVE  Overwritten(t) \subseteq Born \X Branch
<1>1. HoldsToken(t) => inst[t].held \in Branch
  BY BranchesAre DEF IInv, Instances, InstOk
<1> QED  BY <1>1 DEF Overwritten

LEMMA PlacesAre ==
  ASSUME Born' = Born, Lasting, \A i \in Born : \A b \in Branches(i) : OnePlace(i, b)'
  PROVE  Places'
<1>1. \A i \in Born : Branches(i)' = Branches(i)
  BY DEF Lasting, Branches
<1> QED  BY <1>1 DEF Places

\* Token b of instance t leaves the hands of a batch, for one of four places: it
\* is parked, ended, held or dropped; the token t held before may be dropped.
Put(t, b, P, E, H, D, over) ==
  /\ over \in BOOLEAN
  /\ \/ P = {b} /\ E = {} /\ H = {} /\ D = {}
     \/ P = {} /\ E = {b} /\ H = {} /\ D = {}
     \/ P = {} /\ E = {} /\ H = {b} /\ D = {} /\ over
     \/ P = {} /\ E = {} /\ H = {} /\ D = {b}
  /\ inst'[t].parked = inst[t].parked \cup P /\ inst'[t].ended = inst[t].ended \cup E
  /\ \A y : Held(t, y)' <=> (y \in H \/ (~over /\ Held(t, y)))
  /\ \A i, y : <<i, y>> \in dropped' <=>
       (<<i, y>> \in dropped \/ (i = t /\ (y \in D \/ (over /\ Held(t, y)))))

LEMMA PlacesTaken ==
  ASSUME IInv, Born' = Born, Lasting, NEW t \in Born, NEW b, InAHand(t, b), Elsewhere(t),
         NEW P, NEW E, NEW H, NEW D, NEW over, Put(t, b, P, E, H, D, over), HandsLose(t, b)
  PROVE  Places'
<1> USE DEF Elsewhere, Put, HandsLose
<1>1. ASSUME NEW i \in Born, NEW y \in Branches(i) PROVE OnePlace(i, y)'
  <2>1. OnePlace(i, y)
    BY DEF IInv, Places
  <2>2. OneHand(i, y)' /\ (InAHand(i, y)' <=> InAHand(i, y) /\ ~(i = t /\ y = b))
    OBVIOUS
  <2>3. CASE i # t
    <3>1. inst'[i] = inst[i]
      BY <2>3
    <3>2. <<i, y>> \in dropped' <=> <<i, y>> \in dropped
      BY <2>3
    <3> QED  BY <2>1, <2>2, <2>3, <3>1, <3>2, PlaceKept
  <2>4. CASE i = t
    <3>1. /\ y \in inst'[i].parked <=> y \in inst[i].parked \/ y \in P
          /\ y \in inst'[i].ended <=> y \in inst[i].ended \/ y \in E
      BY <2>4
    <3>2. <<i, y>> \in dropped' <=> (<<i, y>> \in dropped \/ y \in D \/ (over /\ Held(i, y)))
      BY <2>4
    <3>3. Held(i, y)' <=> (y \in H \/ (~over /\ Held(i, y)))
      BY <2>4
    <3>4. InAHand(i, y)' <=> InAHand(i, y) /\ y # b
      BY <2>2, <2>4
    <3>5. y = b => InAHand(i, y)
      BY <2>4
    <3>6. y # b => y \notin P /\ y \notin E /\ y \notin H /\ y \notin D
      OBVIOUS
    <3>7. CASE y # b
      BY <2>1, <2>2, <3>1, <3>2, <3>3, <3>4, <3>6, <3>7 DEF OnePlace
    <3>8. CASE y = b
      <4>1. /\ <<i, y>> \notin dropped /\ y \notin inst[i].parked /\ y \notin inst[i].ended
            /\ ~Held(i, y) /\ ~InAHand(i, y)'
        BY <2>1, <3>4, <3>5, <3>8 DEF OnePlace
      <4> QED  BY <2>2, <3>1, <3>2, <3>3, <3>8, <4>1 DEF OnePlace
    <3> QED  BY <3>7, <3>8
  <2> QED  BY <2>3, <2>4
<1> QED  BY <1>1, PlacesAre

\* What the actions start from: a token at the head of a queue, its instance.
AtHead(c, kind, t, b) ==
  /\ t \in Born /\ t \in Id /\ inst[t] \in Instance /\ inst \in [Id -> Instance \cup {NoInst}]
  /\ InstOk(t) /\ b \in Branch /\ b \in Branches(t) /\ NodeOf(t, b).kind = kind
  /\ OnePlace(t, b) /\ InAHand(t, b) /\ Top(c) \in FrameType /\ Rest(c) \in Seq(Branch)
  /\ Popped(c) = [Top(c) EXCEPT !.queue = Rest(c), !.branch = First(c)]
  /\ Overwritten(t) \subseteq Born \X Branch

LEMMA AtHeadIs ==
  ASSUME IInv, NEW c \in Call, NEW kind, NEW t, NEW b, Goes(c, kind, t, b)
  PROVE  AtHead(c, kind, t, b)
<1>1. PICK s, x : s = Top(c).i /\ x = First(c) /\ s = t /\ x = b /\ Stepping(c, kind)
  BY DEF Goes
<1>a. /\ Top(c).i \in Born /\ First(c) \in Branch /\ First(c) \in Branches(Top(c).i)
      /\ NodeOf(Top(c).i, First(c)).kind = kind /\ InAHand(Top(c).i, First(c))
      /\ Top(c) \in FrameType /\ Rest(c) \in Seq(Branch)
      /\ Popped(c) = [Top(c) EXCEPT !.queue = Rest(c), !.branch = First(c)]
  BY <1>1, SteppingIs
<1>2. /\ s \in Born /\ x \in Branch /\ x \in Branches(s) /\ NodeOf(s, x).kind = kind
      /\ InAHand(s, x) /\ Top(c) \in FrameType /\ Rest(c) \in Seq(Branch)
      /\ Popped(c) = [Top(c) EXCEPT !.queue = Rest(c), !.branch = First(c)]
  BY <1>1, <1>a
<1>3. s \in Id /\ inst[s] \in Instance /\ inst \in [Id -> Instance \cup {NoInst}]
  BY <1>2, BornIs DEF IInv, Typed
<1>4. Overwritten(s) \subseteq Born \X Branch /\ InstOk(s) /\ OnePlace(s, x)
  BY <1>2, OverwrittenTyped DEF IInv, Instances, Places
<1> QED
  BY <1>1, <1>2, <1>3, <1>4 DEF AtHead

LEMMA TakenKeeps ==
  ASSUME IInv, NEW c \in Call, NEW kind, NEW t, NEW b, NEW r, NEW g, Takes(c, kind, t, b, r, g),
         NEW P, NEW E, NEW H, NEW D, NEW over, Put(t, b, P, E, H, D, over), InstOk(t)',
         dropped' \subseteq Born \X Branch, excused' \subseteq Id
  PROVE  IInv'
<1>1. /\ inst' \in [Id -> Instance \cup {NoInst}] /\ Born' = Born /\ Lasting /\ Elsewhere(t)
      /\ stack' \in [Call -> Seq(FrameType)] /\ Frames' /\ HandsLose(t, b)
  BY TakenIs
<1>2. t \in Born /\ InAHand(t, b)
  <2>1. Goes(c, kind, t, b)
    BY DEF Takes
  <2> QED  BY <2>1, AtHeadIs DEF AtHead
<1>3. Typed'
  BY <1>1 DEF IInv, Typed
<1>4. Instances'
  <2>1. \A i \in Born \ {t} : InstOk(i)'
    BY <1>1, InstKept DEF IInv, Elsewhere
  <2> QED  BY <1>1, <2>1 DEF Instances
<1>5. Places'
  BY <1>1, <1>2, PlacesTaken
<1> QED  BY <1>1, <1>3, <1>4, <1>5 DEF IInv

\* The token of t goes through a node: t waits for nothing new, or its batch
\* starts a child; and t is reported once it is over.
LEMMA TakenWakes ==
  ASSUME IInv, NEW c \in Call, NEW kind, NEW t, NEW b, NEW r, NEW g, Takes(c, kind, t, b, r, g),
         WakeInv, \A p \in Born \ {t} : p \notin excused' => p \notin excused,
         \/ ~HoldsToken(t)' \/ g.pc = "spawn"
         \/ /\ t \notin excused' => t \notin excused
            /\ (HoldsToken(t)' <=> HoldsToken(t)) /\ inst'[t].awaited = inst[t].awaited,
         g.pc = "spawn" => ~IsOver(t)'
  PROVE  WakeInv'
<1>1. Born' = Born /\ Lasting /\ Elsewhere(t)
  BY TakenIs
<1>2. /\ stack[c] # <<>> /\ Top(c).pc = "run" /\ Top(c).i = t
      /\ g \in FrameType /\ Replace(c, g) /\ g.i = t /\ g.pc \in {"run", "spawn"}
  BY DEF Takes, Goes, Stepping, At
<1>3. /\ OtherCalls(c) /\ (g.pc \in {"run", "deliver"} => Reporting(t)')
      /\ (g.pc = "spawn" => Promised(t)')
  BY <1>2, TopReplaced
<1>4. \A p : ~Promises(c, p) /\ (Reports(c, p) => p = t)
  BY <1>2 DEF Promises, Reports, At
<1>5. Calm(c, t) \/ Served(t)
  BY <1>3, <1>4 DEF Calm, Served
<1>6. Settles(c, t)
  BY <1>2, <1>3 DEF Settles
<1> QED  BY <1>1, <1>3, <1>4, <1>5, <1>6, OneWakes

LEMMA ParkKeeps ==
  ASSUME IInv, NEW c \in Call, ParkAtTask(c)
  PROVE  IInv' /\ (WakeInv => WakeInv')
<1>1. PICK t, b, rest : t = Top(c).i /\ b = First(c) /\ rest = Rest(c)
  OBVIOUS
<1>2. Stepping(c, "task") /\ Goes(c, "task", t, b)
  BY <1>1 DEF ParkAtTask, Goes
<1>3. /\ t \in Born /\ t \in Id /\ inst[t] \in Instance /\ inst \in [Id -> Instance \cup {NoInst}]
      /\ InstOk(t) /\ b \in Branch /\ b \in Branches(t) /\ NodeOf(t, b).kind = "task"
      /\ Top(c) \in FrameType /\ rest \in Seq(Branch)
      /\ Popped(c) = [Top(c) EXCEPT !.queue = rest, !.branch = b]
      /\ Overwritten(t) \subseteq Born \X Branch
  <2>1. AtHead(c, "task", t, b)
    BY <1>2, AtHeadIs
  <2> QED  BY <1>1, <2>1 DEF AtHead
<1>4. PICK r \in Instance :
        /\ inst' = [inst EXCEPT ![t] = r]
        /\ r = [inst[t] EXCEPT !.parked = @ \cup {b}, !.current = b,
                               !.state = IF inst[t].state = "Parallel" THEN @ ELSE "Waiting"]
  <2>1. PICK state, parked : /\ state = IF inst[t].state = "Parallel" THEN inst[t].state ELSE "Waiting"
                             /\ parked = inst[t].parked \cup {b}
    OBVIOUS
  <2>2. state \in State /\ parked \in SUBSET Branch
    BY <1>3, <2>1 DEF Instance, State
  <2>3. PICK r : r = [inst[t] EXCEPT !.parked = parked, !.current = b, !.state = state]
    OBVIOUS
  <2>4. r \in Instance
    BY <1>3, <2>2, <2>3 DEF Instance
  <2>5. inst' = [inst EXCEPT ![t].parked = @ \cup {b}, ![t].current = b,
                             ![t].state = IF inst[t].state = "Parallel" THEN @ ELSE "Waiting"]
    BY <1>1 DEF ParkAtTask, First
  <2>6. r = [inst[t] EXCEPT !.parked = @ \cup {b}, !.current = b,
                            !.state = IF inst[t].state = "Parallel" THEN @ ELSE "Waiting"]
    BY <1>3, <2>1, <2>3 DEF Instance
  <2> QED  BY <1>3, <2>4, <2>5, <2>6
<1>5. /\ r.def = inst[t].def /\ r.parent = inst[t].parent /\ r.at = inst[t].at
      /\ r.parked = inst[t].parked \cup {b} /\ r.ended = inst[t].ended
      /\ r.previous = inst[t].previous
      /\ r.state = IF inst[t].state = "Parallel" THEN "Parallel" ELSE "Waiting"
  BY <1>3, <1>4 DEF Instance
<1>6. PICK g : g = [Popped(c) EXCEPT !.branch = NoBranch]
  OBVIOUS
<1>7. g \in FrameType /\ g.i = t /\ g.queue = rest /\ g.pc = "run"
  <2>1. Top(c).pc = "run"
    BY <1>2 DEF Stepping, At
  <2> QED  BY <1>1, <1>3, <1>6, <2>1 DEF FrameType
<1>8. Takes(c, "task", t, b, r, g)
  BY <1>1, <1>2, <1>4, <1>5, <1>6, <1>7 DEF Takes, ParkAtTask
<1>9. inst'[t] = r
  BY <1>8, TakenIs
<1>10. PICK over \in BOOLEAN : over <=> inst[t].state # "Parallel"
  OBVIOUS
<1>11. dropped' = dropped \cup (IF over THEN Overwritten(t) ELSE {}) /\ excused' = excused
  BY <1>1, <1>10 DEF ParkAtTask
<1>12. ~HoldsToken(t)' /\ (HoldsToken(t) => over)
  BY <1>5, <1>9, <1>10 DEF HoldsToken
<1>13. Put(t, b, {b}, {}, {}, {}, over)
  <2>1. inst'[t].parked = inst[t].parked \cup {b} /\ inst'[t].ended = inst[t].ended \cup {}
    BY <1>5, <1>9
  <2>2. \A y : Held(t, y)' <=> (y \in {} \/ (~over /\ Held(t, y)))
    BY <1>12 DEF Held
  <2>3. \A i, y : <<i, y>> \in dropped' <=>
          (<<i, y>> \in dropped \/ (i = t /\ (y \in {} \/ (over /\ Held(t, y)))))
    BY <1>10, <1>11, OverwrittenIs
  <2> QED  BY <1>10, <2>1, <2>2, <2>3 DEF Put
<1>14. InstOk(t)'
  <2>1. Branches(t)' = Branches(t) /\ \A y : NodeOf(t, y)' = NodeOf(t, y)
    BY <1>5, <1>9 DEF Branches, NodeOf
  <2>2. inst'[t].parent \in Born'
          \cup {NoInst}
    BY <1>3, <1>5, <1>8, <1>9, TakenIs DEF InstOk
  <2> QED  BY <1>3, <1>5, <1>9, <1>12, <2>1, <2>2 DEF InstOk
<1>15. dropped' \subseteq Born \X Branch /\ excused' \subseteq Id
  BY <1>3, <1>11 DEF IInv, Typed
<1>16. IInv'
  BY <1>8, <1>13, <1>14, <1>15, TakenKeeps
<1>17. ASSUME WakeInv PROVE WakeInv'
  BY <1>7, <1>8, <1>11, <1>12, <1>17, TakenWakes
<1> QED  BY <1>16, <1>17

LEMMA EndKeeps ==
  ASSUME IInv, NEW c \in Call, EndBranch(c)
  PROVE  IInv' /\ (WakeInv => WakeInv')
<1>1. PICK t, b, rest : t = Top(c).i /\ b = First(c) /\ rest = Rest(c)
  OBVIOUS
<1>2. PICK kind : Stepping(c, kind) /\ Goes(c, kind, t, b)
  BY <1>1 DEF EndBranch, Goes
<1>3. /\ t \in Born /\ t \in Id /\ inst[t] \in Instance /\ inst \in [Id -> Instance \cup {NoInst}]
      /\ InstOk(t) /\ b \in Branch /\ Top(c) \in FrameType /\ rest \in Seq(Branch)
      /\ Popped(c) = [Top(c) EXCEPT !.queue = rest, !.branch = b]
      /\ Overwritten(t) \subseteq Born \X Branch
  <2>1. AtHead(c, kind, t, b)
    BY <1>2, AtHeadIs
  <2> QED  BY <1>1, <2>1 DEF AtHead
<1>4. PICK last \in BOOLEAN, state \in State :
        /\ state = IF last THEN (IF NodeOf(t, b).kind = "end" THEN "Completed" ELSE "Error")
                   ELSE inst[t].state
        /\ inst' = [inst EXCEPT ![t].ended = @ \cup {b}, ![t].current = b, ![t].state = state]
        /\ dropped' = dropped \cup (IF last THEN Overwritten(t) ELSE {})
  <2>1. PICK last \in BOOLEAN : last <=> (inst[t].parked = {} /\ inst[t].ended \cup {b} = Branches(t))
    OBVIOUS
  <2>2. inst[t].state \in State
    BY <1>3 DEF Instance
  <2>3. PICK over : over = IF NodeOf(t, b).kind = "end" THEN "Completed" ELSE "Error"
    OBVIOUS
  <2>4. PICK state : state = IF last THEN over ELSE inst[t].state
    OBVIOUS
  <2>5. state \in State
    BY <2>2, <2>3, <2>4 DEF State
  <2>6. /\ inst' = [inst EXCEPT ![t].ended = @ \cup {b}, ![t].current = b,
                                ![t].state = IF last THEN over ELSE @]
        /\ dropped' = dropped \cup (IF last THEN Overwritten(t) ELSE {})
    BY <1>1, <2>1, <2>3 DEF EndBranch, First
  <2>7. inst' = [inst EXCEPT ![t].ended = @ \cup {b}, ![t].current = b, ![t].state = state]
    BY <1>3, <2>4, <2>6 DEF Instance
  <2> QED  BY <2>3, <2>4, <2>5, <2>6, <2>7
<1>5. PICK r \in Instance :
        inst' = [inst EXCEPT ![t] = r]
        /\ r = [inst[t] EXCEPT !.ended = @ \cup {b}, !.current = b, !.state = state]
  <2>1. [inst[t] EXCEPT !.ended = @ \cup {b}, !.current = b, !.state = state] \in Instance
    BY <1>3 DEF Instance
  <2> QED  BY <1>3, <1>4, <2>1
<1>6. /\ r.def = inst[t].def /\ r.parent = inst[t].parent /\ r.at = inst[t].at
      /\ r.parked = inst[t].parked /\ r.ended = inst[t].ended \cup {b} /\ r.held = inst[t].held
      /\ r.previous = inst[t].previous /\ r.state = state /\ r.awaited = inst[t].awaited
  BY <1>3, <1>5 DEF Instance
<1>7. PICK g : g = [Popped(c) EXCEPT !.branch = NoBranch]
  OBVIOUS
<1>8. g \in FrameType /\ g.i = t /\ g.queue = rest /\ g.pc = "run"
  <2>1. Top(c).pc = "run"
    BY <1>2 DEF Stepping, At
  <2> QED  BY <1>1, <1>3, <1>7, <2>1 DEF FrameType
<1>9. Takes(c, kind, t, b, r, g)
  BY <1>1, <1>2, <1>5, <1>6, <1>7, <1>8 DEF Takes, EndBranch
<1>10. inst'[t] = r /\ Born' = Born
  BY <1>9, TakenIs
<1>11. /\ last => ~HoldsToken(t)'
       /\ ~last => (HoldsToken(t)' <=> HoldsToken(t))
  BY <1>4, <1>6, <1>10 DEF HoldsToken
<1>12. Put(t, b, {}, {b}, {}, {}, last)
  <2>1. inst'[t].parked = inst[t].parked \cup {} /\ inst'[t].ended = inst[t].ended \cup {b}
    BY <1>6, <1>10
  <2>2. \A y : Held(t, y)' <=> (y \in {} \/ (~last /\ Held(t, y)))
    BY <1>6, <1>10, <1>11 DEF Held
  <2>3. \A i, y : <<i, y>> \in dropped' <=>
          (<<i, y>> \in dropped \/ (i = t /\ (y \in {} \/ (last /\ Held(t, y)))))
    BY <1>4, OverwrittenIs
  <2> QED  BY <1>4, <2>1, <2>2, <2>3 DEF Put
<1>13. InstOk(t)'
  <2>1. Branches(t)' = Branches(t) /\ \A y : NodeOf(t, y)' = NodeOf(t, y)
    BY <1>6, <1>10 DEF Branches, NodeOf
  <2> QED  BY <1>3, <1>6, <1>10, <1>11, <2>1 DEF InstOk
<1>14. dropped' \subseteq Born \X Branch /\ excused' \subseteq Id
  BY <1>3, <1>4 DEF IInv, Typed, EndBranch
<1>15. IInv'
  BY <1>9, <1>12, <1>13, <1>14, TakenKeeps
<1>16. ASSUME WakeInv PROVE WakeInv'
  <2>1. excused' = excused /\ inst'[t].awaited = inst[t].awaited
    BY <1>6, <1>10 DEF EndBranch
  <2> QED  BY <1>8, <1>9, <1>11, <1>16, <2>1, TakenWakes
<1> QED  BY <1>15, <1>16

LEMMA SpawnFailsKeeps ==
  ASSUME IInv, NEW c \in Call, SpawnFails(c)
  PROVE  IInv' /\ (WakeInv => WakeInv')
<1>1. PICK t, b, rest : t = Top(c).i /\ b = First(c) /\ rest = Rest(c)
  OBVIOUS
<1>2. Stepping(c, "call") /\ Goes(c, "call", t, b)
  BY <1>1 DEF SpawnFails, Goes
<1>3. /\ t \in Born /\ t \in Id /\ inst[t] \in Instance /\ inst \in [Id -> Instance \cup {NoInst}]
      /\ InstOk(t) /\ b \in Branch /\ Top(c) \in FrameType /\ rest \in Seq(Branch)
      /\ Popped(c) = [Top(c) EXCEPT !.queue = rest, !.branch = b]
  <2>1. AtHead(c, "call", t, b)
    BY <1>2, AtHeadIs
  <2> QED  BY <1>1, <2>1 DEF AtHead
<1>4. inst' = [inst EXCEPT ![t].current = b] /\ dropped' = dropped \cup {<<t, b>>}
  BY <1>1 DEF SpawnFails, First
<1>5. PICK r \in Instance : inst' = [inst EXCEPT ![t] = r] /\ r = [inst[t] EXCEPT !.current = b]
  <2>1. [inst[t] EXCEPT !.current = b] \in Instance
    BY <1>3 DEF Instance
  <2> QED  BY <1>3, <1>4, <2>1
<1>6. /\ r.def = inst[t].def /\ r.parent = inst[t].parent /\ r.at = inst[t].at
      /\ r.parked = inst[t].parked /\ r.ended = inst[t].ended /\ r.held = inst[t].held
      /\ r.previous = inst[t].previous /\ r.state = inst[t].state /\ r.awaited = inst[t].awaited
  BY <1>3, <1>5 DEF Instance
<1>7. PICK g : g = [Popped(c) EXCEPT !.branch = NoBranch]
  OBVIOUS
<1>8. g \in FrameType /\ g.i = t /\ g.queue = rest /\ g.pc = "run"
  <2>1. Top(c).pc = "run"
    BY <1>2 DEF Stepping, At
  <2> QED  BY <1>1, <1>3, <1>7, <2>1 DEF FrameType
<1>9. Takes(c, "call", t, b, r, g)
  BY <1>1, <1>2, <1>5, <1>6, <1>7, <1>8 DEF Takes, SpawnFails
<1>10. inst'[t] = r /\ Born' = Born
  BY <1>9, TakenIs
<1>11. HoldsToken(t)' <=> HoldsToken(t)
  BY <1>6, <1>10 DEF HoldsToken
<1>12. Put(t, b, {}, {}, {}, {b}, FALSE)
  <2>1. inst'[t].parked = inst[t].parked \cup {} /\ inst'[t].ended = inst[t].ended \cup {}
    BY <1>6, <1>10
  <2>2. \A y : Held(t, y)' <=> (y \in {} \/ (~FALSE /\ Held(t, y)))
    BY <1>6, <1>10, <1>11 DEF Held
  <2>3. \A i, y : <<i, y>> \in dropped' <=>
          (<<i, y>> \in dropped \/ (i = t /\ (y \in {b} \/ (FALSE /\ Held(t, y)))))
    BY <1>4
  <2> QED  BY <2>1, <2>2, <2>3 DEF Put
<1>13. InstOk(t)'
  <2>1. Branches(t)' = Branches(t) /\ \A y : NodeOf(t, y)' = NodeOf(t, y)
    BY <1>6, <1>10 DEF Branches, NodeOf
  <2> QED  BY <1>3, <1>6, <1>10, <1>11, <2>1 DEF InstOk
<1>14. dropped' \subseteq Born \X Branch /\ excused' \subseteq Id
  BY <1>3, <1>4 DEF IInv, Typed, SpawnFails
<1>15. IInv'
  BY <1>9, <1>12, <1>13, <1>14, TakenKeeps
<1>16. ASSUME WakeInv PROVE WakeInv'
  <2>1. excused' = excused /\ inst'[t].awaited = inst[t].awaited
    BY <1>6, <1>10 DEF SpawnFails
  <2> QED  BY <1>8, <1>9, <1>11, <1>16, <2>1, TakenWakes
<1> QED  BY <1>15, <1>16

LEMMA ReachKeeps ==
  ASSUME IInv, NEW c \in Call, ReachCall(c)
  PROVE  IInv' /\ (WakeInv => WakeInv')
<1>1. PICK t, b, rest : t = Top(c).i /\ b = First(c) /\ rest = Rest(c)
  OBVIOUS
<1>2. Stepping(c, "call") /\ Goes(c, "call", t, b)
  BY <1>1 DEF ReachCall, Goes
<1>3. /\ t \in Born /\ t \in Id /\ inst[t] \in Instance /\ inst \in [Id -> Instance \cup {NoInst}]
      /\ InstOk(t) /\ b \in Branch /\ b \in Branches(t) /\ NodeOf(t, b).kind = "call"
      /\ Top(c) \in FrameType /\ rest \in Seq(Branch)
      /\ Popped(c) = [Top(c) EXCEPT !.queue = rest, !.branch = b]
      /\ Overwritten(t) \subseteq Born \X Branch
  <2>1. AtHead(c, "call", t, b)
    BY <1>2, AtHeadIs
  <2> QED  BY <1>1, <2>1 DEF AtHead
<1>4. PICK callee : callee = Callee(Popped(c)) /\ callee \in Def
  BY DEF ReachCall
<1>5. PICK g : g = [Popped(c) EXCEPT !.pc = "spawn", !.callee = callee]
  OBVIOUS
<1>6. g \in FrameType /\ g.i = t /\ g.queue = rest /\ g.pc = "spawn" /\ g.callee \in Def
  BY <1>1, <1>3, <1>4, <1>5 DEF FrameType, PC
<1>7. Replace(c, g) /\ excused' = excused \ {t}
  BY <1>1, <1>4, <1>5 DEF ReachCall
<1>8. CASE inst[t].state = "Parallel"
  <2>1. inst' = [inst EXCEPT ![t].current = b] /\ dropped' = dropped \cup {<<t, b>>}
    BY <1>1, <1>8 DEF ReachCall, First
  <2>2. PICK r \in Instance : inst' = [inst EXCEPT ![t] = r] /\ r = [inst[t] EXCEPT !.current = b]
    <3>1. [inst[t] EXCEPT !.current = b] \in Instance
      BY <1>3 DEF Instance
    <3> QED  BY <1>3, <2>1, <3>1
  <2>3. /\ r.def = inst[t].def /\ r.parent = inst[t].parent /\ r.at = inst[t].at
        /\ r.parked = inst[t].parked /\ r.ended = inst[t].ended /\ r.held = inst[t].held
        /\ r.previous = inst[t].previous /\ r.state = inst[t].state
    BY <1>3, <2>2 DEF Instance
  <2>4. Takes(c, "call", t, b, r, g)
    BY <1>1, <1>2, <1>6, <1>7, <2>2, <2>3 DEF Takes
  <2>5. inst'[t] = r /\ Born' = Born
    BY <2>4, TakenIs
  <2>6. HoldsToken(t)' <=> HoldsToken(t)
    BY <2>3, <2>5 DEF HoldsToken
  <2>7. Put(t, b, {}, {}, {}, {b}, FALSE)
    <3>1. inst'[t].parked = inst[t].parked \cup {} /\ inst'[t].ended = inst[t].ended \cup {}
      BY <2>3, <2>5
    <3>2. \A y : Held(t, y)' <=> (y \in {} \/ (~FALSE /\ Held(t, y)))
      BY <2>3, <2>5, <2>6 DEF Held
    <3>3. \A i, y : <<i, y>> \in dropped' <=>
            (<<i, y>> \in dropped \/ (i = t /\ (y \in {b} \/ (FALSE /\ Held(t, y)))))
      BY <2>1
    <3> QED  BY <3>1, <3>2, <3>3 DEF Put
  <2>8. InstOk(t)'
    <3>1. Branches(t)' = Branches(t) /\ \A y : NodeOf(t, y)' = NodeOf(t, y)
      BY <2>3, <2>5 DEF Branches, NodeOf
    <3> QED  BY <1>3, <2>3, <2>5, <2>6, <3>1 DEF InstOk
  <2>9. dropped' \subseteq Born \X Branch /\ excused' \subseteq Id
    BY <1>3, <1>7, <2>1 DEF IInv, Typed
  <2>10. IInv'
    BY <2>4, <2>7, <2>8, <2>9, TakenKeeps
  <2>11. ASSUME WakeInv PROVE WakeInv'
    <3>1. ~IsOver(t)'
      BY <1>8, <2>3, <2>5 DEF IsOver
    <3> QED  BY <1>6, <1>7, <2>4, <2>11, <3>1, TakenWakes
  <2> QED  BY <2>10, <2>11
<1>9. CASE inst[t].state # "Parallel"
  <2>1. /\ inst' = [inst EXCEPT ![t].state = "Call", ![t].held = b, ![t].current = b,
                                ![t].sub = NoInst, ![t].awaited = NoInst]
        /\ dropped' = dropped \cup Overwritten(t)
    BY <1>1, <1>9 DEF ReachCall, First
  <2>2. PICK r \in Instance :
          /\ inst' = [inst EXCEPT ![t] = r]
          /\ r = [inst[t] EXCEPT !.state = "Call", !.held = b, !.current = b,
                                 !.sub = NoInst, !.awaited = NoInst]
    <3>1. [inst[t] EXCEPT !.state = "Call", !.held = b, !.current = b,
                          !.sub = NoInst, !.awaited = NoInst] \in Instance
      BY <1>3 DEF Instance, State
    <3> QED  BY <1>3, <2>1, <3>1
  <2>3. /\ r.def = inst[t].def /\ r.parent = inst[t].parent /\ r.at = inst[t].at
        /\ r.parked = inst[t].parked /\ r.ended = inst[t].ended /\ r.held = b
        /\ r.previous = inst[t].previous /\ r.state = "Call"
    BY <1>3, <2>2 DEF Instance
  <2>4. Takes(c, "call", t, b, r, g)
    BY <1>1, <1>2, <1>6, <1>7, <2>2, <2>3 DEF Takes
  <2>5. inst'[t] = r /\ Born' = Born
    BY <2>4, TakenIs
  <2>6. \A y : Held(t, y)' <=> y = b
    BY <2>3, <2>5 DEF Held, HoldsToken
  <2>7. Put(t, b, {}, {}, {b}, {}, TRUE)
    <3>1. inst'[t].parked = inst[t].parked \cup {} /\ inst'[t].ended = inst[t].ended \cup {}
      BY <2>3, <2>5
    <3>2. \A y : Held(t, y)' <=> (y \in {b} \/ (~TRUE /\ Held(t, y)))
      BY <2>6
    <3>3. \A i, y : <<i, y>> \in dropped' <=>
            (<<i, y>> \in dropped \/ (i = t /\ (y \in {} \/ (TRUE /\ Held(t, y)))))
      BY <2>1, OverwrittenIs
    <3> QED  BY <3>1, <3>2, <3>3 DEF Put
  <2>8. InstOk(t)'
    <3>1. Branches(t)' = Branches(t) /\ \A y : NodeOf(t, y)' = NodeOf(t, y)
      BY <2>3, <2>5 DEF Branches, NodeOf
    <3> QED  BY <1>3, <2>3, <2>5, <3>1 DEF InstOk
  <2>9. dropped' \subseteq Born \X Branch /\ excused' \subseteq Id
    BY <1>3, <1>7, <2>1 DEF IInv, Typed
  <2>10. IInv'
    BY <2>4, <2>7, <2>8, <2>9, TakenKeeps
  <2>11. ASSUME WakeInv PROVE WakeInv'
    <3>1. ~IsOver(t)'
      BY <2>3, <2>5 DEF IsOver
    <3> QED  BY <1>6, <1>7, <2>4, <2>11, <3>1, TakenWakes
  <2> QED  BY <2>10, <2>11
<1> QED  BY <1>8, <1>9

----------------------------------------------------------------------------
(***************************************************************************)
(* The steps that do not take a token from a queue.                        *)
(***************************************************************************)
OneAbove(c, k, i, b) ==
  \A j, l \in Nat : j > k /\ l > k /\ Hand(c, j, i, b) /\ Hand(c, l, i, b) => j = l

\* One batch is popped, replaced, nested upon or begun.
LEMMA PopHands ==
  ASSUME IInv, Lasting, NEW c \in Call, stack[c] # <<>>, Pop(c), NEW i, NEW b, OneHand(i, b)
  PROVE  OneHand(i, b)' /\ (InAHand(i, b)' <=> InAHand(i, b) /\ ~Carries(Top(c), i, b))
<1>1. PICK k \in Nat : k = Len(stack[c]) - 1 /\ Cut(c, k)
  BY TopOk, PopIs DEF IInv
<1>2. Above(c, k, i, b) <=> Carries(Top(c), i, b)
  BY <1>1, AboveTop DEF IInv
<1>3. ~Above(c, k, i, b)'
  BY <1>1, AboveCut
<1>4. OneAbove(c, k, i, b)'
  BY <1>3 DEF OneAbove, Above
<1> QED  BY <1>1, <1>2, <1>3, <1>4, HandsAfter DEF IInv, Cut, OneAbove

LEMMA ReplaceHands ==
  ASSUME IInv, Lasting, NEW c \in Call, stack[c] # <<>>, NEW g \in FrameType, Replace(c, g),
         NEW i, NEW b, OneHand(i, b), Carries(g, i, b)' => ~InAHand(i, b) \/ Carries(Top(c), i, b)
  PROVE  /\ OneHand(i, b)'
         /\ InAHand(i, b)' <=> (Carries(g, i, b)' \/ (InAHand(i, b) /\ ~Carries(Top(c), i, b)))
<1>1. PICK k \in Nat : k = Len(stack[c]) - 1 /\ CutAdd(c, k, g)
  BY TopOk, ReplaceIs DEF IInv
<1>2. Above(c, k, i, b) <=> Carries(Top(c), i, b)
  BY <1>1, AboveTop DEF IInv
<1>3. Above(c, k, i, b)' <=> Carries(g, i, b)'
  BY <1>1, AboveAdd
<1>4. \A j, l \in Nat : j > k /\ l > k /\ Hand(c, j, i, b)' /\ Hand(c, l, i, b)' => j = l
  BY <1>1, AboveAdd
<1>5. k <= Len(stack'[c])
  BY <1>1 DEF CutAdd
<1> QED  BY <1>1, <1>2, <1>3, <1>4, <1>5, HandsAfter DEF IInv, CutAdd

LEMMA NestHands ==
  ASSUME IInv, Lasting, NEW c \in Call, stack[c] # <<>>,
         NEW f \in FrameType, NEW g \in FrameType, Nest(c, f, g),
         NEW i, NEW b, OneHand(i, b),
         Carries(f, i, b)' \/ Carries(g, i, b)' => ~InAHand(i, b) \/ Carries(Top(c), i, b),
         ~(Carries(f, i, b)' /\ Carries(g, i, b)')
  PROVE  /\ OneHand(i, b)'
         /\ InAHand(i, b)' <=> (Carries(f, i, b)' \/ Carries(g, i, b)'
                                \/ (InAHand(i, b) /\ ~Carries(Top(c), i, b)))
<1>1. PICK k \in Nat : k = Len(stack[c]) - 1 /\ CutNest(c, k, f, g)
  BY TopOk, NestIs DEF IInv
<1>2. Above(c, k, i, b) <=> Carries(Top(c), i, b)
  BY <1>1, AboveTop DEF IInv
<1>3. Above(c, k, i, b)' <=> Carries(f, i, b)' \/ Carries(g, i, b)'
  BY <1>1, AboveNest
<1>4. \A j, l \in Nat : j > k /\ l > k /\ Hand(c, j, i, b)' /\ Hand(c, l, i, b)' => j = l
  BY <1>1, AboveNest
<1>5. k <= Len(stack'[c])
  BY <1>1 DEF CutNest
<1> QED  BY <1>1, <1>2, <1>3, <1>4, <1>5, HandsAfter DEF IInv, CutNest

LEMMA OpenHands ==
  ASSUME IInv, Lasting, NEW c \in Call, stack[c] = <<>>, NEW g \in FrameType,
         stack' = [stack EXCEPT ![c] = <<g>>],
         NEW i, NEW b, OneHand(i, b), Carries(g, i, b)' => ~InAHand(i, b)
  PROVE  OneHand(i, b)' /\ (InAHand(i, b)' <=> (Carries(g, i, b)' \/ InAHand(i, b)))
<1>1. CutAdd(c, 0, g)
  BY OpenIs DEF IInv
<1>2. ~Above(c, 0, i, b)
  BY DEF Above, Hand
<1>3. Above(c, 0, i, b)' <=> Carries(g, i, b)'
  BY <1>1, AboveAdd
<1>4. \A j, l \in Nat : j > 0 /\ l > 0 /\ Hand(c, j, i, b)' /\ Hand(c, l, i, b)' => j = l
  BY <1>1, AboveAdd
<1>5. 0 <= Len(stack'[c]) /\ 0 \in Nat
  BY <1>1 DEF CutAdd
<1> QED  BY <1>1, <1>2, <1>3, <1>4, <1>5, HandsAfter DEF IInv, CutAdd

\* No node a batch is to resume at moves.
Still ==
  \A c \in Call : \A k \in 1..Len(stack[c]) :
    stack[c][k].pc = "resume" => SameAt(inst[stack[c][k].i].parent, stack[c][k].branch)

LEMMA StillIs ==
  ASSUME IInv, \A i \in Born : \A b : SameAt(i, b)
  PROVE  Still
  BY DEF Still, IInv, Frames, FrameOk

LEMMA PopFrames ==
  ASSUME IInv, Lasting, Still, NEW c \in Call, stack[c] # <<>>, Pop(c)
  PROVE  stack' \in [Call -> Seq(FrameType)] /\ Frames'
<1>1. PICK k \in Nat : k = Len(stack[c]) - 1 /\ Cut(c, k)
  BY TopOk, PopIs DEF IInv
<1> QED  BY <1>1, FramesAfter DEF IInv, Cut, Kept, Still

LEMMA ReplaceFrames ==
  ASSUME IInv, Lasting, Still, NEW c \in Call, stack[c] # <<>>,
         NEW g \in FrameType, Replace(c, g), FrameOk(g)'
  PROVE  stack' \in [Call -> Seq(FrameType)] /\ Frames'
<1>1. PICK k \in Nat : k = Len(stack[c]) - 1 /\ CutAdd(c, k, g) /\ k < Len(stack[c])
  BY TopOk, ReplaceIs DEF IInv
<1> QED  BY <1>1, FramesAfter DEF IInv, CutAdd, Kept, Still

LEMMA NestFrames ==
  ASSUME IInv, Lasting, NEW c \in Call, stack[c] # <<>>,
         \A d \in Call : \A j \in 1..Len(stack[d]) :
           (d # c \/ j < Len(stack[d])) /\ stack[d][j].pc = "resume"
             => SameAt(inst[stack[d][j].i].parent, stack[d][j].branch),
         NEW f \in FrameType, NEW g \in FrameType, Nest(c, f, g), FrameOk(f)', FrameOk(g)',
         f.pc \in Below
  PROVE  stack' \in [Call -> Seq(FrameType)] /\ Frames'
<1>1. PICK k \in Nat : k = Len(stack[c]) - 1 /\ CutNest(c, k, f, g) /\ k < Len(stack[c])
  BY TopOk, NestIs DEF IInv
<1>2. \A d \in Call : \A j \in 1..Len(stack[d]) :
        (d # c \/ j <= k) /\ stack[d][j].pc = "resume"
          => SameAt(inst[stack[d][j].i].parent, stack[d][j].branch)
  <2> SUFFICES ASSUME NEW d \in Call, NEW j \in 1..Len(stack[d]), d # c \/ j <= k,
                      stack[d][j].pc = "resume"
      PROVE  SameAt(inst[stack[d][j].i].parent, stack[d][j].branch)
    OBVIOUS
  <2>1. d # c \/ j < Len(stack[d])
    BY <1>1
  <2> QED  BY <2>1
<1>3. Kept(c, k) /\ stack' \in [Call -> Seq(FrameType)]
  BY <1>1 DEF CutNest, Kept
<1>4. \E f1, g1 \in FrameType : /\ CutNest(c, k, f1, g1) /\ FrameOk(f1)' /\ FrameOk(g1)'
                                /\ f1.pc \in Below /\ k < Len(stack[c])
  BY <1>1
<1>5. Frames'
  BY <1>1, <1>2, <1>3, <1>4, FramesAfter DEF IInv
<1> QED  BY <1>3, <1>5

LEMMA OpenFrames ==
  ASSUME IInv, Lasting, Still, NEW c \in Call,
         NEW g \in FrameType, stack' = [stack EXCEPT ![c] = <<g>>], FrameOk(g)'
  PROVE  stack' \in [Call -> Seq(FrameType)] /\ Frames'
<1>1. CutAdd(c, 0, g) /\ 0 \in Nat
  BY OpenIs DEF IInv
<1> QED  BY <1>1, FramesAfter DEF IInv, CutAdd, Kept, Still

\* Where a token stays that no step touches, although its instance may change.
LEMMA PlaceStays ==
  ASSUME NEW i, NEW b, OnePlace(i, b),
         b \in inst'[i].parked <=> b \in inst[i].parked,
         b \in inst'[i].ended <=> b \in inst[i].ended,
         Held(i, b)' <=> Held(i, b), <<i, b>> \in dropped' <=> <<i, b>> \in dropped,
         InAHand(i, b)' <=> InAHand(i, b), OneHand(i, b)'
  PROVE  OnePlace(i, b)'
  BY DEF OnePlace

LEMMA HandsAreOne ==
  ASSUME IInv
  PROVE  \A i \in Born : \A b \in Branches(i) : OneHand(i, b)
  BY DEF IInv, Places, OnePlace

\* The store stays as it is, and every token where it is.
LEMMA UntouchedKeeps ==
  ASSUME IInv, inst' = inst, dropped' = dropped, excused' \subseteq Id,
         stack' \in [Call -> Seq(FrameType)], Frames',
         \A i \in Born : \A b \in Branches(i) : OneHand(i, b)' /\ (InAHand(i, b)' <=> InAHand(i, b))
  PROVE  IInv'
<1>1. Born' = Born /\ Lasting
  BY NoneChanged DEF IInv
<1>2. Typed'
  BY <1>1 DEF IInv, Typed
<1>3. Instances'
  BY <1>1, InstKept DEF IInv, Instances
<1>4. Places'
  <2>1. ASSUME NEW i \in Born, NEW b \in Branches(i) PROVE OnePlace(i, b)'
    <3>1. OnePlace(i, b)
      BY DEF IInv, Places
    <3> QED  BY <3>1, PlaceKept
  <2> QED  BY <1>1, <2>1, PlacesAre
<1> QED  BY <1>2, <1>3, <1>4 DEF IInv

LEMMA ReportKeeps ==
  ASSUME IInv, NEW c \in Call, Report(c)
  PROVE  IInv' /\ (WakeInv => WakeInv')
<1>1. /\ stack[c] # <<>> /\ Top(c).pc = "run" /\ Top(c).queue = <<>>
      /\ inst' = inst /\ dropped' = dropped /\ excused' = excused
  BY DEF Report, At
<1>2. Top(c) \in FrameType /\ FrameOk(Top(c)) /\ \A i, b : ~Carries(Top(c), i, b)
  BY <1>1, TopOk, NoQueue
<1>3. Lasting /\ Still
  BY <1>1, NoneChanged, StillIs DEF IInv, SameAt
<1>6. \A p : ~Promises(c, p)
  BY <1>1 DEF Promises, At
<1>4. CASE Pop(c) /\ ~IsOver(Top(c).i)
  <2>1. stack' \in [Call -> Seq(FrameType)] /\ Frames'
    BY <1>1, <1>3, <1>4, PopFrames
  <2>2. \A i \in Born : \A b \in Branches(i) : OneHand(i, b)' /\ (InAHand(i, b)' <=> InAHand(i, b))
    BY <1>1, <1>2, <1>3, <1>4, PopHands, HandsAreOne
  <2>3. IInv'
    BY <1>1, <2>1, <2>2, UntouchedKeeps DEF IInv, Typed
  <2>4. OtherCalls(c)
    BY <1>4, OthersStay DEF Pop
  <2>5. \A q \in Born : Reports(c, q) => Settles(c, q)
    BY <1>1, <1>4 DEF Reports, Settles, IsOver
  <2> QED  BY <1>1, <1>6, <2>3, <2>4, <2>5, NoneWakes
<1>5. CASE Replace(c, [Top(c) EXCEPT !.pc = "deliver"])
  <2>1. PICK g : g = [Top(c) EXCEPT !.pc = "deliver"]
    OBVIOUS
  <2>2. g \in FrameType /\ g.i = Top(c).i /\ g.queue = <<>> /\ g.pc = "deliver" /\ Replace(c, g)
    BY <1>1, <1>2, <1>5, <2>1 DEF FrameType, PC
  <2>3. FrameOk(g)
    BY <1>2, <2>2 DEF FrameOk
  <2>4. FrameOk(g)' /\ \A i, b : ~Carries(g, i, b)'
    BY <1>1, <1>3, <2>2, <2>3, FrameKept, NoQueue DEF Carries
  <2>5. stack' \in [Call -> Seq(FrameType)] /\ Frames'
    BY <1>1, <1>3, <2>2, <2>4, ReplaceFrames
  <2>6. \A i \in Born : \A b \in Branches(i) : OneHand(i, b)' /\ (InAHand(i, b)' <=> InAHand(i, b))
    BY <1>1, <1>2, <1>3, <2>2, <2>4, ReplaceHands, HandsAreOne
  <2>7. IInv'
    BY <1>1, <2>5, <2>6, UntouchedKeeps DEF IInv, Typed
  <2>8. OtherCalls(c) /\ Reporting(g.i)'
    BY <1>1, <2>2, TopReplaced
  <2>9. \A q \in Born : Reports(c, q) => Settles(c, q)
    BY <2>2, <2>8 DEF Reports, Settles
  <2> QED  BY <1>1, <1>6, <2>7, <2>8, <2>9, NoneWakes
<1> QED  BY <1>4, <1>5 DEF Report

\* One instance changes in what concerns none of its tokens.
Quiet(t, r) ==
  /\ t \in Born /\ r \in Instance /\ inst' = [inst EXCEPT ![t] = r]
  /\ r.def = inst[t].def /\ r.parent = inst[t].parent /\ r.at = inst[t].at
  /\ r.parked = inst[t].parked /\ r.ended = inst[t].ended /\ r.held = inst[t].held
  /\ r.previous \notin {"Completed", "Error"}
  /\ (r.state = "Call" \/ (r.state = "Suspended" /\ r.previous = "Call")) <=> HoldsToken(t)

LEMMA QuietIs ==
  ASSUME IInv, NEW t, NEW r, Quiet(t, r)
  PROVE  /\ inst' \in [Id -> Instance \cup {NoInst}] /\ Born' = Born /\ Lasting /\ Still
         /\ inst'[t] = r /\ Elsewhere(t)
<1>1. /\ inst' \in [Id -> Instance \cup {NoInst}] /\ Born' = Born /\ Lasting
      /\ inst'[t] = r /\ Elsewhere(t)
  BY OneChanged DEF IInv, Quiet
<1>2. \A i \in Born : \A b : SameAt(i, b)
  BY <1>1 DEF SameAt, Elsewhere, Quiet
<1> QED  BY <1>1, <1>2, StillIs

LEMMA QuietKeeps ==
  ASSUME IInv, NEW t, NEW r, Quiet(t, r), dropped' = dropped, excused' \subseteq Id,
         stack' \in [Call -> Seq(FrameType)], Frames',
         \A i \in Born : \A b \in Branches(i) : OneHand(i, b)' /\ (InAHand(i, b)' <=> InAHand(i, b))
  PROVE  IInv'
<1>1. /\ inst' \in [Id -> Instance \cup {NoInst}] /\ Born' = Born /\ Lasting
      /\ inst'[t] = r /\ Elsewhere(t)
  BY QuietIs
<1>2. Typed'
  BY <1>1 DEF IInv, Typed
<1>3. HoldsToken(t)' <=> HoldsToken(t)
  BY <1>1 DEF Quiet, HoldsToken
<1>4. Instances'
  <2>1. InstOk(t) /\ Branches(t)' = Branches(t) /\ \A y : NodeOf(t, y)' = NodeOf(t, y)
    BY <1>1 DEF IInv, Instances, Branches, NodeOf, Quiet
  <2>2. InstOk(t)'
    BY <1>1, <1>3, <2>1 DEF InstOk, Quiet
  <2>3. \A i \in Born \ {t} : InstOk(i)'
    BY <1>1, InstKept DEF IInv, Elsewhere
  <2> QED  BY <1>1, <2>2, <2>3 DEF Instances
<1>5. Places'
  <2>1. ASSUME NEW i \in Born, NEW b \in Branches(i) PROVE OnePlace(i, b)'
    <3>1. OnePlace(i, b)
      BY DEF IInv, Places
    <3>2. CASE i # t
      <4>1. inst'[i] = inst[i]
        BY <1>1, <3>2 DEF Elsewhere
      <4> QED  BY <3>1, <4>1, PlaceKept
    <3>3. CASE i = t
      <4>1. Held(i, b)' <=> Held(i, b)
        BY <1>1, <1>3, <3>3 DEF Held, Quiet
      <4>2. /\ b \in inst'[i].parked <=> b \in inst[i].parked
            /\ b \in inst'[i].ended <=> b \in inst[i].ended
        BY <1>1, <3>3 DEF Quiet
      <4> QED  BY <3>1, <4>1, <4>2, PlaceStays
    <3> QED  BY <3>2, <3>3
  <2> QED  BY <1>1, <2>1, PlacesAre
<1> QED  BY <1>2, <1>4, <1>5 DEF IInv

\* A batch that is replaced by one with the same queue, and neither resumes.
LEMMA SameQueue ==
  ASSUME IInv, Lasting, Still, NEW c \in Call, stack[c] # <<>>, Top(c).pc # "resume",
         NEW g \in FrameType, Replace(c, g), g.i = Top(c).i, g.queue = Top(c).queue, g.pc = "run"
  PROVE  /\ stack' \in [Call -> Seq(FrameType)] /\ Frames'
         /\ \A i \in Born : \A b \in Branches(i) : OneHand(i, b)' /\ (InAHand(i, b)' <=> InAHand(i, b))
<1>1. FrameOk(Top(c)) /\ \A i, b : Carries(Top(c), i, b) => InAHand(i, b)
  BY TopOk
<1>2. FrameOk(g)
  BY <1>1 DEF FrameOk, Emptied
<1>3. FrameOk(g)' /\ \A i, b : Carries(g, i, b)' <=> Carries(Top(c), i, b)
  BY <1>2, FrameKept DEF Carries
<1> QED  BY <1>1, <1>3, ReplaceFrames, ReplaceHands, HandsAreOne

LEMMA NoteKeeps ==
  ASSUME IInv, NEW c \in Call, NoteChild(c)
  PROVE  IInv' /\ (WakeInv => WakeInv')
<1>1. PICK t : t = Top(c).i
  OBVIOUS
<1>2. /\ stack[c] # <<>> /\ Top(c).pc = "spawned" /\ dropped' = dropped /\ excused' = excused
  BY DEF NoteChild, At
<1>3. t \in Born /\ Top(c) \in FrameType /\ inst[t] \in Instance /\ t \in Id
  BY <1>1, <1>2, TopOk, BornIs DEF IInv
<1>4. PICK g \in FrameType : /\ Replace(c, g) /\ g.i = Top(c).i /\ g.queue = Top(c).queue
                             /\ g.pc = "run"
  BY <1>3, SettledIs DEF NoteChild
<1>5. PICK r : Quiet(t, r) /\ r.state = inst[t].state /\ r.previous = inst[t].previous
                 /\ r.awaited = inst[t].awaited
  <2>1. PICK child : child = IF inst[t].state = "Call" THEN Top(c).child ELSE inst[t].sub
    OBVIOUS
  <2>2. inst' = [inst EXCEPT ![t].sub = child]
    BY <1>1, <1>3, <2>1 DEF NoteChild, IInv, Typed, Instance
  <2>3. PICK r : r = [inst[t] EXCEPT !.sub = child]
    OBVIOUS
  <2>4. child \in Id \cup {NoInst}
    BY <1>3, <2>1 DEF FrameType, Instance
  <2>5. r \in Instance
    BY <1>3, <2>3, <2>4 DEF Instance
  <2>6. inst' = [inst EXCEPT ![t] = r]
    BY <1>3, <2>2, <2>3 DEF IInv, Typed
  <2>7. /\ r.def = inst[t].def /\ r.parent = inst[t].parent /\ r.at = inst[t].at
        /\ r.parked = inst[t].parked /\ r.ended = inst[t].ended /\ r.held = inst[t].held
        /\ r.previous = inst[t].previous /\ r.state = inst[t].state /\ r.awaited = inst[t].awaited
    BY <1>3, <2>3 DEF Instance
  <2>8. InstOk(t)
    BY <1>3 DEF IInv, Instances
  <2> QED  BY <1>3, <2>5, <2>6, <2>7, <2>8 DEF Quiet, InstOk, HoldsToken
<1>6. Lasting /\ Still
  BY <1>5, QuietIs
<1>7. /\ stack' \in [Call -> Seq(FrameType)] /\ Frames'
      /\ \A i \in Born : \A b \in Branches(i) : OneHand(i, b)' /\ (InAHand(i, b)' <=> InAHand(i, b))
  <2>1. Top(c).pc # "resume"
    BY <1>2
  <2> QED  BY <1>2, <1>4, <1>6, <2>1, SameQueue
<1>8. IInv'
  BY <1>2, <1>5, <1>7, QuietKeeps DEF IInv, Typed
<1>9. ASSUME WakeInv PROVE WakeInv'
  <2>1. Born' = Born /\ Lasting /\ inst'[t] = r /\ Elsewhere(t)
    BY <1>5, QuietIs
  <2>2. (HoldsToken(t)' <=> HoldsToken(t)) /\ (IsOver(t)' <=> IsOver(t))
    BY <1>5, <2>1, SameState
  <2>3. \A p : ~Promises(c, p) /\ ~Reports(c, p)
    BY <1>2 DEF Promises, Reports, At
  <2>4. OtherCalls(c)
    BY <1>2, <1>4, TopReplaced
  <2>5. Calm(c, t) /\ Settles(c, t)
    BY <1>2, <1>5, <2>1, <2>2, <2>3 DEF Calm, Settles
  <2> QED  BY <1>2, <1>6, <1>9, <2>1, <2>3, <2>4, <2>5, OneWakes
<1> QED  BY <1>8, <1>9

LEMMA ArchiveKeeps ==
  ASSUME IInv, NEW c \in Call, Archive(c)
  PROVE  IInv' /\ (WakeInv => WakeInv')
<1>1. /\ stack[c] # <<>> /\ Top(c).pc = "archive" /\ Pop(c)
      /\ inst' = inst /\ dropped' = dropped /\ excused' = excused
  BY DEF Archive, At
<1>2. \A i, b : ~Carries(Top(c), i, b)
  BY <1>1, TopOk, NoQueue DEF FrameOk, Emptied
<1>3. Lasting /\ Still
  BY <1>1, NoneChanged, StillIs DEF IInv, SameAt
<1>4. stack' \in [Call -> Seq(FrameType)] /\ Frames'
  BY <1>1, <1>3, PopFrames
<1>5. \A i \in Born : \A b \in Branches(i) : OneHand(i, b)' /\ (InAHand(i, b)' <=> InAHand(i, b))
  BY <1>1, <1>2, <1>3, PopHands, HandsAreOne
<1>6. IInv'
  BY <1>1, <1>4, <1>5, UntouchedKeeps DEF IInv, Typed
<1>7. \A p : ~Promises(c, p) /\ ~Reports(c, p)
  BY <1>1 DEF Promises, Reports, At
<1>8. OtherCalls(c)
  BY <1>1, OthersStay DEF Pop
<1> QED  BY <1>1, <1>6, <1>7, <1>8, NoneWakes

LEMMA StackStays ==
  ASSUME IInv, Lasting, Still, stack' = stack
  PROVE  /\ stack' \in [Call -> Seq(FrameType)] /\ Frames'
         /\ \A i \in Born : \A b \in Branches(i) : OneHand(i, b)' /\ (InAHand(i, b)' <=> InAHand(i, b))
<1>1. stack' \in [Call -> Seq(FrameType)]
  BY DEF IInv, Typed
<1>2. ASSUME NEW c \in Call, NEW k \in 1..Len(stack[c])
      PROVE  /\ FrameOk(stack[c][k])'
             /\ \A i, b : Carries(stack[c][k], i, b)' <=> Carries(stack[c][k], i, b)
  <2>1. PICK f : f = stack[c][k] /\ f = stack'[c][k]
    OBVIOUS
  <2>2. FrameOk(f) /\ (f.pc = "resume" => SameAt(inst[f.i].parent, f.branch))
    BY <2>1 DEF IInv, Frames, Still
  <2>3. FrameOk(f)' /\ \A i, b : Carries(f, i, b)' <=> Carries(f, i, b)
    BY <2>2, FrameKept, CarriesKept DEF FrameOk
  <2> QED  BY <2>1, <2>3
<1>3. Frames'
  BY <1>2 DEF IInv, Frames
<1>4. \A c \in Call, k \in Nat : \A i, b : Hand(c, k, i, b)' <=> Hand(c, k, i, b)
  BY <1>2 DEF Hand
<1> QED  BY <1>1, <1>3, <1>4, HandsAreOne DEF OneHand, InAHand

LEMMA SuspendKeeps ==
  ASSUME IInv, NEW i \in Id, SuspendInstance(i)
  PROVE  IInv' /\ (WakeInv => WakeInv')
<1>1. /\ i \in Born /\ inst[i] \in Instance /\ InstOk(i)
      /\ stack' = stack /\ dropped' = dropped /\ excused' = excused
  BY BornIs DEF SuspendInstance, IInv, Instances
<1>2. PICK r : r = [inst[i] EXCEPT !.state = "Suspended", !.previous = inst[i].state]
  OBVIOUS
<1>3. r \in Instance
  BY <1>1, <1>2 DEF Instance, State
<1>4. inst' = [inst EXCEPT ![i] = r]
  BY <1>1, <1>2 DEF SuspendInstance, IInv, Typed
<1>5. /\ r.def = inst[i].def /\ r.parent = inst[i].parent /\ r.at = inst[i].at
      /\ r.parked = inst[i].parked /\ r.ended = inst[i].ended /\ r.held = inst[i].held
      /\ r.previous = inst[i].state /\ r.state = "Suspended" /\ r.awaited = inst[i].awaited
  BY <1>1, <1>2 DEF Instance
<1>6. inst[i].state \notin {"Suspended", "Completed", "Error"}
  BY DEF SuspendInstance, IsOver
<1>7. Quiet(i, r)
  BY <1>1, <1>3, <1>4, <1>5, <1>6 DEF Quiet, HoldsToken
<1>8. Lasting /\ Still
  BY <1>7, QuietIs
<1>9. /\ stack' \in [Call -> Seq(FrameType)] /\ Frames'
      /\ \A j \in Born : \A b \in Branches(j) : OneHand(j, b)' /\ (InAHand(j, b)' <=> InAHand(j, b))
  BY <1>1, <1>8, StackStays
<1>10. IInv'
  BY <1>1, <1>7, <1>9, QuietKeeps DEF IInv, Typed
<1>11. ASSUME WakeInv PROVE WakeInv'
  <2>1. Born' = Born /\ Lasting /\ inst'[i] = r /\ Elsewhere(i)
    BY <1>7, QuietIs
  <2>2. ~IsOver(i)'
    BY <1>5, <2>1 DEF IsOver
  <2>3. Calm(i, i)
    <3>1. HoldsToken(i)' => HoldsToken(i)
      BY <1>5, <1>7, <2>1 DEF HoldsToken
    <3>2. Promises(i, i) => Promised(i)'
      BY <1>1, CallKept DEF Promises, Promised
    <3> QED  BY <1>1, <1>5, <2>1, <3>1, <3>2 DEF Calm
  <2> QED  BY <1>1, <1>11, <2>1, <2>2, <2>3, StackWakes
<1> QED  BY <1>10, <1>11

LEMMA ResumeKeeps ==
  ASSUME IInv, NEW i \in Id, ResumeInstance(i)
  PROVE  IInv' /\ (WakeInv => WakeInv')
<1>1. /\ i \in Born /\ inst[i] \in Instance /\ InstOk(i) /\ inst[i].state = "Suspended"
      /\ stack' = stack /\ dropped' = dropped /\ excused' = excused
  BY BornIs DEF ResumeInstance, IInv, Instances
<1>2. PICK r : r = [inst[i] EXCEPT !.state = inst[i].previous, !.previous = "Running"]
  OBVIOUS
<1>3. r \in Instance
  BY <1>1, <1>2 DEF Instance, State
<1>4. inst' = [inst EXCEPT ![i] = r]
  BY <1>1, <1>2 DEF ResumeInstance, IInv, Typed
<1>5. /\ r.def = inst[i].def /\ r.parent = inst[i].parent /\ r.at = inst[i].at
      /\ r.parked = inst[i].parked /\ r.ended = inst[i].ended /\ r.held = inst[i].held
      /\ r.previous = "Running" /\ r.state = inst[i].previous /\ r.awaited = inst[i].awaited
  BY <1>1, <1>2 DEF Instance
<1>6. Quiet(i, r)
  BY <1>1, <1>3, <1>4, <1>5 DEF Quiet, HoldsToken
<1>7. Lasting /\ Still
  BY <1>6, QuietIs
<1>8. /\ stack' \in [Call -> Seq(FrameType)] /\ Frames'
      /\ \A j \in Born : \A b \in Branches(j) : OneHand(j, b)' /\ (InAHand(j, b)' <=> InAHand(j, b))
  BY <1>1, <1>7, StackStays
<1>9. IInv'
  BY <1>1, <1>6, <1>8, QuietKeeps DEF IInv, Typed
<1>10. ASSUME WakeInv PROVE WakeInv'
  <2>1. Born' = Born /\ Lasting /\ inst'[i] = r /\ Elsewhere(i)
    BY <1>6, QuietIs
  <2>2. ~IsOver(i)'
    BY <1>1, <1>5, <2>1 DEF IsOver, InstOk
  <2>3. Calm(i, i)
    <3>1. HoldsToken(i)' => HoldsToken(i)
      BY <1>1, <1>5, <2>1 DEF HoldsToken
    <3>2. Promises(i, i) => Promised(i)'
      BY <1>1, CallKept DEF Promises, Promised
    <3> QED  BY <1>1, <1>5, <2>1, <3>1, <3>2 DEF Calm
  <2> QED  BY <1>1, <1>10, <2>1, <2>2, <2>3, StackWakes
<1> QED  BY <1>9, <1>10

----------------------------------------------------------------------------
(***************************************************************************)
(* An instance is created: every branch of its definition is in the queue  *)
(* of its first batch.                                                     *)
(***************************************************************************)
Unmoved(i) ==
  /\ inst'[i] \in Instance
  /\ inst'[i].def = inst[i].def /\ inst'[i].parent = inst[i].parent /\ inst'[i].at = inst[i].at
  /\ inst'[i].parked = inst[i].parked /\ inst'[i].ended = inst[i].ended
  /\ inst'[i].held = inst[i].held /\ inst'[i].previous = inst[i].previous
  /\ inst'[i].state = inst[i].state
Bears(n, d, p) ==
  /\ n = NextId /\ n \in Id /\ d \in Def /\ p \in Born \cup {NoInst}
  /\ inst' \in [Id -> Instance \cup {NoInst}] /\ inst'[n] = NewInstance(d, p)
  /\ \A i \in Born : Unmoved(i)
  /\ \A i \in Id \ (Born \cup {n}) : inst'[i] = inst[i]

LEMMA BearsIs ==
  ASSUME IInv, NEW n, NEW d, NEW p, Bears(n, d, p)
  PROVE  /\ n \in Id \ Born /\ Born' = Born \cup {n} /\ Lasting /\ Still
         /\ \E m \in 0..MaxInst : Born' = 1..m
         /\ inst'[n].def = d /\ inst'[n].parent = p /\ inst'[n].parked = {} /\ inst'[n].ended = {}
         /\ inst'[n].state \in {"Running", "Parallel"} /\ inst'[n].previous = "Running"
         /\ \A b \in Branch : inst'[n].at[b] = 1
<1>1. n \in Id \ Born /\ \E m \in 0..MaxInst : Born \cup {n} = 1..m
  BY NextIsNew DEF Bears, IInv
<1>2. p \in Id \cup {NoInst}
  BY BornIs DEF Bears, IInv
<1>3. inst'[n] \in Instance
  BY <1>2, NewIsInstance DEF Bears
<1>4. inst'[n] # NoInst /\ \A i \in Born : inst'[i] # NoInst
  BY <1>3, NullAssumption DEF Bears, Unmoved
<1>5. Born' = Born \cup {n}
  BY <1>1, <1>4 DEF Born, Bears
<1>6. Lasting
  BY <1>5 DEF Lasting, Bears, Unmoved
<1>7. Still
  BY StillIs DEF SameAt, Bears, Unmoved
<1>8. /\ inst'[n].def = d /\ inst'[n].parent = p /\ inst'[n].parked = {} /\ inst'[n].ended = {}
      /\ inst'[n].state \in {"Running", "Parallel"} /\ inst'[n].previous = "Running"
      /\ \A b \in Branch : inst'[n].at[b] = 1
  BY DEF Bears, NewInstance
<1> QED  BY <1>1, <1>5, <1>6, <1>7, <1>8

LEMMA FirstBatch ==
  ASSUME IInv, NEW n, NEW d, NEW p, Bears(n, d, p), NEW g, g = Frame(n, AllBranches(d))
  PROVE  /\ g \in FrameType /\ FrameOk(g)' /\ g.i = n /\ g.pc = "run"
         /\ \A i, b : Carries(g, i, b)' <=> (i = n /\ b \in DOMAIN Plan[d])
<1>1. PICK q : q = AllBranches(d)
  OBVIOUS
<1>2. d \in Def /\ n \in Id
  BY DEF Bears
<1>3. /\ q \in Seq(Branch) /\ Len(q) = Len(Plan[d]) /\ Len(Plan[d]) \in Nat
      /\ DOMAIN Plan[d] = 1..Len(Plan[d]) /\ \A m \in 1..Len(q) : q[m] = m
  BY <1>1, <1>2, Plans
<1>4. /\ g.i = n /\ g.pc = "run" /\ g.queue = q
      /\ g = [i |-> n, queue |-> q, pc |-> "run", branch |-> NoBranch,
              called |-> NoBranch, callee |-> NoDef, child |-> NoInst]
  BY <1>1 DEF Frame
<1>5. g \in FrameType
  BY <1>2, <1>3, <1>4 DEF FrameType, PC
<1>6. n \in Born' /\ inst'[n].def = d
  BY BearsIs
<1>7. Branches(n)' = DOMAIN Plan[d]
  BY <1>6 DEF Branches
<1>8. FrameOk(g)'
  BY <1>3, <1>4, <1>6, <1>7 DEF FrameOk, Emptied
<1>9. \A b : b \in Range(q) <=> b \in DOMAIN Plan[d]
  BY <1>3, LenProperties DEF Range
<1> QED  BY <1>4, <1>5, <1>8, <1>9 DEF Carries

LEMMA BearsKeeps ==
  ASSUME IInv, NEW n, NEW d, NEW p, Bears(n, d, p), dropped' = dropped, excused' = excused,
         stack' \in [Call -> Seq(FrameType)], Frames',
         \A i \in Born : \A b \in Branches(i) : OneHand(i, b)' /\ (InAHand(i, b)' <=> InAHand(i, b)),
         \A b \in DOMAIN Plan[d] : OneHand(n, b)' /\ InAHand(n, b)'
  PROVE  IInv'
<1>1. /\ n \in Id \ Born /\ Born' = Born \cup {n} /\ Lasting
      /\ \E m \in 0..MaxInst : Born' = 1..m
      /\ inst'[n].def = d /\ inst'[n].parent = p /\ inst'[n].parked = {} /\ inst'[n].ended = {}
      /\ inst'[n].state \in {"Running", "Parallel"} /\ inst'[n].previous = "Running"
      /\ \A b \in Branch : inst'[n].at[b] = 1
  BY BearsIs
<1>2. /\ d \in Def /\ p \in Born \cup {NoInst} /\ inst' \in [Id -> Instance \cup {NoInst}]
      /\ \A i \in Born : Unmoved(i)
  BY DEF Bears
<1>3. Typed'
  BY <1>1, <1>2 DEF IInv, Typed
<1>4. \A i \in Born : (HoldsToken(i)' <=> HoldsToken(i)) /\ Branches(i)' = Branches(i)
  BY <1>2 DEF HoldsToken, Unmoved, Branches
<1>5. ~HoldsToken(n)' /\ Branches(n)' = DOMAIN Plan[d]
  BY <1>1 DEF HoldsToken, Branches
<1>6. Instances'
  <2>1. ASSUME NEW i \in Born PROVE InstOk(i)'
    <3>1. InstOk(i) /\ \A b : NodeOf(i, b)' = NodeOf(i, b)
      BY <1>2 DEF IInv, Instances, NodeOf, Unmoved
    <3> QED  BY <1>1, <1>2, <1>4, <3>1 DEF InstOk, Unmoved
  <2>2. InstOk(n)'
    <3>1. \A b \in DOMAIN Plan[d] : b \in Branch /\ 1 <= Len(Plan[d][b])
      BY <1>2, Plans
    <3> QED  BY <1>1, <1>2, <1>5, <3>1 DEF InstOk
  <2> QED  BY <1>1, <2>1, <2>2 DEF Instances
<1>7. Places'
  <2>1. ASSUME NEW i \in Born, NEW b \in Branches(i) PROVE OnePlace(i, b)'
    <3>1. OnePlace(i, b)
      BY DEF IInv, Places
    <3>2. Held(i, b)' <=> Held(i, b)
      BY <1>2, <1>4 DEF Held, Unmoved
    <3>3. /\ b \in inst'[i].parked <=> b \in inst[i].parked
          /\ b \in inst'[i].ended <=> b \in inst[i].ended
      BY <1>2 DEF Unmoved
    <3> QED  BY <3>1, <3>2, <3>3, PlaceStays
  <2>2. ASSUME NEW b \in DOMAIN Plan[d] PROVE OnePlace(n, b)'
    <3>1. <<n, b>> \notin dropped' /\ ~Held(n, b)'
      BY <1>1, <1>5 DEF IInv, Typed, Held
    <3> QED  BY <1>1, <3>1 DEF OnePlace
  <2> QED  BY <1>1, <1>4, <1>5, <2>1, <2>2 DEF Places
<1> QED  BY <1>3, <1>6, <1>7 DEF IInv

LEMMA StartKeeps ==
  ASSUME IInv, NEW c \in Call, NEW d \in Root, StartRoot(c, d)
  PROVE  IInv' /\ (WakeInv => WakeInv')
<1>1. PICK n : n = NextId
  OBVIOUS
<1>2. /\ n \in Id /\ stack[c] = <<>> /\ dropped' = dropped /\ excused' = excused /\ d \in Def
      /\ inst' = [inst EXCEPT ![n] = NewInstance(d, NoInst)]
  BY <1>1, RootAssumption DEF StartRoot
<1>3. n \in Id \ Born
  BY <1>1, <1>2, NextIsNew DEF IInv
<1>4. Bears(n, d, NoInst)
  <2>1. NewInstance(d, NoInst) \in Instance
    BY <1>2, NewIsInstance
  <2>2. /\ inst' \in [Id -> Instance \cup {NoInst}] /\ inst'[n] = NewInstance(d, NoInst)
        /\ \A i \in Id \ {n} : inst'[i] = inst[i]
    BY <1>2, <2>1 DEF IInv, Typed
  <2>3. \A i \in Born : Unmoved(i)
    BY <1>3, <2>2, BornIs DEF IInv, Unmoved
  <2> QED  BY <1>1, <1>2, <2>2, <2>3 DEF Bears
<1>5. PICK g : g = Frame(n, AllBranches(d))
  OBVIOUS
<1>6. /\ g \in FrameType /\ FrameOk(g)'
      /\ \A i, b : Carries(g, i, b)' <=> (i = n /\ b \in DOMAIN Plan[d])
  BY <1>4, <1>5, FirstBatch
<1>7. Lasting /\ Still
  BY <1>4, BearsIs
<1>8. stack' = [stack EXCEPT ![c] = <<g>>]
  BY <1>1, <1>5 DEF StartRoot
<1>9. stack' \in [Call -> Seq(FrameType)] /\ Frames'
  BY <1>6, <1>7, <1>8, OpenFrames
<1>10. \A i \in Born : \A b \in Branches(i) : OneHand(i, b)' /\ (InAHand(i, b)' <=> InAHand(i, b))
  <2>1. ASSUME NEW i \in Born, NEW b \in Branches(i)
        PROVE  OneHand(i, b)' /\ (InAHand(i, b)' <=> InAHand(i, b))
    <3>1. ~Carries(g, i, b)' /\ OneHand(i, b)
      BY <1>3, <1>6, HandsAreOne
    <3> QED  BY <1>2, <1>6, <1>7, <1>8, <3>1, OpenHands
  <2> QED  BY <2>1
<1>11. \A b \in DOMAIN Plan[d] : OneHand(n, b)' /\ InAHand(n, b)'
  <2>1. ASSUME NEW b \in DOMAIN Plan[d] PROVE OneHand(n, b)' /\ InAHand(n, b)'
    <3>1. ~InAHand(n, b) /\ OneHand(n, b) /\ Carries(g, n, b)'
      BY <1>3, <1>6, NewUnseen
    <3> QED  BY <1>2, <1>6, <1>7, <1>8, <3>1, OpenHands
  <2> QED  BY <2>1
<1>12. IInv'
  BY <1>2, <1>4, <1>9, <1>10, <1>11, BearsKeeps
<1>13. ASSUME WakeInv PROVE WakeInv'
  <2>1. \A q : ~Promises(c, q) /\ ~Reports(c, q)
    BY <1>2 DEF Promises, Reports, At
  <2>2. OtherCalls(c)
    BY <1>8, OthersStay
  <2>3. \A p \in Born : inst'[p] = inst[p]
    BY <1>2, <1>3 DEF Born, IInv, Typed
  <2>4. \A p \in Born : Calm(c, p) /\ Settles(c, p)
    BY <1>2, <2>1, <2>3, SameState DEF Calm, Settles
  <2>5. \A p \in Born' \ Born : ~HoldsToken(p)'
    BY <1>4, BearsIs DEF HoldsToken
  <2> QED  BY <1>7, <1>13, <2>2, <2>4, <2>5, WakeKept
<1> QED  BY <1>12, <1>13

LEMMA SpawnKeeps ==
  ASSUME IInv, NEW c \in Call, SpawnChild(c)
  PROVE  IInv' /\ (WakeInv => WakeInv')
<1>1. PICK n, d, t : n = NextId /\ d = Top(c).callee /\ t = Top(c).i
  OBVIOUS
<1>2. /\ n \in Id /\ stack[c] # <<>> /\ Top(c).pc = "spawn"
      /\ dropped' = dropped /\ excused' = excused
      /\ inst' = [inst EXCEPT ![n] = NewInstance(d, t), ![t].awaited = n]
  BY <1>1 DEF SpawnChild, At
<1>3. n \in Id \ Born
  BY <1>1, <1>2, NextIsNew DEF IInv
<1>4. /\ Top(c) \in FrameType /\ FrameOk(Top(c)) /\ t \in Born /\ t \in Id /\ t # n
      /\ inst[t] \in Instance /\ d \in Def /\ \A i, b : Carries(Top(c), i, b) => InAHand(i, b)
  BY <1>1, <1>2, <1>3, TopOk, BornIs DEF IInv, FrameOk
<1>5. Bears(n, d, t)
  <2>1. NewInstance(d, t) \in Instance
    BY <1>4, NewIsInstance
  <2>2. PICK r : r = [inst[t] EXCEPT !.awaited = n]
    OBVIOUS
  <2>3. /\ r \in Instance /\ r.def = inst[t].def /\ r.parent = inst[t].parent /\ r.at = inst[t].at
        /\ r.parked = inst[t].parked /\ r.ended = inst[t].ended /\ r.held = inst[t].held
        /\ r.previous = inst[t].previous /\ r.state = inst[t].state
    BY <1>2, <1>4, <2>2 DEF Instance
  <2>4. /\ inst' \in [Id -> Instance \cup {NoInst}] /\ inst'[n] = NewInstance(d, t) /\ inst'[t] = r
        /\ \A i \in Id \ {n, t} : inst'[i] = inst[i]
    BY <1>2, <1>4, <2>1, <2>2, <2>3 DEF IInv, Typed
  <2>5. \A i \in Born : Unmoved(i)
    BY <1>3, <1>4, <2>3, <2>4, BornIs DEF IInv, Unmoved
  <2> QED  BY <1>1, <1>2, <1>4, <2>4, <2>5 DEF Bears
<1>6. PICK g : g = Frame(n, AllBranches(d))
  OBVIOUS
<1>7. /\ g \in FrameType /\ FrameOk(g)'
      /\ \A i, b : Carries(g, i, b)' <=> (i = n /\ b \in DOMAIN Plan[d])
  BY <1>5, <1>6, FirstBatch
<1>8. Lasting /\ Still
  BY <1>5, BearsIs
<1>9. PICK f : f = [Top(c) EXCEPT !.pc = "spawned", !.child = n]
  OBVIOUS
<1>10. /\ f \in FrameType /\ f.i = t /\ f.queue = Top(c).queue /\ f.pc = "spawned"
       /\ Nest(c, f, g)
  BY <1>1, <1>2, <1>4, <1>6, <1>9 DEF FrameType, PC, SpawnChild
<1>11. FrameOk(f)' /\ \A i, b : Carries(f, i, b)' <=> Carries(Top(c), i, b)
  <2>1. FrameOk(f)
    BY <1>1, <1>4, <1>10 DEF FrameOk, Emptied
  <2>2. FrameOk(f)'
    BY <1>8, <1>10, <2>1, FrameKept
  <2> QED  BY <1>1, <1>2, <1>10, <2>2 DEF Carries
<1>12. stack' \in [Call -> Seq(FrameType)] /\ Frames'
  <2>1. f.pc \in Below
    BY <1>10 DEF Below
  <2> QED  BY <1>2, <1>7, <1>8, <1>10, <1>11, <2>1, NestFrames DEF Still
<1>13. \A i \in Born : \A b \in Branches(i) : OneHand(i, b)' /\ (InAHand(i, b)' <=> InAHand(i, b))
  <2>1. ASSUME NEW i \in Born, NEW b \in Branches(i)
        PROVE  OneHand(i, b)' /\ (InAHand(i, b)' <=> InAHand(i, b))
    <3>1. ~Carries(g, i, b)' /\ OneHand(i, b)
      BY <1>3, <1>7, HandsAreOne
    <3>2. Carries(f, i, b)' <=> Carries(Top(c), i, b)
      BY <1>11
    <3> QED  BY <1>2, <1>4, <1>7, <1>8, <1>10, <3>1, <3>2, NestHands
  <2> QED  BY <2>1
<1>14. \A b \in DOMAIN Plan[d] : OneHand(n, b)' /\ InAHand(n, b)'
  <2>1. ASSUME NEW b \in DOMAIN Plan[d] PROVE OneHand(n, b)' /\ InAHand(n, b)'
    <3>1. ~InAHand(n, b) /\ OneHand(n, b) /\ Carries(g, n, b)'
      BY <1>3, <1>7, NewUnseen
    <3>2. ~Carries(f, n, b)'
      BY <1>4, <1>11, <3>1
    <3> QED  BY <1>2, <1>7, <1>8, <1>10, <3>1, <3>2, NestHands
  <2> QED  BY <2>1
<1>15. IInv'
  BY <1>2, <1>5, <1>12, <1>13, <1>14, BearsKeeps
<1>16. ASSUME WakeInv PROVE WakeInv'
  <2>1. \A q : ~Reports(c, q) /\ (Promises(c, q) => q = t)
    BY <1>1, <1>2 DEF Promises, Reports, At
  <2>2. OtherCalls(c)
    BY <1>10, OthersStay DEF Nest
  <2>3. /\ Born' = Born \cup {n} /\ inst'[n].parent = t
        /\ inst'[n].state \in {"Running", "Parallel"}
    BY <1>5, BearsIs
  <2>4. inst'[t].awaited = n /\ \A p \in Born \ {t} : inst'[p] = inst[p]
    <3>1. inst \in [Id -> Instance \cup {NoInst}] /\ Born \subseteq Id
      BY DEF IInv, Typed, Born
    <3>2. PICK born : born = NewInstance(d, t)
      OBVIOUS
    <3> QED  BY <1>2, <1>3, <1>4, <3>1, <3>2 DEF Instance
  <2>5. Coming(t, n)'
    BY <2>3, <2>4 DEF Coming, IsOver
  <2>6. \A p \in Born : Calm(c, p) \/ Served(p)
    <3>1. ASSUME NEW p \in Born \ {t} PROVE Calm(c, p)
      BY <1>2, <2>1, <2>4, SameState DEF Calm
    <3> QED  BY <2>5, <3>1 DEF Served
  <2>7. \A p \in Born : Settles(c, p)
    <3>1. \A p \in Born : IsOver(p)' <=> IsOver(p)
      BY <1>5 DEF Bears, Unmoved, IsOver
    <3> QED  BY <2>1, <3>1 DEF Settles
  <2>8. \A p \in Born' \ Born : ~HoldsToken(p)'
    BY <1>5, BearsIs DEF HoldsToken
  <2> QED  BY <1>8, <1>16, <2>2, <2>6, <2>7, <2>8, WakeKept
<1> QED  BY <1>15, <1>16

----------------------------------------------------------------------------
(***************************************************************************)
(* Token b of instance t comes into the hands of a batch: it was parked, or *)
(* held by the state that waits for a call.                                *)
(***************************************************************************)
Given(t, b) ==
  /\ inst'[t].ended = inst[t].ended /\ \A y : ~Held(t, y)'
  /\ \/ /\ b \in inst[t].parked /\ inst'[t].parked = inst[t].parked \ {b}
        /\ \A i, y : <<i, y>> \in dropped' <=> (<<i, y>> \in dropped \/ (i = t /\ Held(t, y)))
     \/ /\ Held(t, b) /\ inst'[t].parked = inst[t].parked
        /\ \A i, y : <<i, y>> \in dropped' <=> <<i, y>> \in dropped
HandsGain(t, b) ==
  \A i \in Born : \A y \in Branches(i) :
    OneHand(i, y)' /\ (InAHand(i, y)' <=> (InAHand(i, y) \/ (i = t /\ y = b)))

LEMMA PlacesGiven ==
  ASSUME IInv, Born' = Born, Lasting, NEW t \in Born, NEW b, Elsewhere(t),
         Given(t, b), HandsGain(t, b)
  PROVE  Places'
<1> USE DEF Elsewhere, HandsGain
<1>1. ASSUME NEW i \in Born, NEW y \in Branches(i) PROVE OnePlace(i, y)'
  <2>1. OnePlace(i, y)
    BY DEF IInv, Places
  <2>2. OneHand(i, y)' /\ (InAHand(i, y)' <=> (InAHand(i, y) \/ (i = t /\ y = b)))
    OBVIOUS
  <2>3. CASE i # t
    <3>1. inst'[i] = inst[i]
      BY <2>3
    <3>2. <<i, y>> \in dropped' <=> <<i, y>> \in dropped
      BY <2>3 DEF Given
    <3> QED  BY <2>1, <2>2, <2>3, <3>1, <3>2, PlaceKept
  <2>4. CASE i = t /\ b \in inst[t].parked
    <3>1. ~Held(i, b)
      <4>1. CASE b \in Branches(t)
        BY <2>4, <4>1 DEF IInv, Places, OnePlace
      <4>2. CASE b \notin Branches(t)
        BY <2>4, <4>2 DEF IInv, Instances, InstOk
      <4> QED  BY <4>1, <4>2
    <3>2. /\ y \in inst'[i].parked <=> y \in inst[i].parked /\ y # b
          /\ y \in inst'[i].ended <=> y \in inst[i].ended
          /\ ~Held(i, y)'
          /\ <<i, y>> \in dropped' <=> (<<i, y>> \in dropped \/ Held(i, y))
      BY <2>4, <3>1 DEF Given
    <3>3. InAHand(i, y)' <=> (InAHand(i, y) \/ y = b)
      BY <2>2, <2>4
    <3> QED  BY <2>1, <2>2, <2>4, <3>1, <3>2, <3>3 DEF OnePlace
  <2>5. CASE i = t /\ b \notin inst[t].parked
    <3>1. /\ y \in inst'[i].parked <=> y \in inst[i].parked
          /\ y \in inst'[i].ended <=> y \in inst[i].ended
          /\ ~Held(i, y)' /\ (Held(i, y) <=> y = b)
          /\ <<i, y>> \in dropped' <=> <<i, y>> \in dropped
      BY <2>5 DEF Given, Held
    <3>2. InAHand(i, y)' <=> (InAHand(i, y) \/ y = b)
      BY <2>2, <2>5
    <3> QED  BY <2>1, <2>2, <3>1, <3>2 DEF OnePlace
  <2> QED  BY <2>3, <2>4, <2>5
<1> QED  BY <1>1, PlacesAre

LEMMA DeliverKeeps ==
  ASSUME IInv, NEW c \in Call, Deliver(c)
  PROVE  IInv' /\ (WakeInv => WakeInv')
<1>1. PICK t, p : t = Top(c).i /\ p = inst[t].parent /\ p = ParentOf(c)
  BY DEF ParentOf
<1>2. /\ stack[c] # <<>> /\ Top(c).pc = "deliver" /\ dropped' = dropped
  BY DEF Deliver, At
<1>3. /\ Top(c) \in FrameType /\ FrameOk(Top(c)) /\ t \in Born /\ t \in Id /\ Top(c).queue = <<>>
      /\ inst[t] \in Instance /\ \A i, b : ~Carries(Top(c), i, b)
  BY <1>1, <1>2, TopOk, NoQueue, BornIs DEF IInv, FrameOk, Emptied
<1>4. p \in Born \cup {NoInst}
  BY <1>1, <1>3 DEF IInv, Instances, InstOk
<1>7. \A q : ~Promises(c, q)
  BY <1>2 DEF Promises, At
<1>5. CASE /\ Pop(c) /\ inst' = inst /\ excused' \subseteq excused \cup (Born \cap {p})
           /\ excused \subseteq excused' /\ (p = NoInst \/ p \in excused')
  <2>1. Lasting /\ Still
    BY <1>5, NoneChanged, StillIs DEF IInv, SameAt
  <2>2. stack' \in [Call -> Seq(FrameType)] /\ Frames'
    BY <1>2, <1>5, <2>1, PopFrames
  <2>3. \A i \in Born : \A b \in Branches(i) : OneHand(i, b)' /\ (InAHand(i, b)' <=> InAHand(i, b))
    BY <1>2, <1>3, <1>5, <2>1, PopHands, HandsAreOne
  <2>4. excused' \subseteq Id
    BY <1>5 DEF IInv, Typed, Born
  <2>5. IInv'
    BY <1>2, <1>5, <2>2, <2>3, <2>4, UntouchedKeeps
  <2>6. ASSUME WakeInv PROVE WakeInv'
    <3>1. OtherCalls(c)
      BY <1>2, <1>5, OthersStay DEF Pop
    <3>2. Settles(c, t) /\ \A q : Reports(c, q) => q = t
      BY <1>1, <1>5, NullAssumption DEF Settles, Reports, Born
    <3> QED  BY <1>5, <1>7, <2>6, <3>1, <3>2, NoneWakes
  <2> QED  BY <2>5, <2>6
<1>6. CASE p # NoInst /\ inst[p].state = "Call"
  <2>1. p \in Born /\ inst[p] \in Instance /\ InstOk(p) /\ p \in Id
    BY <1>4, <1>6, BornIs DEF IInv, Instances
  <2>2. PICK b : b = inst[p].held /\ b \in Branches(p) /\ NodeOf(p, b).kind = "call" /\ Held(p, b)
                 /\ b \in Branch
    BY <1>6, <2>1, BranchesAre DEF IInv, InstOk, HoldsToken, Held
  <2>3. PICK r : r = [inst[p] EXCEPT !.state = "Running"]
    OBVIOUS
  <2>4. r \in Instance
    BY <2>1, <2>3 DEF Instance, State
  <2>5. inst' = [inst EXCEPT ![p] = r] /\ excused' = excused
    BY <1>1, <1>6, <2>1, <2>3 DEF Deliver, IInv, Typed
  <2>6. /\ r.def = inst[p].def /\ r.parent = inst[p].parent /\ r.at = inst[p].at
        /\ r.parked = inst[p].parked /\ r.ended = inst[p].ended
        /\ r.previous = inst[p].previous /\ r.state = "Running"
    BY <2>1, <2>3 DEF Instance
  <2>7. /\ inst' \in [Id -> Instance \cup {NoInst}] /\ Born' = Born /\ Lasting
        /\ inst'[p] = r /\ Elsewhere(p)
    BY <2>1, <2>4, <2>5, <2>6, OneChanged DEF IInv
  <2>8. Still
    <3>1. \A i \in Born : \A y : SameAt(i, y)
      BY <2>6, <2>7 DEF SameAt, Elsewhere
    <3> QED  BY <3>1, StillIs
  <2>9. PICK g : g = [Top(c) EXCEPT !.pc = "resume", !.branch = b, !.called = inst[p].current]
    OBVIOUS
  <2>10. g \in FrameType /\ g.i = t /\ g.queue = <<>> /\ g.pc = "resume" /\ g.branch = b
    BY <1>1, <1>3, <2>1, <2>2, <2>9 DEF FrameType, PC, Instance
  <2>11. Replace(c, g)
    BY <1>1, <1>6, <2>2, <2>9 DEF Deliver
  <2>12. inst'[t].parent = p
    BY <1>1, <1>3, <2>7 DEF Lasting
  <2>13. Branches(p)' = Branches(p) /\ \A y : NodeOf(p, y)' = NodeOf(p, y)
    BY <2>6, <2>7 DEF Branches, NodeOf
  <2>14. FrameOk(g)'
    BY <1>3, <2>1, <2>2, <2>7, <2>10, <2>12, <2>13 DEF FrameOk
  <2>15. \A i, y : Carries(g, i, y)' <=> (i = p /\ y = b)
    <3>1. \A y : y \notin Range(g.queue)
      BY <2>10 DEF Range
    <3> QED  BY <2>10, <2>12, <3>1 DEF Carries
  <2>16. stack' \in [Call -> Seq(FrameType)] /\ Frames'
    BY <1>2, <2>7, <2>8, <2>10, <2>11, <2>14, ReplaceFrames
  <2>17. ~InAHand(p, b)
    BY <2>1, <2>2 DEF IInv, Places, OnePlace
  <2>18. HandsGain(p, b)
    <3>1. ASSUME NEW i \in Born, NEW y \in Branches(i)
          PROVE  OneHand(i, y)' /\ (InAHand(i, y)' <=> (InAHand(i, y) \/ (i = p /\ y = b)))
      <4>1. OneHand(i, y) /\ ~Carries(Top(c), i, y) /\ (Carries(g, i, y)' <=> (i = p /\ y = b))
        BY <1>3, <2>15, HandsAreOne
      <4>2. Carries(g, i, y)' => ~InAHand(i, y)
        BY <2>17, <4>1
      <4> QED  BY <1>2, <2>7, <2>10, <2>11, <4>1, <4>2, ReplaceHands
    <3> QED  BY <3>1 DEF HandsGain
  <2>19. ~HoldsToken(p)'
    BY <2>6, <2>7 DEF HoldsToken
  <2>20. Given(p, b)
    BY <1>2, <2>2, <2>6, <2>7, <2>19 DEF Given, Held
  <2>21. Places'
    BY <2>1, <2>7, <2>18, <2>20, PlacesGiven
  <2>22. Instances'
    <3>1. InstOk(p)'
      BY <2>1, <2>6, <2>7, <2>13, <2>19 DEF InstOk
    <3>2. \A i \in Born \ {p} : InstOk(i)'
      BY <2>7, InstKept DEF IInv, Elsewhere
    <3> QED  BY <2>7, <3>1, <3>2 DEF Instances
  <2>23. Typed'
    BY <1>2, <2>5, <2>7, <2>16 DEF IInv, Typed
  <2>24. IInv'
    BY <2>16, <2>21, <2>22, <2>23 DEF IInv
  <2>25. ASSUME WakeInv PROVE WakeInv'
    <3>1. OtherCalls(c)
      BY <1>2, <2>10, <2>11, TopReplaced
    <3>2. Served(p) /\ Settles(c, p)
      BY <2>6, <2>7, <2>19 DEF Served, Settles, IsOver
    <3>3. \A q : Reports(c, q) => Settles(c, q)
      BY <1>1, <2>19 DEF Reports, Settles
    <3> QED  BY <1>7, <2>5, <2>7, <2>25, <3>1, <3>2, <3>3, OneWakes
  <2> QED  BY <2>24, <2>25
<1> QED  BY <1>1, <1>4, <1>5, <1>6 DEF Deliver

\* A node moves under no batch if only that of a token nobody has in hand does.
LEMMA StillBut ==
  ASSUME IInv, NEW t, NEW b, ~InAHand(t, b),
         \A i \in Born, y \in Branch : i # t \/ y # b => SameAt(i, y)
  PROVE  Still
<1>1. ASSUME NEW c \in Call, NEW k \in 1..Len(stack[c]), stack[c][k].pc = "resume"
      PROVE  SameAt(inst[stack[c][k].i].parent, stack[c][k].branch)
  <2>1. PICK f : f = stack[c][k]
    OBVIOUS
  <2>2. inst[f.i].parent \in Born /\ f.branch \in Branch
    BY <1>1, <2>1, BranchesAre DEF IInv, Frames, FrameOk
  <2>3. InAHand(inst[f.i].parent, f.branch)
    <3>1. k \in Nat /\ Hand(c, k, inst[f.i].parent, f.branch)
      BY <1>1, <2>1 DEF Hand, Carries
    <3> QED  BY <3>1 DEF InAHand
  <2> QED  BY <2>1, <2>2, <2>3
<1> QED  BY <1>1 DEF Still

LEMMA CompleteKeeps ==
  ASSUME IInv, NEW c \in Call, NEW t \in Id, NEW b \in Branch, CompleteTask(c, t, b)
  PROVE  IInv' /\ (WakeInv => WakeInv')
<1>1. /\ stack[c] = <<>> /\ t \in Born /\ b \in inst[t].parked /\ inst[t].state # "Suspended"
      /\ inst[t] \in Instance /\ InstOk(t) /\ b \in Branches(t)
      /\ dropped' = dropped \cup Overwritten(t) /\ excused' = excused
  BY BornIs DEF CompleteTask, IInv, Instances, InstOk
<1>2. PICK state \in State : state = IF inst[t].state = "Parallel" THEN "Parallel" ELSE "Running"
  BY DEF State
<1>a. PICK at \in [Branch -> Nat \ {0}] :
        /\ at = [inst[t].at EXCEPT ![b] = @ + 1] /\ inst[t].at[b] \in Nat /\ at[b] = inst[t].at[b] + 1
        /\ \A y \in Branch \ {b} : at[y] = inst[t].at[y]
  <2>1. PICK old : old = inst[t].at /\ old \in [Branch -> Nat \ {0}]
    BY <1>1 DEF Instance
  <2>2. PICK at : at = [old EXCEPT ![b] = old[b] + 1]
    OBVIOUS
  <2>3. /\ at \in [Branch -> Nat \ {0}] /\ old[b] \in Nat /\ at[b] = old[b] + 1
        /\ \A y \in Branch \ {b} : at[y] = old[y]
    BY <2>1, <2>2
  <2> QED  BY <2>1, <2>2, <2>3
<1>3. PICK r : r = [inst[t] EXCEPT !.parked = @ \ {b}, !.at = at, !.current = b, !.state = state]
  OBVIOUS
<1>b. r \in Instance
  BY <1>1, <1>3 DEF Instance
<1>4. /\ r.def = inst[t].def /\ r.parent = inst[t].parent
      /\ inst[t].at[b] \in Nat /\ r.at[b] = inst[t].at[b] + 1
      /\ \A y \in Branch \ {b} : r.at[y] = inst[t].at[y]
      /\ r.parked = inst[t].parked \ {b} /\ r.ended = inst[t].ended /\ r.held = inst[t].held
      /\ r.previous = inst[t].previous /\ r.state = state
  BY <1>1, <1>a, <1>3 DEF Instance
<1>5. inst' = [inst EXCEPT ![t] = r]
  <2>1. inst' = [inst EXCEPT ![t].parked = @ \ {b}, ![t].at[b] = @ + 1, ![t].current = b,
                             ![t].state = IF @ = "Parallel" THEN @ ELSE "Running"]
    BY DEF CompleteTask
  <2>2. inst' = [inst EXCEPT ![t] = [inst[t] EXCEPT !.parked = @ \ {b}, !.at[b] = @ + 1, !.current = b,
                             !.state = IF @ = "Parallel" THEN @ ELSE "Running"]]
    <3>1. inst \in [Id -> Instance \cup {NoInst}] /\ t \in Id
      BY DEF IInv, Typed
    <3> QED  BY <1>1, <2>1, <3>1, ZenonT(30)
  <2>3. [inst[t] EXCEPT !.parked = @ \ {b}, !.at[b] = @ + 1, !.current = b,
                             !.state = IF @ = "Parallel" THEN @ ELSE "Running"] = r
    BY <1>1, <1>2, <1>a, <1>3 DEF Instance
  <2> QED  BY <2>2, <2>3
<1>6. /\ inst' \in [Id -> Instance \cup {NoInst}] /\ Born' = Born /\ Lasting
      /\ inst'[t] = r /\ Elsewhere(t)
  BY <1>1, <1>b, <1>4, <1>5, OneChanged DEF IInv
<1>7. ~InAHand(t, b) /\ ~Held(t, b)
  BY <1>1 DEF IInv, Places, OnePlace
<1>8. Still
  <2>1. \A i \in Born, y \in Branch : i # t \/ y # b => SameAt(i, y)
    BY <1>4, <1>6 DEF SameAt, Elsewhere
  <2> QED  BY <1>7, <2>1, StillBut
<1>9. PICK g : g = Frame(t, <<b>>)
  OBVIOUS
<1>10. g \in FrameType /\ g.i = t /\ g.queue = <<b>> /\ g.pc = "run"
  BY <1>9 DEF Frame, FrameType, PC
<1>11. FrameOk(g)'
  <2>1. b \in Branches(t)' /\ t \in Born'
    BY <1>1, <1>4, <1>6 DEF Branches
  <2> QED  BY <1>10, <2>1 DEF FrameOk, Emptied
<1>12. \A i, y : Carries(g, i, y)' <=> (i = t /\ y = b)
  <2>1. \A y : y \in Range(<<b>>) <=> y = b
    BY DEF Range
  <2> QED  BY <1>10, <2>1 DEF Carries
<1>13. stack' = [stack EXCEPT ![c] = <<g>>]
  BY <1>9 DEF CompleteTask
<1>14. stack' \in [Call -> Seq(FrameType)] /\ Frames'
  BY <1>6, <1>8, <1>10, <1>11, <1>13, OpenFrames
<1>15. HandsGain(t, b)
  <2>1. ASSUME NEW i \in Born, NEW y \in Branches(i)
        PROVE  OneHand(i, y)' /\ (InAHand(i, y)' <=> (InAHand(i, y) \/ (i = t /\ y = b)))
    <3>1. OneHand(i, y) /\ (Carries(g, i, y)' <=> (i = t /\ y = b))
      BY <1>12, HandsAreOne
    <3>2. Carries(g, i, y)' => ~InAHand(i, y)
      BY <1>7, <3>1
    <3> QED  BY <1>1, <1>6, <1>10, <1>13, <3>1, <3>2, OpenHands
  <2> QED  BY <2>1 DEF HandsGain
<1>16. ~HoldsToken(t)' /\ \A y : ~Held(t, y)'
  BY <1>2, <1>4, <1>6 DEF HoldsToken, Held
<1>17. Given(t, b)
  <2>1. \A i, y : <<i, y>> \in dropped' <=> (<<i, y>> \in dropped \/ (i = t /\ Held(t, y)))
    BY <1>1, OverwrittenIs
  <2> QED  BY <1>1, <1>4, <1>6, <1>16, <2>1 DEF Given
<1>18. Places'
  BY <1>1, <1>6, <1>15, <1>17, PlacesGiven
<1>19. InstOk(t)'
  <2>1. NodeOf(t, b).kind = "task" /\ inst[t].at[b] <= Len(Plan[inst[t].def][b])
    BY <1>1 DEF InstOk
  <2>2. /\ Len(Plan[inst[t].def][b]) \in Nat \ {0}
        /\ Plan[inst[t].def][b][Len(Plan[inst[t].def][b])].kind \in {"end", "error"}
    BY <1>1, Plans DEF Instance, Branches
  <2>3. inst[t].at[b] # Len(Plan[inst[t].def][b])
    BY <2>1, <2>2 DEF NodeOf
  <2>4. r.at[b] <= Len(Plan[inst[t].def][b])
    BY <1>4, <2>1, <2>2, <2>3
  <2>5. Branches(t)' = Branches(t) /\ \A y \in Branch \ {b} : NodeOf(t, y)' = NodeOf(t, y)
    BY <1>4, <1>6 DEF Branches, NodeOf
  <2>6. Branches(t) \subseteq Branch
    BY <1>1, BranchesAre DEF IInv
  <2>7. \A y \in Branches(t)' : inst'[t].at[y] <= Len(Plan[inst'[t].def][y])
    BY <1>1, <1>4, <1>6, <2>4, <2>5, <2>6 DEF InstOk
  <2>8. /\ inst'[t].parked \subseteq Branches(t)'
        /\ \A y \in inst'[t].parked : NodeOf(t, y)'.kind = "task"
    BY <1>1, <1>4, <1>6, <2>5, <2>6 DEF InstOk
  <2>9. inst'[t].parent \in Born' \cup {NoInst} /\ inst'[t].previous \notin {"Completed", "Error"}
    BY <1>1, <1>4, <1>6 DEF InstOk
  <2> QED  BY <1>16, <2>7, <2>8, <2>9 DEF InstOk
<1>20. Instances'
  <2>1. \A i \in Born \ {t} : InstOk(i)'
    BY <1>6, InstKept DEF IInv, Elsewhere
  <2> QED  BY <1>6, <1>19, <2>1 DEF Instances
<1>21. Typed'
  <2>1. Overwritten(t) \subseteq Born \X Branch
    BY <1>1, OverwrittenTyped
  <2> QED  BY <1>1, <1>6, <1>14, <2>1 DEF IInv, Typed
<1>22. IInv'
  BY <1>14, <1>18, <1>20, <1>21 DEF IInv
<1>23. ASSUME WakeInv PROVE WakeInv'
  <2>1. \A q : ~Promises(c, q) /\ ~Reports(c, q)
    BY <1>1 DEF Promises, Reports, At
  <2>2. OtherCalls(c)
    BY <1>13, OthersStay
  <2>3. Served(t) /\ Settles(c, t)
    BY <1>2, <1>4, <1>6, <1>16 DEF Served, Settles, IsOver
  <2> QED  BY <1>1, <1>6, <1>23, <2>1, <2>2, <2>3, OneWakes
<1> QED  BY <1>22, <1>23

----------------------------------------------------------------------------
(***************************************************************************)
(* The steps of a batch that resumes a parent.                             *)
(***************************************************************************)
AtResume(c, t, p, b) ==
  /\ stack[c] # <<>> /\ Top(c) \in FrameType /\ FrameOk(Top(c))
  /\ Top(c).pc = "resume" /\ Top(c).queue = <<>>
  /\ t = Top(c).i /\ p = ParentOf(c) /\ b = Top(c).branch
  /\ t \in Born /\ t \in Id /\ inst[t].parent = p /\ p \in Born /\ p \in Id
  /\ inst[p] \in Instance /\ InstOk(p) /\ b \in Branches(p) /\ b \in Branch
  /\ NodeOf(p, b).kind = "call" /\ InAHand(p, b) /\ OnePlace(p, b)
  /\ \A i, y : Carries(Top(c), i, y) <=> (i = p /\ y = b)

LEMMA AtResumeIs ==
  ASSUME IInv, NEW c \in Call, Resuming(c)
  PROVE  \E t, p, b : AtResume(c, t, p, b)
<1>1. PICK f, t, p, b : /\ f = Top(c) /\ t = f.i /\ p = ParentOf(c) /\ b = f.branch
                        /\ p = inst[t].parent
  BY DEF ParentOf
<1>2. stack[c] # <<>> /\ f.pc = "resume"
  BY <1>1 DEF Resuming, At
<1>3. f \in FrameType /\ FrameOk(f) /\ t \in Born /\ \A i, y : Carries(f, i, y) => InAHand(i, y)
  BY <1>1, <1>2, TopOk
<1>4. f.queue = <<>> /\ p \in Born /\ b \in Branches(p) /\ NodeOf(p, b).kind = "call"
  BY <1>1, <1>2, <1>3 DEF FrameOk, Emptied
<1>5. \A i, y : Carries(f, i, y) <=> (i = p /\ y = b)
  <2>1. \A y : y \notin Range(f.queue)
    BY <1>4 DEF Range
  <2> QED  BY <1>1, <1>2, <2>1 DEF Carries
<1>6. t \in Id /\ p \in Id /\ inst[p] \in Instance /\ b \in Branch
  BY <1>3, <1>4, BornIs, BranchesAre DEF IInv
<1>7. InstOk(p) /\ OnePlace(p, b) /\ InAHand(p, b)
  BY <1>3, <1>4, <1>5 DEF IInv, Instances, Places
<1> QED  BY <1>1, <1>2, <1>3, <1>4, <1>5, <1>6, <1>7 DEF AtResume

\* The token leaves the batch that resumes.
LEMMA LeavesKeeps ==
  ASSUME IInv, NEW t \in Born, NEW b, InAHand(t, b),
         inst' \in [Id -> Instance \cup {NoInst}], Born' = Born, Lasting, Elsewhere(t),
         stack' \in [Call -> Seq(FrameType)], Frames', HandsLose(t, b),
         NEW P, NEW E, NEW H, NEW D, NEW over, Put(t, b, P, E, H, D, over), InstOk(t)',
         dropped' \subseteq Born \X Branch, excused' \subseteq Id
  PROVE  IInv'
<1>1. Typed'
  BY DEF IInv, Typed
<1>2. Instances'
  <2>1. \A i \in Born \ {t} : InstOk(i)'
    BY InstKept DEF IInv, Elsewhere
  <2> QED  BY <2>1 DEF Instances
<1>3. Places'
  BY PlacesTaken
<1> QED  BY <1>1, <1>2, <1>3 DEF IInv

LEMMA IncidentKeeps ==
  ASSUME IInv, NEW c \in Call, BecomeIncident(c)
  PROVE  IInv' /\ (WakeInv => WakeInv')
<1>1. PICK t, p, b : AtResume(c, t, p, b)
  BY AtResumeIs DEF BecomeIncident
<1>2. PICK r : r = [inst[p] EXCEPT !.state = "Call", !.sub = t, !.held = b]
  OBVIOUS
<1>3. r \in Instance
  BY <1>1, <1>2 DEF Instance, State, AtResume
<1>4. inst' = [inst EXCEPT ![p] = r]
  BY <1>1, <1>2 DEF BecomeIncident, AtResume, IInv, Typed
<1>5. /\ r.def = inst[p].def /\ r.parent = inst[p].parent /\ r.at = inst[p].at
      /\ r.parked = inst[p].parked /\ r.ended = inst[p].ended /\ r.held = b
      /\ r.previous = inst[p].previous /\ r.state = "Call"
  BY <1>1, <1>2 DEF Instance, AtResume
<1>6. /\ inst' \in [Id -> Instance \cup {NoInst}] /\ Born' = Born /\ Lasting
      /\ inst'[p] = r /\ Elsewhere(p)
  BY <1>1, <1>3, <1>4, <1>5, OneChanged DEF IInv, AtResume
<1>7. Still
  <2>1. \A i \in Born : \A y : SameAt(i, y)
    BY <1>5, <1>6 DEF SameAt, Elsewhere
  <2> QED  BY <2>1, StillIs
<1>8. /\ stack[c] # <<>> /\ Top(c) \in FrameType /\ FrameOk(Top(c)) /\ Top(c).queue = <<>>
      /\ t = Top(c).i /\ p = ParentOf(c) /\ \A i, y : Carries(Top(c), i, y) <=> (i = p /\ y = b)
  BY <1>1 DEF AtResume
<1>9. stack' \in [Call -> Seq(FrameType)] /\ Frames' /\ HandsLose(p, b)
  <2>1. CASE Pop(c)
    <3>1. stack' \in [Call -> Seq(FrameType)] /\ Frames'
      BY <1>6, <1>7, <1>8, <2>1, PopFrames
    <3>2. \A i \in Born : \A y \in Branches(i) :
            OneHand(i, y)' /\ (InAHand(i, y)' <=> InAHand(i, y) /\ ~Carries(Top(c), i, y))
      BY <1>6, <1>8, <2>1, PopHands, HandsAreOne
    <3> QED  BY <1>8, <3>1, <3>2 DEF HandsLose
  <2>2. CASE Replace(c, [Top(c) EXCEPT !.pc = "wedged"])
    <3>1. PICK g : g = [Top(c) EXCEPT !.pc = "wedged"]
      OBVIOUS
    <3>2. g \in FrameType /\ g.i = t /\ g.queue = <<>> /\ g.pc = "wedged" /\ Replace(c, g)
      BY <1>8, <2>2, <3>1 DEF FrameType, PC
    <3>3. FrameOk(g)
      BY <1>8, <3>2 DEF FrameOk
    <3>4. FrameOk(g)' /\ \A i, y : ~Carries(g, i, y)'
      <4>1. FrameOk(g)'
        BY <1>6, <3>2, <3>3, FrameKept
      <4>2. \A y : y \notin Range(g.queue)
        BY <3>2 DEF Range
      <4> QED  BY <3>2, <4>1, <4>2 DEF Carries
    <3>5. stack' \in [Call -> Seq(FrameType)] /\ Frames'
      BY <1>6, <1>7, <1>8, <3>2, <3>4, ReplaceFrames
    <3>6. \A i \in Born : \A y \in Branches(i) :
            OneHand(i, y)' /\ (InAHand(i, y)' <=> InAHand(i, y) /\ ~Carries(Top(c), i, y))
      BY <1>6, <1>8, <3>2, <3>4, ReplaceHands, HandsAreOne
    <3> QED  BY <1>8, <3>5, <3>6 DEF HandsLose
  <2> QED  BY <2>1, <2>2 DEF BecomeIncident
<1>10. dropped' = dropped \cup Overwritten(p) /\ excused' = excused \cup {p}
  BY <1>8 DEF BecomeIncident
<1>11. \A y : Held(p, y)' <=> y = b
  BY <1>5, <1>6 DEF Held, HoldsToken
<1>12. Put(p, b, {}, {}, {b}, {}, TRUE)
  <2>1. inst'[p].parked = inst[p].parked \cup {} /\ inst'[p].ended = inst[p].ended \cup {}
    BY <1>5, <1>6
  <2>2. \A y : Held(p, y)' <=> (y \in {b} \/ (~TRUE /\ Held(p, y)))
    BY <1>11
  <2>3. \A i, y : <<i, y>> \in dropped' <=>
          (<<i, y>> \in dropped \/ (i = p /\ (y \in {} \/ (TRUE /\ Held(p, y)))))
    BY <1>10, OverwrittenIs
  <2> QED  BY <2>1, <2>2, <2>3 DEF Put
<1>13. p \in Born /\ p \in Id /\ InAHand(p, b)
  BY <1>1 DEF AtResume
<1>14. InstOk(p)'
  <2>1. Branches(p)' = Branches(p) /\ \A y : NodeOf(p, y)' = NodeOf(p, y)
    BY <1>5, <1>6 DEF Branches, NodeOf
  <2>2. InstOk(p) /\ b \in Branches(p) /\ NodeOf(p, b).kind = "call"
    BY <1>1 DEF AtResume
  <2> QED  BY <1>5, <1>6, <2>1, <2>2 DEF InstOk
<1>15. dropped' \subseteq Born \X Branch /\ excused' \subseteq Id
  <2>1. Overwritten(p) \subseteq Born \X Branch
    BY <1>13, OverwrittenTyped
  <2> QED  BY <1>10, <1>13, <2>1 DEF IInv, Typed
<1>16. IInv'
  BY <1>6, <1>9, <1>12, <1>13, <1>14, <1>15, LeavesKeeps
<1>17. ASSUME WakeInv PROVE WakeInv'
  <2>1. \A q : ~Promises(c, q) /\ ~Reports(c, q)
    BY <1>1 DEF Promises, Reports, At, AtResume
  <2>2. OtherCalls(c)
    BY <1>8, OthersStay DEF BecomeIncident, Pop, Replace
  <2>3. Served(p) /\ Settles(c, p)
    BY <1>5, <1>6, <1>10 DEF Served, Settles, IsOver
  <2> QED  BY <1>6, <1>10, <1>17, <2>1, <2>2, <2>3, OneWakes
<1> QED  BY <1>16, <1>17

\* What an error that is handed down through the batches leaves of them.
LEMMA UnwoundHands ==
  ASSUME IInv, Lasting, Still, NEW c \in Call, stack[c] # <<>>,
         stack' = [stack EXCEPT ![c] = Unwound(Front(@))]
  PROVE  /\ stack' \in [Call -> Seq(FrameType)] /\ Frames'
         /\ \A i \in Born : \A y \in Branches(i) :
              OneHand(i, y)' /\ (InAHand(i, y)' <=> InAHand(i, y) /\ ~Carries(Top(c), i, y))
<1>0. PICK top : top = Top(c)
  OBVIOUS
<1>1. PICK n \in Nat \ {0} :
        /\ top = Top(c) /\ n = Len(stack[c]) /\ top = stack[c][n] /\ stack[c] \in Seq(FrameType)
        /\ \A i, y : Carries(top, i, y) => InAHand(i, y)
  BY <1>0, TopOk DEF IInv, Typed
<1>2. ASSUME NEW j \in 1..(n - 1), stack[c][j].pc # "spawned", NEW i, NEW y
      PROVE  ~Hand(c, j, i, y)
  <2>1. PICK f : f = stack[c][j]
    OBVIOUS
  <2>2. FrameOk(f) /\ f.pc \in Below
    BY <1>1, <1>2, <2>1 DEF IInv, Frames
  <2>3. f.pc = "archive" /\ f.queue = <<>>
    BY <1>2, <2>1, <2>2 DEF Below, FrameOk, Emptied
  <2>4. ~Carries(f, i, y)
    BY <2>3, NoQueue
  <2> QED  BY <2>1, <2>4 DEF Hand
<1>3. \A i, y : /\ Hand(c, n, i, y) <=> Carries(top, i, y)
                /\ \A j \in Nat : Hand(c, j, i, y) => j = n \/ j \in 1..(n - 1)
  BY <1>1 DEF Hand
<1>4. CASE Cut(c, 0) /\ \A j \in 1..(n - 1) : stack[c][j].pc # "spawned"
  <2>1. Kept(c, 0) /\ 0 <= Len(stack'[c]) /\ 0 \in Nat
    BY <1>4 DEF Cut
  <2>2. Frames'
    BY <1>4, <2>1, FramesAfter DEF IInv, Still
  <2>3. ASSUME NEW i \in Born, NEW y \in Branches(i)
        PROVE  OneHand(i, y)' /\ (InAHand(i, y)' <=> InAHand(i, y) /\ ~Carries(top, i, y))
    <3>1. Above(c, 0, i, y) <=> Carries(top, i, y)
      <4>1. \A j \in Nat : j > 0 /\ Hand(c, j, i, y) => j = n
        BY <1>2, <1>3, <1>4
      <4> QED  BY <1>1, <1>3, <4>1 DEF Above
    <3>2. ~Above(c, 0, i, y)'
      BY <1>4, <2>1, AboveCut
    <3>3. \A j, l \in Nat : j > 0 /\ l > 0 /\ Hand(c, j, i, y)' /\ Hand(c, l, i, y)' => j = l
      BY <3>2 DEF Above
    <3>4. OneHand(i, y)
      BY HandsAreOne
    <3> QED  BY <2>1, <3>1, <3>2, <3>3, <3>4, HandsAfter DEF IInv
  <2> QED  BY <1>1, <2>1, <2>2, <2>3 DEF Kept
<1>5. ASSUME NEW k \in 1..(n - 1), stack[c][k].pc = "spawned",
             CutAdd(c, k - 1, Settled(stack[c][k])),
             \A j \in 1..(n - 1) : stack[c][j].pc = "spawned" => j <= k
      PROVE  /\ stack' \in [Call -> Seq(FrameType)] /\ Frames'
             /\ \A i \in Born : \A y \in Branches(i) :
                  OneHand(i, y)' /\ (InAHand(i, y)' <=> InAHand(i, y) /\ ~Carries(top, i, y))
  <2>0. PICK m \in Nat : m = k - 1
    BY <1>1
  <2>1. PICK f \in FrameType : f = stack[c][k] /\ m = k - 1
    BY <1>1, <2>0, ElementOfSeq
  <2>2. PICK g \in FrameType : g = Settled(f) /\ g.i = f.i /\ g.queue = f.queue /\ g.pc = "run"
    BY <2>1, SettledIs
  <2>3. CutAdd(c, m, g) /\ Kept(c, m) /\ m <= Len(stack'[c]) /\ m < Len(stack[c])
    BY <1>1, <1>5, <2>1, <2>2 DEF CutAdd
  <2>4. FrameOk(f)
    BY <1>1, <2>1 DEF IInv, Frames
  <2>5. FrameOk(g)
    BY <2>2, <2>4 DEF FrameOk, Emptied
  <2>6. FrameOk(g)'
    BY <2>2, <2>5, FrameKept
  <2>7. \A i, y : Carries(g, i, y)' <=> Carries(f, i, y)
    BY <1>5, <2>1, <2>2 DEF Carries
  <2>8. Frames'
    BY <2>3, <2>6, FramesAfter DEF IInv, Still
  <2>9. ASSUME NEW i \in Born, NEW y \in Branches(i)
        PROVE  OneHand(i, y)' /\ (InAHand(i, y)' <=> InAHand(i, y) /\ ~Carries(top, i, y))
    <3>1. Hand(c, k, i, y) <=> Carries(f, i, y)
      BY <1>1, <2>1 DEF Hand
    <3>2. OneHand(i, y)
      BY HandsAreOne
    <3>3. ~(Carries(f, i, y) /\ Carries(top, i, y))
      BY <1>1, <1>3, <3>1, <3>2 DEF OneHand
    <3>4. Above(c, m, i, y) <=> (Carries(f, i, y) \/ Carries(top, i, y))
      <4>1. \A j \in Nat : j > m /\ Hand(c, j, i, y) => j = n \/ j = k
        <5>1. ASSUME NEW j \in 1..(n - 1), j > k PROVE ~Hand(c, j, i, y)
          <6>1. stack[c][j].pc # "spawned"
            BY <1>5, <5>1
          <6> QED  BY <1>2, <6>1
        <5>2. ASSUME NEW j \in Nat, j > m, Hand(c, j, i, y) PROVE j = n \/ j = k
          <6>1. j = n \/ j \in 1..(n - 1)
            BY <1>3, <5>2
          <6>2. j \in 1..(n - 1) => ~(j > k)
            BY <5>1, <5>2
          <6> QED  BY <2>1, <5>2, <6>1, <6>2
        <5> QED  BY <5>2
      <4> QED  BY <1>1, <1>3, <2>1, <3>1, <4>1 DEF Above
    <3>5. Above(c, m, i, y)' <=> Carries(f, i, y)
      BY <2>3, <2>7, AboveAdd
    <3>6. \A j, l \in Nat : j > m /\ l > m /\ Hand(c, j, i, y)' /\ Hand(c, l, i, y)' => j = l
      BY <2>3, AboveAdd
    <3>7. Carries(f, i, y) => InAHand(i, y)
      BY <3>1 DEF InAHand
    <3>8. /\ OneHand(i, y)'
          /\ InAHand(i, y)' <=> Above(c, m, i, y)' \/ (InAHand(i, y) /\ ~Above(c, m, i, y))
      BY <2>3, <3>2, <3>4, <3>5, <3>6, HandsAfter DEF IInv
    <3> QED  BY <3>3, <3>4, <3>5, <3>7, <3>8
  <2> QED  BY <2>3, <2>8, <2>9 DEF Kept
<1>6. \/ Cut(c, 0) /\ \A j \in 1..(n - 1) : stack[c][j].pc # "spawned"
      \/ \E k \in 1..(n - 1) :
           /\ stack[c][k].pc = "spawned" /\ CutAdd(c, k - 1, Settled(stack[c][k]))
           /\ \A j \in 1..(n - 1) : stack[c][j].pc = "spawned" => j <= k
  BY <1>1, UnwoundIs DEF IInv
<1> QED  BY <1>1, <1>4, <1>5, <1>6

LEMMA FailsKeeps ==
  ASSUME IInv, NEW c \in Call, ResumeFails(c)
  PROVE  IInv' /\ (WakeInv => WakeInv')
<1>1. PICK t, p, b : AtResume(c, t, p, b)
  BY AtResumeIs DEF ResumeFails
<1>2. /\ stack[c] # <<>> /\ t = Top(c).i /\ p = ParentOf(c) /\ b = Top(c).branch
      /\ p \in Born /\ p \in Id /\ inst[p] \in Instance /\ InstOk(p) /\ b \in Branch /\ InAHand(p, b)
      /\ \A i, y : Carries(Top(c), i, y) <=> (i = p /\ y = b)
      /\ stack' = [stack EXCEPT ![c] = Unwound(Front(@))]
  BY <1>1 DEF AtResume, ResumeFails
<1>3. excused' \subseteq Id
  <2>1. excused' = excused \cup ({inst[p].parent} \ {NoInst})
    BY <1>2 DEF ResumeFails
  <2>2. inst[p].parent \in Id \cup {NoInst}
    BY <1>2 DEF Instance
  <2> QED  BY <2>1, <2>2 DEF IInv, Typed
<1>4. Overwritten(p) \subseteq Born \X Branch
  BY <1>2, OverwrittenTyped
<1>7. excused \subseteq excused' /\ (inst[p].parent = NoInst \/ inst[p].parent \in excused')
  BY <1>2 DEF ResumeFails
<1>8. OtherCalls(c) /\ \A q : ~Promises(c, q) /\ ~Reports(c, q)
  <2>1. OtherCalls(c)
    BY <1>2, OthersStay
  <2>2. Top(c).pc = "resume"
    BY <1>1 DEF AtResume
  <2> QED  BY <2>1, <2>2 DEF Promises, Reports, At
<1>5. CASE ScriptFails(c)
  <2>1. PICK r : r = [inst[p] EXCEPT !.state = "Error"]
    OBVIOUS
  <2>2. r \in Instance
    BY <1>2, <2>1 DEF Instance, State
  <2>3. /\ inst' = [inst EXCEPT ![p] = r]
        /\ dropped' = dropped \cup {<<p, b>>} \cup Overwritten(p)
    BY <1>2, <1>5, <2>1 DEF ScriptFails, IInv, Typed
  <2>4. /\ r.def = inst[p].def /\ r.parent = inst[p].parent /\ r.at = inst[p].at
        /\ r.parked = inst[p].parked /\ r.ended = inst[p].ended
        /\ r.previous = inst[p].previous /\ r.state = "Error"
    BY <1>2, <2>1 DEF Instance
  <2>5. /\ inst' \in [Id -> Instance \cup {NoInst}] /\ Born' = Born /\ Lasting
        /\ inst'[p] = r /\ Elsewhere(p)
    BY <1>2, <2>2, <2>3, <2>4, OneChanged DEF IInv
  <2>6. Still
    <3>1. \A i \in Born : \A y : SameAt(i, y)
      BY <2>4, <2>5 DEF SameAt, Elsewhere
    <3> QED  BY <3>1, StillIs
  <2>7. stack' \in [Call -> Seq(FrameType)] /\ Frames' /\ HandsLose(p, b)
    <3>1. /\ stack' \in [Call -> Seq(FrameType)] /\ Frames'
          /\ \A i \in Born : \A y \in Branches(i) :
               OneHand(i, y)' /\ (InAHand(i, y)' <=> InAHand(i, y) /\ ~Carries(Top(c), i, y))
      BY <1>2, <2>5, <2>6, UnwoundHands
    <3> QED  BY <1>2, <3>1 DEF HandsLose
  <2>8. ~HoldsToken(p)'
    BY <2>4, <2>5 DEF HoldsToken
  <2>9. Put(p, b, {}, {}, {}, {b}, TRUE)
    <3>1. inst'[p].parked = inst[p].parked \cup {} /\ inst'[p].ended = inst[p].ended \cup {}
      BY <2>4, <2>5
    <3>2. \A y : Held(p, y)' <=> (y \in {} \/ (~TRUE /\ Held(p, y)))
      BY <2>8 DEF Held
    <3>3. \A i, y : <<i, y>> \in dropped' <=>
            (<<i, y>> \in dropped \/ (i = p /\ (y \in {b} \/ (TRUE /\ Held(p, y)))))
      BY <2>3, OverwrittenIs
    <3> QED  BY <3>1, <3>2, <3>3 DEF Put
  <2>10. InstOk(p)'
    <3>1. Branches(p)' = Branches(p) /\ \A y : NodeOf(p, y)' = NodeOf(p, y)
      BY <2>4, <2>5 DEF Branches, NodeOf
    <3> QED  BY <1>2, <2>4, <2>5, <2>8, <3>1 DEF InstOk
  <2>11. dropped' \subseteq Born \X Branch
    BY <1>2, <1>4, <2>3 DEF IInv, Typed
  <2>12. IInv'
    BY <1>2, <1>3, <2>5, <2>7, <2>9, <2>10, <2>11, LeavesKeeps
  <2>13. ASSUME WakeInv PROVE WakeInv'
    <3>1. Served(p)
      BY <2>8 DEF Served
    <3>2. Settles(c, p)
      BY <1>7, NullAssumption DEF Settles, Born
    <3> QED  BY <1>7, <1>8, <2>5, <2>13, <3>1, <3>2, OneWakes
  <2> QED  BY <2>12, <2>13
<1>6. CASE NoWayOn(c)
  <2>1. inst' = inst /\ dropped' = dropped \cup {<<p, b>>}
    BY <1>2, <1>6 DEF NoWayOn
  <2>2. inst' \in [Id -> Instance \cup {NoInst}] /\ Born' = Born /\ Lasting /\ Elsewhere(p) /\ Still
    BY <2>1, NoneChanged, StillIs DEF IInv, Elsewhere, SameAt
  <2>3. stack' \in [Call -> Seq(FrameType)] /\ Frames' /\ HandsLose(p, b)
    <3>1. /\ stack' \in [Call -> Seq(FrameType)] /\ Frames'
          /\ \A i \in Born : \A y \in Branches(i) :
               OneHand(i, y)' /\ (InAHand(i, y)' <=> InAHand(i, y) /\ ~Carries(Top(c), i, y))
      BY <1>2, <2>2, UnwoundHands
    <3> QED  BY <1>2, <3>1 DEF HandsLose
  <2>4. Put(p, b, {}, {}, {}, {b}, FALSE)
    <3>1. inst'[p].parked = inst[p].parked \cup {} /\ inst'[p].ended = inst[p].ended \cup {}
      BY <2>1
    <3>2. \A y : Held(p, y)' <=> (y \in {} \/ (~FALSE /\ Held(p, y)))
      BY <2>1 DEF Held, HoldsToken
    <3>3. \A i, y : <<i, y>> \in dropped' <=>
            (<<i, y>> \in dropped \/ (i = p /\ (y \in {b} \/ (FALSE /\ Held(p, y)))))
      BY <2>1
    <3> QED  BY <3>1, <3>2, <3>3 DEF Put
  <2>5. InstOk(p)'
    BY <1>2, <2>1, <2>2, InstKept DEF IInv
  <2>6. dropped' \subseteq Born \X Branch
    BY <1>2, <2>1 DEF IInv, Typed
  <2>7. IInv'
    BY <1>2, <1>3, <2>2, <2>3, <2>4, <2>5, <2>6, LeavesKeeps
  <2> QED  BY <1>7, <1>8, <2>1, <2>7, NoneWakes
<1> QED  BY <1>5, <1>6 DEF ResumeFails

LEMMA OnKeeps ==
  ASSUME IInv, NEW c \in Call, ResumeParent(c)
  PROVE  IInv' /\ (WakeInv => WakeInv')
<1>1. PICK t, p, b : AtResume(c, t, p, b)
  BY AtResumeIs DEF ResumeParent
<1>2. /\ stack[c] # <<>> /\ Top(c) \in FrameType /\ FrameOk(Top(c)) /\ Top(c).queue = <<>>
      /\ t = Top(c).i /\ p = ParentOf(c) /\ b = Top(c).branch
      /\ p \in Born /\ p \in Id /\ inst[p] \in Instance /\ InstOk(p) /\ b \in Branches(p) /\ b \in Branch
      /\ NodeOf(p, b).kind = "call" /\ InAHand(p, b) /\ OnePlace(p, b)
      /\ \A i, y : Carries(Top(c), i, y) <=> (i = p /\ y = b)
  BY <1>1 DEF AtResume
<1>3. dropped' = dropped /\ excused' = excused
  BY DEF ResumeParent
<1>4. PICK at \in [Branch -> Nat \ {0}] :
        /\ at = [inst[p].at EXCEPT ![b] = @ + 1] /\ inst[p].at[b] \in Nat /\ at[b] = inst[p].at[b] + 1
        /\ \A y \in Branch \ {b} : at[y] = inst[p].at[y]
  <2>1. PICK old : old = inst[p].at /\ old \in [Branch -> Nat \ {0}]
    BY <1>2 DEF Instance
  <2>2. PICK at : at = [old EXCEPT ![b] = old[b] + 1]
    OBVIOUS
  <2>3. /\ at \in [Branch -> Nat \ {0}] /\ old[b] \in Nat /\ at[b] = old[b] + 1
        /\ \A y \in Branch \ {b} : at[y] = old[y]
    BY <1>2, <2>1, <2>2
  <2> QED  BY <2>1, <2>2, <2>3
<1>5. PICK r : r = [inst[p] EXCEPT !.at = at, !.current = b]
  OBVIOUS
<1>6. r \in Instance
  BY <1>2, <1>5 DEF Instance
<1>7. /\ r.def = inst[p].def /\ r.parent = inst[p].parent
      /\ r.at[b] = inst[p].at[b] + 1 /\ \A y \in Branch \ {b} : r.at[y] = inst[p].at[y]
      /\ r.parked = inst[p].parked /\ r.ended = inst[p].ended /\ r.held = inst[p].held
      /\ r.previous = inst[p].previous /\ r.state = inst[p].state /\ r.awaited = inst[p].awaited
  BY <1>2, <1>4, <1>5 DEF Instance
<1>8. inst' = [inst EXCEPT ![p] = r]
  <2>1. inst' = [inst EXCEPT ![p].at[b] = @ + 1, ![p].current = b]
    BY <1>2 DEF ResumeParent, NextNode
  <2>2. inst' = [inst EXCEPT ![p] = [inst[p] EXCEPT !.at[b] = @ + 1, !.current = b]]
    BY <1>2, <2>1 DEF IInv, Typed
  <2>3. [inst[p] EXCEPT !.at[b] = @ + 1, !.current = b] = r
    BY <1>2, <1>4, <1>5 DEF Instance
  <2> QED  BY <2>2, <2>3
<1>9. /\ inst' \in [Id -> Instance \cup {NoInst}] /\ Born' = Born /\ Lasting
      /\ inst'[p] = r /\ Elsewhere(p)
  BY <1>2, <1>6, <1>7, <1>8, OneChanged DEF IInv
<1>10. \A i \in Born, y \in Branch : i # p \/ y # b => SameAt(i, y)
  BY <1>7, <1>9 DEF SameAt, Elsewhere
<1>11. PICK f : f = [Top(c) EXCEPT !.pc = "archive", !.branch = NoBranch, !.called = NoBranch]
  OBVIOUS
<1>12. PICK g : g = Frame(p, <<b>>)
  OBVIOUS
<1>13. /\ f \in FrameType /\ f.i = t /\ f.queue = <<>> /\ f.pc = "archive"
       /\ g \in FrameType /\ g.i = p /\ g.queue = <<b>> /\ g.pc = "run"
  <2>1. f \in FrameType /\ f.i = t /\ f.queue = <<>> /\ f.pc = "archive"
    BY <1>2, <1>11 DEF FrameType, PC
  <2>2. g \in FrameType /\ g.i = p /\ g.queue = <<b>> /\ g.pc = "run"
    BY <1>2, <1>12 DEF Frame, FrameType, PC
  <2> QED  BY <2>1, <2>2
<1>14. Nest(c, f, g)
  BY <1>2, <1>11, <1>12 DEF ResumeParent
<1>15. FrameOk(f)' /\ FrameOk(g)'
  <2>1. FrameOk(f)
    BY <1>2, <1>13 DEF FrameOk
  <2>2. b \in Branches(p)' /\ p \in Born'
    BY <1>2, <1>7, <1>9 DEF Branches
  <2>3. FrameOk(f)'
    BY <1>9, <1>13, <2>1, FrameKept
  <2> QED  BY <1>13, <2>2, <2>3 DEF FrameOk, Emptied
<1>16. \A i, y : ~Carries(f, i, y)' /\ (Carries(g, i, y)' <=> (i = p /\ y = b))
  <2>1. \A y : y \notin Range(f.queue)
    BY <1>13 DEF Range
  <2>2. \A y : y \in Range(<<b>>) <=> y = b
    BY DEF Range
  <2> QED  BY <1>13, <2>1, <2>2 DEF Carries
<1>17. stack' \in [Call -> Seq(FrameType)] /\ Frames'
  <2>1. ASSUME NEW d \in Call, NEW j \in 1..Len(stack[d]), d # c \/ j < Len(stack[d]),
               stack[d][j].pc = "resume"
        PROVE  SameAt(inst[stack[d][j].i].parent, stack[d][j].branch)
    <3>1. PICK h, i, y : h = stack[d][j] /\ i = inst[h.i].parent /\ y = h.branch
      OBVIOUS
    <3>2. i \in Born /\ y \in Branches(i)
      BY <2>1, <3>1 DEF IInv, Frames, FrameOk
    <3>3. j \in Nat /\ Hand(d, j, i, y)
      BY <2>1, <3>1 DEF Hand, Carries
    <3>4. Len(stack[c]) \in Nat /\ Hand(c, Len(stack[c]), p, b)
      BY <1>2, TopOk DEF Hand
    <3>5. OneHand(p, b)
      BY <1>2 DEF OnePlace
    <3>6. i # p \/ y # b
      BY <2>1, <3>3, <3>4, <3>5 DEF OneHand
    <3>7. y \in Branch
      BY <3>2, BranchesAre DEF IInv
    <3> QED  BY <1>10, <3>1, <3>2, <3>6, <3>7
  <2>2. f.pc \in Below
    BY <1>13 DEF Below
  <2> QED  BY <1>2, <1>9, <1>13, <1>14, <1>15, <2>1, <2>2, NestFrames
<1>18. \A i \in Born : \A y \in Branches(i) : OneHand(i, y)' /\ (InAHand(i, y)' <=> InAHand(i, y))
  <2>1. ASSUME NEW i \in Born, NEW y \in Branches(i)
        PROVE  OneHand(i, y)' /\ (InAHand(i, y)' <=> InAHand(i, y))
    <3>1. /\ OneHand(i, y) /\ ~Carries(f, i, y)' /\ (Carries(g, i, y)' <=> Carries(Top(c), i, y))
          /\ Carries(Top(c), i, y) => InAHand(i, y)
      BY <1>2, <1>16, HandsAreOne
    <3> QED  BY <1>2, <1>9, <1>13, <1>14, <3>1, NestHands
  <2> QED  BY <2>1
<1>19. (HoldsToken(p)' <=> HoldsToken(p)) /\ \A y : Held(p, y)' <=> Held(p, y)
  BY <1>7, <1>9 DEF HoldsToken, Held
<1>20. Places'
  <2>1. ASSUME NEW i \in Born, NEW y \in Branches(i) PROVE OnePlace(i, y)'
    <3>1. OnePlace(i, y) /\ OneHand(i, y)' /\ (InAHand(i, y)' <=> InAHand(i, y))
      BY <1>18 DEF IInv, Places
    <3>2. CASE i # p
      <4>1. inst'[i] = inst[i]
        BY <1>9, <3>2 DEF Elsewhere
      <4> QED  BY <1>3, <3>1, <4>1, PlaceKept
    <3>3. CASE i = p
      <4>1. /\ y \in inst'[i].parked <=> y \in inst[i].parked
            /\ y \in inst'[i].ended <=> y \in inst[i].ended
            /\ Held(i, y)' <=> Held(i, y)
        BY <1>7, <1>9, <1>19, <3>3
      <4> QED  BY <1>3, <3>1, <4>1, PlaceStays
    <3> QED  BY <3>2, <3>3
  <2> QED  BY <1>9, <2>1, PlacesAre
<1>21. InstOk(p)'
  <2>1. inst[p].at[b] <= Len(Plan[inst[p].def][b])
    BY <1>2 DEF InstOk
  <2>2. /\ Len(Plan[inst[p].def][b]) \in Nat \ {0}
        /\ Plan[inst[p].def][b][Len(Plan[inst[p].def][b])].kind \in {"end", "error"}
    BY <1>2, Plans DEF Instance, Branches
  <2>3. inst[p].at[b] # Len(Plan[inst[p].def][b])
    BY <1>2, <2>2 DEF NodeOf
  <2>4. r.at[b] <= Len(Plan[inst[p].def][b])
    BY <1>4, <1>7, <2>1, <2>2, <2>3
  <2>5. Branches(p)' = Branches(p) /\ \A y \in Branch \ {b} : NodeOf(p, y)' = NodeOf(p, y)
    BY <1>7, <1>9 DEF Branches, NodeOf
  <2>6. Branches(p) \subseteq Branch
    BY <1>2, BranchesAre DEF IInv
  <2>7. \A y \in Branches(p)' : inst'[p].at[y] <= Len(Plan[inst'[p].def][y])
    BY <1>2, <1>7, <1>9, <2>4, <2>5, <2>6 DEF InstOk
  <2>8. b \notin inst[p].parked /\ ~Held(p, b)
    BY <1>2 DEF OnePlace
  <2>9. /\ inst'[p].parked \subseteq Branches(p)'
        /\ \A y \in inst'[p].parked : NodeOf(p, y)'.kind = "task"
    BY <1>2, <1>7, <1>9, <2>5, <2>6, <2>8 DEF InstOk
  <2>10. HoldsToken(p)' => (inst[p].held \in Branches(p) /\ NodeOf(p, inst[p].held).kind = "call")'
    <3> SUFFICES ASSUME HoldsToken(p)'
        PROVE  (inst[p].held \in Branches(p) /\ NodeOf(p, inst[p].held).kind = "call")'
      OBVIOUS
    <3>1. PICK h : h = inst[p].held /\ h = inst'[p].held
      BY <1>7, <1>9
    <3>2. h \in Branches(p) /\ h # b /\ NodeOf(p, h).kind = "call"
      BY <1>2, <1>19, <2>8, <3>1 DEF InstOk, Held
    <3>3. NodeOf(p, h)' = NodeOf(p, h) /\ h \in Branches(p)'
      BY <2>5, <2>6, <3>2
    <3>4. NodeOf(p, h)'.kind = "call"
      BY <3>2, <3>3
    <3> QED  BY <3>1, <3>3, <3>4
  <2>11. inst'[p].parent \in Born' \cup {NoInst} /\ inst'[p].previous \notin {"Completed", "Error"}
    BY <1>2, <1>7, <1>9 DEF InstOk
  <2> QED  BY <2>7, <2>9, <2>10, <2>11 DEF InstOk
<1>22. Instances'
  <2>1. \A i \in Born \ {p} : InstOk(i)'
    BY <1>9, InstKept DEF IInv, Elsewhere
  <2> QED  BY <1>9, <1>21, <2>1 DEF Instances
<1>23. Typed'
  BY <1>3, <1>9, <1>17 DEF IInv, Typed
<1>24. IInv'
  BY <1>17, <1>20, <1>22, <1>23 DEF IInv
<1>25. ASSUME WakeInv PROVE WakeInv'
  <2>1. \A q : ~Promises(c, q) /\ ~Reports(c, q)
    BY <1>1 DEF Promises, Reports, At, AtResume
  <2>2. OtherCalls(c)
    BY <1>14, OthersStay DEF Nest
  <2>3. (HoldsToken(p)' <=> HoldsToken(p)) /\ (IsOver(p)' <=> IsOver(p))
    BY <1>7, <1>9, SameState
  <2>4. Calm(c, p) /\ Settles(c, p)
    BY <1>3, <1>7, <1>9, <2>1, <2>3 DEF Calm, Settles
  <2> QED  BY <1>3, <1>9, <1>25, <2>1, <2>2, <2>4, OneWakes
<1> QED  BY <1>24, <1>25

----------------------------------------------------------------------------
LEMMA InitOk ==
  ASSUME Init
  PROVE  IInv /\ WakeInv
<1>1. Born = {}
  BY DEF Init, Born
<1>2. <<>> \in Seq(FrameType) /\ Len(<<>>) = 0
  OBVIOUS
<1>3. \A c \in Call : stack[c] = <<>>
  BY DEF Init
<1>4. Typed
  <2>1. \E n \in 0..MaxInst : Born = 1..n
    <3>1. 0 \in 0..MaxInst /\ {} = 1..0
      BY RootAssumption
    <3> QED  BY <1>1, <3>1
  <2> QED  BY <1>1, <1>2, <2>1 DEF Init, Typed
<1>5. Instances /\ Places
  BY <1>1 DEF Instances, Places
<1>6. Frames
  BY <1>2, <1>3 DEF Frames
<1>7. WakeInv
  BY <1>1 DEF WakeInv
<1> QED  BY <1>4, <1>5, <1>6, <1>7 DEF IInv

LEMMA StutterKeeps ==
  ASSUME IInv, UNCHANGED vars
  PROVE  IInv' /\ (WakeInv => WakeInv')
<1>1. Lasting /\ Still /\ stack' = stack /\ inst' = inst /\ dropped' = dropped /\ excused' = excused
  BY NoneChanged, StillIs DEF vars, IInv, SameAt
<1>2. /\ stack' \in [Call -> Seq(FrameType)] /\ Frames'
      /\ \A i \in Born : \A b \in Branches(i) : OneHand(i, b)' /\ (InAHand(i, b)' <=> InAHand(i, b))
  BY <1>1, StackStays
<1>3. IInv'
  BY <1>1, <1>2, UntouchedKeeps DEF IInv, Typed
<1>4. ASSUME WakeInv PROVE WakeInv'
  <2>1. OtherCalls(NoInst) /\ Born' = Born
    BY <1>1, NoneChanged DEF OtherCalls, IInv
  <2>2. ASSUME NEW p \in Born PROVE Calm(NoInst, p) /\ Settles(NoInst, p)
    <3>1. Promises(NoInst, p) => Promised(p)'
      BY <1>1, CallKept DEF Promises, Promised
    <3>2. Reports(NoInst, p) => Reporting(p)'
      BY <1>1, CallKept DEF Reports, Reporting
    <3>3. (HoldsToken(p)' <=> HoldsToken(p)) /\ (IsOver(p)' <=> IsOver(p))
      BY <1>1, SameState
    <3> QED  BY <1>1, <3>1, <3>2, <3>3 DEF Calm, Settles
  <2> QED  BY <1>1, <1>4, <2>1, <2>2, WakeKept
<1> QED  BY <1>3, <1>4

LEMMA NextKeeps ==
  ASSUME IInv, [Next]_vars
  PROVE  IInv' /\ (WakeInv => WakeInv')
<1>1. ASSUME NEW c \in Call, BatchStep(c) PROVE IInv' /\ (WakeInv => WakeInv')
  BY <1>1, ParkKeeps, ReachKeeps, EndKeeps, ReportKeeps, SpawnKeeps, SpawnFailsKeeps, NoteKeeps,
     DeliverKeeps, FailsKeeps, IncidentKeeps, OnKeeps, ArchiveKeeps DEF BatchStep
<1>2. ASSUME NEW c \in Call, NEW d \in Root, StartRoot(c, d) PROVE IInv' /\ (WakeInv => WakeInv')
  BY <1>2, StartKeeps
<1>3. ASSUME NEW i \in Id, CompleteSome(i) PROVE IInv' /\ (WakeInv => WakeInv')
  BY <1>3, CompleteKeeps DEF CompleteSome
<1>4. ASSUME NEW i \in Id, SuspendInstance(i) \/ ResumeInstance(i) PROVE IInv' /\ (WakeInv => WakeInv')
  BY <1>4, SuspendKeeps, ResumeKeeps
<1>5. CASE UNCHANGED vars
  BY <1>5, StutterKeeps
<1> QED  BY <1>1, <1>2, <1>3, <1>4, <1>5 DEF Next

\* Every token is where the invariant says: TypeOK and OneTokenOnePlace.
LEMMA TypesHold ==
  ASSUME IInv
  PROVE  TypeOK
<1>1. \A i \in Born : inst[i] \in Instance
  BY BornIs DEF IInv
<1>2. \A i \in Born : \A b \in Branches(i) : inst[i].at[b] <= Len(Plan[inst[i].def][b])
  BY DEF IInv, Instances, InstOk
<1>3. ASSUME NEW c \in Call, NEW f \in Range(stack[c])
      PROVE  f \in [i : Born, queue : Seq(Branch), pc : PC, branch : Branch \cup {NoBranch},
                    called : Branch \cup {NoBranch}, callee : Def \cup {NoDef},
                    child : Id \cup {NoInst}]
  <2>1. stack[c] \in Seq(FrameType)
    BY DEF IInv, Typed
  <2>2. DOMAIN stack[c] = 1..Len(stack[c])
    BY <2>1, LenProperties
  <2>3. PICK k \in 1..Len(stack[c]) : f = stack[c][k]
    BY <2>2 DEF Range
  <2>4. f \in FrameType /\ f.i \in Born
    BY <2>1, <2>3, ElementOfSeq DEF IInv, Frames, FrameOk
  <2> QED  BY <2>4 DEF FrameType
<1>4. dropped \subseteq Id \X Branch /\ excused \subseteq Id
  BY DEF IInv, Typed, Born
<1> QED  BY <1>1, <1>2, <1>3, <1>4 DEF TypeOK

LEMMA InHandIs ==
  ASSUME IInv, NEW i, NEW b
  PROVE  \A x : x \in InHand(i, b) <=> \E c \in Call, k \in Nat : x = <<c, k>> /\ Hand(c, k, i, b)
<1>1. \A c \in Call : DOMAIN stack[c] = 1..Len(stack[c]) /\ Len(stack[c]) \in Nat
  BY LenProperties DEF IInv, Typed
<1>2. ASSUME NEW x, x \in InHand(i, b)
      PROVE  \E c \in Call, k \in Nat : x = <<c, k>> /\ Hand(c, k, i, b)
  <2>1. PICK c \in Call : x \in {c} \X DOMAIN stack[c]
    BY <1>2 DEF InHand
  <2>2. PICK k \in 1..Len(stack[c]) : x = <<c, k>>
    BY <1>1, <2>1
  <2>3. Carries(stack[c][k], i, b)
    BY <1>2, <2>2 DEF InHand
  <2> QED  BY <2>2, <2>3 DEF Hand
<1>3. ASSUME NEW c \in Call, NEW k \in Nat, Hand(c, k, i, b)
      PROVE  <<c, k>> \in InHand(i, b)
  BY <1>1, <1>3 DEF InHand, Hand
<1> QED  BY <1>2, <1>3

LEMMA PlacesHold ==
  ASSUME IInv
  PROVE  OneTokenOnePlace
<1> SUFFICES ASSUME NEW i \in Born, NEW b \in Branches(i), <<i, b>> \notin dropped
    PROVE  Cardinality(InHand(i, b)) + (IF b \in inst[i].parked THEN 1 ELSE 0)
             + (IF b \in inst[i].ended THEN 1 ELSE 0)
             + (IF <<i, b>> \in Overwritten(i) THEN 1 ELSE 0) = 1
  BY DEF OneTokenOnePlace
<1>1. OnePlace(i, b)
  BY DEF IInv, Places
<1>2. <<i, b>> \in Overwritten(i) <=> Held(i, b)
  BY OverwrittenIs
<1>3. ASSUME InAHand(i, b) PROVE Cardinality(InHand(i, b)) = 1
  <2>1. PICK c \in Call, k \in Nat : Hand(c, k, i, b)
    BY <1>3 DEF InAHand
  <2>2. InHand(i, b) = {<<c, k>>}
    <3>1. ASSUME NEW x, x \in InHand(i, b) PROVE x = <<c, k>>
      BY <1>1, <2>1, <3>1, InHandIs DEF OnePlace, OneHand
    <3>2. <<c, k>> \in InHand(i, b)
      BY <2>1, InHandIs
    <3> QED  BY <3>1, <3>2
  <2> QED  BY <2>2, FS_Singleton
<1>4. ASSUME ~InAHand(i, b) PROVE Cardinality(InHand(i, b)) = 0
  <2>1. InHand(i, b) = {}
    BY <1>4, InHandIs DEF InAHand
  <2> QED  BY <2>1, FS_EmptySet
<1>5. CASE InAHand(i, b)
  BY <1>1, <1>2, <1>3, <1>5 DEF OnePlace
<1>6. CASE ~InAHand(i, b)
  BY <1>1, <1>2, <1>4, <1>6 DEF OnePlace
<1> QED  BY <1>5, <1>6

\* For any definitions that call each other, any number of requests in flight
\* and of instances: through nested batches, failed calls, suspensions and
\* children that end in any order, a token of a caller or of a called instance
\* is in exactly one place, unless the code dropped it.
THEOREM CallTokensHold == Spec => []Consistent
<1>1. Init => IInv
  BY InitOk
<1>2. IInv /\ [Next]_vars => IInv'
  BY NextKeeps
<1>3. IInv => Consistent
  BY TypesHold, PlacesHold DEF Consistent
<1> QED  BY <1>1, <1>2, <1>3, PTL DEF Spec

\* When no request is in flight, nobody is about to start or to report anything.
LEMMA WakesHold ==
  ASSUME WakeInv
  PROVE  NoWakeUpLost
<1> SUFFICES ASSUME \A c \in Call : stack[c] = <<>>,
                    NEW p \in Id, WaitsForCall(p), p \notin excused
    PROVE  inst[p].awaited \in Born /\ ~IsOver(inst[p].awaited)
  BY DEF NoWakeUpLost
<1>1. ~Promised(p) /\ \A q : ~Reporting(q)
  BY DEF Promised, Promises, Reporting, Reports, At
<1>2. p \in Born /\ HoldsToken(p)
  BY DEF WaitsForCall, HoldsToken
<1>3. PICK q : Coming(p, q)
  BY <1>1, <1>2 DEF WakeInv, Wake
<1> QED  BY <1>1, <1>3 DEF Coming

\* For any definitions and any number of requests and instances: once no
\* request is in flight, an instance that waits for a call waits for a child
\* that exists and is not over, unless it missed the end of a child or has none
\* (it was suspended, became an incident, or an error passed it over).
THEOREM CallsAreAnswered == Spec => []NoWakeUpLost
<1>1. Init => IInv /\ WakeInv
  BY InitOk
<1>2. (IInv /\ WakeInv) /\ [Next]_vars => (IInv /\ WakeInv)'
  BY NextKeeps
<1>3. IInv /\ WakeInv => NoWakeUpLost
  BY WakesHold
<1> QED  BY <1>1, <1>2, <1>3, PTL DEF Spec

=============================================================================
