---------------------------- MODULE CallActivity ----------------------------
(***************************************************************************)
(* Call activities: an instance starts a child instance, waits in the      *)
(* state WaitingOnCallActivity, which holds its token, and is resumed by   *)
(* the batch in which the child ends.  Batches nest: the child runs inside *)
(* the parent's batch until it waits for something, and the parent is      *)
(* resumed inside the batch that ended the child.  A call in flight is a   *)
(* stack of such batches.                                                  *)
(***************************************************************************)
EXTENDS Integers, Sequences, FiniteSets, SequencesExt

CONSTANTS
  Def,         \* deployed definitions
  Plan,        \* of each: the branches its start forks into, each a sequence of nodes
  Root,        \* definitions the client starts
  Call,        \* requests in flight
  MaxRoots,    \* bound: instances the client starts
  MaxInst,     \* bound: instances in all; large enough for the roots and their children
  MayFail,     \* whether end scripts and conditions of a call activity may fail
  MaySuspend,  \* whether the operator suspends instances
  Persistent,  \* whether a persistence is attached
  NoInst, NoBranch, NoDef

Id     == 1..MaxInst
Branch == UNION {DOMAIN Plan[d] : d \in Def}
Calls(branch) == \E k \in DOMAIN branch : branch[k].kind = "call"
State  == {"Running", "Waiting", "Parallel", "Call", "Suspended", "Completed", "Error"}
PC     == {"run", "spawn", "spawned", "deliver", "resume", "archive", "wedged"}

NonEmptySeq(s) == Len(s) \in Nat \ {0} /\ DOMAIN s = 1..Len(s)
Instance ==
  [def : Def, parent : Id \cup {NoInst}, state : State, previous : State,
   held : Branch \cup {NoBranch}, sub : Id \cup {NoInst}, awaited : Id \cup {NoInst},
   current : Branch \cup {NoBranch}, at : [Branch -> Nat \ {0}],
   parked : SUBSET Branch, ended : SUBSET Branch]

ASSUME PlanAssumption ==
  \A d \in Def : NonEmptySeq(Plan[d]) /\ \A b \in DOMAIN Plan[d] :
    NonEmptySeq(Plan[d][b]) /\ Plan[d][b][Len(Plan[d][b])].kind \in {"end", "error"}
\* A bound: a definition calls from one of its branches, so that a token is
\* never sent on from the call of another.
ASSUME ForkAssumption ==
  \A d \in Def : \A a, b \in DOMAIN Plan[d] : Calls(Plan[d][a]) /\ Calls(Plan[d][b]) => a = b
ASSUME RootAssumption == Root \subseteq Def /\ MaxRoots \in Nat /\ MaxInst \in Nat \ {0}
ASSUME NullAssumption == /\ NoInst \notin Id \cup Instance
                         /\ NoBranch \notin Branch /\ NoDef \notin Def

VARIABLES
  inst,     \* the instance store
  stack,    \* per request: its nested batches, the innermost last
  dropped,  \* history: tokens an error or an overwritten state lost
  excused   \* history: parents that missed the end of a child, or have none

vars == <<inst, stack, dropped, excused>>

NewInstance(d, p) ==
  [def |-> d, parent |-> p,
   state |-> IF Len(Plan[d]) > 1 THEN "Parallel" ELSE "Running",
   previous |-> "Running", held |-> NoBranch, sub |-> NoInst, awaited |-> NoInst,
   current |-> NoBranch, at |-> [b \in Branch |-> 1], parked |-> {}, ended |-> {}]
Born == {i \in Id : inst[i] # NoInst}
NextId    == Cardinality(Born) + 1
Branches(i) == DOMAIN Plan[inst[i].def]
NodeOf(i, b) == Plan[inst[i].def][b][inst[i].at[b]]
IsOver(i) == inst[i].state \in {"Completed", "Error"}

Frame(i, queue) == [i |-> i, queue |-> queue, pc |-> "run", branch |-> NoBranch,
                    called |-> NoBranch, callee |-> NoDef, child |-> NoInst]
AllBranches(d)  == [b \in DOMAIN Plan[d] |-> b]
Top(c) == Last(stack[c])
At(c, pc) == stack[c] # <<>> /\ Top(c).pc = pc
Replace(c, f) == stack' = [stack EXCEPT ![c] = Append(Front(@), f)]
Nest(c, f, g)   == stack' = [stack EXCEPT ![c] = Append(Append(Front(@), f), g)]
Pop(c) == stack' = [stack EXCEPT ![c] = Front(@)]

Settled(f) == [f EXCEPT !.pc = "run", !.branch = NoBranch, !.callee = NoDef, !.child = NoInst]

\* The token a state that is overwritten held, if any, is gone.
HoldsToken(i) == inst[i].state = "Call" \/ (inst[i].state = "Suspended" /\ inst[i].previous = "Call")
Overwritten(i) == IF HoldsToken(i) THEN {<<i, inst[i].held>>} ELSE {}

\* The instance's write guard is held by a batch that waits for it itself.
Wedged(i) == \E c \in Call : At(c, "wedged") /\ inst[Top(c).i].parent = i

Init ==
  /\ inst = [i \in Id |-> NoInst]
  /\ stack = [c \in Call |-> <<>>]
  /\ dropped = {}
  /\ excused = {}

----------------------------------------------------------------------------
(***************************************************************************)
(* Requests and the operator.                                              *)
(***************************************************************************)
StartRoot(c, d) ==
  /\ stack[c] = <<>> /\ NextId \in Id
  /\ Cardinality({i \in Born : inst[i].parent = NoInst}) < MaxRoots
  /\ inst' = [inst EXCEPT ![NextId] = NewInstance(d, NoInst)]
  /\ stack' = [stack EXCEPT ![c] = <<Frame(NextId, AllBranches(d))>>]
  /\ UNCHANGED <<dropped, excused>>

\* A task is completed (its own steps are those of ServiceTask and WaitStates).
CompleteTask(c, i, b) ==
  /\ stack[c] = <<>>
  /\ i \in Born /\ b \in inst[i].parked
  /\ inst[i].state # "Suspended" /\ ~Wedged(i)
  /\ inst' = [inst EXCEPT ![i].parked = @ \ {b},
                          ![i].at[b] = @ + 1, ![i].current = b,
                          ![i].state = IF @ = "Parallel" THEN @ ELSE "Running"]
  /\ stack' = [stack EXCEPT ![c] = <<Frame(i, <<b>>)>>]
  /\ dropped' = dropped \cup Overwritten(i)
  /\ UNCHANGED excused

SuspendInstance(i) ==
  /\ MaySuspend
  /\ i \in Born /\ ~IsOver(i) /\ inst[i].state # "Suspended" /\ ~Wedged(i)
  /\ inst' = [inst EXCEPT ![i].state = "Suspended", ![i].previous = inst[i].state]
  /\ UNCHANGED <<stack, dropped, excused>>

ResumeInstance(i) ==
  /\ i \in Born /\ inst[i].state = "Suspended" /\ ~Wedged(i)
  /\ inst' = [inst EXCEPT ![i].state = inst[i].previous, ![i].previous = "Running"]
  /\ UNCHANGED <<stack, dropped, excused>>

----------------------------------------------------------------------------
(***************************************************************************)
(* The batch: the next token of the queue goes through one node.           *)
(***************************************************************************)
Stepping(c, kind) ==
  /\ At(c, "run") /\ Top(c).queue # <<>>
  /\ ~Wedged(Top(c).i)
  /\ NodeOf(Top(c).i, Head(Top(c).queue)).kind = kind

Popped(c) == [Top(c) EXCEPT !.queue = Tail(@), !.branch = Head(Top(c).queue)]

ParkAtTask(c) ==
  /\ Stepping(c, "task")
  /\ LET i == Top(c).i
         b == Head(Top(c).queue)
         parallel == inst[i].state = "Parallel"
     IN /\ inst' = [inst EXCEPT ![i].parked = @ \cup {b}, ![i].current = b,
                                ![i].state = IF parallel THEN @ ELSE "Waiting"]
        /\ dropped' = dropped \cup (IF parallel THEN {} ELSE Overwritten(i))
        /\ Replace(c, [Popped(c) EXCEPT !.branch = NoBranch])
  /\ UNCHANGED excused

Callee(f) == NodeOf(f.i, f.branch).to

\* The token of a parallel instance is held by nothing that resumes it.
ReachCall(c) ==
  /\ Stepping(c, "call") /\ Callee(Popped(c)) \in Def
  /\ LET i == Top(c).i
         b == Head(Top(c).queue)
     IN /\ IF inst[i].state = "Parallel"
           THEN /\ inst' = [inst EXCEPT ![i].current = b]
                /\ dropped' = dropped \cup {<<i, b>>}
           ELSE /\ inst' = [inst EXCEPT ![i].state = "Call", ![i].held = b, ![i].current = b,
                                        ![i].sub = NoInst, ![i].awaited = NoInst]
                /\ dropped' = dropped \cup Overwritten(i)
        /\ excused' = excused \ {i}
        /\ Replace(c, [Popped(c) EXCEPT !.pc = "spawn", !.callee = Callee(Popped(c))])

\* A definition that is not deployed is only logged; the token is gone.
SpawnFails(c) ==
  /\ Stepping(c, "call") /\ Callee(Popped(c)) \notin Def
  /\ inst' = [inst EXCEPT ![Top(c).i].current = Head(Top(c).queue)]
  /\ dropped' = dropped \cup {<<Top(c).i, Head(Top(c).queue)>>}
  /\ Replace(c, [Popped(c) EXCEPT !.branch = NoBranch])
  /\ UNCHANGED excused

EndBranch(c) ==
  /\ Stepping(c, "end") \/ Stepping(c, "error")
  /\ LET i == Top(c).i
         b == Head(Top(c).queue)
         last == inst[i].parked = {} /\ inst[i].ended \cup {b} = Branches(i)
         over == IF NodeOf(i, b).kind = "end" THEN "Completed" ELSE "Error"
     IN /\ inst' = [inst EXCEPT ![i].ended = @ \cup {b}, ![i].current = b,
                                ![i].state = IF last THEN over ELSE @]
        /\ dropped' = dropped \cup (IF last THEN Overwritten(i) ELSE {})
        /\ Replace(c, [Popped(c) EXCEPT !.branch = NoBranch])
  /\ UNCHANGED excused

\* The batch is done; whoever finds the instance over reports it, also when it
\* was over before this batch looked.
Report(c) ==
  /\ At(c, "run") /\ Top(c).queue = <<>> /\ ~Wedged(Top(c).i)
  /\ IF IsOver(Top(c).i)
     THEN Replace(c, [Top(c) EXCEPT !.pc = "deliver"])
     ELSE Pop(c)
  /\ UNCHANGED <<inst, dropped, excused>>

----------------------------------------------------------------------------
(***************************************************************************)
(* spawn_call_activity, from within the parent's batch.                    *)
(***************************************************************************)
SpawnChild(c) ==
  /\ At(c, "spawn") /\ NextId \in Id
  /\ ~Wedged(Top(c).i)
  /\ inst' = [inst EXCEPT ![NextId] = NewInstance(Top(c).callee, Top(c).i),
                          ![Top(c).i].awaited = NextId]
  /\ Nest(c, [Top(c) EXCEPT !.pc = "spawned", !.child = NextId],
             Frame(NextId, AllBranches(Top(c).callee)))
  /\ UNCHANGED <<dropped, excused>>

\* The child runs or is over; its id is stored if the parent waits for a call,
\* be it this one or a later one.
NoteChild(c) ==
  /\ At(c, "spawned") /\ ~Wedged(Top(c).i)
  /\ inst' = IF inst[Top(c).i].state = "Call"
             THEN [inst EXCEPT ![Top(c).i].sub = Top(c).child] ELSE inst
  /\ Replace(c, Settled(Top(c)))
  /\ UNCHANGED <<dropped, excused>>

----------------------------------------------------------------------------
(***************************************************************************)
(* resume_parent_if_needed.                                                *)
(***************************************************************************)
ParentOf(c) == inst[Top(c).i].parent

\* Mutant: the parent is resumed only by the child whose id it has stored.
DeliverToSub(c) ==
  /\ At(c, "deliver")
  /\ IF ParentOf(c) = NoInst
     THEN Pop(c) /\ UNCHANGED <<inst, excused>>
     ELSE IF inst[ParentOf(c)].state = "Call" /\ inst[ParentOf(c)].sub = Top(c).i
          THEN /\ inst' = [inst EXCEPT ![ParentOf(c)].state = "Running"]
               /\ Replace(c, [Top(c) EXCEPT !.pc = "resume", !.branch = inst[ParentOf(c)].held,
                                          !.called = inst[ParentOf(c)].current])
               /\ UNCHANGED excused
          ELSE Pop(c) /\ UNCHANGED <<inst, excused>>
  /\ UNCHANGED dropped

\* Mutant: the token is copied and the state left as it is.
DeliverCopy(c) ==
  /\ At(c, "deliver")
  /\ IF ParentOf(c) # NoInst /\ inst[ParentOf(c)].state = "Call"
     THEN Replace(c, [Top(c) EXCEPT !.pc = "resume", !.branch = inst[ParentOf(c)].held,
                                          !.called = inst[ParentOf(c)].current])
     ELSE Pop(c)
  /\ UNCHANGED <<inst, dropped, excused>>

\* Whatever call the parent waits for, it is taken out of it, to go on from the
\* node the parent reached last; a parent that is suspended, or was never in
\* that state, misses the end of its child.
Deliver(c) ==
  /\ At(c, "deliver")
  /\ LET p == ParentOf(c)
     IN IF p = NoInst
        THEN Pop(c) /\ UNCHANGED <<inst, excused>>
        ELSE /\ ~Wedged(p)
             /\ IF inst[p].state = "Call"
                THEN /\ inst' = [inst EXCEPT ![p].state = "Running"]
                     /\ Replace(c, [Top(c) EXCEPT !.pc = "resume", !.branch = inst[p].held,
                                                !.called = inst[p].current])
                     /\ UNCHANGED excused
                ELSE /\ Pop(c)
                     /\ excused' = excused \cup {p}
                     /\ UNCHANGED inst
  /\ UNCHANGED dropped

\* Mutant: the node after the next.
NextButOne(position) == position + 2
NextNode(position) == position + 1

Resuming(c) == At(c, "resume") /\ ~Wedged(ParentOf(c))
ChildFailed(c) == inst[Top(c).i].state = "Error"
CalledNode(c) == NodeOf(ParentOf(c), Top(c).called)
Unhandled(c) == ChildFailed(c) /\ ~CalledNode(c).catch

\* An error is handed through the batches down to one that spawned a child,
\* which logs it as a child that could not be started.
Unwound(frames) ==
  LET catching == {k \in DOMAIN frames : frames[k].pc = "spawned"}
  IN IF catching = {} THEN <<>>
     ELSE Append(SubSeq(frames, 1, Max(catching) - 1), Settled(frames[Max(catching)]))

\* An end script fails: the parent is over, and reports to nobody.  No way
\* leads on, as from the end of another branch, or no condition of one holds:
\* the parent stays Running without its token.
ScriptFails(c) ==
  /\ MayFail
  /\ inst' = [inst EXCEPT ![ParentOf(c)].state = "Error"]
  /\ dropped' = dropped \cup {<<ParentOf(c), Top(c).branch>>} \cup Overwritten(ParentOf(c))
NoWayOn(c) ==
  /\ ~ChildFailed(c)
  /\ MayFail \/ CalledNode(c).kind # "call"
  /\ dropped' = dropped \cup {<<ParentOf(c), Top(c).branch>>}
  /\ UNCHANGED inst
ResumeFails(c) ==
  /\ Resuming(c)
  /\ ScriptFails(c) \/ NoWayOn(c)
  /\ excused' = excused \cup ({inst[ParentOf(c)].parent} \ {NoInst})
  /\ stack' = [stack EXCEPT ![c] = Unwound(Front(@))]

\* An error no boundary event catches puts the parent back as an incident, and
\* persists it under the guard that persist_instance takes.
BecomeIncident(c) ==
  /\ Resuming(c) /\ Unhandled(c)
  /\ inst' = [inst EXCEPT ![ParentOf(c)].state = "Call", ![ParentOf(c)].sub = Top(c).i,
                          ![ParentOf(c)].held = Top(c).branch]
  /\ dropped' = dropped \cup Overwritten(ParentOf(c))
  /\ excused' = excused \cup {ParentOf(c)}
  /\ IF Persistent THEN Replace(c, [Top(c) EXCEPT !.pc = "wedged"]) ELSE Pop(c)

ResumeParent(c) ==
  /\ Resuming(c) /\ CalledNode(c).kind = "call" /\ ~Unhandled(c)
  /\ inst' = [inst EXCEPT ![ParentOf(c)].at[Top(c).branch] = NextNode(@),
                          ![ParentOf(c)].current = Top(c).branch]
  /\ Nest(c, [Top(c) EXCEPT !.pc = "archive", !.branch = NoBranch, !.called = NoBranch],
             Frame(ParentOf(c), <<Top(c).branch>>))
  /\ UNCHANGED <<dropped, excused>>

Archive(c) ==
  /\ At(c, "archive")
  /\ Pop(c)
  /\ UNCHANGED <<inst, dropped, excused>>

----------------------------------------------------------------------------
BatchStep(c) ==
  \/ ParkAtTask(c) \/ ReachCall(c) \/ EndBranch(c) \/ Report(c)
  \/ SpawnChild(c) \/ SpawnFails(c) \/ NoteChild(c)
  \/ Deliver(c) \/ ResumeFails(c) \/ BecomeIncident(c) \/ ResumeParent(c) \/ Archive(c)

CompleteSome(i) == \E c \in Call, b \in Branch : CompleteTask(c, i, b)

Next ==
  \/ \E c \in Call : BatchStep(c) \/ \E d \in Root : StartRoot(c, d)
  \/ \E i \in Id : CompleteSome(i) \/ SuspendInstance(i) \/ ResumeInstance(i)

Spec == Init /\ [][Next]_vars

\* Batches run on, workers complete the tasks and the operator resumes.
FairSpec == /\ Spec
            /\ \A c \in Call : WF_vars(BatchStep(c))
            /\ \A i \in Id : SF_vars(CompleteSome(i)) /\ WF_vars(ResumeInstance(i))

----------------------------------------------------------------------------
TypeOK ==
  /\ \A i \in Born : inst[i] \in Instance
  /\ \A i \in Born : \A b \in Branches(i) : inst[i].at[b] <= Len(Plan[inst[i].def][b])
  /\ \A c \in Call : \A f \in Range(stack[c]) :
       f \in [i : Born, queue : Seq(Branch), pc : PC, branch : Branch \cup {NoBranch},
              called : Branch \cup {NoBranch}, callee : Def \cup {NoDef}, child : Id \cup {NoInst}]
  /\ dropped \subseteq Id \X Branch /\ excused \subseteq Id

Carries(f, i, b) == \/ f.i = i /\ b \in Range(f.queue)
                    \/ f.pc = "resume" /\ inst[f.i].parent = i /\ f.branch = b
InHand(i, b) ==
  {x \in UNION {{c} \X DOMAIN stack[c] : c \in Call} : Carries(stack[x[1]][x[2]], i, b)}

\* However batches nest and interleave, a token is in one place: in the hands
\* of one batch, parked, held by the state that waits for a call, or ended; or
\* the code has dropped it.
OneTokenOnePlace ==
  \A i \in Born : \A b \in Branches(i) : <<i, b>> \notin dropped =>
    Cardinality(InHand(i, b)) + (IF b \in inst[i].parked THEN 1 ELSE 0)
      + (IF b \in inst[i].ended THEN 1 ELSE 0)
      + (IF <<i, b>> \in Overwritten(i) THEN 1 ELSE 0) = 1

\* The types hold and no token of a caller or a called instance is lost or copied.
Consistent == TypeOK /\ OneTokenOnePlace

\* Once no request is in flight, a parent waits for a child that is still on
\* its way, unless it missed its end.
WaitsForCall(p) == p \in Born /\ inst[p].state = "Call"
NoWakeUpLost ==
  (\A c \in Call : stack[c] = <<>>) =>
    \A p \in Id : WaitsForCall(p) /\ p \notin excused =>
      inst[p].awaited \in Born /\ ~IsOver(inst[p].awaited)

\* A parent does not wait for ever, unless it or an instance it waits for missed
\* the end of a child or lost a token.
Lines[i \in Id] ==
  IF i \notin Born THEN {} ELSE {i} \cup IF inst[i].parent = NoInst THEN {} ELSE Lines[inst[i].parent]
GoneAstray(p) == \E i \in excused \cup {t[1] : t \in dropped} : p \in Lines[i]
CallsReturn == \A p \in Id : WaitsForCall(p) ~> (~WaitsForCall(p) \/ GoneAstray(p))

\* A failing child makes an incident of its parent; nobody waits for himself.
NoBatchWedged == \A c \in Call : ~At(c, "wedged")
=============================================================================
