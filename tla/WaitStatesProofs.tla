--------------------------- MODULE WaitStatesProofs ---------------------------
(***************************************************************************)
(* Proofs about WaitStates, for every process graph, every number of calls *)
(* and every bound.                                                        *)
(***************************************************************************)
EXTENDS WaitStates, FiniteSetTheorems, TLAPS

(***************************************************************************)
(* The inductive invariant behind Consistent.  A call has a token in its   *)
(* hands, and an entry that it removed, at certain points of its way only, *)
(* and every token that anything names has been made.                      *)
(***************************************************************************)
HandPC == {"cancelTimers", "cancelCatches", "runUser", "script", "next", "batch", "park",
           "wait", "insert", "cancelTasks", "runMessage"}
JobPC  == PC \ {"idle", "list"}

Wiring ==
  /\ \A c \in Call : hand[c] # NoToken <=> pc[c] \in HandPC
  /\ \A c \in Call : pc[c] \in JobPC => job[c] # NoEntry
  /\ \A c \in Call : pc[c] = "park" => at[hand[c]] \in Wait

Made ==
  /\ \A x \in pending : x.tok <= born
  /\ \A c \in Call : /\ \A x \in list[c] : x.tok <= born
                     /\ job[c] # NoEntry => job[c].tok <= born
                     /\ hand[c] # NoToken => hand[c] <= born
  /\ \A k \in Token : k > born => fate[k] = "live"
  /\ Len(Start) <= born

\* Nothing is there that could fire for token k.
NoTrace(k) ==
  /\ \A x \in pending : x.tok # k
  /\ \A c \in Call : /\ \A x \in list[c] : x.tok # k
                     /\ job[c] # NoEntry => job[c].tok # k

Carries(c, k) == hand[c] = k /\ pc[c] \notin {"wait", "insert"}

\* A clone on its first way, which is in the store and in the hands of call c,
\* and which no event can reach before its boundary events are armed.
FirstWay(c, k) ==
  /\ k > Len(Start)
  /\ pc[c] \in {"runMessage", "next", "batch", "park"}
  /\ pc[c] # "park" => NoTrace(k)
  /\ \A d \in Call : hand[d] = k => d = c

Sound(k) ==
  /\ \A c, d \in Call : Carries(c, k) /\ Carries(d, k) => c = d
  /\ \A c \in Call : Carries(c, k) => fate[k] = "live" /\ (k \in parked => FirstWay(c, k))
  /\ k \in parked => fate[k] # "ended"
  /\ k \in parked /\ fate[k] = "lost" => NoTrace(k) /\ \A c \in Call : hand[c] # k

IInv == TypeOK /\ Wiring /\ Made /\ \A k \in (1..born) \ early : Sound(k)

----------------------------------------------------------------------------
USE DEF mapVars, instVars, callVars, State, PC

\* The fields of an entry.
LEMMA EntryFields == \A x \in Entry : x.ev \in Event /\ x.tok \in Token
  BY DEF Entry

\* The entries that a wait inserts are entries.
LEMMA NewEntries == \A e \in Event, k \in Token : NewEntry(e, k) \in Entry /\ NewEntry(e, k).tok = k
  BY BoundAssumption DEF Entry, NewEntry

\* Before the first event every token is parked at its wait, with its entries.
LEMMA InitIInv == Init => IInv
<1> SUFFICES ASSUME Init PROVE IInv
  OBVIOUS
<1> USE GraphAssumption, BoundAssumption, StartAssumption, NullAssumption
<1>1. TypeOK
  <2>1. born \in 0..MaxToken /\ at \in [Token -> Wait \cup {"end"}]
    BY DEF Init, Token
  <2>2. pending \subseteq Entry /\ due \subseteq pending
    BY DEF Init
  <2> QED  BY <2>1, <2>2 DEF Init, TypeOK, Token
<1>2. Wiring /\ Made
  BY DEF Init, Wiring, Made, HandPC, JobPC, Entry
<1>3. \A k \in (1..born) \ early : Sound(k)
  BY DEF Init, Sound, Carries, Token
<1> QED  BY <1>1, <1>2, <1>3 DEF IInv

\* What a step of a call leaves of the two histories.
LEMMA HistoriesTyped == ASSUME IInv, NEW c \in Call, Step(c)
                        PROVE  early' \subseteq 1..born /\ stranded' \subseteq 1..born
<1>1. early' \subseteq 1..born
  BY DEF IInv, TypeOK, Step
<1>2. \A x \in pending : x.tok \in 1..born
  BY EntryFields, BoundAssumption DEF IInv, TypeOK, Made, Token
<1> QED  BY <1>1, <1>2 DEF IInv, TypeOK, Step

\* A non-interrupting event that finds the token makes a clone of it.
CloneMade(c) ==
  /\ born < MaxToken /\ born' = born + 1
  /\ at' = [at EXCEPT ![born + 1] = at[job[c].tok]]
  /\ parked' = parked \cup {born + 1} /\ active' = active \cup {born + 1}
  /\ state' = "Parallel" /\ hand' = [hand EXCEPT ![c] = born + 1]
  /\ pc' = [pc EXCEPT ![c] = AfterTake(c)]
  /\ UNCHANGED <<job, list, todo, mapVars, fate, previous>>

NoCloneMade(c) ==
  Return(c) /\ UNCHANGED <<born, at, parked, active, state, mapVars, fate, previous>>

\* Either it is cloned, or the call returns.
LEMMA CloneOrReturn == \A c \in Call :
                         CloneToken(c) => pc[c] = "take" /\ (CloneMade(c) \/ NoCloneMade(c))
  BY DEF CloneToken, CloneMade, NoCloneMade, Goto

\* The types of what a call keeps for itself.
CallTyped ==
  /\ pc \in [Call -> PC] /\ job \in [Call -> Entry \cup {NoEntry}]
  /\ hand \in [Call -> Token \cup {NoToken}]
  /\ list \in [Call -> SUBSET Entry] /\ todo \in [Call -> SUBSET Event]

\* The types of the maps and of the instance.
StoreTyped ==
  /\ pending \subseteq Entry /\ due \subseteq pending /\ born \in 0..MaxToken
  /\ at \in [Token -> Wait \cup {"end"}] /\ parked \subseteq 1..born /\ active \subseteq 1..born
  /\ fate \in [Token -> {"live", "ended", "lost"}]
  /\ state \in State /\ previous \in State \ {"Completed", "Suspended"}
  /\ overlap \in BOOLEAN /\ early \subseteq 1..born /\ stranded \subseteq 1..born

LEMMA TypeParts == (TypeOK <=> (CallTyped /\ StoreTyped)) /\ (TypeOK' <=> (CallTyped' /\ StoreTyped'))
  BY DEF TypeOK, CallTyped, StoreTyped

\* A call that returns forgets what it had.
LEMMA ReturnTyped == ASSUME CallTyped, NEW c \in Call, Return(c) PROVE CallTyped'
<1>1. pc' \in [Call -> PC] /\ job' \in [Call -> Entry \cup {NoEntry}]
  BY DEF Return, Goto, CallTyped
<1>2. hand' \in [Call -> Token \cup {NoToken}]
  BY DEF Return, CallTyped
<1>3. list' \in [Call -> SUBSET Entry] /\ todo' \in [Call -> SUBSET Event]
  BY DEF Return, CallTyped
<1> QED  BY <1>1, <1>2, <1>3 DEF CallTyped

\* A call that goes on to its next critical section keeps the rest.
LEMMA GotoTyped == ASSUME CallTyped, NEW c \in Call, NEW label \in PC, Goto(c, label),
                          UNCHANGED <<job, hand, list, todo>>
                   PROVE  CallTyped'
  BY DEF Goto, CallTyped

\* A call takes a token in its hands and goes on.
LEMMA HoldTyped == ASSUME CallTyped, NEW c \in Call, NEW label \in PC, Goto(c, label),
                          NEW k \in Token \cup {NoToken}, hand' = [hand EXCEPT ![c] = k],
                          UNCHANGED <<job, list, todo>>
                   PROVE  CallTyped'
  BY DEF Goto, CallTyped

\* Each access to a map and each scope of the instance's lock keeps the types.
LEMMA StepTyped == ASSUME IInv, NEW c \in Call, Step(c) PROVE TypeOK'
<1> USE GraphAssumption, BoundAssumption, StartAssumption, NullAssumption
<1> /\ TypeOK /\ overlap' = overlap
    /\ early' \subseteq 1..born /\ stranded' \subseteq 1..born
  BY HistoriesTyped DEF IInv, Step
<1> 1..born \subseteq Token
  BY DEF TypeOK, Token
<1> pc[c] \in JobPC => job[c] \in Entry /\ job[c].ev \in Event /\ job[c].tok \in Token
  BY EntryFields DEF IInv, Wiring, TypeOK
<1> pc[c] \in HandPC => hand[c] \in Token /\ hand[c] \in 1..born
  BY DEF IInv, Wiring, Made, TypeOK, Token
<1> pc[c] = "park" => at[hand[c]] \in Wait
  BY DEF IInv, Wiring
<1> CallTyped /\ StoreTyped
  BY TypeParts
<1> "takeUser" \in PC /\ "cancelTimers" \in PC /\ "cancelTasks" \in PC /\ "list" \in PC
  OBVIOUS
<1>1. CASE CheckSuspended(c)
  <2>1. pc[c] = "check" /\ pc[c] \in JobPC /\ UNCHANGED <<instVars, due>>
    BY <1>1 DEF CheckSuspended, JobPC
  <2>2. pending' = pending \/ pending' = pending \cup {job[c]}
    BY <1>1 DEF CheckSuspended
  <2>3. StoreTyped'
    BY <2>1, <2>2 DEF StoreTyped
  <2>4. Return(c) \/ (Goto(c, "takeUser") /\ UNCHANGED <<job, hand, list, todo>>)
    BY <1>1 DEF CheckSuspended
  <2>5. CallTyped'
    BY <2>4, ReturnTyped, GotoTyped
  <2> QED  BY <2>3, <2>5, TypeParts
<1>2. CASE TakeUserToken(c)
  <2>1. pc[c] \in JobPC /\ UNCHANGED <<mapVars, born, at, active, fate, state, previous>>
    BY <1>2 DEF TakeUserToken, JobPC
  <2>2. parked' = parked \/ parked' = parked \ {job[c].tok}
    BY <1>2 DEF TakeUserToken
  <2>3. StoreTyped'
    BY <2>1, <2>2 DEF StoreTyped
  <2>4. \/ Return(c)
        \/ /\ hand' = [hand EXCEPT ![c] = job[c].tok] /\ Goto(c, "cancelTimers")
           /\ UNCHANGED <<job, list, todo>>
    BY <1>2 DEF TakeUserToken
  <2>5. job[c].tok \in Token \cup {NoToken}
    BY <2>1
  <2>6. CallTyped'
    BY <2>4, <2>5, ReturnTyped, HoldTyped
  <2> QED  BY <2>3, <2>6, TypeParts
<1>3. CASE CancelBoundaryTimers(c)
  BY <1>3 DEF CancelBoundaryTimers, Goto, CancelBoundary, Remove, OfKind, TypeOK, HandPC, JobPC
<1>4. CASE CancelBoundaryCatches(c)
  BY <1>4 DEF CancelBoundaryCatches, Goto, CancelBoundary, Remove, OfKind, TypeOK, HandPC, JobPC
<1>5. CASE SetRunningUser(c)
  BY <1>5 DEF SetRunningUser, Goto, KeepParallel, TypeOK, HandPC, JobPC
<1>6. CASE RunEndScripts(c)
  <2>1. CASE pc' = [pc EXCEPT ![c] = "next"] /\ UNCHANGED <<parked, state, hand>>
    BY <1>6, <2>1 DEF RunEndScripts, TypeOK
  <2>2. CASE /\ parked' = parked \cup {hand[c]} /\ hand' = [hand EXCEPT ![c] = NoToken]
             /\ state' = "Waiting" /\ pc' = [pc EXCEPT ![c] = "putBack"]
    BY <1>6, <2>2 DEF RunEndScripts, TypeOK, HandPC
  <2> QED  BY <1>6, <2>1, <2>2 DEF RunEndScripts, Goto
<1>7. CASE PutBackTask(c)
  BY <1>7 DEF PutBackTask, Goto, Return, TypeOK, HandPC, JobPC
<1>8. ASSUME NEW x \in list[c], NextEntry(c, x) PROVE TypeOK'
  <2>1. CASE x \in pending
    <3>1. /\ pending' = pending \ {x} /\ due' = due \ {x}
          /\ job' = [job EXCEPT ![c] = x] /\ list' = [list EXCEPT ![c] = list[c] \ {x}]
          /\ pc' = [pc EXCEPT ![c] = "clearTimers"]
          /\ UNCHANGED <<instVars, hand, todo>>
      BY <1>8, <2>1 DEF NextEntry, Goto, Remove
    <3>2. x \in Entry /\ list[c] \ {x} \in SUBSET Entry
      BY <1>8 DEF TypeOK
    <3> QED  BY <3>1, <3>2 DEF TypeOK
  <2>2. CASE x \notin pending
    <3>1. Return(c) /\ UNCHANGED <<mapVars, instVars>>
      BY <1>8, <2>2 DEF NextEntry
    <3>2. StoreTyped'
      BY <3>1 DEF StoreTyped
    <3>3. CallTyped'
      BY <3>1, ReturnTyped
    <3> QED  BY <3>2, <3>3, TypeParts
  <2> QED  BY <2>1, <2>2
<1>9. CASE ClearTimers(c)
  BY <1>9 DEF ClearTimers, Goto, ClearWaits, Remove, OfKind, TypeOK, HandPC, JobPC
<1>10. CASE ClearCatches(c)
  BY <1>10 DEF ClearCatches, Goto, ClearWaits, Remove, OfKind, TypeOK, HandPC, JobPC
<1>11. CASE SetRunningTimer(c)
  BY <1>11 DEF SetRunningTimer, Goto, TypeOK, HandPC, JobPC
<1>12. CASE TakeToken(c)
  <2>1. pc[c] \in JobPC /\ UNCHANGED <<mapVars, born, at, active, fate, state, previous>>
    BY <1>12 DEF TakeToken, JobPC
  <2>2. parked' = parked \/ parked' = parked \ {job[c].tok}
    BY <1>12 DEF TakeToken
  <2>3. StoreTyped'
    BY <2>1, <2>2 DEF StoreTyped
  <2>4. \/ Return(c)
        \/ /\ hand' = [hand EXCEPT ![c] = job[c].tok] /\ Goto(c, "cancelTasks")
           /\ UNCHANGED <<job, list, todo>>
    BY <1>12 DEF TakeToken
  <2>5. job[c].tok \in Token \cup {NoToken}
    BY <2>1
  <2>6. CallTyped'
    BY <2>4, <2>5, ReturnTyped, HoldTyped
  <2> QED  BY <2>3, <2>6, TypeParts
<1>13. CASE CloneToken(c)
  <2>1. CASE pc[c] = "take" /\ CloneMade(c)
    <3>2. job[c].tok \in Token /\ AfterTake(c) \in PC /\ born \in Nat
      BY <2>1 DEF JobPC, AfterTake, TypeOK
    <3>3. at[job[c].tok] \in Wait \cup {"end"} /\ born + 1 \in Token
      BY <2>1, <3>2 DEF TypeOK, Token, CloneMade
    <3>4. /\ born' \in 0..MaxToken /\ 1..born \subseteq 1..born' /\ born + 1 \in 1..born'
      BY <2>1, <3>2 DEF CloneMade
    <3>5. /\ parked' \subseteq 1..born' /\ active' \subseteq 1..born'
          /\ early' \subseteq 1..born' /\ stranded' \subseteq 1..born'
      BY <2>1, <3>4 DEF TypeOK, CloneMade
    <3>6. at' \in [Token -> Wait \cup {"end"}] /\ hand' \in [Call -> Token \cup {NoToken}]
      BY <2>1, <3>3 DEF TypeOK, CloneMade
    <3> QED  BY <2>1, <3>2, <3>4, <3>5, <3>6 DEF TypeOK, CloneMade
  <2>2. CASE NoCloneMade(c)
    BY <2>2 DEF NoCloneMade, Goto, Return, TypeOK
  <2> QED  BY <1>13, <2>1, <2>2, CloneOrReturn
<1>14. CASE CancelTasks(c)
  BY <1>14 DEF CancelTasks, Goto, Remove, OfKind, AfterTake, TypeOK, HandPC, JobPC
<1>15. CASE SetRunningMessage(c)
  BY <1>15 DEF SetRunningMessage, Goto, KeepParallel, TypeOK, HandPC, JobPC
<1>16. CASE ResolveNext(c)
  <2>1. CASE /\ at' = [at EXCEPT ![hand[c]] = Target[job[c].ev]]
             /\ pc' = [pc EXCEPT ![c] = "batch"]
             /\ UNCHANGED <<mapVars, born, parked, active, fate, state, previous,
                            job, hand, list, todo>>
    <3>1. Target[job[c].ev] \in Wait \cup {"end"}
      BY <1>16 DEF ResolveNext, JobPC
    <3> QED  BY <1>16, <2>1, <3>1 DEF ResolveNext, TypeOK, HandPC
  <2>2. CASE Abort(c)
    BY <1>16, <2>2 DEF ResolveNext, Abort, Return, Goto, TypeOK, HandPC
  <2> QED  BY <1>16, <2>1, <2>2 DEF ResolveNext, Goto
<1>17. CASE ArmBoundary(c)
  BY <1>17, NewEntries DEF ArmBoundary, Goto, Boundary, TypeOK, HandPC, JobPC
<1>18. CASE ParkToken(c)
  <2>1. Offer[at[hand[c]]] \in SUBSET Event /\ hand[c] \in 1..born
    BY <1>18 DEF ParkToken, HandPC, TypeOK, Token
  <2> QED  BY <1>18, <2>1 DEF ParkToken, Goto, TypeOK
<1>19. CASE SetWaiting(c)
  BY <1>19 DEF SetWaiting, Goto, KeepParallel, TypeOK, HandPC, JobPC
<1>20. ASSUME NEW e \in todo[c], InsertPending(c, e) PROVE TypeOK'
  <2>1. pending' \subseteq Entry /\ due' \subseteq pending'
    BY <1>20, NewEntries DEF InsertPending, Goto, TypeOK, HandPC, JobPC
  <2>2. /\ born' \in 0..MaxToken /\ at' \in [Token -> Wait \cup {"end"}]
        /\ parked' \subseteq 1..born' /\ active' \subseteq 1..born'
        /\ fate' \in [Token -> {"live", "ended", "lost"}]
        /\ state' \in State /\ previous' \in State \ {"Completed", "Suspended"}
    BY <1>20 DEF InsertPending, Goto, TypeOK, HandPC, JobPC
  <2>3. pc' \in [Call -> PC] /\ job' \in [Call -> Entry \cup {NoEntry}]
    BY <1>20 DEF InsertPending, Goto, TypeOK, HandPC, JobPC
  <2>4. /\ hand' \in [Call -> Token \cup {NoToken}]
        /\ list' \in [Call -> SUBSET Entry] /\ todo' \in [Call -> SUBSET Event]
    BY <1>20 DEF InsertPending, Goto, TypeOK, HandPC, JobPC
  <2>5. early' \subseteq 1..born' /\ stranded' \subseteq 1..born'
    BY <1>20, <2>2 DEF InsertPending, Goto, TypeOK
  <2> QED  BY <2>1, <2>2, <2>3, <2>4, <2>5 DEF TypeOK
<1>21. CASE EndToken(c)
  BY <1>21 DEF EndToken, Goto, TypeOK, HandPC, JobPC
<1>22. CASE CloseInstance(c)
  BY <1>22 DEF CloseInstance, Goto, TypeOK, HandPC, JobPC
<1>23. CASE StepFails(c)
  BY <1>23 DEF StepFails, Goto, Abort, Return, TypeOK, HandPC, JobPC
<1>24. CASE BatchReturns(c)
  <2>1. Reschedule(c) /\ UNCHANGED <<due, instVars>>
    BY <1>24 DEF BatchReturns
  <2>2. pending \subseteq pending' /\ pending' \subseteq Entry
    BY <2>1 DEF Reschedule, StoreTyped
  <2>3. StoreTyped'
    BY <2>1, <2>2 DEF StoreTyped
  <2>4. CASE list[c] = {}
    <3>1. Return(c)
      BY <1>24, <2>4 DEF BatchReturns
    <3>2. CallTyped'
      BY <3>1, ReturnTyped
    <3> QED  BY <2>3, <3>2, TypeParts
  <2>5. CASE list[c] # {}
    <3>1. Goto(c, "list") /\ job' = [job EXCEPT ![c] = NoEntry] /\ UNCHANGED <<hand, list, todo>>
      BY <1>24, <2>5 DEF BatchReturns
    <3>2. CallTyped'
      BY <3>1 DEF CallTyped, Goto
    <3> QED  BY <2>3, <3>2, TypeParts
  <2> QED  BY <2>4, <2>5
<1> QED
  BY <1>1, <1>2, <1>3, <1>4, <1>5, <1>6, <1>7, <1>8, <1>9, <1>10, <1>11, <1>12, <1>13, <1>14, <1>15, <1>16, <1>17, <1>18, <1>19, <1>20, <1>21, <1>22, <1>23, <1>24 DEF Step, CallStep

\* A call has a token, or an entry, in its hands where its next step needs one.
LEMMA StepWiring == ASSUME IInv, early = {}, NEW c \in Call, Step(c) PROVE Wiring'
<1> TypeOK /\ Wiring
  BY DEF IInv
<1> NoToken \notin Token /\ NoEntry \notin Entry
  BY NullAssumption
<1> pc[c] \in HandPC => hand[c] \in Token /\ hand[c] \in 1..born
  BY BoundAssumption DEF IInv, Wiring, Made, TypeOK, Token
<1> pc[c] \in JobPC => job[c] # NoEntry /\ job[c].tok \in Token
  BY EntryFields DEF IInv, Wiring, TypeOK
<1> 1..born \subseteq Token /\ born \in Nat /\ (born < MaxToken => born + 1 \in Token)
  BY BoundAssumption DEF TypeOK, Token
<1>1. CASE CheckSuspended(c)
  BY <1>1 DEF CheckSuspended, Goto, Return, TypeOK, Wiring, HandPC, JobPC
<1>2. CASE TakeUserToken(c)
  BY <1>2 DEF TakeUserToken, Goto, Return, TypeOK, Wiring, HandPC, JobPC
<1>3. CASE CancelBoundaryTimers(c)
  BY <1>3 DEF CancelBoundaryTimers, Goto, CancelBoundary, TypeOK, Wiring, HandPC, JobPC
<1>4. CASE CancelBoundaryCatches(c)
  BY <1>4 DEF CancelBoundaryCatches, Goto, CancelBoundary, TypeOK, Wiring, HandPC, JobPC
<1>5. CASE SetRunningUser(c)
  BY <1>5 DEF SetRunningUser, Goto, KeepParallel, TypeOK, Wiring, HandPC, JobPC
<1>6. CASE RunEndScripts(c)
  BY <1>6 DEF RunEndScripts, Goto, TypeOK, Wiring, HandPC, JobPC
<1>7. CASE PutBackTask(c)
  BY <1>7 DEF PutBackTask, Goto, Return, TypeOK, Wiring, HandPC, JobPC
<1>8. ASSUME NEW x \in list[c], NextEntry(c, x) PROVE Wiring'
  BY <1>8 DEF NextEntry, Goto, Return, Remove, TypeOK, Wiring, HandPC, JobPC
<1>9. CASE ClearTimers(c)
  BY <1>9 DEF ClearTimers, Goto, ClearWaits, TypeOK, Wiring, HandPC, JobPC
<1>10. CASE ClearCatches(c)
  BY <1>10 DEF ClearCatches, Goto, ClearWaits, TypeOK, Wiring, HandPC, JobPC
<1>11. CASE SetRunningTimer(c)
  BY <1>11 DEF SetRunningTimer, Goto, TypeOK, Wiring, HandPC, JobPC
<1>12. CASE TakeToken(c)
  BY <1>12 DEF TakeToken, Goto, Return, TypeOK, Wiring, HandPC, JobPC
<1>13. CASE CloneToken(c)
  <2>1. CASE pc[c] = "take" /\ CloneMade(c)
    <3>1. \A d \in Call : pc[d] = "park" => hand[d] # born + 1
      BY DEF IInv, Made, HandPC, Wiring, TypeOK
    <3> QED  BY <2>1, <3>1 DEF CloneMade, AfterTake, TypeOK, Wiring, HandPC, JobPC
  <2>2. CASE NoCloneMade(c)
    BY <2>2 DEF NoCloneMade, Goto, Return, TypeOK, Wiring, HandPC, JobPC
  <2> QED  BY <1>13, <2>1, <2>2, CloneOrReturn
<1>14. CASE CancelTasks(c)
  BY <1>14 DEF CancelTasks, Goto, AfterTake, TypeOK, Wiring, HandPC, JobPC
<1>15. CASE SetRunningMessage(c)
  BY <1>15 DEF SetRunningMessage, Goto, KeepParallel, TypeOK, Wiring, HandPC, JobPC
<1>16. CASE ResolveNext(c)
  <2>1. ASSUME NEW d \in Call, pc[d] = "park" PROVE hand[d] # hand[c]
    BY <1>16, <2>1 DEF ResolveNext, IInv, Sound, Carries, HandPC
  <2> QED
    BY <1>16, <2>1 DEF ResolveNext, Goto, Abort, Return, TypeOK, Wiring, HandPC, JobPC
<1>17. CASE ArmBoundary(c)
  BY <1>17 DEF ArmBoundary, Goto, TypeOK, Wiring, HandPC, JobPC
<1>18. CASE ParkToken(c)
  BY <1>18 DEF ParkToken, Goto, Boundary, TypeOK, Wiring, HandPC, JobPC
<1>19. CASE SetWaiting(c)
  BY <1>19 DEF SetWaiting, Goto, KeepParallel, TypeOK, Wiring, HandPC, JobPC
<1>20. ASSUME NEW e \in todo[c], InsertPending(c, e) PROVE Wiring'
  BY <1>20 DEF InsertPending, Goto, TypeOK, Wiring, HandPC, JobPC
<1>21. CASE EndToken(c)
  BY <1>21 DEF EndToken, Goto, TypeOK, Wiring, HandPC, JobPC
<1>22. CASE CloseInstance(c)
  BY <1>22 DEF CloseInstance, Goto, TypeOK, Wiring, HandPC, JobPC
<1>23. CASE StepFails(c)
  BY <1>23 DEF StepFails, Goto, Abort, Return, TypeOK, Wiring, HandPC, JobPC
<1>24. CASE BatchReturns(c)
  BY <1>24 DEF BatchReturns, Goto, Return, TypeOK, Wiring, HandPC, JobPC
<1> QED
  BY <1>1, <1>2, <1>3, <1>4, <1>5, <1>6, <1>7, <1>8, <1>9, <1>10, <1>11, <1>12, <1>13, <1>14, <1>15, <1>16, <1>17, <1>18, <1>19, <1>20, <1>21, <1>22, <1>23, <1>24 DEF Step, CallStep

\* Whatever names a token names one that has been made.
LEMMA StepMade == ASSUME IInv, NEW c \in Call, Step(c) PROVE Made'
<1> TypeOK /\ Made
  BY DEF IInv
<1> pc[c] \in HandPC => hand[c] \in Token /\ hand[c] \in 1..born
  BY BoundAssumption DEF IInv, Wiring, Made, TypeOK, Token
<1> pc[c] \in JobPC => job[c] \in Entry /\ job[c].tok <= born /\ job[c].tok \in Token
  BY EntryFields DEF IInv, Wiring, Made, TypeOK
<1> born \in Nat /\ Token \subseteq Nat
  BY BoundAssumption DEF TypeOK, Token
<1>1. CASE CheckSuspended(c)
  BY <1>1 DEF CheckSuspended, Goto, Return, TypeOK, Made, HandPC, JobPC
<1>2. CASE TakeUserToken(c)
  BY <1>2 DEF TakeUserToken, Goto, Return, TypeOK, Made, HandPC, JobPC
<1>3. CASE CancelBoundaryTimers(c)
  BY <1>3 DEF CancelBoundaryTimers, Goto, CancelBoundary, Remove, OfKind, TypeOK, Made, HandPC, JobPC
<1>4. CASE CancelBoundaryCatches(c)
  BY <1>4 DEF CancelBoundaryCatches, Goto, CancelBoundary, Remove, OfKind, TypeOK, Made, HandPC, JobPC
<1>5. CASE SetRunningUser(c)
  BY <1>5 DEF SetRunningUser, Goto, KeepParallel, TypeOK, Made, HandPC, JobPC
<1>6. CASE RunEndScripts(c)
  BY <1>6 DEF RunEndScripts, Goto, TypeOK, Made, HandPC, JobPC
<1>7. CASE PutBackTask(c)
  BY <1>7 DEF PutBackTask, Goto, Return, TypeOK, Made, HandPC, JobPC
<1>8. ASSUME NEW x \in list[c], NextEntry(c, x) PROVE Made'
  BY <1>8 DEF NextEntry, Goto, Return, Remove, TypeOK, Made, HandPC, JobPC
<1>9. CASE ClearTimers(c)
  BY <1>9 DEF ClearTimers, Goto, ClearWaits, Remove, OfKind, TypeOK, Made, HandPC, JobPC
<1>10. CASE ClearCatches(c)
  BY <1>10 DEF ClearCatches, Goto, ClearWaits, Remove, OfKind, TypeOK, Made, HandPC, JobPC
<1>11. CASE SetRunningTimer(c)
  BY <1>11 DEF SetRunningTimer, Goto, TypeOK, Made, HandPC, JobPC
<1>12. CASE TakeToken(c)
  BY <1>12 DEF TakeToken, Goto, Return, TypeOK, Made, HandPC, JobPC
<1>13. CASE CloneToken(c)
  <2>1. CASE pc[c] = "take" /\ CloneMade(c)
    <3>1. \A x \in Entry : x.tok \in Nat
      BY EntryFields, BoundAssumption DEF Token
    <3>2. \A d \in Call : hand[d] # NoToken => hand[d] \in Nat
      BY DEF TypeOK
    <3>3. \A x \in pending' : x.tok <= born'
      BY <2>1, <3>1 DEF CloneMade, TypeOK, Made
    <3>4. \A d \in Call : /\ \A x \in list'[d] : x.tok <= born'
                          /\ job'[d] # NoEntry => job'[d].tok <= born'
      BY <2>1, <3>1 DEF CloneMade, TypeOK, Made
    <3>5. \A d \in Call : hand'[d] # NoToken => hand'[d] <= born'
      BY <2>1, <3>2 DEF CloneMade, TypeOK, Made
    <3>6. Len(Start) <= born' /\ \A j \in Token : j > born' => fate'[j] = "live"
      BY <2>1, StartAssumption DEF CloneMade, TypeOK, Made
    <3> QED  BY <3>3, <3>4, <3>5, <3>6 DEF Made
  <2>2. CASE NoCloneMade(c)
    BY <2>2 DEF NoCloneMade, Goto, Return, TypeOK, Made
  <2> QED  BY <1>13, <2>1, <2>2, CloneOrReturn
<1>14. CASE CancelTasks(c)
  BY <1>14 DEF CancelTasks, Goto, Remove, OfKind, AfterTake, TypeOK, Made, HandPC, JobPC
<1>15. CASE SetRunningMessage(c)
  BY <1>15 DEF SetRunningMessage, Goto, KeepParallel, TypeOK, Made, HandPC, JobPC
<1>16. CASE ResolveNext(c)
  BY <1>16 DEF ResolveNext, Goto, Abort, Return, TypeOK, Made, HandPC, JobPC
<1>17. CASE ArmBoundary(c)
  BY <1>17 DEF ArmBoundary, Goto, NewEntry, TypeOK, Made, HandPC, JobPC
<1>18. CASE ParkToken(c)
  BY <1>18 DEF ParkToken, Goto, Boundary, TypeOK, Made, HandPC, JobPC
<1>19. CASE SetWaiting(c)
  BY <1>19 DEF SetWaiting, Goto, KeepParallel, TypeOK, Made, HandPC, JobPC
<1>20. ASSUME NEW e \in todo[c], InsertPending(c, e) PROVE Made'
  BY <1>20 DEF InsertPending, Goto, NewEntry, TypeOK, Made, HandPC, JobPC
<1>21. CASE EndToken(c)
  BY <1>21 DEF EndToken, Goto, TypeOK, Made, HandPC, JobPC
<1>22. CASE CloseInstance(c)
  BY <1>22 DEF CloseInstance, Goto, TypeOK, Made, HandPC, JobPC
<1>23. CASE StepFails(c)
  BY <1>23 DEF StepFails, Goto, Abort, Return, TypeOK, Made, HandPC, JobPC
<1>24. CASE BatchReturns(c)
  <2>1. \A x \in pending' : x.tok <= born
    BY <1>24 DEF BatchReturns, Reschedule, Made, JobPC, Entry
  <2> QED  BY <1>24, <2>1 DEF BatchReturns, Goto, Return, TypeOK, Made
<1> QED
  BY <1>1, <1>2, <1>3, <1>4, <1>5, <1>6, <1>7, <1>8, <1>9, <1>10, <1>11, <1>12, <1>13, <1>14, <1>15, <1>16, <1>17, <1>18, <1>19, <1>20, <1>21, <1>22, <1>23, <1>24 DEF Step, CallStep

\* A call that has an entry of a parked token, which no batch is setting up for
\* the first time, is the only one to get the token.
LEMMA TakenByOne == ASSUME IInv, early = {}, NEW c \in Call, pc[c] \in JobPC,
                           NEW k \in parked, job[c].tok = k, ~Armed(k)
                    PROVE  fate[k] = "live" /\ \A d \in Call : ~Carries(d, k)
<1>1. k \in Token /\ Sound(k) /\ job[c] # NoEntry
  BY BoundAssumption DEF IInv, Wiring, TypeOK, Token
<1>2. ~NoTrace(k)
  BY <1>1 DEF NoTrace
<1>3. \A d \in Call : ~Carries(d, k)
  BY <1>1, <1>2 DEF Sound, FirstWay, Carries, Armed
<1>4. fate[k] \in {"live", "ended", "lost"}
  BY <1>1 DEF IInv, TypeOK
<1> QED  BY <1>1, <1>2, <1>3, <1>4 DEF Sound

\* No step doubles a token, except that an event may take a clone between the two
\* steps of handle_user_task, which then is in early.
LEMMA StepSound == ASSUME IInv, early = {}, NEW c \in Call, Step(c),
                          NEW k \in (1..born') \ early'
                   PROVE  Sound(k)'
<1> TypeOK
  BY DEF IInv
<1> NoToken \notin Token /\ NoEntry \notin Entry
  BY NullAssumption
<1> TypeOK'
  BY StepTyped
<1> k \in Token /\ k \in Nat /\ born \in Nat
  BY BoundAssumption DEF TypeOK, Token
<1> early' = {j \in parked \ parked' : Armed(j)}
  BY DEF Step
<1> pc[c] \in HandPC => hand[c] \in Token /\ hand[c] \in 1..born
  BY BoundAssumption DEF IInv, Wiring, Made, TypeOK, Token
<1> pc[c] \in JobPC => job[c] \in Entry /\ job[c].tok <= born /\ job[c].tok \in Token
  BY EntryFields DEF IInv, Wiring, Made, TypeOK
<1> k \in 1..born => Sound(k)
  BY DEF IInv
<1>1. CASE CheckSuspended(c)
  BY <1>1 DEF CheckSuspended, Goto, Return, TypeOK, Sound, Carries, FirstWay, NoTrace, HandPC, JobPC
<1>2. CASE TakeUserToken(c)
  <2>1. CASE job[c].tok \in parked /\ job[c].tok = k
    <3>1. k \in parked \ parked' /\ ~Armed(k)
      BY <1>2, <2>1 DEF TakeUserToken
    <3>2. fate[k] = "live" /\ \A d \in Call : ~Carries(d, k)
      BY <1>2, <2>1, <3>1, TakenByOne DEF TakeUserToken, JobPC
    <3> QED
      BY <1>2, <2>1, <3>1, <3>2 DEF TakeUserToken, Goto, TypeOK, Sound, Carries
  <2>2. CASE job[c].tok \in parked /\ job[c].tok # k
    <3>1. hand[c] = NoToken /\ k \in 1..born
      BY <1>2 DEF TakeUserToken, IInv, Wiring, HandPC, TypeOK
    <3> QED
      BY <1>2, <2>2, <3>1 DEF TakeUserToken, Goto, TypeOK, Sound, Carries, FirstWay, NoTrace, JobPC
  <2>3. CASE job[c].tok \notin parked
    BY <1>2, <2>3 DEF TakeUserToken, Goto, Return, TypeOK, Sound, Carries, FirstWay, NoTrace
  <2> QED  BY <2>1, <2>2, <2>3
<1>3. CASE CancelBoundaryTimers(c)
  BY <1>3 DEF CancelBoundaryTimers, Goto, CancelBoundary, Remove, OfKind, TypeOK, Sound, Carries, FirstWay, NoTrace, HandPC, JobPC
<1>4. CASE CancelBoundaryCatches(c)
  BY <1>4 DEF CancelBoundaryCatches, Goto, CancelBoundary, Remove, OfKind, TypeOK, Sound, Carries, FirstWay, NoTrace, HandPC, JobPC
<1>5. CASE SetRunningUser(c)
  BY <1>5 DEF SetRunningUser, Goto, KeepParallel, TypeOK, Sound, Carries, FirstWay, NoTrace, HandPC, JobPC
<1>6. CASE RunEndScripts(c)
  BY <1>6 DEF RunEndScripts, Goto, TypeOK, Sound, Carries, FirstWay, NoTrace, HandPC, JobPC
<1>7. CASE PutBackTask(c)
  BY <1>7 DEF PutBackTask, Goto, Return, TypeOK, Sound, Carries, FirstWay, NoTrace, HandPC, JobPC
<1>8. ASSUME NEW x \in list[c], NextEntry(c, x) PROVE Sound(k)'
  BY <1>8 DEF NextEntry, Goto, Return, Remove, TypeOK, Sound, Carries, FirstWay, NoTrace, HandPC, JobPC
<1>9. CASE ClearTimers(c)
  BY <1>9 DEF ClearTimers, Goto, ClearWaits, Remove, OfKind, TypeOK, Sound, Carries, FirstWay, NoTrace, HandPC, JobPC
<1>10. CASE ClearCatches(c)
  BY <1>10 DEF ClearCatches, Goto, ClearWaits, Remove, OfKind, TypeOK, Sound, Carries, FirstWay, NoTrace, HandPC, JobPC
<1>11. CASE SetRunningTimer(c)
  BY <1>11 DEF SetRunningTimer, Goto, TypeOK, Sound, Carries, FirstWay, NoTrace, HandPC, JobPC
<1>12. CASE TakeToken(c)
  <2>1. CASE job[c].tok \in parked /\ job[c].tok = k
    <3>1. k \in parked \ parked' /\ ~Armed(k)
      BY <1>12, <2>1 DEF TakeToken
    <3>2. fate[k] = "live" /\ \A d \in Call : ~Carries(d, k)
      BY <1>12, <2>1, <3>1, TakenByOne DEF TakeToken, JobPC
    <3> QED
      BY <1>12, <2>1, <3>1, <3>2 DEF TakeToken, Goto, TypeOK, Sound, Carries
  <2>2. CASE job[c].tok \in parked /\ job[c].tok # k
    <3>1. hand[c] = NoToken /\ k \in 1..born
      BY <1>12 DEF TakeToken, IInv, Wiring, HandPC, TypeOK
    <3> QED
      BY <1>12, <2>2, <3>1 DEF TakeToken, Goto, TypeOK, Sound, Carries, FirstWay, NoTrace, JobPC
  <2>3. CASE job[c].tok \notin parked
    BY <1>12, <2>3 DEF TakeToken, Goto, Return, TypeOK, Sound, Carries, FirstWay, NoTrace
  <2> QED  BY <2>1, <2>2, <2>3
<1>13. CASE CloneToken(c)
  <2>1. CASE pc[c] = "take" /\ CloneMade(c) /\ k = born + 1
    <3>1. NoTrace(k) /\ fate[k] = "live" /\ \A d \in Call : hand[d] # k
      <4>1. \A x \in Entry : x.tok \in Nat
        BY EntryFields, BoundAssumption DEF Token
      <4>2. \A d \in Call : hand[d] # k
        BY <2>1 DEF IInv, Made, TypeOK
      <4>3. fate[k] = "live"
        BY <2>1 DEF IInv, Made
      <4>4. NoTrace(k)
        BY <2>1, <4>1 DEF IInv, Made, TypeOK, NoTrace
      <4> QED  BY <4>2, <4>3, <4>4
    <3>2. k > Len(Start)
      BY <2>1, StartAssumption DEF IInv, Made
    <3> QED
      BY <2>1, <3>1, <3>2 DEF CloneMade, AfterTake, TypeOK, Sound, Carries, FirstWay, NoTrace
  <2>2. CASE pc[c] = "take" /\ CloneMade(c) /\ k # born + 1
    <3>1. hand[c] = NoToken /\ k \in 1..born
      BY <2>2 DEF CloneMade, IInv, Wiring, HandPC, TypeOK
    <3> QED
      BY <2>2, <3>1 DEF CloneMade, AfterTake, TypeOK, Sound, Carries, FirstWay, NoTrace, JobPC
  <2>3. CASE pc[c] = "take" /\ NoCloneMade(c)
    BY <2>3 DEF NoCloneMade, Goto, Return, TypeOK, Sound, Carries, FirstWay, NoTrace
  <2> QED  BY <1>13, <2>1, <2>2, <2>3, CloneOrReturn
<1>14. CASE CancelTasks(c)
  BY <1>14 DEF CancelTasks, Goto, Remove, OfKind, AfterTake, TypeOK, Sound, Carries, FirstWay, NoTrace, HandPC, JobPC
<1>15. CASE SetRunningMessage(c)
  BY <1>15 DEF SetRunningMessage, Goto, KeepParallel, TypeOK, Sound, Carries, FirstWay, NoTrace, HandPC, JobPC
<1>16. CASE ResolveNext(c)
  BY <1>16 DEF ResolveNext, Goto, Abort, Return, TypeOK, Sound, Carries, FirstWay, NoTrace, HandPC, JobPC
<1>17. CASE ArmBoundary(c)
  BY <1>17 DEF ArmBoundary, Goto, NewEntry, TypeOK, Sound, Carries, FirstWay, NoTrace, HandPC, JobPC
<1>18. CASE ParkToken(c)
  BY <1>18 DEF ParkToken, Goto, Boundary, TypeOK, Sound, Carries, FirstWay, NoTrace, HandPC, JobPC
<1>19. CASE SetWaiting(c)
  BY <1>19 DEF SetWaiting, Goto, KeepParallel, TypeOK, Sound, Carries, FirstWay, NoTrace, HandPC, JobPC
<1>20. ASSUME NEW e \in todo[c], InsertPending(c, e) PROVE Sound(k)'
  BY <1>20 DEF InsertPending, Goto, NewEntry, TypeOK, Sound, Carries, FirstWay, NoTrace, HandPC, JobPC
<1>21. CASE EndToken(c)
  BY <1>21 DEF EndToken, Goto, TypeOK, Sound, Carries, FirstWay, NoTrace, HandPC, JobPC
<1>22. CASE CloseInstance(c)
  BY <1>22 DEF CloseInstance, Goto, TypeOK, Sound, Carries, FirstWay, NoTrace, HandPC, JobPC
<1>23. CASE StepFails(c)
  BY <1>23 DEF StepFails, Goto, Abort, Return, TypeOK, Sound, Carries, FirstWay, NoTrace, HandPC, JobPC
<1>24. CASE BatchReturns(c)
  <2>1. \A x \in pending' : x \in pending \/ x.tok = job[c].tok
    BY <1>24 DEF BatchReturns, Reschedule, JobPC, Entry
  <2> QED
    BY <1>24, <2>1 DEF BatchReturns, Goto, Return, TypeOK, Sound, Carries, FirstWay, NoTrace, HandPC, JobPC
<1> QED
  BY <1>1, <1>2, <1>3, <1>4, <1>5, <1>6, <1>7, <1>8, <1>9, <1>10, <1>11, <1>12, <1>13, <1>14, <1>15, <1>16, <1>17, <1>18, <1>19, <1>20, <1>21, <1>22, <1>23, <1>24 DEF Step, CallStep

\* A call that begins removes the entry of a user task, or copies entries that are there.
LEMMA BeginIInv == ASSUME IInv, NEW c \in Call, Begin(c), Tracked(c) PROVE IInv'
<1> TypeOK /\ Wiring /\ Made
  BY DEF IInv
<1> /\ early' = early /\ stranded' = stranded
    /\ overlap' = (overlap \/ \E d \in Call : pc[d] # "idle")
  BY DEF Tracked
<1> NoToken \notin Token /\ NoEntry \notin Entry
  BY NullAssumption
<1>1. ASSUME NEW x \in pending, CompleteUserTask(c, x) PROVE IInv'
  <2>1. TypeOK'
    BY <1>1 DEF CompleteUserTask, Goto, Remove, TypeOK
  <2>2. Wiring' /\ Made'
    BY <1>1 DEF CompleteUserTask, Goto, Remove, TypeOK, Wiring, Made, HandPC, JobPC
  <2>3. ASSUME NEW k \in (1..born) \ early PROVE Sound(k)'
    <3>1. Sound(k)
      BY DEF IInv
    <3> QED
      BY <1>1, <3>1 DEF CompleteUserTask, Goto, Remove, TypeOK, Sound, Carries, FirstWay, NoTrace
  <2>4. born' = born
    BY <1>1 DEF CompleteUserTask
  <2> QED  BY <2>1, <2>2, <2>3, <2>4 DEF IInv
<1>2. ASSUME NEW E \in SUBSET pending, Collect(c, E) PROVE IInv'
  <2>1. TypeOK'
    BY <1>2 DEF Collect, Goto, TypeOK
  <2>2. Wiring' /\ Made'
    BY <1>2 DEF Collect, Goto, TypeOK, Wiring, Made, HandPC, JobPC
  <2>3. ASSUME NEW k \in (1..born) \ early PROVE Sound(k)'
    <3>1. Sound(k)
      BY DEF IInv
    <3> QED
      BY <1>2, <3>1 DEF Collect, Goto, TypeOK, Sound, Carries, FirstWay, NoTrace
  <2>4. born' = born
    BY <1>2 DEF Collect
  <2> QED  BY <2>1, <2>2, <2>3, <2>4 DEF IInv
<1>3. ProcessTimers(c) => Collect(c, due) /\ due \in SUBSET pending
  BY DEF ProcessTimers, TypeOK
<1>4. \A m : CorrelateMessage(c, m) => \E E \in SUBSET pending : Collect(c, E)
  BY DEF CorrelateMessage, OfKind
<1> QED  BY <1>1, <1>2, <1>3, <1>4 DEF Begin

\* Time and the operator touch no token and no entry.
LEMMA OtherIInv == ASSUME IInv, UNCHANGED <<overlap, early, stranded>>,
                          (\E x \in pending : Expire(x)) \/ SuspendInstance \/ ResumeInstance
                   PROVE  IInv'
<1> TypeOK /\ Wiring /\ Made
  BY DEF IInv
<1>1. TypeOK'
  <2>1. ASSUME NEW x \in pending, Expire(x) PROVE TypeOK'
    BY <2>1 DEF Expire, OfKind, TypeOK
  <2>2. CASE SuspendInstance \/ ResumeInstance
    <3>1. state' \in State /\ previous' \in State \ {"Completed", "Suspended"}
      BY <2>2 DEF SuspendInstance, ResumeInstance, TypeOK
    <3>2. UNCHANGED <<mapVars, born, at, parked, active, fate, callVars>>
      BY <2>2 DEF SuspendInstance, ResumeInstance
    <3> QED  BY <3>1, <3>2 DEF TypeOK
  <2> QED  BY <2>1, <2>2
<1>2. UNCHANGED <<pending, born, at, parked, fate, callVars, early>>
  BY DEF Expire, SuspendInstance, ResumeInstance
<1>3. Wiring' /\ Made' /\ \A k \in (1..born') \ early' : Sound(k)'
  BY <1>2 DEF IInv, Wiring, Made, Sound, Carries, FirstWay, NoTrace
<1> QED  BY <1>1, <1>3 DEF IInv

\* Every step keeps the invariant.
LEMMA NextIInv == IInv /\ [Next]_vars => IInv'
<1> SUFFICES ASSUME IInv, [Next]_vars PROVE IInv'
  OBVIOUS
<1>1. ASSUME NEW c \in Call, Step(c), early = {} PROVE IInv'
  BY <1>1, StepTyped, StepWiring, StepMade, StepSound DEF IInv
<1>2. CASE UNCHANGED vars
  BY <1>2 DEF vars, IInv, TypeOK, Wiring, Made, Sound, Carries, FirstWay, NoTrace
<1> QED  BY <1>1, <1>2, BeginIInv, OtherIInv DEF Next

\* The calls that carry a token are at most one.
LEMMA IInvConsistent == IInv => Consistent
<1> SUFFICES ASSUME IInv, NEW k \in (1..born) \ early
             PROVE  /\ Cardinality(Carriers(k)) <= 1
                    /\ Carriers(k) # {} => fate[k] = "live" /\ (k \in parked => k > Len(Start))
                    /\ k \in parked => fate[k] # "ended"
  BY DEF IInv, Consistent, OneTokenOnePlace
<1>1. Sound(k)
  BY DEF IInv
<1>2. Cardinality(Carriers(k)) <= 1
  <2>1. CASE Carriers(k) = {}
    BY <2>1, FS_EmptySet
  <2>2. ASSUME NEW c \in Carriers(k) PROVE Cardinality(Carriers(k)) <= 1
    <3>1. Carriers(k) = {c}
      BY <1>1, <2>2 DEF Carriers, Sound, Carries
    <3> QED  BY <3>1, FS_Singleton
  <2> QED  BY <2>1, <2>2
<1> QED  BY <1>1, <1>2 DEF Carriers, Sound, Carries, FirstWay

\* user_task.rs, timer_processor.rs and message_processor.rs: however their
\* calls interleave, and whatever fails, no two of them get hold of one token,
\* and no token is run that ended or was dropped, for every graph of wait
\* states.
THEOREM OneCallGetsTheToken == Spec => []Consistent
<1>1. Spec => []IInv
  BY InitIInv, NextIInv, PTL DEF Spec
<1> QED  BY <1>1, IInvConsistent, PTL

----------------------------------------------------------------------------
(***************************************************************************)
(* A token that is parked can go on.  The invariant tells which ways on it *)
(* has whatever the other calls do: a user task is taken out only to take  *)
(* the token or to be put back; the events of a gateway are taken out by a *)
(* call that then takes the token, or that is late.                        *)
(***************************************************************************)

\* Where a call carries the token that its entry names, and where it has removed a
\* user task, or an event, and has no token.
CarryPC == {"cancelTimers", "cancelCatches", "runUser", "script", "cancelTasks"}
TaskPC  == {"check", "takeUser", "putBack"}
EventPC == {"clearTimers", "clearCatches", "runTimer", "take"}

\* A completion has removed a user task, and goes on with the token of that task;
\* what a sweep or a correlation collects is no user task.
Ways ==
  /\ \A x \in due : Kind[x.ev] = "timer"
  /\ \A c \in Call : \A x \in list[c] : Kind[x.ev] # "user"
  /\ \A c \in Call : pc[c] \in TaskPC \cup (CarryPC \ {"cancelTasks"}) => Kind[job[c].ev] = "user"
  /\ \A c \in Call : pc[c] \in CarryPC => hand[c] = job[c].tok

\* Call c has token k in its hands, or is setting up the wait that k is at, or is
\* about to take k, or to put its user task back.
Minds(c, k) ==
  \/ Carries(c, k)
  \/ /\ hand[c] = k /\ pc[c] \in {"wait", "insert"}
     /\ at[k] \in Wait /\ todo[c] \subseteq Offer[at[k]] \ Boundary(at[k])
  \/ /\ job[c] # NoEntry /\ job[c].tok = k
     /\ pc[c] \in TaskPC \/ (pc[c] \in EventPC /\ job[c].ev \in Interrupting)

\* A user task is a way on wherever its token is; a timer or a catch is one at
\* the gateway or the catch event that offers it.
WayOn(k) ==
  \E x \in pending : /\ x.tok = k
                     /\ \/ Kind[x.ev] = "user"
                        \/ at[k] \in Wait /\ ~IsUser(at[k]) /\ x.ev \in Offer[at[k]]

\* The invariant: a parked token has a way on, or a call that minds it.
CanMove(k) == WayOn(k) \/ \E c \in Call : Minds(c, k)

Movable == Ways /\ \A k \in parked \ stranded : fate[k] = "live" => CanMove(k)

\* A step leaves alone what call d keeps for itself.
Same(d) == /\ pc'[d] = pc[d] /\ job'[d] = job[d] /\ hand'[d] = hand[d]
           /\ list'[d] = list[d] /\ todo'[d] = todo[d]

\* The calls leave each other alone but for what they share.
LEMMA StepAlone == ASSUME IInv, NEW c \in Call, CallStep(c), NEW d \in Call \ {c} PROVE Same(d)
<1> CallTyped
  BY TypeParts DEF IInv
<1> USE DEF CallStep, Goto, Return, Abort, CheckSuspended, TakeUserToken,
      CancelBoundaryTimers, CancelBoundaryCatches, CancelBoundary, SetRunningUser,
      RunEndScripts, PutBackTask, NextEntry, ClearTimers, ClearCatches, ClearWaits,
      SetRunningTimer, TakeToken, CloneToken, CancelTasks, SetRunningMessage, ResolveNext,
      ArmBoundary, ParkToken, SetWaiting, InsertPending, EndToken, CloseInstance,
      StepFails, BatchReturns
<1>1. pc'[d] = pc[d]
  <2>1. pc' = pc \/ \E v : pc' = [pc EXCEPT ![c] = v]
    OBVIOUS
  <2> QED  BY <2>1 DEF CallTyped
<1>2. job'[d] = job[d]
  <2>1. job' = job \/ \E v : job' = [job EXCEPT ![c] = v]
    OBVIOUS
  <2> QED  BY <2>1 DEF CallTyped
<1>3. hand'[d] = hand[d]
  BY DEF CallTyped
<1>4. list'[d] = list[d]
  BY DEF CallTyped
<1>5. todo'[d] = todo[d]
  BY DEF CallTyped
<1> QED  BY <1>1, <1>2, <1>3, <1>4, <1>5 DEF Same

\* The calls keep to their ways.
LEMMA StepWays == ASSUME IInv, Ways, NEW c \in Call, Step(c) PROVE Ways'
<1> CallTyped
  BY TypeParts DEF IInv
<1>1. CASE CheckSuspended(c)
  BY <1>1 DEF CheckSuspended, Goto, Return, CallTyped, Ways, TaskPC, CarryPC
<1>2. CASE TakeUserToken(c)
  BY <1>2 DEF TakeUserToken, Goto, Return, CallTyped, Ways, TaskPC, CarryPC
<1>3. CASE CancelBoundaryTimers(c)
  BY <1>3 DEF CancelBoundaryTimers, Goto, CancelBoundary, Remove, CallTyped, Ways, TaskPC, CarryPC
<1>4. CASE CancelBoundaryCatches(c)
  BY <1>4 DEF CancelBoundaryCatches, Goto, CancelBoundary, Remove, CallTyped, Ways, TaskPC, CarryPC
<1>5. CASE SetRunningUser(c)
  BY <1>5 DEF SetRunningUser, Goto, CallTyped, Ways, TaskPC, CarryPC
<1>6. CASE RunEndScripts(c)
  BY <1>6 DEF RunEndScripts, Goto, CallTyped, Ways, TaskPC, CarryPC
<1>7. CASE PutBackTask(c)
  BY <1>7 DEF PutBackTask, Goto, Return, CallTyped, Ways, TaskPC, CarryPC
<1>8. ASSUME NEW x \in list[c], NextEntry(c, x) PROVE Ways'
  BY <1>8 DEF NextEntry, Goto, Return, Remove, CallTyped, Ways, TaskPC, CarryPC
<1>9. CASE ClearTimers(c)
  BY <1>9 DEF ClearTimers, Goto, ClearWaits, Remove, CallTyped, Ways, TaskPC, CarryPC
<1>10. CASE ClearCatches(c)
  BY <1>10 DEF ClearCatches, Goto, ClearWaits, Remove, CallTyped, Ways, TaskPC, CarryPC
<1>11. CASE SetRunningTimer(c)
  BY <1>11 DEF SetRunningTimer, Goto, CallTyped, Ways, TaskPC, CarryPC
<1>12. CASE TakeToken(c)
  BY <1>12 DEF TakeToken, Goto, Return, CallTyped, Ways, TaskPC, CarryPC
<1>13. CASE CloneToken(c)
  BY <1>13 DEF CloneToken, Goto, Return, AfterTake, CallTyped, Ways, TaskPC, CarryPC
<1>14. CASE CancelTasks(c)
  BY <1>14 DEF CancelTasks, Goto, Remove, AfterTake, CallTyped, Ways, TaskPC, CarryPC
<1>15. CASE SetRunningMessage(c)
  BY <1>15 DEF SetRunningMessage, Goto, CallTyped, Ways, TaskPC, CarryPC
<1>16. CASE ResolveNext(c)
  BY <1>16 DEF ResolveNext, Goto, Abort, Return, CallTyped, Ways, TaskPC, CarryPC
<1>17. CASE ArmBoundary(c)
  BY <1>17 DEF ArmBoundary, Goto, CallTyped, Ways, TaskPC, CarryPC
<1>18. CASE ParkToken(c)
  BY <1>18 DEF ParkToken, Goto, CallTyped, Ways, TaskPC, CarryPC
<1>19. CASE SetWaiting(c)
  BY <1>19 DEF SetWaiting, Goto, CallTyped, Ways, TaskPC, CarryPC
<1>20. ASSUME NEW e \in todo[c], InsertPending(c, e) PROVE Ways'
  BY <1>20 DEF InsertPending, Goto, CallTyped, Ways, TaskPC, CarryPC
<1>21. CASE EndToken(c)
  BY <1>21 DEF EndToken, Goto, CallTyped, Ways, TaskPC, CarryPC
<1>22. CASE CloseInstance(c)
  BY <1>22 DEF CloseInstance, Goto, CallTyped, Ways, TaskPC, CarryPC
<1>23. CASE StepFails(c)
  BY <1>23 DEF StepFails, Goto, Abort, Return, CallTyped, Ways, TaskPC, CarryPC
<1>24. CASE BatchReturns(c)
  BY <1>24 DEF BatchReturns, Goto, Return, CallTyped, Ways, TaskPC, CarryPC
<1> QED
  BY <1>1, <1>2, <1>3, <1>4, <1>5, <1>6, <1>7, <1>8, <1>9, <1>10, <1>11, <1>12, <1>13, <1>14, <1>15, <1>16, <1>17, <1>18, <1>19, <1>20, <1>21, <1>22, <1>23, <1>24 DEF Step, CallStep

\* A token whose node stays can move on after a step of call c, if it can where c
\* had to do with it and where c took one of its ways on.
LEMMA KeepsMoving ==
  ASSUME NEW c \in Call, \A d \in Call \ {c} : Same(d), NEW k, CanMove(k), at'[k] = at[k],
         Minds(c, k) => CanMove(k)',
         \A x \in pending \ pending' :
           /\ x.tok = k
           /\ \/ Kind[x.ev] = "user"
              \/ at[k] \in Wait /\ ~IsUser(at[k]) /\ x.ev \in Offer[at[k]]
           => CanMove(k)'
  PROVE  CanMove(k)'
<1>1. CASE WayOn(k)
  BY <1>1 DEF WayOn, CanMove
<1>2. ASSUME NEW d \in Call, Minds(d, k) PROVE CanMove(k)'
  <2>1. CASE d = c
    BY <1>2, <2>1
  <2>2. CASE d # c
    <3>1. Minds(d, k)'
      BY <1>2, <2>2 DEF Minds, Carries, Same
    <3> QED  BY <3>1 DEF CanMove
  <2> QED  BY <2>1, <2>2
<1> QED  BY <1>1, <1>2 DEF CanMove

\* A parked token keeps a way on, unless a late event cancels it.
LEMMA StepMoves == ASSUME IInv, Movable, EventsHaveTheirWait, NEW c \in Call, Step(c),
                          NEW k \in parked' \ stranded', fate'[k] = "live"
                   PROVE  CanMove(k)'
<1> CallTyped /\ StoreTyped /\ Wiring /\ Ways
  BY TypeParts DEF IInv, Movable
<1> NoToken \notin Token /\ NoEntry \notin Entry
  BY NullAssumption
<1> /\ pc[c] \in JobPC => job[c] \in Entry /\ job[c].ev \in Event
    /\ pc[c] \in HandPC => hand[c] \in Token
  BY EntryFields DEF Wiring, CallTyped
<1> k # NoToken
  BY StepTyped, TypeParts, BoundAssumption DEF StoreTyped, Token
<1>a. /\ \A d \in Call \ {c} : Same(d)
      /\ \A x \in pending \ pending' : Late(c) => x.tok # k
  BY StepAlone DEF Step
<1>b. /\ \A d \in Call \ {c} : Same(d)
      /\ k \in parked /\ fate[k] = "live" => CanMove(k)
  BY <1>a DEF Movable, Step
<1>1. CASE CheckSuspended(c)
  <2>1. /\ pc[c] = "check" /\ hand[c] = NoToken /\ Kind[job[c].ev] = "user"
        /\ pending \subseteq pending' /\ UNCHANGED <<at, parked, fate>>
    BY <1>1 DEF CheckSuspended, Wiring, HandPC, Ways, TaskPC
  <2>2. \/ job[c] \in pending'
        \/ pc'[c] = "takeUser" /\ UNCHANGED <<job, hand>>
    BY <1>1 DEF CheckSuspended, Goto, CallTyped
  <2>3. Minds(c, k) => CanMove(k)'
    BY <2>1, <2>2 DEF Minds, Carries, CanMove, WayOn, TaskPC
  <2> QED  BY <1>b, <2>1, <2>3, KeepsMoving
<1>2. CASE TakeUserToken(c)
  <2>1. /\ pc[c] = "takeUser" /\ hand[c] = NoToken /\ UNCHANGED <<pending, at, fate>>
        /\ parked' \subseteq parked /\ job[c].tok \notin parked'
    BY <1>2 DEF TakeUserToken, Wiring, HandPC
  <2>2. Minds(c, k) => job[c].tok = k
    BY <2>1 DEF Minds, Carries
  <2> QED  BY <1>b, <2>1, <2>2, KeepsMoving
<1>3. CASE CancelBoundaryTimers(c)
  <2>1. /\ pc[c] \in CarryPC \ {"cancelTasks"} /\ UNCHANGED <<at, parked, fate>>
        /\ pending' = pending \ {x \in pending : Kind[x.ev] = "timer" /\ x.ev \in Boundary(job[c].ev)}
        /\ hand' = hand /\ pc'[c] \in {"cancelCatches", "runUser"}
    BY <1>3 DEF CancelBoundaryTimers, CancelBoundary, Remove, OfKind, Goto, CarryPC, CallTyped
  <2>2. job[c].ev \in Wait /\ IsUser(job[c].ev)
    BY <2>1 DEF Ways, JobPC, CarryPC, EventsHaveTheirWait, IsUser
  <2>3. \A x \in pending \ pending' :
          Kind[x.ev] # "user" /\ (at[k] \in Wait /\ ~IsUser(at[k]) => x.ev \notin Offer[at[k]])
    BY <2>1, <2>2 DEF EventsHaveTheirWait
  <2>4. Minds(c, k) => CanMove(k)'
    BY <2>1 DEF Minds, Carries, CanMove, CarryPC, TaskPC, EventPC
  <2> QED  BY <1>b, <2>1, <2>3, <2>4, KeepsMoving
<1>4. CASE CancelBoundaryCatches(c)
  <2>1. /\ pc[c] \in CarryPC \ {"cancelTasks"} /\ UNCHANGED <<at, parked, fate>>
        /\ pending' = pending \ {x \in pending : Kind[x.ev] = "message" /\ x.ev \in Boundary(job[c].ev)}
        /\ hand' = hand /\ pc'[c] \in {"cancelCatches", "runUser"}
    BY <1>4 DEF CancelBoundaryCatches, CancelBoundary, Remove, OfKind, Goto, CarryPC, CallTyped
  <2>2. job[c].ev \in Wait /\ IsUser(job[c].ev)
    BY <2>1 DEF Ways, JobPC, CarryPC, EventsHaveTheirWait, IsUser
  <2>3. \A x \in pending \ pending' :
          Kind[x.ev] # "user" /\ (at[k] \in Wait /\ ~IsUser(at[k]) => x.ev \notin Offer[at[k]])
    BY <2>1, <2>2 DEF EventsHaveTheirWait
  <2>4. Minds(c, k) => CanMove(k)'
    BY <2>1 DEF Minds, Carries, CanMove, CarryPC, TaskPC, EventPC
  <2> QED  BY <1>b, <2>1, <2>3, <2>4, KeepsMoving
<1>5. CASE SetRunningUser(c)
  <2>1. /\ pc[c] = "runUser" /\ pc'[c] = "script" /\ UNCHANGED <<at, parked, fate, job, hand, todo>>
        /\ pending \subseteq pending'
    BY <1>5 DEF SetRunningUser, Goto, CallTyped
  <2>2. Minds(c, k) => CanMove(k)'
    BY <2>1 DEF CanMove, Minds, Carries, TaskPC, EventPC
  <2> QED  BY <1>b, <2>1, <2>2, KeepsMoving
<1>6. CASE RunEndScripts(c)
  <2>1. /\ pc[c] = "script" /\ hand[c] = job[c].tok /\ job[c] # NoEntry
        /\ UNCHANGED <<pending, at, fate, job>>
    BY <1>6 DEF RunEndScripts, Ways, CarryPC, Wiring, JobPC
  <2>2. \/ pc'[c] = "next" /\ UNCHANGED <<parked, hand>>
        \/ pc'[c] = "putBack" /\ parked' = parked \cup {hand[c]}
    BY <1>6 DEF RunEndScripts, Goto, CallTyped
  <2>3. Minds(c, k) \/ k = hand[c] => CanMove(k)'
    BY <2>1, <2>2 DEF Minds, Carries, CanMove, TaskPC, EventPC
  <2> QED  BY <1>b, <2>1, <2>2, <2>3, KeepsMoving
<1>7. CASE PutBackTask(c)
  <2>1. /\ pc[c] = "putBack" /\ hand[c] = NoToken /\ Kind[job[c].ev] = "user"
        /\ pending' = pending \cup {job[c]} /\ UNCHANGED <<at, parked, fate>>
    BY <1>7 DEF PutBackTask, Wiring, HandPC, Ways, TaskPC
  <2>2. Minds(c, k) => CanMove(k)'
    BY <2>1 DEF Minds, Carries, CanMove, WayOn
  <2> QED  BY <1>b, <2>1, <2>2, KeepsMoving
<1>8. ASSUME NEW x \in list[c], NextEntry(c, x) PROVE CanMove(k)'
  <2>1. /\ pc[c] = "list" /\ hand[c] = NoToken /\ Kind[x.ev] # "user"
        /\ UNCHANGED <<at, parked, fate>>
    BY <1>8 DEF NextEntry, Wiring, HandPC, Ways
  <2>2. ~Minds(c, k)
    BY <2>1 DEF Minds, Carries, TaskPC, EventPC
  <2>3. CASE x \in pending
    <3>1. pending' = pending \ {x} /\ job'[c] = x /\ pc'[c] = "clearTimers" /\ x # NoEntry
      BY <1>8, <2>3 DEF NextEntry, Remove, Goto, CallTyped, StoreTyped
    <3>2. x.tok = k /\ x.ev \in Interrupting => CanMove(k)'
      BY <3>1 DEF CanMove, Minds, EventPC
    <3>3. at[k] \in Wait /\ ~IsUser(at[k]) /\ x.ev \in Offer[at[k]] => x.ev \in Interrupting
      BY DEF EventsHaveTheirWait
    <3> QED  BY <1>b, <2>1, <2>2, <3>1, <3>2, <3>3, KeepsMoving
  <2>4. CASE x \notin pending
    <3>1. pending' = pending
      BY <1>8, <2>4 DEF NextEntry
    <3> QED  BY <1>b, <2>1, <2>2, <3>1, KeepsMoving
  <2> QED  BY <2>3, <2>4
<1>9. CASE ClearTimers(c)
  <2>1. /\ pc[c] = "clearTimers" /\ hand[c] = NoToken /\ job[c] # NoEntry
        /\ pending' = pending \ {x \in pending : Kind[x.ev] = "timer" /\ x.tok = job[c].tok}
        /\ pc'[c] \in {"clearCatches"} /\ UNCHANGED <<at, parked, fate, job>>
    BY <1>9 DEF ClearTimers, ClearWaits, Remove, OfKind, Goto, CallTyped, Wiring, HandPC, JobPC
  <2>2. job[c].tok = k /\ job[c].ev \in Interrupting => CanMove(k)'
    BY <2>1 DEF CanMove, Minds, EventPC
  <2>3. Minds(c, k) => CanMove(k)'
    BY <2>1, <2>2 DEF Minds, Carries, TaskPC
  <2>4. ASSUME NEW x \in pending \ pending', x.tok = k, at[k] \in Wait, ~IsUser(at[k])
        PROVE  CanMove(k)'
    <3>1. job[c].tok = k /\ x \in pending \ pending'
      BY <2>1, <2>4
    <3>2. ~Late(c)
      BY <1>a, <2>4 DEF Step
    <3>3. job[c].ev \in Interrupting
      BY <2>1, <2>4, <3>1, <3>2 DEF Late, EventsHaveTheirWait
    <3> QED  BY <2>2, <3>1, <3>3
  <2> QED  BY <1>b, <2>1, <2>3, <2>4, KeepsMoving
<1>10. CASE ClearCatches(c)
  <2>1. /\ pc[c] = "clearCatches" /\ hand[c] = NoToken /\ job[c] # NoEntry
        /\ pending' = pending \ {x \in pending : Kind[x.ev] = "message" /\ x.tok = job[c].tok}
        /\ pc'[c] \in {"runTimer", "take"} /\ UNCHANGED <<at, parked, fate, job>>
    BY <1>10 DEF ClearCatches, ClearWaits, Remove, OfKind, Goto, CallTyped, Wiring, HandPC, JobPC
  <2>2. job[c].tok = k /\ job[c].ev \in Interrupting => CanMove(k)'
    BY <2>1 DEF CanMove, Minds, EventPC
  <2>3. Minds(c, k) => CanMove(k)'
    BY <2>1, <2>2 DEF Minds, Carries, TaskPC
  <2>4. ASSUME NEW x \in pending \ pending', x.tok = k, at[k] \in Wait, ~IsUser(at[k])
        PROVE  CanMove(k)'
    <3>1. job[c].tok = k /\ x \in pending \ pending'
      BY <2>1, <2>4
    <3>2. ~Late(c)
      BY <1>a, <2>4 DEF Step
    <3>3. job[c].ev \in Interrupting
      BY <2>1, <2>4, <3>1, <3>2 DEF Late, EventsHaveTheirWait
    <3> QED  BY <2>2, <3>1, <3>3
  <2> QED  BY <1>b, <2>1, <2>3, <2>4, KeepsMoving
<1>11. CASE SetRunningTimer(c)
  <2>1. /\ pc[c] = "runTimer" /\ pc'[c] = "take" /\ UNCHANGED <<at, parked, fate, job, hand, todo>>
        /\ pending \subseteq pending'
    BY <1>11 DEF SetRunningTimer, Goto, CallTyped
  <2>2. Minds(c, k) => CanMove(k)'
    BY <2>1 DEF CanMove, Minds, Carries, TaskPC, EventPC
  <2> QED  BY <1>b, <2>1, <2>2, KeepsMoving
<1>12. CASE TakeToken(c)
  <2>1. /\ pc[c] = "take" /\ hand[c] = NoToken /\ UNCHANGED <<pending, at, fate>>
        /\ parked' \subseteq parked /\ job[c].tok \notin parked'
    BY <1>12 DEF TakeToken, Wiring, HandPC
  <2>2. Minds(c, k) => job[c].tok = k
    BY <2>1 DEF Minds, Carries
  <2> QED  BY <1>b, <2>1, <2>2, KeepsMoving
<1>13. CASE CloneToken(c)
  <2>1. CASE pc[c] = "take" /\ CloneMade(c)
    <3>1. /\ hand'[c] = born + 1 /\ pc'[c] \in {"next", "runMessage"}
          /\ parked' = parked \cup {born + 1} /\ UNCHANGED <<pending, fate>>
      BY <2>1 DEF CloneMade, AfterTake, CallTyped
    <3>2. k = born + 1 => CanMove(k)'
      BY <3>1 DEF CanMove, Minds, Carries
    <3>3. k # born + 1 => at'[k] = at[k]
      BY <2>1 DEF CloneMade, StoreTyped
    <3>4. ~Minds(c, k)
      BY <1>13, <2>1 DEF CloneToken, Minds, Carries, Wiring, HandPC, TaskPC
    <3> QED  BY <1>b, <3>1, <3>2, <3>3, <3>4, KeepsMoving
  <2>2. CASE pc[c] = "take" /\ NoCloneMade(c)
    <3>1. ~Minds(c, k) /\ UNCHANGED <<pending, at, parked, fate>>
      BY <1>13, <2>2 DEF CloneToken, NoCloneMade, Minds, Carries, Wiring, HandPC, TaskPC
    <3> QED  BY <1>b, <3>1, KeepsMoving
  <2> QED  BY <1>13, <2>1, <2>2, CloneOrReturn
<1>14. CASE CancelTasks(c)
  <2>1. /\ pc[c] = "cancelTasks" /\ hand[c] = job[c].tok /\ UNCHANGED <<at, parked, fate, hand>>
        /\ pc'[c] \in {"next", "runMessage"} /\ \A x \in pending \ pending' : x.tok = job[c].tok
    BY <1>14 DEF CancelTasks, Remove, OfKind, AfterTake, Goto, CallTyped, Ways, CarryPC
  <2>2. hand[c] = k => CanMove(k)'
    BY <2>1 DEF CanMove, Minds, Carries
  <2>3. Minds(c, k) => hand[c] = k
    BY <2>1 DEF Minds, Carries, TaskPC, EventPC
  <2> QED  BY <1>b, <2>1, <2>2, <2>3, KeepsMoving
<1>15. CASE SetRunningMessage(c)
  <2>1. /\ pc[c] = "runMessage" /\ pc'[c] = "next" /\ UNCHANGED <<at, parked, fate, job, hand, todo>>
        /\ pending \subseteq pending'
    BY <1>15 DEF SetRunningMessage, Goto, CallTyped
  <2>2. Minds(c, k) => CanMove(k)'
    BY <2>1 DEF CanMove, Minds, Carries, TaskPC, EventPC
  <2> QED  BY <1>b, <2>1, <2>2, KeepsMoving
<1>16. CASE ResolveNext(c)
  <2>1. CASE Abort(c)
    <3>1. /\ pc[c] = "next" /\ UNCHANGED <<pending, at, parked>>
          /\ fate'[hand[c]] = "lost" /\ (hand[c] # k => fate'[k] = fate[k])
      BY <1>16, <2>1 DEF ResolveNext, Abort, StoreTyped, HandPC
    <3>2. pc[c] = "next" /\ hand[c] # k
      BY <3>1
    <3>3. ~Minds(c, k)
      BY <3>2 DEF Minds, Carries, TaskPC, EventPC
    <3> QED  BY <1>b, <3>1, <3>2, <3>3, KeepsMoving
  <2>2. CASE ~Abort(c)
    <3>1. /\ pc[c] = "next" /\ pc'[c] = "batch" /\ UNCHANGED <<pending, parked, fate, hand>>
          /\ at' = [at EXCEPT ![hand[c]] = Target[job[c].ev]]
      BY <1>16, <2>2 DEF ResolveNext, Goto, CallTyped
    <3>2. hand[c] = k => CanMove(k)'
      BY <3>1 DEF CanMove, Minds, Carries
    <3>3. hand[c] # k => at'[k] = at[k]
      BY <3>1 DEF StoreTyped
    <3>4. Minds(c, k) => hand[c] = k
      BY <3>1 DEF Minds, Carries, TaskPC, EventPC
    <3> QED  BY <1>b, <3>1, <3>2, <3>3, <3>4, KeepsMoving
  <2> QED  BY <2>1, <2>2
<1>17. CASE ArmBoundary(c)
  <2>1. /\ pc[c] = "batch" /\ pc'[c] = "park" /\ UNCHANGED <<at, parked, fate, job, hand, todo>>
        /\ pending \subseteq pending'
    BY <1>17 DEF ArmBoundary, Goto, CallTyped
  <2>2. Minds(c, k) => CanMove(k)'
    BY <2>1 DEF CanMove, Minds, Carries, TaskPC, EventPC
  <2> QED  BY <1>b, <2>1, <2>2, KeepsMoving
<1>18. CASE ParkToken(c)
  <2>1. /\ pc[c] = "park" /\ pc'[c] = "wait" /\ UNCHANGED <<pending, at, fate, hand>>
        /\ parked' = parked \cup {hand[c]} /\ at[hand[c]] \in Wait
        /\ todo'[c] = Offer[at[hand[c]]] \ Boundary(at[hand[c]])
    BY <1>18 DEF ParkToken, Goto, CallTyped, Wiring
  <2>2. hand[c] = k => CanMove(k)'
    BY <2>1 DEF CanMove, Minds
  <2>3. Minds(c, k) => hand[c] = k
    BY <2>1 DEF Minds, Carries, TaskPC, EventPC
  <2> QED  BY <1>b, <2>1, <2>2, <2>3, KeepsMoving
<1>19. CASE SetWaiting(c)
  <2>1. /\ pc[c] = "wait" /\ pc'[c] = "insert" /\ UNCHANGED <<at, parked, fate, job, hand, todo>>
        /\ pending \subseteq pending'
    BY <1>19 DEF SetWaiting, Goto, CallTyped
  <2>2. Minds(c, k) => CanMove(k)'
    BY <2>1 DEF CanMove, Minds, Carries, TaskPC, EventPC
  <2> QED  BY <1>b, <2>1, <2>2, KeepsMoving
<1>20. ASSUME NEW e \in todo[c], InsertPending(c, e) PROVE CanMove(k)'
  <2>1. /\ pc[c] = "insert" /\ pending' = pending \cup {NewEntry(e, hand[c])}
        /\ todo'[c] = todo[c] \ {e} /\ UNCHANGED <<at, parked, fate>>
    BY <1>20 DEF InsertPending, CallTyped
  <2>2. NewEntry(e, hand[c]).tok = hand[c] /\ NewEntry(e, hand[c]).ev = e
    BY DEF NewEntry
  <2>3. ASSUME Minds(c, k) PROVE CanMove(k)'
    <3>1. /\ hand[c] = k /\ at[k] \in Wait /\ todo[c] \subseteq Offer[at[k]] \ Boundary(at[k])
      BY <2>1, <2>3 DEF Minds, Carries, TaskPC, EventPC
    <3>2. e \in Offer[at[k]] /\ (IsUser(at[k]) => e = at[k])
      BY <3>1 DEF Boundary
    <3>3. WayOn(k)'
      BY <2>1, <2>2, <3>1, <3>2 DEF WayOn, IsUser
    <3> QED  BY <3>3 DEF CanMove
  <2> QED  BY <1>b, <2>1, <2>3, KeepsMoving
<1>21. CASE EndToken(c)
  <2>1. /\ pc[c] = "batch" /\ fate'[hand[c]] # "live" /\ UNCHANGED <<pending, at>>
        /\ parked' \subseteq parked /\ (hand[c] # k => fate'[k] = fate[k])
    BY <1>21 DEF EndToken, Abort, StoreTyped, HandPC
  <2>2. pc[c] = "batch" /\ hand[c] # k
    BY <2>1
  <2>3. ~Minds(c, k)
    BY <2>2 DEF Minds, Carries, TaskPC, EventPC
  <2> QED  BY <1>b, <2>1, <2>2, <2>3, KeepsMoving
<1>22. CASE CloseInstance(c)
  <2>1. pc[c] = "close" /\ hand[c] = NoToken /\ UNCHANGED <<pending, at, parked, fate>>
    BY <1>22 DEF CloseInstance, Wiring, HandPC
  <2>2. ~Minds(c, k)
    BY <2>1 DEF Minds, Carries, TaskPC, EventPC
  <2> QED  BY <1>b, <2>1, <2>2, KeepsMoving
<1>23. CASE StepFails(c)
  <2>1. /\ pc[c] = "batch" /\ fate'[hand[c]] # "live" /\ UNCHANGED <<pending, at>>
        /\ parked' \subseteq parked /\ (hand[c] # k => fate'[k] = fate[k])
    BY <1>23 DEF StepFails, Abort, StoreTyped, HandPC
  <2>2. pc[c] = "batch" /\ hand[c] # k
    BY <2>1
  <2>3. ~Minds(c, k)
    BY <2>2 DEF Minds, Carries, TaskPC, EventPC
  <2> QED  BY <1>b, <2>1, <2>2, <2>3, KeepsMoving
<1>24. CASE BatchReturns(c)
  <2>1. /\ pc[c] = "returned" /\ hand[c] = NoToken /\ pending \subseteq pending'
        /\ UNCHANGED <<at, parked, fate>>
    BY <1>24 DEF BatchReturns, Reschedule, Wiring, HandPC
  <2>2. ~Minds(c, k)
    BY <2>1 DEF Minds, Carries, TaskPC, EventPC
  <2> QED  BY <1>b, <2>1, <2>2, KeepsMoving
<1> QED
  BY <1>1, <1>2, <1>3, <1>4, <1>5, <1>6, <1>7, <1>8, <1>9, <1>10, <1>11, <1>12, <1>13, <1>14, <1>15, <1>16, <1>17, <1>18, <1>19, <1>20, <1>21, <1>22, <1>23, <1>24 DEF Step, CallStep

\* A call that begins takes out a user task, or nothing yet.
LEMMA BeginMoves == ASSUME IInv, Movable, EventsHaveTheirWait, NEW c \in Call, Begin(c), Tracked(c)
                    PROVE  Movable'
<1> CallTyped /\ StoreTyped /\ Wiring /\ Ways
  BY TypeParts DEF IInv, Movable
<1> NoToken \notin Token /\ NoEntry \notin Entry
  BY NullAssumption
<1>1. stranded' = stranded
  BY DEF Tracked
<1>2. ASSUME NEW x \in pending, CompleteUserTask(c, x) PROVE Movable'
  <2>1. /\ pc[c] = "idle" /\ hand[c] = NoToken /\ Kind[x.ev] = "user" /\ x # NoEntry
        /\ pending' = pending \ {x} /\ due' \subseteq due /\ job'[c] = x /\ pc'[c] = "check"
        /\ UNCHANGED <<at, parked, fate, list, hand>>
    BY <1>2 DEF CompleteUserTask, OfKind, Remove, Goto, CallTyped, StoreTyped, Wiring, HandPC
  <2>2. \A d \in Call \ {c} : Same(d)
    BY <1>2 DEF CompleteUserTask, Goto, CallTyped, Same
  <2>3. Ways'
    BY <2>1, <2>2 DEF Ways, Same, TaskPC, CarryPC
  <2>4. ASSUME NEW k \in parked' \ stranded', fate'[k] = "live" PROVE CanMove(k)'
    <3>1. CanMove(k) /\ k # NoToken
      BY <1>1, <2>1, <2>4, BoundAssumption DEF Movable, StoreTyped, Token
    <3>2. ~Minds(c, k)
      BY <2>1, <3>1 DEF Minds, Carries, TaskPC, EventPC
    <3>3. x.tok = k => CanMove(k)'
      BY <2>1 DEF CanMove, Minds, TaskPC
    <3> QED  BY <2>1, <2>2, <3>1, <3>2, <3>3, KeepsMoving
  <2> QED  BY <2>3, <2>4 DEF Movable
<1>3. ASSUME NEW E \in SUBSET pending, Collect(c, E), \A x \in E : Kind[x.ev] # "user"
      PROVE  Movable'
  <2>1. /\ pc[c] = "idle" /\ hand[c] = NoToken /\ list'[c] = E /\ pc'[c] = "list"
        /\ UNCHANGED <<pending, due, at, parked, fate, job, hand>>
    BY <1>3 DEF Collect, Goto, CallTyped, Wiring, HandPC
  <2>2. \A d \in Call \ {c} : Same(d)
    BY <1>3 DEF Collect, Goto, CallTyped, Same
  <2>3. Ways'
    BY <1>3, <2>1, <2>2 DEF Ways, Same, TaskPC, CarryPC
  <2>4. ASSUME NEW k \in parked' \ stranded', fate'[k] = "live" PROVE CanMove(k)'
    <3>1. CanMove(k) /\ k # NoToken
      BY <1>1, <2>1, <2>4, BoundAssumption DEF Movable, StoreTyped, Token
    <3>2. ~Minds(c, k)
      BY <2>1, <3>1 DEF Minds, Carries, TaskPC, EventPC
    <3> QED  BY <2>1, <2>2, <3>1, <3>2, KeepsMoving
  <2> QED  BY <2>3, <2>4 DEF Movable
<1>4. ProcessTimers(c) => Collect(c, due) /\ due \in SUBSET pending /\ \A x \in due : Kind[x.ev] # "user"
  BY DEF ProcessTimers, StoreTyped, Ways
<1>5. \A m : CorrelateMessage(c, m) =>
              \E E \in SUBSET pending : Collect(c, E) /\ \A x \in E : Kind[x.ev] # "user"
  BY DEF CorrelateMessage, OfKind
<1> QED  BY <1>2, <1>3, <1>4, <1>5 DEF Begin

\* At first every token has all the events of its wait.
LEMMA InitMoves == EventsHaveTheirWait /\ Init => Movable
<1> SUFFICES ASSUME EventsHaveTheirWait, Init PROVE Movable
  OBVIOUS
<1> USE GraphAssumption, BoundAssumption, StartAssumption
<1>1. Ways
  BY DEF Init, Ways, TaskPC, CarryPC
<1>2. ASSUME NEW k \in parked PROVE WayOn(k)
  <2>1. k \in Token /\ k <= born /\ Start[k] \in Wait /\ at[k] = Start[k]
    BY DEF Init, Token
  <2>2. PICK e \in Offer[Start[k]] : IsUser(Start[k]) => e = Start[k]
    BY <2>1 DEF EventsHaveTheirWait, IsUser
  <2>3. e \in Event /\ NewEntry(e, k) \in Entry
    BY <2>1, <2>2, NewEntries
  <2>4. NewEntry(e, k) \in pending
    BY <2>1, <2>2, <2>3 DEF Init, NewEntry
  <2> QED  BY <2>1, <2>2, <2>4 DEF WayOn, NewEntry, IsUser
<1> QED  BY <1>1, <1>2 DEF Movable, CanMove

\* No step, of a call, of time or of the operator, takes the ways on away.
LEMMA NextMoves == IInv /\ Movable /\ EventsHaveTheirWait /\ [Next]_vars => Movable'
<1> SUFFICES ASSUME IInv, Movable, EventsHaveTheirWait, [Next]_vars PROVE Movable'
  OBVIOUS
<1>1. ASSUME NEW c \in Call, Step(c) PROVE Movable'
  BY <1>1, StepMoves, StepWays DEF Movable
<1>2. CASE /\ (\E x \in pending : Expire(x)) \/ SuspendInstance \/ ResumeInstance
           /\ UNCHANGED <<overlap, early, stranded>>
  <2>1. /\ UNCHANGED <<pending, at, parked, fate, callVars, stranded>>
        /\ \A x \in due' : x \in due \/ Kind[x.ev] = "timer"
    BY <1>2 DEF Expire, OfKind, SuspendInstance, ResumeInstance
  <2> QED
    BY <2>1 DEF Movable, Ways, CanMove, WayOn, Minds, Carries
<1>3. CASE UNCHANGED vars
  BY <1>3 DEF vars, Movable, Ways, CanMove, WayOn, Minds, Carries
<1> QED  BY <1>1, <1>2, <1>3, BeginMoves DEF Next

\* complete_user_task, clear_wait_states_for_token and the handlers of the waits:
\* a token in the store can be moved by an entry that is there, or a call is
\* about to take it or to put an entry back, whatever is suspended, cancelled or
\* fails meanwhile; unless an event came for a token that had gone on.
THEOREM ParkedTokensMove == EventsHaveTheirWait => (Spec => []ParkedTokenCanMove)
<1> SUFFICES ASSUME EventsHaveTheirWait PROVE Spec => []ParkedTokenCanMove
  OBVIOUS
<1>1. Init => IInv /\ Movable
  BY InitIInv, InitMoves
<1>2. IInv /\ Movable /\ [Next]_vars => (IInv /\ Movable)'
  BY NextIInv, NextMoves
<1>3. IInv /\ Movable => ParkedTokenCanMove
  <2> SUFFICES ASSUME IInv, Movable, NEW k \in parked \ stranded, fate[k] = "live"
               PROVE  Entries(k) # {} \/ WorkersOn(k) # {}
    BY DEF ParkedTokenCanMove
  <2>1. CASE WayOn(k)
    BY <2>1 DEF WayOn, Entries
  <2>2. ASSUME NEW c \in Call, Minds(c, k) PROVE c \in WorkersOn(k)
    BY <2>2 DEF Minds, Carries, WorkersOn
  <2> QED  BY <2>1, <2>2 DEF Movable, CanMove
<1> QED  BY <1>1, <1>2, <1>3, PTL DEF Spec

----------------------------------------------------------------------------
(***************************************************************************)
(* As long as no two calls of an instance are in flight at once, every     *)
(* entry, other than a repeated timer, stands for a token that is parked   *)
(* at a wait that offers its event, and a completed instance stays         *)
(* completed until a repeated timer fires.                                 *)
(***************************************************************************)

----------------------------------------------------------------------------
(***************************************************************************)
(* What holds in the course of the only call in flight.                    *)
(***************************************************************************)
OnUser == {"check", "takeUser", "cancelTimers", "cancelCatches", "runUser", "script", "putBack"}
Before == {"check", "takeUser", "putBack", "clearTimers", "clearCatches", "runTimer", "take"}
After  == {"runMessage", "next", "batch", "park", "wait", "insert", "close", "returned"}

\* The token waits for this event.
Standing(x) == x.tok \in parked /\ at[x.tok] \in Wait /\ x.ev \in Offer[at[x.tok]]

\* An entry of the token in the hands of call c that c has still to cancel, or
\* has already inserted.
Leftover(c, x) ==
  /\ x.tok = hand[c]
  /\ \/ pc[c] = "cancelTimers"  /\ x.ev \in Boundary(job[c].ev)
     \/ pc[c] = "cancelCatches" /\ x.ev \in Boundary(job[c].ev) /\ Kind[x.ev] = "message"
     \/ pc[c] = "cancelTasks"   /\ Kind[x.ev] = "user" /\ x.ev = at[hand[c]]
     \/ pc[c] = "park"          /\ x.ev \in Offer[at[hand[c]]]

PlacedBy(c, x) ==
  /\ Kind[x.ev] = "user" => x.cycle = 0
  /\ \/ Repeated(x)
     \/ Standing(x) /\ (hand[c] = x.tok => pc[c] \in {"wait", "insert"})
     \/ Leftover(c, x)

Course(c) ==
  /\ pc[c] \in OnUser => Kind[job[c].ev] = "user" /\ job[c].cycle = 0
  /\ pc[c] \in {"check", "takeUser"} =>
       \A x \in pending : x.tok = job[c].tok => x.ev # job[c].ev
  /\ pc[c] \in Before => Standing(job[c]) \/ Repeated(job[c])
  /\ pc[c] \in {"cancelTimers", "cancelCatches", "runUser", "script"} =>
       /\ hand[c] = job[c].tok /\ at[hand[c]] = job[c].ev
       /\ job[c].ev \in Wait /\ job[c].ev \in Offer[job[c].ev]
  /\ pc[c] \in {"clearCatches", "runTimer", "take"} =>
       \A x \in pending : x.tok = job[c].tok => Kind[x.ev] # "timer"
  /\ pc[c] \in {"runTimer", "take"} =>
       \A x \in pending : x.tok = job[c].tok => Kind[x.ev] # "message"
  /\ pc[c] = "cancelTasks" => job[c].ev \in Interrupting /\ hand[c] = job[c].tok
  /\ pc[c] \in {"wait", "insert"} =>
       hand[c] \in parked /\ at[hand[c]] \in Wait /\ todo[c] \subseteq Offer[at[hand[c]]]
  /\ pc[c] \in After /\ job[c].ev \in Recurring \ Interrupting =>
       Standing(job[c]) /\ hand[c] # job[c].tok

Body(c) ==
  /\ \A x \in pending : PlacedBy(c, x)
  /\ Course(c)
  /\ state = "Completed" =>
       /\ parked = {}
       /\ \/ pc[c] \in {"idle", "list", "returned"}
          \/ pc[c] \in {"clearTimers", "clearCatches", "runTimer"} /\ Repeated(job[c])

Others(c) == \A d \in Call \ {c} : pc[d] = "idle"

\* Some call is the only one that may be in flight.
Orderly == ~overlap => \E c \in Call : Others(c) /\ Body(c)

USE DEF mapVars, instVars, callVars, State, PC

\* When no call is in flight, each can be seen as that one.
LEMMA QuietBody == ASSUME IInv, NEW c \in Call, Others(c), Body(c), pc[c] = "idle", NEW d \in Call
                   PROVE  Others(d) /\ Body(d)
<1>1. \A e \in Call : pc[e] = "idle" /\ hand[e] = NoToken
  BY DEF Others, IInv, Wiring, HandPC
<1>2. \A x \in pending : Repeated(x) \/ Standing(x)
  BY <1>1 DEF Body, PlacedBy, Leftover
<1>3. \A x \in pending : x.tok # NoToken
  BY EntryFields, NullAssumption DEF IInv, TypeOK
<1>4. Course(d)
  BY <1>1 DEF Course, OnUser, Before, After
<1> QED  BY <1>1, <1>2, <1>3, <1>4 DEF Others, Body, PlacedBy

\* A step of the only call in flight.
LEMMA StepBody == ASSUME IInv, NEW c \in Call, Step(c), Others(c), Body(c)
                  PROVE  Body(c)'
<1> USE GraphAssumption DEF Repeated
<1> TypeOK
  BY DEF IInv
<1> NoToken \notin Token /\ NoEntry \notin Entry
  BY NullAssumption
<1> \A x \in pending : x \in Entry /\ x.tok \in Token /\ x.ev \in Event
  BY EntryFields DEF TypeOK
<1> 1..born \subseteq Token
  BY BoundAssumption DEF TypeOK, Token
<1> IF pc[c] \in HandPC THEN hand[c] \in Token ELSE hand[c] = NoToken
  BY DEF IInv, Wiring, TypeOK
<1> pc[c] \in JobPC => job[c] \in Entry /\ job[c].tok \in Token /\ job[c].ev \in Event
  BY EntryFields DEF IInv, Wiring, TypeOK
<1>1. CASE CheckSuspended(c)
  BY <1>1 DEF CheckSuspended, Goto, Return, TypeOK, Body, PlacedBy, Standing, Leftover, Course, OnUser, Before, After, HandPC, JobPC
<1>2. CASE TakeUserToken(c)
  <2>1. /\ pc[c] = "takeUser" /\ Standing(job[c]) /\ Kind[job[c].ev] = "user"
        /\ \A x \in pending : x.tok = job[c].tok => x.ev # job[c].ev
    BY <1>2 DEF TakeUserToken, Body, Course, Before, OnUser
  <2>2. /\ job[c].ev = at[job[c].tok] /\ job[c].ev \in Wait
        /\ Boundary(job[c].ev) = Offer[job[c].ev] \ {job[c].ev}
    BY <2>1 DEF Standing, Boundary, IsUser, JobPC
  <2>3. /\ parked' = parked \ {job[c].tok} /\ hand'[c] = job[c].tok
        /\ pc'[c] = "cancelTimers" /\ job' = job
        /\ pending' = pending /\ at' = at /\ state' = state
    BY <1>2, <2>1 DEF TakeUserToken, Goto, Standing, TypeOK
  <2>4. hand[c] = NoToken /\ job[c].tok \in Token
    BY <2>1 DEF HandPC, JobPC
  <2>5. ASSUME NEW x \in pending PROVE PlacedBy(c, x)'
    <3>1. (Repeated(x) \/ Standing(x)) /\ (Kind[x.ev] = "user" => x.cycle = 0)
      BY <2>4 DEF Body, PlacedBy, Leftover
    <3>2. CASE x.tok = job[c].tok
      BY <2>1, <2>2, <2>3, <3>1, <3>2 DEF PlacedBy, Leftover, Standing
    <3>3. CASE x.tok # job[c].tok
      BY <2>3, <3>1, <3>3 DEF PlacedBy, Standing
    <3> QED  BY <3>2, <3>3
  <2>6. Course(c)'
    BY <2>1, <2>2, <2>3 DEF Body, Course, Standing, OnUser, Before, After
  <2> QED  BY <2>1, <2>3, <2>5, <2>6 DEF Body
<1>3. CASE CancelBoundaryTimers(c)
  BY <1>3 DEF CancelBoundaryTimers, Goto, CancelBoundary, Remove, OfKind, Boundary, IsUser, TypeOK, Body, PlacedBy, Standing, Leftover, Course, OnUser, Before, After, HandPC, JobPC
<1>4. CASE CancelBoundaryCatches(c)
  BY <1>4 DEF CancelBoundaryCatches, Goto, CancelBoundary, Remove, OfKind, Boundary, IsUser, TypeOK, Body, PlacedBy, Standing, Leftover, Course, OnUser, Before, After, HandPC, JobPC
<1>5. CASE SetRunningUser(c)
  BY <1>5 DEF SetRunningUser, Goto, KeepParallel, TypeOK, Body, PlacedBy, Standing, Leftover, Course, OnUser, Before, After, HandPC, JobPC
<1>6. CASE RunEndScripts(c)
  <2>1. CASE pc' = [pc EXCEPT ![c] = "next"] /\ UNCHANGED <<parked, state, hand>>
    BY <1>6, <2>1 DEF RunEndScripts, TypeOK, Body, PlacedBy, Standing, Leftover, Course, OnUser, Before, After, HandPC, JobPC
  <2>2. CASE /\ parked' = parked \cup {hand[c]} /\ hand' = [hand EXCEPT ![c] = NoToken]
             /\ state' = "Waiting" /\ pc' = [pc EXCEPT ![c] = "putBack"]
    BY <1>6, <2>2 DEF RunEndScripts, TypeOK, Body, PlacedBy, Standing, Leftover, Course, OnUser, Before, After, HandPC, JobPC
  <2> QED  BY <1>6, <2>1, <2>2 DEF RunEndScripts, Goto
<1>7. CASE PutBackTask(c)
  BY <1>7 DEF PutBackTask, Goto, Return, TypeOK, Body, PlacedBy, Standing, Leftover, Course, OnUser, Before, After, HandPC, JobPC
<1>8. ASSUME NEW x \in list[c], NextEntry(c, x) PROVE Body(c)'
  <2>1. CASE x \in pending
    <3>1. /\ pending' = pending \ {x} /\ job'[c] = x /\ pc'[c] = "clearTimers"
          /\ pc[c] = "list" /\ UNCHANGED <<at, parked, state, hand>>
      BY <1>8, <2>1 DEF NextEntry, Goto, Remove, TypeOK
    <3>2. (Repeated(x) \/ Standing(x)) /\ hand[c] = NoToken
      BY <2>1, <3>1 DEF Body, PlacedBy, Leftover, HandPC
    <3> QED
      BY <3>1, <3>2 DEF Body, PlacedBy, Standing, Leftover, Course, OnUser, Before, After
  <2>2. CASE x \notin pending
    BY <1>8, <2>2 DEF NextEntry, Goto, Return, TypeOK, Body, PlacedBy, Standing, Leftover, Course, OnUser, Before, After, HandPC, JobPC
  <2> QED  BY <2>1, <2>2
<1>9. CASE ClearTimers(c)
  BY <1>9 DEF ClearTimers, Goto, ClearWaits, Remove, OfKind, TypeOK, Body, PlacedBy, Standing, Leftover, Course, OnUser, Before, After, HandPC, JobPC
<1>10. CASE ClearCatches(c)
  BY <1>10 DEF ClearCatches, Goto, ClearWaits, Remove, OfKind, TypeOK, Body, PlacedBy, Standing, Leftover, Course, OnUser, Before, After, HandPC, JobPC
<1>11. CASE SetRunningTimer(c)
  BY <1>11 DEF SetRunningTimer, Goto, TypeOK, Body, PlacedBy, Standing, Leftover, Course, OnUser, Before, After, HandPC, JobPC
<1>12. CASE TakeToken(c)
  BY <1>12 DEF TakeToken, Goto, Return, TypeOK, Body, PlacedBy, Standing, Leftover, Course, OnUser, Before, After, HandPC, JobPC
<1>13. CASE CloneToken(c)
  <2>1. CASE pc[c] = "take" /\ CloneMade(c)
    BY <2>1 DEF CloneMade, AfterTake, TypeOK, Body, PlacedBy, Standing, Leftover, Course, OnUser, Before, After, HandPC, JobPC
  <2>2. CASE pc[c] = "take" /\ NoCloneMade(c)
    BY <2>2 DEF NoCloneMade, Goto, Return, TypeOK, Body, PlacedBy, Standing, Leftover, Course, OnUser, Before, After, HandPC, JobPC
  <2> QED  BY <1>13, <2>1, <2>2, CloneOrReturn
<1>14. CASE CancelTasks(c)
  <2>1. /\ pc[c] = "cancelTasks" /\ pc'[c] \in {"next", "runMessage"} /\ job' = job /\ hand' = hand
        /\ pending' = pending \ {x \in pending : /\ Kind[x.ev] = "user"
                                                /\ x.tok = job[c].tok /\ x.ev = at[hand[c]]}
        /\ UNCHANGED <<at, parked, state>>
    BY <1>14 DEF CancelTasks, Goto, Remove, OfKind, AfterTake, TypeOK
  <2>2. job[c].ev \in Interrupting /\ hand[c] = job[c].tok
    BY <2>1 DEF Body, Course
  <2> QED
    BY <2>1, <2>2 DEF Body, PlacedBy, Standing, Leftover, Course, OnUser, Before, After
<1>15. CASE SetRunningMessage(c)
  BY <1>15 DEF SetRunningMessage, Goto, KeepParallel, TypeOK, Body, PlacedBy, Standing, Leftover, Course, OnUser, Before, After, HandPC, JobPC
<1>16. CASE ResolveNext(c)
  BY <1>16 DEF ResolveNext, Goto, Abort, Return, TypeOK, Body, PlacedBy, Standing, Leftover, Course, OnUser, Before, After, HandPC, JobPC
<1>17. CASE ArmBoundary(c)
  BY <1>17 DEF ArmBoundary, Goto, NewEntry, Boundary, TypeOK, Body, PlacedBy, Standing, Leftover, Course, OnUser, Before, After, HandPC, JobPC
<1>18. CASE ParkToken(c)
  <2>1. /\ pc[c] = "park" /\ pc'[c] = "wait" /\ job' = job /\ hand' = hand
        /\ parked' = parked \cup {hand[c]} /\ todo'[c] \subseteq Offer[at[hand[c]]]
        /\ UNCHANGED <<pending, at, state>>
    BY <1>18 DEF ParkToken, Goto, TypeOK
  <2>2. at[hand[c]] \in Wait
    BY <2>1 DEF IInv, Wiring
  <2> QED
    BY <2>1, <2>2 DEF Body, PlacedBy, Standing, Leftover, Course, OnUser, Before, After
<1>19. CASE SetWaiting(c)
  BY <1>19 DEF SetWaiting, Goto, KeepParallel, TypeOK, Body, PlacedBy, Standing, Leftover, Course, OnUser, Before, After, HandPC, JobPC
<1>20. ASSUME NEW e \in todo[c], InsertPending(c, e) PROVE Body(c)'
  BY <1>20 DEF InsertPending, Goto, NewEntry, TypeOK, Body, PlacedBy, Standing, Leftover, Course, OnUser, Before, After, HandPC, JobPC
<1>21. CASE EndToken(c)
  BY <1>21 DEF EndToken, Goto, TypeOK, Body, PlacedBy, Standing, Leftover, Course, OnUser, Before, After, HandPC, JobPC
<1>22. CASE CloseInstance(c)
  BY <1>22 DEF CloseInstance, Goto, AllTokensCompleted, TypeOK, Body, PlacedBy, Standing, Leftover, Course, OnUser, Before, After, HandPC, JobPC
<1>23. CASE StepFails(c)
  BY <1>23 DEF StepFails, Goto, Abort, Return, TypeOK, Body, PlacedBy, Standing, Leftover, Course, OnUser, Before, After, HandPC, JobPC
<1>24. CASE BatchReturns(c)
  <2>1. pc[c] = "returned" /\ hand[c] = NoToken
    BY <1>24 DEF BatchReturns, HandPC
  <2>2. pc'[c] \in {"idle", "list"} /\ hand'[c] = NoToken /\ UNCHANGED <<at, parked, state>>
    BY <1>24, <2>1 DEF BatchReturns, Goto, Return, TypeOK
  <2>3. \A x \in pending' : x \in pending \/
          (x.tok = job[c].tok /\ x.ev = job[c].ev /\ job[c].ev \in Recurring /\ x.cycle > 0)
    BY <1>24, <2>1 DEF BatchReturns, Reschedule, JobPC, Entry
  <2>4. job[c].ev \in Recurring => /\ Kind[job[c].ev] = "timer"
                                   /\ job[c].ev \in Interrupting \/ Standing(job[c])
    BY <2>1 DEF Body, Course, After
  <2>5. \A x \in pending' : PlacedBy(c, x)'
    BY <2>1, <2>2, <2>3, <2>4 DEF Body, PlacedBy, Standing, Leftover, JobPC
  <2> QED
    BY <2>1, <2>2, <2>5 DEF Body, Course, OnUser, Before, After
<1> QED
  BY <1>1, <1>2, <1>3, <1>4, <1>5, <1>6, <1>7, <1>8, <1>9, <1>10, <1>11, <1>12, <1>13, <1>14, <1>15, <1>16, <1>17, <1>18, <1>19, <1>20, <1>21, <1>22, <1>23, <1>24 DEF Step, CallStep
\* A user task of a token is one entry.
LEMMA SameEntry ==
  \A x, y \in Entry : x.ev = y.ev /\ x.tok = y.tok /\ x.cycle = y.cycle => x = y
  BY DEF Entry

\* The first call in flight.
LEMMA BeginBody == ASSUME IInv, Orderly, NEW c \in Call, Begin(c), Tracked(c) PROVE Orderly'
<1> SUFFICES ASSUME ~overlap' PROVE Others(c)' /\ Body(c)'
  BY DEF Orderly
<1> TypeOK /\ IInv'
  BY BeginIInv DEF IInv
<1>1. ~overlap /\ \A d \in Call : pc[d] = "idle"
  BY DEF Tracked, TypeOK
<1>2. PICK d \in Call : Others(d) /\ Body(d)
  BY <1>1 DEF Orderly
<1>3. Others(c) /\ Body(c)
  BY <1>1, <1>2, QuietBody
<1>4. hand[c] = NoToken /\ NoToken \notin Token
  BY <1>1, NullAssumption DEF IInv, Wiring, HandPC
<1>5. \A x \in pending : /\ x \in Entry /\ x.tok \in Token
                         /\ Repeated(x) \/ Standing(x)
                         /\ Kind[x.ev] = "user" => x.cycle = 0
  BY <1>3, <1>4, EntryFields DEF Body, PlacedBy, Leftover, TypeOK
<1>6. Others(c)'
  BY <1>3 DEF Others, Begin, CompleteUserTask, ProcessTimers, CorrelateMessage, Collect, Goto, TypeOK
<1>7. ASSUME NEW x \in pending, CompleteUserTask(c, x) PROVE Body(c)'
  <2>1. /\ pending' = pending \ {x} /\ job'[c] = x /\ pc'[c] = "check" /\ Kind[x.ev] = "user"
        /\ UNCHANGED <<at, parked, state, hand>>
    BY <1>7 DEF CompleteUserTask, Remove, Goto, OfKind, TypeOK
  <2>2. \A y \in pending' : y.tok = x.tok => y.ev # x.ev
    <3> \A y \in pending : y \in Entry /\ (Kind[y.ev] = "user" => y.cycle = 0)
      BY <1>5
    <3> QED  BY <2>1, SameEntry
  <2>3. \A y \in pending' : PlacedBy(c, y)'
    BY <1>4, <1>5, <2>1 DEF PlacedBy, Standing, Repeated
  <2>4. Standing(x)
    BY <1>5, <2>1, GraphAssumption DEF Repeated
  <2>5. Course(c)'
    BY <1>5, <2>1, <2>2, <2>4 DEF Course, Standing, OnUser, Before, After
  <2>6. state' # "Completed"
    BY <1>3, <1>4, <2>1, <2>4 DEF Body, Standing
  <2> QED  BY <2>3, <2>5, <2>6 DEF Body
<1>8. ASSUME NEW E \in SUBSET pending, Collect(c, E) PROVE Body(c)'
  <2>1. /\ E # {} /\ pc'[c] = "list" /\ UNCHANGED <<pending, at, parked, state, hand>>
    BY <1>8 DEF Collect, Goto, TypeOK
  <2>2. \A x \in pending' : PlacedBy(c, x)'
    BY <1>4, <1>5, <2>1 DEF PlacedBy, Standing, Repeated
  <2>3. Course(c)' /\ (state' = "Completed" => parked' = {})
    BY <1>3, <2>1 DEF Body, Course, OnUser, Before, After
  <2> QED  BY <2>1, <2>2, <2>3 DEF Body
<1>9. ProcessTimers(c) => Collect(c, due) /\ due \in SUBSET pending
  BY DEF ProcessTimers, TypeOK
<1>10. \A m : CorrelateMessage(c, m) => \E E \in SUBSET pending : Collect(c, E)
  BY DEF CorrelateMessage, OfKind
<1> QED  BY <1>6, <1>7, <1>8, <1>9, <1>10 DEF Begin

\* Before the first event all entries stand for their tokens.
LEMMA InitOrderly == Init => Orderly
<1> SUFFICES ASSUME Init, NEW c \in Call PROVE Others(c) /\ Body(c)
  BY LoopAssumption DEF Orderly
<1> USE GraphAssumption, BoundAssumption, StartAssumption, NullAssumption
<1>1. Others(c) /\ pc[c] = "idle" /\ hand[c] = NoToken /\ state # "Completed"
  BY DEF Init, Others
<1>2. ASSUME NEW x \in pending PROVE PlacedBy(c, x)
  <2>1. x \in Entry /\ x.tok \in Token /\ x.tok \in 1..born
    BY EntryFields DEF Init, Token
  <2>2. Start[x.tok] \in Wait /\ at[x.tok] = Start[x.tok] /\ x.tok \in parked
    BY <2>1 DEF Init, Token
  <2> QED  BY <1>1, <2>1, <2>2 DEF Init, PlacedBy, Standing
<1>3. Course(c)
  BY <1>1 DEF Course, OnUser, Before, After
<1> QED  BY <1>1, <1>2, <1>3 DEF Body

\* Every step keeps the order.
LEMMA NextOrderly == IInv /\ Orderly /\ [Next]_vars => Orderly'
<1> SUFFICES ASSUME IInv, Orderly, [Next]_vars PROVE Orderly'
  OBVIOUS
<1>1. ASSUME NEW c \in Call, Step(c) PROVE Orderly'
  <2> SUFFICES ASSUME ~overlap PROVE Others(c)' /\ Body(c)'
    BY <1>1 DEF Step, Orderly
  <2>1. pc[c] # "idle" /\ \A d \in Call \ {c} : pc'[d] = pc[d]
    <3>1. CallStep(c) /\ pc \in [Call -> PC]
      BY <1>1 DEF IInv, TypeOK, Step
    <3>2. pc[c] # "idle"
      BY <3>1 DEF CallStep, CheckSuspended, TakeUserToken,
         CancelBoundaryTimers, CancelBoundaryCatches, CancelBoundary, SetRunningUser,
         RunEndScripts, PutBackTask, NextEntry, ClearTimers, ClearCatches, ClearWaits,
         SetRunningTimer, TakeToken, CloneToken, CancelTasks, SetRunningMessage, ResolveNext,
         ArmBoundary, ParkToken, SetWaiting, InsertPending, EndToken, CloseInstance,
         StepFails, BatchReturns
    <3>3. pc' = pc \/ \E label : pc' = [pc EXCEPT ![c] = label]
      BY <3>1 DEF CallStep, Goto, Return, Abort, CheckSuspended, TakeUserToken,
         CancelBoundaryTimers, CancelBoundaryCatches, CancelBoundary, SetRunningUser,
         RunEndScripts, PutBackTask, NextEntry, ClearTimers, ClearCatches, ClearWaits,
         SetRunningTimer, TakeToken, CloneToken, CancelTasks, SetRunningMessage, ResolveNext,
         ArmBoundary, ParkToken, SetWaiting, InsertPending, EndToken, CloseInstance,
         StepFails, BatchReturns
    <3> QED  BY <3>1, <3>2, <3>3
  <2>2. PICK d \in Call : Others(d) /\ Body(d)
    BY DEF Orderly
  <2>3. Others(c) /\ Body(c)
    BY <2>1, <2>2 DEF Others
  <2> QED  BY <1>1, <2>1, <2>3, StepBody DEF Others
<1>2. CASE /\ (\E x \in pending : Expire(x)) \/ SuspendInstance \/ ResumeInstance
           /\ UNCHANGED <<overlap, early, stranded>>
  <2>1. /\ UNCHANGED <<pending, at, parked, callVars, overlap>>
        /\ state' = "Completed" => state = "Completed"
    BY <1>2 DEF Expire, SuspendInstance, ResumeInstance, IInv, TypeOK
  <2> QED
    BY <2>1 DEF Orderly, Others, Body, PlacedBy, Standing, Leftover, Course
<1>3. CASE UNCHANGED vars
  BY <1>3 DEF vars, Orderly, Others, Body, PlacedBy, Standing, Leftover, Course
<1> QED  BY <1>1, <1>2, <1>3, BeginBody DEF Next

\* Both invariants hold along every behaviour.
LEMMA IInvOrder == Spec => [](IInv /\ Orderly)
<1>1. Init => IInv /\ Orderly
  BY InitIInv, InitOrderly
<1>2. IInv /\ Orderly /\ [Next]_vars => (IInv /\ Orderly)'
  BY NextIInv, NextOrderly
<1> QED  BY <1>1, <1>2, PTL DEF Spec

\* clear_wait_states_for_token, the cancellations of complete_user_task and the
\* insertions of the handlers, in every graph: if every call returns before the next
\* one begins, no entry but a repeated timer is left for a token that does not wait
\* for it, however the calls end.
THEOREM NoEntryIsLeft == Spec => []NoEntryLeftBehind
<1>1. ASSUME IInv, Orderly PROVE NoEntryLeftBehind
  <2> SUFFICES ASSUME Quiet, ~overlap, NEW x \in pending
               PROVE  Repeated(x) \/ (x.tok \in parked /\ x.ev \in Offer[at[x.tok]])
    BY DEF NoEntryLeftBehind
  <2>1. PICK c \in Call : Body(c)
    BY <1>1 DEF Orderly
  <2>2. pc[c] = "idle"
    BY DEF Quiet
  <2> QED  BY <2>1, <2>2 DEF Body, PlacedBy, Leftover, Standing
<1> QED  BY <1>1, IInvOrder, PTL

\* In a completed instance every token that the completion check knows has ended.
Closed == state = "Completed" => \A k \in active : fate[k] = "ended"

\* A token that a call carries, or finds in the store, is not one of these.
LEMMA NotClosed == ASSUME IInv, Closed, early = {}, NEW k \in 1..born, NEW c \in Call,
                          k \in parked \/ Carries(c, k)
                   PROVE  state = "Completed" => k \notin active
  BY DEF IInv, Sound, Closed

\* A step of a call keeps it so.
LEMMA StepClosed == ASSUME IInv, Closed, early = {}, NEW c \in Call, Step(c) PROVE Closed'
<1> USE DEF IInv, TypeOK
<1>1. CASE StepFails(c) \/ ResolveNext(c)
  <2>1. pc[c] \in {"next", "batch"} /\ UNCHANGED <<state, active>>
        /\ (fate' = fate \/ fate' = [fate EXCEPT ![hand[c]] = "lost"])
    BY <1>1 DEF StepFails, ResolveNext, Abort
  <2>2. hand[c] \in 1..born /\ Carries(c, hand[c])
    BY <2>1 DEF Wiring, HandPC, Made, Carries, Token
  <2>3. state = "Completed" => hand[c] \notin active
    BY <2>2, NotClosed
  <2>4. \A k \in Token : k # hand[c] => fate'[k] = fate[k]
    BY <2>1
  <2>5. active \subseteq Token
    BY BoundAssumption DEF Token
  <2> QED  BY <2>1, <2>3, <2>4, <2>5 DEF Closed
<1>2. CASE EndToken(c)
  <2>1. UNCHANGED <<state, active>> /\ \A k \in Token : fate'[k] = fate[k] \/ fate'[k] = "ended"
    BY <1>2 DEF EndToken
  <2>2. active \subseteq Token
    BY BoundAssumption DEF Token
  <2> QED  BY <2>1, <2>2 DEF Closed
<1>3. CASE CloneToken(c)
  BY <1>3, CloneOrReturn DEF CloneMade, NoCloneMade, Closed
<1>4. CASE CloseInstance(c)
  BY <1>4 DEF CloseInstance, AllTokensCompleted, Closed
<1>5. ASSUME UNCHANGED <<active, fate>>, state' = "Completed" => state = "Completed" PROVE Closed'
  BY <1>5 DEF Closed
<1>6. CASE CheckSuspended(c) \/ TakeUserToken(c) \/ CancelBoundaryTimers(c) \/ CancelBoundaryCatches(c)
  BY <1>5, <1>6 DEF CheckSuspended, TakeUserToken, CancelBoundaryTimers, CancelBoundaryCatches,
     CancelBoundary
<1>7. CASE SetRunningUser(c) \/ RunEndScripts(c) \/ PutBackTask(c)
  BY <1>5, <1>7 DEF SetRunningUser, RunEndScripts, PutBackTask, KeepParallel
<1>8. CASE (\E x \in list[c] : NextEntry(c, x)) \/ ClearTimers(c) \/ ClearCatches(c)
  BY <1>5, <1>8 DEF NextEntry, ClearTimers, ClearCatches, ClearWaits
<1>9. CASE SetRunningTimer(c) \/ TakeToken(c) \/ CancelTasks(c) \/ SetRunningMessage(c)
  BY <1>5, <1>9 DEF SetRunningTimer, TakeToken, CancelTasks, SetRunningMessage, KeepParallel
<1>10. CASE ArmBoundary(c) \/ ParkToken(c) \/ SetWaiting(c)
  BY <1>5, <1>10 DEF ArmBoundary, ParkToken, SetWaiting, KeepParallel
<1>11. CASE (\E e \in todo[c] : InsertPending(c, e)) \/ BatchReturns(c)
  BY <1>5, <1>11 DEF InsertPending, BatchReturns
<1> QED  BY <1>1, <1>2, <1>3, <1>4, <1>6, <1>7, <1>8, <1>9, <1>10, <1>11 DEF Step, CallStep

\* And so does every other.
LEMMA NextClosed == IInv /\ Closed /\ [Next]_vars => Closed'
<1>1. ASSUME NEW c \in Call, Begin(c) PROVE UNCHANGED <<state, active, fate>>
  BY <1>1 DEF Begin, CompleteUserTask, CorrelateMessage, ProcessTimers, Collect
<1>2. ASSUME (\E x \in pending : Expire(x)) \/ SuspendInstance \/ ResumeInstance, TypeOK
      PROVE  UNCHANGED <<active, fate>> /\ (state' = "Completed" => state = "Completed")
  BY <1>2 DEF Expire, SuspendInstance, ResumeInstance, TypeOK
<1> QED  BY <1>1, <1>2, StepClosed DEF Next, vars, Closed, IInv

\* The steps of a call that may take a completed instance back.
LEMMA WhoReopens ==
  ASSUME IInv, Closed, early = {}, NEW c \in Call, Step(c), state = "Completed", state' # "Completed"
  PROVE  /\ pc'[c] # pc[c] /\ pc[c] \notin {"idle", "list", "returned", "clearTimers", "clearCatches"}
         /\ pc[c] \in {"runTimer", "wait"} \/ ~Counted(c)
<1> USE DEF IInv, TypeOK
<1>1. CASE SetRunningTimer(c) \/ SetWaiting(c)
  BY <1>1 DEF SetRunningTimer, SetWaiting, Goto
<1>2. CASE SetRunningUser(c) \/ RunEndScripts(c) \/ SetRunningMessage(c)
  <2>1. pc[c] \in {"runUser", "script", "runMessage"} /\ pc'[c] \in {"script", "next", "putBack"}
        /\ pc'[c] # pc[c]
    BY <1>2 DEF SetRunningUser, RunEndScripts, SetRunningMessage, Goto
  <2>2. hand[c] # NoToken /\ hand[c] \in 1..born /\ Carries(c, hand[c])
    BY <2>1 DEF Wiring, HandPC, Made, Carries, Token
  <2>3. hand[c] \notin active
    BY <2>2, NotClosed
  <2> QED  BY <2>1, <2>2, <2>3 DEF Counted
<1>3. CASE CloneToken(c)
  <2>1. pc[c] = "take" /\ CloneMade(c) /\ job[c].tok \in parked
    BY <1>3, CloneOrReturn DEF CloneToken, NoCloneMade
  <2>2. hand[c] = NoToken /\ pc'[c] # pc[c]
    BY <2>1 DEF Wiring, HandPC, CloneMade, AfterTake
  <2>3. job[c].tok \notin active
    BY <2>1, NotClosed
  <2> QED  BY <2>1, <2>2, <2>3 DEF Counted
<1>4. state' = state \/ CloseInstance(c) \/ SetRunningTimer(c) \/ SetWaiting(c) \/ SetRunningUser(c)
        \/ RunEndScripts(c) \/ SetRunningMessage(c) \/ CloneToken(c)
  <2>1. CASE CheckSuspended(c) \/ TakeUserToken(c) \/ CancelBoundaryTimers(c) \/ CancelBoundaryCatches(c)
    BY <2>1 DEF CheckSuspended, TakeUserToken, CancelBoundaryTimers, CancelBoundaryCatches,
       CancelBoundary
  <2>2. CASE PutBackTask(c) \/ (\E x \in list[c] : NextEntry(c, x)) \/ ClearTimers(c) \/ ClearCatches(c)
    BY <2>2 DEF PutBackTask, NextEntry, ClearTimers, ClearCatches, ClearWaits
  <2>3. CASE TakeToken(c) \/ CancelTasks(c) \/ ResolveNext(c) \/ ArmBoundary(c) \/ ParkToken(c)
    BY <2>3 DEF TakeToken, CancelTasks, ResolveNext, ArmBoundary, ParkToken, Abort
  <2>4. CASE (\E e \in todo[c] : InsertPending(c, e)) \/ EndToken(c) \/ StepFails(c) \/ BatchReturns(c)
    BY <2>4 DEF InsertPending, EndToken, StepFails, BatchReturns, Abort
  <2> QED  BY <2>1, <2>2, <2>3, <2>4 DEF Step, CallStep
<1>5. ~CloseInstance(c)
  BY DEF CloseInstance
<1> QED  BY <1>1, <1>2, <1>3, <1>4, <1>5

\* No other step takes a completed instance back.
LEMMA NextStaysCompleted ==
  IInv /\ Orderly /\ Closed /\ [Next]_vars =>
    [state = "Completed" /\ state' # "Completed" =>
       \E c \in Call : /\ pc'[c] # pc[c]
                       /\ pc[c] \in {"runTimer", "wait"} \/ ~Counted(c)
                       /\ overlap' \/ Repeated(job[c])]_vars
<1> SUFFICES ASSUME IInv, Orderly, Closed, Next, state = "Completed", state' # "Completed"
             PROVE  \E c \in Call : /\ pc'[c] # pc[c]
                                    /\ pc[c] \in {"runTimer", "wait"} \/ ~Counted(c)
                                    /\ overlap' \/ Repeated(job[c])
  OBVIOUS
<1>1. ASSUME NEW c \in Call, Begin(c) PROVE FALSE
  BY <1>1 DEF Begin, CompleteUserTask, CorrelateMessage, ProcessTimers, Collect
<1>2. ASSUME (\E x \in pending : Expire(x)) \/ SuspendInstance \/ ResumeInstance PROVE FALSE
  BY <1>2 DEF Expire, SuspendInstance, ResumeInstance
<1>3. PICK c \in Call : Step(c) /\ early = {}
  BY <1>1, <1>2 DEF Next
<1>4. /\ pc'[c] # pc[c] /\ pc[c] \notin {"idle", "list", "returned", "clearTimers", "clearCatches"}
      /\ pc[c] \in {"runTimer", "wait"} \/ ~Counted(c)
  BY <1>3, WhoReopens
<1>5. ~overlap => Repeated(job[c])
  BY <1>4 DEF Orderly, Others, Body
<1>6. overlap' = overlap
  BY <1>3 DEF Step
<1> QED  BY <1>4, <1>5, <1>6

\* run_instance_batch sets Completed when no token is left, while process_timers,
\* correlate_message, complete_user_task and handle_next_action set other states under
\* other locks: in every graph and however they overlap, a call that carries a token
\* the completion check knows never finds its instance completed.
THEOREM CompletionIsFinal == Spec => CompletedIsFinal
<1>1. Init => Closed
  BY DEF Init, Closed
<1> QED  BY <1>1, IInvOrder, NextClosed, NextStaysCompleted, PTL DEF Spec, CompletedIsFinal
=============================================================================
