-------------------------- MODULE DefinitionsProofs --------------------------
(***************************************************************************)
(* Proofs about Definitions: for any number of requests, deploys, failing  *)
(* calls and restarts, versions are told apart and keep their order over a *)
(* restart, what was deleted stays deleted, and a definition stays for the *)
(* instances that need it.                                                 *)
(***************************************************************************)
EXTENDS Definitions, FiniteSetTheorems, WellFoundedInduction, TLAPS

PC == {"idle", "insert", "saveXml", "validate", "insertInst", "persist",
       "look", "cascade", "row", "erase"}
Deploy == {"insert", "saveXml"}             \* a deploy is under way
Delete == {"cascade", "row", "erase"}       \* a delete has looked for instances
NeedsKey == PC \ {"idle", "persist", "look", "row"}

\* What a request remembers when m keys are in use.  Nothing is said of the list of what
\* is left to delete: every key of it is looked up before it is used.
Typed(r, m) ==
  /\ r.pc \in PC /\ r.key \in (1..m) \cup {NoKey}
  /\ r.highest \in Nat /\ r.inst \subseteq Inst /\ r.todo \subseteq Inst
  /\ r.pc \in NeedsKey => r.key \in 1..m
  /\ r.pc = "insert" => r.highest < r.key

\* A record of a request, whatever its fields hold.
Shaped(r) ==
  r = [pc |-> r.pc, key |-> r.key, highest |-> r.highest, todo |-> r.todo,
       rest |-> r.rest, cascade |-> r.cascade, inst |-> r.inst]

\* The types, also of the requests, and the bounds of versions and puts.
Typing ==
  /\ TypeOK
  /\ call = [c \in Call |-> call[c]]
  /\ \A c \in Call : Shaped(call[c]) /\ Typed(call[c], minted)
  /\ \A k \in Key : version[k] <= minted
  /\ stored \subseteq 1..minted /\ gone \subseteq 1..minted /\ InStore \subseteq stored
  /\ \A k \in Key : xml[k] <= Cardinality(stored)

\* A key has one deploy, which comes before everything else that happens to it.
Lifecycle ==
  /\ \A c \in Call : call[c].pc \in Deploy => call[c].key \notin stored \cup gone
  /\ \A c \in Call : call[c].pc \in {"insert", "erase"} => call[c].key \notin registered
  /\ \A c, d \in Call : /\ call[c].pc \in Deploy /\ call[d].pc \in Deploy
                        /\ call[c].key = call[d].key
                        => c = d
  /\ \A c, d \in Call : /\ call[c].pc = "insert" /\ call[d].pc \in Delete
                        => call[c].key # call[d].key
  /\ DeletedStaysDeleted

\* Two versions of one process that were not deployed at the same time, the older first.
Apart(ids, together, j, k) == j < k /\ ids[j] = ids[k] /\ {j, k} \notin together

\* Keys, versions and puts have one order, and so they will for a deploy under way.
Ordered ==
  /\ \A j, k \in registered : Apart(idOf, overlapped, j, k) => version[j] < version[k]
  /\ \A j, k \in InStore : Apart(idOf, overlapped, j, k) => xml[j] < xml[k]
  /\ \A c \in Call : call[c].pc = "insert" =>
       \A j \in registered : Apart(idOf, overlapped, j, call[c].key) => version[j] <= call[c].highest
  /\ \A c \in Call : call[c].pc \in Deploy =>
       \A k \in 1..minted : ~Apart(idOf, overlapped, call[c].key, k)

OrderInv == Typing /\ Lifecycle /\ Ordered

\* An instance and its row have one definition; a definition that was stored and is
\* not any more is not registered; a delete knows the instances of its definition or
\* they came in behind its back.
Known(i) == i \in late \cup revived

Needed ==
  /\ \A i \in Inst : live[i] # NoKey /\ row[i] # NoKey => live[i] = row[i]
  /\ stored \cap registered \subseteq InStore
  /\ \A c \in Call : call[c].pc = "row" => \A i \in call[c].inst : live[i] = NoKey
  /\ \A c \in Call : call[c].pc \in {"cascade", "row"} =>
       \A i \in Inst : live[i] # NoKey /\ live[i] = call[c].key => i \in call[c].todo \/ Known(i)
  /\ \A c \in Call : call[c].pc = "saveXml" =>
       \A i \in Inst : live[i] = call[c].key /\ live[i] \notin registered => Known(i)
  /\ InstancesKeepDefinition

NeedInv == OrderInv /\ Needed

----------------------------------------------------------------------------
\* A set of numbers below a bound has its greatest member.
LEMMA MaxOfBounded ==
  ASSUME NEW n \in Nat, NEW S \in SUBSET (0..n), S # {}
  PROVE  Max(S) \in S /\ \A x \in S : x <= Max(S)
<1> DEFINE T == {n - x : x \in S}
<1>1. \A x \in S : x \in Nat /\ n - x \in Nat
  OBVIOUS
<1>2. T \subseteq Nat /\ T # {}
  BY <1>1
<1>3. PICK t \in T : \A u \in T : <<u, t>> \notin OpToRel(<, Nat)
  BY <1>2, NatLessThanWellFounded, WFMin
<1>4. \A u \in T : ~(u < t)
  BY <1>2, <1>3 DEF OpToRel
<1>5. PICK m \in S : t = n - m
  OBVIOUS
<1>6. \A x \in S : n - x \in T
  OBVIOUS
<1>7. \A x \in S : m >= x
  <2> TAKE x \in S
  <2>1. n - x \in T
    BY <1>6
  <2>2. ~(n - x < t)
    BY <2>1, <1>4
  <2> QED  BY <2>2, <1>1, <1>5
<1> HIDE DEF T
<1> QED  BY <1>1, <1>7 DEF Max

----------------------------------------------------------------------------
USE DEF defVars, instVars, history, PC, Deploy, Delete, NeedsKey

\* A step of one request, in the terms the provers need.
LEMMA CallsTyped ==
  ASSUME Typing, NEW c \in Call, NEW r, call' = [call EXCEPT ![c] = r],
         minted' \in Nat, minted <= minted', Shaped(r), Typed(r, minted')
  PROVE  /\ call'[c] = r /\ \A d \in Call : d # c => call'[d] = call[d]
         /\ call' = [d \in Call |-> call'[d]]
         /\ \A d \in Call : Shaped(call'[d]) /\ Typed(call'[d], minted')
<1>1. call'[c] = r /\ (\A d \in Call : d # c => call'[d] = call[d]) /\ call' = [d \in Call |-> call'[d]]
  BY DEF Typing
<1>2. minted \in Nat /\ \A d \in Call : Shaped(call[d]) /\ Typed(call[d], minted)
  BY DEF Typing, TypeOK
<1>3. \A d \in Call : Typed(call[d], minted')
  BY <1>2 DEF Typed
<1> QED  BY <1>1, <1>2, <1>3

\* The key of a request is one of those that were minted.
LEMMA KeysTyped ==
  Typing => /\ minted \in Nat /\ minted <= MaxKeys /\ 1..minted \subseteq Key /\ Key \subseteq Nat \ {0}
            /\ NoKey \notin Key
  BY DefinitionsAssumption DEF Typing, TypeOK, Key

\* The versions of an id and the greatest of them.
LEMMA HighestVersionIs ==
  ASSUME Typing, NEW i
  PROVE  /\ HighestVersion(i) \in 0..minted
         /\ \A k \in registered : idOf[k] = i => version[k] <= HighestVersion(i)
<1>1. PICK S : S = {version[k] : k \in VersionsOf(i)} \cup {0}
  OBVIOUS
<1>2. registered \subseteq Key /\ \A k \in registered : version[k] \in 0..minted
  BY KeysTyped DEF Typing, TypeOK
<1>3. S \in SUBSET (0..minted) /\ S # {} /\ minted \in Nat
  BY <1>1, <1>2, KeysTyped DEF VersionsOf
<1>4. Max(S) \in S /\ \A x \in S : x <= Max(S)
  BY <1>3, MaxOfBounded
<1>5. \A k \in registered : idOf[k] = i => version[k] \in S
  BY <1>1 DEF VersionsOf
<1>6. HighestVersion(i) = Max(S)
  BY <1>1 DEF HighestVersion
<1> QED  BY <1>3, <1>4, <1>5, <1>6

\* The keys that were stored can be counted, and a put gets the greatest number.
LEMMA PutIsLast ==
  ASSUME Typing, NEW k \in 1..minted
  PROVE  LET n == Max({xml[j] : j \in Key}) + 1
         IN  /\ n \in Nat /\ n # 0 /\ n \in 1..Cardinality(stored) + 1
             /\ \A j \in Key : xml[j] < n
<1>1. PICK S : S = {xml[j] : j \in Key}
  OBVIOUS
<1>2. IsFiniteSet(stored) /\ Cardinality(stored) \in Nat
  <2>1. IsFiniteSet(1..minted)
    BY KeysTyped, FS_Interval
  <2> QED  BY <2>1, FS_Subset, FS_CardinalityType DEF Typing
<1>3. \A j \in Key : xml[j] \in 0..Cardinality(stored)
  BY <1>2, KeysTyped DEF Typing, TypeOK
<1>4. S \in SUBSET (0..Cardinality(stored)) /\ S # {}
  BY <1>1, <1>3, KeysTyped
<1>5. Max(S) \in S /\ \A x \in S : x <= Max(S)
  BY <1>2, <1>4, MaxOfBounded
<1>6. \A j \in Key : xml[j] \in S
  BY <1>1
<1>7. \A j \in Key : xml[j] <= Max(S)
  BY <1>5, <1>6
<1>8. Max(S) \in 0..Cardinality(stored)
  BY <1>4, <1>5
<1> QED  BY <1>1, <1>2, <1>3, <1>7, <1>8

\* The request records the actions build.
LEMMA IdleIs == /\ Shaped(Idle) /\ Idle.pc = "idle" /\ Idle.key = NoKey /\ Idle.highest = 0
                /\ Idle.inst = {} /\ Idle.todo = {}
                /\ \A m : Typed(Idle, m)
  BY DEF Idle, Shaped, Typed

\* A request that goes on keeps what it remembers.
LEMMA GotoIs ==
  ASSUME Typing, NEW c \in Call, NEW p, Goto(c, p)
  PROVE  \E r : /\ call' = [call EXCEPT ![c] = r] /\ Shaped(r) /\ r.pc = p
                /\ r.key = call[c].key /\ r.highest = call[c].highest
                /\ r.inst = call[c].inst /\ r.todo = call[c].todo
<1> DEFINE r == [call[c] EXCEPT !.pc = p]
<1>1. call' = [call EXCEPT ![c] = r]
  BY DEF Goto
<1>2. Shaped(call[c])
  BY DEF Typing
<1>3. Shaped(r) /\ r.pc = p /\ r.key = call[c].key /\ r.highest = call[c].highest
      /\ r.inst = call[c].inst /\ r.todo = call[c].todo
  BY <1>2 DEF Shaped
<1> HIDE DEF r
<1> QED  BY <1>1, <1>3

\* A step that leaves the registry and the object store alone.
LEMMA TypingKept ==
  ASSUME Typing, NEW c \in Call, NEW r, call' = [call EXCEPT ![c] = r],
         Shaped(r), Typed(r, minted),
         UNCHANGED <<defVars, xml, stored, gone, restarts>>,
         live' \in [Inst -> Key \cup {NoKey}], row' \in [Inst -> Key \cup {NoKey}],
         failures' \in 0..MaxFailures
  PROVE  Typing'
<1>0. minted' \in Nat /\ minted <= minted' /\ Typed(r, minted')
  BY KeysTyped
<1>1. call' = [d \in Call |-> call'[d]] /\ \A d \in Call : Shaped(call'[d]) /\ Typed(call'[d], minted')
  BY <1>0, CallsTyped
<1>2. TypeOK'
  BY DEF Typing, TypeOK, InStore
<1>3. /\ \A k \in Key : version'[k] <= minted'
      /\ stored' \subseteq 1..minted' /\ gone' \subseteq 1..minted' /\ InStore' \subseteq stored'
      /\ \A k \in Key : xml'[k] <= Cardinality(stored')
  BY DEF Typing, InStore
<1> QED  BY <1>1, <1>2, <1>3 DEF Typing

\* The steps of a deploy keep the types (deploy_definition and its handler).
LEMMA DeployDefinitionTyped ==
  ASSUME Typing, NEW c \in Call, NEW i \in Id, DeployDefinition(c, i)
  PROVE  Typing'
<1> PICK r, k, h : /\ r = [Idle EXCEPT !.pc = "insert", !.key = k, !.highest = h]
                   /\ k = minted + 1 /\ h = HighestVersion(i)
  OBVIOUS
<1> USE KeysTyped, DefinitionsAssumption
<1>1. minted' = minted + 1 /\ minted' \in 0..MaxKeys /\ call' = [call EXCEPT ![c] = r]
  BY DEF DeployDefinition, Begin
<1>2. HighestVersion(i) \in 0..minted
  BY HighestVersionIs
<1>3. Shaped(r) /\ Typed(r, minted')
  <2>1. Shaped(r) /\ r.pc = "insert" /\ r.key = k /\ r.highest = h /\ r.inst = {} /\ r.todo = {}
    BY DEF Idle, Shaped
  <2> QED  BY <1>1, <1>2, <2>1 DEF Typed
<1>4. minted' \in Nat /\ minted <= minted'
  BY <1>1
<1>5. call' = [d \in Call |-> call'[d]] /\ \A d \in Call : Shaped(call'[d]) /\ Typed(call'[d], minted')
  BY <1>1, <1>3, <1>4, CallsTyped
<1>6. UNCHANGED <<registered, version, xml, instVars, failures, restarts, stored, gone>>
  BY DEF DeployDefinition
<1>7. idOf' \in [Key -> Id \cup {NoId}]
  BY DEF DeployDefinition, Typing, TypeOK
<1>8. TypeOK'
  BY <1>1, <1>6, <1>7 DEF Typing, TypeOK, InStore
<1>9. /\ \A j \in Key : version'[j] <= minted'
      /\ stored' \subseteq 1..minted' /\ gone' \subseteq 1..minted' /\ InStore' \subseteq stored'
      /\ \A j \in Key : xml'[j] <= Cardinality(stored')
  BY <1>1, <1>6 DEF Typing, TypeOK, InStore
<1> QED  BY <1>5, <1>8, <1>9 DEF Typing

LEMMA InsertDefinitionTyped ==
  ASSUME Typing, NEW c \in Call, InsertDefinition(c)
  PROVE  Typing'
<1> USE KeysTyped, DefinitionsAssumption
<1>1. Typed(call[c], minted) /\ call[c].pc = "insert"
  BY DEF Typing, InsertDefinition, At
<1>2. PICK k : k = call[c].key
  OBVIOUS
<1>3. PICK v : v = NormalizeVersion(call[c].highest)
  OBVIOUS
<1>4. k \in 1..minted /\ v \in 1..k
  BY <1>1, <1>2, <1>3 DEF Typed, NormalizeVersion
<1>5. PICK r : /\ call' = [call EXCEPT ![c] = r] /\ Shaped(r) /\ r.pc = "saveXml" /\ r.key = k
               /\ r.highest = call[c].highest /\ r.inst = call[c].inst /\ r.todo = call[c].todo
  BY <1>2, GotoIs DEF InsertDefinition
<1>6. Typed(r, minted)
  BY <1>1, <1>4, <1>5 DEF Typed
<1>7. UNCHANGED <<minted, idOf, xml, instVars, failures, restarts, history>>
  BY DEF InsertDefinition
<1>8. call' = [d \in Call |-> call'[d]] /\ \A d \in Call : Shaped(call'[d]) /\ Typed(call'[d], minted')
  <2>1. minted' \in Nat /\ minted <= minted' /\ Typed(r, minted')
    BY <1>6, <1>7
  <2> QED  BY <1>5, <2>1, CallsTyped
<1>9. registered' = registered \cup {k} /\ version' = [version EXCEPT ![k] = v]
  BY <1>2, <1>3 DEF InsertDefinition
<1>10. TypeOK'
  BY <1>4, <1>7, <1>9 DEF Typing, TypeOK, InStore
<1>11. /\ \A j \in Key : version'[j] <= minted'
       /\ stored' \subseteq 1..minted' /\ gone' \subseteq 1..minted' /\ InStore' \subseteq stored'
       /\ \A j \in Key : xml'[j] <= Cardinality(stored')
  BY <1>4, <1>7, <1>9 DEF Typing, TypeOK, InStore
<1> QED  BY <1>8, <1>10, <1>11 DEF Typing

\* The steps that leave the registry and the object store alone: no deploy begins, no
\* definition is removed, and a delete that looks finds its definition registered.
Quiet(c, r) ==
  /\ call' = [call EXCEPT ![c] = r] /\ Shaped(r) /\ Typed(r, minted)
  /\ r.pc \notin Deploy \cup {"erase"}
  /\ r.pc \in Delete /\ r.key # NoKey =>
        r.key \in registered \/ (call[c].pc \in Delete /\ r.key = call[c].key)
  /\ UNCHANGED <<defVars, xml, overlapped, stored, gone, kept, restarts>>
  /\ live' \in [Inst -> Key \cup {NoKey}] /\ row' \in [Inst -> Key \cup {NoKey}]
  /\ failures' \in 0..MaxFailures

\* The rest of the types, in the terms the provers need.
LEMMA TypesOf ==
  Typing => /\ live \in [Inst -> Key \cup {NoKey}] /\ row \in [Inst -> Key \cup {NoKey}]
            /\ failures \in 0..MaxFailures
            /\ (StoreFails => failures' \in 0..MaxFailures)
            /\ registered \subseteq 1..minted
  BY DefinitionsAssumption DEF Typing, TypeOK, StoreFails

\* What the requests turn into that start, delete or look (start_instance,
\* start_instance_latest, validate_start_request, delete_instance, delete_definition).
LEMMA StartInstanceDoes ==
  ASSUME Typing, NEW c \in Call, NEW k, StartInstance(c, k)
  PROVE  \E r : Quiet(c, r) /\ r.pc = "insertInst"
<1> PICK r : r = [Idle EXCEPT !.pc = "insertInst", !.key = k]
  OBVIOUS
<1>1. call' = [call EXCEPT ![c] = r] /\ k \in registered
  BY DEF StartInstance, Begin
<1>2. Shaped(r) /\ r.pc = "insertInst" /\ r.key = k /\ r.highest = 0 /\ r.inst = {} /\ r.todo = {}
  BY DEF Idle, Shaped
<1>3. Typed(r, minted)
  BY <1>1, <1>2, TypesOf DEF Typed
<1> QED  BY <1>1, <1>2, <1>3, TypesOf DEF Quiet, StartInstance

LEMMA StartInstanceLatestDoes ==
  ASSUME Typing, NEW c \in Call, NEW i, StartInstanceLatest(c, i)
  PROVE  \E r : Quiet(c, r) /\ r.pc = "validate"
<1>1. PICK k \in LatestOf(i) : Begin(c, [Idle EXCEPT !.pc = "validate", !.key = k])
  BY DEF StartInstanceLatest
<1> PICK r : r = [Idle EXCEPT !.pc = "validate", !.key = k]
  OBVIOUS
<1>2. call' = [call EXCEPT ![c] = r] /\ k \in registered
  BY <1>1 DEF Begin, LatestOf, VersionsOf
<1>3. Shaped(r) /\ r.pc = "validate" /\ r.key = k /\ r.highest = 0 /\ r.inst = {} /\ r.todo = {}
  BY DEF Idle, Shaped
<1>4. Typed(r, minted)
  BY <1>2, <1>3, TypesOf DEF Typed
<1> QED  BY <1>2, <1>3, <1>4, TypesOf DEF Quiet, StartInstanceLatest

LEMMA ValidateStartDoes ==
  ASSUME Typing, NEW c \in Call, ValidateStart(c)
  PROVE  \E r : Quiet(c, r) /\ r.pc \in {"insertInst", "idle"}
<1>1. Typed(call[c], minted) /\ call[c].pc = "validate"
  BY DEF Typing, ValidateStart, At
<1>2. CASE call[c].key \in registered
  <2>1. PICK r : /\ call' = [call EXCEPT ![c] = r] /\ Shaped(r) /\ r.pc = "insertInst"
                 /\ r.key = call[c].key /\ r.highest = call[c].highest
                 /\ r.inst = call[c].inst /\ r.todo = call[c].todo
    BY <1>2, GotoIs DEF ValidateStart
  <2>2. Typed(r, minted)
    BY <1>1, <2>1 DEF Typed
  <2> QED  BY <2>1, <2>2, TypesOf DEF Quiet, ValidateStart
<1>3. CASE call[c].key \notin registered
  <2>1. call' = [call EXCEPT ![c] = Idle]
    BY <1>3 DEF ValidateStart, Return
  <2> QED  BY <2>1, IdleIs, TypesOf DEF Quiet, ValidateStart
<1> QED  BY <1>2, <1>3

LEMMA InsertInstanceDoes ==
  ASSUME Typing, NEW c \in Call, NEW i \in Inst, InsertInstance(c, i)
  PROVE  \E r : Quiet(c, r) /\ r.pc = "persist"
<1>1. Typed(call[c], minted) /\ Shaped(call[c]) /\ call[c].pc = "insertInst"
  BY DEF Typing, InsertInstance, At
<1> PICK r, s : r = [call[c] EXCEPT !.pc = "persist", !.inst = s] /\ s = {i}
  OBVIOUS
<1>2. call' = [call EXCEPT ![c] = r]
  BY DEF InsertInstance
<1>3. /\ Shaped(r) /\ r.pc = "persist" /\ r.key = call[c].key /\ r.highest = call[c].highest
      /\ r.inst = s /\ r.todo = call[c].todo
  BY <1>1 DEF Shaped
<1>4. Typed(r, minted)
  BY <1>1, <1>3 DEF Typed
<1>5. live' \in [Inst -> Key \cup {NoKey}]
  <2>1. call[c].key \in Key
    BY <1>1, KeysTyped DEF Typed
  <2>2. live' = [live EXCEPT ![i] = call[c].key]
    BY DEF InsertInstance
  <2> QED  BY <2>1, <2>2, TypesOf
<1>6. UNCHANGED <<defVars, xml, overlapped, stored, gone, kept, restarts, row, failures>>
  BY DEF InsertInstance
<1> QED  BY <1>2, <1>3, <1>4, <1>5, <1>6, TypesOf DEF Quiet

LEMMA PersistInstanceDoes ==
  ASSUME Typing, NEW c \in Call, PersistInstance(c)
  PROVE  Quiet(c, Idle)
<1>1. call' = [call EXCEPT ![c] = Idle]
  BY DEF PersistInstance, Return
<1>2. row' \in [Inst -> Key \cup {NoKey}]
  BY TypesOf DEF PersistInstance
<1>3. UNCHANGED <<defVars, xml, overlapped, stored, gone, kept, restarts, live, failures>>
  BY DEF PersistInstance
<1> QED  BY <1>1, <1>2, <1>3, IdleIs, TypesOf DEF Quiet

LEMMA LookForInstancesDoes ==
  ASSUME Typing, NEW c \in Call, NEW k, NEW rest, NEW cascade, LookForInstances(c, k, rest, cascade),
         UNCHANGED <<defVars, xml, instVars, failures, restarts, history>>
  PROVE  \E r : /\ Quiet(c, r)
                /\ \/ r = Idle
                   \/ r.pc = "cascade" /\ r.key = k /\ r.todo = InstancesOf(k) /\ r.inst = {}
<1>1. CASE k \notin registered \/ Refused(k, cascade)
  BY <1>1, IdleIs, TypesOf DEF LookForInstances, Quiet
<1>2. CASE ~(k \notin registered \/ Refused(k, cascade))
  <2>1. PICK r, s, o : /\ r = [Idle EXCEPT !.pc = "cascade", !.key = k, !.rest = rest,
                                           !.cascade = o, !.todo = s]
                       /\ s = InstancesOf(k) /\ o = (cascade /\ rest # <<>>)
    OBVIOUS
  <2>2. call' = [call EXCEPT ![c] = r]
    BY <1>2, <2>1 DEF LookForInstances
  <2>3. Shaped(r) /\ r.pc = "cascade" /\ r.key = k /\ r.highest = 0 /\ r.inst = {} /\ r.todo = s
    BY <2>1 DEF Idle, Shaped
  <2>4. s \subseteq Inst
    BY <2>1 DEF InstancesOf
  <2>5. Typed(r, minted)
    BY <1>2, <2>3, <2>4, TypesOf DEF Typed
  <2> QED  BY <1>2, <2>1, <2>2, <2>3, <2>5, TypesOf DEF Quiet
<1> QED  BY <1>1, <1>2

LEMMA DeleteAllDefinitionsDoes ==
  ASSUME Typing, NEW c \in Call, NEW i, NEW cascade, DeleteAllDefinitions(c, i, cascade)
  PROVE  \E r : Quiet(c, r) /\ r.pc = "look"
<1>1. PICK r, s : /\ r = [Idle EXCEPT !.pc = "look", !.cascade = cascade, !.rest = s]
                  /\ s = OldestFirst(VersionsOf(i))
  OBVIOUS
<1>2. call' = [call EXCEPT ![c] = r]
  BY <1>1 DEF DeleteAllDefinitions, Begin
<1>3. Shaped(r) /\ r.pc = "look" /\ r.key = NoKey /\ r.highest = 0 /\ r.inst = {} /\ r.todo = {}
  BY <1>1 DEF Idle, Shaped
<1>4. Typed(r, minted)
  BY <1>3 DEF Typed
<1> QED  BY <1>2, <1>3, <1>4, TypesOf DEF Quiet, DeleteAllDefinitions

LEMMA DeleteInstanceDoes ==
  ASSUME Typing, NEW c \in Call, NEW i \in Inst, DeleteInstance(c, i)
  PROVE  \E r : Quiet(c, r) /\ r.pc = "row" /\ r.key = NoKey /\ r.inst = {i}
<1>1. PICK r, s : r = [Idle EXCEPT !.pc = "row", !.inst = s] /\ s = {i}
  OBVIOUS
<1>2. call' = [call EXCEPT ![c] = r] /\ live' = [live EXCEPT ![i] = NoKey]
  BY <1>1 DEF DeleteInstance, Begin
<1>3. Shaped(r) /\ r.pc = "row" /\ r.key = NoKey /\ r.highest = 0 /\ r.inst = s /\ r.todo = {}
  BY <1>1 DEF Idle, Shaped
<1>4. Typed(r, minted)
  BY <1>1, <1>3 DEF Typed
<1>5. live' \in [Inst -> Key \cup {NoKey}]
  BY <1>2, TypesOf
<1>6. UNCHANGED <<defVars, xml, row, failures, restarts, history>>
  BY DEF DeleteInstance
<1> QED  BY <1>1, <1>2, <1>3, <1>4, <1>5, <1>6, TypesOf DEF Quiet

LEMMA CascadeInstanceDoes ==
  ASSUME Typing, NEW c \in Call, NEW i \in Inst, CascadeInstance(c, i)
  PROVE  \E r : /\ Quiet(c, r)
                /\ \/ r = Idle
                   \/ /\ r.pc = "row" /\ r.key = call[c].key
                      /\ r.inst = {i} /\ r.todo = call[c].todo \ {i}
<1>1. Typed(call[c], minted) /\ Shaped(call[c]) /\ call[c].pc = "cascade"
  BY DEF Typing, CascadeInstance, At
<1>2. live' = [live EXCEPT ![i] = NoKey] /\ UNCHANGED <<defVars, xml, row, failures, restarts, history>>
  BY DEF CascadeInstance
<1>3. live' \in [Inst -> Key \cup {NoKey}]
  BY <1>2, TypesOf
<1>4. CASE live[i] = NoKey
  <2>1. call' = [call EXCEPT ![c] = Idle]
    BY <1>4 DEF CascadeInstance
  <2> QED  BY <1>2, <1>3, <2>1, IdleIs, TypesOf DEF Quiet
<1>5. CASE live[i] # NoKey
  <2>1. PICK r, s, t : /\ r = [call[c] EXCEPT !.pc = "row", !.inst = s, !.todo = t]
                       /\ s = {i} /\ t = call[c].todo \ {i}
    OBVIOUS
  <2>2. call' = [call EXCEPT ![c] = r]
    BY <1>5, <2>1 DEF CascadeInstance
  <2>3. /\ Shaped(r) /\ r.pc = "row" /\ r.key = call[c].key /\ r.highest = call[c].highest
        /\ r.inst = s /\ r.todo = t
    BY <1>1, <2>1 DEF Shaped
  <2>4. Typed(r, minted)
    BY <1>1, <2>1, <2>3 DEF Typed
  <2> QED  BY <1>1, <1>2, <1>3, <2>1, <2>2, <2>3, <2>4, TypesOf DEF Quiet
<1> QED  BY <1>4, <1>5

LEMMA EraseRowDoes ==
  ASSUME Typing, NEW c \in Call, EraseRow(c)
  PROVE  \E r : /\ Quiet(c, r)
                /\ \/ r = Idle
                   \/ /\ r.pc = "cascade" /\ r.key = call[c].key
                      /\ r.inst = {} /\ r.todo = call[c].todo
<1>1. Typed(call[c], minted) /\ Shaped(call[c]) /\ call[c].pc = "row"
  BY DEF Typing, EraseRow, At
<1>2. row' \in [Inst -> Key \cup {NoKey}] /\ failures' \in 0..MaxFailures
  BY TypesOf DEF EraseRow
<1>3. UNCHANGED <<defVars, xml, live, restarts, overlapped, stored, gone, kept>>
  BY DEF EraseRow
<1>4. CASE call' = [call EXCEPT ![c] = Idle]
  BY <1>2, <1>3, <1>4, IdleIs, TypesOf DEF Quiet
<1>5. CASE /\ call[c].key # NoKey
           /\ call' = [call EXCEPT ![c] = [@ EXCEPT !.pc = "cascade", !.inst = {}]]
  <2>1. PICK r : r = [call[c] EXCEPT !.pc = "cascade", !.inst = {}]
    OBVIOUS
  <2>2. call' = [call EXCEPT ![c] = r]
    BY <1>5, <2>1
  <2>3. /\ Shaped(r) /\ r.pc = "cascade" /\ r.key = call[c].key /\ r.highest = call[c].highest
        /\ r.inst = {} /\ r.todo = call[c].todo
    BY <1>1, <2>1 DEF Shaped
  <2>4. Typed(r, minted)
    BY <1>1, <1>5, <2>3 DEF Typed
  <2> QED  BY <1>1, <1>2, <1>3, <2>2, <2>3, <2>4, TypesOf DEF Quiet
<1>6. \/ call' = [call EXCEPT ![c] = Idle]
      \/ /\ call[c].key # NoKey
         /\ call' = [call EXCEPT ![c] = [@ EXCEPT !.pc = "cascade", !.inst = {}]]
  BY DEF EraseRow, Return
<1> QED  BY <1>4, <1>5, <1>6

\* A quiet step keeps the types.
LEMMA QuietTyped ==
  ASSUME Typing, NEW c \in Call, NEW r, Quiet(c, r)
  PROVE  Typing'
  BY TypingKept DEF Quiet

\* The two failures of a store that end a call or let it go on.
LEMMA SaveXmlDoes ==
  ASSUME Typing, NEW c \in Call, SaveXml(c)
  PROVE  /\ call' = [call EXCEPT ![c] = Idle] /\ call[c].pc = "saveXml"
         /\ UNCHANGED <<defVars, instVars, restarts, overlapped, late, revived, gone, kept>>
         /\ \/ Quiet(c, Idle)
            \/ /\ xml' = PutXml(call[c].key) /\ stored' = stored \cup {call[c].key}
               /\ UNCHANGED failures
<1>1. /\ call' = [call EXCEPT ![c] = Idle] /\ call[c].pc = "saveXml"
      /\ UNCHANGED <<defVars, instVars, restarts, overlapped, late, revived, gone, kept>>
  BY DEF SaveXml, Return, At
<1>2. CASE StoreFails /\ UNCHANGED <<xml, stored>>
  BY <1>1, <1>2, IdleIs, TypesOf DEF Quiet
<1> QED  BY <1>1, <1>2 DEF SaveXml

\* A definition is erased, or the store refuses to delete its object.
Erased(k) ==
  /\ gone' = IF Deploying(k) THEN gone ELSE gone \cup {k}
  /\ \/ xml' = [xml EXCEPT ![k] = 0] /\ kept' = kept \ {k}
     \/ xml' = xml /\ kept' = kept \cup {k}
  /\ failures' \in 0..MaxFailures

LEMMA EraseDefinitionDoes ==
  ASSUME Typing, NEW c \in Call, EraseDefinition(c)
  PROVE  /\ call[c].pc = "erase"
         /\ UNCHANGED <<defVars, instVars, restarts, overlapped, late, revived, stored>>
         /\ \E r : /\ call' = [call EXCEPT ![c] = r] /\ Shaped(r) /\ Typed(r, minted)
                   /\ r.pc \in {"look", "idle"}
                   /\ \/ Quiet(c, r)
                      \/ Erased(call[c].key)
<1>1. /\ call[c].pc = "erase"
      /\ UNCHANGED <<defVars, instVars, restarts, overlapped, late, revived, stored>>
  BY DEF EraseDefinition, At
<1>2. PICK n : n = IF call[c].rest = <<>> THEN Idle
                   ELSE [Idle EXCEPT !.pc = "look", !.rest = call[c].rest, !.cascade = call[c].cascade]
  OBVIOUS
<1>3. Shaped(n) /\ n.pc \in {"look", "idle"} /\ n.key = NoKey /\ n.highest = 0 /\ n.inst = {} /\ n.todo = {}
  <2>1. CASE call[c].rest = <<>>
    BY <1>2, <2>1, IdleIs
  <2>2. CASE call[c].rest # <<>>
    <3>1. PICK s, o : s = call[c].rest /\ o = call[c].cascade
      OBVIOUS
    <3>2. n = [Idle EXCEPT !.pc = "look", !.rest = s, !.cascade = o]
      BY <1>2, <2>2, <3>1
    <3> QED  BY <3>2 DEF Idle, Shaped
  <2> QED  BY <2>1, <2>2
<1>4. Typed(n, minted)
  BY <1>3 DEF Typed
<1>5. CASE /\ call' = [call EXCEPT ![c] = n]
           /\ gone' = IF Deploying(call[c].key) THEN gone ELSE gone \cup {call[c].key}
           /\ \/ /\ xml' = DropXml(call[c].key) /\ kept' = kept \ {call[c].key}
                 /\ UNCHANGED failures
              \/ StoreFails /\ kept' = kept \cup {call[c].key} /\ UNCHANGED xml
  <2>1. Erased(call[c].key)
    BY <1>5, TypesOf DEF Erased, DropXml
  <2> QED  BY <1>1, <1>3, <1>4, <1>5, <2>1
<1>6. CASE StoreFails /\ call' = [call EXCEPT ![c] = Idle] /\ UNCHANGED <<xml, gone, kept>>
  <2>1. Quiet(c, Idle)
    BY <1>1, <1>6, IdleIs, TypesOf DEF Quiet
  <2> QED  BY <1>1, <1>6, <2>1, IdleIs
<1> QED  BY <1>2, <1>5, <1>6 DEF EraseDefinition, Return

LEMMA RemoveDefinitionDoes ==
  ASSUME Typing, NEW c \in Call, RemoveDefinition(c)
  PROVE  /\ call[c].pc = "cascade" /\ call[c].todo = {} /\ call[c].key \in 1..minted
         /\ registered' = registered \ {call[c].key}
         /\ version' = [version EXCEPT ![call[c].key] = 0]
         /\ UNCHANGED <<minted, idOf, xml, instVars, failures, restarts, history>>
         /\ \E r : /\ call' = [call EXCEPT ![c] = r] /\ Shaped(r) /\ Typed(r, minted)
                   /\ r.pc = "erase" /\ r.key = call[c].key
<1>1. /\ call[c].pc = "cascade" /\ call[c].todo = {} /\ Typed(call[c], minted)
      /\ registered' = registered \ {call[c].key}
      /\ version' = [version EXCEPT ![call[c].key] = 0]
      /\ UNCHANGED <<minted, idOf, xml, instVars, failures, restarts, history>>
  BY DEF RemoveDefinition, At, Typing
<1>2. PICK r : /\ call' = [call EXCEPT ![c] = r] /\ Shaped(r) /\ r.pc = "erase"
               /\ r.key = call[c].key /\ r.highest = call[c].highest
               /\ r.inst = call[c].inst /\ r.todo = call[c].todo
  BY GotoIs DEF RemoveDefinition
<1>3. Typed(r, minted)
  BY <1>1, <1>2 DEF Typed
<1>4. call[c].key \in 1..minted
  BY <1>1 DEF Typed
<1> QED  BY <1>1, <1>2, <1>3, <1>4

\* What the restore makes of the versions: numbers from 1 on, in the order of the puts.
LEMMA RestoredVersionIs ==
  ASSUME Typing
  PROVE  /\ \A k \in InStore : RestoredVersion(k) \in 1..minted
         /\ \A k : k \notin InStore => RestoredVersion(k) = 0
         /\ \A j, k \in InStore : idOf[j] = idOf[k] /\ xml[j] < xml[k]
                                     => RestoredVersion(j) < RestoredVersion(k)
<1> DEFINE Before(k) == {j \in InStore : idOf[j] = idOf[k] /\ xml[j] <= xml[k]}
<1>1. minted \in Nat /\ InStore \subseteq 1..minted /\ \A k \in InStore : xml[k] \in Nat
  BY KeysTyped, DefinitionsAssumption DEF Typing, TypeOK
<1>2. IsFiniteSet(1..minted) /\ Cardinality(1..minted) = minted
  BY <1>1, FS_Interval
<1>3. \A k \in InStore : IsFiniteSet(Before(k)) /\ Cardinality(Before(k)) \in 1..minted
  <2> TAKE k \in InStore
  <2>1. PICK S : S = Before(k)
    OBVIOUS
  <2>2. S \in SUBSET (1..minted) /\ k \in S
    <3>1. xml[k] <= xml[k]
      BY <1>1
    <3>2. k \in Before(k) /\ Before(k) \subseteq InStore
      BY <3>1
    <3> QED  BY <1>1, <2>1, <3>2
  <2>3. IsFiniteSet(S) /\ Cardinality(S) \in Nat /\ Cardinality(S) <= minted
    BY <1>2, <2>2, FS_Subset, FS_CardinalityType
  <2>4. Cardinality(S) # 0
    BY <2>2, <2>3, FS_EmptySet
  <2> QED  BY <2>1, <2>3, <2>4, <1>1
<1>4. \A k \in InStore : RestoredVersion(k) = Cardinality(Before(k))
  BY DEF RestoredVersion
<1>5. ASSUME NEW j \in InStore, NEW k \in InStore, idOf[j] = idOf[k], xml[j] < xml[k]
      PROVE  RestoredVersion(j) < RestoredVersion(k)
  <2>1. PICK S, T : S = Before(j) /\ T = Before(k)
    OBVIOUS
  <2>2. S \in SUBSET T /\ k \in T /\ k \notin S
    <3>1. /\ xml[k] <= xml[k] /\ ~(xml[k] <= xml[j])
          /\ \A m \in InStore : xml[m] <= xml[j] => xml[m] <= xml[k]
      BY <1>1, <1>5
    <3>2. k \in Before(k) /\ k \notin Before(j)
      BY <3>1
    <3>3. Before(j) \subseteq Before(k)
      BY <3>1, <1>5
    <3> QED  BY <2>1, <3>2, <3>3
  <2>3. IsFiniteSet(T) /\ Cardinality(S) \in Nat /\ Cardinality(T) \in Nat
    BY <1>1, <1>3, <2>1
  <2>4. Cardinality(S) <= Cardinality(T) /\ Cardinality(S) # Cardinality(T)
    BY <2>2, <2>3, FS_Subset
  <2> HIDE DEF Before
  <2> QED  BY <1>4, <2>1, <2>3, <2>4
<1> HIDE DEF Before
<1> QED  BY <1>3, <1>4, <1>5 DEF RestoredVersion

LEMMA SaveXmlTyped ==
  ASSUME Typing, Lifecycle, NEW c \in Call, SaveXml(c)
  PROVE  Typing'
<1>1. CASE Quiet(c, Idle)
  BY <1>1, QuietTyped
<1>2. CASE xml' = PutXml(call[c].key) /\ stored' = stored \cup {call[c].key} /\ UNCHANGED failures
  <2>1. PICK k, n : k = call[c].key /\ n = Max({xml[j] : j \in Key}) + 1
    OBVIOUS
  <2>2. k \in 1..minted /\ k \notin stored
    BY <2>1, SaveXmlDoes DEF Typing, Typed, Lifecycle
  <2>3. n \in 1..Cardinality(stored) + 1
    BY <2>1, <2>2, PutIsLast
  <2>4. IsFiniteSet(stored) /\ Cardinality(stored) \in Nat
    <3>1. IsFiniteSet(1..minted)
      BY KeysTyped, FS_Interval
    <3> QED  BY <3>1, FS_Subset, FS_CardinalityType DEF Typing
  <2>5. stored' = stored \cup {k} /\ Cardinality(stored') = Cardinality(stored) + 1
    BY <1>2, <2>1, <2>2, <2>4, FS_AddElement
  <2>6. Cardinality(stored') <= MaxKeys /\ stored' \subseteq 1..minted
    <3>1. IsFiniteSet(1..minted) /\ Cardinality(1..minted) = minted
      BY KeysTyped, FS_Interval
    <3>2. stored' \in SUBSET (1..minted)
      BY <2>2, <2>5 DEF Typing
    <3>3. Cardinality(stored') <= minted
      BY <3>1, <3>2, FS_Subset
    <3> QED  BY <2>4, <2>5, <3>2, <3>3, KeysTyped, DefinitionsAssumption
  <2>7. xml' = [xml EXCEPT ![k] = n]
    BY <1>2, <2>1 DEF PutXml
  <2>8. UNCHANGED <<defVars, instVars, restarts, gone, failures>>
    BY <1>2, SaveXmlDoes
  <2>9. \A j \in Key : xml'[j] \in 0..Cardinality(stored')
    BY <2>2, <2>3, <2>4, <2>5, <2>7, KeysTyped, DefinitionsAssumption DEF Typing, TypeOK
  <2>10. xml' \in [Key -> 0..MaxKeys]
    <3>1. \A j \in Key : xml'[j] \in 0..MaxKeys
      BY <2>4, <2>5, <2>6, <2>9, DefinitionsAssumption
    <3>2. xml' = [j \in Key |-> xml'[j]]
      BY <2>7 DEF Typing, TypeOK
    <3> QED  BY <3>1, <3>2
  <2>11. InStore' = InStore \cup {k}
    BY <2>2, <2>3, <2>4, <2>7, KeysTyped DEF Typing, TypeOK, InStore
  <2>12. TypeOK'
    BY <2>2, <2>8, <2>10, <2>11 DEF Typing, TypeOK
  <2>13. call' = [d \in Call |-> call'[d]] /\ \A d \in Call : Shaped(call'[d]) /\ Typed(call'[d], minted')
    <3>1. minted' \in Nat /\ minted <= minted' /\ Typed(Idle, minted') /\ Shaped(Idle)
      BY <2>8, KeysTyped, IdleIs
    <3>2. call' = [call EXCEPT ![c] = Idle]
      BY SaveXmlDoes
    <3> QED  BY <3>1, <3>2, CallsTyped
  <2>14. \A j \in Key : xml'[j] <= Cardinality(stored')
    BY <2>4, <2>5, <2>9
  <2>15. /\ \A j \in Key : version'[j] <= minted'
         /\ stored' \subseteq 1..minted' /\ gone' \subseteq 1..minted' /\ InStore' \subseteq stored'
    BY <2>5, <2>6, <2>8, <2>11 DEF Typing
  <2> QED  BY <2>12, <2>13, <2>14, <2>15 DEF Typing
<1> QED  BY <1>1, <1>2, SaveXmlDoes

\* So do the steps of a delete (delete_definition).
LEMMA EraseDefinitionTyped ==
  ASSUME Typing, NEW c \in Call, EraseDefinition(c)
  PROVE  Typing'
<1>1. PICK r : /\ call' = [call EXCEPT ![c] = r] /\ Shaped(r) /\ Typed(r, minted)
               /\ \/ Quiet(c, r)
                  \/ Erased(call[c].key)
  BY EraseDefinitionDoes
<1>2. UNCHANGED <<defVars, instVars, restarts, stored>>
  BY EraseDefinitionDoes
<1>3. CASE Quiet(c, r)
  BY <1>3, QuietTyped
<1>4. CASE Erased(call[c].key)
  <2>1. PICK k : k = call[c].key
    OBVIOUS
  <2>2. /\ k \in 1..minted /\ gone' \subseteq gone \cup {k} /\ failures' \in 0..MaxFailures
        /\ xml' = [xml EXCEPT ![k] = 0] \/ xml' = xml
    BY <1>4, <2>1, EraseDefinitionDoes DEF Typing, Typed, Erased
  <2>3. InStore' \subseteq InStore
    BY <2>2 DEF Typing, TypeOK, InStore
  <2>4. xml' \in [Key -> 0..MaxKeys] /\ \A j \in Key : xml'[j] \in {0, xml[j]}
    <3>1. xml \in [Key -> 0..MaxKeys] /\ 0 \in 0..MaxKeys
      BY DefinitionsAssumption DEF Typing, TypeOK
    <3> QED  BY <2>2, <3>1
  <2>5. TypeOK'
    BY <1>2, <1>4, <2>2, <2>3, <2>4 DEF Typing, TypeOK
  <2>6. call' = [d \in Call |-> call'[d]] /\ \A d \in Call : Shaped(call'[d]) /\ Typed(call'[d], minted')
    <3>1. minted' \in Nat /\ minted <= minted' /\ Typed(r, minted')
      BY <1>1, <1>2, KeysTyped
    <3> QED  BY <1>1, <3>1, CallsTyped
  <2>7. \A j \in Key : xml'[j] <= Cardinality(stored')
    <3>1. \A j \in Key : 0 <= xml[j] /\ xml[j] <= Cardinality(stored)
      BY DEF Typing, TypeOK
    <3>2. IsFiniteSet(1..minted)
      BY KeysTyped, FS_Interval
    <3>3. Cardinality(stored) \in Nat
      BY <3>2, FS_Subset, FS_CardinalityType DEF Typing
    <3> QED  BY <1>2, <2>4, <3>1, <3>3
  <2>8. /\ \A j \in Key : version'[j] <= minted'
        /\ stored' \subseteq 1..minted' /\ gone' \subseteq 1..minted' /\ InStore' \subseteq stored'
    BY <1>2, <2>2, <2>3 DEF Typing
  <2> QED  BY <2>5, <2>6, <2>7, <2>8 DEF Typing
<1> QED  BY <1>1, <1>3, <1>4

LEMMA RemoveDefinitionTyped ==
  ASSUME Typing, NEW c \in Call, RemoveDefinition(c)
  PROVE  Typing'
<1>1. PICK k : k = call[c].key
  OBVIOUS
<1>2. /\ k \in 1..minted /\ registered' = registered \ {k} /\ version' = [version EXCEPT ![k] = 0]
      /\ UNCHANGED <<minted, idOf, xml, instVars, failures, restarts, history>>
  BY <1>1, RemoveDefinitionDoes
<1>3. PICK r : call' = [call EXCEPT ![c] = r] /\ Shaped(r) /\ Typed(r, minted)
  BY RemoveDefinitionDoes
<1>4. call' = [d \in Call |-> call'[d]] /\ \A d \in Call : Shaped(call'[d]) /\ Typed(call'[d], minted')
  <2>1. minted' \in Nat /\ minted <= minted' /\ Typed(r, minted')
    BY <1>2, <1>3, KeysTyped
  <2> QED  BY <1>3, <2>1, CallsTyped
<1>5. version' \in [Key -> 0..MaxKeys] /\ \A j \in Key : version'[j] = IF j = k THEN 0 ELSE version[j]
  <2>1. version \in [Key -> 0..MaxKeys] /\ 0 \in 0..MaxKeys
    BY DefinitionsAssumption DEF Typing, TypeOK
  <2> QED  BY <1>2, <2>1
<1>6. TypeOK'
  BY <1>2, <1>5 DEF Typing, TypeOK, InStore
<1>7. /\ \A j \in Key : version'[j] <= minted'
      /\ stored' \subseteq 1..minted' /\ gone' \subseteq 1..minted' /\ InStore' \subseteq stored'
      /\ \A j \in Key : xml'[j] <= Cardinality(stored')
  BY <1>2, <1>5, KeysTyped DEF Typing, TypeOK, InStore
<1> QED  BY <1>4, <1>6, <1>7 DEF Typing

\* And so does a restart, which gives every stored key a version (restore_definitions).
LEMMA RestartTyped == ASSUME Typing, Restart PROVE Typing'
<1>1. /\ UNCHANGED <<minted, idOf, xml, row, failures, stored>> /\ gone' \subseteq gone
      /\ registered' = InStore /\ version' = [k \in Key |-> RestoredVersion(k)] /\ live' = row
      /\ call' = [c \in Call |-> Idle] /\ restarts' \in 0..MaxRestarts
  BY DefinitionsAssumption DEF Restart, Typing, TypeOK
<1>2. \A k \in Key : /\ version'[k] \in 0..minted
                     /\ k \in InStore <=> version'[k] > 0
  BY <1>1, RestoredVersionIs, KeysTyped
<1>3. InStore' = InStore
  BY <1>1 DEF InStore
<1>4. version' \in [Key -> 0..MaxKeys]
  BY <1>1, <1>2, KeysTyped, DefinitionsAssumption
<1>5. TypeOK'
  BY <1>1, <1>2, <1>3, <1>4 DEF Typing, TypeOK
<1>6. call' = [d \in Call |-> call'[d]] /\ \A d \in Call : Shaped(call'[d]) /\ Typed(call'[d], minted')
  BY <1>1, IdleIs
<1> QED  BY <1>1, <1>2, <1>3, <1>5, <1>6, KeysTyped DEF Typing

----------------------------------------------------------------------------
\* The request that takes a step, and the others.
LEMMA OneMoves ==
  ASSUME Typing, NEW c \in Call, NEW r, call' = [call EXCEPT ![c] = r]
  PROVE  call'[c] = r /\ \A d \in Call : d # c => call'[d] = call[d]
  BY DEF Typing

\* A quiet step disturbs neither the life of a key nor the order.
LEMMA QuietLifecycle ==
  ASSUME OrderInv, NEW c \in Call, NEW r, Quiet(c, r)
  PROVE  Lifecycle' /\ Ordered'
<1>1. Typing /\ Lifecycle /\ Ordered
  BY DEF OrderInv
<1>2. UNCHANGED <<registered, version, xml, overlapped, idOf, stored, gone, kept, minted>>
  BY DEF Quiet
<1>3. call'[c] = r /\ \A d \in Call : d # c => call'[d] = call[d]
  BY <1>1, OneMoves DEF Quiet
<1>4. r.pc \notin Deploy \cup {"erase"}
  BY DEF Quiet
<1>5. ASSUME NEW d \in Call, call[d].pc = "insert", r.pc \in Delete
      PROVE  call[d].key # r.key
  <2>1. call[d].key \in 1..minted
    BY <1>1, <1>5 DEF Typing, Typed
  <2>2. r.key # NoKey => r.key \in registered \/ (call[c].pc \in Delete /\ r.key = call[c].key)
    BY <1>5 DEF Quiet
  <2> QED  BY <1>1, <1>5, <2>1, <2>2, KeysTyped DEF Lifecycle
<1>6. Lifecycle'
  <2>1. /\ \A d \in Call : call'[d].pc \in Deploy => call'[d].key \notin stored' \cup gone'
        /\ \A d \in Call : call'[d].pc \in {"insert", "erase"} => call'[d].key \notin registered'
    BY <1>1, <1>2, <1>3, <1>4 DEF Lifecycle
  <2>2. \A d, e \in Call : /\ call'[d].pc \in Deploy /\ call'[e].pc \in Deploy
                           /\ call'[d].key = call'[e].key
                           => d = e
    BY <1>1, <1>3, <1>4 DEF Lifecycle
  <2>3. \A d, e \in Call : /\ call'[d].pc = "insert" /\ call'[e].pc \in Delete
                           => call'[d].key # call'[e].key
    BY <1>1, <1>3, <1>4, <1>5 DEF Lifecycle
  <2>4. DeletedStaysDeleted'
    BY <1>1, <1>2 DEF Lifecycle, DeletedStaysDeleted, InStore
  <2> QED  BY <2>1, <2>2, <2>3, <2>4 DEF Lifecycle
<1>7. Ordered'
  BY <1>1, <1>2, <1>3, <1>4 DEF Ordered, Apart, InStore
<1> QED  BY <1>6, <1>7

\* A deploy reads a number that no earlier version exceeds, and whoever is deploying the
\* same process overlaps with it.
LEMMA DeployDefinitionLifecycle ==
  ASSUME OrderInv, NEW c \in Call, NEW i \in Id, DeployDefinition(c, i)
  PROVE  Lifecycle' /\ Ordered'
<1>1. Typing /\ Lifecycle /\ Ordered
  BY DEF OrderInv
<1>2. PICK r, k, h : /\ r = [Idle EXCEPT !.pc = "insert", !.key = k, !.highest = h]
                     /\ k = minted + 1 /\ h = HighestVersion(i)
  OBVIOUS
<1>3. r.pc = "insert" /\ r.key = k /\ r.highest = h
  BY <1>2 DEF Idle
<1>4. call' = [call EXCEPT ![c] = r]
  BY <1>2 DEF DeployDefinition, Begin
<1>5. call'[c] = r /\ \A d \in Call : d # c => call'[d] = call[d]
  BY <1>1, <1>4, OneMoves
<1>6. UNCHANGED <<registered, version, xml, stored, gone, kept>>
  BY DEF DeployDefinition
<1>7. minted' = k /\ k \in Key /\ k \notin 1..minted /\ \A j \in 1..minted : j < k
  BY <1>1, <1>2, KeysTyped, DefinitionsAssumption DEF DeployDefinition, Key
<1>8. idOf'[k] = i /\ \A j \in 1..minted : idOf'[j] = idOf[j]
  BY <1>1, <1>2, <1>7, KeysTyped DEF DeployDefinition, Typing, TypeOK
<1>9. registered \cup InStore \cup stored \cup gone \subseteq 1..minted
  BY <1>1 DEF Typing, TypeOK
<1>10. \A d \in Call : call[d].key # k
  BY <1>1, <1>2, <1>7, KeysTyped DEF Typing, Typed
<1>11. Lifecycle'
  <2>1. /\ \A d \in Call : call'[d].pc \in Deploy => call'[d].key \notin stored' \cup gone'
        /\ \A d \in Call : call'[d].pc \in {"insert", "erase"} => call'[d].key \notin registered'
    BY <1>1, <1>3, <1>5, <1>6, <1>7, <1>9 DEF Lifecycle
  <2>2. \A d, e \in Call : /\ call'[d].pc \in Deploy /\ call'[e].pc \in Deploy
                           /\ call'[d].key = call'[e].key
                           => d = e
    BY <1>1, <1>3, <1>5, <1>10 DEF Lifecycle
  <2>3. \A d, e \in Call : /\ call'[d].pc = "insert" /\ call'[e].pc \in Delete
                           => call'[d].key # call'[e].key
    BY <1>1, <1>3, <1>5, <1>10 DEF Lifecycle
  <2>4. DeletedStaysDeleted'
    BY <1>1, <1>6 DEF Lifecycle, DeletedStaysDeleted, InStore
  <2> QED  BY <2>1, <2>2, <2>3, <2>4 DEF Lifecycle
<1>12. overlapped \subseteq overlapped'
  BY DEF DeployDefinition
<1>13. \A j, m \in 1..minted : Apart(idOf', overlapped', j, m) => Apart(idOf, overlapped, j, m)
  BY <1>8, <1>12 DEF Apart
<1>14. \A d \in Call : d # c /\ call[d].pc \in Deploy => ~Apart(idOf', overlapped', call[d].key, k)
  <2> SUFFICES ASSUME NEW d \in Call, d # c, call[d].pc \in Deploy, idOf[call[d].key] = i
               PROVE  {call[d].key, k} \in overlapped'
    <3>1. \A d \in Call : d # c /\ call[d].pc \in Deploy => call[d].key \in 1..minted
      BY <1>1 DEF Typing, Typed
    <3> QED  BY <1>8, <3>1 DEF Apart
  <2>1. call[d].key \in 1..minted
    BY <1>1 DEF Typing, Typed
  <2>2. call[d].key \in {j \in Key : Deploying(j) /\ idOf[j] = i}
    BY <1>1, <2>1, KeysTyped DEF Deploying
  <2> QED  BY <1>2, <2>2 DEF DeployDefinition
<1>15. Ordered'
  <2>1. \A j, m \in registered' : Apart(idOf', overlapped', j, m) => version'[j] < version'[m]
    BY <1>1, <1>6, <1>9, <1>13 DEF Ordered
  <2>2. InStore' = InStore /\ \A j, m \in InStore' : Apart(idOf', overlapped', j, m) => xml'[j] < xml'[m]
    BY <1>1, <1>6, <1>9, <1>13 DEF Ordered, InStore
  <2>3. \A j \in registered : Apart(idOf', overlapped', j, k) => version[j] <= h
    BY <1>1, <1>2, <1>8, <1>9, HighestVersionIs DEF Apart
  <2>4. \A d \in Call : call'[d].pc = "insert" =>
          \A j \in registered' :
             Apart(idOf', overlapped', j, call'[d].key) => version'[j] <= call'[d].highest
    <3> SUFFICES ASSUME NEW d \in Call, call'[d].pc = "insert",
                        NEW j \in registered', Apart(idOf', overlapped', j, call'[d].key)
                 PROVE  version'[j] <= call'[d].highest
      OBVIOUS
    <3>1. CASE d = c
      BY <1>3, <1>5, <1>6, <2>3, <3>1
    <3>2. CASE d # c
      <4>1. call'[d] = call[d] /\ call[d].key \in 1..minted /\ j \in 1..minted
        BY <1>1, <1>5, <1>6, <1>9, <3>2 DEF Typing, Typed
      <4>2. Apart(idOf, overlapped, j, call[d].key)
        BY <1>13, <4>1
      <4> QED  BY <1>1, <1>6, <4>1, <4>2 DEF Ordered
    <3> QED  BY <3>1, <3>2
  <2>5. \A d \in Call : call'[d].pc \in Deploy =>
          \A m \in 1..minted' : ~Apart(idOf', overlapped', call'[d].key, m)
    <3> SUFFICES ASSUME NEW d \in Call, call'[d].pc \in Deploy, NEW m \in 1..minted'
                 PROVE  ~Apart(idOf', overlapped', call'[d].key, m)
      OBVIOUS
    <3>1. CASE d = c
      <4>1. k \in Nat /\ m \in Nat /\ ~(k < m)
        BY <1>1, <1>7, KeysTyped
      <4> QED  BY <1>3, <1>5, <3>1, <4>1 DEF Apart
    <3>2. CASE d # c /\ m = k
      BY <1>5, <1>14, <3>2
    <3>3. CASE d # c /\ m # k
      <4>1. call'[d] = call[d] /\ call[d].key \in 1..minted /\ m \in 1..minted
        BY <1>1, <1>2, <1>5, <1>7, <3>3, KeysTyped DEF Typing, Typed
      <4>2. ~Apart(idOf, overlapped, call[d].key, m)
        BY <1>1, <4>1 DEF Ordered
      <4> QED  BY <1>13, <4>1, <4>2
    <3> QED  BY <3>1, <3>2, <3>3
  <2> QED  BY <2>1, <2>2, <2>4, <2>5 DEF Ordered
<1> QED  BY <1>11, <1>15

\* The inserted version is greater than the earlier ones: all others overlapped.
LEMMA InsertDefinitionLifecycle ==
  ASSUME OrderInv, NEW c \in Call, InsertDefinition(c)
  PROVE  Lifecycle' /\ Ordered'
<1>1. Typing /\ Lifecycle /\ Ordered
  BY DEF OrderInv
<1>2. PICK k, v : k = call[c].key /\ v = NormalizeVersion(call[c].highest)
  OBVIOUS
<1>3. call[c].pc = "insert" /\ k \in 1..minted /\ call[c].highest \in Nat /\ v = call[c].highest + 1
  BY <1>1, <1>2 DEF InsertDefinition, At, Typing, Typed, NormalizeVersion
<1>4. PICK r : call' = [call EXCEPT ![c] = r] /\ r.pc = "saveXml" /\ r.key = k
  BY <1>1, <1>2, GotoIs DEF InsertDefinition
<1>5. call'[c] = r /\ \A d \in Call : d # c => call'[d] = call[d]
  BY <1>1, <1>4, OneMoves
<1>6. /\ UNCHANGED <<minted, idOf, xml, overlapped, stored, gone, kept>> /\ InStore' = InStore
      /\ registered' = registered \cup {k}
  BY <1>2 DEF InsertDefinition, InStore
<1>7. version'[k] = v /\ \A j \in registered : version'[j] = version[j]
  <2>1. version' = [version EXCEPT ![k] = v] /\ k \in Key /\ registered \subseteq Key /\ k \notin registered
    BY <1>1, <1>2, <1>3, KeysTyped, TypesOf DEF InsertDefinition, Lifecycle
  <2> QED  BY <1>1, <2>1 DEF Typing, TypeOK
<1>8. \A d \in Call : d # c /\ call[d].pc \in Deploy => call[d].key # k
  BY <1>1, <1>2, <1>3 DEF Lifecycle
<1>9. k \notin stored \cup gone /\ k \notin InStore
  BY <1>1, <1>2, <1>3 DEF Lifecycle, Typing
<1>10. Lifecycle'
  <2>1. \A d \in Call : call'[d].pc \in Deploy => call'[d].key \notin stored' \cup gone'
    BY <1>1, <1>4, <1>5, <1>6, <1>9 DEF Lifecycle
  <2>2. \A d \in Call : call'[d].pc \in {"insert", "erase"} => call'[d].key \notin registered'
    <3> SUFFICES ASSUME NEW d \in Call, call'[d].pc \in {"insert", "erase"}
                 PROVE  call'[d].key \notin registered \cup {k}
      BY <1>6
    <3>1. d # c /\ call'[d] = call[d]
      BY <1>4, <1>5
    <3>2. call[d].key # k
      BY <1>1, <1>2, <1>3, <1>8, <3>1 DEF Lifecycle
    <3> QED  BY <1>1, <3>1, <3>2 DEF Lifecycle
  <2>3. \A d, e \in Call : /\ call'[d].pc \in Deploy /\ call'[e].pc \in Deploy
                           /\ call'[d].key = call'[e].key
                           => d = e
    BY <1>1, <1>4, <1>5, <1>8 DEF Lifecycle
  <2>4. \A d, e \in Call : /\ call'[d].pc = "insert" /\ call'[e].pc \in Delete
                           => call'[d].key # call'[e].key
    BY <1>1, <1>4, <1>5 DEF Lifecycle
  <2>5. DeletedStaysDeleted'
    BY <1>1, <1>6, <1>9 DEF Lifecycle, DeletedStaysDeleted
  <2> QED  BY <2>1, <2>2, <2>3, <2>4, <2>5 DEF Lifecycle
<1>11. Ordered'
  <2>1. \A j \in registered : ~Apart(idOf, overlapped, k, j)
    BY <1>1, <1>2, <1>3, TypesOf DEF Ordered
  <2>2. \A j \in registered : Apart(idOf, overlapped, j, k) => version[j] <= call[c].highest /\ version[j] \in Nat
    <3>1. \A j \in registered : version[j] \in Nat
      BY <1>1, TypesOf, KeysTyped, DefinitionsAssumption DEF Typing, TypeOK
    <3> QED  BY <1>1, <1>2, <1>3, <3>1 DEF Ordered
  <2>3. ~Apart(idOf, overlapped, k, k)
    BY <1>1, <1>3, KeysTyped DEF Apart
  <2>4. \A j, m \in registered' : Apart(idOf', overlapped', j, m) => version'[j] < version'[m]
    <3> SUFFICES ASSUME NEW j \in registered \cup {k}, NEW m \in registered \cup {k},
                        Apart(idOf, overlapped, j, m)
                 PROVE  version'[j] < version'[m]
      BY <1>6
    <3>1. CASE j = k
      BY <2>1, <2>3, <3>1
    <3>2. CASE j \in registered /\ m = k
      <4>1. version[j] <= call[c].highest /\ version[j] \in Nat
        BY <2>2, <3>2
      <4>2. version'[j] = version[j] /\ version'[k] = call[c].highest + 1
        BY <1>3, <1>7, <3>2
      <4> QED  BY <1>3, <3>2, <4>1, <4>2
    <3>3. CASE j \in registered /\ m \in registered
      BY <1>1, <1>7, <3>3 DEF Ordered
    <3> QED  BY <3>1, <3>2, <3>3
  <2>5. \A j, m \in InStore' : Apart(idOf', overlapped', j, m) => xml'[j] < xml'[m]
    BY <1>1, <1>6 DEF Ordered
  <2>6. \A d \in Call : call'[d].pc = "insert" =>
          \A j \in registered' :
             Apart(idOf', overlapped', j, call'[d].key) => version'[j] <= call'[d].highest
    <3> SUFFICES ASSUME NEW d \in Call, call'[d].pc = "insert", NEW j \in registered \cup {k},
                        Apart(idOf, overlapped, j, call'[d].key)
                 PROVE  version'[j] <= call'[d].highest
      BY <1>6
    <3>1. d # c /\ call'[d] = call[d] /\ call[d].key \in 1..minted
      BY <1>1, <1>4, <1>5 DEF Typing, Typed
    <3>2. j # k
      BY <1>1, <1>2, <1>3, <3>1 DEF Ordered
    <3> QED  BY <1>1, <1>7, <3>1, <3>2 DEF Ordered
  <2>7. \A d \in Call : call'[d].pc \in Deploy =>
          \A m \in 1..minted' : ~Apart(idOf', overlapped', call'[d].key, m)
    BY <1>1, <1>2, <1>3, <1>4, <1>5, <1>6 DEF Ordered
  <2> QED  BY <2>4, <2>5, <2>6, <2>7 DEF Ordered
<1> QED  BY <1>10, <1>11

\* Of the keys in the store, the one that is put now is the last that was minted, or its
\* deploy overlapped.
LEMMA SaveXmlLifecycle ==
  ASSUME OrderInv, NEW c \in Call, SaveXml(c)
  PROVE  Lifecycle' /\ Ordered'
<1>1. Typing /\ Lifecycle /\ Ordered
  BY DEF OrderInv
<1>2. CASE Quiet(c, Idle)
  BY <1>2, QuietLifecycle
<1>3. CASE xml' = PutXml(call[c].key) /\ stored' = stored \cup {call[c].key}
  <2>1. PICK k, n : k = call[c].key /\ n = Max({xml[j] : j \in Key}) + 1
    OBVIOUS
  <2>2. /\ call[c].pc = "saveXml" /\ call' = [call EXCEPT ![c] = Idle]
        /\ UNCHANGED <<minted, idOf, registered, version, overlapped, gone, kept>>
    BY <1>1, SaveXmlDoes
  <2>3. k \in 1..minted /\ k \notin stored \cup gone
    BY <1>1, <2>1, <2>2 DEF Typing, Typed, Lifecycle
  <2>4. n \in Nat /\ n # 0 /\ \A j \in Key : xml[j] < n
    BY <1>1, <2>1, <2>3, PutIsLast
  <2>5. xml'[k] = n /\ \A j \in Key : j # k => xml'[j] = xml[j]
    BY <1>1, <1>3, <2>1, <2>3, KeysTyped DEF PutXml, Typing, TypeOK
  <2>6. InStore' = InStore \cup {k} /\ stored' = stored \cup {k}
    BY <1>1, <1>3, <2>1, <2>3, <2>4, <2>5, KeysTyped DEF InStore
  <2>7. call'[c] = Idle /\ \A d \in Call : d # c => call'[d] = call[d]
    BY <1>1, <2>2, OneMoves
  <2>8. \A d \in Call : d # c /\ call[d].pc \in Deploy => call[d].key # k
    BY <1>1, <2>1, <2>2 DEF Lifecycle
  <2>9. Lifecycle'
    <3>1. \A d \in Call : call'[d].pc \in Deploy => call'[d].key \notin stored' \cup gone'
      BY <1>1, <2>2, <2>6, <2>7, <2>8, IdleIs DEF Lifecycle
    <3>2. \A d \in Call : call'[d].pc \in {"insert", "erase"} => call'[d].key \notin registered'
      BY <1>1, <2>2, <2>7, IdleIs DEF Lifecycle
    <3>3. \A d, e \in Call : /\ call'[d].pc \in Deploy /\ call'[e].pc \in Deploy
                             /\ call'[d].key = call'[e].key
                             => d = e
      BY <1>1, <2>7, IdleIs DEF Lifecycle
    <3>4. \A d, e \in Call : /\ call'[d].pc = "insert" /\ call'[e].pc \in Delete
                             => call'[d].key # call'[e].key
      BY <1>1, <2>7, IdleIs DEF Lifecycle
    <3>5. DeletedStaysDeleted'
      BY <1>1, <2>2, <2>3, <2>6 DEF Lifecycle, DeletedStaysDeleted
    <3> QED  BY <3>1, <3>2, <3>3, <3>4, <3>5 DEF Lifecycle
  <2>10. Ordered'
    <3>1. InStore \subseteq 1..minted /\ k \notin InStore /\ InStore \subseteq Key
      BY <1>1, <2>3, KeysTyped DEF Typing
    <3>2. \A j, m \in registered' : Apart(idOf', overlapped', j, m) => version'[j] < version'[m]
      BY <1>1, <2>2 DEF Ordered
    <3>3. \A j, m \in InStore' : Apart(idOf', overlapped', j, m) => xml'[j] < xml'[m]
      <4> SUFFICES ASSUME NEW j \in InStore \cup {k}, NEW m \in InStore \cup {k},
                          Apart(idOf, overlapped, j, m)
                   PROVE  xml'[j] < xml'[m]
        BY <2>2, <2>6
      <4>1. j # k
        BY <1>1, <2>1, <2>2, <2>3, <3>1 DEF Ordered
      <4>2. CASE m = k
        BY <2>4, <2>5, <3>1, <4>1, <4>2
      <4>3. CASE m # k
        BY <1>1, <2>5, <3>1, <4>1, <4>3 DEF Ordered
      <4> QED  BY <4>2, <4>3
    <3>4. \A d \in Call : call'[d].pc = "insert" =>
            \A j \in registered' :
               Apart(idOf', overlapped', j, call'[d].key) => version'[j] <= call'[d].highest
      BY <1>1, <2>2, <2>7, IdleIs DEF Ordered
    <3>5. \A d \in Call : call'[d].pc \in Deploy =>
            \A m \in 1..minted' : ~Apart(idOf', overlapped', call'[d].key, m)
      BY <1>1, <2>2, <2>7, IdleIs DEF Ordered
    <3> QED  BY <3>2, <3>3, <3>4, <3>5 DEF Ordered
  <2> QED  BY <2>9, <2>10
<1> QED  BY <1>1, <1>2, <1>3, SaveXmlDoes

\* A definition that is removed and erased leaves the order of the others alone, and no
\* deploy can bring it back.
LEMMA RemoveDefinitionLifecycle ==
  ASSUME OrderInv, NEW c \in Call, RemoveDefinition(c)
  PROVE  Lifecycle' /\ Ordered'
<1>1. Typing /\ Lifecycle /\ Ordered
  BY DEF OrderInv
<1>2. PICK k : k = call[c].key
  OBVIOUS
<1>3. /\ call[c].pc = "cascade" /\ k \in 1..minted
      /\ registered' = registered \ {k} /\ version' = [version EXCEPT ![k] = 0]
      /\ UNCHANGED <<minted, idOf, xml, stored, gone, kept, overlapped>>
  BY <1>1, <1>2, RemoveDefinitionDoes
<1>4. PICK r : call' = [call EXCEPT ![c] = r] /\ r.pc = "erase" /\ r.key = k
  BY <1>1, <1>2, RemoveDefinitionDoes
<1>5. call'[c] = r /\ \A d \in Call : d # c => call'[d] = call[d]
  BY <1>1, <1>4, OneMoves
<1>6. \A j \in registered' : j \in registered /\ version'[j] = version[j]
  BY <1>1, <1>3, TypesOf, KeysTyped DEF Typing, TypeOK
<1>7. InStore' = InStore
  BY <1>3 DEF InStore
<1>8. Lifecycle'
  <2>1. \A d \in Call : call'[d].pc \in Deploy => call'[d].key \notin stored' \cup gone'
    BY <1>1, <1>3, <1>4, <1>5 DEF Lifecycle
  <2>2. \A d \in Call : call'[d].pc \in {"insert", "erase"} => call'[d].key \notin registered'
    BY <1>1, <1>3, <1>4, <1>5 DEF Lifecycle
  <2>3. \A d, e \in Call : /\ call'[d].pc \in Deploy /\ call'[e].pc \in Deploy
                           /\ call'[d].key = call'[e].key
                           => d = e
    BY <1>1, <1>4, <1>5 DEF Lifecycle
  <2>4. \A d, e \in Call : /\ call'[d].pc = "insert" /\ call'[e].pc \in Delete
                           => call'[d].key # call'[e].key
    BY <1>1, <1>2, <1>3, <1>4, <1>5 DEF Lifecycle
  <2>5. DeletedStaysDeleted'
    BY <1>1, <1>3, <1>7 DEF Lifecycle, DeletedStaysDeleted
  <2> QED  BY <2>1, <2>2, <2>3, <2>4, <2>5 DEF Lifecycle
<1>9. Ordered'
  BY <1>1, <1>3, <1>4, <1>5, <1>6, <1>7 DEF Ordered
<1> QED  BY <1>8, <1>9

LEMMA EraseDefinitionLifecycle ==
  ASSUME OrderInv, NEW c \in Call, EraseDefinition(c)
  PROVE  Lifecycle' /\ Ordered'
<1>1. Typing /\ Lifecycle /\ Ordered
  BY DEF OrderInv
<1>2. PICK k : k = call[c].key
  OBVIOUS
<1>3. /\ call[c].pc = "erase" /\ k \in 1..minted /\ k \notin registered
      /\ UNCHANGED <<minted, idOf, registered, version, overlapped, stored>>
  BY <1>1, <1>2, EraseDefinitionDoes DEF Typing, Typed, Lifecycle
<1>4. PICK r : /\ call' = [call EXCEPT ![c] = r] /\ r.pc \in {"look", "idle"}
               /\ \/ Quiet(c, r)
                  \/ Erased(k)
  BY <1>1, <1>2, EraseDefinitionDoes
<1>5. call'[c] = r /\ \A d \in Call : d # c => call'[d] = call[d]
  BY <1>1, <1>4, OneMoves
<1>6. CASE Quiet(c, r)
  BY <1>6, QuietLifecycle
<1>7. CASE Erased(k)
  <2>1. /\ InStore' \subseteq InStore /\ \A j \in InStore' : xml'[j] = xml[j]
        /\ k \in InStore' => k \in kept'
        /\ kept \subseteq kept' \cup {k}
    BY <1>1, <1>3, <1>7, KeysTyped DEF InStore, Typing, TypeOK, Erased
  <2>2. \A d \in Call : call[d].pc \in Deploy => call[d].key \notin gone'
    BY <1>1, <1>7 DEF Lifecycle, Deploying, Erased
  <2>3. gone' \subseteq gone \cup {k}
    BY <1>7 DEF Erased
  <2>4. Lifecycle'
    <3>1. \A d \in Call : call'[d].pc \in Deploy => call'[d].key \notin stored' \cup gone'
      BY <1>1, <1>3, <1>4, <1>5, <2>2 DEF Lifecycle
    <3>2. \A d \in Call : call'[d].pc \in {"insert", "erase"} => call'[d].key \notin registered'
      BY <1>1, <1>3, <1>4, <1>5 DEF Lifecycle
    <3>3. \A d, e \in Call : /\ call'[d].pc \in Deploy /\ call'[e].pc \in Deploy
                             /\ call'[d].key = call'[e].key
                             => d = e
      BY <1>1, <1>4, <1>5 DEF Lifecycle
    <3>4. \A d, e \in Call : /\ call'[d].pc = "insert" /\ call'[e].pc \in Delete
                             => call'[d].key # call'[e].key
      BY <1>1, <1>4, <1>5 DEF Lifecycle
    <3>5. DeletedStaysDeleted'
      BY <1>1, <1>3, <2>1, <2>3 DEF Lifecycle, DeletedStaysDeleted
    <3> QED  BY <3>1, <3>2, <3>3, <3>4, <3>5 DEF Lifecycle
  <2>5. Ordered'
    <3>1. \A j, m \in InStore' : Apart(idOf', overlapped', j, m) => xml'[j] < xml'[m]
      BY <1>1, <1>3, <2>1 DEF Ordered
    <3>2. \A j, m \in registered' : Apart(idOf', overlapped', j, m) => version'[j] < version'[m]
      BY <1>1, <1>3 DEF Ordered
    <3>3. \A d \in Call : call'[d].pc = "insert" =>
            \A j \in registered' :
               Apart(idOf', overlapped', j, call'[d].key) => version'[j] <= call'[d].highest
      BY <1>1, <1>3, <1>4, <1>5 DEF Ordered
    <3>4. \A d \in Call : call'[d].pc \in Deploy =>
            \A m \in 1..minted' : ~Apart(idOf', overlapped', call'[d].key, m)
      BY <1>1, <1>3, <1>4, <1>5 DEF Ordered
    <3> QED  BY <3>1, <3>2, <3>3, <3>4 DEF Ordered
  <2> QED  BY <2>4, <2>5
<1> QED  BY <1>4, <1>6, <1>7

\* A restart numbers in the order of the puts, which is that of the versions.
LEMMA RestartLifecycle ==
  ASSUME OrderInv, Restart
  PROVE  Lifecycle' /\ Ordered'
<1>1. Typing /\ Lifecycle /\ Ordered
  BY DEF OrderInv
<1>2. /\ UNCHANGED <<minted, idOf, xml, overlapped, stored, kept>> /\ gone' = gone \ InStore /\ InStore' = InStore
      /\ registered' = InStore /\ version' = [k \in Key |-> RestoredVersion(k)]
      /\ \A c \in Call : call'[c] = Idle
  BY DEF Restart, InStore
<1>3. \A c \in Call : call'[c].pc = "idle"
  BY <1>2, IdleIs
<1>4. Lifecycle'
  <2>1. DeletedStaysDeleted'
    BY <1>1, <1>2 DEF Lifecycle, DeletedStaysDeleted
  <2> QED  BY <1>3, <2>1 DEF Lifecycle
<1>5. InStore \subseteq Key
  BY DEF InStore
<1>6. \A j, k \in InStore : Apart(idOf, overlapped, j, k) => version'[j] < version'[k]
  BY <1>1, <1>2, <1>5, RestoredVersionIs DEF Ordered, Apart
<1>7. Ordered'
  BY <1>1, <1>2, <1>3, <1>6 DEF Ordered
<1> QED  BY <1>4, <1>7

\* The invariant of the registry is inductive.
LEMMA InitOrder == Init => OrderInv
<1> SUFFICES ASSUME Init PROVE OrderInv
  OBVIOUS
<1> USE DefinitionsAssumption
<1>1. \A c \in Call : call[c] = Idle
  BY DEF Init
<1>2. InStore = {} /\ registered = {} /\ stored = {} /\ gone = {} /\ 0 \in 0..MaxKeys
  BY DEF Init, InStore
<1>3. TypeOK
  BY <1>2 DEF Init, TypeOK
<1>4. Cardinality(stored) = 0
  BY <1>2, FS_EmptySet
<1>5. Typing
  BY <1>1, <1>2, <1>3, <1>4, IdleIs DEF Init, Typing
<1>6. \A c \in Call : call[c].pc = "idle"
  BY <1>1, IdleIs
<1>7. Lifecycle
  BY <1>2, <1>6 DEF Lifecycle, DeletedStaysDeleted
<1>8. Ordered
  BY <1>2, <1>6 DEF Ordered
<1> QED  BY <1>5, <1>7, <1>8 DEF OrderInv

\* A step that leaves the registry and the object store alone.
QuietStep(c) == \E r : Quiet(c, r)

LEMMA QuietSteps ==
  ASSUME Typing, NEW c \in Call,
         \/ \E k \in 1..minted : \/ StartInstance(c, k)
                                 \/ \E cascade \in BOOLEAN : DeleteDefinition(c, k, cascade)
         \/ \E i \in Id : \/ StartInstanceLatest(c, i)
                          \/ \E cascade \in BOOLEAN : DeleteAllDefinitions(c, i, cascade)
         \/ \E i \in Inst : InsertInstance(c, i) \/ DeleteInstance(c, i) \/ CascadeInstance(c, i)
         \/ ValidateStart(c) \/ PersistInstance(c) \/ DeleteNextDefinition(c) \/ EraseRow(c)
  PROVE  QuietStep(c)
<1>1. ASSUME NEW k \in 1..minted, NEW cascade \in BOOLEAN, DeleteDefinition(c, k, cascade)
      PROVE  QuietStep(c)
  <2>1. LookForInstances(c, k, <<>>, cascade)
        /\ UNCHANGED <<defVars, xml, instVars, failures, restarts, history>>
    BY <1>1 DEF DeleteDefinition
  <2> QED  BY <2>1, LookForInstancesDoes DEF QuietStep
<1>2. ASSUME DeleteNextDefinition(c) PROVE QuietStep(c)
  <2>1. PICK k, rest, cascade : /\ LookForInstances(c, k, rest, cascade)
                                /\ UNCHANGED <<defVars, xml, instVars, failures, restarts, history>>
    BY <1>2 DEF DeleteNextDefinition
  <2> QED  BY <2>1, LookForInstancesDoes DEF QuietStep
<1>3. \A k \in 1..minted : StartInstance(c, k) => QuietStep(c)
  BY StartInstanceDoes DEF QuietStep
<1>4. \A i \in Id : StartInstanceLatest(c, i) => QuietStep(c)
  BY StartInstanceLatestDoes DEF QuietStep
<1>5. \A i \in Id, cascade \in BOOLEAN : DeleteAllDefinitions(c, i, cascade) => QuietStep(c)
  BY DeleteAllDefinitionsDoes DEF QuietStep
<1>6. \A i \in Inst : InsertInstance(c, i) => QuietStep(c)
  BY InsertInstanceDoes DEF QuietStep
<1>7. \A i \in Inst : DeleteInstance(c, i) => QuietStep(c)
  BY DeleteInstanceDoes DEF QuietStep
<1>8. \A i \in Inst : CascadeInstance(c, i) => QuietStep(c)
  BY CascadeInstanceDoes DEF QuietStep
<1>9. ValidateStart(c) => QuietStep(c)
  BY ValidateStartDoes DEF QuietStep
<1>10. PersistInstance(c) => QuietStep(c)
  BY PersistInstanceDoes DEF QuietStep
<1>11. EraseRow(c) => QuietStep(c)
  BY EraseRowDoes DEF QuietStep
<1> QED  BY <1>1, <1>2, <1>3, <1>4, <1>5, <1>6, <1>7, <1>8, <1>9, <1>10, <1>11

LEMMA OrderInvSteps == OrderInv /\ [Next]_vars => OrderInv'
<1> SUFFICES ASSUME OrderInv, [Next]_vars PROVE OrderInv'
  OBVIOUS
<1>1. Typing /\ Lifecycle
  BY DEF OrderInv
<1>2. ASSUME NEW c \in Call, QuietStep(c) PROVE OrderInv'
  <2>1. PICK r : Quiet(c, r)
    BY <1>2 DEF QuietStep
  <2> QED  BY <1>1, <2>1, QuietTyped, QuietLifecycle DEF OrderInv
<1>3. ASSUME NEW c \in Call, NEW i \in Id, DeployDefinition(c, i) PROVE OrderInv'
  BY <1>1, <1>3, DeployDefinitionTyped, DeployDefinitionLifecycle DEF OrderInv
<1>4. ASSUME NEW c \in Call, InsertDefinition(c) PROVE OrderInv'
  BY <1>1, <1>4, InsertDefinitionTyped, InsertDefinitionLifecycle DEF OrderInv
<1>5. ASSUME NEW c \in Call, SaveXml(c) PROVE OrderInv'
  BY <1>1, <1>5, SaveXmlTyped, SaveXmlLifecycle DEF OrderInv
<1>6. ASSUME NEW c \in Call, RemoveDefinition(c) PROVE OrderInv'
  BY <1>1, <1>6, RemoveDefinitionTyped, RemoveDefinitionLifecycle DEF OrderInv
<1>7. ASSUME NEW c \in Call, EraseDefinition(c) PROVE OrderInv'
  BY <1>1, <1>7, EraseDefinitionTyped, EraseDefinitionLifecycle DEF OrderInv
<1>8. ASSUME Restart PROVE OrderInv'
  BY <1>1, <1>8, RestartTyped, RestartLifecycle DEF OrderInv
<1>9. CASE UNCHANGED vars
  <2>1. Typing'
    BY <1>1, <1>9 DEF vars, Typing, TypeOK, InStore
  <2>2. Lifecycle'
    BY <1>1, <1>9 DEF vars, Lifecycle, DeletedStaysDeleted, InStore
  <2>3. Ordered'
    BY <1>9 DEF OrderInv, Ordered, vars, InStore
  <2> QED  BY <2>1, <2>2, <2>3 DEF OrderInv
<1>10. CASE Next
  <2>1. CASE Restart
    BY <1>8, <2>1
  <2>2. ASSUME ~Restart PROVE OrderInv'
    <3>1. PICK c \in Call :
            \/ QuietStep(c)
            \/ \E i \in Id : DeployDefinition(c, i)
            \/ InsertDefinition(c) \/ SaveXml(c) \/ RemoveDefinition(c) \/ EraseDefinition(c)
      BY <1>1, <1>10, <2>2, QuietSteps DEF Next
    <3> QED  BY <1>2, <1>3, <1>4, <1>5, <1>6, <1>7, <3>1
  <2> QED  BY <2>1, <2>2
<1> QED  BY <1>9, <1>10

\* The registry's invariant holds whatever deploys, deletes and restarts do.
THEOREM OrderInvAlways == Spec => []OrderInv
  BY InitOrder, OrderInvSteps, PTL DEF Spec

----------------------------------------------------------------------------
\* Two versions of one process are told apart unless they were deployed at once
\* (DefinitionRegistry::highest_version, deploy_definition).
THEOREM VersionsToldApart == Spec => []Consistent
<1>1. OrderInv => Consistent
  <2> SUFFICES ASSUME OrderInv, NEW j \in registered, NEW k \in registered,
                      j # k, idOf[j] = idOf[k], version[j] = version[k]
               PROVE  {j, k} \in overlapped
    BY DEF OrderInv, Typing, Consistent, VersionsDistinct
  <2>1. Typing /\ Ordered
    BY DEF OrderInv
  <2>2. j \in Nat /\ k \in Nat /\ version[j] \in Nat /\ version[k] \in Nat
    BY <2>1, TypesOf, KeysTyped, DefinitionsAssumption DEF Typing, TypeOK
  <2>3. ~Apart(idOf, overlapped, j, k) /\ ~Apart(idOf, overlapped, k, j)
    BY <2>1, <2>2 DEF Ordered
  <2>4. {j, k} = {k, j}
    OBVIOUS
  <2> QED  BY <2>2, <2>3, <2>4 DEF Apart
<1> QED  BY <1>1, OrderInvAlways, PTL

\* A definition whose delete was answered stays deleted, over any number of restarts
\* (delete_definition, restore_definitions).
THEOREM DeletedStays == Spec => []DeletedStaysDeleted
<1>1. OrderInv => DeletedStaysDeleted
  BY DEF OrderInv, Lifecycle
<1> QED  BY <1>1, OrderInvAlways, PTL

\* Only a restart counts up restarts, and it keeps the order of the versions.
LEMMA OrderKept ==
  ASSUME OrderInv, [Next]_vars, restarts' # restarts,
         NEW j \in registered \cap registered', NEW k \in registered \cap registered',
         idOf[j] = idOf[k], version[j] < version[k], {j, k} \notin overlapped
  PROVE  version'[j] < version'[k]
<1>1. Typing /\ Ordered
  BY DEF OrderInv
<1>2. Restart
  <2>1. ~UNCHANGED vars
    BY DEF vars
  <2>2. \A c \in Call : QuietStep(c) => restarts' = restarts
    BY DEF QuietStep, Quiet
  <2>3. \A c \in Call : /\ \A i \in Id : DeployDefinition(c, i) => restarts' = restarts
                        /\ InsertDefinition(c) \/ SaveXml(c) \/ RemoveDefinition(c) \/ EraseDefinition(c)
                              => restarts' = restarts
    BY DEF DeployDefinition, InsertDefinition, SaveXml, RemoveDefinition, EraseDefinition
  <2> QED  BY <1>1, <2>1, <2>2, <2>3, QuietSteps DEF Next
<1>3. registered' = InStore /\ version' = [m \in Key |-> RestoredVersion(m)]
  BY <1>2 DEF Restart
<1>4. j \in Key /\ k \in Key /\ version[j] \in Nat /\ version[k] \in Nat
  BY <1>1, TypesOf, KeysTyped, DefinitionsAssumption DEF Typing, TypeOK
<1>5. {j, k} = {k, j}
  OBVIOUS
<1>6. j < k
  <2>1. j # k /\ ~Apart(idOf, overlapped, k, j)
    BY <1>1, <1>4 DEF Ordered
  <2> QED  BY <1>4, <1>5, <2>1, KeysTyped, <1>1 DEF Apart
<1>7. xml[j] < xml[k]
  BY <1>1, <1>3, <1>6 DEF Ordered, Apart
<1> QED  BY <1>1, <1>3, <1>4, <1>7, RestoredVersionIs

\* A restart keeps the order of the versions of a process, and with it the one that
\* start_instance_latest takes (restore_definitions).
THEOREM RestartKeepsTheOrder == Spec => RestartKeepsOrder
<1>1. OrderInv /\ [Next]_vars =>
        [restarts' # restarts =>
           \A j, k \in registered \cap registered' :
              idOf[j] = idOf[k] /\ version[j] < version[k] /\ {j, k} \notin overlapped
                  => version'[j] < version'[k]]_vars
  BY OrderKept
<1> QED  BY <1>1, OrderInvAlways, PTL DEF Spec, RestartKeepsOrder

----------------------------------------------------------------------------
\* Steps that touch neither the registry nor an instance: a request goes on with what it
\* has, or a delete looks and remembers every instance of its definition.
LEMMA IdleSteps ==
  ASSUME NeedInv, NEW c \in Call, NEW r, call' = [call EXCEPT ![c] = r],
         r.pc \notin {"row", "saveXml"},
         r.pc = "cascade" => \A i \in Inst : live[i] = r.key => i \in r.todo,
         UNCHANGED <<registered, xml, live, row, stored, late, revived>>
  PROVE  Needed'
<1>1. Typing /\ Needed
  BY DEF NeedInv, OrderInv
<1>2. call'[c] = r /\ \A d \in Call : d # c => call'[d] = call[d]
  BY <1>1, OneMoves
<1>3. InStore' = InStore
  BY DEF InStore
<1>4. InstancesKeepDefinition'
  BY <1>1 DEF Needed, InstancesKeepDefinition
<1>5. \A d \in Call : call'[d].pc \in {"cascade", "row"} =>
        \A i \in Inst : live'[i] # NoKey /\ live'[i] = call'[d].key
                           => i \in call'[d].todo \/ Known(i)'
  BY <1>1, <1>2 DEF Needed, Known
<1>6. \A d \in Call : call'[d].pc = "saveXml" =>
        \A i \in Inst : live'[i] = call'[d].key /\ live'[i] \notin registered' => Known(i)'
  BY <1>1, <1>2 DEF Needed, Known
<1>7. \A d \in Call : call'[d].pc = "row" => \A i \in call'[d].inst : live'[i] = NoKey
  BY <1>1, <1>2 DEF Needed
<1> QED  BY <1>1, <1>3, <1>4, <1>5, <1>6, <1>7 DEF Needed

\* A new instance has no row yet and came in behind the back of every delete that has
\* looked already.
LEMMA InsertInstanceNeeded ==
  ASSUME NeedInv, NEW c \in Call, NEW i \in Inst, InsertInstance(c, i)
  PROVE  Needed'
<1>1. Typing /\ Needed
  BY DEF NeedInv, OrderInv
<1>2. PICK k : k = call[c].key
  OBVIOUS
<1>3. PICK r : call' = [call EXCEPT ![c] = r] /\ r.pc = "persist"
  BY <1>1, InsertInstanceDoes DEF Quiet
<1>4. call'[c] = r /\ \A d \in Call : d # c => call'[d] = call[d]
  BY <1>1, <1>3, OneMoves
<1>5. /\ live[i] = NoKey /\ row[i] = NoKey /\ k \in 1..minted /\ k # NoKey
      /\ \A d \in Call : i \notin call[d].inst
  BY <1>1, <1>2, KeysTyped DEF InsertInstance, Fresh, At, Typing, Typed
<1>6. live'[i] = k /\ \A j \in Inst : j # i => live'[j] = live[j]
  BY <1>1, <1>2, TypesOf DEF InsertInstance
<1>7. UNCHANGED <<registered, xml, row, stored>> /\ InStore' = InStore
  BY DEF InsertInstance, InStore
<1>8. DeleteUnderWay(k) => Known(i)'
  BY <1>2 DEF InsertInstance, Known
<1>9. \A j \in Inst : j # i /\ Known(j) => Known(j)'
  BY DEF InsertInstance, Known
<1>10. \A j \in Inst : live'[j] # NoKey /\ row'[j] # NoKey => live'[j] = row'[j]
  BY <1>1, <1>5, <1>6, <1>7 DEF Needed
<1>11. \A d \in Call : call'[d].pc = "row" => \A j \in call'[d].inst : live'[j] = NoKey
  <2> SUFFICES ASSUME NEW d \in Call, call'[d].pc = "row", NEW j \in call'[d].inst
               PROVE  live'[j] = NoKey
    OBVIOUS
  <2>1. d # c /\ call'[d] = call[d] /\ j \in Inst /\ j # i
    BY <1>1, <1>3, <1>4, <1>5 DEF Typing, Typed
  <2> QED  BY <1>1, <1>6, <2>1 DEF Needed
<1>12. \A d \in Call : call'[d].pc \in {"cascade", "row"} =>
         \A j \in Inst : live'[j] # NoKey /\ live'[j] = call'[d].key
                            => j \in call'[d].todo \/ Known(j)'
  <2> SUFFICES ASSUME NEW d \in Call, call'[d].pc \in {"cascade", "row"},
                      NEW j \in Inst, live'[j] # NoKey, live'[j] = call'[d].key
               PROVE  j \in call'[d].todo \/ Known(j)'
    OBVIOUS
  <2>1. d # c /\ call'[d] = call[d]
    BY <1>3, <1>4
  <2>2. CASE j = i
    BY <1>6, <1>8, <2>1, <2>2 DEF DeleteUnderWay
  <2>3. CASE j # i
    BY <1>1, <1>6, <1>9, <2>1, <2>3 DEF Needed
  <2> QED  BY <2>2, <2>3
<1>13. \A d \in Call : call'[d].pc = "saveXml" =>
         \A j \in Inst : live'[j] = call'[d].key /\ live'[j] \notin registered' => Known(j)'
  <2> SUFFICES ASSUME NEW d \in Call, call'[d].pc = "saveXml",
                      NEW j \in Inst, live'[j] = call'[d].key, live'[j] \notin registered'
               PROVE  Known(j)'
    OBVIOUS
  <2>1. d # c /\ call'[d] = call[d]
    BY <1>3, <1>4
  <2>2. CASE j = i
    BY <1>6, <1>7, <1>8, <2>2 DEF DeleteUnderWay
  <2>3. CASE j # i
    BY <1>1, <1>6, <1>7, <1>9, <2>1, <2>3 DEF Needed
  <2> QED  BY <2>2, <2>3
<1>14. InstancesKeepDefinition'
  <2> SUFFICES ASSUME NEW j \in Inst, live'[j] # NoKey, live'[j] \notin registered'
               PROVE  Known(j)' \/ live'[j] \notin stored'
    BY DEF InstancesKeepDefinition, Known
  <2>1. CASE j = i
    BY <1>6, <1>7, <1>8, <2>1 DEF DeleteUnderWay
  <2>2. CASE j # i
    <3>1. Known(j) \/ live[j] \notin stored
      BY <1>1, <1>6, <1>7, <2>2 DEF Needed, InstancesKeepDefinition, Known
    <3> QED  BY <1>6, <1>7, <1>9, <2>2, <3>1
  <2> QED  BY <2>1, <2>2
<1> QED  BY <1>1, <1>7, <1>10, <1>11, <1>12, <1>13, <1>14 DEF Needed

\* A row is written from the instance.
LEMMA PersistInstanceNeeded ==
  ASSUME NeedInv, NEW c \in Call, PersistInstance(c)
  PROVE  Needed'
<1>1. Typing /\ Needed
  BY DEF NeedInv, OrderInv
<1>2. call'[c] = Idle /\ \A d \in Call : d # c => call'[d] = call[d]
  BY <1>1, OneMoves, PersistInstanceDoes DEF Quiet
<1>3. UNCHANGED <<registered, xml, live, stored, late, revived>> /\ InStore' = InStore
  BY DEF PersistInstance, InStore
<1>4. \A i \in Inst : row'[i] \in {live[i], row[i]}
  BY DEF PersistInstance
<1>5. \A i \in Inst : live'[i] # NoKey /\ row'[i] # NoKey => live'[i] = row'[i]
  BY <1>1, <1>3, <1>4 DEF Needed
<1>6. InstancesKeepDefinition'
  BY <1>1, <1>3 DEF Needed, InstancesKeepDefinition
<1>7. \A d \in Call : call'[d].pc = "row" => \A i \in call'[d].inst : live'[i] = NoKey
  BY <1>1, <1>2, <1>3, IdleIs DEF Needed
<1>8. \A d \in Call : call'[d].pc \in {"cascade", "row"} =>
        \A i \in Inst : live'[i] # NoKey /\ live'[i] = call'[d].key
                           => i \in call'[d].todo \/ Known(i)'
  BY <1>1, <1>2, <1>3, IdleIs DEF Needed, Known
<1>9. \A d \in Call : call'[d].pc = "saveXml" =>
        \A i \in Inst : live'[i] = call'[d].key /\ live'[i] \notin registered' => Known(i)'
  BY <1>1, <1>2, <1>3, IdleIs DEF Needed, Known
<1> QED  BY <1>1, <1>3, <1>5, <1>6, <1>7, <1>8, <1>9 DEF Needed

\* An instance leaves the store, for a delete of its own or of its definition.
LEMMA InstanceLeaves ==
  ASSUME NeedInv, NEW c \in Call, NEW i \in Inst, NEW r, call' = [call EXCEPT ![c] = r],
         live' = [live EXCEPT ![i] = NoKey],
         UNCHANGED <<registered, xml, row, stored, late, revived>>,
         r.pc \in {"row", "idle"}, r.pc = "row" => r.inst = {i},
         r.pc = "row" /\ r.key # NoKey =>
            call[c].pc = "cascade" /\ r.key = call[c].key /\ r.todo = call[c].todo \ {i}
  PROVE  Needed'
<1>1. Typing /\ Needed
  BY DEF NeedInv, OrderInv
<1>2. call'[c] = r /\ \A d \in Call : d # c => call'[d] = call[d]
  BY <1>1, OneMoves
<1>3. live'[i] = NoKey /\ \A j \in Inst : j # i => live'[j] = live[j]
  BY <1>1, TypesOf
<1>4. InStore' = InStore
  BY DEF InStore
<1>5. \A j \in Inst : live'[j] # NoKey /\ row'[j] # NoKey => live'[j] = row'[j]
  BY <1>1, <1>3 DEF Needed
<1>6. \A d \in Call : call'[d].pc = "row" => \A j \in call'[d].inst : live'[j] = NoKey
  <2> SUFFICES ASSUME NEW d \in Call, call'[d].pc = "row", NEW j \in call'[d].inst
               PROVE  live'[j] = NoKey
    OBVIOUS
  <2>1. CASE d = c
    BY <1>2, <1>3, <2>1
  <2>2. CASE d # c
    <3>1. call'[d] = call[d] /\ j \in Inst
      BY <1>1, <1>2, <2>2 DEF Typing, Typed
    <3> QED  BY <1>1, <1>3, <3>1 DEF Needed
  <2> QED  BY <2>1, <2>2
<1>7. \A d \in Call : call'[d].pc \in {"cascade", "row"} =>
        \A j \in Inst : live'[j] # NoKey /\ live'[j] = call'[d].key
                           => j \in call'[d].todo \/ Known(j)'
  <2> SUFFICES ASSUME NEW d \in Call, call'[d].pc \in {"cascade", "row"},
                      NEW j \in Inst, live'[j] # NoKey, live'[j] = call'[d].key
               PROVE  j \in call'[d].todo \/ Known(j)
    BY DEF Known
  <2>1. j # i /\ live'[j] = live[j]
    BY <1>3
  <2>2. CASE d = c
    <3>1. call[c].pc = "cascade" /\ r.key = call[c].key /\ r.todo = call[c].todo \ {i}
      BY <1>2, <2>2
    <3> QED  BY <1>1, <1>2, <2>1, <2>2, <3>1 DEF Needed
  <2>3. CASE d # c
    BY <1>1, <1>2, <2>1, <2>3 DEF Needed
  <2> QED  BY <2>2, <2>3
<1>8. \A d \in Call : call'[d].pc = "saveXml" =>
        \A j \in Inst : live'[j] = call'[d].key /\ live'[j] \notin registered' => Known(j)'
  <2> SUFFICES ASSUME NEW d \in Call, call'[d].pc = "saveXml",
                      NEW j \in Inst, live'[j] = call'[d].key, live'[j] \notin registered
               PROVE  Known(j)
    BY DEF Known
  <2>1. d # c /\ call'[d] = call[d] /\ call[d].key \in 1..minted
    BY <1>1, <1>2 DEF Typing, Typed
  <2>2. j # i
    BY <1>1, <1>3, <2>1, KeysTyped
  <2> QED  BY <1>1, <1>3, <2>1, <2>2 DEF Needed
<1>9. InstancesKeepDefinition'
  BY <1>1, <1>3 DEF Needed, InstancesKeepDefinition
<1> QED  BY <1>1, <1>4, <1>5, <1>6, <1>7, <1>8, <1>9 DEF Needed

\* The two deletes that take an instance out of the store.
LEMMA DeleteInstanceNeeded ==
  ASSUME NeedInv, NEW c \in Call, NEW i \in Inst, DeleteInstance(c, i)
  PROVE  Needed'
<1>1. PICK r : call' = [call EXCEPT ![c] = r] /\ r.pc = "row" /\ r.key = NoKey /\ r.inst = {i}
  BY DeleteInstanceDoes DEF Quiet, NeedInv, OrderInv
<1>2. live' = [live EXCEPT ![i] = NoKey] /\ UNCHANGED <<registered, xml, row, stored, late, revived>>
  BY DEF DeleteInstance
<1> QED  BY <1>1, <1>2, InstanceLeaves

LEMMA CascadeInstanceNeeded ==
  ASSUME NeedInv, NEW c \in Call, NEW i \in Inst, CascadeInstance(c, i)
  PROVE  Needed'
<1>1. PICK r : /\ call' = [call EXCEPT ![c] = r]
               /\ \/ r = Idle
                  \/ r.pc = "row" /\ r.key = call[c].key /\ r.inst = {i} /\ r.todo = call[c].todo \ {i}
  BY CascadeInstanceDoes DEF Quiet, NeedInv, OrderInv
<1>2. /\ call[c].pc = "cascade" /\ live' = [live EXCEPT ![i] = NoKey]
      /\ UNCHANGED <<registered, xml, row, stored, late, revived>>
  BY DEF CascadeInstance, At
<1> QED  BY <1>1, <1>2, InstanceLeaves, IdleIs

\* A row is erased for instances that are out of the store.
LEMMA EraseRowNeeded ==
  ASSUME NeedInv, NEW c \in Call, EraseRow(c)
  PROVE  Needed'
<1>1. Typing /\ Needed
  BY DEF NeedInv, OrderInv
<1>2. PICK r : /\ call' = [call EXCEPT ![c] = r]
               /\ \/ r = Idle
                  \/ r.pc = "cascade" /\ r.key = call[c].key /\ r.todo = call[c].todo
  BY <1>1, EraseRowDoes DEF Quiet
<1>3. call'[c] = r /\ \A d \in Call : d # c => call'[d] = call[d]
  BY <1>1, <1>2, OneMoves
<1>4. call[c].pc = "row" /\ \A i \in call[c].inst : live[i] = NoKey
  BY <1>1 DEF EraseRow, At, Needed
<1>5. UNCHANGED <<registered, xml, live, stored>> /\ InStore' = InStore
  BY DEF EraseRow, InStore
<1>6. \A i \in Inst : live[i] # NoKey /\ Known(i) => Known(i)'
  BY <1>4 DEF EraseRow, Known
<1>7. \A i \in Inst : row'[i] \in {NoKey, row[i]}
  BY <1>1, TypesOf DEF EraseRow
<1>8. \A i \in Inst : live'[i] # NoKey /\ row'[i] # NoKey => live'[i] = row'[i]
  BY <1>1, <1>5, <1>7 DEF Needed
<1>9. InstancesKeepDefinition'
  BY <1>1, <1>5, <1>6 DEF Needed, InstancesKeepDefinition, Known
<1>10. \A d \in Call : call'[d].pc = "row" => \A i \in call'[d].inst : live'[i] = NoKey
  BY <1>1, <1>2, <1>3, <1>5, IdleIs DEF Needed
<1>11. \A d \in Call : call'[d].pc \in {"cascade", "row"} =>
         \A i \in Inst : live'[i] # NoKey /\ live'[i] = call'[d].key
                            => i \in call'[d].todo \/ Known(i)'
  <2> SUFFICES ASSUME NEW d \in Call, call'[d].pc \in {"cascade", "row"},
                      NEW i \in Inst, live[i] # NoKey, live[i] = call'[d].key
               PROVE  i \in call'[d].todo \/ Known(i)'
    BY <1>5
  <2>1. call'[d].key = call[d].key /\ call'[d].todo = call[d].todo /\ call[d].pc \in {"cascade", "row"}
    BY <1>2, <1>3, <1>4, IdleIs
  <2>2. i \in call[d].todo \/ Known(i)
    BY <1>1, <2>1 DEF Needed
  <2> QED  BY <1>6, <2>1, <2>2
<1>12. \A d \in Call : call'[d].pc = "saveXml" =>
         \A i \in Inst : live'[i] = call'[d].key /\ live'[i] \notin registered' => Known(i)'
  <2> SUFFICES ASSUME NEW d \in Call, call'[d].pc = "saveXml",
                      NEW i \in Inst, live[i] = call'[d].key, live[i] \notin registered
               PROVE  Known(i)'
    BY <1>5
  <2>1. call'[d] = call[d] /\ call[d].key \in 1..minted
    BY <1>1, <1>2, <1>3, IdleIs DEF Typing, Typed
  <2>2. live[i] # NoKey /\ Known(i)
    BY <1>1, <2>1, KeysTyped DEF Needed
  <2> QED  BY <1>6, <2>2
<1> QED  BY <1>1, <1>5, <1>8, <1>9, <1>10, <1>11, <1>12 DEF Needed

\* A registered definition has its instances; it was not stored before.
LEMMA InsertDefinitionNeeded ==
  ASSUME NeedInv, NEW c \in Call, InsertDefinition(c)
  PROVE  Needed'
<1>1. Typing /\ Lifecycle /\ Needed
  BY DEF NeedInv, OrderInv
<1>2. PICK k : k = call[c].key
  OBVIOUS
<1>3. PICK r : call' = [call EXCEPT ![c] = r] /\ r.pc = "saveXml" /\ r.key = k
  BY <1>1, <1>2, GotoIs DEF InsertDefinition
<1>4. call'[c] = r /\ \A d \in Call : d # c => call'[d] = call[d]
  BY <1>1, <1>3, OneMoves
<1>5. /\ UNCHANGED <<xml, live, row, stored, late, revived>> /\ InStore' = InStore
      /\ registered' = registered \cup {k}
  BY <1>2 DEF InsertDefinition, InStore
<1>6. k \notin stored
  BY <1>1, <1>2 DEF InsertDefinition, At, Lifecycle
<1>7. stored' \cap registered' \subseteq InStore'
  BY <1>1, <1>5, <1>6 DEF Needed
<1>8. InstancesKeepDefinition'
  BY <1>1, <1>5 DEF Needed, InstancesKeepDefinition
<1>9. \A d \in Call : call'[d].pc = "saveXml" =>
        \A i \in Inst : live'[i] = call'[d].key /\ live'[i] \notin registered' => Known(i)'
  BY <1>1, <1>3, <1>4, <1>5 DEF Needed, Known
<1>10. \A d \in Call : call'[d].pc \in {"cascade", "row"} =>
         \A i \in Inst : live'[i] # NoKey /\ live'[i] = call'[d].key
                            => i \in call'[d].todo \/ Known(i)'
  BY <1>1, <1>3, <1>4, <1>5 DEF Needed, Known
<1>11. \A d \in Call : call'[d].pc = "row" => \A i \in call'[d].inst : live'[i] = NoKey
  BY <1>1, <1>3, <1>4, <1>5 DEF Needed
<1> QED  BY <1>1, <1>5, <1>7, <1>8, <1>9, <1>10, <1>11 DEF Needed

\* When the XML is stored late, the instances of a definition that is gone are known.
LEMMA SaveXmlNeeded ==
  ASSUME NeedInv, NEW c \in Call, SaveXml(c)
  PROVE  Needed'
<1>1. Typing /\ Lifecycle /\ Needed
  BY DEF NeedInv, OrderInv
<1>2. /\ call[c].pc = "saveXml" /\ call' = [call EXCEPT ![c] = Idle]
      /\ UNCHANGED <<registered, live, row, late, revived>>
  BY <1>1, SaveXmlDoes
<1>3. CASE Quiet(c, Idle)
  <2>1. UNCHANGED <<xml, stored>>
    BY <1>3 DEF Quiet
  <2> QED  BY <1>2, <2>1, IdleSteps, IdleIs
<1>4. CASE xml' = PutXml(call[c].key) /\ stored' = stored \cup {call[c].key}
  <2>1. PICK k, n : k = call[c].key /\ n = Max({xml[j] : j \in Key}) + 1
    OBVIOUS
  <2>2. k \in 1..minted /\ k \in Key
    BY <1>1, <1>2, <2>1, KeysTyped DEF Typing, Typed
  <2>3. n # 0
    BY <1>1, <2>1, <2>2, PutIsLast
  <2>4. xml'[k] = n /\ \A j \in Key : j # k => xml'[j] = xml[j]
    BY <1>1, <1>4, <2>1, <2>2 DEF PutXml, Typing, TypeOK
  <2>5. InStore' = InStore \cup {k} /\ stored' = stored \cup {k}
    BY <1>4, <2>1, <2>2, <2>3, <2>4 DEF InStore
  <2>6. call'[c] = Idle /\ \A d \in Call : d # c => call'[d] = call[d]
    BY <1>1, <1>2, OneMoves
  <2>7. stored' \cap registered' \subseteq InStore'
    BY <1>1, <1>2, <2>5 DEF Needed
  <2>8. InstancesKeepDefinition'
    <3> SUFFICES ASSUME NEW i \in Inst, live[i] # NoKey, live[i] \notin registered
                 PROVE  Known(i) \/ live[i] \notin stored \cup {k}
      BY <1>2, <2>5 DEF InstancesKeepDefinition, Known
    <3>1. live[i] = k => Known(i)
      BY <1>1, <1>2, <2>1 DEF Needed
    <3>2. Known(i) \/ live[i] \notin stored
      BY <1>1 DEF Needed, InstancesKeepDefinition, Known
    <3> QED  BY <3>1, <3>2
  <2>9. \A d \in Call : call'[d].pc = "saveXml" =>
          \A i \in Inst : live'[i] = call'[d].key /\ live'[i] \notin registered' => Known(i)'
    BY <1>1, <1>2, <2>6, IdleIs DEF Needed, Known
  <2>10. \A d \in Call : call'[d].pc \in {"cascade", "row"} =>
           \A i \in Inst : live'[i] # NoKey /\ live'[i] = call'[d].key
                              => i \in call'[d].todo \/ Known(i)'
    BY <1>1, <1>2, <2>6, IdleIs DEF Needed, Known
  <2>11. \A d \in Call : call'[d].pc = "row" => \A i \in call'[d].inst : live'[i] = NoKey
    BY <1>1, <1>2, <2>6, IdleIs DEF Needed
  <2> QED  BY <1>1, <1>2, <2>7, <2>8, <2>9, <2>10, <2>11 DEF Needed
<1> QED  BY <1>1, <1>3, <1>4, SaveXmlDoes

\* A definition is removed when a delete has no instance left to delete.
LEMMA RemoveDefinitionNeeded ==
  ASSUME NeedInv, NEW c \in Call, RemoveDefinition(c)
  PROVE  Needed'
<1>1. Typing /\ Needed
  BY DEF NeedInv, OrderInv
<1>2. PICK k : k = call[c].key
  OBVIOUS
<1>3. /\ call[c].pc = "cascade" /\ call[c].todo = {} /\ registered' = registered \ {k}
      /\ UNCHANGED <<xml, live, row, stored, late, revived>>
  BY <1>1, <1>2, RemoveDefinitionDoes
<1>4. PICK r : call' = [call EXCEPT ![c] = r] /\ r.pc = "erase"
  BY <1>1, RemoveDefinitionDoes
<1>5. call'[c] = r /\ \A d \in Call : d # c => call'[d] = call[d]
  BY <1>1, <1>4, OneMoves
<1>6. \A i \in Inst : live[i] # NoKey /\ live[i] = k => Known(i)
  BY <1>1, <1>2, <1>3 DEF Needed
<1>7. InStore' = InStore
  BY <1>3 DEF InStore
<1>8. InstancesKeepDefinition'
  BY <1>1, <1>3, <1>6 DEF Needed, InstancesKeepDefinition, Known
<1>9. \A d \in Call : call'[d].pc = "saveXml" =>
        \A i \in Inst : live'[i] = call'[d].key /\ live'[i] \notin registered' => Known(i)'
  <2> SUFFICES ASSUME NEW d \in Call, call'[d].pc = "saveXml",
                      NEW i \in Inst, live[i] = call'[d].key, live[i] \notin registered \ {k}
               PROVE  Known(i)
    BY <1>3 DEF Known
  <2>1. call'[d] = call[d] /\ call[d].key \in 1..minted
    BY <1>1, <1>4, <1>5 DEF Typing, Typed
  <2> QED  BY <1>1, <1>6, <2>1, KeysTyped DEF Needed
<1>10. \A d \in Call : call'[d].pc \in {"cascade", "row"} =>
         \A i \in Inst : live'[i] # NoKey /\ live'[i] = call'[d].key
                            => i \in call'[d].todo \/ Known(i)'
  BY <1>1, <1>3, <1>4, <1>5 DEF Needed, Known
<1>11. \A d \in Call : call'[d].pc = "row" => \A i \in call'[d].inst : live'[i] = NoKey
  BY <1>1, <1>3, <1>4, <1>5 DEF Needed
<1>12. stored' \cap registered' \subseteq InStore'
  BY <1>1, <1>3, <1>7 DEF Needed
<1> QED  BY <1>1, <1>3, <1>8, <1>9, <1>10, <1>11, <1>12 DEF Needed

\* The object is erased for a definition that is not registered.
LEMMA EraseDefinitionNeeded ==
  ASSUME NeedInv, NEW c \in Call, EraseDefinition(c)
  PROVE  Needed'
<1>1. Typing /\ Lifecycle /\ Needed
  BY DEF NeedInv, OrderInv
<1>2. PICK k : k = call[c].key
  OBVIOUS
<1>3. /\ k \in 1..minted /\ k \in Key /\ k \notin registered
      /\ UNCHANGED <<registered, live, row, late, revived, stored>>
  BY <1>1, <1>2, KeysTyped, EraseDefinitionDoes DEF Typing, Typed, Lifecycle
<1>4. PICK r : /\ call' = [call EXCEPT ![c] = r] /\ r.pc \in {"look", "idle"}
               /\ Quiet(c, r) \/ Erased(k)
  BY <1>1, <1>2, EraseDefinitionDoes
<1>5. call'[c] = r /\ \A d \in Call : d # c => call'[d] = call[d]
  BY <1>1, <1>4, OneMoves
<1>6. InStore \ {k} \subseteq InStore'
  BY <1>1, <1>3, <1>4 DEF Quiet, Erased, InStore, Typing, TypeOK
<1>7. stored' \cap registered' \subseteq InStore'
  BY <1>1, <1>3, <1>6 DEF Needed
<1>8. InstancesKeepDefinition'
  BY <1>1, <1>3 DEF Needed, InstancesKeepDefinition
<1>9. \A d \in Call : call'[d].pc = "saveXml" =>
        \A i \in Inst : live'[i] = call'[d].key /\ live'[i] \notin registered' => Known(i)'
  BY <1>1, <1>3, <1>4, <1>5 DEF Needed, Known
<1>10. \A d \in Call : call'[d].pc \in {"cascade", "row"} =>
         \A i \in Inst : live'[i] # NoKey /\ live'[i] = call'[d].key
                            => i \in call'[d].todo \/ Known(i)'
  BY <1>1, <1>3, <1>4, <1>5 DEF Needed, Known
<1>11. \A d \in Call : call'[d].pc = "row" => \A i \in call'[d].inst : live'[i] = NoKey
  BY <1>1, <1>3, <1>4, <1>5 DEF Needed
<1> QED  BY <1>1, <1>3, <1>7, <1>8, <1>9, <1>10, <1>11 DEF Needed

\* Instances come back from their rows, definitions from their objects.
LEMMA RestartNeeded ==
  ASSUME NeedInv, Restart
  PROVE  Needed'
<1>1. Typing /\ Needed
  BY DEF NeedInv, OrderInv
<1>2. /\ UNCHANGED <<xml, row, late, stored>> /\ InStore' = InStore /\ registered' = InStore
      /\ live' = row /\ \A c \in Call : call'[c].pc = "idle"
  BY IdleIs DEF Restart, InStore
<1>3. \A i \in Inst : Known(i) \/ (live[i] = NoKey /\ row[i] # NoKey) => Known(i)'
  BY DEF Restart, Known
<1>4. InstancesKeepDefinition'
  <2> SUFFICES ASSUME NEW i \in Inst, row[i] # NoKey, row[i] \notin InStore, ~Known(i)'
               PROVE  row[i] \notin stored
    BY <1>2 DEF InstancesKeepDefinition, Known
  <2>1. live[i] # NoKey /\ ~Known(i) /\ live[i] = row[i]
    BY <1>1, <1>3 DEF Needed
  <2>2. CASE live[i] \in registered
    BY <1>1, <2>1, <2>2 DEF Needed
  <2>3. CASE live[i] \notin registered
    BY <1>1, <2>1, <2>3 DEF Needed, InstancesKeepDefinition, Known
  <2> QED  BY <2>2, <2>3
<1> QED  BY <1>2, <1>4 DEF Needed

\* A definition stays registered as long as an instance that it could see needs it.
LEMMA NeededSteps == NeedInv /\ [Next]_vars => Needed'
<1> SUFFICES ASSUME NeedInv, [Next]_vars PROVE Needed'
  OBVIOUS
<1>1. OrderInv /\ Typing /\ Needed
  BY DEF NeedInv, OrderInv
<1>2. ASSUME NEW c \in Call, NEW i \in Id, DeployDefinition(c, i) PROVE Needed'
  <2>1. PICK r : r = [Idle EXCEPT !.pc = "insert", !.key = minted + 1, !.highest = HighestVersion(i)]
    OBVIOUS
  <2>2. r.pc = "insert" /\ call' = [call EXCEPT ![c] = r]
    BY <1>2, <2>1 DEF Idle, DeployDefinition, Begin
  <2>3. UNCHANGED <<registered, xml, live, row, stored, late, revived>>
    BY <1>2 DEF DeployDefinition
  <2> QED  BY <2>2, <2>3, IdleSteps
<1>3. ASSUME NEW c \in Call, NEW r, Quiet(c, r), r.pc \notin {"row", "saveXml", "cascade"},
             UNCHANGED <<live, row, late, revived>>
      PROVE  Needed'
  BY <1>3, IdleSteps DEF Quiet
<1>4. ASSUME NEW c \in Call, NEW k, StartInstance(c, k) PROVE Needed'
  BY <1>1, <1>3, <1>4, StartInstanceDoes DEF StartInstance
<1>5. ASSUME NEW c \in Call, NEW i, StartInstanceLatest(c, i) PROVE Needed'
  BY <1>1, <1>3, <1>5, StartInstanceLatestDoes DEF StartInstanceLatest
<1>6. ASSUME NEW c \in Call, ValidateStart(c) PROVE Needed'
  BY <1>1, <1>3, <1>6, ValidateStartDoes DEF ValidateStart
<1>7. ASSUME NEW c \in Call, NEW i, NEW cascade, DeleteAllDefinitions(c, i, cascade) PROVE Needed'
  BY <1>1, <1>3, <1>7, DeleteAllDefinitionsDoes DEF DeleteAllDefinitions
<1>8. ASSUME NEW c \in Call, NEW k, NEW rest, NEW cascade, LookForInstances(c, k, rest, cascade),
             UNCHANGED <<defVars, xml, instVars, failures, restarts, history>>
      PROVE  Needed'
  <2>1. PICK r : /\ Quiet(c, r)
                 /\ \/ r = Idle
                    \/ r.pc = "cascade" /\ r.key = k /\ r.todo = InstancesOf(k)
    BY <1>1, <1>8, LookForInstancesDoes
  <2>2. /\ call' = [call EXCEPT ![c] = r] /\ r.pc \notin {"row", "saveXml"}
        /\ UNCHANGED <<registered, xml, live, row, stored, late, revived>>
    BY <1>8, <2>1, IdleIs DEF Quiet
  <2>3. r.pc = "cascade" => \A i \in Inst : live[i] = r.key => i \in r.todo
    BY <2>1, IdleIs DEF InstancesOf
  <2> QED  BY <2>2, <2>3, IdleSteps
<1>9. ASSUME NEW c \in Call, NEW k, NEW cascade, DeleteDefinition(c, k, cascade) PROVE Needed'
  BY <1>8, <1>9 DEF DeleteDefinition
<1>10. ASSUME NEW c \in Call, DeleteNextDefinition(c) PROVE Needed'
  <2>1. PICK k, rest, cascade : /\ LookForInstances(c, k, rest, cascade)
                                /\ UNCHANGED <<defVars, xml, instVars, failures, restarts, history>>
    BY <1>10 DEF DeleteNextDefinition
  <2> QED  BY <1>8, <2>1
<1>11. CASE UNCHANGED vars
  BY <1>1, <1>11 DEF vars, Needed, InstancesKeepDefinition, Known, InStore
<1>12. CASE Next
  BY <1>2, <1>4, <1>5, <1>6, <1>7, <1>9, <1>10, <1>12, InsertInstanceNeeded, DeleteInstanceNeeded,
     CascadeInstanceNeeded, InsertDefinitionNeeded, SaveXmlNeeded, PersistInstanceNeeded,
     EraseRowNeeded, RemoveDefinitionNeeded, EraseDefinitionNeeded, RestartNeeded DEF Next
<1> QED  BY <1>11, <1>12

\* No instance, no request.
LEMMA InitNeeded == Init => NeedInv
<1> SUFFICES ASSUME Init PROVE NeedInv
  OBVIOUS
<1>1. \A c \in Call : call[c].pc = "idle"
  BY IdleIs DEF Init
<1>2. \A i \in Inst : live[i] = NoKey
  BY DEF Init
<1>3. Needed
  BY <1>1, <1>2 DEF Init, Needed, InstancesKeepDefinition
<1> QED  BY <1>3, InitOrder DEF NeedInv

\* The definition of an instance is registered, over any number of deletes and restarts,
\* unless the instance came in behind the back of a delete, its row outlived its own
\* delete, or the XML of its definition was never stored (delete_definition, restore).
THEOREM InstancesKeepTheirs == Spec => []InstancesKeepDefinition
<1>1. NeedInv /\ [Next]_vars => NeedInv'
  BY NeededSteps, OrderInvSteps DEF NeedInv
<1>2. NeedInv => InstancesKeepDefinition
  BY DEF NeedInv, Needed
<1> QED  BY <1>1, <1>2, InitNeeded, PTL DEF Spec
=============================================================================
