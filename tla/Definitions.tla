---------------------------- MODULE Definitions ----------------------------
(* Process definitions and their versions: deploy, start, delete and restart.

   The registry is a concurrent map of definition keys, without a lock that
   spans an operation: deploy reads the highest version and inserts later, a
   start validates the definition and inserts its instance later, a delete looks
   for instances and removes the definition later.  What survives a restart is
   the XML in the object store, written by the HTTP handler after the engine's
   part, and the rows of instances.  The "definitions" bucket is written and
   never read back, and is left out except for its failures.

   One step is one access to the registry, the instance store or the object
   store.                                                                     *)
EXTENDS Integers, Sequences, FiniteSets, SequencesExt, FiniteSetsExt

CONSTANTS Id,           \* BPMN process ids
          Inst,         \* instance ids
          Call,         \* requests in flight
          MaxKeys,      \* bound: deploys
          MaxFailures,  \* bound: failing calls of the store
          MaxRestarts,  \* bound: crashes
          NoKey, NoId

ASSUME DefinitionsAssumption ==
    /\ MaxKeys \in Nat /\ MaxFailures \in Nat /\ MaxRestarts \in Nat
    /\ NoKey \notin Nat /\ NoId \notin Id

Key == 1..MaxKeys       \* definition keys, in the order in which they are minted

VARIABLES
    minted,     \* number of keys in use: Uuid::new_v4 does not repeat
    idOf,       \* the BPMN id of a key
    registered, \* keys in the registry
    version,    \* version of a registered key, else 0
    xml,        \* the object store bpmn_xml: the number of a key's last put, or 0
    live,       \* the definition_key of an instance in the store, or NoKey
    row,        \* the definition_key in the persisted row of an instance, or NoKey
    call,       \* what a request does next and what it remembers
    failures, restarts,
    overlapped, \* history: pairs of keys whose deploys were under way at once
    late,       \* history: instances that came in behind the back of a delete
    revived,    \* history: instances a delete took from memory and not from the store
    stored,     \* history: keys whose XML was stored
    gone,       \* history: keys whose delete was answered with success, until they
                \* come back at a restart
    kept        \* history: keys whose object the store refused to delete

defVars  == <<minted, idOf, registered, version>>
instVars == <<live, row>>
history  == <<overlapped, late, revived, stored, gone, kept>>
vars == <<defVars, xml, instVars, call, failures, restarts, history>>

Idle == [pc |-> "idle", key |-> NoKey, highest |-> 0, todo |-> {}, rest |-> <<>>,
         cascade |-> FALSE, inst |-> {}]

Init ==
    /\ minted = 0 /\ idOf = [k \in Key |-> NoId] /\ registered = {}
    /\ version = [k \in Key |-> 0] /\ xml = version
    /\ live = [i \in Inst |-> NoKey] /\ row = live
    /\ call = [c \in Call |-> Idle]
    /\ failures = 0 /\ restarts = 0
    /\ overlapped = {} /\ late = {} /\ revived = {} /\ stored = {} /\ gone = {} /\ kept = {}

At(c, p)      == call[c].pc = p
Goto(c, p)    == call' = [call EXCEPT ![c].pc = p]
Begin(c, r)   == call[c] = Idle /\ call' = [call EXCEPT ![c] = r]
Return(c)     == call' = [call EXCEPT ![c] = Idle]
StoreFails    == failures < MaxFailures /\ failures' = failures + 1

VersionsOf(i)     == {k \in registered : idOf[k] = i}
HighestVersion(i) == Max({version[k] : k \in VersionsOf(i)} \cup {0})
LatestOf(i)       == {k \in VersionsOf(i) : version[k] = HighestVersion(i)}

\* Mutant: a delete looks at the persisted rows.
StoredInstancesOf(k) == {i \in Inst : row[i] = k}
InstancesOf(k) == {i \in Inst : live[i] = k}

\* Mutant: a redeployed definition gets the highest version, not the next one.
NormalizeVersionKeeping(highest) == Max({highest, 1})
NormalizeVersion(highest)        == highest + 1

-----------------------------------------------------------------------------
(* deploy_definition.  The parser gives a new key and version 1; the version is
   read first, and the XML is stored after the engine's part.                 *)

Deploying(k) == \E c \in Call : call[c].key = k /\ call[c].pc \in {"insert", "saveXml"}

DeployDefinition(c, i) ==
    /\ minted < MaxKeys
    /\ Begin(c, [Idle EXCEPT !.pc = "insert", !.key = minted + 1, !.highest = HighestVersion(i)])
    /\ minted' = minted + 1
    /\ idOf' = [idOf EXCEPT ![minted + 1] = i]
    /\ overlapped' = overlapped \cup
           {{k, minted + 1} : k \in {k \in Key : Deploying(k) /\ idOf[k] = i}}
    /\ UNCHANGED <<registered, version, xml, instVars, failures, restarts,
                   late, revived, stored, gone, kept>>

InsertDefinition(c) ==
    /\ At(c, "insert")
    /\ registered' = registered \cup {call[c].key}
    /\ version' = [version EXCEPT ![call[c].key] = NormalizeVersion(call[c].highest)]
    /\ Goto(c, "saveXml")
    /\ UNCHANGED <<minted, idOf, xml, instVars, failures, restarts, history>>

\* Mutant: the object store lists the newest object first.
PutXmlFirst(k) ==
    [j \in Key |-> IF j = k THEN 1 ELSE IF xml[j] = 0 THEN 0 ELSE xml[j] + 1]
\* A put replaces the object, which is listed at the place of its last put.
PutXml(k) == [xml EXCEPT ![k] = Max({xml[j] : j \in Key}) + 1]

\* The handler stores the XML; a failure is only logged and the deploy is answered
\* with success.
SaveXml(c) ==
    /\ At(c, "saveXml")
    /\ \/ /\ xml' = PutXml(call[c].key)
          /\ stored' = stored \cup {call[c].key}
          /\ UNCHANGED failures
       \/ StoreFails /\ UNCHANGED <<xml, stored>>
    /\ Return(c)
    /\ UNCHANGED <<defVars, instVars, restarts, overlapped, late, revived, gone, kept>>

-----------------------------------------------------------------------------
(* start_instance, by key or for the latest version of an id.                *)

\* A key that is not registered (any more) is refused.
StartInstance(c, k) ==
    /\ k \in registered
    /\ Begin(c, [Idle EXCEPT !.pc = "insertInst", !.key = k])
    /\ UNCHANGED <<defVars, xml, instVars, failures, restarts, history>>

StartInstanceLatest(c, i) ==
    /\ \E k \in LatestOf(i) : Begin(c, [Idle EXCEPT !.pc = "validate", !.key = k])
    /\ UNCHANGED <<defVars, xml, instVars, failures, restarts, history>>

ValidateStart(c) ==
    /\ At(c, "validate")
    /\ IF call[c].key \in registered THEN Goto(c, "insertInst") ELSE Return(c)
    /\ UNCHANGED <<defVars, xml, instVars, failures, restarts, history>>

\* A delete of definition k has looked for instances and found none, or is done.
DeleteUnderWay(k) ==
    \/ k \notin registered
    \/ \E c \in Call : call[c].pc \in {"cascade", "row"} /\ call[c].key = k

\* Uuid::new_v4: an id no store and no call knows.
Fresh(i) == live[i] = NoKey /\ row[i] = NoKey
            /\ \A c \in Call : i \notin call[c].inst \cup call[c].todo

InsertInstance(c, i) ==
    /\ At(c, "insertInst") /\ Fresh(i)
    /\ live' = [live EXCEPT ![i] = call[c].key]
    /\ late' = IF DeleteUnderWay(call[c].key) THEN late \cup {i} ELSE late \ {i}
    /\ revived' = revived \ {i}
    /\ call' = [call EXCEPT ![c].pc = "persist", ![c].inst = {i}]
    /\ UNCHANGED <<defVars, xml, row, failures, restarts, overlapped, stored, gone, kept>>

\* persist_instance looks the instance up: a deleted one is not written.
PersistInstance(c) ==
    /\ At(c, "persist")
    /\ row' = [i \in Inst |-> IF i \in call[c].inst /\ live[i] # NoKey
                              THEN live[i] ELSE row[i]]
    /\ Return(c)
    /\ UNCHANGED <<defVars, xml, live, failures, restarts, history>>

-----------------------------------------------------------------------------
(* delete_definition and delete_all_definitions.  rest is what is left to do,
   oldest version first; todo are the instances of the one being deleted.    *)

\* DefinitionHasInstances, unless they are to be deleted as well.
Refused(k, cascade) == InstancesOf(k) # {} /\ ~cascade

\* contains_key, and a snapshot of the instances.  An error ends the whole call.
LookForInstances(c, k, rest, cascade) ==
    call' = [call EXCEPT ![c] =
                IF k \notin registered \/ Refused(k, cascade) THEN Idle
                ELSE [Idle EXCEPT !.pc = "cascade", !.key = k, !.rest = rest,
                                  !.cascade = cascade /\ rest # <<>>, !.todo = InstancesOf(k)]]

DeleteDefinition(c, k, cascade) ==
    /\ call[c] = Idle
    /\ LookForInstances(c, k, <<>>, cascade)
    /\ UNCHANGED <<defVars, xml, instVars, failures, restarts, history>>

OldestFirst(S) == SetToSortSeq(S, LAMBDA j, k : version[j] < version[k])

DeleteAllDefinitions(c, i, cascade) ==
    /\ VersionsOf(i) # {}
    /\ Begin(c, [Idle EXCEPT !.pc = "look", !.cascade = cascade, !.rest = OldestFirst(VersionsOf(i))])
    /\ UNCHANGED <<defVars, xml, instVars, failures, restarts, history>>

DeleteNextDefinition(c) ==
    /\ At(c, "look")
    /\ LookForInstances(c, Head(call[c].rest), Tail(call[c].rest), call[c].cascade)
    /\ UNCHANGED <<defVars, xml, instVars, failures, restarts, history>>

\* delete_instance takes the instance out of the store first.
DeleteInstance(c, i) ==
    /\ live[i] # NoKey
    /\ Begin(c, [Idle EXCEPT !.pc = "row", !.inst = {i}])
    /\ live' = [live EXCEPT ![i] = NoKey]
    /\ UNCHANGED <<defVars, xml, row, failures, restarts, history>>

\* One that is not there any more is an error.
CascadeInstance(c, i) ==
    /\ At(c, "cascade") /\ i \in call[c].todo
    /\ live' = [live EXCEPT ![i] = NoKey]
    /\ call' = [call EXCEPT ![c] =
                   IF live[i] = NoKey THEN Idle
                   ELSE [call[c] EXCEPT !.pc = "row", !.inst = {i},
                                       !.todo = call[c].todo \ {i}]]
    /\ UNCHANGED <<defVars, xml, row, failures, restarts, history>>

\* Then its row; an error leaves the row and ends the whole call.
EraseRow(c) ==
    /\ At(c, "row")
    /\ \/ /\ row' = [i \in Inst |-> IF i \in call[c].inst THEN NoKey ELSE row[i]]
          /\ call' = [call EXCEPT ![c] = IF @.key = NoKey THEN Idle
                                         ELSE [@ EXCEPT !.pc = "cascade", !.inst = {}]]
          /\ late' = late \ call[c].inst /\ revived' = revived \ call[c].inst
          /\ UNCHANGED failures
       \/ StoreFails /\ Return(c) /\ UNCHANGED <<row, late, revived>>
    /\ UNCHANGED <<defVars, xml, live, restarts, overlapped, stored, gone, kept>>

RemoveDefinition(c) ==
    /\ At(c, "cascade") /\ call[c].todo = {}
    /\ registered' = registered \ {call[c].key}
    /\ version' = [version EXCEPT ![call[c].key] = 0]
    /\ Goto(c, "erase")
    /\ UNCHANGED <<minted, idOf, xml, instVars, failures, restarts, history>>

\* Mutant: the object is left in the store.
DropXmlNever(k) == xml
DropXml(k)      == [xml EXCEPT ![k] = 0]

\* persistence.delete_definition: an error of the bucket, or of opening the object store,
\* is returned and ends the whole call; an error of deleting the object is ignored and
\* answered with success.  gone leaves out a key whose deploy is still under way.
EraseDefinition(c) ==
    LET k    == call[c].key
        next == IF call[c].rest = <<>> THEN Idle
                ELSE [Idle EXCEPT !.pc = "look", !.rest = call[c].rest, !.cascade = call[c].cascade]
    IN  /\ At(c, "erase")
        /\ \/ /\ \/ xml' = DropXml(k) /\ kept' = kept \ {k} /\ UNCHANGED failures
                 \/ StoreFails /\ kept' = kept \cup {k} /\ UNCHANGED xml
              /\ gone' = IF Deploying(k) THEN gone ELSE gone \cup {k}
              /\ call' = [call EXCEPT ![c] = next]
           \/ StoreFails /\ Return(c) /\ UNCHANGED <<xml, gone, kept>>
        /\ UNCHANGED <<defVars, instVars, restarts, overlapped, late, revived, stored>>

-----------------------------------------------------------------------------
(* The process is killed and starts again: every call is gone; each stored XML is
   deployed under its old key, in the order of the listing, and the instances come
   back from their rows.                                                     *)

InStore == {k \in Key : xml[k] # 0}
\* Every deploy of the restore finds the earlier ones of its id.
RestoredVersion(k) ==
    IF k \in InStore
    THEN Cardinality({j \in InStore : idOf[j] = idOf[k] /\ xml[j] <= xml[k]})
    ELSE 0

Restart ==
    /\ restarts < MaxRestarts /\ restarts' = restarts + 1
    /\ registered' = InStore
    /\ version' = [k \in Key |-> RestoredVersion(k)]
    /\ live' = row
    /\ revived' = revived \cup {i \in Inst : live[i] = NoKey /\ row[i] # NoKey}
    /\ call' = [c \in Call |-> Idle]
    /\ gone' = gone \ InStore
    /\ UNCHANGED <<minted, idOf, xml, row, failures, overlapped, late, stored, kept>>

Next ==
    \/ \E c \in Call :
          \/ \E i \in Id : \/ DeployDefinition(c, i)
                           \/ StartInstanceLatest(c, i)
                           \/ \E cascade \in BOOLEAN : DeleteAllDefinitions(c, i, cascade)
          \/ \E k \in 1..minted : \/ StartInstance(c, k)
                                  \/ \E cascade \in BOOLEAN : DeleteDefinition(c, k, cascade)
          \/ \E i \in Inst : InsertInstance(c, i) \/ DeleteInstance(c, i) \/ CascadeInstance(c, i)
          \/ InsertDefinition(c) \/ SaveXml(c) \/ ValidateStart(c) \/ PersistInstance(c)
          \/ DeleteNextDefinition(c) \/ EraseRow(c) \/ RemoveDefinition(c) \/ EraseDefinition(c)
    \/ Restart

Spec == Init /\ [][Next]_vars

-----------------------------------------------------------------------------
\* Every variable has its type, only minted keys are registered or stored, and a
\* registered definition has a version (ProcessDefinition, DefinitionRegistry).
TypeOK ==
    /\ minted \in 0..MaxKeys /\ idOf \in [Key -> Id \cup {NoId}]
    /\ registered \subseteq 1..minted /\ InStore \subseteq 1..minted
    /\ version \in [Key -> 0..MaxKeys] /\ xml \in [Key -> 0..MaxKeys]
    /\ \A k \in Key : k \in registered <=> version[k] > 0
    /\ live \in [Inst -> Key \cup {NoKey}] /\ row \in [Inst -> Key \cup {NoKey}]
    /\ failures \in 0..MaxFailures /\ restarts \in 0..MaxRestarts

\* Two versions of one process have different numbers, also after deletes and restarts,
\* unless their deploys were under way at the same time (deploy_definition reads the
\* highest version before it inserts).
VersionsDistinct ==
    \A j, k \in registered :
        j # k /\ idOf[j] = idOf[k] /\ version[j] = version[k] => {j, k} \in overlapped

\* The types hold and versions are told apart.
Consistent == TypeOK /\ VersionsDistinct

\* A definition is there for every instance that needs it: delete_definition never takes
\* it from an instance it could see, and a restart brings it back with the instance.  What
\* is left are instances that came in between the look and the removal, instances whose
\* row outlived their delete, and definitions whose XML was never stored.
InstancesKeepDefinition ==
    \A i \in Inst :
        live[i] # NoKey /\ live[i] \notin registered =>
            i \in late \cup revived \/ live[i] \notin stored

\* A definition whose delete was answered with success, and whose deploy had been answered
\* before, is not registered again before a restart; and a restart does not find it either,
\* unless the object store refused to delete the XML, which the delete does not tell
\* (delete_definition, restore_definitions).
DeletedStaysDeleted == gone \cap registered = {} /\ gone \cap InStore \subseteq kept

\* A restart renumbers the versions, but the order of two versions stays, and with it which
\* one start_instance_latest takes, unless their deploys were under way at the same time.
RestartKeepsOrder ==
    [][restarts' # restarts =>
         \A j, k \in registered \cap registered' :
            idOf[j] = idOf[k] /\ version[j] < version[k] /\ {j, k} \notin overlapped
                => version'[j] < version'[k]]_vars
=============================================================================
