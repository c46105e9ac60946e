------------------------------ MODULE History ------------------------------
(* The event history of one instance: calls that change the instance record
   the difference to what they read when they began, an append that fails goes
   to the retry queue and lands later, and a client pages through the events.

   A call reads the instance under one lock, changes it under a later one and
   computes the difference later still; the differences of the state and of the
   current node are left out.  A text too long for the history is in Long.   *)
EXTENDS Integers, Sequences, FiniteSets, SequencesExt

CONSTANTS Call,        \* calls in flight
          Key,         \* names of variables
          Short, Long, \* values; a long one is cut when it is recorded
          Cut,         \* what a long value is cut to
          None,        \* an absent variable
          MaxEntries,  \* bound: entries recorded
          MaxDrops,    \* bound: entries lost
          Limit        \* entries on a page

ASSUME HistoryAssumption ==
    /\ MaxEntries \in Nat /\ MaxDrops \in Nat /\ Limit \in Nat \ {0}
    /\ None \notin Short \cup Long \cup {Cut}

Value == Short \cup Long \cup {None}

VARIABLES
    vars,     \* the variables of the instance
    call,     \* what a call does next, what it read, the entry it appends
    entries,  \* stored entries, in the order they arrived
    retrying, \* entries in the retry queue
    clock,    \* timestamps handed out
    drops,    \* entries lost: given up, or published and never acknowledged
    unsaid    \* history: variables that no entry tells, because the instance
              \* started with them, a resumed parent took them over, the call
              \* that changed them failed or overlapped with a change of the
              \* same variable, or its entry was lost

log     == <<entries, retrying, drops>>
allVars == <<vars, call, log, clock, unsaid>>

Idle == [pc |-> "idle"]

Present(w) == {k \in Key : w[k] # None}

\* The instance was started with the variables of its caller: InstanceStarted has
\* no difference, so that no entry tells them.
Init == /\ vars \in [Key -> Value]
        /\ call = [c \in Call |-> Idle]
        /\ entries = <<>> /\ retrying = <<>> /\ clock = 0 /\ drops = 0
        /\ unsaid = Present(vars)

-----------------------------------------------------------------------------
(* The difference of two snapshots. *)

Truncate(v) == IF v \in Long THEN Cut ELSE v

Changed(old, new) == {k \in Key : old[k] # new[k]}

\* Mutant: a variable that appears is not recorded.
VariableDiffOfPresent(old, new) ==
    [removed |-> Present(old) \ Present(new),
     set     |-> [k \in Changed(old, new) \cap Present(old) \cap Present(new) |-> Truncate(new[k])]]

\* The maps added and changed, of which only the new values matter here, are one.
VariableDiff(old, new) ==
    [removed |-> Present(old) \ Present(new),
     set     |-> [k \in Changed(old, new) \cap Present(new) |-> Truncate(new[k])]]

Told(diff) == diff.removed \cup DOMAIN diff.set

\* Recorded without an earlier state.
NoDiff == [removed |-> {}, set |-> [k \in {} |-> None]]

-----------------------------------------------------------------------------
(* Calls. *)

At(c, p) == call[c].pc = p

\* Bound: the entry of a call that begins is one of the first MaxEntries.
MayBegin(c) == At(c, "idle") /\ clock + Cardinality({d \in Call : ~At(d, "idle")}) < MaxEntries

Begin(c) ==
    /\ MayBegin(c)
    /\ call' = [call EXCEPT ![c] = [pc |-> "write", old |-> vars]]
    /\ UNCHANGED <<vars, log, clock, unsaid>>

\* A child has completed.  That it has is recorded first and without a difference,
\* the variables follow after that (EndScripts).
ResumeParent(c) ==
    /\ MayBegin(c)
    /\ call' = [call EXCEPT ![c] = [pc |-> "stamp", diff |-> NoDiff, read |-> vars,
                                    then |-> [pc |-> "scripts"]]]
    /\ UNCHANGED <<vars, log, clock, unsaid>>

\* Variables that other calls are about to tell: they changed them, or a
\* difference that has no timestamp yet names them.
Telling(c) == UNION {call[d].wrote : d \in {d \in Call \ {c} : At(d, "record")}}
                \cup UNION {Told(call[d].diff) : d \in {d \in Call \ {c} : At(d, "stamp")}}

\* And those another call changed since this one read them.
Contended(c) == Changed(call[c].old, vars) \cup Telling(c)

\* A variable is set or removed, or all stay as they are; changing several at once
\* is left out (bound).
Assign == \E k \in Key, v \in Value : vars' = [vars EXCEPT ![k] = v]

\* An update, the variables of a completed task or a script listener.
Write(c) ==
    /\ At(c, "write")
    /\ Assign
    /\ call' = [call EXCEPT ![c] = [pc |-> "record", old |-> @.old,
                                    wrote |-> Changed(vars, vars')]]
    /\ unsaid' = unsaid \cup (Changed(vars, vars') \cap Contended(c))
    /\ UNCHANGED <<log, clock>>

\* A script or condition fails after the change, or the instance is gone: nothing
\* is recorded.
Fail(c) ==
    /\ At(c, "record")
    /\ call' = [call EXCEPT ![c] = Idle]
    /\ unsaid' = unsaid \cup call[c].wrote
    /\ UNCHANGED <<vars, log, clock>>

\* The difference, under the read lock.  A step of the batch that changed nothing
\* leaves no entry; one that only moved the token, or another call, does.
Record(c) ==
    /\ At(c, "record")
    /\ LET diff == VariableDiff(call[c].old, vars)
       IN \/ call' = [call EXCEPT ![c] = [pc |-> "stamp", diff |-> diff, read |-> vars,
                                          then |-> Idle]]
          \/ Told(diff) = {} /\ call' = [call EXCEPT ![c] = Idle]
    /\ UNCHANGED <<vars, log, clock, unsaid>>

\* The timestamp of the entry, after the lock: another thread may have taken one.
Stamp(c) ==
    /\ At(c, "stamp")
    /\ clock' = clock + 1
    /\ call' = [call EXCEPT ![c] =
         [pc |-> "append", entry |-> @.diff @@ [stamp |-> clock'], then |-> @.then]]
    /\ unsaid' = unsaid \ (Told(call[c].diff) \ (Changed(call[c].read, vars) \cup Telling(c)))
    /\ UNCHANGED <<vars, log>>

\* append_history_entry awaits that the message is sent, and answers Ok without
\* the acknowledgement that it is stored (publish of jetstream): the entry may be
\* lost, and then nobody tries again.
Lose(entry) ==
    /\ drops < MaxDrops /\ drops' = drops + 1
    /\ unsaid' = unsaid \cup Told(entry)

Store(entry) ==
    \/ entries' = Append(entries, entry) /\ UNCHANGED <<drops, unsaid>>
    \/ Lose(entry) /\ UNCHANGED entries

AppendHistoryEntry(c) ==
    /\ At(c, "append")
    /\ \/ Store(call[c].entry) /\ UNCHANGED retrying
       \/ retrying' = Append(retrying, call[c].entry) /\ UNCHANGED <<entries, drops, unsaid>>
    /\ call' = [call EXCEPT ![c] = call[c].then]
    /\ UNCHANGED <<vars, clock>>

\* run_end_scripts gives the parent the variables of its token, which has taken
\* those of the child.  The batch that follows compares with what it finds.
EndScripts(c) ==
    /\ At(c, "scripts")
    /\ Assign
    /\ unsaid' = unsaid \cup Changed(vars, vars')
    /\ call' = [call EXCEPT ![c] = Idle]
    /\ UNCHANGED <<log, clock>>

-----------------------------------------------------------------------------
(* The retry worker: one job at a time, in order. *)

Retry ==
    /\ retrying # <<>> /\ retrying' = Tail(retrying)
    /\ Store(Head(retrying))
    /\ UNCHANGED <<vars, call, clock>>

GiveUp ==
    /\ retrying # <<>> /\ retrying' = Tail(retrying)
    /\ Lose(Head(retrying))
    /\ UNCHANGED <<vars, call, entries, clock>>

-----------------------------------------------------------------------------
(* Queries. *)

Chronological(s) == SortSeq(s, LAMBDA a, b : a.stamp < b.stamp)

Take(s, n) == SubSeq(s, 1, IF n < Len(s) THEN n ELSE Len(s))
Drop(s, n) == SubSeq(s, n + 1, Len(s))

\* Mutant: the page is cut off before the offset is skipped.
PageCutFirst(s, offset) == Drop(Take(s, Limit), offset)
Page(s, offset)         == Take(Drop(s, offset), Limit)

\* Of the filters, the one by time.
QueryHistory(from, offset) ==
    Page(Chronological(SelectSeq(entries, LAMBDA e : e.stamp >= from)), offset)

Stamps(s) == {s[i].stamp : i \in DOMAIN s}

-----------------------------------------------------------------------------
CallStep(c) == \/ Begin(c) \/ Write(c) \/ Fail(c) \/ Record(c) \/ Stamp(c)
               \/ AppendHistoryEntry(c) \/ ResumeParent(c) \/ EndScripts(c)

Next == \/ \E c \in Call : CallStep(c)
        \/ Retry \/ GiveUp

Spec == Init /\ [][Next]_allVars

-----------------------------------------------------------------------------
(* Properties. *)

Replay(w, entry) == entry.set @@ [k \in entry.removed |-> None] @@ w

\* Whoever replays the history of an instance at rest finds its variables, other
\* than those that are in no entry from the start, however late an entry was stored,
\* and also when calls overlapped, as long as they did not change the same variable:
\* the differences that calculate_diff takes to what a call read, ordered by their
\* timestamps, lose no change.
HistoryTellsVariables ==
    (retrying = <<>> /\ \A c \in Call : At(c, "idle")) =>
        LET told == FoldLeft(Replay, [k \in Key |-> None], Chronological(entries))
        IN \A k \in Key \ unsaid : told[k] = Truncate(vars[k])

\* The pages of a filtered query, and the entries on some of them.
Pages(from)   == [n \in 0..MaxEntries |-> Stamps(QueryHistory(from, n * Limit))]
On(pages, ns) == UNION {pages[n] : n \in ns}

\* A client that has read some pages of query_history finds on the pages that
\* follow every entry that was stored and not on those it read, even when another
\* entry, late or not, is stored before it goes on.
PagesMissNothing ==
    [][entries # entries' =>
         \A from \in 1..2 :
           LET before == Pages(from)
               after  == Pages(from)'
               stored == Stamps(SelectSeq(entries, LAMBDA e : e.stamp >= from))
           IN \A n \in 0..MaxEntries :
                stored \ On(before, 0..(n - 1)) \subseteq On(after, n..MaxEntries)]_entries
=============================================================================
