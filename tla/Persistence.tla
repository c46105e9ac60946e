---------------------------- MODULE Persistence ----------------------------
(***************************************************************************)
(* What the engine keeps in memory and what it keeps in the store: the     *)
(* rows of the instances and of their pending entries, the retries of a    *)
(* failed write (first in line, then by the background worker), the crash, *)
(* the orderly shutdown and the restore on boot.                           *)
(*                                                                         *)
(* A token goes through the waits of Route.  The operation that ends a     *)
(* wait is a program: the sequence of memory steps and store calls its     *)
(* handler makes, in the order of the source.  One step runs one of them.  *)
(***************************************************************************)
EXTENDS Integers, Sequences, FiniteSets, SequencesExt

CONSTANTS
  Instance, Token,
  InstOf,        \* the instance of each token
  Route,         \* sequence of the waits of a token: "task" or "gateway"
  First,         \* the wait each token is parked at initially
  BoundaryAt,    \* the waits with an interrupting boundary timer
  Terminating,   \* tokens whose last node is a terminate end event
  Call,          \* operations in flight: HTTP requests ...
  Loop,          \* ... and the server's timer loop
  InlineRetries, \* INLINE_RETRIES: further attempts within the call
  MaxRetries,    \* MAX_RETRIES: attempts of the worker for one job
  MaxFailures,   \* bound: store calls that fail, ...
  Frail,         \* ... and the rows they are about
  MaxCrashes,    \* bound: crashes and shutdowns
  MaxCopies,     \* bound: names of the entries of one wait of a token
  NoJob

Wait  == 1..Len(Route)
Ended == Len(Route) + 1
Nowhere == 0                       \* in the hands of a call
Part  == {"main", "other", "boundary"}
Copy  == 0..MaxCopies              \* a new entry has an id of its own
Entry == Token \X Wait \X Part \X Copy
Row   == Instance \cup Entry
Job   == [do : {"save", "delete"}, row : Row]
Shutdown == [do |-> "shutdown"]

ASSUME RouteAssumption ==
  /\ Route \in Seq({"task", "gateway"}) /\ InstOf \in [Token -> Instance] /\ First \in [Token -> Wait]
  /\ Terminating \subseteq Token
  /\ \A n \in BoundaryAt : n \in Wait /\ Route[n] = "task"
ASSUME RetryAssumption == InlineRetries \in Nat /\ MaxRetries \in Nat \ {0}
ASSUME LoopAssumption  == Loop \in Call /\ NoJob \notin Job \cup {Shutdown}
ASSUME BoundsAssumption == MaxFailures \in Nat /\ MaxCrashes \in Nat /\ MaxCopies \in Nat
ASSUME NamesAssumption == Instance \cap Token = {} /\ (Instance \cup Token) \cap Entry = {}

VARIABLES
  live,      \* keys of the instance store
  at,        \* where each token is
  closed,    \* instances in state Completed
  pending,   \* keys of the four maps of pending entries
  saved,     \* keys of the bucket "instances" ...
  savedAt, savedClosed,   \* ... and their contents
  rows,      \* keys of the buckets of user and service tasks, timers and messages
  ops,       \* per call: the steps it has still to take
  tries,     \* attempts that failed of the store call at its head
  queue,     \* the channel of PersistJobs
  worker,    \* the retry worker: its job, attempts made, instance found
  running,   \* "up", "draining", "flushing", "down", "crashed"
  sweeping,  \* the timer loop has not ended
  failures, crashes,      \* counters of the bounds
  stray,     \* history: rows given up, or written behind the engine's back
  exposed    \* history: tokens that a crash caught between two steps

memVars   == <<live, at, closed, pending>>
diskVars  == <<saved, savedAt, savedClosed, rows>>
callVars  == <<ops, tries>>
workVars  == <<queue, worker>>
modeVars  == <<running, sweeping, crashes>>
ghostVars == <<stray, exposed>>
vars == <<memVars, diskVars, callVars, workVars, modeVars, failures, ghostVars>>

InstanceOf(r)  == IF r \in Instance THEN r ELSE IF r \in Token THEN InstOf[r] ELSE InstOf[r[1]]
TokensOf(i)    == {t \in Token : InstOf[t] = i}
EntriesOf(i)   == {e \in Entry : InstOf[e[1]] = i}
Parts(n)       == {"main"} \cup (IF Route[n] = "gateway" THEN {"other"} ELSE {})
                           \cup (IF n \in BoundaryAt THEN {"boundary"} ELSE {})
Idle           == [job |-> NoJob, attempt |-> 0, found |-> FALSE]
Exited         == [job |-> Shutdown, attempt |-> 0, found |-> FALSE]

\* The tokens are parked and their rows written.
Init ==
  /\ live = Instance
  /\ at = First
  /\ closed = {}
  /\ pending = {e \in Entry : e[2] = at[e[1]] /\ e[4] = 0 /\ e[3] \in Parts(e[2])}
  /\ saved = Instance
  /\ savedAt = at
  /\ savedClosed = {}
  /\ rows = {e \in pending : e[3] # "boundary"}
  /\ ops = [c \in Call |-> <<>>]
  /\ tries = [c \in Call |-> 0]
  /\ queue = <<>>
  /\ worker = Idle
  /\ running = "up"
  /\ sweeping = TRUE
  /\ failures = 0 /\ crashes = 0
  /\ stray = {} /\ exposed = {}

----------------------------------------------------------------------------
(***************************************************************************)
(* The store: rows put and deleted, each call of which may fail.  A call   *)
(* that fails by a timeout may have had its effect.                        *)
(***************************************************************************)
WriteInstance(do, i) ==
  /\ saved' = IF do = "save" THEN saved \cup {i} ELSE saved \ {i}
  /\ savedAt' = [t \in Token |-> IF do = "save" /\ InstOf[t] = i THEN at[t] ELSE savedAt[t]]
  /\ savedClosed' = IF do = "save" THEN (savedClosed \ {i}) \cup (closed \cap {i}) ELSE savedClosed
  /\ UNCHANGED rows

WriteEntry(do, e) ==
  /\ rows' = IF do = "save" THEN rows \cup {e} ELSE rows \ {e}
  /\ UNCHANGED <<saved, savedAt, savedClosed>>

Write(do, r) == IF r \in Instance THEN WriteInstance(do, r) ELSE WriteEntry(do, r)

WriteFails(do, r) ==
  /\ failures < MaxFailures /\ r \in Frail
  /\ failures' = failures + 1
  /\ Write(do, r) \/ UNCHANGED diskVars

\* A job sent after the worker has gone is lost.
Enqueue(job) == IF worker = Exited THEN queue ELSE Append(queue, job)

----------------------------------------------------------------------------
(***************************************************************************)
(* The programs.                                                           *)
(***************************************************************************)
Order(do, r)    == [do |-> do, row |-> r]
Op(do, r, rest) == <<Order(do, r)>> \o rest

\* persist_instance looks the instance up, then waits for its lock.
PersistInstance(i) == Op("fetch", i, Op("write", i, <<>>))

\* The handler arms the boundary event and parks the token, the executor then
\* inserts and saves the entries and the instance.  Nothing saves the boundary
\* event.  (The flush that ends the batch repeats the last write.)
Enter(t, n, k) ==
  LET e(part) == <<t, n, part, k>>
      Saved(part, rest) == Op("insert", e(part), Op("save", e(part), rest))
      Alternatives ==
        IF Route[n] = "gateway" THEN Saved("other", PersistInstance(InstOf[t]))
                                ELSE PersistInstance(InstOf[t])
      Parked == Op("park", e("main"), Saved("main", Alternatives))
  IN IF n = Ended
     THEN Op(IF t \in Terminating THEN "terminate" ELSE "end", t, PersistInstance(InstOf[t]))
     ELSE IF n \in BoundaryAt THEN Op("insert", e("boundary"), Parked) ELSE Parked

Sibling(e, part) == [e EXCEPT ![3] = part]

\* Mutant: the row goes when the batch has parked the token again.
LeaveTaskLater(e, k) ==
  Op("take", e, Op("drop", Sibling(e, "boundary"),
     Enter(e[1], e[2] + 1, k) \o Op("delete", e, <<>>)))

\* A user task is completed: its row goes before the token moves on.
LeaveTask(e, k) ==
  Op("take", e, Op("delete", e, Op("drop", Sibling(e, "boundary"), Enter(e[1], e[2] + 1, k))))

\* An alternative of a gateway: the others are cleared first, with a single
\* attempt to delete their rows.
LeaveGateway(e, k) ==
  LET other == Sibling(e, IF e[3] = "main" THEN "other" ELSE "main")
  IN Op("drop", other, Op("forget", other,
        Op("take", e, Op("delete", e, Enter(e[1], e[2] + 1, k)))))

\* An interrupting boundary timer: the pending task goes first.
LeaveByBoundary(e, k) ==
  LET task == Sibling(e, "main")
  IN Op("take", e, Op("drop", task, Op("delete", task, Enter(e[1], e[2] + 1, k))))

Program(e, k) ==
  CASE e[3] = "boundary"       -> LeaveByBoundary(e, k)
    [] Route[e[2]] = "gateway" -> LeaveGateway(e, k)
    [] OTHER                   -> LeaveTask(e, k)

DeleteProgram(i) == Op("sweep", i, Op("erase", i, Op("purge", i, <<>>)))

----------------------------------------------------------------------------
Working == worker.job \notin {NoJob, Shutdown}
JobRows == {j.row : j \in Range(queue) \ {Shutdown}}
           \cup (IF Working THEN {worker.job.row} ELSE {})

\* The ids are names: the next wait of a token has the first that nothing uses.
Used(e) == \/ e \in pending \cup rows \cup stray \cup JobRows
           \/ \E c \in Call : \E o \in Range(ops[c]) : o.row = e
New(t, n, k) == \A part \in Part : ~Used(<<t, n, part, k>>)

Head1(c, do)  == ops[c] # <<>> /\ Head(ops[c]).do = do
RowOf(c)      == Head(ops[c]).row
Advance(c)    == ops' = [ops EXCEPT ![c] = Tail(@)] /\ tries' = [tries EXCEPT ![c] = 0]

\* The write guard of an instance and the guard of an entry are kept over the
\* backoff between two attempts.
Guarded(r) == \E c \in Call : tries[c] > 0 /\ RowOf(c) = r
                              /\ (Head1(c, "write") \/ Head1(c, "save"))

\* An error ends the call; the deletes it had still to make are not made.
Abort(c) ==
  /\ ops' = [ops EXCEPT ![c] = <<>>] /\ tries' = [tries EXCEPT ![c] = 0]
  /\ stray' = stray \cup {o.row : o \in {p \in Range(ops[c]) : p.do = "delete"}}
  /\ UNCHANGED <<memVars, exposed>>

Begin(c, program) ==
  /\ ops[c] = <<>>
  /\ ops' = [ops EXCEPT ![c] = program]
  /\ UNCHANGED <<tries, diskVars, workVars, modeVars, failures, ghostVars>>

\* Two events of one wait at once are the matter of WaitStates.
Handled(t) == \E c \in Call : \E o \in Range(ops[c]) : o.row = t \/ (o.row \in Entry /\ o.row[1] = t)

\* A call ends a wait: it takes the entry out of its map.
Complete(c, e) ==
  /\ e \in pending /\ ~Guarded(e) /\ ~Handled(e[1])
  /\ IF e[3] = "main" THEN c # Loop /\ running = "up" ELSE c = Loop /\ sweeping
  /\ pending' = pending \ {e}
  /\ UNCHANGED <<live, at, closed>>
  /\ \E k \in Copy : /\ New(e[1], e[2] + 1, k) /\ \A j \in 0..(k - 1) : ~New(e[1], e[2] + 1, j)
                    /\ Begin(c, Program(e, k))

DeleteInstance(c, i) ==
  /\ c # Loop /\ running = "up"
  /\ i \in live
  /\ live' = live \ {i}
  /\ UNCHANGED <<at, closed, pending>>
  /\ Begin(c, DeleteProgram(i))

TakeToken(c) ==
  /\ Head1(c, "take")
  /\ LET t == RowOf(c)[1]
         i == InstOf[t]
     IN IF i \in live /\ at[t] \in Wait
        THEN /\ ~Guarded(i)
             /\ at' = [at EXCEPT ![t] = Nowhere]
             /\ closed' = closed \ {i}
             /\ Advance(c)
             /\ UNCHANGED <<live, pending, ghostVars>>
        ELSE Abort(c)
  /\ UNCHANGED <<diskVars, workVars, modeVars, failures>>

ParkToken(c) ==
  /\ Head1(c, "park")
  /\ LET t == RowOf(c)[1]
     IN IF InstOf[t] \in live
        THEN /\ ~Guarded(InstOf[t])
             /\ at' = [at EXCEPT ![t] = RowOf(c)[2]]
             /\ Advance(c)
             /\ UNCHANGED <<live, closed, pending, ghostVars>>
        ELSE Abort(c)
  /\ UNCHANGED <<diskVars, workVars, modeVars, failures>>

\* The entries of the maps: inserted when a wait begins, dropped when another
\* event ended it.
EditPending(c) ==
  /\ \/ Head1(c, "insert") /\ pending' = pending \cup {RowOf(c)}
     \/ Head1(c, "drop") /\ ~Guarded(RowOf(c)) /\ pending' = pending \ {RowOf(c)}
  /\ Advance(c)
  /\ UNCHANGED <<live, at, closed, diskVars, workVars, modeVars, failures, ghostVars>>

\* An end event; the last token to end closes the instance.
EndToken(c) ==
  /\ Head1(c, "end")
  /\ LET t == RowOf(c)
         i == InstOf[t]
     IN IF i \in live
        THEN /\ ~Guarded(i)
             /\ at' = [at EXCEPT ![t] = Ended]
             /\ closed' = IF \A u \in TokensOf(i) \ {t} : at[u] = Ended THEN closed \cup {i} ELSE closed
             /\ Advance(c)
             /\ UNCHANGED <<live, pending, ghostVars>>
        ELSE Abort(c)
  /\ UNCHANGED <<diskVars, workVars, modeVars, failures>>

\* A terminate end event clears the maps of the instance, and no row.
Terminate(c) ==
  /\ Head1(c, "terminate")
  /\ LET t == RowOf(c)
         i == InstOf[t]
     IN /\ \A e \in EntriesOf(i) : ~Guarded(e)
        /\ ~Guarded(i)
        /\ pending' = pending \ EntriesOf(i)
        /\ stray' = stray \cup (pending \cap EntriesOf(i))
        /\ exposed' = exposed \cup TokensOf(i)
        /\ at' = [at EXCEPT ![t] = Ended]
        /\ closed' = closed \cup {i}
  /\ Advance(c)
  /\ UNCHANGED <<live, diskVars, workVars, modeVars, failures>>

----------------------------------------------------------------------------
(***************************************************************************)
(* Store calls, with the retries in line and the hand-over to the worker.  *)
(***************************************************************************)
KindOf(do) == IF do = "delete" THEN "delete" ELSE "save"

\* persist_*: nothing to save when the entry or the instance is gone.
SkipSave(c) ==
  /\ \/ Head1(c, "save") /\ RowOf(c) \notin pending /\ Advance(c)
     \/ Head1(c, "fetch") /\ Advance(c) /\ RowOf(c) \in live
     \/ /\ Head1(c, "fetch") /\ RowOf(c) \notin live
        /\ ops' = [ops EXCEPT ![c] = Tail(Tail(@))] /\ UNCHANGED tries
  /\ UNCHANGED <<memVars, diskVars, workVars, modeVars, failures, ghostVars>>

Storing(c) ==
  \/ Head1(c, "delete")
  \/ Head1(c, "save") /\ RowOf(c) \in pending
  \/ Head1(c, "write") /\ (tries[c] > 0 \/ ~Guarded(RowOf(c)))

\* Mutant: off by one.
RetriesLeftOneMore(c) == tries[c] <= InlineRetries

RetriesLeft(c) == tries[c] < InlineRetries

\* A row that is written for an instance the store no longer holds.
Astray(do, r) == IF do = "write" /\ r \notin live THEN {r} ELSE {}

Store(c) ==
  /\ Storing(c)
  /\ LET do == Head(ops[c]).do
         r  == RowOf(c)
     IN \/ /\ Write(KindOf(do), r)
           /\ Advance(c)
           /\ stray' = stray \cup Astray(do, r)
           /\ UNCHANGED <<workVars, failures, exposed>>
        \/ /\ WriteFails(KindOf(do), r)
           /\ RetriesLeft(c)
           /\ tries' = [tries EXCEPT ![c] = @ + 1]
           /\ stray' = stray \cup Astray(do, r)
           /\ UNCHANGED <<ops, workVars, exposed>>
        \/ /\ WriteFails(KindOf(do), r)
           /\ ~RetriesLeft(c)
           /\ Advance(c)
           /\ queue' = Enqueue(Order(KindOf(do), r))
           /\ stray' = stray \cup Astray(do, r) \cup (IF worker = Exited THEN {r} ELSE {})
           /\ UNCHANGED <<worker, exposed>>
  /\ UNCHANGED <<memVars, modeVars>>

\* One attempt, no retry: the row of a cancelled alternative.
Forget(c) ==
  /\ Head1(c, "forget")
  /\ \/ Write("delete", RowOf(c)) /\ UNCHANGED <<failures, stray>>
     \/ WriteFails("delete", RowOf(c)) /\ stray' = stray \cup {RowOf(c)}
  /\ Advance(c)
  /\ UNCHANGED <<memVars, workVars, modeVars, exposed>>

\* delete_instance waits for a write that is under way, then deletes the row of
\* every entry it finds, errors ignored ...
SweepRows(c) ==
  /\ Head1(c, "sweep") /\ ~Guarded(RowOf(c))
  /\ LET found == pending \cap EntriesOf(RowOf(c))
     IN \/ rows' = rows \ found /\ UNCHANGED <<failures, stray>>
        \/ /\ failures < MaxFailures /\ failures' = failures + 1
           /\ \E kept \in SUBSET (found \cap Frail) \ {{}} :
                rows' = rows \ (found \ kept) /\ stray' = stray \cup kept
  /\ Advance(c)
  /\ UNCHANGED <<memVars, saved, savedAt, savedClosed, workVars, modeVars, exposed>>

\* ... then that of the instance, where an error ends the call ...
EraseInstance(c) ==
  /\ Head1(c, "erase")
  /\ \/ /\ Write("delete", RowOf(c))
        /\ Advance(c)
        /\ UNCHANGED <<failures, stray>>
     \/ /\ WriteFails("delete", RowOf(c))
        /\ ops' = [ops EXCEPT ![c] = <<>>] /\ UNCHANGED tries
        /\ stray' = stray \cup {RowOf(c)} \cup EntriesOf(RowOf(c))
  /\ UNCHANGED <<memVars, workVars, modeVars, exposed>>

\* ... and last the maps, where entries may have come since the sweep.
PurgeEntries(c) ==
  /\ Head1(c, "purge")
  /\ \A e \in EntriesOf(RowOf(c)) : ~Guarded(e)
  /\ pending' = pending \ EntriesOf(RowOf(c))
  /\ stray' = stray \cup (pending \cap rows \cap EntriesOf(RowOf(c)))
  /\ Advance(c)
  /\ UNCHANGED <<live, at, closed, diskVars, workVars, modeVars, failures, exposed>>

----------------------------------------------------------------------------
(***************************************************************************)
(* The retry worker: one job at a time, in order.  A save job holds no     *)
(* content; it saves what the engine has now.                              *)
(***************************************************************************)
Receive ==
  /\ worker = Idle /\ queue # <<>>
  /\ queue' = Tail(queue)
  /\ worker' = IF Head(queue) = Shutdown THEN Exited ELSE [Idle EXCEPT !.job = Head(queue)]
  /\ stray' = IF Head(queue) = Shutdown
              THEN stray \cup {j.row : j \in Range(Tail(queue)) \ {Shutdown}} ELSE stray
  /\ UNCHANGED <<memVars, diskVars, callVars, modeVars, failures, exposed>>

\* Mutant: the worker looks for every entity in the instance store.
GoneFromStore(job) == job.do = "save" /\ job.row \notin live

Gone(job) == job.do = "save" /\ job.row \notin live \cup pending

SkipJob ==
  /\ Working /\ Gone(worker.job) /\ ~worker.found
  /\ worker' = Idle
  /\ UNCHANGED <<memVars, diskVars, callVars, queue, modeVars, failures, ghostVars>>

\* A save of an instance first gets its Arc, then its lock.
FindInstance ==
  /\ Working /\ worker.job.do = "save" /\ worker.job.row \in live /\ ~worker.found
  /\ worker' = [worker EXCEPT !.found = TRUE]
  /\ UNCHANGED <<memVars, diskVars, callVars, queue, modeVars, failures, ghostVars>>

ExecuteJob ==
  /\ Working
  /\ LET do == worker.job.do
         r  == worker.job.row
         beside == IF do = "save" /\ r \in Instance \ live THEN {r} ELSE {}
     IN /\ do = "save" => IF r \in Instance THEN worker.found /\ ~Guarded(r) ELSE r \in pending
        /\ \/ /\ Write(do, r)
              /\ worker' = Idle
              /\ stray' = stray \cup beside
              /\ UNCHANGED failures
           \/ /\ WriteFails(do, r)
              /\ IF worker.attempt + 1 < MaxRetries
                 THEN /\ worker' = [worker EXCEPT !.attempt = @ + 1, !.found = FALSE]
                      /\ stray' = stray \cup beside
                 ELSE worker' = Idle /\ stray' = stray \cup {r}
  /\ UNCHANGED <<memVars, callVars, queue, modeVars, exposed>>

----------------------------------------------------------------------------
(***************************************************************************)
(* Shutdown, crash and restore.                                            *)
(***************************************************************************)
Signal ==
  /\ running = "up" /\ crashes < MaxCrashes
  /\ running' = "draining"
  /\ crashes' = crashes + 1
  /\ UNCHANGED <<memVars, diskVars, callVars, workVars, sweeping, failures, ghostVars>>

EndSweep ==
  /\ running # "up" /\ sweeping /\ ops[Loop] = <<>>
  /\ sweeping' = FALSE
  /\ UNCHANGED <<memVars, diskVars, callVars, workVars, running, crashes, failures, ghostVars>>

\* Mutant: the worker is stopped with the jobs it has not yet taken.
FlushQueueAtOnce ==
  /\ running = "draining" /\ \A c \in Call \ {Loop} : ops[c] = <<>>
  /\ running' = "flushing" /\ queue' = <<>>
  /\ worker' = Exited
  /\ UNCHANGED <<memVars, diskVars, callVars, sweeping, crashes, failures, ghostVars>>

\* The last request is answered: engine.shutdown sends the job that ends the
\* worker behind those that wait.
FlushQueue ==
  /\ running = "draining" /\ \A c \in Call \ {Loop} : ops[c] = <<>>
  /\ running' = "flushing"
  /\ queue' = Append(queue, Shutdown)
  /\ UNCHANGED <<memVars, diskVars, callVars, worker, sweeping, crashes, failures, ghostVars>>

\* The timer loop is awaited after the worker.
Stop ==
  /\ running = "flushing" /\ worker = Exited /\ ~sweeping
  /\ running' = "down"
  /\ UNCHANGED <<memVars, diskVars, callVars, workVars, sweeping, crashes, failures, ghostVars>>

Doing(i) == \E c \in Call : \E o \in Range(ops[c]) : InstanceOf(o.row) = i
Busy(r)  == \/ r \in JobRows
            \/ \E c \in Call : \E o \in Range(ops[c]) :
                 \/ o.row = r
                 \/ o.do \in {"sweep", "erase", "purge"} /\ o.row = InstanceOf(r)

Crash ==
  /\ running # "down" /\ running # "crashed" /\ crashes < MaxCrashes
  /\ running' = "crashed"
  /\ crashes' = crashes + 1
  /\ sweeping' = FALSE
  /\ ops' = [c \in Call |-> <<>>] /\ tries' = [c \in Call |-> 0]
  /\ queue' = <<>> /\ worker' = Idle
  /\ stray' = stray \cup JobRows
  /\ exposed' = exposed \cup
       {t \in Token : Doing(InstOf[t]) \/ \E r \in JobRows : InstanceOf(r) = InstOf[t]}
  /\ UNCHANGED <<memVars, diskVars, failures>>

Strayed(t) == \E r \in stray : r = InstOf[t] \/ (r \in Entry /\ r[1] = t)

\* What restore_instance and its siblings put back into the maps.
LoadRows(instances, entries) ==
  /\ live' = IF instances THEN saved ELSE {}
  /\ at' = savedAt /\ closed' = savedClosed
  /\ pending' = IF entries THEN rows ELSE {}

\* A bucket that cannot be listed counts as empty.
Restore ==
  /\ running \in {"down", "crashed"}
  /\ running' = "up" /\ sweeping' = TRUE
  /\ queue' = <<>> /\ worker' = Idle
  /\ \/ /\ LoadRows(TRUE, TRUE)
        /\ exposed' = exposed \cup {t \in Token : Strayed(t)}
        /\ UNCHANGED <<failures, stray>>
     \/ /\ failures < MaxFailures /\ failures' = failures + 1
        /\ \/ LoadRows(FALSE, TRUE) /\ stray' = stray \cup saved
           \/ LoadRows(TRUE, FALSE) /\ stray' = stray \cup rows
        /\ exposed' = Token
  /\ UNCHANGED <<diskVars, callVars, crashes>>

----------------------------------------------------------------------------
CallStep(c) ==
  \/ TakeToken(c) \/ ParkToken(c) \/ EditPending(c) \/ EndToken(c) \/ Terminate(c)
  \/ SkipSave(c) \/ Store(c) \/ Forget(c)
  \/ SweepRows(c) \/ EraseInstance(c) \/ PurgeEntries(c)

WorkerStep == Receive \/ SkipJob \/ FindInstance \/ ExecuteJob

Next ==
  \/ \E c \in Call : CallStep(c)
  \/ \E c \in Call, e \in Entry : Complete(c, e)
  \/ \E c \in Call, i \in Instance : DeleteInstance(c, i)
  \/ WorkerStep
  \/ Signal \/ EndSweep \/ FlushQueue \/ Stop \/ Crash \/ Restore

Spec == Init /\ [][Next]_vars

----------------------------------------------------------------------------
TypeOK ==
  /\ live \subseteq Instance /\ saved \subseteq Instance
  /\ closed \subseteq Instance /\ savedClosed \subseteq Instance
  /\ at \in [Token -> 0..Ended] /\ savedAt \in [Token -> 0..Ended]
  /\ pending \subseteq Entry /\ rows \subseteq Entry
  /\ DOMAIN ops = Call /\ tries \in [Call -> 0..InlineRetries]
  /\ queue \in Seq(Job \cup {Shutdown})
  /\ worker \in [job : Job \cup {NoJob, Shutdown}, attempt : 0..(MaxRetries - 1), found : BOOLEAN]
  /\ running \in {"up", "draining", "flushing", "down", "crashed"} /\ sweeping \in BOOLEAN
  /\ failures \in 0..MaxFailures /\ crashes \in 0..MaxCrashes
  /\ stray \subseteq Row /\ exposed \subseteq Token

\* A row nobody is working on, and no retry is due for, says what the engine
\* has in memory: the writes, their retries and the deletes of one row take
\* effect in the right order, also across an orderly shutdown.
StoreFollowsMemory ==
  running # "crashed" =>
    \A r \in Row \ stray : ~Busy(r) =>
      IF r \in Instance
      THEN /\ r \in live <=> r \in saved
           /\ r \in live => /\ \A t \in TokensOf(r) : savedAt[t] = at[t]
                            /\ r \in closed <=> r \in savedClosed
      ELSE r[3] # "boundary" => (r \in pending <=> r \in rows)

\* Whenever the server dies, no wait is stored that its token, as stored, has
\* left: a restart does not repeat work, unless a delete was still to be retried.
NoWorkRepeated ==
  \A e \in rows :
    InstOf[e[1]] \in saved /\ savedAt[e[1]] > e[2] /\ e[1] \notin exposed
      => e \in stray \cup JobRows

Settled(t) == running = "up" /\ InstOf[t] \in live \ closed /\ at[t] \in Wait
              /\ ~Handled(t) /\ t \notin exposed

\* A token that waits can be moved on, after a restart too if the crash did not
\* catch it between two steps.
WaitsCanEnd ==
  \A t \in Token : Settled(t) =>
    \E e \in pending : e[1] = t /\ e[2] = at[t] /\ e[3] # "boundary"
=============================================================================
