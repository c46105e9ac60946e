------------------------------ MODULE TokenLife ------------------------------
(***************************************************************************)
(* What the engine promises about a token that visits service tasks, with  *)
(* no calls, queues or instances: the token lives one sequential life.  It *)
(* is open to workers, then claimed by exactly one call, then either open  *)
(* again under the same lock (the call was refused) or moving, and from    *)
(* there open at its next task or gone for good.  While it is open, only   *)
(* the holder of an unexpired lock keeps other workers away.               *)
(***************************************************************************)
CONSTANTS Token, Worker, NoWorker

VARIABLES phase,    \* where each token is in its life
          holder,   \* the worker that locked the task of an open token
          live      \* whether that lock has not expired

vars == <<phase, holder, live>>

Phase == {"open", "claimed", "moving", "gone"}

Init == /\ phase  = [k \in Token |-> "open"]
        /\ holder = [k \in Token |-> NoWorker]
        /\ live   = [k \in Token |-> FALSE]

Move(k, from, to) == phase[k] = from /\ phase' = [phase EXCEPT ![k] = to]

Unlocked(k) == /\ holder' = [holder EXCEPT ![k] = NoWorker]
               /\ live'   = [live EXCEPT ![k] = FALSE]

\* A worker is given open tokens that nobody holds; a lock of no duration has
\* expired at once.
Acquire(w, batch, lasting) ==
  /\ \A k \in batch : phase[k] = "open" /\ ~live[k]
  /\ holder' = [k \in Token |-> IF k \in batch THEN w ELSE holder[k]]
  /\ live'   = [k \in Token |-> IF k \in batch THEN lasting ELSE live[k]]
  /\ UNCHANGED phase

\* The holder may extend a lock it lost to time only, even after it expired.
Renew(k, lasting) == /\ phase[k] = "open" /\ holder[k] # NoWorker
                     /\ live' = [live EXCEPT ![k] = lasting]
                     /\ UNCHANGED <<phase, holder>>

Release(k) == phase[k] = "open" /\ Unlocked(k) /\ UNCHANGED phase

Expire(batch) ==
  /\ live' = [k \in Token |-> live[k] /\ k \notin batch]
  /\ UNCHANGED <<phase, holder>>

Claim(k)   == Move(k, "open", "claimed")  /\ UNCHANGED <<holder, live>>
Refuse(k)  == Move(k, "claimed", "open")  /\ UNCHANGED <<holder, live>>
Take(k)    == Move(k, "claimed", "moving") /\ Unlocked(k)
Drop(k)    == Move(k, "claimed", "gone")  /\ Unlocked(k)
Park(k)    == Move(k, "moving", "open")   /\ UNCHANGED <<holder, live>>
Finish(k)  == Move(k, "moving", "gone")   /\ UNCHANGED <<holder, live>>

\* The tasks of a deleted instance are withdrawn.
Withdraw(batch) ==
  /\ \A k \in batch : phase[k] = "open"
  /\ phase'  = [k \in Token |-> IF k \in batch THEN "gone" ELSE phase[k]]
  /\ holder' = [k \in Token |-> IF k \in batch THEN NoWorker ELSE holder[k]]
  /\ live'   = [k \in Token |-> live[k] /\ k \notin batch]

Next ==
  \/ \E batch \in SUBSET Token :
       \/ \E w \in Worker, lasting \in BOOLEAN : Acquire(w, batch, lasting)
       \/ Expire(batch)
       \/ Withdraw(batch)
  \/ \E k \in Token :
       \/ \E lasting \in BOOLEAN : Renew(k, lasting)
       \/ Release(k) \/ Claim(k) \/ Refuse(k) \/ Take(k) \/ Drop(k)
       \/ Park(k) \/ Finish(k)

Spec == Init /\ [][Next]_vars
==============================================================================
