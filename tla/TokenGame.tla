------------------------------ MODULE TokenGame ------------------------------
(***************************************************************************)
(* What executing a process graph promises: the token game.  Every node    *)
(* consumes a token and produces one on each flow it takes, a gateway with *)
(* several incoming flows waits until it has a token for each of them, and *)
(* the process is over when, and only when, no token is left.              *)
(***************************************************************************)
EXTENDS Naturals

CONSTANTS
  Node,       \* nodes of the graph
  Start,      \* the start event
  Ends,      \* the end events
  Joins,     \* gateways that synchronise their incoming flows
  Inflow,   \* number of incoming flows of each node
  Outcomes     \* per node, the sets of targets it may go on to

VARIABLES waiting,  \* tokens at each node
          ready,    \* joins that have fired at each node and not gone on
          over      \* whether the process has ended

vars == <<waiting, ready, over>>

Init == /\ waiting = [n \in Node |-> IF n = Start THEN 1 ELSE 0]
        /\ ready = [n \in Node |-> 0]
        /\ over = FALSE

Produce(tokens, targets) == [n \in Node |-> IF n \in targets THEN tokens[n] + 1
                                                            ELSE tokens[n]]

Move(n) == /\ n \notin Joins \cup Ends
           /\ waiting[n] > 0
           /\ \E targets \in Outcomes[n] :
                waiting' = Produce([waiting EXCEPT ![n] = @ - 1], targets)
           /\ UNCHANGED <<ready, over>>

Synchronise(n) == /\ n \in Joins
                  /\ waiting[n] >= Inflow[n]
                  /\ waiting' = [waiting EXCEPT ![n] = @ - Inflow[n]]
                  /\ ready' = [ready EXCEPT ![n] = @ + 1]
                  /\ UNCHANGED over

LeaveJoin(n) == /\ ready[n] > 0
                /\ ready' = [ready EXCEPT ![n] = @ - 1]
                /\ \E targets \in Outcomes[n] : waiting' = Produce(waiting, targets)
                /\ UNCHANGED over

End(n) == /\ n \in Ends
          /\ waiting[n] > 0
          /\ waiting' = [waiting EXCEPT ![n] = @ - 1]
          /\ UNCHANGED <<ready, over>>

Close == /\ \A n \in Node : waiting[n] = 0 /\ ready[n] = 0
         /\ over' = TRUE
         /\ UNCHANGED <<waiting, ready>>

Next == Close \/ \E n \in Node : Move(n) \/ Synchronise(n) \/ LeaveJoin(n) \/ End(n)

Spec == Init /\ [][Next]_vars
==============================================================================
