------------------------------ MODULE JoinSearch ------------------------------
(***************************************************************************)
(* find_downstream_join: the breadth-first search that decides, when a     *)
(* gateway forks, at which join its branches will meet.  Each element of   *)
(* the search queue is a node with the number of splits of the same type   *)
(* that are still to be closed.                                            *)
(***************************************************************************)
EXTENDS Naturals, FiniteSets, Sequences, Functions, SequencesExt

CONSTANT NoNode

\* A graph: its nodes, the kind of each and the targets of its outgoing flows.
IncomingFlowCount(g, n) ==
  Cardinality({<<m, j>> \in g.node \X (1..Cardinality(g.node)) :
                 j <= Len(g.flow[m]) /\ g.flow[m][j] = n})
IsJoinGateway(g, n)  == IncomingFlowCount(g, n) >= 2

\* Mutant: a gateway with two flows is not yet taken for a split.
WideSplitGateway(g, n) == /\ g.kind[n] \in {"exclusive", "inclusive", "parallel", "complex"}
                          /\ Len(g.flow[n]) > 2

IsSplitGateway(g, n) == /\ g.kind[n] \in {"exclusive", "inclusive", "parallel", "complex"}
                        /\ Len(g.flow[n]) >= 2

\* Complex gateways have no type of their own here.
SameGatewayType(a, b) == a = b /\ a \in {"exclusive", "inclusive", "parallel"}

Level(nodes, depth) == [j \in DOMAIN nodes |-> [node |-> nodes[j], depth |-> depth]]

Begin(g, split) == [visited |-> {}, queue |-> Level(g.flow[split], 1), found |-> NoNode]

Searching(s) == s.queue # <<>> /\ s.found = NoNode

\* One iteration of the loop.
Iterate(g, split, s) ==
  LET node  == Head(s.queue).node
      depth == Head(s.queue).depth
      same  == SameGatewayType(g.kind[split], g.kind[node])
      Push(d) == [visited |-> s.visited \cup {node}, found |-> NoNode,
                  queue |-> Tail(s.queue) \o Level(g.flow[node], d)]
  IN
  CASE node \in s.visited                -> [s EXCEPT !.queue = Tail(@)]
    [] node \notin s.visited /\ same /\ IsJoinGateway(g, node) ->
         IF depth = 1 THEN [s EXCEPT !.found = node] ELSE Push(depth - 1)
    [] node \notin s.visited /\ same /\ ~IsJoinGateway(g, node)
         /\ IsSplitGateway(g, node)      -> Push(depth + 1)
    [] OTHER                             -> Push(depth)

RECURSIVE Finish(_, _, _)
Finish(g, split, s) ==
  IF Searching(s) THEN Finish(g, split, Iterate(g, split, s)) ELSE s.found

FindDownstreamJoin(g, split) == Finish(g, split, Begin(g, split))
==============================================================================
