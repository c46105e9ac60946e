---------------------------- MODULE MCJoinSearch ----------------------------
(***************************************************************************)
(* The join search, one iteration of its loop per step, on every           *)
(* block-structured graph of a bounded depth.  A block is named by the     *)
(* path of branches that leads to it; it is a task, or a split, two        *)
(* branches and the join where they meet.                                  *)
(***************************************************************************)
EXTENDS JoinSearch

Deep  == {<<1, 1>>, <<1, 2>>, <<2, 1>>, <<2, 2>>, <<1, 1, 1>>, <<1, 1, 2>>}
Block == {<<>>, <<1>>, <<2>>} \cup Deep
Leaf  == Block \ {<<>>, <<1>>, <<2>>, <<1, 1>>}

Forks  == {"parallel", "inclusive"}
Shapes == {shape \in [Block -> Forks \cup {"exclusive", "complex", "task"}] :
             /\ shape[<<>>] \in Forks
             /\ \A p \in Leaf : shape[p] = "task"}

Exists(shape, p) == \A q \in Block : IsStrictPrefix(q, p) => shape[q] # "task"
Entry(shape, p)  == IF shape[p] = "task" THEN <<"task", p>> ELSE <<"split", p>>
Exit(p)          == IF p = <<>> THEN <<"end", p>> ELSE <<"join", Front(p)>>

Graph(shape) ==
  LET blocks == {p \in Block : Exists(shape, p)}
      gates  == {p \in blocks : shape[p] # "task"}
      nodes  == {<<"end", <<>>>>} \cup {<<"task", p>> : p \in blocks \ gates}
                \cup {"split", "join"} \X gates
  IN [node |-> nodes,
      kind |-> [n \in nodes |-> IF n[1] = "end" THEN "end" ELSE shape[n[2]]],
      flow |-> [n \in nodes |->
                  CASE n[1] = "split" -> <<Entry(shape, Append(n[2], 1)), Entry(shape, Append(n[2], 2))>>
                    [] n[1] \in {"join", "task"} -> <<Exit(n[2])>>
                    [] OTHER -> <<>>]]

VARIABLES graph, split, search

Init == /\ \E shape \in Shapes : graph = Graph(shape)
        /\ split \in {n \in graph.node : n[1] = "split" /\ graph.kind[n] \in Forks}
        /\ search = Begin(graph, split)

Step == /\ Searching(search)
        /\ search' = Iterate(graph, split, search)
        /\ UNCHANGED <<graph, split>>

Spec == Init /\ [][Step]_<<graph, split, search>>

\* A fork of a block-structured process waits at the join of its own block, for
\* every nesting of gateways of the same and of other types: a barrier at another
\* join would count tokens that never come, or let the branches pass.
FindsOwnJoin == ~Searching(search) => search.found = <<"join", split[2]>>
=============================================================================
