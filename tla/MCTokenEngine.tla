---------------------------- MODULE MCTokenEngine ----------------------------
(* Process graphs for TokenEngine, and their joins as the engine finds them. *)
EXTENDS TokenEngine, TLC

CONSTANTS b1, b2, b3

Symmetry == Permutations(Batch)

\* The gateway types of the engine; everything else is of one kind here.
SearchKind(kind) == [n \in DOMAIN kind |->
                       IF kind[n] \in {"parallel", "inclusive", "complex"} THEN kind[n] ELSE "other"]
Search == INSTANCE JoinSearch
JoinsOf(kind, flow) ==
  [n \in DOMAIN kind |-> IF Len(flow[n]) >= 2 /\ kind[n] \in {"parallel", "inclusive", "complex"}
     THEN Search!FindDownstreamJoin(
            [node |-> DOMAIN kind, kind |-> SearchKind(kind), flow |-> flow], n)
     ELSE NoNode]

\* Either a fork in a branch of a fork, every one with its join, or branches that
\* end on their own, one of them with an error.
FlowsKind == "start" :> "pass" @@ "S1" :> "parallel" @@ "S2" :> "parallel" @@ "J2" :> "parallel"
             @@ "J1" :> "parallel" @@ "x" :> "wait" @@ "y" :> "wait" @@ "z" :> "wait" @@ "T" :> "inclusive"
             @@ "u" :> "wait" @@ "v" :> "wait" @@ "end" :> "end" @@ "failed" :> "errorEnd"
FlowsNode == DOMAIN FlowsKind
FlowsFlow == "start" :> <<"S1", "T">> @@ "S1" :> <<"S2", "z">> @@ "S2" :> <<"x", "y">> @@ "x" :> <<"J2">>
             @@ "y" :> <<"J2">> @@ "J2" :> <<"J1">> @@ "z" :> <<"J1">> @@ "J1" :> <<"end">>
             @@ "T" :> <<"end", "u", "v">> @@ "u" :> <<"end">> @@ "v" :> <<"failed">>
             @@ "end" :> <<>> @@ "failed" :> <<>>
FlowsJoin == [n \in FlowsNode |-> CASE n = "S1" -> "J1" [] n = "S2" -> "J2"
                                     [] OTHER -> NoNode]

\* A loop, then a complex split and join, with a branch that terminates.
MixedKind == "start" :> "pass" @@ "again" :> "pass" @@ "S" :> "complex" @@ "x" :> "wait" @@ "y" :> "pass"
             @@ "z" :> "wait" @@ "J" :> "complex" @@ "kill" :> "terminate" @@ "end" :> "end"
MixedNode == DOMAIN MixedKind
MixedFlow == "start" :> <<"again">> @@ "again" :> <<"again", "S">> @@ "S" :> <<"x", "y", "z">>
             @@ "x" :> <<"J">> @@ "y" :> <<"J">> @@ "z" :> <<"kill">> @@ "J" :> <<"end">>
             @@ "kill" :> <<>> @@ "end" :> <<>>
MixedJoin == [n \in MixedNode |-> NoNode]

\* These are the joins that the engine finds.
ASSUME JoinsAssumption ==
  /\ FlowsJoin = JoinsOf(FlowsKind, FlowsFlow)
  /\ MixedJoin = JoinsOf(MixedKind, MixedFlow)
==============================================================================
