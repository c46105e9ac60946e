--------------------------- MODULE MCCallActivity ---------------------------
(* Instances for TLC: small process definitions for CallActivity.          *)
EXTENDS CallActivity

Node(kind, to, catch) == [kind |-> kind, to |-> to, catch |-> catch]
Task        == Node("task", "none", FALSE)
End         == Node("end", "none", FALSE)
ErrorEnd    == Node("error", "none", FALSE)
CallOf(d)   == Node("call", d, FALSE)
Catching(d) == Node("call", d, TRUE)

\* "order" calls a child with two workers and one that fails at once; "bare"
\* does not catch that failure; "fork" calls from a parallel branch after a task, beside two more tasks; "lost"
\* calls what is not deployed; "top" calls "middle" and then "late", where
\* "middle" calls "low", which needs no worker.
AllDef  == {"order", "bare", "fork", "lost", "top",
            "team", "ship", "pay", "middle", "low", "late"}
AllPlan ==
  [d \in AllDef |->
     CASE d = "order"  -> << <<CallOf("team"), Catching("ship"), Task, End>> >>
       [] d = "bare"   -> << <<CallOf("ship"), End>> >>
       [] d = "fork"   -> << <<Task, CallOf("pay"), End>>, <<Task, Task, End>> >>
       [] d = "lost"   -> << <<CallOf("gone"), End>> >>
       [] d = "top"    -> << <<CallOf("middle"), CallOf("late"), End>> >>
       [] d = "team"   -> << <<Task, End>>, <<Task, End>> >>
       [] d = "ship"   -> << <<ErrorEnd>> >>
       [] d = "pay"    -> << <<Task, End>> >>
       [] d = "middle" -> << <<CallOf("low"), End>> >>
       [] d = "low"    -> << <<End>> >>
       [] d = "late"   -> << <<Task, End>> >>]
AllRoots == {"order", "bare", "fork", "lost", "top"}
=============================================================================
