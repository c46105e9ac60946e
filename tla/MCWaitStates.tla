----------------------------- MODULE MCWaitStates -----------------------------
(* Instances of WaitStates for TLC. *)
EXTENDS WaitStates

CONSTANTS c1, c2

\* A user task u with a repeating reminder tu, which starts another user task v
\* with an interrupting message mv; u is followed by a gateway g with a timer
\* that repeats, too, and a message, of the same name as mv.
ReminderWait   == {"u", "v", "g"}
ReminderEvent  == {"u", "tu", "v", "mv", "tg", "mg"}
ReminderKind   == [e \in ReminderEvent |-> CASE e \in {"u", "v"} -> "user"
                                             [] e \in {"tu", "tg"} -> "timer"
                                             [] OTHER -> "message"]
ReminderOffer  == [n \in ReminderWait |-> CASE n = "u" -> {"u", "tu"}
                                            [] n = "v" -> {"v", "mv"}
                                            [] n = "g" -> {"tg", "mg"}]
ReminderTarget == [e \in ReminderEvent |-> CASE e = "u" -> "g" [] e = "tu" -> "v" [] OTHER -> "end"]
ReminderMessage == [e \in {"mv", "mg"} |-> "m"]
ReminderStart  == <<"u">>

\* The graph is one that ParkedTokensMove is about.
ASSUME ReminderAssumption == EventsHaveTheirWait
=============================================================================
