---------------------------- MODULE MCAdvisorTurn ---------------------------
(* Instances of AdvisorTurn for TLC. *)
EXTENDS AdvisorTurn

ServerList == <<"public", "wiki">>
\* The wiki lists a skill tool, which is dropped, or a tool of the other server.
OfferedLists == [s \in {"public", "wiki"} |->
                  IF s = "public" THEN {{"search"}} ELSE {{"skill"}, {"search"}}]
LocalModels == <<"rcd", "spark">>
BothOrOne == {{"rcd", "spark"}, {"spark"}}
\* Two calls of one tool, a schedule beside a name no tool has, another tool of
\* the host; without the first server the first batch names no tool at all.
CallBatches == {<<"search", "search">>, <<"propose_schedule", "ghost">>,
                <<"check-system-health">>}
=============================================================================
