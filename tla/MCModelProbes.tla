---------------------------- MODULE MCModelProbes ---------------------------
(* Instances of ModelProbes for TLC. *)
EXTENDS ModelProbes

Content(states, hedge, xml, cut, empty) ==
    [states |-> states, hedge |-> hedge, xml |-> xml, cut |-> cut, empty |-> empty]

\* Of facts f and g: one, the other, both and cut off; and a refusal that has a
\* tool call as text.
SomeContents ==
    {Content({"f"}, FALSE, FALSE, FALSE, FALSE), Content({"g"}, TRUE, FALSE, FALSE, FALSE),
     Content({"f", "g"}, FALSE, FALSE, TRUE, FALSE), Content({}, TRUE, TRUE, FALSE, FALSE)}

Listing(m, n) == [k \in {"spark", "other"} |-> IF k = "spark" THEN m ELSE n]

\* At rest, another model loading, the measured one not resident, no states.
SomeListings ==
    {Listing("resident", "idle"), Listing("resident", "loading"), Listing("loading", "idle"),
     Listing("none", "none"), NoAnswer}

Invocation(probe, given, trials, allow, report) ==
    [probe |-> probe, given |-> given, trials |-> trials, allow |-> allow, report |-> report]

SomeInvocations ==
    {Invocation("fabrication", "valueless", 0, FALSE, TRUE),
     Invocation("fabrication", "number", 1, FALSE, TRUE), Invocation("fabrication", "number", 1, TRUE, TRUE),
     Invocation("ceiling", "number", 1, TRUE, TRUE), Invocation("ceiling", "word", 0, FALSE, TRUE),
     Invocation("benchmark", "valueless", 0, FALSE, TRUE), Invocation("benchmark", "number", 0, TRUE, FALSE)}

Benchmark == {Invocation("benchmark", "absent", 0, FALSE, TRUE)}

TwoBlocks == <<"q1", "q2">>
\* As expected, one fact missing, and one that has changed since.
SomeSnapshots ==
    {[q1 |-> "f", q2 |-> "f"], [q1 |-> "f", q2 |-> NoFact], [q1 |-> "g", q2 |-> "f"]}

AllExpectF == [q \in {"q1", "q2"} |-> "f"]
=============================================================================
