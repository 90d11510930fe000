------------------------ MODULE MCClassifierCascade ------------------------
(* Instances of ClassifierCascade for TLC. *)
EXTENDS ClassifierCascade

Mail(id, from, words) == [id |-> id, from |-> from, words |-> words]

\* Two mails of one domain, one of them of a known address, and one from elsewhere.
ThreeMails ==
    <<Mail("m1", {"ann@here", "here"}, {"form"}), Mail("m2", {"bob@here", "here"}, {}),
      Mail("m3", {"eve@there", "there"}, {"form"})>>

Template(address, domain, words, kind) ==
    [from_address |-> address, from_domain |-> domain, words |-> words, kind |-> kind]

SkipSender(address, domain) == [from_address |-> address, from_domain |-> domain, kind |-> "sender"]

OverrideOf(id, decision) == [id |-> id, decision |-> decision, kind |-> "override"]

\* Also two of one mail, which contradict each other.
SomeOverrides ==
    {<<>>, <<OverrideOf("m1", "skip"), OverrideOf("m1", "task")>>,
     <<OverrideOf("m2", "task"), OverrideOf("m3", "label-only")>>}

\* The first of two templates that match counts; one that neither skips nor
\* makes a task leaves the mail to the senders' rules.
SomeTemplates ==
    {<<>>,
     <<Template("ann@here", Nil, {}, "skip"), Template(Nil, "here", {}, "create")>>,
     <<Template(Nil, "here", {"form"}, "create"), Template(Nil, "here", {}, "label")>>}

SomeSkips == {<<>>, <<SkipSender("eve@there", Nil), SkipSender(Nil, "here")>>}

SomeSettings ==
    {s \in [mode : {"agent", "hybrid", "compare"}, backend : {"codex", "openai"},
            authorized : BOOLEAN, dry : BOOLEAN, list : BOOLEAN,
            overrides : SomeOverrides, templates : SomeTemplates, skips : SomeSkips] :
        /\ s.backend = "openai" => s.mode = "hybrid"
        /\ s.dry => s.list
        /\ s.mode = "compare" => s.list /\ ~s.dry
        /\ ~s.authorized => s.list /\ ~s.dry}

Task == [task |-> TRUE, folder |-> "Work"]
Skip == [task |-> FALSE, folder |-> "Elsewhere"]
TwoVerdicts == {Task, Skip}

\* Of one mail, also one that was not asked about; of none; of all mails.
SomeAnswers ==
    UNION {[{id} -> TwoVerdicts] : id \in Ids \cup {Stranger}}
      \cup {<<>>, [id \in Ids |-> Task], [id \in Ids |-> IF id = "m1" THEN Task ELSE Skip]}

SomeFolders == <<"Work", "To Delete">>
=============================================================================
