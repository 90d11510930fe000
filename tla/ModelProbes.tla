----------------------------- MODULE ModelProbes ----------------------------
(***************************************************************************)
(* The three scripts that measure the advisor's model against the living   *)
(* system: whether an answer traces to a tool result                       *)
(* (scripts/fabrication-probe.ts), whether the model calls tools at all    *)
(* (scripts/tool-ceiling-probe.ts) and how candidate models fare in        *)
(* advising scenarios (scripts/advising-benchmark/runner.ts).  A run asks  *)
(* a block of trials on each question; meanwhile the endpoint loads other  *)
(* models or goes away, the nightly refresh replaces the class snapshot,   *)
(* connections fail or break, and the run is killed.                       *)
(*                                                                         *)
(* A message of the model is given by what the classifiers look for in it. *)
(***************************************************************************)
EXTENDS Naturals, Sequences, FiniteSets, SequencesExt

CONSTANTS
    Blocks,     \* the questions or scenarios, a sequence
    Facts,      \* what can be stated of a question
    Expected,   \* per question, the fact the extractor's test cases expect
    NoFact,     \* the snapshot does not have it
    Snapshots,  \* state/clemson/<term>.db: per question a fact or NoFact
    Invocations,\* command lines: [probe, given, trials, allow, report]
    Models,     \* what the endpoint may list; Measured is one of them
    Measured,
    Listings,   \* answers of /v1/models: per model its state, or NoAnswer
    NoAnswer,     \* no answer, or one that cannot be read
    Contents,   \* messages: [states, hedge, xml, cut, empty]
    MinTrials,
    MaxTurns,
    NaN,
    Events      \* bound on moves of the endpoint, refreshes and kills

LoadState == {"resident", "loading", "idle", "absent", "none"}   \* none: no state field

ASSUME ProbeAssumption ==
    /\ MinTrials \in Nat \ {0} /\ MaxTurns \in Nat \ {0} /\ Events \in Nat /\ NaN \notin Nat
    /\ Blocks \in Seq(ToSet(Blocks)) /\ Measured \in Models /\ NoFact \notin Facts
    /\ Listings \subseteq [Models -> LoadState] \cup {NoAnswer}
    /\ NoAnswer \notin [Models -> LoadState]
    /\ Snapshots \subseteq [ToSet(Blocks) -> Facts \cup {NoFact}]
    /\ Expected \in [ToSet(Blocks) -> Facts]
    /\ Invocations \subseteq [probe : {"fabrication", "ceiling", "benchmark"}, trials : Nat,
                              given : {"number", "absent", "valueless", "word"},
                              allow : BOOLEAN, report : BOOLEAN]
    /\ IsFiniteSet(Facts)
    /\ Contents \subseteq [states : SUBSET Facts, hedge : BOOLEAN, xml : BOOLEAN,
                           cut : BOOLEAN, empty : BOOLEAN]

VARIABLES
    args,       \* the command line of this run
    step,       \* "start", "block", "trial", "done", "refused", "failed" or "killed"
    truths,     \* per question, the ground truth read at the start
    todo,       \* positions of the questions not measured yet
    before,     \* the endpoint's state read before the block
    asked,      \* trials of the block that are over
    tally,      \* per class, how many of them
    trial,      \* the trial under way: [turns, parsed, tools]
    rows,       \* the results of the blocks
    file,       \* what --report names: who wrote it, is it complete, what it tells
    snapshot,   \* the published one
    listing,    \* what /v1/models answers
    events,
    seen        \* of the block: trials that ended unread or with a wrong fact, and
                \* whether the endpoint was seen at rest; and was the snapshot refreshed

probeVars == <<args, step, truths, todo, before, asked, tally, trial, rows, file, snapshot,
               listing, events, seen>>
runVars == <<args, truths, todo, rows, file>>
count == <<asked, tally>>
around == <<snapshot, listing, events>>

FabClasses == {"tool_backed", "fabricated", "unsupported", "abstained", "no_fact",
               "unclassifiable", "http_error", "unparseable"}
TrialClasses == {"tool_calls", "malformed", "truncated", "no_tool_call", "http_error",
                 "unparseable"}
FailureClasses == {"ok", "http_error", "unparseable", "malformed", "no_tool_call"}

Classes == CASE args.probe = "fabrication" -> FabClasses
             [] args.probe = "ceiling" -> TrialClasses
             [] args.probe = "benchmark" -> FailureClasses

NoTrial == [turns |-> 0, parsed |-> FALSE, tools |-> 0]
NothingTold == [measured |-> 0, unavailable |-> 0, rates |-> 0, pooled |-> 0]
NothingSeen == [unread |-> 0, wrong |-> 0, rest |-> "none", refreshed |-> FALSE]

ProbeInit ==
    /\ args \in Invocations /\ step = "start"
    /\ truths = <<>> /\ todo = {} /\ before = NoAnswer /\ asked = 0 /\ tally = <<>>
    /\ trial = NoTrial /\ rows = <<>>
    /\ file = [by |-> "before", complete |-> TRUE, told |-> NothingTold]
    /\ snapshot \in Snapshots
    /\ listing \in Listings /\ events = 0
    /\ seen = NothingSeen
-----------------------------------------------------------------------------
(* The command line.  args.given is how --trials is written: "number" (then  *)
(* args.trials is it), "absent", "valueless" (another flag follows) or       *)
(* "word".                                                                   *)

Trials ==
    CASE args.given = "absent" -> MinTrials
      [] args.given = "word" -> NaN
      [] args.given = "valueless" -> IF args.probe = "benchmark" THEN MinTrials ELSE NaN
      [] args.given = "number" -> args.trials

\* The ceiling probe compares NaN and goes on.
BadTrials ==
    \/ Trials = NaN /\ args.probe # "ceiling"
    \/ Trials = 0 /\ args.probe # "ceiling"

Underpowered == Trials # NaN /\ Trials < MinTrials

\* resolveTruth: the fact, or NoFact for whatever keeps it from being read.
ResolveTruths == [q \in ToSet(Blocks) |-> snapshot[q]]

\* The extractor's cases, and the names of buildings it knows, are checked
\* against the snapshot of this run; cases of a question without truth are skipped.
ValidationFails == \E q \in ToSet(Blocks) : snapshot[q] \notin {NoFact, Expected[q]}

Refused ==
    \/ BadTrials
    \/ Underpowered /\ ~args.allow
    \/ args.probe = "fabrication" /\ (ValidationFails \/ \A q \in ToSet(Blocks) : snapshot[q] = NoFact)

Start ==
    /\ step = "start"
    /\ IF Refused THEN step' = "refused" /\ UNCHANGED <<truths, todo>>
       ELSE /\ step' = "block"
            /\ truths' = IF args.probe = "fabrication" THEN ResolveTruths ELSE <<>>
            /\ todo' = {i \in DOMAIN Blocks :
                          args.probe = "fabrication" => snapshot[Blocks[i]] # NoFact}
    /\ UNCHANGED <<args, before, count, trial, rows, file, around, seen>>
-----------------------------------------------------------------------------
(* The endpoint's state. *)

\* readModelsResponse: the state of the measured model, the others that load,
\* and whether no model has a state.
ReadModelsResponse(list) ==
    [target |-> IF list[Measured] \in {"absent", "none"} THEN "none" ELSE list[Measured],
     othersLoading |-> {m \in Models \ {Measured} : list[m] = "loading"},
     stateless |-> \A m \in Models : list[m] \in {"absent", "none"},
     error |-> FALSE]

FetchEndpointState ==
    IF listing = NoAnswer
    THEN [target |-> "none", othersLoading |-> {}, stateless |-> FALSE, error |-> TRUE]
    ELSE ReadModelsResponse(listing)

\* Faulty: the state after the block is read and not asked about.
BlockValidityBefore(from, to) ==
    /\ ~from.error
    /\ \/ from.stateless /\ to.stateless
       \/ from.target = "resident" /\ from.othersLoading = {}

BlockValidity(from, to) ==
    /\ ~from.error /\ ~to.error
    /\ \/ from.stateless /\ to.stateless
       \/ /\ from.target = "resident" /\ to.target = "resident"
          /\ from.othersLoading = {} /\ to.othersLoading = {}

\* What can be told of the endpoint: the measured model is resident and nothing
\* else loads, no model has a state, or neither.
AtRest ==
    CASE listing # NoAnswer /\ listing[Measured] = "resident"
           /\ \A m \in Models : listing[m] # "loading" -> "resident"
      [] listing # NoAnswer /\ \A m \in Models : listing[m] \in {"absent", "none"} -> "stateless"
      [] OTHER -> "none"

\* They are measured in their order.
Question == Blocks[Min(todo)]

BlockRow(trials, counts, valid) ==
    [block |-> Question, trials |-> trials, tally |-> counts, valid |-> valid,
     unread |-> seen.unread, wrong |-> seen.wrong, rest |-> AtRest # "none" /\ seen.rest = AtRest]

\* The benchmark spends no trial on an endpoint that is not ready.
BlockBegins ==
    LET state == FetchEndpointState IN
    /\ step = "block" /\ todo # {}
    /\ IF args.probe = "benchmark" /\ ~BlockValidity(state, state)
       THEN /\ rows' = Append(rows, BlockRow(0, [c \in Classes |-> 0], FALSE))
            /\ todo' = todo \ {Min(todo)}
            /\ UNCHANGED <<step, before, count, seen>>
       ELSE /\ step' = "trial" /\ before' = state
            /\ asked' = 0 /\ tally' = [c \in Classes |-> 0]
            /\ seen' = [seen EXCEPT !.unread = 0, !.wrong = 0, !.rest = AtRest]
            /\ UNCHANGED <<rows, todo>>
    /\ UNCHANGED <<args, truths, trial, file, around>>

\* No number is less than NaN.
Over == Trials # NaN => asked >= Trials

\* The fabrication probe leaves a checkpoint: what it has printed up to now,
\* which is the header; results are printed at the end.
BlockEnds ==
    /\ step = "trial" /\ Over /\ step' = "block"
    /\ rows' = Append(rows, BlockRow(Trials, tally, BlockValidity(before, FetchEndpointState)))
    /\ todo' = todo \ {Min(todo)}
    /\ file' = IF args.probe = "fabrication" /\ args.report
               THEN [by |-> "this", complete |-> FALSE, told |-> NothingTold] ELSE file
    /\ before' = NoAnswer /\ asked' = 0 /\ tally' = <<>>
    /\ seen' = [seen EXCEPT !.unread = 0, !.wrong = 0, !.rest = "none"]
    /\ UNCHANGED <<args, truths, trial, around>>

\* Only the blocks in which the endpoint held still get a rate,
Rates == {i \in DOMAIN rows : rows[i].valid}

\* Numbers are added up by counting what they count.
Total(f) == Cardinality(UNION {{i} \X (1 .. f[i]) : i \in DOMAIN f})

\* and only they are pooled: the trials in the aggregate.
Pooled == Total([i \in Rates |-> rows[i].trials])

\* Questions without a truth are named, and in no block.
Unavailable == {i \in DOMAIN Blocks : truths[Blocks[i]] = NoFact}

Told ==
    [measured |-> Len(rows), rates |-> Cardinality(Rates),
     unavailable |-> IF args.probe = "fabrication" THEN Cardinality(Unavailable) ELSE 0,
     pooled |-> IF args.probe = "fabrication" THEN Pooled ELSE 0]

\* The tables and RUN COMPLETE.
Report ==
    /\ step = "block" /\ todo = {} /\ step' = "done"
    /\ file' = IF args.report THEN [by |-> "this", complete |-> TRUE, told |-> Told] ELSE file
    /\ UNCHANGED <<args, truths, todo, before, count, trial, rows, around, seen>>
-----------------------------------------------------------------------------
(* The trials. *)

Empty == [states |-> {}, hedge |-> FALSE, xml |-> FALSE, cut |-> FALSE, empty |-> TRUE]
ErrorText == [Empty EXCEPT !.cut = TRUE, !.empty = FALSE]   \* finish_reason is not "stop"

ClassifyFabTrial(obs, truth) ==
    CASE obs.status # 200 -> "http_error"
      [] obs.status = 200 /\ ~obs.parsed -> "unparseable"
      [] OTHER ->
         CASE Cardinality(obs.content.states) > 1 -> "unclassifiable"
           [] obs.content.states = {} -> IF obs.content.hedge THEN "abstained" ELSE "no_fact"
           [] obs.content.states = {truth} -> IF obs.tools > 0 THEN "tool_backed" ELSE "unsupported"
           [] OTHER -> "fabricated"

ClassifyTrial(obs) ==
    CASE obs.status # 200 -> "http_error"
      [] obs.status = 200 /\ ~obs.parsed -> "unparseable"
      [] OTHER ->
         CASE obs.tools > 0 -> "tool_calls"
           [] obs.tools = 0 /\ obs.content.cut -> "truncated"
           [] obs.tools = 0 /\ ~obs.content.cut /\ obs.content.xml -> "malformed"
           [] OTHER -> "no_tool_call"

\* detectMalformedToolCall: a clean end and a tool call in the wrong channel.
Malformed(obs) == obs.parsed /\ ~obs.content.cut /\ obs.tools = 0 /\ obs.content.xml

ClassifyFailureClass(obs) ==
    CASE obs.status # 200 -> "http_error"
      [] obs.status = 200 /\ (~obs.parsed \/ obs.content.empty) -> "unparseable"
      [] OTHER ->
         CASE Malformed(obs) -> "malformed"
           [] ~Malformed(obs) /\ obs.tools = 0 -> "no_tool_call"
           [] OTHER -> "ok"

Class(obs) ==
    CASE args.probe = "fabrication" -> ClassifyFabTrial(obs, truths[Question])
      [] args.probe = "ceiling" -> ClassifyTrial(obs)
      [] args.probe = "benchmark" -> ClassifyFailureClass(obs)

Asking == step = "trial" /\ ~Over

\* The trial is over and counted.
Counts(obs, unread) ==
    /\ asked' = asked + 1 /\ tally' = [tally EXCEPT ![Class(obs)] = @ + 1]
    /\ trial' = NoTrial
    /\ seen' = [seen EXCEPT
                  !.unread = @ + IF unread THEN 1 ELSE 0,
                  !.wrong = @ + IF /\ obs.status = 200
                                   /\ \E f \in Facts \ {snapshot[Question]} :
                                        obs.content.states = {f}
                                THEN 1 ELSE 0]
    /\ UNCHANGED <<runVars, step, before, around>>

\* The process ends and leaves the file.
Dies(how) ==
    /\ step' = how
    /\ truths' = <<>> /\ todo' = {} /\ before' = NoAnswer /\ asked' = 0 /\ tally' = <<>>
    /\ trial' = NoTrial /\ rows' = <<>> /\ seen' = NothingSeen
    /\ UNCHANGED <<args, file>>

Observed(status, parsed, content) ==
    [status |-> status, parsed |-> parsed, tools |-> trial.tools, content |-> content]

\* The request fails or is refused.
NoReply ==
    /\ Asking
    /\ \E status \in {0, 400} : Counts(Observed(status, trial.parsed, ErrorText), FALSE)

\* A reply that cannot be read; what earlier turns have parsed stays so.
UnreadableReply ==
    /\ Asking /\ Counts(Observed(200, trial.parsed, Empty), TRUE)

\* The connection breaks while the reply is read.  The two probes do not catch
\* that; in the benchmark the error's text becomes the answer.
DroppedReply ==
    /\ Asking
    /\ IF args.probe = "benchmark"
       THEN Counts(Observed(200, trial.parsed, ErrorText), TRUE)
       ELSE Dies("failed") /\ UNCHANGED around

\* Tools are called and their results go into the next request.  The ceiling
\* probe has seen enough; a loop that is out of turns has no answer.
ToolReply ==
    /\ Asking
    /\ LET obs == [Observed(200, TRUE, Empty) EXCEPT !.tools = @ + 1] IN
       IF args.probe = "ceiling" \/ trial.turns + 1 = MaxTurns THEN Counts(obs, FALSE)
       ELSE /\ trial' = [turns |-> trial.turns + 1, parsed |-> TRUE, tools |-> obs.tools]
            /\ UNCHANGED <<runVars, step, before, count, around, seen>>

Answer ==
    /\ Asking
    /\ \E content \in Contents : Counts(Observed(200, TRUE, content), FALSE)
-----------------------------------------------------------------------------
(* The world around the run. *)

Measuring == step \in {"block", "trial"}
Happens == Measuring /\ events < Events /\ events' = events + 1

EndpointMoves ==
    /\ Happens /\ listing' \in Listings \ {listing}
    /\ UNCHANGED <<runVars, step, before, count, trial, snapshot, seen>>

\* The nightly refresh publishes a snapshot in which a fact has changed; only
\* one of the probes ever reads it.
SnapshotRefreshes ==
    /\ args.probe = "fabrication"
    /\ Happens /\ \E q \in ToSet(Blocks), f \in Facts \cup {NoFact} :
                    snapshot[q] # f /\ snapshot' = [snapshot EXCEPT ![q] = f]
    /\ seen' = [seen EXCEPT !.refreshed = TRUE]
    /\ UNCHANGED <<runVars, step, before, count, trial, listing>>

Killed == Happens /\ Dies("killed") /\ UNCHANGED <<snapshot, listing>>

ProbeNext ==
    \/ Start \/ BlockBegins \/ BlockEnds \/ Report
    \/ NoReply \/ UnreadableReply \/ DroppedReply \/ ToolReply \/ Answer
    \/ EndpointMoves \/ SnapshotRefreshes \/ Killed

ProbeSpec == ProbeInit /\ [][ProbeNext]_probeVars
-----------------------------------------------------------------------------
(* Properties. *)

ProbeTypeOK ==
    /\ args \in Invocations
    /\ step \in {"start", "block", "trial", "done", "refused", "failed", "killed"}
    /\ truths \in {<<>>} \cup [ToSet(Blocks) -> Facts \cup {NoFact}]
    /\ todo \subseteq DOMAIN Blocks
    /\ asked \in Nat /\ tally \in {<<>>} \cup [Classes -> Nat]
    /\ trial \in [turns : 0 .. MaxTurns - 1, parsed : BOOLEAN, tools : 0 .. MaxTurns]
    /\ \A i \in DOMAIN rows : rows[i].trials \in Nat \cup {NaN} /\ rows[i].valid \in BOOLEAN
    /\ file.by \in {"before", "this"} /\ file.complete \in BOOLEAN
    /\ listing \in Listings /\ events \in 0 .. Events

AllRows == ToSet(rows)

\* Every trial of a block is counted once, and a question whose truth could not
\* be read has no block: it is in no denominator.
TrialsAddUp ==
    \A r \in AllRows :
        /\ Total(r.tally) = IF r.trials = NaN THEN 0 ELSE r.trials
        /\ r.trials \in {0, Trials}
        /\ args.probe = "fabrication" => truths[r.block] # NoFact

\* A rate is printed, and observations called steady, exactly when the endpoint
\* was at rest at both ends of the block.
RatesAreSteady == \A r \in AllRows : r.trials # 0 => (r.valid <=> r.rest)

\* An answer is counted as fabricated only if it states one fact and that is not
\* what the snapshot has, and each such answer does, while no refresh comes.
NoFalseAccusation ==
    args.probe = "fabrication" /\ ~seen.refreshed =>
        \A r \in AllRows : r.tally["fabricated"] = r.wrong

\* The trials that were tallied while the endpoint was at rest.
TalliedAtRest ==
    Total([i \in {k \in DOMAIN rows : rows[k].rest} |-> Total(rows[i].tally)])

\* RUN COMPLETE is written by a run that measured every question whose truth it
\* had, named the others and pooled what it observed at rest; an
\* unfinished one has overwritten an earlier report by its first checkpoint.
FileTellsTheRun ==
    /\ file.by = "this" /\ file.complete =>
         /\ step = "done" /\ todo = {} /\ file.told.measured = Len(rows)
         /\ args.probe = "fabrication" =>
              /\ file.told.measured + file.told.unavailable = Len(Blocks)
              /\ file.told.pooled = TalliedAtRest
    /\ args.probe = "fabrication" /\ args.report /\ rows # <<>> => file.by = "this"

\* A block of fewer than the minimal number of trials was asked for.
NothingUnderpowered ==
    args.probe # "ceiling" /\ ~args.allow =>
        \A r \in AllRows : r.trials >= MinTrials \/ (r.trials = 0 /\ ~r.valid)

ProbeIsHonest ==
    /\ TrialsAddUp /\ RatesAreSteady /\ NoFalseAccusation
    /\ FileTellsTheRun /\ NothingUnderpowered

\* What the comments of runner.ts and fabrication-probe.ts say of a reply that
\* breaks off or cannot be read: the trial is unparseable, no observation of
\* the model.
UnreadIsUnparseable ==
    \A r \in AllRows : r.trials # 0 => r.unread <= r.tally["unparseable"]
=============================================================================
