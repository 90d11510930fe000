------------------------- MODULE ClassifierCascade --------------------------
(***************************************************************************)
(* One pass of the scan over the mail it listed, as the classification     *)
(* sees it: the rules (src/cascade.ts, src/preclassifier.ts), what is left *)
(* to `codex exec' in batches or to OpenAI one by one                      *)
(* (src/residual-classifiers.ts, src/codex-agent.ts,                       *)
(* src/openai-classifier.ts), the comparison of the two (src/compare.ts)   *)
(* and the summary (src/scan-summary.ts).                                  *)
(*                                                                         *)
(* TriageScan has the files, the crashes and the task markers; a task is   *)
(* made here or it is not.  Addresses, domains and words are tokens; a     *)
(* mail is given by those its sender and subject match.                    *)
(***************************************************************************)
EXTENDS Naturals, Sequences, FiniteSets, SequencesExt

CONSTANTS
    Inbox,      \* the listed mails in their order: [id, from, words]
    Stranger,   \* an id that no listed mail has
    Settings,   \* [mode, backend, authorized, dry, list, overrides,
                \* templates, skips]; list: can the To Do lists be read?
    BatchSize,  \* CLASSIFIER_BATCH_SIZE
    ModelVerdicts,   \* what a model may say of a mail: [task, folder]
    Answers,    \* readable messages of codex: a verdict on each of some ids
    Folders,    \* taxonomy.folders, a sequence
    MaxMessages,\* bound on the agent messages of one codex process
    Nil

Ids == {Inbox[i].id : i \in DOMAIN Inbox}

ASSUME CascadeAssumption ==
    /\ Inbox \in Seq(ToSet(Inbox)) /\ Folders \in Seq(ToSet(Folders))
    /\ \A i, j \in DOMAIN Inbox : Inbox[i].id = Inbox[j].id => i = j
    /\ Stranger \notin Ids
    /\ BatchSize \in Nat \ {0} /\ MaxMessages \in Nat
    /\ \A a \in Answers : /\ DOMAIN a \subseteq Ids \cup {Stranger}
                          /\ \A id \in DOMAIN a : a[id] \in ModelVerdicts
    /\ \A s \in Settings : /\ s.mode \in {"agent", "hybrid", "compare"}
                          /\ s.overrides \in Seq(ToSet(s.overrides))
                          /\ \A i \in DOMAIN s.overrides : s.overrides[i].kind # Nil

VARIABLES
    setting,
    stage,         \* "route", "batch", "exec", "api", "apply", "compare" or "done"
    rest,       \* mails still to be routed, applied or compared
    candidates, \* llm_candidates
    batches,    \* batches not asked yet
    call,       \* the codex process: what it was asked and has printed
    results,    \* for each id what was said of it, and of whom the call was asked
    counters,     \* the counters of the outcome
    fates,      \* the rows of each mail's decision in this pass
    usage       \* the rows of usage.jsonl of this pass: the ids asked about

cascadeVars ==
    <<setting, stage, rest, candidates, batches, call, results, counters, fates, usage>>

NoCall == [asked |-> <<>>, message |-> Nil, said |-> 0, usage |-> FALSE]

CounterNames ==
    {"template_tasks", "template_skips", "skip_sender_count", "apiTaskCount",
     "apiSkipCount", "apiFailureCount", "deterministicTaskCount",
     "deterministicSkipCount", "deterministicAgentNeededCount", "agentTaskCount",
     "agentSkipCount", "missingAgentCount", "agreementCount", "disagreementCount"}

IdsOf(mails) == {mails[i].id : i \in DOMAIN mails}

Messages == Answers \cup {Nil}

CascadeTypeOK ==
    /\ setting \in Settings
    /\ stage \in {"route", "batch", "exec", "api", "apply", "compare", "done"}
    /\ stage = "route" => rest = SubSeq(Inbox, Len(Inbox) - Len(rest) + 1, Len(Inbox))
    /\ stage # "route" => ToSet(rest) \subseteq ToSet(candidates)
    /\ ToSet(candidates) \subseteq ToSet(Inbox)
    /\ call.message \in Messages /\ call.said \in 0 .. MaxMessages
    /\ DOMAIN results \subseteq Ids \cup {Stranger}
    /\ DOMAIN counters = CounterNames /\ \A n \in CounterNames : counters[n] \in 0 .. Len(Inbox)
    /\ DOMAIN fates = Ids

-----------------------------------------------------------------------------
(* The rules *)

\* senderMatches: Nil for an address or a domain that the rule does not have.
SenderMatches(mail, rule) == {rule.from_address, rule.from_domain} \cap mail.from # {}

NoRule == [kind |-> Nil]

FirstOf(rules, Test(_)) ==
    LET hits == {i \in DOMAIN rules : Test(rules[i])}
    IN  IF hits = {} THEN NoRule ELSE rules[Min(hits)]

\* matchActionTemplate: a template without words takes any subject.
MatchActionTemplate(mail) ==
    FirstOf(setting.templates,
            LAMBDA t : /\ SenderMatches(mail, t)
                       /\ t.words = {} \/ t.words \cap mail.words # {})

MatchSkipSender(mail) == FirstOf(setting.skips, LAMBDA r : SenderMatches(mail, r))

\* The comparison finds the first override of an id.
OverrideFor(mail) == FirstOf(setting.overrides, LAMBDA o : o.id = mail.id)

\* overrideById: the scan builds a Map of them, in which the last one stays.
OverrideById(mail) ==
    LET hits == {i \in DOMAIN setting.overrides : setting.overrides[i].id = mail.id}
    IN  IF hits = {} THEN NoRule ELSE setting.overrides[Max(hits)]

\* needs_task of an override.
NeedsTask(decision) ==
    CASE decision = "task" -> TRUE [] decision = "skip" -> FALSE [] OTHER -> Nil

\* deterministicDecisionFor: the source of the rules' decision, and needs_task.
DeterministicDecisionFor(mail) ==
    IF OverrideFor(mail) # NoRule
    THEN [source |-> "override", task |-> NeedsTask(OverrideFor(mail).decision)]
    ELSE CASE MatchActionTemplate(mail).kind = "skip" -> [source |-> "template", task |-> FALSE]
           [] MatchActionTemplate(mail).kind = "create" -> [source |-> "template", task |-> TRUE]
           [] MatchActionTemplate(mail).kind \notin {"skip", "create"} /\ MatchSkipSender(mail) # NoRule ->
                [source |-> "skip", task |-> FALSE]
           [] OTHER -> [source |-> "agent-needed", task |-> Nil]

\* validateSortFolder
ValidateSortFolder(folder) ==
    IF Folders = <<>> \/ folder \in ToSet(Folders) THEN folder
    ELSE IF "To Delete" \in ToSet(Folders) THEN "To Delete"
    ELSE Head(Folders)

\* chunksOf
ChunksOf(mails) ==
    [i \in 1 .. (Len(mails) + BatchSize - 1) \div BatchSize |->
        SubSeq(mails, (i - 1) * BatchSize + 1,
               IF i * BatchSize < Len(mails) THEN i * BatchSize ELSE Len(mails))]

-----------------------------------------------------------------------------
CascadeInit ==
    /\ setting \in Settings
    /\ stage = IF setting.mode = "compare" THEN "batch" ELSE "route"
    /\ rest = IF setting.mode = "compare" THEN <<>> ELSE Inbox
    /\ candidates = IF setting.mode = "compare" THEN Inbox ELSE <<>>
    /\ batches = ChunksOf(candidates)
    /\ call = NoCall
    /\ results = <<>>
    /\ counters = [n \in CounterNames |-> 0]
    /\ fates = [id \in Ids |-> <<>>]
    /\ usage = <<>>

Bump(names) == counters' = [n \in CounterNames |-> IF n \in names THEN counters[n] + 1 ELSE counters[n]]

Decide(mail, decision) == fates' = [fates EXCEPT ![mail.id] = Append(@, decision)]

\* The loop of runScan over the listed mails.
Routing(mail) ==
    /\ stage = "route" /\ rest # <<>> /\ mail = Head(rest)
    /\ rest' = Tail(rest)
    /\ UNCHANGED <<setting, stage, batches, call, results, usage>>

RouteOverride(mail) ==
    /\ Routing(mail)
    /\ OverrideById(mail) # NoRule
    /\ Decide(mail, [pass |-> "override", decision |-> OverrideById(mail).decision])
    /\ UNCHANGED <<candidates, counters>>

ByTemplate(mail, kind) ==
    /\ Routing(mail)
    /\ OverrideById(mail) = NoRule /\ setting.mode # "agent"
    /\ MatchActionTemplate(mail).kind = kind

RouteTemplateSkip(mail) ==
    /\ ByTemplate(mail, "skip")
    /\ Bump({"template_skips"})
    /\ Decide(mail, [pass |-> "template", decision |-> "skip"])
    /\ UNCHANGED candidates

FailsTemplate(mail) ==
    /\ candidates' = Append(candidates, mail)
    /\ UNCHANGED <<counters, fates>>

\* The task of a template is made, or there is no list to make it in; or the
\* mail is left to the classifier.
RouteTemplateTask(mail) ==
    /\ ByTemplate(mail, "create")
    /\ \/ /\ Bump({"template_tasks"})
          /\ Decide(mail, [pass |-> "template", decision |-> "task"])
          /\ UNCHANGED candidates
       \/ /\ ~setting.dry /\ setting.list
          /\ FailsTemplate(mail)

RouteSkipSender(mail) ==
    /\ Routing(mail)
    /\ OverrideById(mail) = NoRule /\ setting.mode # "agent"
    /\ MatchActionTemplate(mail).kind \notin {"skip", "create"}
    /\ MatchSkipSender(mail) # NoRule
    /\ Bump({"skip_sender_count"})
    /\ Decide(mail, [pass |-> "skip", decision |-> "skip"])
    /\ UNCHANGED candidates

RouteResidual(mail) ==
    /\ Routing(mail)
    /\ OverrideById(mail) = NoRule
    /\ \/ setting.mode = "agent"
       \/ /\ MatchActionTemplate(mail).kind \notin {"skip", "create"}
          /\ MatchSkipSender(mail) = NoRule
    /\ candidates' = Append(candidates, mail)
    /\ UNCHANGED <<counters, fates>>

Route ==
    \E mail \in ToSet(rest) :
        \/ RouteOverride(mail) \/ RouteTemplateSkip(mail) \/ RouteTemplateTask(mail)
        \/ RouteSkipSender(mail) \/ RouteResidual(mail)

\* All mails are routed; what is left goes to the classifier of the setting.
Routed ==
    /\ stage = "route" /\ rest = <<>>
    /\ IF candidates = <<>> THEN stage' = "done" /\ UNCHANGED <<rest, batches>>
       ELSE IF setting.mode = "hybrid" /\ setting.backend = "openai"
         THEN stage' = "api" /\ rest' = candidates /\ UNCHANGED batches
       ELSE stage' = "batch" /\ batches' = ChunksOf(candidates) /\ UNCHANGED rest
    /\ UNCHANGED <<setting, candidates, call, results, counters, fates, usage>>

-----------------------------------------------------------------------------
(* codex exec *)

\* The answers to a batch over those to earlier ones.
Gathered(got, before) ==
    [id \in DOMAIN got \cup DOMAIN before |-> IF id \in DOMAIN got THEN got[id] ELSE before[id]]

\* Faulty: what earlier batches were told is kept.
KeptAlways(got, before) == Gathered(got, before)

\* compareAgentToPrefilter gathers the answers to all batches,
\* classifyResidualsCodex takes each by itself.
Kept(got, before) == IF setting.mode = "compare" THEN Gathered(got, before) ELSE got

\* classifyBatchWithCodex has returned: the mails of a batch are applied, and
\* those of the comparison when all batches are asked.
Returns(got) ==
    /\ results' = Kept([id \in DOMAIN got |-> [said |-> got[id], asked |-> IdsOf(call.asked)]],
                       results)
    /\ IF setting.mode = "compare" THEN stage' = "batch" /\ UNCHANGED rest
       ELSE stage' = "apply" /\ rest' = call.asked
    /\ call' = NoCall

\* spawn, unless the policy does not let mail go to the provider.
StartBatch ==
    /\ stage = "batch" /\ batches # <<>>
    /\ call' = [NoCall EXCEPT !.asked = Head(batches)]
    /\ stage' = "exec"
    /\ batches' = Tail(batches)
    /\ UNCHANGED <<setting, rest, candidates, results, counters, fates, usage>>

\* A line of the process: an agent message, of which the last counters, or the
\* usage of its turn.  It may say anything of any mail.
Prints ==
    /\ stage = "exec" /\ setting.authorized /\ call.said < MaxMessages
    /\ \/ \E message \in Messages :
            call' = [call EXCEPT !.message = message, !.said = @ + 1]
       \/ ~call.usage /\ call' = [call EXCEPT !.usage = TRUE]
    /\ UNCHANGED <<setting, stage, rest, candidates, batches, results, counters, fates, usage>>

\* `close' with code 0.
CodexExits ==
    /\ stage = "exec" /\ setting.authorized
    /\ Returns(IF call.message = Nil THEN <<>> ELSE call.message)
    /\ usage' = IF call.usage THEN Append(usage, IdsOf(call.asked)) ELSE usage
    /\ UNCHANGED <<setting, candidates, batches, counters, fates>>

\* Faulty: a process that has printed something is waited for.
ExecFailsIfSilent ==
    /\ stage = "exec" /\ (setting.authorized => call = [NoCall EXCEPT !.asked = call.asked])
    /\ Returns(<<>>)
    /\ UNCHANGED <<setting, candidates, batches, counters, fates, usage>>

\* The timeout, another exit code, a process that cannot be started; or mail
\* may not go there at all.
ExecFails ==
    /\ stage = "exec"
    /\ Returns(<<>>)
    /\ UNCHANGED <<setting, candidates, batches, counters, fates, usage>>

AllAsked ==
    /\ stage = "batch" /\ batches = <<>>
    /\ IF setting.mode = "compare" THEN stage' = "compare" /\ rest' = candidates
       ELSE stage' = "done" /\ UNCHANGED rest
    /\ UNCHANGED <<setting, candidates, batches, call, results, counters, fates, usage>>

-----------------------------------------------------------------------------
(* What is made of a verdict *)

Fails(mail) ==
    /\ Bump({"apiFailureCount"})
    /\ Decide(mail, [pass |-> "failed", decision |-> "pending"])

\* applyClassification: a task that cannot be made is a failure.
ApplyClassification(mail, verdict, asked) ==
    LET done(decision) ==
          Decide(mail, [pass |-> "classifier", decision |-> decision, asked |-> asked,
                     folder |-> ValidateSortFolder(verdict.folder)])
    IN  \/ ~verdict.task /\ Bump({"apiSkipCount"}) /\ done("skip")
        \/ verdict.task /\ (setting.dry \/ setting.list) /\ Bump({"apiTaskCount"}) /\ done("task")
        \/ verdict.task /\ ~setting.dry /\ Fails(mail)

Apply ==
    /\ stage = "apply" /\ rest # <<>>
    /\ LET mail == Head(rest) IN
         IF mail.id \in DOMAIN results
           THEN ApplyClassification(mail, results[mail.id].said, results[mail.id].asked)
           ELSE Fails(mail)
    /\ rest' = Tail(rest)
    /\ UNCHANGED <<setting, stage, candidates, batches, call, results, usage>>

BatchApplied ==
    /\ stage = "apply" /\ rest = <<>>
    /\ stage' = "batch"
    /\ UNCHANGED <<setting, rest, candidates, batches, call, results, counters, fates, usage>>

\* classifyEmailWithApi and what follows it: without authority, with another
\* status, after the timeout or for a text that cannot be read there is no
\* verdict; the usage of a reply is written if its text was missing or read.
AskApi ==
    /\ stage = "api" /\ rest # <<>>
    /\ LET mail == Head(rest)
           wrote == usage' = Append(usage, {mail.id})
       IN  \/ Fails(mail) /\ UNCHANGED <<usage>>
           \/ /\ setting.authorized
              /\ \/ Fails(mail) /\ wrote
                 \/ /\ \E v \in ModelVerdicts : ApplyClassification(mail, v, {mail.id})
                    /\ wrote \/ UNCHANGED <<usage>>
    /\ rest' = Tail(rest)
    /\ UNCHANGED <<setting, stage, candidates, batches, call, results>>

ApiDone ==
    /\ stage = "api" /\ rest = <<>>
    /\ stage' = "done"
    /\ UNCHANGED <<setting, rest, candidates, batches, call, results, counters, fates, usage>>

-----------------------------------------------------------------------------
(* compareAgentToPrefilter *)

Baseline(d) ==
    CASE d.task = TRUE  -> "deterministicTaskCount"
      [] d.task = FALSE -> "deterministicSkipCount"
      [] OTHER          -> "deterministicAgentNeededCount"

CompareOne ==
    /\ stage = "compare" /\ rest # <<>>
    /\ LET mail == Head(rest)
           d == DeterministicDecisionFor(mail)
           agrees == d.task = results[mail.id].said.task
       IN  IF mail.id \notin DOMAIN results
             THEN /\ Bump({Baseline(d), "missingAgentCount"})
                  /\ Decide(mail, [pass |-> "compare", decision |-> "agent-missing"])
             ELSE /\ Bump({Baseline(d),
                            IF results[mail.id].said.task THEN "agentTaskCount" ELSE "agentSkipCount"}
                           \cup (IF d.task = Nil THEN {}
                                 ELSE {IF agrees THEN "agreementCount" ELSE "disagreementCount"}))
                  /\ Decide(mail, [pass |-> "compare", decision |->
                        IF d.task = Nil THEN "compare-agent-needed"
                        ELSE IF agrees THEN "compare-agree" ELSE "compare-disagree"])
    /\ rest' = Tail(rest)
    /\ UNCHANGED <<setting, stage, candidates, batches, call, results, usage>>

Compared ==
    /\ stage = "compare" /\ rest = <<>>
    /\ stage' = "done"
    /\ UNCHANGED <<setting, rest, candidates, batches, call, results, counters, fates, usage>>

CascadeNext ==
    \/ Route \/ Routed \/ StartBatch \/ Prints \/ CodexExits \/ ExecFails \/ AllAsked
    \/ Apply \/ BatchApplied \/ AskApi \/ ApiDone \/ CompareOne \/ Compared

CascadeSpec == CascadeInit /\ [][CascadeNext]_cascadeVars

\* The pass goes on by itself except while it awaits codex; there the timer
\* fires, whether the process has printed anything or not.
CascadeFairness ==
    /\ WF_cascadeVars(CascadeNext /\ stage # "exec")
    /\ WF_cascadeVars(ExecFails)

FairCascade == CascadeSpec /\ CascadeFairness

\* formatSummary, for a scan that listed something.
Summary ==
    [scanned |-> Len(Inbox),
     preResolved |-> counters["template_tasks"] + counters["template_skips"]
                       + counters["skip_sender_count"],
     tasks |-> counters["template_tasks"] + counters["apiTaskCount"],
     classified |-> IF setting.mode = "compare" THEN 0 ELSE Len(candidates),
     failed |-> counters["apiFailureCount"],
     calls |-> Len(usage)]

-----------------------------------------------------------------------------
(* Properties *)

DecidedBy(pass, decision) ==
    Cardinality({id \in Ids : fates[id][1].pass = pass /\ fates[id][1].decision = decision})

Overridden == {id \in Ids : fates[id][1].pass = "override"}

\* Each mail is decided once, and the summary accounts for each: what the rules
\* resolved, what they overrode and what went to the classifier is what was
\* listed, and every counter is the number of such rows.
EachOnce ==
    /\ \A id \in Ids : Len(fates[id]) = 1
    /\ setting.mode # "compare" =>
         /\ Summary.preResolved + Summary.classified + Cardinality(Overridden) = Summary.scanned
         /\ Summary.classified = counters["apiTaskCount"] + counters["apiSkipCount"] + Summary.failed
         /\ Summary.tasks = DecidedBy("template", "task") + DecidedBy("classifier", "task")
         /\ Summary.failed = DecidedBy("failed", "pending")
    /\ setting.mode = "compare" =>
         /\ counters["agentTaskCount"] + counters["agentSkipCount"] + counters["missingAgentCount"]
              = Summary.scanned
         /\ counters["deterministicTaskCount"] + counters["deterministicSkipCount"]
              + counters["deterministicAgentNeededCount"] = Summary.scanned
         /\ counters["agreementCount"] = DecidedBy("compare", "compare-agree")
         /\ counters["disagreementCount"] = DecidedBy("compare", "compare-disagree")

\* A mail is decided by an answer to a call that was asked about it, and goes
\* to a folder there is.
ByItsOwnCall ==
    \A id \in Ids : fates[id][1].pass = "classifier" =>
        /\ id \in fates[id][1].asked
        /\ Folders # <<>> => fates[id][1].folder \in ToSet(Folders)

\* Two overrides of a mail differ: the scan goes by the last, the comparison
\* by the first.
Contradicted(mail) ==
    \E i, j \in DOMAIN setting.overrides :
        /\ setting.overrides[i].id = mail.id /\ setting.overrides[j].id = mail.id
        /\ setting.overrides[i].decision # setting.overrides[j].decision

\* The loop of the scan decides a mail by the rule that the comparison would
\* name, and the same way, unless its overrides contradict each other.
RulesReadAlike ==
    setting.mode = "hybrid" =>
      \A i \in DOMAIN Inbox :
        LET row == fates[Inbox[i].id][1]
            d == DeterministicDecisionFor(Inbox[i])
        IN  /\ row.pass \in {"override", "skip"} => row.pass = d.source
            /\ row.pass = "override" =>
                 NeedsTask(row.decision) = d.task \/ Contradicted(Inbox[i])
            /\ row.pass = "template" => row.pass = d.source /\ (row.decision = "task") = d.task
            /\ row.pass \in {"classifier", "failed"} =>
                 d.source = "agent-needed" \/ (d.source = "template" /\ d.task)

\* No call is paid for twice, and none that was not made is written down.
UsageOnce ==
    /\ \A i, j \in DOMAIN usage : i # j => usage[i] \cap usage[j] = {}
    /\ UNION ToSet(usage) \subseteq IdsOf(candidates)

\* When a pass is over, its rows, its counters, its usage and its summary tell
\* one story, whatever the models answered about whichever mails, however a
\* process ended and whichever tasks could not be made.
PassAddsUp == stage = "done" => EachOnce /\ ByItsOwnCall /\ RulesReadAlike /\ UsageOnce

\* A pass comes to its end though codex may hang, in the middle of its output
\* or before it.
PassEnds == <>(stage = "done")
=============================================================================
