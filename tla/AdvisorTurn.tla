------------------------------ MODULE AdvisorTurn -----------------------------
(***************************************************************************)
(* The turns of one advising session with their models and tools:          *)
(* runAdvisorTurn, runAttempt and runWithProvider (src/advisor-agent.ts),  *)
(* the tools they hand to the agent (src/advisor-mcp.ts,                   *)
(* advisor-artifacts.ts, advisor-skills.ts, advisor-health.ts) and the row *)
(* a turn leaves (src/advisor-analytics.ts).                               *)
(*                                                                         *)
(* The loop of model and tools is a library's (pi-agent-core); it appears  *)
(* as its hooks in this code see it.  A message keeps what the code looks  *)
(* at: its role, the turn and the provider's attempt it belongs to, and    *)
(* what kind of text it is.                                                *)
(***************************************************************************)
EXTENDS Naturals, Sequences, FiniteSets, SequencesExt

CONSTANTS
    Servers,     \* advisorMcpServers(), in their order
    Offers,      \* for each server, the lists of tools it may answer with
    Denylist,    \* ADVISOR_SKILL_TOOL_DENYLIST
    HostTools,   \* the tools the host adds to those of the servers
    Chain,       \* MODE_CHAINS[session.mode]
    Resolvable,  \* the providers with a known model and a key
    Policies,    \* the sets of providers the policy may authorize
    Completions, \* the providers of the chat-completions family
    MaxRounds,   \* ADVISOR_MAX_ROUNDS
    Budget,      \* ADVISOR_MAX_REQUEST_TOKENS
    Batches,     \* sequences of tools a model may call in one reply
    Kinds,       \* what the results of a server's tool may be
    Turns,       \* bound on the turns of the session
    None

Proposer == "propose_schedule"
Names == HostTools \cup UNION {UNION Offers[s] : s \in ToSet(Servers)}

ASSUME TurnAssumption ==
    /\ Proposer \in HostTools
    /\ MaxRounds \in Nat \ {0} /\ Budget \in Nat /\ Turns \in Nat
    /\ \A b \in Batches : b \in Seq(ToSet(b)) \ {<<>>}
    /\ Chain \in Seq(ToSet(Chain)) /\ Servers \in Seq(ToSet(Servers))
    /\ Kinds \subseteq {"data", "none", "narrow", "fault"}
    /\ None \notin ToSet(Chain)

VARIABLES
    service,     \* "starting", "up" or "dead"
    policy,      \* the providers authorized by the policy that was loaded
    connected,   \* how many servers createAdvisorMcpBridge has gone through
    bridge,      \* the names of bridge.tools
    conversation,\* session.piSessionRoot: the messages committed so far
    schedule,    \* session.lastSchedule: the attempt that proposed it
    turn,        \* number of the turn under way, or of the last one
    input,       \* its question: "question", or "essay", a long one
    pc,
    tried,       \* place in Chain of the provider being tried
    signalled,   \* signal.aborted
    attempt,     \* attemptRoot
    before,      \* scheduleBefore
    run,         \* the locals of runWithProvider
    reply,       \* what harness.prompt resolves with
    outcomes,    \* the outcome of each turn so far; "failed": it threw
    row          \* the row of the last turn in turns.jsonl

bootVars    == <<service, policy, connected, bridge>>
sessionVars == <<conversation, schedule>>
endVars     == <<outcomes, row>>
attemptVars == <<tried, attempt, before, run, reply>>
vars == <<bootVars, sessionVars, turn, input, pc, signalled, attemptVars, endVars>>

\* run.halting: harness.abort() was called; run.calls: the tool calls of the
\* model's last reply; run.toolLog: turnMeta.toolLog.
FreshRun == [halting |-> FALSE, rounds |-> 0, toolCalls |-> 0, hitRoundCap |-> FALSE,
             hitTimeout |-> FALSE, calls |-> <<>>, toolLog |-> <<>>]
NoReply == [stop |-> "none", text |-> "blank"]

-----------------------------------------------------------------------------
(* Messages and the budget of a request *)

KindsOf == [user |-> {"question", "essay"},
            assistant |-> {"calls", "answer", "prose", "blank"},
            tool |-> {"data", "none", "narrow", "fault"}]
MessageKinds == UNION {KindsOf[r] : r \in DOMAIN KindsOf}
Messages == {m \in [role : DOMAIN KindsOf, turn : Nat, by : Nat, kind : MessageKinds] :
                m.kind \in KindsOf[m.role]}

Message(role, kind) == [role |-> role, turn |-> turn, by |-> tried, kind |-> kind]
Marked(m) == [m EXCEPT !.kind = "trimmed"]

\* estimateTokens of the persona and the messages ms: a result with data is
\* long, an essay longer still, and the marker of a trimmed result is longer than
\* the shortest ones.
Size(ms) ==
    1 + Len(ms) + 3 * Cardinality({i \in DOMAIN ms : ms[i].kind = "data"})
                + Cardinality({i \in DOMAIN ms : ms[i].kind = "trimmed"})
                + Budget * Cardinality({i \in DOMAIN ms : ms[i].kind = "essay"})

\* What the n-th step of the two loops of enforceContextBudget leaves beside the
\* persona: the tool results among the n oldest messages give way to a marker,
\* then the oldest messages are dropped, never the last one.
Shrunk(ms, n) ==
    LET trimmed == [i \in DOMAIN ms |->
                      IF i <= n /\ ms[i].role = "tool" THEN Marked(ms[i]) ELSE ms[i]]
    IN  IF n <= Len(ms) THEN trimmed ELSE SubSeq(trimmed, n - Len(ms) + 1, Len(ms))
\* Its size.
SizeAt(ms, n) ==
    LET marks(S)  == Cardinality({i \in S : ms[i].role = "tool"})
        essays(S) == Cardinality({i \in S : ms[i].kind = "essay"})
        left      == n - Len(ms) + 1 .. Len(ms)
    IN  IF n <= Len(ms)
          THEN 1 + Len(ms) + marks(1 .. n) + Budget * essays(DOMAIN ms)
                 + 3 * Cardinality({i \in n + 1 .. Len(ms) : ms[i].kind = "data"})
          ELSE 1 + Cardinality(left) + marks(left) + Budget * essays(left)

\* The steps after which the request fits.
Fitting(ms) == {n \in 0 .. 2 * Len(ms) - 1 : SizeAt(ms, n) <= Budget}

\* enforceContextBudget: what the first step that fits leaves.
EnforceContextBudget(ms) ==
    LET steps == Fitting(ms)
    IN  Shrunk(ms, IF steps = {} THEN 2 * Len(ms) - 1 ELSE Min(steps))

\* Faulty: a request that does not fit in the end is sent all the same.
RefusesNothing(ms) == FALSE

\* It throws.
Refuses(ms) == Fitting(ms) = {}

\* Only the payloads of chat-completions pass the hook.
Hooked == Chain[tried] \in Completions
Payload == IF Hooked THEN EnforceContextBudget(attempt) ELSE attempt

-----------------------------------------------------------------------------
(* Startup *)

Init ==
    /\ service = "starting"
    /\ policy \in Policies
    /\ connected = 0 /\ bridge = {}
    /\ conversation = <<>> /\ schedule = None
    /\ turn = 0 /\ input = "question" /\ pc = "idle"
    /\ signalled = FALSE
    /\ tried = 0 /\ attempt = <<>> /\ before = None /\ run = FreshRun /\ reply = NoReply
    /\ outcomes = <<>> /\ row = None

\* initAdvisorTools: no chain may have a provider the policy does not authorize.
AssertChain ==
    /\ service = "starting" /\ connected = 0
    /\ ~(ToSet(Chain) \subseteq policy)
    /\ service' = "dead"
    /\ UNCHANGED <<policy, connected, bridge, sessionVars, turn, input, pc, signalled,
                   attemptVars, endVars>>

\* A server that cannot be reached is skipped; one that offers a tool of
\* another server ends the process.
Connect ==
    /\ service = "starting"
    /\ ToSet(Chain) \subseteq policy
    /\ connected < Len(Servers)
    /\ connected' = connected + 1
    /\ \/ UNCHANGED <<service, bridge>>
       \/ \E offered \in Offers[Servers[connected + 1]] :
            \/ /\ (offered \ Denylist) \cap bridge # {}
               /\ service' = "dead"
               /\ UNCHANGED bridge
            \/ /\ (offered \ Denylist) \cap bridge = {}
               /\ bridge' = bridge \cup (offered \ Denylist)
               /\ UNCHANGED service
    /\ UNCHANGED <<policy, sessionVars, turn, input, pc, signalled, attemptVars, endVars>>

Ready ==
    /\ service = "starting"
    /\ ToSet(Chain) \subseteq policy
    /\ connected = Len(Servers)
    /\ service' = "up"
    /\ UNCHANGED <<policy, connected, bridge, sessionVars, turn, input, pc, signalled,
                   attemptVars, endVars>>

\* All the tools the agent gets.
Tools == bridge \cup HostTools

-----------------------------------------------------------------------------
(* A turn and its attempts *)

\* runAdvisorTurn for the advisor's next question.
Begin ==
    /\ service = "up" /\ pc = "idle"
    /\ turn < Turns
    /\ turn' = turn + 1
    /\ input' \in {"question", "essay"}
    /\ tried' = 0
    /\ pc' = "next"
    /\ signalled' = FALSE
    /\ UNCHANGED <<bootVars, sessionVars, attempt, before, run, reply, endVars>>

\* A turn is over, and its scratch files and locals are gone.
Over(outcome) ==
    /\ outcomes' = Append(outcomes, outcome)
    /\ pc' = "idle"
    /\ attempt' = <<>> /\ before' = None /\ run' = FreshRun /\ reply' = NoReply

\* resolveProvider for those after the one tried last.
Usable == {i \in DOMAIN Chain : i > tried /\ Chain[i] \in Resolvable}

\* Faulty: an attempt goes on with the files of the one before it.
TryOnTop ==
    /\ pc = "next"
    /\ \/ /\ Usable = {}
          /\ Over("failed")
          /\ UNCHANGED tried
       \/ /\ Usable # {}
          /\ tried' = Min(Usable)
          /\ attempt' = IF tried = 0 THEN conversation ELSE attempt
          /\ before' = schedule
          /\ run' = FreshRun /\ reply' = NoReply
          /\ pc' = "open"
          /\ UNCHANGED outcomes
    /\ UNCHANGED <<bootVars, sessionVars, turn, input, signalled, row>>

\* The next provider of the chain gets a copy of the conversation; if there is
\* none left the turn has failed.
Try ==
    /\ pc = "next"
    /\ \/ /\ Usable = {}
          /\ Over("failed")
          /\ UNCHANGED tried
       \/ /\ Usable # {}
          /\ tried' = Min(Usable)
          /\ attempt' = conversation
          /\ before' = schedule
          /\ run' = FreshRun /\ reply' = NoReply
          /\ pc' = "open"
          /\ UNCHANGED outcomes
    /\ UNCHANGED <<bootVars, sessionVars, turn, input, signalled, row>>

\* runWithProvider up to harness.prompt: a turn that was stopped does not start.
Prompt ==
    /\ pc = "open"
    /\ \/ signalled /\ pc' = "thrown" /\ UNCHANGED attempt
       \/ ~signalled /\ pc' = "ask" /\ attempt' = Append(attempt, Message("user", input))
    /\ UNCHANGED <<bootVars, sessionVars, turn, input, signalled, tried, before, run,
                   reply, endVars>>

\* A request to the provider, with the hooks before it: the round cap and the
\* budget, which ends the attempt if nothing fits.
Request ==
    /\ pc = "ask"
    /\ LET capped == run.rounds >= MaxRounds
       IN  run' = [run EXCEPT !.rounds = @ + 1, !.hitRoundCap = @ \/ capped,
                              !.halting = @ \/ capped]
    /\ \/ /\ Hooked /\ Refuses(attempt)
          /\ reply' = [stop |-> "error", text |-> "blank"]
          /\ pc' = "judge"
       \/ /\ ~(Hooked /\ Refuses(attempt))
          /\ pc' = "model"
          /\ UNCHANGED reply
    /\ UNCHANGED <<bootVars, sessionVars, turn, input, signalled, tried, attempt, before,
                   endVars>>

\* The members of S, the least first.
InOrder(S) ==
    CHOOSE f \in [1 .. Cardinality(S) -> S] : \A j, k \in DOMAIN f : j < k => f[j] < f[k]

\* The model calls tools, and they begin in the order of the batch.  The loop
\* itself answers a call that names no tool, and no hook sees that one.
Calls ==
    /\ pc = "model" /\ ~run.halting
    /\ \E batch \in Batches :
         LET known == {i \in DOMAIN batch : batch[i] \in Tools}
             order == InOrder(known)
             ghosts == Cardinality(DOMAIN batch \ known)
         IN  /\ run' = [run EXCEPT
                  !.toolCalls = @ + Cardinality(known),
                  !.calls = [i \in DOMAIN batch |->
                      [name |-> batch[i],
                       state |-> IF batch[i] \in Tools THEN "running" ELSE "unknown"]],
                  !.toolLog = @ \o [k \in DOMAIN order |->
                                     [name |-> batch[order[k]], result |-> "unset"]]]
             /\ attempt' = attempt \o <<Message("assistant", "calls")>>
                             \o [i \in 1 .. ghosts |-> Message("tool", "fault")]
    /\ pc' = "tools"
    /\ UNCHANGED <<bootVars, sessionVars, turn, input, signalled, tried, before, reply, endVars>>

\* The model ends: with text, with none, with a tool call written as prose, cut
\* off by its output budget, or with an error.
Says ==
    /\ pc = "model" /\ ~run.halting
    /\ \E stop \in {"stop", "length", "error"}, text \in {"answer", "prose", "blank"} :
         /\ stop = "error" => text = "blank"
         /\ reply' = [stop |-> stop, text |-> text]
         /\ attempt' = Append(attempt, Message("assistant", text))
    /\ pc' = "judge"
    /\ UNCHANGED <<bootVars, sessionVars, turn, input, signalled, tried, before, run, endVars>>

\* harness.abort() ends a reply where it is.
Halts ==
    /\ run.halting
    /\ \/ pc = "model" /\ attempt' = Append(attempt, Message("assistant", "blank"))
       \/ pc = "tools" /\ UNCHANGED attempt
    /\ reply' = [stop |-> "aborted", text |-> "blank"]
    /\ pc' = "judge"
    /\ UNCHANGED <<bootVars, sessionVars, turn, input, signalled, tried, before, run, endVars>>

\* deriveToolOutcome of a result's text, noted with the last call of that name
\* that has none yet.
Noted(log, name, kind) ==
    LET open == {i \in DOMAIN log : log[i].name = name /\ log[i].result = "unset"}
    IN  IF kind \notin {"none", "narrow"} \/ open = {} THEN log
        ELSE [log EXCEPT ![CHOOSE i \in open : \A k \in open : k <= i].result = kind]

\* The check of the services answers, whichever of them it finds down.
HealthAnswers == {"data"}
\* A skill that is not on the list, or has no file, is an error.
SkillAnswers(name) == IF name = "list-skills" THEN {"data"} ELSE {"data", "fault"}
\* A schedule that fails a check of its form or against the snapshot is refused.
ProposerAnswers == {"data", "fault"}
Answers(name) ==
    CASE name = Proposer -> ProposerAnswers
      [] name = "check-system-health" -> HealthAnswers
      [] name \in {"list-skills", "get-skill-docs"} -> SkillAnswers(name)
      [] OTHER -> Kinds

\* Faulty: in its last round a turn is ended, but not noted as cut off.
CallEndsQuietly ==
    /\ pc = "tools"
    /\ \E i \in DOMAIN run.calls, kind \in Kinds \cup {"data", "fault"} :
         LET name == run.calls[i].name
         IN  /\ run.calls[i].state = "running"
             /\ kind \in Answers(name)
             /\ schedule' = IF name = Proposer /\ kind = "data"
                              THEN [turn |-> turn, by |-> tried] ELSE schedule
             /\ attempt' = Append(attempt, Message("tool", kind))
             /\ run' = [run EXCEPT
                    !.toolLog = Noted(@, name, kind),
                    !.calls[i].state = IF run.rounds < MaxRounds THEN "done" ELSE "final"]
    /\ UNCHANGED <<bootVars, conversation, turn, input, pc, signalled, tried, before, reply, endVars>>

\* A tool answers.  propose_schedule keeps what it verified; in the last round
\* the call asks the loop to end.
CallEnds ==
    /\ pc = "tools"
    /\ \E i \in DOMAIN run.calls, kind \in Kinds \cup {"data", "fault"} :
         LET name == run.calls[i].name
         IN  /\ run.calls[i].state = "running"
             /\ kind \in Answers(name)
             /\ schedule' = IF name = Proposer /\ kind = "data"
                              THEN [turn |-> turn, by |-> tried] ELSE schedule
             /\ attempt' = Append(attempt, Message("tool", kind))
             /\ run' = [run EXCEPT
                    !.toolLog = Noted(@, name, kind),
                    !.calls[i].state = IF run.rounds < MaxRounds THEN "done" ELSE "final",
                    !.hitRoundCap = @ \/ run.rounds >= MaxRounds]
    /\ UNCHANGED <<bootVars, conversation, turn, input, pc, signalled, tried, before, reply, endVars>>

\* All results are in: the loop ends if each call asked for it.
BatchEnds ==
    /\ pc = "tools" /\ ~run.halting
    /\ \A i \in DOMAIN run.calls : run.calls[i].state \in {"unknown", "done", "final"}
    /\ \/ /\ \A i \in DOMAIN run.calls : run.calls[i].state = "final"
          /\ reply' = [stop |-> "toolUse", text |-> "answer"]
          /\ pc' = "judge"
          /\ UNCHANGED run
       \/ /\ \E i \in DOMAIN run.calls : run.calls[i].state # "final"
          /\ pc' = "ask"
          /\ run' = [run EXCEPT !.calls = <<>>]
          /\ UNCHANGED reply
    /\ UNCHANGED <<bootVars, sessionVars, turn, input, signalled, tried, attempt, before, endVars>>

Prompting == pc \in {"ask", "model", "tools"}

\* Faulty: the ceiling is noted, but does not end the prompt.
DeadlineNoted ==
    /\ Prompting /\ ~run.hitTimeout
    /\ run' = [run EXCEPT !.hitTimeout = TRUE]
    /\ UNCHANGED <<bootVars, sessionVars, turn, input, pc, signalled, tried, attempt, before,
                   reply, endVars>>

\* The wall-clock ceiling of the attempt.
Deadline ==
    /\ Prompting /\ ~run.hitTimeout
    /\ run' = [run EXCEPT !.hitTimeout = TRUE, !.halting = TRUE]
    /\ UNCHANGED <<bootVars, sessionVars, turn, input, pc, signalled, tried, attempt, before,
                   reply, endVars>>

\* The advisor stops the turn, whatever it is waiting for.
Stop ==
    /\ pc \notin {"idle", "judge"} /\ ~signalled
    /\ signalled' = TRUE
    /\ run' = [run EXCEPT !.halting = @ \/ Prompting]
    /\ UNCHANGED <<bootVars, sessionVars, turn, input, pc, tried, attempt, before, reply, endVars>>

-----------------------------------------------------------------------------
(* The end of an attempt *)

\* detectMalformedToolCall
Malformed == reply.stop = "stop" /\ run.toolCalls = 0 /\ reply.text = "prose"

\* The returns and throws of runWithProvider, in their order.
Verdict ==
    IF reply.stop = "error" THEN "throw"
    ELSE IF signalled THEN "aborted"
    ELSE IF run.hitTimeout THEN "timeout"
    ELSE IF run.hitRoundCap THEN "round_cap"
    ELSE IF reply.stop = "aborted" THEN "aborted"
    ELSE IF reply.stop = "length" THEN "truncated"
    ELSE IF Malformed THEN "malformed_tool_call"
    ELSE IF reply.text = "blank" THEN "throw" ELSE "complete"

\* recordTurn
Records(outcome) ==
    row' = [turn |-> turn, outcome |-> outcome,
            tools |-> [i \in DOMAIN run.toolLog |-> run.toolLog[i].name],
            empty |-> Cardinality({i \in DOMAIN run.toolLog : run.toolLog[i].result = "none"}),
            narrow |-> \E i \in DOMAIN run.toolLog : run.toolLog[i].result = "narrow"]

\* An answered turn replaces the session's conversation.
Commit ==
    /\ pc = "judge" /\ Verdict \notin {"throw", "aborted", "malformed_tool_call"}
    /\ conversation' = attempt
    /\ Records(Verdict)
    /\ Over(Verdict)
    /\ UNCHANGED <<bootVars, schedule, turn, input, signalled, tried>>

\* An attempt that does not commit gives back the schedule it found.
Discard ==
    /\ pc = "judge" /\ Verdict \in {"aborted", "malformed_tool_call"}
    /\ schedule' = before
    /\ Records(Verdict)
    /\ Over(Verdict)
    /\ UNCHANGED <<bootVars, conversation, turn, input, signalled, tried>>

Throws ==
    /\ pc = "judge" /\ Verdict = "throw"
    /\ pc' = "thrown"
    /\ UNCHANGED <<bootVars, sessionVars, turn, input, signalled, attemptVars, endVars>>

\* The next provider is tried, unless the advisor has stopped the turn.
Thrown ==
    /\ pc = "thrown"
    /\ schedule' = before
    /\ \/ /\ signalled
          /\ Over("failed")
       \/ /\ ~signalled
          /\ pc' = "next"
          /\ UNCHANGED <<outcomes, attempt, before, run, reply>>
    /\ UNCHANGED <<bootVars, conversation, turn, input, signalled, tried, row>>

-----------------------------------------------------------------------------
Runs == \/ Try \/ Prompt \/ Request \/ CallEnds \/ BatchEnds \/ Halts
        \/ Commit \/ Discard \/ Throws \/ Thrown
Boots == AssertChain \/ Connect \/ Ready

Next == Boots \/ Begin \/ Runs \/ Calls \/ Says \/ Deadline \/ Stop

Spec == Init /\ [][Next]_vars

\* The code goes on, a tool answers or its client's request times out, and the
\* timer of the ceiling fires.  Nothing is assumed of a model.
FairSpec == Spec /\ WF_vars(Runs) /\ WF_vars(Deadline)

-----------------------------------------------------------------------------
(* Properties *)

Committed == {"complete", "timeout", "round_cap", "truncated"}
Outcomes == Committed \cup {"aborted", "malformed_tool_call", "failed"}

TypeOK ==
    /\ service \in {"starting", "up", "dead"}
    /\ connected \in 0 .. Len(Servers)
    /\ bridge \subseteq Names \ Denylist
    /\ turn \in 0 .. Turns /\ tried \in 0 .. Len(Chain)
    /\ pc \in {"idle", "next", "open", "ask", "model", "tools", "judge", "thrown"}
    /\ input \in KindsOf.user
    /\ conversation \in Seq(Messages) /\ attempt \in Seq(Messages)
    /\ outcomes \in Seq(Outcomes)
    /\ {signalled, run.halting, run.hitRoundCap, run.hitTimeout} \subseteq BOOLEAN
    /\ run.rounds \in 0 .. MaxRounds + 1
    /\ \A i \in DOMAIN run.calls : run.calls[i].state \in {"running", "unknown", "done", "final"}

\* The messages of turn t among ms begin with its question and are one
\* provider's.
TracedOnce(t, ms) ==
    \E q \in DOMAIN ms :
        /\ ms[q].turn = t /\ ms[q].role = "user"
        /\ \A i \in DOMAIN ms : ms[i].turn = t /\ i # q =>
             q < i /\ ms[i].role # "user" /\ ms[i].by = ms[q].by

\* An attempt that proposed a schedule is among ms.
Offered(proposed, ms) ==
    proposed # None =>
        \E i \in DOMAIN ms : ms[i].turn = proposed.turn /\ ms[i].by = proposed.by

\* Between turns, the conversation later turns build on holds each turn that
\* was answered exactly once and as one provider had it: failed attempts,
\* stopped and malformed turns left no message, and the schedule offered for
\* download comes from one of the attempts that are in it.
OneTracePerTurn ==
    pc = "idle" =>
        /\ {m.turn : m \in ToSet(conversation)} =
             {t \in DOMAIN outcomes : outcomes[t] \in Committed}
        /\ \A t \in DOMAIN outcomes : outcomes[t] \in Committed =>
             TracedOnce(t, conversation)
        /\ Offered(schedule, conversation)

\* The step that reports a turn as complete has an attempt that ends with the
\* model's own text, after a result for every tool call, in no more rounds than
\* are allowed; a tool call in prose is an answer only if real ones came first.
CompleteIsWhole ==
    Len(outcomes') > Len(outcomes) /\ Last(outcomes') = "complete" =>
        /\ Last(attempt).role = "assistant"
        /\ Last(attempt).kind = "answer" \/ (Last(attempt).kind = "prose" /\ run.toolCalls > 0)
        /\ run.rounds <= MaxRounds
        /\ Len(run.toolLog) <= Cardinality({i \in DOMAIN attempt :
                                 attempt[i].role = "tool" /\ attempt[i].turn = turn})

\* What is sent to a chat-completions provider keeps within the budget and has
\* the newest message, whatever the tools brought.
RequestsFit ==
    pc = "model" /\ Hooked =>
        LET sent == Payload IN
        /\ Size(sent) <= Budget
        /\ Last(sent) \in {Last(attempt), Marked(Last(attempt))}

\* The row of a turn counts as many empty results as its provider's tools gave,
\* in whatever order calls of one name were answered.
RowTellsTheTools ==
    Len(outcomes') > Len(outcomes) /\ Last(outcomes') # "failed" =>
        LET got(kind) == Cardinality({i \in DOMAIN attempt :
                              attempt[i].turn = turn /\ attempt[i].kind = kind})
        IN  /\ row'.turn = turn /\ row'.empty = got("none")
            /\ row'.narrow <=> got("narrow") > 0

\* What a turn is reported to be, and what its row counts, is what happened.
TurnIsTold == [][CompleteIsWhole /\ RowTellsTheTools]_vars

\* Every turn ends, though a model may never answer or call tools for ever.
EveryTurnEnds == pc # "idle" ~> pc = "idle"

\* src/advisor-agent.ts: "The system prompt and the newest user message are
\* never trimmed".
QuestionIsNeverTrimmed ==
    pc = "model" /\ ~run.halting => \E m \in ToSet(Payload) : m.role = "user" /\ m.turn = turn
=============================================================================
