# CUassistant in TLA+

This directory holds TLA+ models of CUassistant, the configurations with which
TLC checks them, and proofs about them that TLAPS checks. Paths such as
`src/scan.ts` are relative to the repository; line numbers are those of the
commit the models were written from. `PROJECT.json` maps every definition of a
model to the lines it stands for.

## 1. The system

CUassistant runs on one Mac for one person. launchd and cron start several
Node processes, which share files under `state/` and a few network services.

| Component | State | Operations | Talks to |
|---|---|---|---|
| Email scan (`src/scan.ts`, `scan-effects.ts`, `scan-mail.ts`) | `decisions.jsonl`, `pending_residuals.jsonl`, `progress.yaml`, all on disk | list the inboxes since the cursor, settle mails by rules or by a classifier, make tasks, save the mails that failed, advance the cursors | Graph and Gmail, a classifier, the lock |
| Scan lock (`src/state.ts`) | the file `scan_in_progress.lock` | acquire, recover when stale, release | every scanning process |
| Agent-driven triage (`src/mcp-tools/email-triage.ts`) | `activeScan` in the MCP server, and the scan's files | `get_triage_candidates`, `log_triage_decision`, `complete_scan` | an agent over MCP, the scan's files and lock |
| Approval gate (`src/approval/gate.ts`, `store.ts`) | the map of requests, the submit times, and both in SQLite | submit, approve, reject, status, expiry, hydration | the Telegram channel, the mail senders |
| Telegram channel (`src/notifiers/telegram-approval.ts`) | the update offset, error counters, times of the last success, warning and exit | post a message, poll for taps, back off, warn, exit for a restart | Telegram, the gate, launchd |
| Advisor chat (`src/advisor-server.ts`, `advisor-session.ts`, `advisor-agent.ts`) | clients, sessions with history and schedule, turns in flight, transcripts on disk | chat, stop, clear, mode, expiry, shutdown | browsers, language models, MCP servers |
| Advisor turn (`src/advisor-agent.ts`, `advisor-mcp.ts`, `advisor-analytics.ts`) | the session's conversation, its schedule, the locals of an attempt, the analytics file | connect the tool servers, try the providers of a chain, let model and tools alternate, trim requests, commit or discard | language models, MCP servers |
| Advisor page (`src/advisor-ui.ts`) | the message box, the articles, the buttons, the track shown | submit, confirm, stop, clear, change tracks | the chat server |
| Classifier cascade (`src/cascade.ts`, `residual-classifiers.ts`, `codex-agent.ts`, `openai-classifier.ts`, `compare.ts`) | the counters, the answers and the usage of one pass | rules, batches, one process per batch or one call per mail, comparison, summary | codex, OpenAI, the scan |
| Container bridge (`scripts/mcp-public-bridge.mjs`) | a listener per port, the cached gateway, the set of ports without a listener | find the gateway, open, close and move listeners | the container runtime, the host's interfaces |
| Measuring scripts (`scripts/fabrication-probe.ts`, `tool-ceiling-probe.ts`, `advising-benchmark/runner.ts`) | the blocks measured, the report file | read the truth, check the endpoint, run trials, classify, write checkpoints and the report | the model's endpoint, the term snapshot |
| Consumer registry (`src/mcp-tools/consumers.ts`) | `mcp-consumers.json` | pair, revoke, attest, mint, note when seen | the MCP server, the token portal, a command line |
| MCP servers and tools (`src/mcp-tools/`) | audit rows, the list of owned files | authenticate each request, check scope and policy, call one service, leave rows | agents, the consumer registry, Graph, Google |
| Term snapshots (`src/clemson-classes.ts`, `src/clemson-schedule-db.ts`) | a SQLite file per term, in two processes' hands | scan Banner page by page, replace the file, fall back to it | Banner, the daily job, the search tools |
| Advising tools (`src/mcp-tools/clemson-advising.ts`, `clemson-schedule.ts`, `src/advisor-schedule-verify.ts`, `schedule-grid.ts`) | the sections chosen so far, in the agent's answers | search, overlay live seats, check conflicts, verify and draw a schedule | the snapshot, Banner, the advisor's agent |

What is hard in it, and what makes it correct:

* **Gate.** A mail must go out once, after the owner's tap on that request, and
  never otherwise, although taps are doubled, late, redelivered after a restart
  or a stranger's, although the process dies inside a send, and although a
  write of the store may fail and is then only reported on stderr.
* **Receiver.** A process whose fetch layer is stuck must be replaced, a network
  that is down must not cause restarts, restarts must not come in bursts, and a
  receiver that gets nothing must say so.
* **Scan.** A mail must not be forgotten, nor get two tasks or two verdicts,
  although a scan may die between any two writes and a created task's answer
  may be lost; and two processes must not scan at the same time.
* **Agent-driven triage.** The same, with a lock that is taken by one call and
  released by another one, at an agent's pace.
* **Chat.** Requests abort and await each other; a turn commits its transcript
  by removing a directory and copying another one back, while other requests
  are served. What is kept must be what was answered, nothing that was cleared
  may come back, and every request must be answered.
* **Turn.** A model may never answer, call tools for ever, write a tool call as
  text or break off; what is kept of a turn must be one whole attempt, what is sent
  must fit, and what is recorded must be what happened.
* **Page.** Its handlers await answers that overtake each other, while the
  advisor types, submits, stops, clears and changes tracks: what it shows must be what the
  server remembers, and private text must not go to the public model
  unconfirmed.
* **Cascade.** Several rules may match one mail, a process may hang or answer
  about other mails than it was asked about: each mail is decided once, by an answer to
  its own question, and the counters add up.
* **Bridge.** The gateway's address comes and goes with the network while a
  cached value is trusted: a listener must not stay at an address that is dead.
* **Measuring.** The endpoint may load another model and the truth be replaced in the
  middle of a run of hours: a rate must not be printed of what was not measured.
* **Registry.** Three processes load, change and save one file.
* **Tools.** A request is authenticated, checked, announced in the audit,
  carried out by somebody else and reported, with awaits in between: it must act for its
  caller only, where it was asked to, and the rows must tell what happened.
* **Snapshots.** A scan of minutes competes with another one and may be broken
  off, cold or empty; the file that answers every question must stay one whole
  scan and never an older one, and a failure must not read as "nothing taught".
* **Advice.** Half-open intervals, patterns on several days, meetings without a
  time, seats that move while they are asked for: what is reported free is
  free, and what is printed is what is published.

`hazards` in `PROJECT.json` lists the places in the code where these can go
wrong, with the properties that watch them.

## 2. The modules

| Module | Models | Extends or instantiates |
|---|---|---|
| `SendOnce` | what the gate promises: a request is decided at most once, and a mail goes out at most once, after an approval | |
| `ApprovalGate` | gate, store, taps and restarts | implements `SendOnce` |
| `ApprovalGateProofs` | theorems about `ApprovalGate` | `ApprovalGate` |
| `PollWatchdog` | the receiver's loop and its watchdog | |
| `MailDrain` | what the scans promise: a mail that arrives is open until it is settled, and it is settled | |
| `TriageScan` | lock, `runScan`, its files and its effects | implements `MailDrain` |
| `AgentTriage` | the agent's scan and `trigger_scan`, composed with the scans | extends `TriageScan` |
| `TriageProofs` | theorems about scans, sessions and their lock | `AgentTriage` |
| `ClassifierCascade` | one pass of the classification over the listed mails | |
| `HostProcessesProofs` | theorems about the receiver, the forwarder, the pass and the scripts | `PollWatchdog`, `GatewayBridge`, `ClassifierCascade`, `ModelProbes` |
| `AdvisorChat` | chat server, sessions and the commit of a turn | |
| `AdvisorChatProofs` | theorems about `AdvisorChat` | `AdvisorChat` |
| `AdvisorTurn` | the turns of a session with their models and tools | |
| `AdvisorTurnProofs` | theorems about `AdvisorTurn` | `AdvisorTurn` |
| `AdvisorPage` | the chat page and the handlers it calls | |
| `AdvisorPageProofs` | theorems about `AdvisorPage` | `AdvisorPage` |
| `GatewayBridge` | the supervisor of the ports forwarded to containers | |
| `ModelProbes` | a run of one of the three measuring scripts | |
| `ConsumerRegistry` | the registry and its three writers | |
| `ToolCalls` | requests to the credentialed server, its tools, the owned files | extends `ConsumerRegistry` |
| `ToolCallsProofs` | theorems about the registry and the tools | `ToolCalls` |
| `TermSnapshots` | the scans of a term and the file they replace | |
| `ScheduleAdvice` | the advising tools, the overlay, the check and the grid of a schedule | |
| `ClassDataProofs` | theorems about snapshots and advice | `TermSnapshots`, `ScheduleAdvice` |
| `MC...` | instances for TLC; `MCClassData` and `MCHostProcesses` put modules that share no state into one run | the modules above |

### How state and actions correspond to the code

**ApprovalGate.** `mem` is the gate's map, `disk` the table `pending_sends`,
`times` and `diskTimes` are the submit times in memory and in the store. One action per stretch of code
between two awaits: `Submit` (up to `channel.post`), `PostOk` and `PostFails`
(its end), `Approve` (up to `sender.send`), the two ends of a send, `Reject`,
`GetStatus`, `Restart` (with `Hydrated`). Each begins with `sweepExpired` (`Swept`), as the code
does. The receiver's loop handles one update at a time (`LoopFree`) and advances
its offset before it handles an update, so an update can be redelivered after a
crash and dropped with its batch. `Settle` is a change with its `persist`: with
`StoreFaults` the row may stay as it was, which the process does not notice. A
crash keeps `disk` and `diskTimes` only.

**PollWatchdog.** Time is kept as ages (of the last success, warning, exit and
recorded exit), which stop growing where no comparison depends on them; each
step says how long it took. `Caught` is the catch block, `Probe` and the three
steps of `decide` are the watchdog, `Restart` is launchd. `wedged` is a process
all of whose fetches fail.

**TriageScan.** A runner's locals are a record; an action is the code up to the
next await, or up to the next write of a file another process reads. The lock is taken in the
file system's steps: exclusive create, stat, unlink, create again. `rows` holds
only the rows that `loadResolvedEmailIds` counts. `faults` counts the crashes,
exceptions and failed listings.

**AgentTriage.** `call` is a running `get_triage_candidates`, `active` is
`activeScan`. Decisions are logged in any order, and the candidates without one
are reported as failed: the agent is a diligent one. A scan started by
`trigger_scan` is one of the runners.

**AdvisorChat.** One client with two tracks. A turn's record holds what
`/chat`'s handler and `runAttempt` keep in locals; `attempt` is the transcript in
the turn's own directory. A handler that awaited another turn's end continues as
a microtask, before any file operation ends or any request arrives (`Quiet`).
A transcript is the sequence of turns committed to it. `shared` is history: the
sessions in which two requests have awaited one and the same turn.

**AdvisorTurn.** The levels below a turn of `AdvisorChat`. `Connect` and `Ready`
are the start of the service; `Try` and `Prompt` begin an attempt with a copy of
the conversation; `Request` is a round (with the hook that trims the payload),
`Calls`, `CallEnds` and `BatchEnds` are the tools of one reply, ended in any
order; `Says` is an answer, `Deadline` the ceiling's timer, `Halts` the abort,
`Commit`, `Discard` and `Throws` the end. The loop itself is a
library's, so it appears as its hooks in this code see it. A message keeps its
role, turn, provider and kind; sizes are small numbers with the order that the
estimate has. What tools answer is `Answers`: the skill tools and the
health check appear by how they can end.

**AdvisorPage.** `chat[n]` is a submitted message's request through page, network
and server. The page's handlers run up to their awaits; the advisor may do
anything meanwhile. `confirm()` blocks the page, so asking and answering are one
step. `history` is what each session remembers, `calm` says that no connection
was lost and that the advisor waited for changes of track and clears. A turn ends in one step here.

**ClassifierCascade.** `stage` is the place in the pass. A mail is routed by
overrides, templates and senders in this order (`Route`), the first template or sender that
matches, but of overrides of one id the last one, because the scan keeps them in a
`Map` (`OverrideById`); the comparison's own reading of the rules takes the first one
(`OverrideFor`). `Prints` is
a message of codex, `CodexExits` and `ExecFails` are its ends, `Apply` makes a
verdict a row and a task. `fates` is history: who decided a mail, and
what the call was asked that did. A model may say anything about any id, also about
one nobody asked for.

**GatewayBridge.** A visit of a port is one action (`Tick`): its calls are
synchronous, and a socket on an address literal reports at once. `fresh` is the age of the
cached gateway against `DECLARED_TTL_MS`; `unbound` decides the timer's pace.

**ModelProbes.** One run from its command line to its report. A message is given
by what the classifiers look for in it (facts, hedges, tool calls as text, a
cut). `Dies` keeps the file only. `seen` is history: trials that ended unread or wrong, whether
the endpoint was at rest, whether the snapshot was replaced. What the report adds up over
blocks is the number of what it counts (`Total`). A key that the snapshot's
vocabulary lost is the same refusal as a failed validation (`ValidationFails`).

**ConsumerRegistry.** A writer loads the list and computes the new one in one
step, and saves it in two, because `writeFileSync` empties the file first; the three
writers' steps come in any order, and a list written over a longer one that came in
between may leave a file that does not parse. `told` and `fate` are history: the list as the
completed commands describe it, and for each agent whether the file has what the last
command about it said (`kept`), whether the file was emptied since and lacks the agent
(`emptied`), or whether a list loaded before that command was saved after it (`undone`).

**ToolCalls.** `req[c]` is a request: `Arrive` is the authentication of its
headers (with `onSeen`, whose save is a job of the registry), `Call` what
`buildServer` and the tool's handler do up to their first call of a backend. Tools that
check, audit, call and fail in the same way are one tool here: `draft` stands
for the writes of mail and calendar, which leave their intent before they ask
the policy; `task` for To Do, `create`, `update` and `append` for documents and
sheets, which ask first; `move` for `move-mail-message`, whose walk reads the
mailbox folder by folder while the owner may tidy it. What Graph or Google does
and what their client answers are two steps, so an answer may be lost. A Google
tool runs a command synchronously: no other step of the server falls between
its call and its row (`Blocked`). `held` and `entitled` are history: the folders
that were at the path asked for while the walk ran, and whether the completed
commands stood behind the caller, or a writer that undid the last of them.
`crossed` is history too: an update of the owned files began while another one was under way.

**TermSnapshots.** A call is a tool call or the daily job; a page of a scan is
an action, with the four ways in which Banner fails. `writeScheduleDb` is synchronous,
so only calls of other processes fall between its steps (unlink, create,
schema, fill, rename), which work on inodes, since two writers use one
temporary name. A section is counted as the page that brings it.

**ScheduleAdvice.** An action is one tool call, its answer is `reply`. Time is
a few minutes, a meeting a set of days with an interval, a wish the arguments
that narrow a search, a proposed line is written in one of the four ways that the check
reads alike and the grid does not. The overlay asks one live query per subject
(`waiting`); students register meanwhile.

## 3. What is checked

Every run finishes with no error (or, for the violations, with the
counterexample described) on two workers in less than four minutes.

| Run | Question | Instance and why it is enough |
|---|---|---|
| `gate_faults` | Is a request decided and sent once, on the owner's tap only, are stored and reported statuses honest, does nothing settled reopen, and is nothing sent after its expiry? | One request, since requests share only the two limits; three taps of the owner or a stranger, in any order and redelivered; two deaths, so that a restart is itself interrupted; every store write may fail. |
| `gate_promise` | Do the two limits hold over restarts? Does the gate implement `SendOnce`? Is every submit settled? | Three requests against two outstanding and two an hour, the least with which either limit can be broken; one death, also between submit's two writes. |
| `gate_final` (violation) | Is a sent request final? | See section 6. |
| `processes_outages` | Receiver: are exits spaced, is silence noticed, is a stuck process replaced? Bridge: does every port end up where the gateway is? Cascade: does a pass end, and does it add up? Scripts: is what they report what they measured? | Three errors to the threshold, a cooldown longer than two rounds. Two ports, two addresses, two interfaces and two changes of the network, so that one comes while the other is being followed. Three mails in batches of two, two messages of a process, every mode, rules that shadow each other, two overrides of one mail that contradict each other. Two questions, blocks of one or two trials, two rounds, one refresh, kill or move of the endpoint, which comes at any step. |
| `scan_cron` | Is no mail forgotten, none settled or made a task of twice, and do the scans implement `MailDrain`? | Two mails of different kinds that may arrive in the same instant, two inboxes (one of them may fail to list), two crashes, exceptions or failed listings, task calls that fail or lose their answer, two attempts before giving up. |
| `agent_mixed` | Does the end of a session keep the mails it listed? Do scans and sessions exclude each other? Does a dry one make nothing? | One mail for each kind of rule, two inboxes. Either the agent alone with failing calls, server deaths and two faults, or the agent beside two interchangeable runners of which nobody dies or outlives the lock. |
| `advisor_turns` | Do turns of a session exclude each other? Is the transcript the history, the schedule a committed one? Does `/clear` dispose its session and no other track's? Is every request answered? | Three submits and a clear, so that two requests may await one turn and begin together; or two submits and a clear with a mode switch, an expiry and a SIGTERM (`ThirdOrOthers`). In both a fallback model, a refused text and stops. |
| `turn_rounds` | Is one attempt kept per answered turn? Does each request fit? Is a turn reported as what it was? Does it end? | Two turns, so that one builds on the other; two models, the second a fallback; two servers that may be missing or clash; one round below and one past the cap; a budget that any long result and an essay exceed. |
| `page_tracks` | Is flagged text confirmed, does the page show what the server remembers, are dots and buttons true? Is the page ready again in the end? | Two messages, one of them a pasted schedule, with any three of two changes of track, a clear, a stop and a lost connection: two messages are the least that overlap, and three other requests the most that finish in the time. |
| `tools_calls` | Does anything happen but for a caller who was entitled, in scope and announced? Do the rows tell what happened? Does a mail go where it was asked to? Is only an own file overwritten? Does each update of the registry take, and is a sign-in good for one token? | Two interchangeable requests over all seven kinds of tool, two tokens, so that a paired agent can be paired again, narrowed and revoked in the middle of a request; two folders of one name and two moves of the owner, enough to put a folder elsewhere and another one in its place; one old and one new file; one death of a writer or the server. Server, portal and operator overlap in every way, and so do a tool's and the owner's updates of the owned files; beside overlapping writers the tools are a read, a draft, `create` and `update`, beside writers that take turns they are all (`turns`). Either the portal or tools are used in one behaviour (`NoSignIn`), and the operator's and the portal's steps fall where no tool is at work (`NoTool`): only an arrival reads the registry. |
| `class_data` | Is the live file one whole scan and never an older one? Is a failure never an empty answer? Is each question answered? Is a schedule without clashes, is a verdict exact, is free time free, are seats live or counted stale, is the printed line the published one? | Two questions in the server and the daily job in its own process, terms of two pages, each kind of fault but a session that expires, a full disk, a death. Four sections of three subjects, of which two may be asked live at a time, so that seats move between two answers of one search and one query of two fails; meetings that touch, overlap, contain each other, share a room, are in two places at one time or have no time, on two days of five minutes; seats move twice. Lines of every style, and in any pair of styles. |
| `probe_dropped` (violation) | Is a trial that could not be read unparseable? | See section 6. |

Where modules share no state, `processes_outages` and `class_data` follow one of them in a
behaviour (`followed`) and let the others stand still, which loses no
behaviour of any.

Some properties are a conjunction of parts that are stated, each with its comment, in the
component's module: `TasksAreKept` is `AtMostOneTask` and `TaskBehindRow`;
`SessionPromise` is `SessionKeepsItsMail` and `DryMakesNothing`;
`ClearLeavesNothing` is `NothingLeftBehind` and `ClearsItsOwn`;
`TurnIsTold` is `CompleteIsWhole` and `RowTellsTheTools`; `RegistryIsTrue` is
`UpdatesTake` and `OneTokenPerSignIn`; `ChangesWhatIsAsked` is `MovesWhereAsked`
and `OverwritesItsOwn`; `SnapshotIsTrue` is `LiveIsWhole` and `NoFalseEmpty`;
`AdviceIsTrue` is `AnswersAreExact`, `SeatsAreLiveOrStale`,
`PrintedIsPublished` and `NoClash`; `PageIsTrue`, `PassAddsUp` and `ProbeIsHonest` are listed
at their definitions.

Each module states its type invariant, which is proved (section 4; for the scan and
the snapshots under the premises of their theorems) instead of being checked in a run.

Each property has a mutant, a plausible slip in the code (a dropped guard, a
wrong comparison, a missing reset), which TLC finds with it. A mutant stands as
an operator marked `Faulty` before the definition it would replace.

### Fairness

* `ApprovalGate!FairSpec`: the loop polls, handles its updates and awaits a
  send, whose HTTP client gives up in the end; a caller of `send_mail` polls
  `get-send-status`, as `src/mcp-tools/mail-send.ts` tells it to, so expiry is
  noticed; launchd restarts the process.
* `PollWatchdog!FairSpec`: the loop goes on, and a probe of a reachable host and
  a read of the record do not fail for ever (strong fairness, as each may fail
  now and then).
* `TriageScan!FairSpec`: cron starts the scan again and again and a scan runs to
  its end; time passes, so a dead scan's lock gets stale. Nothing is assumed of
  the classifier or of task creation.
* `AdvisorChat!FairSpec`: requests that have arrived go on; each provider call
  has a timeout (`ADVISOR_TURN_TIMEOUT_MS`); the timer of a SIGTERM fires.
  Submitting, stopping and clearing are free.
* `TermSnapshots!FairSpec`: a call that has begun goes on: Banner answers or the
  fetch fails, and the waits between attempts are timers. Asking is free.
* `AdvisorTurn!FairSpec`: the code goes on, a tool answers or its client's
  request times out, and the ceiling's timer (`ADVISOR_TURN_TIMEOUT_MS`) fires. Nothing is
  assumed of a model.
* `AdvisorPage!FairSpec`: requests arrive and turns end (which `AdvisorTurn` shows),
  and `confirm()` is answered. The advisor need not do anything.
* `ClassifierCascade!CascadeFairness`: the pass goes on except while it awaits
  codex, whose process has a timer (`src/codex-agent.ts`).
* `GatewayBridge`: the timer fires, each port is visited, and the cached gateway
  grows older.
* `MCHostProcesses` and `MCClassData` take the fairness of their parts, each for the
  behaviours that follow it.

`AgentTriage`, `ToolCalls`, `ScheduleAdvice` and `ModelProbes` are checked for safety only.

## 4. What is proved

Eight modules hold theorems, for every value of the constants that the ASSUMEs
allow: any number of mails, scans, requests, tokens, turns, models, sections.
`theorems` in `PROJECT.json` lists the results; every step is checked by TLAPS to
its last leaf. Where a theorem has a premise, it is stated in it, and section 6
shows what happens without it.

Each safety theorem follows one argument: an inductive invariant that holds
initially and is kept by each action, and that implies the property. None of the
properties is inductive alone; what had to be added is told here.

*Gate.* `IInv` joins the type invariant to what ties the
memory, the store and the world together: a request in memory has a row, the
row is the memory's status or an earlier one that the same history allows, a
request that is `sending` is awaited by the loop or was inherited from a dead process,
and the counters of approvals, rejections and mails agree with the status
unless a write was lost. `OneOutcome` needs that a pending request has no tap that
counted, and `StatusIsHonest` needs what hydration makes of each row. `TypeCorrect`,
`OnlyOnApproval`, `OneOutcomeEach`, `HonestStatus` and `NoLateSend` follow from `IInv`;
`SettledForGood` is an action property that each step keeps under `IInv`; and
`GateKeepsPromise` shows the refinement of `SendOnce` step by step when the
store takes its writes. `LimitsHold` rests on `LimitInv`: the times in memory while the
process lives, and those on disk across its death, hold every stored submit of the last
hour, and the number in any hour that has passed is a cardinality that
a submit can raise only below the limit.

*Receiver.* `WatchdogInv` adds to the types that the recorded age never exceeds
the real age of the last exit by more than a probe, and for each point of the
loop how long ago it last looked whether the receiver was down. `OutagesAreLoud` and
`ExitsAreSpaced` follow. The assumption `PowerAssumption` says that powers of two
are natural numbers, which the provers do not know.

*Pass.* `PassAlwaysAddsUp` rests on `PassInv`. The order of the candidates divides
them: those up to one position have their row, those up to another one have been
asked about (`Progress`); a mail has no row exactly as long as it is before
the loop or after the first position (`Undecided`); each counter is the number of rows
of its kind (`Counted`) and the sums are what has been handled (`Sums`); a call's ids lie
between the two positions, so that no mail is paid for twice (`Paid`). Two
lemmas carry it: `chunksOf` cuts the candidates into parts with nothing lost
between them, for any batch size, and a step that writes a row bumps the counter
that counts it. What the models answer is any function on any ids. For the rules it says that the scan
and the comparison decide a mail alike unless two overrides of it contradict each other
(`RulesReadAlike`). `PassTyping`
adds that the rest to route is the end of the listing and bounds each counter by its length.

*Forwarder.* `BridgeInv` says that `unbound`, by which the timer chooses its delay, is
exactly the ports without a listener. `ARoundSettles` is the safety part of
`SettlesOnTheGateway`, without `BRIDGE_HOST`: while the network stands still
and the cache tells what the runtime says, what is resolved is where a port belongs, and
it can be bound if it is an address; so each visit brings its port there
and no step takes it away. That the timer fires and the cache ages is fairness.

*Scripts.* `ProbesAreHonest` is unconditional too, and rests on `ProbeInv`: the block under way has
counted each trial that is over, once, and knows how the endpoint was when it began
(`UnderWay`); the truths are those of the snapshot until it is refreshed, and every
question is measured, still to measure, or named as unavailable (`TruthsKept`);
each row keeps what was true when it was written (`GoodRow`). That a report pools what was
tallied at rest follows from the rows: the valid ones are those at rest, and their trials are
their tallies. (`ProbeTyping`: the types.)

*Scans.* `OneScanAtATime` is a premise of `NoMailForgotten`, `VerdictsAreFinal`,
`ScansDrain` (each step of a scan is a step of `MailDrain` or a stutter),
`OneTaskAtMost` and `TasksKept`. It can be had in two ways. `LockHolds` derives it, and the
exclusion of sessions too, from the lock, if no process dies while it
holds it and none outlives its ten minutes, for any number of processes; `LockedScansKeepTheMail`
joins the two. `OneScannerKeepsTheMail` covers the deaths: a
single runner may die and restart at any step. Deaths and several
runners together break it, since two may recover one stale lock (section 6). `ScanInv` says that what a scan
has read is still so, and that each mail it listed is settled, in its hands
or in the pending file: the cursor moves to the scan's own start, so that a mail
which arrives in the middle stays ahead of it. `OneTaskInv` adds that a
scan about to create a task has looked for one in vain (needed: a lookup's error is not
taken for absence, `~LookupFaults`), `ClaimInv` that a row comes after its task
(needed: `~ListIdFaults` and no dry run).

*Sessions.* `SessionsKeepTheirPromise` has the premise `OneHolder` (the lock excludes,
and a `get_triage_candidates` does not overlap an open session), which `LockHolds`
again discharges (`LockedSessionsKeepTheirPromise`), and which
`SessionsAloneKeepTheirPromise` does without for deaths of the server when no other
process scans. `SessionInv` ties the session in memory to the files: each mail it listed has a
row, or the session has it in hand or among its candidates.

*Chat.* `OneTurnAtATime` and `TheModelReadsTheHistory` are unconditional, for any number of
submits, clears and expiries. The code excludes turns of a session except in one
case: requests that have awaited the same turn do not await each other, so they begin together
(section 6). `shared` records the sessions where that has happened; two
attempts work on one session only there, and in every other one the transcript is the
history. `ClearingIsClean` has the premise that the client awaits its clear (`Settled`). `ChatInv`
follows a session directory through its removal and copy: what is at the root is the
conversation that was answered, or the turn that will put it there has it in its own
directory, and only that one; and whoever awaits a turn of a session outside `shared` awaits
the one that `inFlight` names.

*Turn.* Unconditional, for any chain of models, any sizes, any rounds and any way in which
tools and servers fail: `OneTrace`, `RequestsKeepTheBudget` and `TurnsAreTold`.
`TurnInv` says what an attempt has added to the conversation it began
with (`Traces`, `Continues`), `ToldInv` that the tool log and the messages agree while tools
end in any order: as many empty and cut results are in the one as in the other, and
each call under way has an entry to be noted with.

*Page.* `PageTellsTheTruth` is unconditional: consent always, the agreement of page and
server in the states the property itself calls `calm`. `PageInv` relates each
request under way to what the page shows and the session remembers: an answer
not shown yet is on its way, a message shown without an answer is being asked, a
clear that the server has made has reached the page or is about to.

*Registry and tools.* `RegistryHolds`, `SignInsBuyOneToken`, `CallersAreEntitled`,
`CallsStayInTheirBounds`, `CallsDoWhatIsAsked` and the types are unconditional: the writers overlap
and die as they like. `RowsAreHonest` has the premise `OnlyTasksThrow`, the handlers with a
catch block. The registry needs what is true of the lists that are not in the file yet: `RegistryInv` says that
the list in each writer's hands agrees with what was told on every agent but those which a
command has changed since it was loaded, those which were lost with an emptied file, and
the one it changes itself (`JobFits`); so when it reaches the file, whatever disagrees has been undone by
this very overlap. `CallsInv` says what each request was granted when it was
authenticated, what remains true of it while its call is under way, and that a writer of the owned files
which has emptied them finds them empty as long as no update has crossed another (`TakeTurns`).

*Snapshots.* `SnapshotHolds` and `OnlyLaterScans` hold under `Assumed`: two
processes do not write the term at once, and a session does not turn cold
between two pages. `SnapshotInv` says
that there is one writer, that its handle and the temporary name are one inode,
which differs from the live one, how full that inode is at each step, and that
what is written is a whole scan under the present date. The live
file alone says too little: that it is whole after the rename rests on the
step before, and so on back to the end of the scan.

*Advice.* `RepliesAreExact`, `ScheduleNeverClashes`, `SeatsAreTold`, `GapsAreFree`, `AdviceTyping`
and `AdviceHolds`, which adds that what is printed is published, are unconditional, for lines
written in any way the check accepts and sections in several places at one time. What the check lets through, the
statement says: of such a section, building and room are each one of that time's, and the
badge counts the clashes of lines that the grid can compare. `AdviceInv` has for each live answer still awaited the seats that its
section has had since it was asked for (`Watching`), so that an overtaken
answer is one that was true meanwhile. `GapsAreFree` follows `computeFreeBlocks` through
its passes, for any number of meetings: an interval's rank among the others is its place when they are
sorted; the merged blocks are in order, lie apart and cover exactly what the
intervals cover; and each stretch between where one block ends and the
next begins is one whole unused stretch, and every such stretch is one of these. The two
loops are recursive functions over positions, and each claim about them is shown for the least position at
which it could fail.

Every premise that is left is true in a run of section 3 (`gate_promise`, `scan_cron`,
`agent_mixed`, `advisor_turns`, `tools_calls` and `class_data` take it as their instance), so
none of the theorems is empty.

To be proved about, a few definitions were stated without recursion:
the first matching rule, the history in a transcript, the trace of a turn in the
conversation and the tool calls of an attempt speak of positions instead of filtered sequences,
sorting is by rank, and the loops that merge intervals and collect gaps are recursive functions.

*Only model-checked:* liveness (`EverySubmitSettles`, `WedgeIsCleared`,
`EveryRequestAnswered`, `EveryQuestionAnswered`, `EveryTurnEnds`, `EverythingComesBack`, `ItsPassEnds`,
`SettlesOnTheGateway`, the fairness part of `DrainsInbox`) is out of the
prover's reach. Every safety property of a passing run is a theorem.

## 5. What is not modelled, and why

* Wording, formats, logging, file modes and HTML: no property depends on them.
* `TriageScan` sees of the classifiers an answer per mail, or none, and `AdvisorChat` of a
  turn one answer per attempt; `ClassifierCascade` and `AdvisorTurn` model what is
  below. That they fit together is not checked by a refinement.
* Prompts, prices, and what a model says: any answer of the kinds the code tells apart.
* Of the page: reloading it, a server that restarts under it or answers 401, hover cards,
  dictation beyond text that appears in the box, the feedback's screenshot, the cleaner's parsers.
* Of the scripts: the extractors' patterns, the judge and `report.ts`, the one-off jobs.
* The health check beyond the fact that it answers, and the skills beyond how a
  request for one can end: both only read.
* Overlap of two gate processes on one store (`src/approval/store.ts:62`): planned.
* The watchdog's `now` is taken before a probe of some seconds
  (`src/notifiers/telegram-approval.ts:356`): in the model a probe has a length, and
  `RestartsAreSpaced` allows for one.
* Gmail labels, the reading tools, the public and the stdio server (which has
  the same handlers and no authentication), the transport of MCP.
* That an older mail than 30 days counts as new (`src/state.ts:88`) and the first
  scan's window (`src/gmail.ts:30`): they need a cursor that stands still for a
  month, or no cursor.
* A check that throws inside the chat (an unauthorized provider) is the error
  outcome of a turn. `/clear` of a track whose session has expired is `Visit`
  followed by `Clear`.

## 6. Where the code and its documentation part

The runs marked *violation* each check one documented statement, which TLC
refutes with a trace of the code's behaviour:

* `gate_final`: `submit`'s catch marks a request failed whatever its status is by
  then (`src/approval/gate.ts:198`), so a request that was tapped and sent before
  the error arrived is recorded as failed.
* `probe_dropped`: a benchmark trial keeps `bodyParsed` from an earlier turn and
  makes a network error's text its answer, so a stream that breaks off after tool calls
  is classed `ok` and judged (`scripts/advising-benchmark/runner.ts`, against its
  comment at line 569).

Other instances show more of them; the constant to change is named, and the
property TLC then refutes:

| Instance | Property | What happens |
|---|---|---|
| `advisor_turns` with the invariant `shared = {}`, and `OneTurnPerSession` without its exception | both | Two submits that await the same turn both start when it ends (`src/advisor-server.ts:493`, against the comment at 483: abort the prior turn, then wait for it). |
| `turn_rounds` with the invariant `QuestionIsNeverTrimmed` | the same | A question followed by long results is dropped from the request with the oldest messages (`src/advisor-agent.ts:605`, against the comment at 564). |
| `scan_cron` with `LookupFaults = TRUE` | `TasksAreKept` (`AtMostOneTask`) | `findMs365TaskByMarker` answers null for an error as for no task (`src/ms365.ts:239`), and a second task is made. |
| `scan_cron` with `ListIdFaults = TRUE` | `TasksAreKept` (`TaskBehindRow`) | Without the id of a list the template branch writes its row and makes no task (`src/scan.ts:259`). |
| `scan_cron` with `DryRuns = {TRUE, FALSE}` | `TasksAreKept` (`TaskBehindRow`) | A dry run's rows for templates look like those of a real run, which then takes the mail as settled (`src/scan.ts:297`). |
| `agent_mixed`, with `MailConserved` as its invariant | `MailConserved` | `complete_scan` overwrites the pending file with its own failures (`src/mcp-tools/email-triage.ts:592`), and no session reads it: what one session reports as failed is forgotten with the end of the next. |
| `agent_mixed` without `faults' = 0` in `MixedNext` | `LockExcludes` | Two recoverers of a stale lock both win: the slower one unlinks the faster one's new lock (`src/state.ts:234`). |
| `agent_mixed` with `SlowAgent` or `SlowScans = TRUE` | `LockExcludes` | A session or scan of more than ten minutes is overtaken, since nothing refreshes the lock (`src/state.ts:232`), and then releases its successor's lock. |
| `advisor_turns` with `Settled = FALSE` | `ClearLeavesNothing` (`ClearsItsOwn`) | `/clear` disposes the track that is active after its wait (`src/advisor-server.ts:572`). |
| `tools_calls` with the invariant `revoked \cap DOMAIN file = {}` | the same | A save of a list loaded earlier undoes another writer's update (`src/mcp-tools/consumers.ts:136`): a revoked agent is back in the file, and its calls are served. `scripts/mcp-consumers.ts:177` has told the operator that it was dropped. |
| `tools_calls` without `~crossed` in `OverwritesItsOwn` | `ChangesWhatIsAsked` | The server's and `gws:grant`'s saves of the owned files undo each other (`src/mcp-tools/gws-owned.ts:87`): a file that was reported as created cannot be written. |
| `tools_calls` with `"draft"` or `"move"` in `Throwing` | `RowsTellTheOutcome` | The handlers of mail and calendar await Graph without a catch block (`src/mcp-tools/calendar-write.ts:77`, `mail-write.ts:83`); if the request rejects, the intent row gets no outcome, which `src/mcp-tools/audit.ts:3` promises "even on failure". |
| `processes_outages` with `WriteFaults = TRUE` | `RestartsAreSpaced` | The process exits although the exit could not be recorded (`src/notifiers/telegram-approval.ts:423`). |
| `class_data` with `Overlap = TRUE` | `SnapshotIsTrue` (`LiveIsWhole`) | Two processes use one temporary name (`src/clemson-schedule-db.ts:110`), and one renames what the other is writing; `src/clemson-classes.ts:614` calls the replacement atomic. |
| `class_data` with `"expires"` in `Faults` | `SnapshotIsTrue` (`LiveIsWhole`) | A session that turns cold between two pages ends the scan early, and the part replaces the whole (`src/clemson-classes.ts:573`, against the comment at 628). |
| `class_data` with `RefreshFallsBack` as a property | `RefreshFallsBack` | A refresh that fails by an exception does not reach the fallback to the file on disk (`src/clemson-classes.ts:641`, against the comment at 734). |
| `class_data`, `LineIsPublished` without its last premise (one place at a time) | `AdviceIsTrue` (`PrintedIsPublished`) | The check compares building and room each by itself within a time, so the room of one place passes with the building of the other (`src/advisor-schedule-verify.ts:256`, against the comment at 255). |
| `class_data`, `PrintedIsPublished` without `Comparable`, or with every timed line drawn | the same | The check accepts times with a colon and days in lower case (`src/advisor-schedule-verify.ts`), the grid does not draw or compare them (`src/schedule-grid.ts`). |
| `class_data`, `PrintedIsPublished` without its last disjunct | the same | The grid counts the blank between two days as a day, so two lines with blanks share one (`src/schedule-grid.ts:108`). |

Also noted while modelling, without a property:

* *Scan.* `trigger_scan`'s `dry_run` has no effect in a server started without
  `DRY_RUN` (`src/mcp-tools/host-orchestration.ts:68` against `src/config.ts:40`); a mail given
  up on may be classified once more by the same scan (`src/scan.ts:91`), which `OneVerdict` allows for.
* *Cascade.* Every LLM call is logged, says `README.md:309`, but a codex process
  that times out and an OpenAI answer that is not JSON leave no usage row
  (`src/codex-agent.ts`, `src/openai-classifier.ts`). An `error` event of the
  process's stdin is not handled and ends the scan. A rule's domain matches by
  suffix, without a dot. Of two overrides of one id the comparison takes the first
  (`src/preclassifier.ts:29`), the scan the last (`src/scan.ts:193`): a comparison may
  report another rule than the scan applies, if they contradict each other (`Contradicted`).
  Overrides are in none of the summary's numbers. The comparison
  accepts a verdict that came with another batch.
* *Chat and turn.* A SIGTERM leaves the directory of a running attempt behind
  (`src/advisor-server.ts:735`). `ADVISOR_PROVIDER_CHAIN` may put `openai` into the
  private chain. Trimming may leave tool results without their calls. The health
  check's `res.json()` and `client.close()` have no timeout (`src/advisor-health.ts`).
* *Page.* The banner may disagree with the routing after a `/mode` whose answer was lost or
  overtaken (the comment at `src/advisor-server.ts:310` says that it cannot). An answer is
  filed under the track shown when it arrives. A second Enter
  while a turn runs disables Stop when the first answer comes. Cancel at the consent
  prompt overwrites what was typed meanwhile. A lost connection does not abort a
  turn that still waits for another one.
* *Bridge.* With `BRIDGE_HOST` a dead address is never closed, and a failed
  `container network inspect` falls back to `bridge100` or `bridge0` (`scripts/mcp-public-bridge.mjs`).
* *Measuring scripts.* A later turn of `fabrication-probe.ts` that cannot be read is
  scored as `no_fact` (against the comment at 1716). A body that breaks off throws and
  ends a run of `fabrication-probe.ts` or `tool-ceiling-probe.ts`; the latter then
  writes nothing. `--trials` with a word is `NaN` for `tool-ceiling-probe.ts`,
  which passes the minimum and prints valid blocks of no trials. A block counts as
  steady if the endpoint moved and moved back inside it. A checkpoint of
  `fabrication-probe.ts` has the header and no counts, and a run killed before its
  first one leaves the complete report of an older run. A refresh of the snapshot in the middle
  of a run makes right answers fabricated. The probe's tool calls send no bearer
  token, which the servers now require.
* *Registry and advice.* A writer of the registry that dies between emptying the
  file and writing it leaves no agents (`src/mcp-tools/consumers.ts:84`). The overlay of live
  seats comes after the filters and the order of a search, so `open_only`,
  `min_seats` and "most open first" are about the snapshot's seats
  (`src/mcp-tools/clemson-advising.ts:683`).

## 7. Plan

All components that decide anything are modelled and checked, and every safety
property that the runs check is proved (section 4). What is left, in this order:

1. *Proofs.* That a turn of `AdvisorChat` is what `AdvisorTurn` makes of one, and a
   classification of `TriageScan` what `ClassifierCascade` makes of one, as refinements.
2. The gate's two processes on one store under launchd, as a composition of
   two `ApprovalGate` processes.
3. Paging of searches, Gmail labels, and the parts of `host-orchestration.ts` that
   read what the scan writes.

Runs stay few: a new module is checked in one run, and runs that ask about the
same module are joined when their instances allow it.
