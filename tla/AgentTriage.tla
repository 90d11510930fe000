----------------------------- MODULE AgentTriage ----------------------------
(***************************************************************************)
(* The scan an agent drives over MCP (src/mcp-tools/email-triage.ts), next *)
(* to the scans of TriageScan, whose lock, files and To Do list it shares, *)
(* and trigger_scan (src/mcp-tools/host-orchestration.ts), a scan that the *)
(* MCP server runs itself.                                                 *)
(*                                                                         *)
(* get_triage_candidates takes the lock and returns with it; the agent     *)
(* then logs decisions at its own pace and gives the lock back with        *)
(* complete_scan.  The agent modelled here is a diligent one: it logs a    *)
(* candidate at most once, and reports as failed every candidate it did    *)
(* not log.                                                                *)
(***************************************************************************)
EXTENDS TriageScan

CONSTANTS
    Agent,      \* the MCP server as a holder of the lock
    SlowAgent   \* may a session outlive LOCK_STALE_MS?

ASSUME AgentAssumption == Others = {Agent} /\ SlowAgent \in BOOLEAN

VARIABLES
    call,     \* the locals of get_triage_candidates while it runs
    active    \* activeScan; its `cands' are the candidates not logged yet

agentVars == <<call, active>>
allVars   == <<vars, agentVars>>

Session ==
    [pc        : {"off", "list", "route", "create", "record", "open"},
     dry       : BOOLEAN,
     since     : [Accounts -> Nat],
     started   : Nat,
     fresh     : SUBSET Mails,
     left      : SUBSET Accounts,
     completed : SUBSET Accounts,
     listed    : SUBSET Mails,
     todo      : SUBSET Mails,
     cands     : SUBSET Mails,
     hasList   : BOOLEAN,
     task      : SUBSET Mails,
     created   : BOOLEAN]

NoSession ==
    [pc |-> "off", dry |-> FALSE, since |-> [a \in Accounts |-> 0],
     started |-> 0, fresh |-> {}, left |-> {}, completed |-> {},
     listed |-> {}, todo |-> {}, cands |-> {}, hasList |-> FALSE,
     task |-> {}, created |-> FALSE]

AgentTypeOK ==
    /\ TypeOK
    /\ call \in Session
    /\ active \in Session

AgentInit ==
    /\ Init
    /\ call = NoSession
    /\ active = NoSession

-----------------------------------------------------------------------------
(* get_triage_candidates *)

\* The call takes a free or stale lock and reads the files.  The pending
\* file is not among them.  (TriageScan has the steps of acquireScanLock.)
GetCandidates ==
    /\ call.pc = "off"
    /\ lock.holder = Free \/ lock.old
    /\ lock' = [holder |-> Agent, old |-> FALSE]
    /\ \E dry \in DryRuns,
          hasList \in {TRUE} \cup (IF ListIdFaults THEN {FALSE} ELSE {}) :
         call' = [NoSession EXCEPT
           !.pc = "list", !.dry = dry, !.hasList = hasList, !.since = cursor,
           !.started = now, !.left = Accounts,
           !.fresh = {m \in Mails : ~Resolved(m)}]
    /\ UNCHANGED <<mailVars, fileVars, tasks, scan, faults, active>>

AgentLists ==
    /\ call.pc = "list"
    /\ \E a \in call.left :
         \/ /\ call' = [call EXCEPT
                 !.left = @ \ {a},
                 !.completed = @ \cup {a},
                 !.listed = @ \cup Listing(a, call.since[a])]
            /\ faults' = faults
         \/ /\ faults < MaxFaults
            /\ call' = [call EXCEPT !.left = @ \ {a}]
            /\ faults' = faults + 1
    /\ UNCHANGED <<mailVars, lock, fileVars, tasks, scan, active>>

AgentListed ==
    /\ call.pc = "list"
    /\ call.left = {}
    /\ call' = [call EXCEPT !.pc = "route",
                            !.todo = call.listed \cap call.fresh]
    /\ UNCHANGED <<vars, active>>

Routed(m) == [call EXCEPT !.todo = @ \ {m}]

\* routeEmails, and the loop over its answer up to createTask.  A template's
\* mail that gets no task gets a skip row.
AgentRoutes ==
    /\ call.pc = "route"
    /\ \E m \in call.todo :
         \/ /\ RuleOf[m] \in {"override", "skip"}
            /\ Decide(m, RuleOf[m])
            /\ call' = Routed(m)
         \/ /\ RuleOf[m] = "none"
            /\ call' = [Routed(m) EXCEPT !.cands = @ \cup {m}]
            /\ UNCHANGED rows
         \/ /\ RuleOf[m] = "template" /\ call.dry
            /\ call' = Routed(m)
            /\ UNCHANGED rows
         \/ /\ RuleOf[m] = "template" /\ ~call.dry /\ ~call.hasList
            /\ Decide(m, "skip")
            /\ call' = Routed(m)
         \/ /\ RuleOf[m] = "template" /\ ~call.dry /\ call.hasList
            /\ IF tasks[m] > 0
                 THEN Decide(m, "task") /\ call' = Routed(m)
                 ELSE /\ call' = [Routed(m) EXCEPT !.pc = "create",
                                                   !.task = {m}]
                      /\ UNCHANGED rows
    /\ UNCHANGED <<mailVars, lock, pending, cursor, tasks, scan, faults,
                   active>>

AgentCreates ==
    /\ call.pc = "create"
    /\ \E m \in call.task, outcome \in {"made"} \cup
          (IF CreateFaults THEN {"refused", "answer lost"} ELSE {}) :
         /\ tasks[m] < MaxTasks
         /\ tasks' = IF outcome = "refused" THEN tasks
                       ELSE [tasks EXCEPT ![m] = @ + 1]
         /\ call' = [call EXCEPT !.pc = "record",
                                 !.created = (outcome = "made")]
    /\ UNCHANGED <<mailVars, lock, fileVars, scan, faults, active>>

AgentRecords ==
    /\ call.pc = "record"
    /\ \E m \in call.task : Decide(m, IF call.created THEN "task" ELSE "skip")
    /\ call' = [call EXCEPT !.pc = "route"]
    /\ UNCHANGED <<mailVars, lock, pending, cursor, tasks, scan, faults,
                   active>>

\* Faulty: the lock is released whenever the call returns.
PublishUnlocked ==
    /\ call.pc = "route"
    /\ call.todo = {}
    /\ active' = [call EXCEPT !.pc = "open"]
    /\ call' = NoSession
    /\ lock' = Unlocked
    /\ UNCHANGED <<mailVars, fileVars, tasks, scan, faults>>

\* The call returns the candidates and keeps the lock.
Publish ==
    /\ call.pc = "route"
    /\ call.todo = {}
    /\ active' = [call EXCEPT !.pc = "open"]
    /\ call' = NoSession
    /\ UNCHANGED <<vars>>

CallThrows ==
    /\ call.pc # "off"
    /\ faults < MaxFaults
    /\ faults' = faults + 1
    /\ lock' = Unlocked
    /\ call' = NoSession
    /\ active' = NoSession
    /\ UNCHANGED <<mailVars, fileVars, tasks, scan>>

-----------------------------------------------------------------------------
(* log_triage_decision and complete_scan *)

LogDecision(m) ==
    /\ active.pc = "open"
    /\ m \in active.cands
    /\ IF active.dry THEN UNCHANGED rows ELSE Decide(m, "skip")
    /\ active' = [active EXCEPT !.cands = @ \ {m}]
    /\ UNCHANGED <<mailVars, lock, pending, cursor, tasks, scan, faults,
                   call>>

\* Faulty: the candidates reported as failed are dropped.
ReportedNone(s) == NoMail

\* The candidates the agent reports as failed replace the whole of
\* pending_residuals.jsonl.
Reported(s) == [m \in Mails |-> IF m \in s.cands THEN 1 ELSE 0]

\* The lock is released whoever holds it by now.
CompleteScan ==
    /\ active.pc = "open"
    /\ \E advance_watermark \in BOOLEAN :
         /\ pending' = IF active.dry THEN pending ELSE Reported(active)
         /\ cursor' = IF advance_watermark /\ ~active.dry
                        THEN Advanced(active) ELSE cursor
    /\ active' = NoSession
    /\ lock' = Unlocked
    /\ UNCHANGED <<mailVars, rows, tasks, scan, faults, call>>

-----------------------------------------------------------------------------
Busy == call.pc # "off" \/ active.pc # "off"

AgentAges ==
    /\ lock.holder = Agent
    /\ ~lock.old
    /\ SlowAgent \/ ~Busy
    /\ lock' = [lock EXCEPT !.old = TRUE]
    /\ UNCHANGED <<mailVars, fileVars, tasks, scan, faults, agentVars>>

\* The MCP server dies and forgets activeScan; its lock file stays.
ServerDies ==
    /\ Busy
    /\ faults < MaxFaults
    /\ faults' = faults + 1
    /\ call' = NoSession
    /\ active' = NoSession
    /\ UNCHANGED <<mailVars, lock, fileVars, tasks, scan>>

\* The scans of TriageScan go on.  A scan that trigger_scan starts is one of
\* them: its dry_run sets DRY_RUN in the environment, which config.ts has read
\* when the server started, so it runs with one of DryRuns whatever was asked.
ScanSteps == Next /\ UNCHANGED <<call, active>>

AgentNext ==
    \/ ScanSteps
    \/ GetCandidates \/ AgentLists \/ AgentListed \/ AgentRoutes
    \/ AgentCreates \/ AgentRecords \/ Publish \/ CallThrows
    \/ \E m \in Mails : LogDecision(m)
    \/ CompleteScan \/ AgentAges \/ ServerDies

AgentSpec == AgentInit /\ [][AgentNext]_allVars

-----------------------------------------------------------------------------
(* Properties *)

\* No two processes scan at the same time, and the lock that
\* get_triage_candidates leaves taken keeps the scans of cron and trigger_scan
\* out until the session is completed.
LockExcludes == OneScanAtATime /\ \A r \in Runners : ~(Scanning(r) /\ Busy)

\* When a session ends, each mail it listed has a decisive row, waits in the
\* pending file for the next scan, or will be listed again, even if some
\* accounts could not be listed, decisions are missing or the server dies.
SessionKeepsItsMail ==
    active.pc = "open" /\ active'.pc = "off" =>
        \A m \in active.listed :
            \/ rows'[m] # <<>>
            \/ pending'[m] > 0
            \/ received[m] >= cursor'[AccountOf[m]]

DryUnderWay ==
    \/ \E r \in Runners : Scanning(r) /\ scan[r].dry
    \/ call.pc # "off" /\ call.dry
    \/ active.pc = "open" /\ active.dry

\* While a dry run or a dry session is under way nothing happens outside
\* decisions.jsonl: no task is made, and neither the pending file nor a cursor
\* moves, whatever advance_watermark the agent passes to complete_scan.
DryMakesNothing ==
    DryUnderWay => UNCHANGED <<tasks, pending, cursor>>

\* What a session promises: its mail is kept, and a dry one makes nothing.
SessionPromise == [][SessionKeepsItsMail /\ DryMakesNothing]_allVars
=============================================================================
