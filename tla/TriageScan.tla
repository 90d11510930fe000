----------------------------- MODULE TriageScan -----------------------------
(***************************************************************************)
(* The email scan: the lock (src/state.ts), runScan (src/scan.ts) with its *)
(* effects (src/scan-effects.ts, src/scan-mail.ts) and the entrypoint that *)
(* calls it (src/index.ts).  A runner is a process that scans from time to *)
(* time, under cron or by hand.  The state the runners share is on disk:   *)
(* the lock file, decisions.jsonl, pending_residuals.jsonl, progress.yaml, *)
(* and in the user's To Do list.                                           *)
(*                                                                         *)
(* An action is a stretch of code up to the next await, or up to the next  *)
(* write of a shared file where another process or a crash can come        *)
(* between.  Rows that loadResolvedEmailIds ignores (intents, comparisons, *)
(* rows marked dry_run) change nothing any action reads and are left out.  *)
(***************************************************************************)
EXTENDS Naturals, Sequences, FiniteSets

CONSTANTS
    Mails,
    Accounts,
    AccountOf,     \* the account a mail arrives in
    RuleOf,        \* the deterministic rule that matches a mail, or "none"
    Runners,
    Others,        \* who else may hold the lock (nobody, in this module)
    Free,          \* no lock file
    Modes,         \* the values of MODE
    DryRuns,       \* the values of DRY_RUN
    MaxAttempts,   \* MAX_PENDING_ATTEMPTS
    CreateFaults,  \* may createTask fail, or succeed and lose its answer?
    LookupFaults,  \* may findTaskByMarker fail?
    ListIdFaults,  \* may getDefaultListId fail?
    SlowScans,     \* may a scan outlive LOCK_STALE_MS?
    MaxTasks,      \* bound on the tasks created for a mail
    MaxFaults      \* bound on crashes, exceptions and failed listings

Rules == {"override", "template", "skip", "none"}

ASSUME TriageAssumption ==
    /\ AccountOf \in [Mails -> Accounts]
    /\ RuleOf \in [Mails -> Rules]
    /\ Free \notin Runners \cup Others
    /\ Runners \cap Others = {}
    /\ Modes # {}
    /\ Modes \subseteq {"agent", "hybrid", "compare"}
    /\ DryRuns \subseteq BOOLEAN
    /\ MaxAttempts \in Nat \ {0}
    /\ CreateFaults \in BOOLEAN /\ LookupFaults \in BOOLEAN
    /\ ListIdFaults \in BOOLEAN /\ SlowScans \in BOOLEAN
    /\ MaxTasks \in Nat \ {0}
    /\ MaxFaults \in Nat
    /\ IsFiniteSet(Mails)

VARIABLES
    now,       \* the mail servers' clock
    received,  \* receivedDateTime of each mail; 0: not received yet
    lock,      \* the lock file: who wrote it, and is it older than the limit?
    rows,      \* the decisive rows of decisions.jsonl for each mail, in order
    pending,   \* attempt_count in pending_residuals.jsonl; 0: no entry
    cursor,    \* last_scan_date of each account in progress.yaml
    tasks,     \* how many tasks the To Do list holds for each mail
    scan,      \* the locals of each runner
    faults

mailVars == <<now, received>>
fileVars == <<rows, pending, cursor>>
vars == <<mailVars, lock, fileVars, tasks, scan, faults>>

Verdicts == {"task", "skip", "override", "gave_up"}
Steps    == {"find", "create", "record"}
Waiting  == {"idle", "stat", "unlink", "recreate"}
Pc       == Waiting \cup Steps \cup
            {"start", "list", "gather", "rules", "classify", "save_pending",
             "save_progress", "release"}

NoMail == [m \in Mails |-> 0]

Locals ==
    [pc        : Pc,
     mode      : Modes,
     dry       : BOOLEAN,                  \* DRY_RUN
     since     : [Accounts -> Nat],        \* progress, as loaded
     started   : Nat,                      \* scanStartedIso
     carryover : [Mails -> 0 .. MaxAttempts - 1],  \* carryoverByEmailKey
     fresh     : SUBSET Mails,             \* not in resolvedIds
     left      : SUBSET Accounts,          \* accounts still to list
     completed : SUBSET Accounts,          \* listing.completedAccounts
     listed    : SUBSET Mails,             \* listing.emails
     todo      : SUBSET Mails,             \* mails the current loop has left
     cands     : SUBSET Mails,             \* outcome.llm_candidates
     failed    : SUBSET Mails,             \* api.failedEmailKeys
     hasList   : BOOLEAN,                  \* taskListId
     task      : SUBSET Mails,             \* the mail whose task is being made
     loop      : {"rules", "classify"},    \* the loop it is made in
     created   : BOOLEAN]                  \* createTask returned an id

Idle ==
    [pc |-> "idle", mode |-> CHOOSE m \in Modes : TRUE, dry |-> FALSE,
     since |-> [a \in Accounts |-> 0], started |-> 0, carryover |-> NoMail,
     fresh |-> {}, left |-> {}, completed |-> {}, listed |-> {}, todo |-> {},
     cands |-> {}, failed |-> {}, hasList |-> FALSE, task |-> {},
     loop |-> "rules", created |-> FALSE]

Locks == [holder : Runners \cup Others \cup {Free}, old : BOOLEAN]

TypeOK ==
    /\ now \in Nat
    /\ received \in [Mails -> Nat]
    /\ lock \in Locks
    /\ rows \in [Mails -> Seq(Verdicts)]
    /\ pending \in [Mails -> 0 .. MaxAttempts]
    /\ cursor \in [Accounts -> Nat]
    /\ tasks \in [Mails -> Nat]
    /\ scan \in [Runners -> Locals]
    /\ faults \in Nat

Unlocked == [holder |-> Free, old |-> FALSE]

Init ==
    /\ now = 1
    /\ received = NoMail
    /\ lock = Unlocked
    /\ rows = [m \in Mails |-> <<>>]
    /\ pending = NoMail
    /\ cursor = [a \in Accounts |-> 0]
    /\ tasks = NoMail
    /\ scan = [r \in Runners |-> Idle]
    /\ faults = 0

At(r, p)   == scan[r].pc = p
GoTo(r, p) == scan' = [scan EXCEPT ![r].pc = p]
Scanning(r) == scan[r].pc \notin Waiting

\* A row that loadResolvedEmailIds counts.
Decide(m, verdict) == rows' = [rows EXCEPT ![m] = Append(@, verdict)]
Resolved(m) == rows[m] # <<>>

-----------------------------------------------------------------------------
\* A mail reaches an inbox, in the same instant as the one before or later.
Receive(m) ==
    /\ received[m] = 0
    /\ \E t \in {now, now + 1} :
         /\ now' = t
         /\ received' = [received EXCEPT ![m] = t]
    /\ UNCHANGED <<lock, fileVars, tasks, scan, faults>>

-----------------------------------------------------------------------------
(* acquireScanLock: each call of the file system is a step.                *)

CreateLock(r) ==
    /\ At(r, "idle")
    /\ IF lock.holder = Free
         THEN /\ lock' = [holder |-> r, old |-> FALSE]
              /\ GoTo(r, "start")
         ELSE lock' = lock /\ GoTo(r, "stat")
    /\ UNCHANGED <<mailVars, fileVars, tasks, faults>>

StatLock(r) ==
    /\ At(r, "stat")
    /\ GoTo(r, IF lock.holder # Free /\ lock.old THEN "unlink" ELSE "idle")
    /\ UNCHANGED <<mailVars, lock, fileVars, tasks, faults>>

\* unlinkSync removes whatever file has the name now.
UnlinkLock(r) ==
    /\ At(r, "unlink")
    /\ GoTo(r, IF lock.holder # Free THEN "recreate" ELSE "idle")
    /\ lock' = Unlocked
    /\ UNCHANGED <<mailVars, fileVars, tasks, faults>>

RecreateLock(r) ==
    /\ At(r, "recreate")
    /\ IF lock.holder = Free
         THEN /\ lock' = [holder |-> r, old |-> FALSE]
              /\ GoTo(r, "start")
         ELSE lock' = lock /\ GoTo(r, "idle")
    /\ UNCHANGED <<mailVars, fileVars, tasks, faults>>

\* The lock file is never touched again, so it ages while its owner runs.
Ages ==
    /\ lock.holder \in Runners
    /\ ~lock.old
    /\ SlowScans \/ ~Scanning(lock.holder)
    /\ lock' = [lock EXCEPT !.old = TRUE]
    /\ UNCHANGED <<mailVars, fileVars, tasks, scan, faults>>

Release(r) ==
    /\ At(r, "release")
    /\ lock' = Unlocked
    /\ scan' = [scan EXCEPT ![r] = Idle]
    /\ UNCHANGED <<mailVars, fileVars, tasks, faults>>

-----------------------------------------------------------------------------
(* runScan *)

Exhausted == {m \in Mails : ~Resolved(m) /\ pending[m] >= MaxAttempts}

\* Everything before the first await: the files are read and the mails that
\* failed too often get a synthetic skip.
Start(r) ==
    /\ At(r, "start")
    /\ \E mode \in Modes, dry \in DryRuns :
         LET gaveUp == IF mode = "compare" THEN {} ELSE Exhausted IN
         /\ rows' = [m \in Mails |-> IF m \in gaveUp
                       THEN Append(rows[m], "gave_up") ELSE rows[m]]
         /\ scan' = [scan EXCEPT ![r] = [Idle EXCEPT
              !.pc = "list", !.mode = mode, !.dry = dry, !.since = cursor,
              !.started = now, !.left = Accounts,
              !.fresh = {m \in Mails : ~Resolved(m)},
              !.carryover = [m \in Mails |->
                 IF Resolved(m) \/ m \in Exhausted \/ mode = "compare"
                   THEN 0 ELSE pending[m]]]]
    /\ UNCHANGED <<mailVars, lock, pending, cursor, tasks, faults>>

\* Faulty: gt for ge.
ListingAfter(a, since) ==
    {m \in Mails : AccountOf[m] = a /\ received[m] > since}

\* listNew asks for receivedDateTime ge the cursor.
Listing(a, since) ==
    {m \in Mails : AccountOf[m] = a /\ received[m] > 0 /\ received[m] >= since}

ListAccount(r) ==
    /\ At(r, "list")
    /\ \E a \in scan[r].left :
         \/ /\ scan' = [scan EXCEPT
                 ![r].left = @ \ {a},
                 ![r].completed = @ \cup {a},
                 ![r].listed = @ \cup Listing(a, scan[r].since[a])]
            /\ faults' = faults
         \/ /\ faults < MaxFaults
            /\ scan' = [scan EXCEPT ![r].left = @ \ {a}]
            /\ faults' = faults + 1
    /\ UNCHANGED <<mailVars, lock, fileVars, tasks>>

\* Faulty: resolvedIds does not filter what is listed.
GatheredAll(s) == {m \in Mails : s.carryover[m] > 0} \cup s.listed

Gathered(s) ==
    {m \in Mails : s.carryover[m] > 0} \cup (s.listed \cap s.fresh)

\* From the end of the listing to the first loop: the early exits for an
\* empty scan and for MODE=compare, and the id of the To Do list.
Gather(r) ==
    /\ At(r, "list")
    /\ scan[r].left = {}
    /\ \E hasList \in {TRUE} \cup (IF ListIdFaults THEN {FALSE} ELSE {}) :
         scan' = [scan EXCEPT
           ![r].pc = IF scan[r].mode = "compare" THEN "release"
                     ELSE IF Gathered(scan[r]) = {} THEN "save_pending"
                     ELSE "rules",
           ![r].todo = Gathered(scan[r]),
           ![r].hasList = hasList]
    /\ UNCHANGED <<mailVars, lock, fileVars, tasks, faults>>

\* The next mail of the loop has been dealt with.
Past(r, m) == [scan[r] EXCEPT !.todo = @ \ {m}]

\* The loop over the mails, up to the Graph calls of a template's task.
Rule(r) ==
    /\ At(r, "rules")
    /\ \E m \in scan[r].todo :
         LET rule == IF scan[r].mode = "agent" /\ RuleOf[m] # "override"
                       THEN "none" ELSE RuleOf[m]
         IN \/ /\ rule \in {"override", "skip"}
               /\ Decide(m, rule)
               /\ scan' = [scan EXCEPT ![r] = Past(r, m)]
            \/ /\ rule = "none"
               /\ scan' = [scan EXCEPT
                    ![r] = [Past(r, m) EXCEPT !.cands = @ \cup {m}]]
               /\ UNCHANGED rows
            \/ /\ rule = "template" /\ (scan[r].dry \/ ~scan[r].hasList)
               /\ Decide(m, "task")
               /\ scan' = [scan EXCEPT ![r] = Past(r, m)]
            \/ /\ rule = "template" /\ ~scan[r].dry /\ scan[r].hasList
               /\ scan' = [scan EXCEPT ![r] = [Past(r, m) EXCEPT
                    !.pc = "find", !.task = {m}, !.loop = "rules"]]
               /\ UNCHANGED rows
    /\ UNCHANGED <<mailVars, lock, pending, cursor, tasks, faults>>

RulesDone(r) ==
    /\ At(r, "rules")
    /\ scan[r].todo = {}
    /\ scan' = [scan EXCEPT
         ![r].pc = IF scan[r].cands = {} THEN "save_pending" ELSE "classify",
         ![r].todo = scan[r].cands]
    /\ UNCHANGED <<mailVars, lock, fileVars, tasks, faults>>

\* A classifier's answer for one candidate (none, when its batch failed or
\* left the mail out), and applyClassification up to its Graph calls.
Classify(r) ==
    /\ At(r, "classify")
    /\ \E m \in scan[r].todo :
         LET Fails == /\ scan' = [scan EXCEPT ![r] =
                           [Past(r, m) EXCEPT !.failed = @ \cup {m}]]
                      /\ UNCHANGED rows
         IN \/ Fails
            \/ \* the answer is a skip
               /\ IF scan[r].dry THEN UNCHANGED rows ELSE Decide(m, "skip")
               /\ scan' = [scan EXCEPT ![r] = Past(r, m)]
            \/ \* the answer is a task
               \/ /\ scan[r].dry
                  /\ scan' = [scan EXCEPT ![r] = Past(r, m)]
                  /\ UNCHANGED rows
               \/ ~scan[r].dry /\ ~scan[r].hasList /\ Fails
               \/ /\ ~scan[r].dry /\ scan[r].hasList
                  /\ scan' = [scan EXCEPT ![r] = [Past(r, m) EXCEPT
                       !.pc = "find", !.task = {m}, !.loop = "classify"]]
                  /\ UNCHANGED rows
    /\ UNCHANGED <<mailVars, lock, pending, cursor, tasks, faults>>

\* Faulty: the marker is not looked up.
FindNothing(r) ==
    /\ At(r, "find")
    /\ GoTo(r, "create")
    /\ UNCHANGED <<mailVars, lock, fileVars, tasks, faults>>

\* findTaskByMarker answers null for an error as for no task.
FindTask(r) ==
    /\ At(r, "find")
    /\ \E m \in scan[r].task,
          seen \in {TRUE} \cup (IF LookupFaults THEN {FALSE} ELSE {}) :
         IF tasks[m] > 0 /\ seen
           THEN Decide(m, "task") /\ GoTo(r, scan[r].loop)
           ELSE GoTo(r, "create") /\ UNCHANGED rows
    /\ UNCHANGED <<mailVars, lock, pending, cursor, tasks, faults>>

\* The server creates the task or not; the scan may not learn that it did.
CreateTask(r) ==
    /\ At(r, "create")
    /\ \E m \in scan[r].task, outcome \in {"made"} \cup
          (IF CreateFaults THEN {"refused", "answer lost"} ELSE {}) :
         /\ tasks[m] < MaxTasks
         /\ tasks' = IF outcome = "refused" THEN tasks
                       ELSE [tasks EXCEPT ![m] = @ + 1]
         /\ scan' = [scan EXCEPT ![r].pc = "record",
                                 ![r].created = (outcome = "made")]
    /\ UNCHANGED <<mailVars, lock, fileVars, faults>>

\* Without an id, a template's mail goes to the classifier and a classified
\* mail is kept for the next scan.
RecordTask(r) ==
    /\ At(r, "record")
    /\ \E m \in scan[r].task :
         \/ /\ scan[r].created
            /\ Decide(m, "task")
            /\ GoTo(r, scan[r].loop)
         \/ /\ ~scan[r].created
            /\ scan' = [scan EXCEPT
                 ![r].pc = scan[r].loop,
                 ![r].cands = IF scan[r].loop = "rules"
                                THEN @ \cup {m} ELSE @,
                 ![r].failed = IF scan[r].loop = "classify"
                                 THEN @ \cup {m} ELSE @]
            /\ UNCHANGED rows
    /\ UNCHANGED <<mailVars, lock, pending, cursor, tasks, faults>>

ClassifyDone(r) ==
    /\ At(r, "classify")
    /\ scan[r].todo = {}
    /\ GoTo(r, "save_pending")
    /\ UNCHANGED <<mailVars, lock, fileVars, tasks, faults>>

\* The failed mails replace the whole of pending_residuals.jsonl.
Retries(s) ==
    [m \in Mails |-> IF m \in s.failed THEN s.carryover[m] + 1 ELSE 0]

SavePending(r) ==
    /\ At(r, "save_pending")
    /\ pending' = IF scan[r].dry THEN pending ELSE Retries(scan[r])
    /\ GoTo(r, IF scan[r].dry THEN "release" ELSE "save_progress")
    /\ UNCHANGED <<mailVars, lock, rows, cursor, tasks, faults>>

\* latestReceivedIso of an account's listing, or the start of the scan.
Latest(s, a) ==
    LET times == {received[m] : m \in {n \in s.listed : AccountOf[n] = a}}
    IN IF times = {} THEN s.started
       ELSE CHOOSE t \in times : \A u \in times : u <= t

\* Faulty: an account whose listing failed advances like the others.
AdvancedAll(s) == [a \in Accounts |-> Latest(s, a)]

Advanced(s) ==
    [a \in Accounts |-> IF a \in s.completed THEN Latest(s, a)
                                             ELSE s.since[a]]

SaveProgress(r) ==
    /\ At(r, "save_progress")
    /\ cursor' = Advanced(scan[r])
    /\ GoTo(r, "release")
    /\ UNCHANGED <<mailVars, lock, rows, pending, tasks, faults>>

-----------------------------------------------------------------------------
\* The handler throws: main logs it and releases the lock.
Throws(r) ==
    /\ Scanning(r)
    /\ ~At(r, "release")
    /\ faults < MaxFaults
    /\ faults' = faults + 1
    /\ GoTo(r, "release")
    /\ UNCHANGED <<mailVars, lock, fileVars, tasks>>

\* The process dies, and leaves its lock file behind.
Crash(r) ==
    /\ ~At(r, "idle")
    /\ faults < MaxFaults
    /\ faults' = faults + 1
    /\ scan' = [scan EXCEPT ![r] = Idle]
    /\ UNCHANGED <<mailVars, lock, fileVars, tasks>>

Step(r) ==
    \/ CreateLock(r) \/ StatLock(r) \/ UnlinkLock(r) \/ RecreateLock(r)
    \/ Start(r) \/ ListAccount(r) \/ Gather(r) \/ Rule(r) \/ RulesDone(r)
    \/ Classify(r) \/ ClassifyDone(r)
    \/ FindTask(r) \/ CreateTask(r) \/ RecordTask(r)
    \/ SavePending(r) \/ SaveProgress(r) \/ Release(r)

Next ==
    \/ \E m \in Mails : Receive(m)
    \/ \E r \in Runners : Step(r) \/ Throws(r) \/ Crash(r)
    \/ Ages

Spec == Init /\ [][Next]_vars

\* cron starts a scan again and again, a scan runs to its end, time passes.
Fairness ==
    /\ \A r \in Runners : WF_vars(Step(r))
    /\ WF_vars(Ages)

FairSpec == Spec /\ Fairness

-----------------------------------------------------------------------------
(* Properties *)

\* A mail that reached an inbox is never forgotten: it has a decisive row, or
\* an entry among the pending ones, or the next listing still returns it.
\* This is the order of writes the end of runScan keeps: rows, then the
\* pending file, then the cursor.
MailConserved ==
    \A m \in Mails : received[m] > 0 =>
        \/ Resolved(m)
        \/ pending[m] > 0
        \/ received[m] >= cursor[AccountOf[m]]

\* However often a scan dies, fails or loses the answer of a call, and is
\* repeated, a mail gets at most one task: the audit marker finds the task an
\* earlier scan made.
AtMostOneTask == \A m \in Mails : tasks[m] <= 1

\* A row that says a task was made for the mail is not written before there
\* is one.
TaskBehindRow ==
    \A m \in Mails : \A i \in DOMAIN rows[m] :
        rows[m][i] = "task" => tasks[m] > 0

\* A mail gets one task at most, and none that its rows only claim.
TasksAreKept == AtMostOneTask /\ TaskBehindRow

\* The scans reach one verdict on a mail.  The exception is a mail they gave
\* up on in a scan that lists it again: that scan may classify it once more.
OneVerdict ==
    \A m \in Mails :
        \/ Len(rows[m]) <= 1
        \/ Len(rows[m]) = 2 /\ rows[m][1] = "gave_up"

\* The lock keeps two processes from scanning at the same time (a part of
\* LockExcludes in AgentTriage).
OneScanAtATime ==
    \A r, q \in Runners : Scanning(r) /\ Scanning(q) => r = q

\* The scans implement MailDrain, crashes and failures included: every mail
\* that arrives stays open until a row settles it, and it is settled.
Drain == INSTANCE MailDrain WITH
    open    <- {m \in Mails : /\ received[m] > 0 /\ ~Resolved(m)
                              /\ \/ pending[m] > 0
                                 \/ received[m] >= cursor[AccountOf[m]]},
    settled <- {m \in Mails : Resolved(m)}

DrainsInbox == Drain!FairSpec
=============================================================================
