\* Agent sessions over two inboxes, one without mail, with task calls that fail and two
\* crashes, exceptions or failed listings; and sessions beside two runners and
\* trigger_scan, dry ones and comparisons among them.  One mail for each rule.
SPECIFICATION MixedSpec
SYMMETRY SomeRunners
CONSTANTS
    m1 = m1
    m2 = m2
    m3 = m3
    r1 = r1
    r2 = r2
    Mails = {m1, m2, m3}
    Accounts = {"outlook", "gmail"}
    AccountOf <- OneInbox
    RuleOf <- AllRules
    Runners = {r1, r2}
    Agent = Agent
    Others = {Agent}
    Free = Free
    Modes = {"hybrid", "compare"}
    DryRuns = {TRUE, FALSE}
    MaxAttempts = 2
    CreateFaults = TRUE
    LookupFaults = FALSE
    ListIdFaults = TRUE
    SlowScans = FALSE
    SlowAgent = FALSE
    MaxTasks = 2
    MaxFaults = 2
INVARIANT
    LockExcludes
PROPERTY
    SessionPromise
CHECK_DEADLOCK FALSE
