\* One runner, two mails in one of two inboxes, two crashes, exceptions or failed
\* listings, task calls that fail or lose their answer.
SPECIFICATION FairSpec
CONSTANTS
    m1 = m1
    m2 = m2
    r1 = r1
    Mails = {m1, m2}
    Accounts = {"outlook", "gmail"}
    AccountOf <- OneInbox
    RuleOf <- SomeRules
    Runners = {r1}
    Others = {}
    Free = Free
    Modes = {"agent", "hybrid"}
    DryRuns = {FALSE}
    MaxAttempts = 2
    CreateFaults = TRUE
    LookupFaults = FALSE
    ListIdFaults = FALSE
    SlowScans = FALSE
    MaxTasks = 2
    MaxFaults = 2
INVARIANTS
    MailConserved
    TasksAreKept
    OneVerdict
PROPERTIES
    DrainsInbox
CHECK_DEADLOCK FALSE
