\* Two requests at a time of an agent that is paired, narrowed and revoked meanwhile.
SPECIFICATION CallsSpec
SYMMETRY SomeReqs
CONSTANTS
    a1 = a1
    u1 = u1
    l1 = l1
    c1 = c1
    c2 = c2
    o1 = o1
    n1 = n1
    Agents = {a1}
    Users = {u1}
    Logins = {l1}
    MaxTokens = 2
    MaxCrashes = 1
    Reqs = {c1, c2}
    Tools = {"read", "draft", "move", "task", "create", "update", "append"}
    Old = {o1}
    New = {n1}
    Throwing = {"task"}
    MaxTidies = 2
INVARIANTS
    EffectIsOwedToItsCaller
    RowsTellTheOutcome
    ChangesWhatIsAsked
    RegistryIsTrue
CHECK_DEADLOCK FALSE
