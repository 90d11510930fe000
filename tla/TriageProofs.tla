---------------------------- MODULE TriageProofs ----------------------------
(***************************************************************************)
(* Proofs about TriageScan and AgentTriage, for any mails, inboxes, rules, *)
(* runners and number of faults.  Two parts: who may scan (the lock), and  *)
(* what one scan at a time does to the files and the To Do list.  The      *)
(* second part takes from the first only that one process scans at a time. *)
(***************************************************************************)
EXTENDS AgentTriage, TLAPS, WellFoundedInduction

-----------------------------------------------------------------------------
(* The inductive invariant of a scan.  Every part but Clock speaks of a runner
   that has read the files and not yet written the last one. *)

Loops    == {"rules", "classify"} \cup Steps
Underway == Loops \cup {"list", "save_pending", "save_progress"}

Reading(s) == s.pc \in Underway
Looping(s) == s.pc \in Loops
InRules(s) == s.pc = "rules" \/ (s.pc \in Steps /\ s.loop = "rules")
InHand(s)  == IF s.pc \in Steps THEN s.task ELSE {}

\* The mails the loops have yet to decide.
Owed(s) ==
    IF ~Looping(s) THEN {}
    ELSE s.todo \cup InHand(s) \cup (IF InRules(s) THEN s.cands ELSE {})

\* A mail waits in one place, and a task is made for one mail at a time.
Apart(s) ==
    /\ s.pc \in Steps => \E m \in Mails : s.task = {m}
    /\ Looping(s) => InHand(s) \cap s.todo = {}
    /\ InRules(s) => s.cands \cap (s.todo \cup InHand(s)) = {}

Unsettled(m) == rows[m] \in {<<>>, <<"gave_up">>}

\* Nothing is later than the clock, and what a file says of a mail was written
\* after it arrived.
Clock ==
    /\ now > 0
    /\ \A m \in Mails : received[m] <= now
    /\ \A a \in Accounts : cursor[a] <= now
    /\ \A m \in Mails : Resolved(m) \/ pending[m] > 0 => received[m] > 0

\* What the scan read is what the files still say.
AsRead(s) ==
    /\ s.since = cursor
    /\ s.started <= now
    /\ \A m \in s.listed : received[m] > 0
    /\ \A m \in Mails : s.carryover[m] > 0 => received[m] > 0
    /\ \A m \in Mails \ s.fresh : Resolved(m)
    /\ s.mode # "compare" \/ s.pc = "list"
    /\ s.mode # "compare" /\ s.pc # "save_progress" =>
         \A m \in Mails : Resolved(m) \/ s.carryover[m] = pending[m]

\* A mail that an account's listing left out lies before the cursor it asked from,
\* or not before the one that will be saved.
Complete(s) ==
    \A a \in s.completed : \A m \in Mails :
        AccountOf[m] = a /\ received[m] > 0 =>
            \/ m \in s.listed
            \/ received[m] < s.since[a]
            \/ Latest(s, a) <= received[m]

\* Each gathered mail has a row, or the loops still owe it one, or it failed.
NoneDropped(s) ==
    /\ (Looping(s) \/ s.pc = "save_pending") /\ ~s.dry =>
         \A m \in Gathered(s) : Resolved(m) \/ m \in Owed(s) \/ m \in s.failed
    /\ s.pc = "save_progress" =>
         \A m \in s.listed : Resolved(m) \/ pending[m] > 0

\* The loops decide a mail once: what they still owe has no verdict.
Once(s) ==
    /\ \A m \in Owed(s) : Unsettled(m)
    /\ \A m \in Owed(s) \cup s.failed : received[m] > 0
    /\ s.pc = "list" =>
         /\ s.cands = {} /\ s.failed = {}
         /\ \A m \in Mails : m \in s.fresh \/ s.carryover[m] > 0 => Unsettled(m)

Sound(s) == AsRead(s) /\ Complete(s) /\ NoneDropped(s) /\ Once(s) /\ Apart(s)

ScanInv ==
    /\ TypeOK
    /\ Clock
    /\ \A r \in Runners : Reading(scan[r]) => Sound(scan[r])
    /\ MailConserved
    /\ OneVerdict

\* A task is made when the marker was not found, and its id comes with it.
Made(s)   == s.pc = "record" /\ s.created => \A m \in s.task : tasks[m] > 0
Absent(s) == s.pc = "create" => \A m \in s.task : tasks[m] = 0

OneTaskInv ==
    /\ \A r \in Runners : Absent(scan[r])
    /\ AtMostOneTask

\* Without dry runs, and with a To Do list, a row that claims a task is true.
ClaimInv ==
    /\ \A r \in Runners :
         /\ Made(scan[r])
         /\ ~scan[r].dry
         /\ Looping(scan[r]) => scan[r].hasList
    /\ TaskBehindRow

LockInv ==
    /\ ~lock.old
    /\ \A r \in Runners :
         /\ scan[r].pc \notin {"unlink", "recreate"}
         /\ Scanning(r) <=> lock.holder = r

SessionLock ==
    /\ LockInv
    /\ Busy <=> lock.holder = Agent
    /\ call.pc = "off" \/ active.pc = "off"

\* A dry scan that is about to make a task or to save its progress.
Strays(s) == s.dry /\ s.pc \in Steps \cup {"save_progress"}

\* What a session read is what the files still say, and each mail it listed has a
\* row, or the session still has it in hand or among its candidates.
Within(s) ==
    /\ s.since = cursor
    /\ \A m \in s.listed : received[m] >= s.since[AccountOf[m]]
    /\ \A m \in Mails \ s.fresh : Resolved(m)
    /\ s.pc \in {"create", "record"} => ~s.dry /\ \E m \in Mails : s.task = {m}
    /\ s.pc = "open" => s.todo = {}
    /\ s.pc # "list" /\ ~s.dry =>
         \A m \in s.listed : \/ Resolved(m) \/ m \in s.todo \/ m \in s.cands
                             \/ s.pc \in {"create", "record"} /\ m \in s.task

SessionInv ==
    /\ call.pc # "off" => Within(call)
    /\ active.pc # "off" => Within(active)
    /\ active.pc \in {"off", "open"}
    /\ \A r \in Runners : ~Strays(scan[r])

-----------------------------------------------------------------------------
(* Types *)

LEMMA Greatest ==
    ASSUME NEW T \in SUBSET Nat, T # {}, NEW b \in Nat, \A t \in T : t <= b
    PROVE  \E t \in T : \A u \in T : u <= t
<1> DEFINE D == {b - t : t \in T}
<1>1. D \subseteq Nat
  OBVIOUS
<1>2. D # {}
  <2>1. PICK t \in T : TRUE
    OBVIOUS
  <2>2. b - t \in D
    BY <2>1
  <2> QED
    BY <2>2
<1>3. IsWellFoundedOn(OpToRel(<, Nat), Nat)
  BY NatLessThanWellFounded
<1> HIDE DEF D
<1>4. PICK x \in D : \A y \in D : ~(<<y, x>> \in OpToRel(<, Nat))
  BY <1>1, <1>2, <1>3, WFMin, Zenon
<1>5. \A y \in D : ~(y < x)
  BY <1>1, <1>4 DEF OpToRel
<1>6. PICK t \in T : x = b - t
  BY DEF D
<1>7. \A u \in T : b - u \in D
  BY DEF D
<1> QED
  BY <1>5, <1>6, <1>7

\* The last time in an account's listing is one of its mails' or the scan's start.
LEMMA LatestIs ==
    ASSUME received \in [Mails -> Nat], now \in Nat,
           \A m \in Mails : received[m] <= now,
           NEW s, s.listed \subseteq Mails, s.started \in Nat, NEW a \in Accounts
    PROVE  /\ Latest(s, a) \in Nat
           /\ s.started <= now => Latest(s, a) <= now
<1> DEFINE times == {received[m] : m \in {n \in s.listed : AccountOf[n] = a}}
<1>1. times \subseteq Nat /\ \A t \in times : t <= now
  OBVIOUS
<1>2. CASE times = {}
  BY <1>2 DEF Latest
<1>3. CASE times # {}
  <2> HIDE DEF times
  <2>1. \E t \in times : \A u \in times : u <= t
    BY <1>1, <1>3, Greatest
  <2>2. (CHOOSE t \in times : \A u \in times : u <= t) \in times
    BY <2>1
  <2>3. Latest(s, a) = CHOOSE t \in times : \A u \in times : u <= t
    BY <1>3 DEF Latest, times
  <2> QED
    BY <1>1, <2>2, <2>3
<1> QED
  BY <1>2, <1>3

LEMMA SameLatest ==
    ASSUME NEW s, NEW t, NEW a, t.started = s.started,
           {received'[m] : m \in {n \in t.listed : AccountOf[n] = a}}
             = {received[m] : m \in {n \in s.listed : AccountOf[n] = a}}
    PROVE  Latest(t, a)' = Latest(s, a)
<1> DEFINE new == {received'[m] : m \in {n \in t.listed : AccountOf[n] = a}}
           old == {received[m] : m \in {n \in s.listed : AccountOf[n] = a}}
<1>1. Latest(t, a)' = IF new = {} THEN t.started
                      ELSE CHOOSE x \in new : \A u \in new : u <= x
  BY DEF Latest
<1>2. Latest(s, a) = IF old = {} THEN s.started
                     ELSE CHOOSE x \in old : \A u \in old : u <= x
  BY DEF Latest
<1>3. new = old
  OBVIOUS
<1> HIDE DEF new, old
<1> QED
  BY <1>1, <1>2, <1>3, Zenon

LEMMA IdleType == Idle \in Locals
<1>1. (CHOOSE m \in Modes : TRUE) \in Modes
  BY TriageAssumption
<1>2. NoMail \in [Mails -> 0 .. MaxAttempts - 1]
  BY TriageAssumption DEF NoMail
<1> QED
  BY <1>1, <1>2 DEF Idle, Locals, Pc, Waiting

LEMMA InitTypeOK == Init => TypeOK
<1>1. NoMail \in [Mails -> 0 .. MaxAttempts] /\ NoMail \in [Mails -> Nat]
  BY TriageAssumption DEF NoMail
<1>2. Unlocked \in Locks
  BY DEF Unlocked, Locks
<1>3. <<>> \in Seq(Verdicts)
  OBVIOUS
<1> QED
  BY <1>1, <1>2, <1>3, IdleType DEF Init, TypeOK

LEMMA PcType ==
    ASSUME NEW s \in Locals, NEW p \in Pc
    PROVE  [s EXCEPT !.pc = p] \in Locals
BY DEF Locals

LEMMA RowType ==
    ASSUME TypeOK, NEW m \in Mails, NEW v \in Verdicts, Decide(m, v)
    PROVE  /\ rows' \in [Mails -> Seq(Verdicts)]
           /\ rows'[m] = Append(rows[m], v)
           /\ rows'[m] # <<>>
           /\ \A n \in Mails \ {m} : rows'[n] = rows[n]
<1>1. rows[m] \in Seq(Verdicts)
  BY DEF TypeOK
<1>2. /\ Append(rows[m], v) \in Seq(Verdicts)
      /\ Append(rows[m], v) # <<>>
  BY <1>1
<1>3. rows' = [rows EXCEPT ![m] = Append(rows[m], v)]
  BY DEF TypeOK, Decide
<1> QED
  BY <1>2, <1>3 DEF TypeOK

\* Runner r goes on with the locals t.
Becomes(r, t) == scan' = [scan EXCEPT ![r] = t]

LEMMA Becoming ==
    ASSUME TypeOK, NEW r \in Runners, NEW t \in Locals, Becomes(r, t)
    PROVE  /\ scan' \in [Runners -> Locals]
           /\ scan'[r] = t
           /\ \A q \in Runners \ {r} : scan'[q] = scan[q]
BY DEF TypeOK, Becomes

-----------------------------------------------------------------------------
(* What the steps of the two loops have in common *)

LoopStep(s, t) ==
    /\ Looping(s)
    /\ t.pc \in Loops \cup {"save_pending"}
    /\ t.pc \in {"create", "record"} => s.pc \in {"find", "create"}
    /\ t.mode = s.mode /\ t.dry = s.dry /\ t.since = s.since
    /\ t.started = s.started /\ t.carryover = s.carryover
    /\ t.fresh = s.fresh /\ t.completed = s.completed /\ t.listed = s.listed
    /\ t.hasList = s.hasList
    /\ Owed(t) \subseteq Owed(s)
    /\ s.failed \subseteq t.failed /\ t.failed \subseteq s.failed \cup Owed(s)
    /\ Apart(t)
    /\ \/ rows' = rows
       \/ \E m \in Owed(s) \ Owed(t), v \in Verdicts : v # "gave_up" /\ Decide(m, v)
    /\ \A m \in Owed(s) :
         m \in Owed(t) \/ m \in t.failed \/ rows'[m] # <<>> \/ s.dry

LEMMA PastIs ==
    ASSUME TypeOK, NEW r \in Runners, NEW m
    PROVE  /\ scan[r] \in Locals
           /\ Past(r, m) \in Locals
           /\ Past(r, m) = [scan[r] EXCEPT !.todo = scan[r].todo \ {m}]
<1>1. scan[r] \in Locals
  BY DEF TypeOK
<1> QED
  BY <1>1 DEF Past, Locals

LEMMA RuleLoops ==
    ASSUME TypeOK, NEW r \in Runners, Rule(r), Apart(scan[r])
    PROVE  \E t \in Locals : Becomes(r, t) /\ LoopStep(scan[r], t)
<1> DEFINE s == scan[r]
<1>1. PICK m \in s.todo :
        \/ Becomes(r, Past(r, m)) /\ Decide(m, "override")
        \/ Becomes(r, Past(r, m)) /\ Decide(m, "skip")
        \/ Becomes(r, Past(r, m)) /\ Decide(m, "task")
        \/ rows' = rows /\ Becomes(r, [Past(r, m) EXCEPT !.cands = @ \cup {m}])
        \/ rows' = rows /\ Becomes(r, [Past(r, m) EXCEPT
             !.pc = "find", !.task = {m}, !.loop = "rules"])
  BY DEF Rule, Becomes
<1>2. /\ s \in Locals /\ s.pc = "rules"
      /\ Past(r, m) = [s EXCEPT !.todo = s.todo \ {m}] /\ Past(r, m) \in Locals
  BY PastIs DEF Rule, At
<1>3. m \in Mails
  BY <1>2 DEF Locals
<1>4. CASE Becomes(r, Past(r, m)) /\ \E v \in {"override", "skip", "task"} : Decide(m, v)
  <2>1. PICK v \in Verdicts : v # "gave_up" /\ Decide(m, v)
    BY <1>4 DEF Verdicts
  <2>2. rows'[m] # <<>>
    BY <1>3, <2>1, RowType
  <2> DEFINE t == [s EXCEPT !.todo = s.todo \ {m}]
  <2>3. m \in Owed(s) \ Owed(t)
    BY <1>2 DEF Apart, Owed, Looping, Loops, Steps, InRules, InHand, Locals
  <2>4. LoopStep(s, t)
    BY <1>2, <2>1, <2>2, <2>3
    DEF LoopStep, Apart, Owed, Looping, Loops, Steps, InRules, InHand, Locals
  <2> QED
    BY <1>2, <1>4, <2>4
<1>5. CASE rows' = rows /\ Becomes(r, [Past(r, m) EXCEPT !.cands = @ \cup {m}])
  <2> DEFINE t == [s EXCEPT !.todo = s.todo \ {m}, !.cands = s.cands \cup {m}]
  <2>1. t \in Locals /\ Becomes(r, t)
    BY <1>2, <1>3, <1>5 DEF Locals
  <2>2. LoopStep(s, t)
    BY <1>2, <1>5 DEF LoopStep, Apart, Owed, Looping, Loops, Steps, InRules, InHand, Locals
  <2> QED
    BY <2>1, <2>2
<1>6. CASE rows' = rows /\ Becomes(r, [Past(r, m) EXCEPT
             !.pc = "find", !.task = {m}, !.loop = "rules"])
  <2> DEFINE t == [s EXCEPT !.todo = s.todo \ {m}, !.pc = "find", !.task = {m},
                            !.loop = "rules"]
  <2>1. t \in Locals /\ Becomes(r, t)
    BY <1>2, <1>3, <1>6 DEF Locals, Pc, Steps
  <2>2. LoopStep(s, t)
    BY <1>2, <1>6 DEF LoopStep, Apart, Owed, Looping, Loops, Steps, InRules, InHand, Locals
  <2> QED
    BY <2>1, <2>2
<1> QED
  BY <1>1, <1>4, <1>5, <1>6

LEMMA RulesDoneLoops ==
    ASSUME TypeOK, NEW r \in Runners, RulesDone(r), Apart(scan[r])
    PROVE  \E t \in Locals : Becomes(r, t) /\ LoopStep(scan[r], t)
<1> DEFINE s == scan[r]
           p == IF s.cands = {} THEN "save_pending" ELSE "classify"
           t == [s EXCEPT !.pc = p, !.todo = s.cands]
<1>1. s \in Locals /\ s.pc = "rules" /\ s.todo = {}
  BY DEF TypeOK, RulesDone, At
<1>2. p \in {"save_pending", "classify"} /\ (p = "save_pending" => s.cands = {})
  OBVIOUS
<1>3. Becomes(r, t)
  BY <1>1 DEF RulesDone, Becomes
<1> HIDE DEF p
<1>4. t \in Locals
  BY <1>1, <1>2 DEF Locals, Pc
<1>5. rows' = rows
  BY DEF RulesDone, fileVars
<1>6. LoopStep(s, t)
  BY <1>1, <1>2, <1>5
  DEF LoopStep, Apart, Owed, Looping, Loops, Steps, InRules, InHand, Locals
<1> QED
  BY <1>3, <1>4, <1>6

LEMMA ClassifyLoops ==
    ASSUME TypeOK, NEW r \in Runners, Classify(r), Apart(scan[r])
    PROVE  \E t \in Locals : Becomes(r, t) /\ LoopStep(scan[r], t)
<1> DEFINE s == scan[r]
<1>1. PICK m \in s.todo :
        \/ rows' = rows /\ Becomes(r, [Past(r, m) EXCEPT !.failed = @ \cup {m}])
        \/ Becomes(r, Past(r, m)) /\ Decide(m, "skip")
        \/ s.dry /\ Becomes(r, Past(r, m)) /\ rows' = rows
        \/ rows' = rows /\ Becomes(r, [Past(r, m) EXCEPT
             !.pc = "find", !.task = {m}, !.loop = "classify"])
  BY DEF Classify, Becomes
<1>2. /\ s \in Locals /\ s.pc = "classify"
      /\ Past(r, m) = [s EXCEPT !.todo = s.todo \ {m}] /\ Past(r, m) \in Locals
  BY PastIs DEF Classify, At
<1>3. m \in Mails
  BY <1>2 DEF Locals
<1>4. CASE rows' = rows /\ Becomes(r, [Past(r, m) EXCEPT !.failed = @ \cup {m}])
  <2> DEFINE t == [s EXCEPT !.todo = s.todo \ {m}, !.failed = s.failed \cup {m}]
  <2>1. t \in Locals /\ Becomes(r, t)
    BY <1>2, <1>3, <1>4 DEF Locals
  <2>2. LoopStep(s, t)
    BY <1>2, <1>4 DEF LoopStep, Apart, Owed, Looping, Loops, Steps, InRules, InHand, Locals
  <2> QED
    BY <2>1, <2>2
<1>5. CASE Becomes(r, Past(r, m)) /\ Decide(m, "skip")
  <2>1. rows'[m] # <<>> /\ "skip" \in Verdicts
    BY <1>3, <1>5, RowType DEF Verdicts
  <2> DEFINE t == [s EXCEPT !.todo = s.todo \ {m}]
  <2>2. m \in Owed(s) \ Owed(t)
    BY <1>2 DEF Apart, Owed, Looping, Loops, Steps, InRules, InHand, Locals
  <2>3. LoopStep(s, t)
    BY <1>2, <1>5, <2>1, <2>2
    DEF LoopStep, Apart, Owed, Looping, Loops, Steps, InRules, InHand, Locals
  <2> QED
    BY <1>2, <1>5, <2>3
<1>6. CASE s.dry /\ Becomes(r, Past(r, m)) /\ rows' = rows
  <2>1. LoopStep(s, [s EXCEPT !.todo = s.todo \ {m}])
    BY <1>2, <1>6 DEF LoopStep, Apart, Owed, Looping, Loops, Steps, InRules, InHand, Locals
  <2> QED
    BY <1>2, <1>6, <2>1
<1>7. CASE rows' = rows /\ Becomes(r, [Past(r, m) EXCEPT
             !.pc = "find", !.task = {m}, !.loop = "classify"])
  <2> DEFINE t == [s EXCEPT !.todo = s.todo \ {m}, !.pc = "find", !.task = {m},
                            !.loop = "classify"]
  <2>1. t \in Locals /\ Becomes(r, t)
    BY <1>2, <1>3, <1>7 DEF Locals, Pc, Steps
  <2>2. LoopStep(s, t)
    BY <1>2, <1>7 DEF LoopStep, Apart, Owed, Looping, Loops, Steps, InRules, InHand, Locals
  <2> QED
    BY <2>1, <2>2
<1> QED
  BY <1>1, <1>4, <1>5, <1>6, <1>7

LEMMA ClassifyDoneLoops ==
    ASSUME TypeOK, NEW r \in Runners, ClassifyDone(r), Apart(scan[r])
    PROVE  \E t \in Locals : Becomes(r, t) /\ LoopStep(scan[r], t)
<1> DEFINE s == scan[r]
           t == [s EXCEPT !.pc = "save_pending"]
<1>1. s \in Locals /\ s.pc = "classify" /\ s.todo = {}
  BY DEF TypeOK, ClassifyDone, At
<1>2. t \in Locals /\ Becomes(r, t) /\ rows' = rows
  BY <1>1, PcType DEF ClassifyDone, GoTo, Becomes, fileVars, Pc
<1>3. LoopStep(s, t)
  BY <1>1, <1>2
  DEF LoopStep, Apart, Owed, Looping, Loops, Steps, InRules, InHand, Locals
<1> QED
  BY <1>2, <1>3

LEMMA FindLoops ==
    ASSUME TypeOK, NEW r \in Runners, FindTask(r), Apart(scan[r])
    PROVE  \E t \in Locals : Becomes(r, t) /\ LoopStep(scan[r], t)
<1> DEFINE s == scan[r]
<1>1. PICK m \in s.task :
        \/ Decide(m, "task") /\ GoTo(r, s.loop)
        \/ GoTo(r, "create") /\ rows' = rows
  BY DEF FindTask
<1>2. s \in Locals /\ s.pc = "find" /\ m \in Mails /\ s.task = {m}
  <2>1. s \in Locals
    BY DEF TypeOK
  <2>2. s.pc = "find" /\ \E n \in Mails : s.task = {n}
    BY DEF FindTask, At, Apart, Steps
  <2> QED
    BY <1>1, <2>1, <2>2
<1>3. CASE Decide(m, "task") /\ GoTo(r, s.loop)
  <2> DEFINE t == [s EXCEPT !.pc = s.loop]
  <2>1. rows'[m] # <<>> /\ "task" \in Verdicts
    BY <1>2, <1>3, RowType DEF Verdicts
  <2>2. s.loop \in {"rules", "classify"}
    BY <1>2 DEF Locals
  <2>3. t \in Locals /\ Becomes(r, t)
    BY <1>2, <1>3, <2>2, PcType DEF GoTo, Becomes, Pc
  <2>4. m \in Owed(s) \ Owed(t)
    BY <1>2, <1>3, <2>2 DEF Apart, Owed, Looping, Loops, Steps, InRules, InHand, Locals
  <2>5. LoopStep(s, t)
    BY <1>2, <1>3, <2>1, <2>2, <2>4
    DEF LoopStep, Apart, Owed, Looping, Loops, Steps, InRules, InHand, Locals
  <2> QED
    BY <2>3, <2>5
<1>4. CASE GoTo(r, "create") /\ rows' = rows
  <2> DEFINE t == [s EXCEPT !.pc = "create"]
  <2>1. t \in Locals /\ Becomes(r, t)
    BY <1>2, <1>4, PcType DEF GoTo, Becomes, Pc, Steps
  <2>2. LoopStep(s, t)
    BY <1>2, <1>4 DEF LoopStep, Apart, Owed, Looping, Loops, Steps, InRules, InHand, Locals
  <2> QED
    BY <2>1, <2>2
<1> QED
  BY <1>1, <1>3, <1>4

LEMMA CreateLoops ==
    ASSUME TypeOK, NEW r \in Runners, CreateTask(r), Apart(scan[r])
    PROVE  \E t \in Locals : Becomes(r, t) /\ LoopStep(scan[r], t)
<1> DEFINE s == scan[r]
<1>1. PICK made \in BOOLEAN :
        Becomes(r, [s EXCEPT !.pc = "record", !.created = made])
  BY DEF CreateTask, Becomes
<1> DEFINE t == [s EXCEPT !.pc = "record", !.created = made]
<1>2. s \in Locals /\ s.pc = "create" /\ rows' = rows
  BY DEF TypeOK, CreateTask, At, fileVars
<1>3. t \in Locals
  BY <1>2 DEF Locals, Pc, Steps
<1>4. LoopStep(s, t)
  BY <1>2 DEF LoopStep, Apart, Owed, Looping, Loops, Steps, InRules, InHand, Locals
<1> QED
  BY <1>1, <1>3, <1>4

LEMMA RecordLoops ==
    ASSUME TypeOK, NEW r \in Runners, RecordTask(r), Apart(scan[r])
    PROVE  \E t \in Locals : Becomes(r, t) /\ LoopStep(scan[r], t)
<1> DEFINE s == scan[r]
<1>1. s \in Locals /\ s.pc = "record" /\ s.loop \in {"rules", "classify"}
  BY DEF TypeOK, RecordTask, At, Locals
<1>2. PICK m \in Mails : s.task = {m}
  BY <1>1 DEF Apart, Steps
<1> DEFINE cands  == IF s.loop = "rules" THEN s.cands \cup {m} ELSE s.cands
           failed == IF s.loop = "classify" THEN s.failed \cup {m} ELSE s.failed
<1>3. \/ Decide(m, "task") /\ GoTo(r, s.loop)
      \/ rows' = rows /\ Becomes(r, [s EXCEPT !.pc = s.loop, !.cands = cands,
                                              !.failed = failed])
  BY <1>2 DEF RecordTask, Becomes
<1>4. CASE Decide(m, "task") /\ GoTo(r, s.loop)
  <2> DEFINE t == [s EXCEPT !.pc = s.loop]
  <2>1. rows'[m] # <<>> /\ "task" \in Verdicts
    BY <1>2, <1>4, RowType DEF Verdicts
  <2>2. t \in Locals /\ Becomes(r, t)
    BY <1>1, <1>4, PcType DEF GoTo, Becomes, Pc
  <2>3. m \in Owed(s) \ Owed(t)
    BY <1>1, <1>2 DEF Apart, Owed, Looping, Loops, Steps, InRules, InHand, Locals
  <2>4. LoopStep(s, t)
    BY <1>1, <1>2, <1>4, <2>1, <2>3
    DEF LoopStep, Apart, Owed, Looping, Loops, Steps, InRules, InHand, Locals
  <2> QED
    BY <2>2, <2>4
<1>5. CASE rows' = rows /\ Becomes(r, [s EXCEPT !.pc = s.loop, !.cands = cands,
                                                 !.failed = failed])
  <2> DEFINE t == [s EXCEPT !.pc = s.loop, !.cands = cands, !.failed = failed]
  <2>1. /\ cands \subseteq Mails /\ failed \subseteq Mails
        /\ s.loop = "rules" => cands = s.cands \cup {m} /\ failed = s.failed
        /\ s.loop = "classify" => cands = s.cands /\ failed = s.failed \cup {m}
    BY <1>1, <1>2 DEF Locals
  <2> HIDE DEF cands, failed
  <2>2. t \in Locals
    BY <1>1, <2>1 DEF Locals, Pc
  <2>3. LoopStep(s, t)
    <3>1. CASE s.loop = "rules"
      BY <1>1, <1>2, <1>5, <2>1, <3>1
      DEF LoopStep, Apart, Owed, Looping, Loops, Steps, InRules, InHand, Locals
    <3>2. CASE s.loop = "classify"
      BY <1>1, <1>2, <1>5, <2>1, <3>2
      DEF LoopStep, Apart, Owed, Looping, Loops, Steps, InRules, InHand, Locals
    <3> QED
      BY <1>1, <3>1, <3>2
  <2> QED
    BY <1>5, <2>2, <2>3
<1> QED
  BY <1>3, <1>4, <1>5

Loop(r) ==
    \/ Rule(r) \/ RulesDone(r) \/ Classify(r) \/ ClassifyDone(r)
    \/ FindTask(r) \/ CreateTask(r) \/ RecordTask(r)

LEMMA LoopMoves ==
    ASSUME TypeOK, NEW r \in Runners, Loop(r), Apart(scan[r])
    PROVE  /\ \E t \in Locals : Becomes(r, t) /\ LoopStep(scan[r], t)
           /\ UNCHANGED <<mailVars, lock, pending, cursor, faults>>
<1>1. UNCHANGED <<mailVars, lock, pending, cursor, faults>>
  BY DEF Loop, Rule, RulesDone, Classify, ClassifyDone, FindTask, CreateTask,
         RecordTask, fileVars
<1> QED
  BY <1>1, RuleLoops, RulesDoneLoops, ClassifyLoops, ClassifyDoneLoops, FindLoops,
     CreateLoops, RecordLoops DEF Loop

-----------------------------------------------------------------------------
(* The invariant of a scan, one lemma for each kind of step *)

\* The other runners read nothing meanwhile.
LEMMA Frame ==
    ASSUME TypeOK, OneScanAtATime, NEW r \in Runners, Scanning(r),
           NEW t \in Locals, Becomes(r, t), Reading(t) => Sound(t)'
    PROVE  (\A q \in Runners : Reading(scan[q]) => Sound(scan[q]))'
<1>1. scan'[r] = t /\ \A q \in Runners \ {r} : scan'[q] = scan[q]
  BY Becoming
<1>2. \A q \in Runners \ {r} : ~Reading(scan[q])
  BY DEF OneScanAtATime, Scanning, Reading, Underway, Loops, Steps, Waiting
<1>3. ASSUME NEW q \in Runners, Reading(scan'[q])
      PROVE  Sound(scan[q])'
  <2>1. q = r
    BY <1>1, <1>2, <1>3
  <2> QED
    BY <1>1, <1>3, <2>1
<1>4. \A q \in Runners : Reading(scan[q])' <=> Reading(scan'[q])
  BY DEF Reading
<1> QED
  BY <1>3, <1>4

\* Nothing is written and nobody goes on reading.
LEMMA QuietInv ==
    ASSUME ScanInv, UNCHANGED <<mailVars, fileVars>>, TypeOK',
           \A q \in Runners : Reading(scan'[q]) => scan'[q] = scan[q]
    PROVE  ScanInv'
<1> USE DEF mailVars, fileVars
<1>1. Clock' /\ MailConserved' /\ OneVerdict'
  BY DEF ScanInv, Clock, MailConserved, OneVerdict, Resolved
<1>2. ASSUME NEW s, Sound(s)
      PROVE  Sound(s)'
  <2>1. AsRead(s)'
    BY <1>2 DEF Sound, AsRead, Resolved
  <2>2. Complete(s)'
    <3>1. \A a : Latest(s, a)' = Latest(s, a)
      BY SameLatest
    <3> QED
      BY <1>2, <3>1 DEF Sound, Complete
  <2>3. NoneDropped(s)'
    BY <1>2 DEF Sound, NoneDropped, Gathered, Resolved
  <2>4. Once(s)'
    BY <1>2 DEF Sound, Once, Unsettled
  <2> QED
    BY <1>2, <2>1, <2>2, <2>3, <2>4 DEF Sound
<1>3. ASSUME NEW q \in Runners, Reading(scan'[q])
      PROVE  Sound(scan[q])'
  <2>1. PICK s : s = scan[q]
    OBVIOUS
  <2>2. Sound(s)' /\ scan'[q] = s
    BY <1>2, <1>3, <2>1 DEF ScanInv
  <2> QED
    BY <2>2
<1>4. \A q \in Runners : Reading(scan[q])' <=> Reading(scan'[q])
  BY DEF Reading
<1> QED
  BY <1>1, <1>3, <1>4 DEF ScanInv

LEMMA LoopInv ==
    ASSUME ScanInv, OneScanAtATime, NEW r \in Runners, Loop(r)
    PROVE  ScanInv'
<1> DEFINE s == scan[r]
<1>0. TypeOK /\ s \in Locals
  BY DEF ScanInv, TypeOK
<1>1. Reading(s) /\ Looping(s) /\ Scanning(r)
  BY DEF Loop, Rule, RulesDone, Classify, ClassifyDone, FindTask, CreateTask, RecordTask,
         At, Reading, Underway, Looping, Loops, Steps, Scanning, Waiting
<1>2. Sound(s)
  BY <1>1 DEF ScanInv
<1>3. PICK t \in Locals : Becomes(r, t) /\ LoopStep(s, t)
  BY <1>0, <1>2, LoopMoves DEF Sound
<1>4. UNCHANGED <<now, received, lock, pending, cursor, faults>>
  BY <1>0, <1>2, LoopMoves DEF Sound, mailVars
<1>5. \/ rows' = rows
      \/ \E m \in Owed(s), v \in Verdicts : /\ m \notin Owed(t) /\ v # "gave_up"
                                            /\ Decide(m, v)
  BY <1>3 DEF LoopStep
<1>6. Owed(s) \subseteq Mails
  BY <1>0 DEF Owed, InHand, Locals
<1>7. /\ rows' \in [Mails -> Seq(Verdicts)]
      /\ \A m \in Mails : rows'[m] = rows[m] \/ (m \in Owed(s) \ Owed(t) /\ rows'[m] # <<>>)
      /\ \A m \in Mails : rows'[m] = rows[m] \/ (\E v \in Verdicts : rows'[m] = Append(rows[m], v))
  BY <1>0, <1>5, <1>6, RowType DEF TypeOK
<1>8. \A m \in Mails : rows[m] # <<>> => rows'[m] # <<>>
  BY <1>7
<1>9. TypeOK'
  <2>1. tasks' \in [Mails -> Nat]
    <3>1. tasks' = tasks \/ \E m \in s.task : tasks' = [tasks EXCEPT ![m] = @ + 1]
      <4>1. CASE CreateTask(r)
        BY <4>1 DEF CreateTask
      <4>2. CASE ~CreateTask(r)
        BY <4>2 DEF Loop, Rule, RulesDone, Classify, ClassifyDone, FindTask, RecordTask,
                    fileVars
      <4> QED
        BY <4>1, <4>2
    <3>2. CASE tasks' = tasks
      BY <1>0, <3>2 DEF TypeOK
    <3>3. ASSUME NEW m \in s.task, tasks' = [tasks EXCEPT ![m] = @ + 1]
          PROVE  tasks' \in [Mails -> Nat]
      <4>1. m \in Mails /\ tasks \in [Mails -> Nat]
        BY <1>0 DEF TypeOK, Locals
      <4> QED
        BY <3>3, <4>1
    <3> QED
      BY <3>1, <3>2, <3>3
  <2> QED
    BY <1>0, <1>3, <1>4, <1>7, <2>1, Becoming DEF TypeOK
<1>10. Clock'
  BY <1>2, <1>4, <1>6, <1>7 DEF ScanInv, Clock, Sound, Once, Resolved
<1>11. MailConserved'
  BY <1>4, <1>8 DEF ScanInv, MailConserved, Resolved
<1>12. OneVerdict'
  <2> SUFFICES ASSUME NEW m \in Mails, rows'[m] # rows[m]
               PROVE  Len(rows'[m]) <= 1 \/ (Len(rows'[m]) = 2 /\ rows'[m][1] = "gave_up")
    BY DEF ScanInv, OneVerdict
  <2>1. PICK v \in Verdicts : rows'[m] = Append(rows[m], v)
    BY <1>7
  <2>2. rows[m] = <<>> \/ rows[m] = <<"gave_up">>
    BY <1>2, <1>7 DEF Sound, Once, Unsettled
  <2>3. CASE rows[m] = <<>>
    BY <2>1, <2>3
  <2>4. CASE rows[m] = <<"gave_up">>
    <3>1. rows[m] \in Seq(Verdicts)
      BY <1>0 DEF TypeOK
    <3>2. Len(rows[m]) = 1 /\ rows[m][1] = "gave_up"
      BY <2>4
    <3> QED
      BY <2>1, <3>1, <3>2
  <2> QED
    BY <2>2, <2>3, <2>4
<1>13. AsRead(t)'
  BY <1>1, <1>2, <1>3, <1>4, <1>8
  DEF Sound, AsRead, LoopStep, Resolved, Looping, Loops, Steps
<1>14. Complete(t)'
  <2>1. \A a : Latest(t, a)' = Latest(s, a)
    BY <1>3, <1>4, SameLatest DEF LoopStep
  <2> QED
    BY <1>2, <1>3, <1>4, <2>1 DEF Sound, Complete, LoopStep
<1>15. NoneDropped(t)'
  <2>1. Gathered(t)' = Gathered(s) /\ t.dry = s.dry
    BY <1>3, <1>4 DEF Gathered, LoopStep
  <2>2. ASSUME NEW m \in Gathered(s), ~s.dry
        PROVE  rows'[m] # <<>> \/ m \in Owed(t) \/ m \in t.failed
    <3>1. rows[m] # <<>> \/ m \in Owed(s) \/ m \in s.failed
      BY <1>1, <1>2, <2>2 DEF Sound, NoneDropped, Resolved
    <3>2. m \in Mails
      BY <1>0, <2>2 DEF Gathered, Locals
    <3> QED
      BY <1>3, <1>8, <2>2, <3>1, <3>2 DEF LoopStep
  <2>3. t.pc # "save_progress"
    BY <1>3 DEF LoopStep, Loops, Steps
  <2> QED
    BY <2>1, <2>2, <2>3 DEF NoneDropped, Resolved
<1>16. Once(t)'
  <2>1. t.pc # "list" /\ Owed(t) \subseteq Owed(s)
    BY <1>3 DEF LoopStep, Loops, Steps
  <2>2. \A m \in Owed(t) : rows'[m] = rows[m]
    BY <1>6, <1>7, <2>1
  <2>3. \A m \in Owed(t) : Unsettled(m)'
    BY <1>2, <2>1, <2>2 DEF Sound, Once, Unsettled
  <2>4. Owed(t) \cup t.failed \subseteq Owed(s) \cup s.failed
    BY <1>3 DEF LoopStep
  <2> QED
    BY <1>2, <1>4, <2>1, <2>3, <2>4 DEF Sound, Once
<1>17. Apart(t)'
  BY <1>3 DEF LoopStep
<1> QED
  BY <1>0, <1>1, <1>3, <1>9, <1>10, <1>11, <1>12, <1>13, <1>14, <1>15, <1>16, <1>17, Frame
  DEF ScanInv, Sound

Unresolved == {m \in Mails : ~Resolved(m)}

Carried(mode) ==
    [m \in Mails |-> IF Resolved(m) \/ m \in Exhausted \/ mode = "compare" THEN 0
                                                                          ELSE pending[m]]

LEMMA StartMoves ==
    ASSUME TypeOK, NEW r \in Runners, Start(r)
    PROVE  /\ \E t \in Locals :
                /\ Becomes(r, t)
                /\ t.pc = "list" /\ t.dry \in DryRuns /\ t.since = cursor
                /\ t.started = now /\ t.fresh = Unresolved /\ t.carryover = Carried(t.mode)
                /\ t.listed = {} /\ t.completed = {} /\ t.cands = {} /\ t.failed = {}
                /\ rows' = [m \in Mails |->
                     IF t.mode # "compare" /\ m \in Exhausted
                       THEN Append(rows[m], "gave_up") ELSE rows[m]]
           /\ UNCHANGED <<now, received, lock, pending, cursor, tasks, faults>>
<1>1. PICK mode \in Modes, dry \in DryRuns :
        LET gaveUp == IF mode = "compare" THEN {} ELSE Exhausted IN
        /\ rows' = [m \in Mails |-> IF m \in gaveUp THEN Append(rows[m], "gave_up")
                                                    ELSE rows[m]]
        /\ Becomes(r, [Idle EXCEPT
              !.pc = "list", !.mode = mode, !.dry = dry, !.since = cursor,
              !.started = now, !.left = Accounts, !.fresh = Unresolved,
              !.carryover = Carried(mode)])
  BY DEF Start, Becomes, Unresolved, Carried
<1> DEFINE t == [Idle EXCEPT
              !.pc = "list", !.mode = mode, !.dry = dry, !.since = cursor,
              !.started = now, !.left = Accounts, !.fresh = Unresolved,
              !.carryover = Carried(mode)]
<1>2. UNCHANGED <<now, received, lock, pending, cursor, tasks, faults>>
  BY DEF Start, mailVars
<1>3. MaxAttempts \in Nat \ {0} /\ dry \in BOOLEAN
  BY TriageAssumption
<1>4. Carried(mode) \in [Mails -> 0 .. MaxAttempts - 1] /\ Unresolved \subseteq Mails
  BY <1>3 DEF TypeOK, Exhausted, Carried, Unresolved
<1>5. t \in Locals
  BY <1>3, <1>4, IdleType DEF Locals, Idle, Pc, TypeOK
<1>6. /\ t.pc = "list" /\ t.dry \in DryRuns /\ t.since = cursor /\ t.mode = mode
      /\ t.started = now /\ t.fresh = Unresolved /\ t.carryover = Carried(mode)
      /\ t.listed = {} /\ t.completed = {} /\ t.cands = {} /\ t.failed = {}
  BY <1>1 DEF Idle
<1>7. rows' = [m \in Mails |-> IF mode # "compare" /\ m \in Exhausted
                                 THEN Append(rows[m], "gave_up") ELSE rows[m]]
  BY <1>1
<1>8. Becomes(r, t)
  BY <1>1
<1> HIDE DEF t
<1> QED
  BY <1>2, <1>5, <1>6, <1>7, <1>8

LEMMA StartInv ==
    ASSUME ScanInv, OneScanAtATime, NEW r \in Runners, Start(r)
    PROVE  ScanInv'
<1>0. TypeOK /\ Scanning(r)
  BY DEF ScanInv, Start, At, Scanning, Waiting
<1>1. PICK t \in Locals :
        /\ Becomes(r, t)
        /\ t.pc = "list" /\ t.since = cursor
        /\ t.started = now /\ t.fresh = Unresolved /\ t.carryover = Carried(t.mode)
        /\ t.listed = {} /\ t.completed = {} /\ t.cands = {} /\ t.failed = {}
        /\ rows' = [m \in Mails |-> IF t.mode # "compare" /\ m \in Exhausted
                                      THEN Append(rows[m], "gave_up") ELSE rows[m]]
  BY <1>0, StartMoves
<1>2. UNCHANGED <<now, received, lock, pending, cursor, tasks, faults>>
  BY <1>0, StartMoves
<1>3. MaxAttempts \in Nat \ {0}
  BY TriageAssumption
<1>4. ASSUME NEW m \in Mails
      PROVE  /\ rows'[m] \in Seq(Verdicts)
             /\ rows'[m] = rows[m] \/ (/\ rows[m] = <<>> /\ rows'[m] = <<"gave_up">>
                                       /\ pending[m] > 0)
             /\ m \in Exhausted /\ t.mode # "compare" => rows'[m] = <<"gave_up">>
  <2>1. CASE m \in Exhausted /\ t.mode # "compare"
    <3>1. rows[m] = <<>> /\ pending[m] >= MaxAttempts /\ pending[m] \in Nat
      BY <1>0, <1>3, <2>1 DEF Exhausted, Resolved, TypeOK
    <3>2. rows'[m] = <<"gave_up">>
      <4>1. rows'[m] = Append(rows[m], "gave_up")
        BY <1>1, <2>1
      <4>2. Append(<<>>, "gave_up") = <<"gave_up">>
        OBVIOUS
      <4> QED
        BY <3>1, <4>1, <4>2
    <3>3. <<"gave_up">> \in Seq(Verdicts)
      BY DEF Verdicts
    <3> QED
      BY <1>3, <2>1, <3>1, <3>2, <3>3
  <2>2. CASE ~(m \in Exhausted /\ t.mode # "compare")
    <3>1. rows'[m] = rows[m]
      BY <1>1, <2>2
    <3> QED
      BY <1>0, <2>2, <3>1 DEF TypeOK
  <2> QED
    BY <2>1, <2>2
<1>5. rows' \in [Mails -> Seq(Verdicts)]
  BY <1>1, <1>4
<1>6. TypeOK'
  BY <1>0, <1>1, <1>2, <1>5, Becoming DEF TypeOK
<1>7. Clock' /\ MailConserved'
  BY <1>2, <1>4 DEF ScanInv, Clock, MailConserved, Resolved
<1>8. OneVerdict'
  <2>1. Len(<<"gave_up">>) = 1
    OBVIOUS
  <2>2. ASSUME NEW m \in Mails
        PROVE  Len(rows'[m]) <= 1 \/ (Len(rows'[m]) = 2 /\ rows'[m][1] = "gave_up")
    <3>1. CASE rows'[m] = rows[m]
      BY <3>1 DEF ScanInv, OneVerdict
    <3>2. CASE rows'[m] = <<"gave_up">>
      BY <2>1, <3>2
    <3> QED
      BY <1>4, <3>1, <3>2
  <2> QED
    BY <2>2 DEF OneVerdict
<1>9. /\ \A m \in Mails : t.carryover[m] > 0 => received[m] > 0
      /\ \A m \in Mails \ t.fresh : rows'[m] # <<>>
      /\ t.mode # "compare" =>
           \A m \in Mails : rows'[m] # <<>> \/ t.carryover[m] = pending[m]
      /\ \A m \in Mails : m \in t.fresh \/ t.carryover[m] > 0 =>
           rows'[m] = <<>> \/ rows'[m] = <<"gave_up">>
  <2>1. \A m \in Mails : Carried(t.mode)[m] > 0 => received[m] > 0
    BY DEF ScanInv, Clock, Carried
  <2>2. \A m \in Mails : rows[m] # <<>> => rows'[m] # <<>>
    BY <1>4
  <2>3. ASSUME t.mode # "compare", NEW m \in Mails
        PROVE  rows'[m] # <<>> \/ Carried(t.mode)[m] = pending[m]
    <3>1. CASE m \in Exhausted
      <4>1. <<"gave_up">> # <<>>
        OBVIOUS
      <4> QED
        BY <1>4, <2>3, <3>1, <4>1
    <3>2. CASE rows[m] # <<>>
      BY <2>2, <3>2
    <3>3. CASE m \notin Exhausted /\ rows[m] = <<>>
      BY <2>3, <3>3 DEF Resolved, Unresolved, Carried
    <3> QED
      BY <3>1, <3>2, <3>3
  <2>4. \A m \in Mails : m \in Unresolved \/ Carried(t.mode)[m] > 0 =>
            rows'[m] = <<>> \/ rows'[m] = <<"gave_up">>
    BY <1>4 DEF Resolved, Unresolved, Carried
  <2>5. t.fresh = Unresolved /\ t.carryover = Carried(t.mode)
    BY <1>1
  <2>6. \A m \in Mails \ Unresolved : rows[m] # <<>>
    BY DEF Unresolved, Resolved
  <2> QED
    BY <2>1, <2>2, <2>3, <2>4, <2>5, <2>6
<1>10. AsRead(t)'
  <2>1. /\ now \in Nat /\ t.pc = "list" /\ t.since = cursor /\ t.started = now
        /\ t.listed = {}
    BY <1>0, <1>1 DEF TypeOK
  <2> QED
    BY <1>2, <1>9, <2>1 DEF AsRead, Resolved
<1>11. Complete(t)'
  BY <1>1 DEF Complete
<1>12. NoneDropped(t)'
  BY <1>1 DEF NoneDropped, Looping, Loops, Steps
<1>13. Apart(t)'
  BY <1>1 DEF Apart, Looping, Loops, Steps, InRules
<1>14. Once(t)'
  <2>1. t.pc = "list" /\ t.cands = {} /\ t.failed = {}
    BY <1>1
  <2> QED
    BY <1>9, <2>1 DEF Once, Owed, Looping, Loops, Steps, Unsettled
<1> QED
  BY <1>0, <1>1, <1>6, <1>7, <1>8, <1>10, <1>11, <1>12, <1>13, <1>14, Frame
  DEF ScanInv, Sound

\* A runner that reads goes on from where its files left it.
LEMMA ReadingSound ==
    ASSUME ScanInv, NEW r \in Runners, scan[r].pc \in Underway
    PROVE  TypeOK /\ scan[r] \in Locals /\ Scanning(r) /\ Sound(scan[r])
BY DEF ScanInv, TypeOK, Reading, Scanning, Underway, Loops, Steps, Waiting

LEMMA ListMoves ==
    ASSUME TypeOK, NEW r \in Runners, ListAccount(r)
    PROVE  /\ \E t \in Locals, a \in Accounts : LET s == scan[r] IN
                /\ Becomes(r, t)
                /\ t.pc = "list" /\ t.mode = s.mode /\ t.dry = s.dry
                /\ t.since = s.since /\ t.started = s.started /\ t.fresh = s.fresh
                /\ t.carryover = s.carryover /\ t.cands = s.cands /\ t.failed = s.failed
                /\ \/ t.listed = s.listed /\ t.completed = s.completed
                   \/ /\ t.listed = s.listed \cup Listing(a, s.since[a])
                      /\ t.completed = s.completed \cup {a}
           /\ scan[r].pc = "list"
           /\ UNCHANGED <<now, received, lock, rows, pending, cursor, tasks>>
<1> DEFINE s == scan[r]
<1>1. s \in Locals
  BY DEF TypeOK
<1>2. PICK a \in s.left :
        \/ Becomes(r, [s EXCEPT !.left = @ \ {a}, !.completed = @ \cup {a},
                                !.listed = @ \cup Listing(a, s.since[a])])
        \/ Becomes(r, [s EXCEPT !.left = @ \ {a}])
  BY DEF ListAccount, Becomes
<1>3. a \in Accounts /\ Listing(a, s.since[a]) \subseteq Mails
  BY <1>1 DEF Locals, Listing
<1>4. scan[r].pc = "list" /\ UNCHANGED <<now, received, lock, rows, pending, cursor, tasks>>
  BY DEF ListAccount, At, mailVars, fileVars
<1>5. CASE Becomes(r, [s EXCEPT !.left = @ \ {a}])
  <2>1. [s EXCEPT !.left = @ \ {a}] \in Locals
    BY <1>1 DEF Locals
  <2> QED
    BY <1>1, <1>3, <1>4, <1>5, <2>1 DEF Locals
<1>6. CASE Becomes(r, [s EXCEPT !.left = @ \ {a}, !.completed = @ \cup {a},
                                !.listed = @ \cup Listing(a, s.since[a])])
  <2>1. [s EXCEPT !.left = @ \ {a}, !.completed = @ \cup {a},
                  !.listed = @ \cup Listing(a, s.since[a])] \in Locals
    BY <1>1, <1>3 DEF Locals
  <2> QED
    BY <1>1, <1>3, <1>4, <1>6, <2>1 DEF Locals
<1> QED
  BY <1>2, <1>5, <1>6

LEMMA ListInv ==
    ASSUME ScanInv, OneScanAtATime, NEW r \in Runners, ListAccount(r)
    PROVE  ScanInv'
<1> DEFINE s == scan[r]
<1>1. /\ TypeOK /\ s \in Locals /\ s.pc = "list" /\ Scanning(r) /\ Sound(s)
      /\ UNCHANGED <<now, received, lock, rows, pending, cursor, tasks>>
  <2>1. TypeOK
    BY DEF ScanInv
  <2> QED
    BY <2>1, ListMoves, ReadingSound DEF Underway
<1>2. PICK t \in Locals, a \in Accounts :
        /\ Becomes(r, t)
        /\ t.pc = "list" /\ t.mode = s.mode
        /\ t.since = s.since /\ t.started = s.started /\ t.fresh = s.fresh
        /\ t.carryover = s.carryover /\ t.cands = s.cands /\ t.failed = s.failed
        /\ \/ t.listed = s.listed /\ t.completed = s.completed
           \/ /\ t.listed = s.listed \cup Listing(a, s.since[a])
              /\ t.completed = s.completed \cup {a}
  BY <1>1, ListMoves
<1>3. TypeOK'
  <2>1. faults' \in Nat
    BY <1>1 DEF TypeOK, ListAccount
  <2> QED
    BY <1>1, <1>2, <2>1, Becoming DEF TypeOK
<1>4. Clock' /\ MailConserved' /\ OneVerdict'
  BY <1>1 DEF ScanInv, Clock, MailConserved, OneVerdict, Resolved
<1>5. AsRead(t)'
  <2>1. \A m \in t.listed : received[m] > 0
    BY <1>1, <1>2 DEF Sound, AsRead, Listing
  <2> QED
    BY <1>1, <1>2, <2>1 DEF Sound, AsRead, Resolved
<1>6. Complete(t)'
  <2> SUFFICES ASSUME NEW b \in t.completed, NEW m \in Mails, AccountOf[m] = b,
                      received[m] > 0
               PROVE  \/ m \in t.listed
                      \/ received[m] < t.since[b]
                      \/ Latest(t, b)' <= received[m]
    BY <1>1 DEF Complete
  <2>1. CASE b = a /\ t.listed = s.listed \cup Listing(a, s.since[a])
    <3>1. received[m] \in Nat /\ s.since[a] \in Nat
      BY <1>1 DEF TypeOK, Locals
    <3>2. received[m] >= s.since[a] => m \in Listing(a, s.since[a])
      BY <2>1 DEF Listing
    <3> QED
      BY <1>2, <2>1, <3>1, <3>2
  <2>2. CASE b # a \/ (t.listed = s.listed /\ t.completed = s.completed)
    <3>1. {n \in t.listed : AccountOf[n] = b} = {n \in s.listed : AccountOf[n] = b}
      BY <1>2, <2>2 DEF Listing
    <3>2. Latest(t, b)' = Latest(s, b)
      BY <1>1, <1>2, <3>1, SameLatest
    <3>3. CASE b \in s.completed
      BY <1>1, <1>2, <3>2, <3>3 DEF Sound, Complete
    <3>4. CASE b \notin s.completed
      BY <1>2, <2>2, <3>4
    <3> QED
      BY <3>3, <3>4
  <2>3. \/ t.listed = s.listed /\ t.completed = s.completed
        \/ t.listed = s.listed \cup Listing(a, s.since[a])
    BY <1>2
  <2> QED
    BY <2>1, <2>2, <2>3
<1>7. NoneDropped(t)'
  BY <1>2 DEF NoneDropped, Looping, Loops, Steps
<1>8. Once(t)'
  BY <1>1, <1>2 DEF Sound, Once, Owed, Looping, Loops, Steps, Unsettled
<1>9. Apart(t)'
  BY <1>2 DEF Apart, Looping, Loops, Steps, InRules
<1> QED
  BY <1>1, <1>2, <1>3, <1>4, <1>5, <1>6, <1>7, <1>8, <1>9, Frame DEF ScanInv, Sound

LEMMA GatherMoves ==
    ASSUME TypeOK, NEW r \in Runners, Gather(r)
    PROVE  /\ \E t \in Locals : LET s == scan[r] IN
                /\ Becomes(r, t)
                /\ t.todo = Gathered(s) /\ t.mode = s.mode /\ t.dry = s.dry
                /\ t.since = s.since /\ t.started = s.started /\ t.fresh = s.fresh
                /\ t.carryover = s.carryover /\ t.cands = s.cands /\ t.failed = s.failed
                /\ t.listed = s.listed /\ t.completed = s.completed
                /\ ~ListIdFaults => t.hasList
                /\ t.pc \in {"release", "save_pending", "rules"}
                /\ s.mode = "compare" => t.pc = "release"
                /\ s.mode # "compare" /\ Gathered(s) = {} => t.pc = "save_pending"
                /\ s.mode # "compare" /\ Gathered(s) # {} => t.pc = "rules"
           /\ scan[r].pc = "list"
           /\ UNCHANGED <<now, received, lock, rows, pending, cursor, tasks, faults>>
<1> DEFINE s == scan[r]
           p == IF s.mode = "compare" THEN "release"
                ELSE IF Gathered(s) = {} THEN "save_pending"
                ELSE "rules"
<1>1. s \in Locals /\ s.pc = "list"
  BY DEF TypeOK, Gather, At
<1>2. UNCHANGED <<now, received, lock, rows, pending, cursor, tasks, faults>>
  BY DEF Gather, mailVars, fileVars
<1>3. /\ p \in {"release", "save_pending", "rules"}
      /\ s.mode = "compare" => p = "release"
      /\ s.mode # "compare" /\ Gathered(s) = {} => p = "save_pending"
      /\ s.mode # "compare" /\ Gathered(s) # {} => p = "rules"
  OBVIOUS
<1>4. PICK hasList \in BOOLEAN :
        /\ ~ListIdFaults => hasList
        /\ Becomes(r, [s EXCEPT !.pc = p, !.todo = Gathered(s), !.hasList = hasList])
  BY DEF Gather, Becomes
<1> HIDE DEF p
<1>5. Gathered(s) \subseteq Mails
  BY <1>1 DEF Gathered, Locals
<1>6. [s EXCEPT !.pc = p, !.todo = Gathered(s), !.hasList = hasList] \in Locals
  BY <1>1, <1>3, <1>5 DEF Locals, Pc
<1> QED
  BY <1>1, <1>2, <1>3, <1>4, <1>6 DEF Locals

LEMMA GatherInv ==
    ASSUME ScanInv, OneScanAtATime, NEW r \in Runners, Gather(r)
    PROVE  ScanInv'
<1> DEFINE s == scan[r]
<1>1. /\ TypeOK /\ s \in Locals /\ s.pc = "list" /\ Scanning(r) /\ Sound(s)
      /\ UNCHANGED <<now, received, lock, rows, pending, cursor, tasks, faults>>
  <2>1. TypeOK
    BY DEF ScanInv
  <2> QED
    BY <2>1, GatherMoves, ReadingSound DEF Underway
<1>2. PICK t \in Locals :
        /\ Becomes(r, t)
        /\ t.todo = Gathered(s) /\ t.mode = s.mode
        /\ t.since = s.since /\ t.started = s.started /\ t.fresh = s.fresh
        /\ t.carryover = s.carryover /\ t.cands = s.cands /\ t.failed = s.failed
        /\ t.listed = s.listed /\ t.completed = s.completed
        /\ t.pc \in {"release", "save_pending", "rules"}
        /\ s.mode = "compare" => t.pc = "release"
        /\ s.mode # "compare" /\ Gathered(s) = {} => t.pc = "save_pending"
        /\ s.mode # "compare" /\ Gathered(s) # {} => t.pc = "rules"
  BY <1>1, GatherMoves
<1>3. TypeOK'
  BY <1>1, <1>2, Becoming DEF TypeOK
<1>4. Clock' /\ MailConserved' /\ OneVerdict'
  BY <1>1 DEF ScanInv, Clock, MailConserved, OneVerdict, Resolved
<1>5. ASSUME Reading(t)
      PROVE  Sound(t)'
  <2>1. s.mode # "compare" /\ t.pc \in {"save_pending", "rules"}
    BY <1>2, <1>5 DEF Reading, Underway, Loops, Steps
  <2>2. AsRead(t)'
    BY <1>1, <1>2, <2>1 DEF Sound, AsRead, Resolved
  <2>3. Complete(t)'
    <3>1. \A a : Latest(t, a)' = Latest(s, a)
      BY <1>1, <1>2, SameLatest
    <3> QED
      BY <1>1, <1>2, <3>1 DEF Sound, Complete
  <2>4. NoneDropped(t)'
    <3>1. Gathered(t)' = Gathered(s)
      BY <1>2 DEF Gathered
    <3>2. CASE t.pc = "rules"
      BY <1>2, <3>1, <3>2 DEF NoneDropped, Owed, Looping, Loops, Steps
    <3>3. CASE t.pc = "save_pending"
      <4>1. Gathered(s) = {}
        BY <1>2, <2>1, <3>3
      <4> QED
        BY <3>1, <3>3, <4>1 DEF NoneDropped
    <3> QED
      BY <2>1, <3>2, <3>3
  <2>5. Once(t)'
    <3>1. \A m \in Gathered(s) : Unsettled(m) /\ received[m] > 0
      BY <1>1 DEF Sound, Once, AsRead, Gathered, Locals
    <3>2. Owed(t) \subseteq Gathered(s)
      BY <1>1, <1>2, <2>1
      DEF Sound, Once, Owed, InHand, InRules, Looping, Loops, Steps
    <3>3. t.failed = {} /\ t.pc # "list"
      BY <1>1, <1>2, <2>1 DEF Sound, Once
    <3> QED
      BY <1>1, <3>1, <3>2, <3>3 DEF Once, Unsettled
  <2>6. Apart(t)'
    BY <1>1, <1>2, <2>1 DEF Sound, Once, Apart, InHand, InRules, Looping, Loops, Steps
  <2> QED
    BY <2>2, <2>3, <2>4, <2>5, <2>6 DEF Sound
<1> QED
  BY <1>1, <1>2, <1>3, <1>4, <1>5, Frame DEF ScanInv

LEMMA SavePendingInv ==
    ASSUME ScanInv, OneScanAtATime, NEW r \in Runners, SavePending(r)
    PROVE  ScanInv'
<1> DEFINE s == scan[r]
           p == IF s.dry THEN "release" ELSE "save_progress"
<1>1. /\ TypeOK /\ s \in Locals /\ s.pc = "save_pending" /\ Scanning(r) /\ Sound(s)
      /\ UNCHANGED <<now, received, lock, rows, cursor, tasks, faults>>
  <2>1. s.pc = "save_pending"
    BY DEF SavePending, At
  <2>2. Reading(s) /\ Scanning(r)
    BY <2>1 DEF Reading, Underway, Scanning, Waiting
  <2> QED
    BY <2>1, <2>2 DEF ScanInv, TypeOK, SavePending, mailVars
<1>2. PICK t \in Locals :
        /\ Becomes(r, t)
        /\ t.pc = p /\ t.dry = s.dry /\ t.mode = s.mode /\ t.since = s.since
        /\ t.started = s.started /\ t.fresh = s.fresh /\ t.carryover = s.carryover
        /\ t.listed = s.listed /\ t.completed = s.completed /\ t.failed = s.failed
  <2>1. p \in Pc
    BY DEF Pc
  <2>2. Becomes(r, [s EXCEPT !.pc = p])
    BY DEF SavePending, GoTo, Becomes
  <2> HIDE DEF p
  <2>3. [s EXCEPT !.pc = p] \in Locals
    BY <1>1, <2>1, PcType
  <2> QED
    BY <1>1, <2>2, <2>3 DEF Locals
<1>3. pending' = IF s.dry THEN pending ELSE Retries(s)
  BY DEF SavePending
<1>4. MaxAttempts \in Nat \ {0} /\ s.carryover \in [Mails -> 0 .. MaxAttempts - 1]
  BY <1>1, TriageAssumption DEF Locals
<1>5. ASSUME NEW m \in Mails
      PROVE  /\ Retries(s)[m] \in 0 .. MaxAttempts
             /\ m \in s.failed => Retries(s)[m] > 0
             /\ Retries(s)[m] > 0 => m \in s.failed
  BY <1>4 DEF Retries
<1>6. pending' \in [Mails -> 0 .. MaxAttempts]
  BY <1>1, <1>3, <1>5 DEF TypeOK, Retries
<1>7. TypeOK'
  BY <1>1, <1>2, <1>6, Becoming DEF TypeOK
<1>8. Clock'
  <2>1. \A m \in Mails : pending'[m] > 0 => pending[m] > 0 \/ m \in s.failed
    BY <1>3, <1>5
  <2> QED
    BY <1>1, <2>1 DEF ScanInv, Clock, Sound, Once, Resolved
<1>9. MailConserved'
  <2> SUFFICES ASSUME NEW m \in Mails, received[m] > 0, rows[m] = <<>>,
                      ~(received[m] >= cursor[AccountOf[m]])
               PROVE  pending'[m] > 0
    BY <1>1 DEF MailConserved, Resolved
  <2>1. pending[m] > 0
    BY DEF ScanInv, MailConserved, Resolved
  <2>2. CASE s.dry
    BY <1>3, <2>1, <2>2
  <2>3. CASE ~s.dry
    <3>1. s.mode # "compare" /\ s.carryover[m] = pending[m]
      BY <1>1 DEF Sound, AsRead, Resolved
    <3>2. m \in Gathered(s)
      BY <2>1, <3>1 DEF Gathered
    <3>3. m \in s.failed
      BY <1>1, <2>3, <3>2 DEF Sound, NoneDropped, Owed, Looping, Loops, Steps, Resolved
    <3> QED
      BY <1>3, <1>5, <2>3, <3>3
  <2> QED
    BY <2>2, <2>3
<1>10. OneVerdict'
  BY <1>1 DEF ScanInv, OneVerdict
<1>11. ASSUME ~s.dry
       PROVE  Sound(t)'
  <2>1. t.pc = "save_progress"
    BY <1>2, <1>11
  <2>2. AsRead(t)'
    BY <1>1, <1>2, <2>1 DEF Sound, AsRead, Resolved
  <2>3. Complete(t)'
    <3>1. \A a : Latest(t, a)' = Latest(s, a)
      BY <1>1, <1>2, SameLatest
    <3> QED
      BY <1>1, <1>2, <3>1 DEF Sound, Complete
  <2>4. NoneDropped(t)'
    <3>1. ASSUME NEW m \in s.listed
          PROVE  rows[m] # <<>> \/ m \in s.failed
      <4>1. CASE m \in s.fresh
        BY <1>1, <1>11, <3>1, <4>1
        DEF Sound, NoneDropped, Gathered, Owed, Looping, Loops, Steps, Resolved
      <4>2. CASE m \notin s.fresh
        BY <1>1, <3>1, <4>2 DEF Sound, AsRead, Resolved, Locals
      <4> QED
        BY <4>1, <4>2
    <3>2. \A m \in s.listed : rows[m] # <<>> \/ pending'[m] > 0
      BY <1>1, <1>3, <1>5, <1>11, <3>1 DEF Locals
    <3> QED
      BY <1>1, <1>2, <2>1, <3>2 DEF NoneDropped, Looping, Loops, Steps, Resolved
  <2>5. Once(t)'
    BY <1>1, <1>2, <2>1 DEF Sound, Once, Owed, Looping, Loops, Steps
  <2>6. Apart(t)'
    BY <2>1 DEF Apart, InRules, Looping, Loops, Steps
  <2> QED
    BY <2>2, <2>3, <2>4, <2>5, <2>6 DEF Sound
<1>12. Reading(t) => ~s.dry
  BY <1>2 DEF Reading, Underway, Loops, Steps
<1> QED
  BY <1>1, <1>2, <1>7, <1>8, <1>9, <1>10, <1>11, <1>12, Frame DEF ScanInv

LEMMA SaveProgressInv ==
    ASSUME ScanInv, OneScanAtATime, NEW r \in Runners, SaveProgress(r)
    PROVE  ScanInv'
<1> DEFINE s == scan[r]
<1>1. /\ TypeOK /\ s \in Locals /\ s.pc = "save_progress" /\ Scanning(r) /\ Sound(s)
      /\ UNCHANGED <<now, received, lock, rows, pending, tasks, faults>>
  <2>1. s.pc = "save_progress"
    BY DEF SaveProgress, At
  <2>2. Reading(s) /\ Scanning(r)
    BY <2>1 DEF Reading, Underway, Scanning, Waiting
  <2> QED
    BY <2>1, <2>2 DEF ScanInv, TypeOK, SaveProgress, mailVars
<1>2. PICK t \in Locals : Becomes(r, t) /\ t.pc = "release"
  <2>1. [s EXCEPT !.pc = "release"] \in Locals
    BY <1>1, PcType DEF Pc
  <2> QED
    BY <1>1, <2>1 DEF SaveProgress, GoTo, Becomes, Locals
<1>3. cursor' = [a \in Accounts |-> IF a \in s.completed THEN Latest(s, a) ELSE s.since[a]]
  BY DEF SaveProgress, Advanced
<1>4. \A a \in Accounts : Latest(s, a) \in Nat /\ Latest(s, a) <= now
  BY <1>1, LatestIs DEF TypeOK, ScanInv, Clock, Sound, AsRead, Locals
<1>5. s.since = cursor /\ cursor \in [Accounts -> Nat]
  BY <1>1 DEF Sound, AsRead, TypeOK
<1>6. TypeOK'
  BY <1>1, <1>2, <1>3, <1>4, <1>5, Becoming DEF TypeOK
<1>7. Clock'
  <2>1. \A a \in Accounts : cursor'[a] <= now
    BY <1>3, <1>4, <1>5 DEF ScanInv, Clock
  <2> QED
    BY <1>1, <2>1 DEF ScanInv, Clock, Resolved
<1>8. MailConserved'
  <2> SUFFICES ASSUME NEW m \in Mails, received[m] > 0, rows[m] = <<>>, ~(pending[m] > 0)
               PROVE  received[m] >= cursor'[AccountOf[m]]
    BY <1>1 DEF MailConserved, Resolved
  <2> DEFINE a == AccountOf[m]
  <2>1. a \in Accounts /\ received[m] \in Nat
    BY <1>1, TriageAssumption DEF TypeOK
  <2>2. received[m] >= cursor[a] /\ m \notin s.listed
    BY <1>1 DEF ScanInv, MailConserved, Sound, NoneDropped, Resolved
  <2>3. CASE a \in s.completed
    <3>1. ~(received[m] < s.since[a])
      BY <1>5, <2>1, <2>2
    <3>2. Latest(s, a) <= received[m]
      BY <1>1, <2>2, <2>3, <3>1 DEF Sound, Complete
    <3> QED
      BY <1>3, <1>4, <2>1, <2>3, <3>2
  <2>4. CASE a \notin s.completed
    BY <1>3, <1>5, <2>1, <2>2, <2>4
  <2> QED
    BY <2>3, <2>4
<1>9. OneVerdict'
  BY <1>1 DEF ScanInv, OneVerdict
<1>10. ~Reading(t)
  BY <1>2 DEF Reading, Underway, Loops, Steps
<1> QED
  BY <1>1, <1>2, <1>6, <1>7, <1>8, <1>9, <1>10, Frame DEF ScanInv

LEMMA ReceiveInv ==
    ASSUME ScanInv, NEW n \in Mails, Receive(n)
    PROVE  ScanInv'
<1>1. TypeOK /\ UNCHANGED <<lock, rows, pending, cursor, tasks, scan, faults>>
  BY DEF ScanInv, Receive, fileVars
<1>2. /\ now' \in Nat /\ now <= now' /\ received[n] = 0
      /\ received' = [received EXCEPT ![n] = now'] /\ now' > 0
  <2>1. now > 0
    BY DEF ScanInv, Clock
  <2> QED
    BY <1>1, <2>1 DEF Receive, TypeOK
<1>3. /\ received' \in [Mails -> Nat] /\ received'[n] = now'
      /\ \A m \in Mails \ {n} : received'[m] = received[m]
  BY <1>1, <1>2 DEF TypeOK
<1>4. TypeOK'
  BY <1>1, <1>2, <1>3 DEF TypeOK
<1>5. Clock'
  BY <1>1, <1>2, <1>3 DEF ScanInv, Clock, Resolved, TypeOK
<1>6. MailConserved'
  <2>1. /\ AccountOf[n] \in Accounts /\ cursor[AccountOf[n]] \in Nat
        /\ cursor[AccountOf[n]] <= now /\ now \in Nat
    BY <1>1, TriageAssumption DEF ScanInv, Clock, TypeOK
  <2>2. now' >= cursor[AccountOf[n]]
    BY <1>2, <2>1
  <2> QED
    BY <1>1, <1>3, <2>2 DEF ScanInv, MailConserved, Resolved
<1>7. OneVerdict'
  BY <1>1 DEF ScanInv, OneVerdict
<1>8. ASSUME NEW s \in Locals, Sound(s)
      PROVE  Sound(s)'
  <2>1. AsRead(s)'
    BY <1>1, <1>2, <1>3, <1>8 DEF Sound, AsRead, Resolved, TypeOK, Locals
  <2>2. Complete(s)'
    <3> SUFFICES ASSUME NEW a \in s.completed, NEW m \in Mails, AccountOf[m] = a,
                        received'[m] > 0
                 PROVE  \/ m \in s.listed
                        \/ received'[m] < s.since[a]
                        \/ Latest(s, a)' <= received'[m]
      BY DEF Complete
    <3>1. n \notin s.listed /\ s.listed \subseteq Mails
      BY <1>2, <1>8 DEF Sound, AsRead, Locals
    <3>2. Latest(s, a)' = Latest(s, a)
      BY <1>3, <3>1, SameLatest
    <3>3. Latest(s, a) \in Nat /\ Latest(s, a) <= now
      BY <1>1, <1>8, LatestIs DEF TypeOK, ScanInv, Clock, Sound, AsRead, Locals
    <3>4. CASE m = n
      BY <1>1, <1>2, <1>3, <3>2, <3>3, <3>4 DEF TypeOK
    <3>5. CASE m # n
      BY <1>3, <1>8, <3>2, <3>5 DEF Sound, Complete
    <3> QED
      BY <3>4, <3>5
  <2>3. NoneDropped(s)'
    BY <1>1, <1>8 DEF Sound, NoneDropped, Gathered, Resolved
  <2>4. Once(s)'
    BY <1>1, <1>2, <1>3, <1>8 DEF Sound, Once, Unsettled
  <2> QED
    BY <1>8, <2>1, <2>2, <2>3, <2>4 DEF Sound
<1>9. ASSUME NEW q \in Runners, Reading(scan'[q])
      PROVE  Sound(scan[q])'
  <2>1. PICK s \in Locals : s = scan[q]
    BY <1>1 DEF TypeOK
  <2> QED
    BY <1>1, <1>8, <1>9, <2>1 DEF ScanInv
<1>10. \A q \in Runners : Reading(scan[q])' <=> Reading(scan'[q])
  BY DEF Reading
<1> QED
  BY <1>4, <1>5, <1>6, <1>7, <1>9, <1>10 DEF ScanInv

Unlocking(r) ==
    \/ CreateLock(r) \/ StatLock(r) \/ UnlinkLock(r) \/ RecreateLock(r)
    \/ Release(r) \/ Throws(r) \/ Crash(r)

\* The steps around a scan write the lock at most and read nothing.
LEMMA UnlockingMoves ==
    ASSUME TypeOK, NEW r \in Runners, Unlocking(r)
    PROVE  /\ \E t \in Locals :
                Becomes(r, t) /\ t.pc \notin Underway /\ t.dry \in {FALSE, scan[r].dry}
           /\ lock' \in Locks /\ faults' \in Nat
           /\ UNCHANGED <<mailVars, fileVars, tasks>>
<1> DEFINE s == scan[r]
<1>1. s \in Locals
  BY DEF TypeOK
<1>2. \/ \E p \in Waiting \cup {"start", "release"} : GoTo(r, p)
      \/ Becomes(r, Idle)
  <2>1. CASE CreateLock(r)
    BY <2>1 DEF CreateLock, Waiting
  <2>2. CASE StatLock(r)
    <3>1. (IF lock.holder # Free /\ lock.old THEN "unlink" ELSE "idle") \in Waiting
      BY DEF Waiting
    <3> QED
      BY <2>2, <3>1 DEF StatLock
  <2>3. CASE UnlinkLock(r)
    <3>1. (IF lock.holder # Free THEN "recreate" ELSE "idle") \in Waiting
      BY DEF Waiting
    <3> QED
      BY <2>3, <3>1 DEF UnlinkLock
  <2>4. CASE RecreateLock(r)
    BY <2>4 DEF RecreateLock, Waiting
  <2>5. CASE Release(r) \/ Crash(r)
    BY <2>5 DEF Release, Crash, Becomes
  <2>6. CASE Throws(r)
    BY <2>6 DEF Throws
  <2> QED
    BY <2>1, <2>2, <2>3, <2>4, <2>5, <2>6 DEF Unlocking
<1>3. \E t \in Locals : Becomes(r, t) /\ t.pc \notin Underway /\ t.dry \in {FALSE, s.dry}
  <2>1. ASSUME NEW p \in Waiting \cup {"start", "release"}, GoTo(r, p)
        PROVE  \E t \in Locals : Becomes(r, t) /\ t.pc \notin Underway /\ t.dry \in {FALSE, s.dry}
    <3> DEFINE t == [s EXCEPT !.pc = p]
    <3>1. t \in Locals
      BY <1>1, PcType DEF Pc
    <3>2. t.pc = p /\ t.dry = s.dry
      BY <1>1 DEF Locals
    <3>3. p \notin Underway
      BY DEF Underway, Loops, Steps, Waiting
    <3>4. Becomes(r, t)
      BY <2>1 DEF GoTo, Becomes
    <3> QED
      BY <3>1, <3>2, <3>3, <3>4
  <2>2. Idle.pc \notin Underway /\ Idle.dry = FALSE
    BY DEF Idle, Underway, Loops, Steps
  <2> QED
    BY <1>2, <2>1, <2>2, IdleType
<1>4. lock' \in Locks
  <2>1. lock' = lock \/ lock' = Unlocked \/ lock' = [holder |-> r, old |-> FALSE]
    BY DEF Unlocking, CreateLock, StatLock, UnlinkLock, RecreateLock, Release, Throws, Crash
  <2>2. [holder |-> r, old |-> FALSE] \in Locks /\ Unlocked \in Locks /\ lock \in Locks
    BY DEF Locks, Unlocked, TypeOK
  <2> QED
    BY <2>1, <2>2
<1>5. faults' \in Nat
  BY DEF TypeOK, Unlocking, CreateLock, StatLock, UnlinkLock, RecreateLock, Release, Throws,
         Crash
<1>6. UNCHANGED <<mailVars, fileVars, tasks>>
  BY DEF Unlocking, CreateLock, StatLock, UnlinkLock, RecreateLock, Release, Throws, Crash
<1> QED
  BY <1>3, <1>4, <1>5, <1>6

LEMMA InitInv == Init => ScanInv
<1> SUFFICES ASSUME Init PROVE ScanInv
  OBVIOUS
<1>1. TypeOK
  BY InitTypeOK
<1>2. \A m \in Mails : received[m] = 0 /\ pending[m] = 0 /\ rows[m] = <<>>
  BY DEF Init, NoMail
<1>3. \A r \in Runners : ~Reading(scan[r])
  BY DEF Init, Idle, Reading, Underway, Loops, Steps
<1>4. Clock
  BY <1>2 DEF Init, Clock, Resolved
<1>5. MailConserved
  BY <1>2 DEF MailConserved
<1>6. OneVerdict
  <2>1. Len(<<>>) = 0
    OBVIOUS
  <2> QED
    BY <1>2, <2>1 DEF OneVerdict
<1> QED
  BY <1>1, <1>3, <1>4, <1>5, <1>6 DEF ScanInv

LEMMA NextInv ==
    ASSUME ScanInv, OneScanAtATime, [Next]_vars
    PROVE  ScanInv'
<1>1. TypeOK
  BY DEF ScanInv
<1>2. ASSUME NEW m \in Mails, Receive(m)
      PROVE  ScanInv'
  BY <1>2, ReceiveInv
<1>3. ASSUME NEW r \in Runners, Unlocking(r)
      PROVE  ScanInv'
  <2>1. PICK t \in Locals : Becomes(r, t) /\ t.pc \notin Underway
    BY <1>1, <1>3, UnlockingMoves
  <2>2. TypeOK'
    BY <1>1, <1>3, <2>1, Becoming, UnlockingMoves DEF TypeOK, mailVars, fileVars
  <2>3. \A q \in Runners : Reading(scan'[q]) => scan'[q] = scan[q]
    BY <1>1, <2>1, Becoming DEF Reading
  <2> QED
    BY <1>1, <1>3, <2>2, <2>3, UnlockingMoves, QuietInv
<1>4. ASSUME NEW r \in Runners, Step(r)
      PROVE  ScanInv'
  BY <1>3, <1>4, StartInv, ListInv, GatherInv, LoopInv, SavePendingInv, SaveProgressInv
  DEF Step, Loop, Unlocking
<1>5. CASE Ages \/ UNCHANGED vars
  <2>1. lock' \in Locks
    BY <1>1, <1>5 DEF Ages, vars, TypeOK, Locks
  <2>2. UNCHANGED <<mailVars, fileVars, tasks, scan, faults>>
    BY <1>5 DEF Ages, vars
  <2>3. TypeOK'
    BY <1>1, <2>1, <2>2 DEF TypeOK, mailVars, fileVars
  <2> QED
    BY <2>2, <2>3, QuietInv
<1> QED
  BY <1>2, <1>3, <1>4, <1>5 DEF Next, Unlocking

-----------------------------------------------------------------------------
(* The files: what holds as long as one process scans at a time.  LockHolds
   below says when the lock sees to that. *)

\* The inductive invariant of the scans: what a scan read is still what the files
\* say, and every mail it gathered has a row, is still to be decided, or failed.
THEOREM ScanInvariance == Spec /\ []OneScanAtATime => []ScanInv
<1>1. Init => ScanInv
  BY InitInv
<1>2. ScanInv /\ OneScanAtATime /\ [Next]_vars => ScanInv'
  BY NextInv
<1> QED
  BY <1>1, <1>2, PTL DEF Spec

\* No mail that reached an inbox is forgotten, whatever crashes, throws or fails:
\* the end of runScan writes the rows, then the pending file, then the cursor.
THEOREM NoMailForgotten == Spec /\ []OneScanAtATime => []MailConserved
<1>1. ScanInv => MailConserved
  BY DEF ScanInv
<1> QED
  BY <1>1, ScanInvariance, PTL

\* No scan decides a mail that an earlier one decided, but for one it gave up on.
THEOREM VerdictsAreFinal == Spec /\ []OneScanAtATime => []OneVerdict
<1>1. ScanInv => OneVerdict
  BY DEF ScanInv
<1> QED
  BY <1>1, ScanInvariance, PTL

\* Decisive rows are never taken back, and only Receive moves the clock.
LEMMA RowsStay ==
    ASSUME ScanInv, [Next]_vars, ~(\E n \in Mails : Receive(n))
    PROVE  /\ received' = received
           /\ \A m \in Mails : Resolved(m) => Resolved(m)'
<1>1. TypeOK
  BY DEF ScanInv
<1>2. ASSUME NEW r \in Runners, Loop(r)
      PROVE  received' = received /\ \A m \in Mails : Resolved(m) => Resolved(m)'
  <2>1. Reading(scan[r])
    BY <1>2
    DEF Loop, Rule, RulesDone, Classify, ClassifyDone, FindTask, CreateTask, RecordTask,
        At, Reading, Underway, Loops, Steps
  <2>2. Apart(scan[r]) /\ Owed(scan[r]) \subseteq Mails
    BY <1>1, <2>1 DEF ScanInv, Sound, Owed, InHand, TypeOK, Locals
  <2>3. PICK t \in Locals : LoopStep(scan[r], t)
    BY <1>1, <1>2, <2>2, LoopMoves
  <2>4. rows' = rows \/ \E m \in Mails, v \in Verdicts : Decide(m, v)
    BY <2>2, <2>3 DEF LoopStep
  <2>5. \A m \in Mails : Resolved(m) => Resolved(m)'
    BY <1>1, <2>4, RowType DEF Resolved
  <2> QED
    BY <1>1, <1>2, <2>2, <2>5, LoopMoves DEF mailVars
<1>3. ASSUME NEW r \in Runners, Start(r)
      PROVE  received' = received /\ \A m \in Mails : Resolved(m) => Resolved(m)'
  <2>1. \E G \in SUBSET Mails : /\ \A m \in G : rows[m] = <<>>
                                /\ rows' = [m \in Mails |-> IF m \in G
                                     THEN Append(rows[m], "gave_up") ELSE rows[m]]
    BY <1>3 DEF Start, Exhausted, Resolved
  <2> QED
    BY <1>3, <2>1 DEF Start, mailVars, Resolved
<1>4. ASSUME NEW r \in Runners, Unlocking(r)
      PROVE  received' = received /\ rows' = rows
  BY <1>1, <1>4, UnlockingMoves DEF mailVars, fileVars
<1>5. ASSUME NEW r \in Runners,
             ListAccount(r) \/ Gather(r) \/ SavePending(r) \/ SaveProgress(r)
      PROVE  received' = received /\ rows' = rows
  BY <1>5 DEF ListAccount, Gather, SavePending, SaveProgress, mailVars, fileVars
<1>6. CASE Ages \/ UNCHANGED vars
  BY <1>6 DEF Ages, vars, mailVars, fileVars, Resolved
<1> QED
  BY <1>2, <1>3, <1>4, <1>5, <1>6 DEF Next, Step, Loop, Unlocking, Resolved

\* While no mail is forgotten, the open ones are those without a row.
OpenMails    == {m \in Mails : received[m] > 0 /\ ~Resolved(m)}
SettledMails == {m \in Mails : Resolved(m)}

LEMMA DrainInit == Init => Drain!Init
<1>1. Init => \A m \in Mails : received[m] = 0 /\ rows[m] = <<>>
  BY DEF Init, NoMail
<1> QED
  BY <1>1 DEF Drain!Init, Resolved

LEMMA DrainStep ==
    ASSUME ScanInv, ScanInv', [Next]_vars
    PROVE  [Drain!Next]_(Drain!vars)
<1> DEFINE open == {m \in Mails : /\ received[m] > 0 /\ ~Resolved(m)
                                  /\ \/ pending[m] > 0
                                     \/ received[m] >= cursor[AccountOf[m]]}
           settled == {m \in Mails : Resolved(m)}
<1>1. /\ open = OpenMails /\ open' = OpenMails'
      /\ settled = SettledMails /\ settled' = SettledMails'
  BY DEF OpenMails, SettledMails, ScanInv, MailConserved, Resolved
<1>2. ASSUME NEW n \in Mails, Receive(n)
      PROVE  Drain!Arrive(n)
  <2>1. /\ n \notin OpenMails \cup SettledMails /\ OpenMails' = OpenMails \cup {n}
        /\ SettledMails' = SettledMails
    <3>1. received[n] = 0 /\ rows' = rows /\ rows[n] = <<>>
      BY <1>2 DEF Receive, fileVars, ScanInv, Clock, Resolved
    <3>2. \A m \in Mails : received'[m] > 0 <=> received[m] > 0 \/ m = n
      BY <1>2, <3>1 DEF Receive, ScanInv, Clock, TypeOK
    <3> QED
      BY <3>1, <3>2 DEF OpenMails, SettledMails, Resolved
  <2> HIDE DEF open, settled
  <2>2. /\ n \notin open \cup settled /\ open' = open \cup {n} /\ settled' = settled
    BY <1>1, <2>1
  <2> QED
    BY <2>2 DEF Drain!Arrive, open, settled
<1>3. ASSUME ~(\E n \in Mails : Receive(n))
      PROVE  Drain!Next \/ UNCHANGED Drain!vars
  <2>1. received' = received /\ \A m \in Mails : Resolved(m) => Resolved(m)'
    BY <1>3, RowsStay
  <2>2. PICK S \in SUBSET Mails : S = SettledMails' \ SettledMails
    BY DEF SettledMails
  <2>3. \A m \in Mails : Resolved(m)' => received[m] > 0
    BY <2>1 DEF ScanInv, Clock
  <2>4. /\ S \subseteq OpenMails /\ OpenMails' = OpenMails \ S
        /\ SettledMails' = SettledMails \cup S
    BY <2>1, <2>2, <2>3 DEF OpenMails, SettledMails, Resolved
  <2> HIDE DEF open, settled
  <2>5. S \subseteq open /\ open' = open \ S /\ settled' = settled \cup S
    BY <1>1, <2>4
  <2>6. CASE S = {}
    <3>1. open' = open /\ settled' = settled
      BY <2>5, <2>6
    <3> QED
      BY <3>1 DEF Drain!vars, open, settled
  <2>7. CASE S # {}
    <3>1. Drain!Settle(S)
      BY <2>5, <2>7 DEF Drain!Settle, open, settled
    <3> QED
      BY <3>1 DEF Drain!Next
  <2> QED
    BY <2>6, <2>7
<1> QED
  BY <1>2, <1>3 DEF Drain!Next

\* The scans implement what MailDrain promises but for its liveness: a mail is open
\* from its arrival to its verdict, and only a verdict takes it away.
THEOREM ScansDrain == Spec /\ []OneScanAtATime => Drain!Spec
<1>1. Init => Drain!Init
  BY DrainInit
<1>2. ScanInv /\ ScanInv' /\ [Next]_vars => [Drain!Next]_(Drain!vars)
  BY DrainStep
<1> QED
  BY <1>1, <1>2, ScanInvariance, PTL DEF Spec, Drain!Spec

-----------------------------------------------------------------------------
(* The To Do list *)

\* Where a step leads that neither looks a task up nor makes one.
LEMMA NoTaskMade ==
    ASSUME ScanInv, NEW r \in Runners, Step(r) \/ Throws(r) \/ Crash(r),
           ~FindTask(r), ~CreateTask(r)
    PROVE  /\ tasks' = tasks
           /\ \E t \in Locals :
                /\ Becomes(r, t) /\ t.pc \notin {"create", "record"}
                /\ t.dry \in DryRuns \cup {FALSE, scan[r].dry}
                /\ Looping(t) => \/ Looping(scan[r]) /\ t.hasList = scan[r].hasList
                                 \/ ~ListIdFaults => t.hasList
<1> DEFINE s == scan[r]
<1>1. TypeOK /\ s \in Locals
  BY DEF ScanInv, TypeOK
<1>2. CASE Unlocking(r)
  <2>1. PICK t \in Locals : Becomes(r, t) /\ t.pc \notin Underway /\ t.dry \in {FALSE, s.dry}
    BY <1>1, <1>2, UnlockingMoves
  <2> QED
    BY <1>1, <1>2, <2>1, UnlockingMoves DEF Underway, Loops, Steps, Looping
<1>3. CASE Loop(r)
  <2>1. s.pc \in Underway /\ s.pc \notin {"find", "create"}
    BY <1>3 DEF Loop, Rule, RulesDone, Classify, ClassifyDone, RecordTask, At, Underway,
                Loops, Steps
  <2>2. PICK t \in Locals : Becomes(r, t) /\ LoopStep(s, t)
    BY <1>1, <1>3, <2>1, ReadingSound, LoopMoves DEF Sound
  <2>3. tasks' = tasks
    BY <1>3 DEF Loop, Rule, RulesDone, Classify, ClassifyDone, RecordTask, fileVars
  <2> QED
    BY <2>1, <2>2, <2>3 DEF LoopStep, Looping
<1>4. CASE Start(r)
  BY <1>1, <1>4, StartMoves DEF Looping, Loops, Steps
<1>5. CASE ListAccount(r)
  BY <1>1, <1>5, ListMoves DEF Looping, Loops, Steps
<1>6. CASE Gather(r)
  BY <1>1, <1>6, GatherMoves
<1>7. CASE SavePending(r) \/ SaveProgress(r)
  <2>1. PICK p \in {"release", "save_progress"} : GoTo(r, p)
    BY <1>7 DEF SavePending, SaveProgress
  <2>2. /\ [s EXCEPT !.pc = p] \in Locals /\ [s EXCEPT !.pc = p].pc = p
        /\ [s EXCEPT !.pc = p].dry = s.dry
    BY <1>1, PcType DEF Pc, Locals
  <2>3. p \notin Loops \cup {"create", "record"}
    BY DEF Loops, Steps
  <2> QED
    BY <1>7, <2>1, <2>2, <2>3 DEF SavePending, SaveProgress, GoTo, Becomes, Looping
<1> QED
  BY <1>2, <1>3, <1>4, <1>5, <1>6, <1>7 DEF Step, Loop, Unlocking

\* The two steps that look a task up and make one, in the scan that is under way.
LEMMA FindMoves ==
    ASSUME ScanInv, NEW r \in Runners, FindTask(r)
    PROVE  /\ tasks' = tasks
           /\ \E t \in Locals, m \in Mails :
                /\ Becomes(r, t) /\ t.dry = scan[r].dry /\ t.hasList = scan[r].hasList
                /\ \/ /\ Decide(m, "task") /\ tasks[m] > 0
                      /\ t.pc \in {"rules", "classify"}
                   \/ /\ rows' = rows /\ t.pc = "create" /\ t.task = {m}
                      /\ ~LookupFaults => tasks[m] = 0
<1> DEFINE s == scan[r]
<1>1. TypeOK /\ s \in Locals /\ s.pc = "find" /\ Sound(s)
  <2>1. s.pc = "find"
    BY DEF FindTask, At
  <2> QED
    BY <2>1, ReadingSound DEF Underway, Loops, Steps
<1>2. PICK m \in Mails : s.task = {m}
  BY <1>1 DEF Sound, Apart, Steps
<1>3. tasks[m] \in Nat /\ LookupFaults \in BOOLEAN /\ s.loop \in {"rules", "classify"}
  BY <1>1, TriageAssumption DEF TypeOK, Locals
<1>4. \/ Decide(m, "task") /\ GoTo(r, s.loop) /\ tasks[m] > 0
      \/ GoTo(r, "create") /\ rows' = rows /\ (~LookupFaults => ~(tasks[m] > 0))
  BY <1>2, <1>3 DEF FindTask
<1>5. ASSUME NEW p \in {"rules", "classify", "create"}, GoTo(r, p)
      PROVE  \E t \in Locals : /\ Becomes(r, t) /\ t.dry = s.dry /\ t.hasList = s.hasList
                               /\ t.pc = p /\ t.task = s.task
  <2>1. [s EXCEPT !.pc = p] \in Locals
    BY <1>1, PcType DEF Pc, Steps
  <2> QED
    BY <1>1, <1>5, <2>1 DEF GoTo, Becomes, Locals
<1>6. tasks' = tasks
  BY DEF FindTask
<1>7. CASE Decide(m, "task") /\ GoTo(r, s.loop) /\ tasks[m] > 0
  BY <1>3, <1>5, <1>6, <1>7
<1>8. CASE GoTo(r, "create") /\ rows' = rows /\ (~LookupFaults => ~(tasks[m] > 0))
  BY <1>2, <1>3, <1>5, <1>6, <1>8
<1> QED
  BY <1>4, <1>7, <1>8

LEMMA CreateMoves ==
    ASSUME ScanInv, NEW r \in Runners, CreateTask(r)
    PROVE  /\ rows' = rows /\ scan[r].pc = "create"
           /\ \E t \in Locals, m \in Mails :
                /\ Becomes(r, t) /\ t.dry = scan[r].dry /\ t.hasList = scan[r].hasList
                /\ t.pc = "record" /\ t.task = {m} /\ scan[r].task = {m}
                /\ \/ tasks' = tasks /\ ~t.created
                   \/ tasks' = [tasks EXCEPT ![m] = @ + 1]
<1> DEFINE s == scan[r]
<1>1. TypeOK /\ s \in Locals /\ s.pc = "create" /\ Sound(s) /\ rows' = rows
  <2>1. s.pc = "create" /\ rows' = rows
    BY DEF CreateTask, At, fileVars
  <2> QED
    BY <2>1, ReadingSound DEF Underway, Loops, Steps
<1>2. PICK m \in Mails : s.task = {m}
  BY <1>1 DEF Sound, Apart, Steps
<1>3. PICK created \in BOOLEAN :
        /\ Becomes(r, [s EXCEPT !.pc = "record", !.created = created])
        /\ \/ tasks' = tasks /\ ~created
           \/ tasks' = [tasks EXCEPT ![m] = @ + 1]
  BY <1>2 DEF CreateTask, Becomes
<1>4. [s EXCEPT !.pc = "record", !.created = created] \in Locals
  BY <1>1 DEF Locals, Pc, Steps
<1> QED
  BY <1>1, <1>2, <1>3, <1>4 DEF Locals

LEMMA OneTaskStep ==
    ASSUME ~LookupFaults, ScanInv, OneScanAtATime, OneTaskInv, [Next]_vars
    PROVE  OneTaskInv'
<1>1. TypeOK
  BY DEF ScanInv
<1>2. ASSUME NEW r \in Runners, Step(r) \/ Throws(r) \/ Crash(r)
      PROVE  OneTaskInv'
  <2>1. CASE CreateTask(r)
    <3>1. PICK t \in Locals, m \in Mails :
            /\ Becomes(r, t) /\ t.pc = "record" /\ scan[r].task = {m}
            /\ tasks' = tasks \/ tasks' = [tasks EXCEPT ![m] = @ + 1]
      BY <2>1, CreateMoves
    <3>2. scan[r].pc = "create"
      BY <2>1, CreateMoves
    <3>3. tasks[m] = 0 /\ tasks \in [Mails -> Nat]
      BY <1>1, <3>1, <3>2 DEF OneTaskInv, Absent, TypeOK
    <3>4. AtMostOneTask'
      BY <3>1, <3>3 DEF OneTaskInv, AtMostOneTask
    <3>5. \A q \in Runners : scan'[q].pc # "create"
      <4>1. \A q \in Runners \ {r} : scan'[q] = scan[q] /\ scan[q].pc # "create"
        BY <1>1, <3>1, <3>2, Becoming DEF OneScanAtATime, Scanning, Waiting
      <4> QED
        BY <1>1, <3>1, <4>1, Becoming
    <3> QED
      BY <3>4, <3>5 DEF OneTaskInv, Absent
  <2>2. CASE FindTask(r)
    <3>1. PICK t \in Locals, m \in Mails :
            /\ Becomes(r, t)
            /\ t.pc = "create" => t.task = {m} /\ tasks[m] = 0
      BY <2>2, FindMoves
    <3>2. tasks' = tasks
      BY <2>2, FindMoves
    <3> QED
      BY <1>1, <3>1, <3>2, Becoming DEF OneTaskInv, Absent, AtMostOneTask
  <2>3. CASE ~CreateTask(r) /\ ~FindTask(r)
    <3>1. PICK t \in Locals : Becomes(r, t) /\ t.pc # "create"
      BY <1>2, <2>3, NoTaskMade
    <3>2. tasks' = tasks
      BY <1>2, <2>3, NoTaskMade
    <3> QED
      BY <1>1, <3>1, <3>2, Becoming DEF OneTaskInv, Absent, AtMostOneTask
  <2> QED
    BY <2>1, <2>2, <2>3
<1>3. CASE (\E m \in Mails : Receive(m)) \/ Ages \/ UNCHANGED vars
  BY <1>3 DEF Receive, Ages, vars, OneTaskInv, Absent, AtMostOneTask
<1> QED
  BY <1>2, <1>3 DEF Next

\* A mail gets one task at most, however often a scan dies, fails or loses the answer
\* of createTask: the audit marker finds the task an earlier scan made.
THEOREM OneTaskAtMost ==
    ~LookupFaults => (Spec /\ []OneScanAtATime => []AtMostOneTask)
<1> SUFFICES ASSUME ~LookupFaults
             PROVE  Spec /\ []OneScanAtATime => []AtMostOneTask
  OBVIOUS
<1>1. Init => OneTaskInv
  BY DEF Init, OneTaskInv, Absent, AtMostOneTask, Idle, NoMail
<1>2. ScanInv /\ OneScanAtATime /\ OneTaskInv /\ [Next]_vars => OneTaskInv'
  BY OneTaskStep
<1>3. OneTaskInv => AtMostOneTask
  BY DEF OneTaskInv
<1> QED
  BY <1>1, <1>2, <1>3, ScanInvariance, PTL DEF Spec

\* A row that claims no more than the To Do list shows.
LEMMA HonestRow ==
    ASSUME TypeOK, TaskBehindRow, tasks' = tasks, NEW m \in Mails, NEW v \in Verdicts,
           v = "task" => tasks[m] > 0, Decide(m, v)
    PROVE  TaskBehindRow'
<1>1. rows \in [Mails -> Seq(Verdicts)] /\ rows[m] \in Seq(Verdicts)
  BY DEF TypeOK
<1>2. rows'[m] = Append(rows[m], v) /\ \A n \in Mails \ {m} : rows'[n] = rows[n]
  BY <1>1 DEF Decide
<1>3. ASSUME NEW i \in DOMAIN rows'[m], rows'[m][i] = "task"
      PROVE  tasks[m] > 0
  <2>1. CASE i \in DOMAIN rows[m]
    <3>1. Append(rows[m], v)[i] = rows[m][i]
      BY <1>1, <2>1
    <3> QED
      BY <1>2, <1>3, <2>1, <3>1 DEF TaskBehindRow
  <2>2. CASE i \notin DOMAIN rows[m]
    <3>1. Append(rows[m], v)[i] = v
      BY <1>1, <1>2, <2>2
    <3> QED
      BY <1>2, <1>3, <3>1
  <2> QED
    BY <2>1, <2>2
<1> QED
  BY <1>2, <1>3 DEF TaskBehindRow

\* Without dry runs, and with a To Do list, a scan that makes no task and finds none
\* writes a row that claims one only when it was told the id of the task.
LEMMA PlainRows ==
    ASSUME ScanInv, ClaimInv, NEW r \in Runners, Step(r) \/ Throws(r) \/ Crash(r),
           ~FindTask(r), ~CreateTask(r)
    PROVE  TaskBehindRow'
<1> DEFINE s == scan[r]
<1>1. TypeOK /\ s \in Locals /\ TaskBehindRow /\ tasks' = tasks
  BY NoTaskMade DEF ScanInv, ClaimInv, TypeOK
<1>2. ~s.dry /\ (Looping(s) => s.hasList) /\ Made(s)
  BY DEF ClaimInv
<1>3. CASE rows' = rows
  BY <1>1, <1>3 DEF TaskBehindRow
<1>4. CASE Rule(r)
  <2>1. Looping(s)
    BY <1>4 DEF Rule, At, Looping, Loops
  <2>2. PICK m \in s.todo : rows' = rows \/ \E v \in {"override", "skip"} : Decide(m, v)
    BY <1>2, <1>4, <2>1 DEF Rule
  <2>3. m \in Mails
    BY <1>1, <2>2 DEF Locals
  <2> QED
    BY <1>1, <1>3, <2>2, <2>3, HonestRow DEF Verdicts
<1>5. CASE Classify(r)
  <2>1. PICK m \in s.todo : rows' = rows \/ Decide(m, "skip")
    BY <1>5 DEF Classify
  <2>2. m \in Mails
    BY <1>1, <2>1 DEF Locals
  <2> QED
    BY <1>1, <1>3, <2>1, <2>2, HonestRow DEF Verdicts
<1>6. CASE RecordTask(r)
  <2>1. PICK m \in s.task : rows' = rows \/ (s.created /\ Decide(m, "task"))
    BY <1>6 DEF RecordTask
  <2>2. m \in Mails /\ s.pc = "record"
    BY <1>1, <1>6, <2>1 DEF Locals, RecordTask, At
  <2>3. s.created => tasks[m] > 0
    BY <1>2, <2>1, <2>2 DEF Made
  <2> QED
    BY <1>1, <1>3, <2>1, <2>2, <2>3, HonestRow DEF Verdicts
<1>7. CASE Start(r)
  <2>1. \A m \in Mails : rows'[m] = rows[m] \/ rows'[m] = Append(rows[m], "gave_up")
    <3>1. PICK t \in Locals :
            rows' = [m \in Mails |-> IF t.mode # "compare" /\ m \in Exhausted
                                       THEN Append(rows[m], "gave_up") ELSE rows[m]]
      BY <1>1, <1>7, StartMoves
    <3> QED
      BY <3>1
  <2>2. ASSUME NEW m \in Mails, NEW i \in DOMAIN rows'[m], rows'[m][i] = "task"
        PROVE  tasks[m] > 0
    <3>1. CASE rows'[m] = rows[m]
      BY <1>1, <2>2, <3>1 DEF TaskBehindRow
    <3>2. CASE rows'[m] = Append(rows[m], "gave_up")
      <4>1. rows[m] \in Seq(Verdicts)
        BY <1>1 DEF TypeOK
      <4>2. i \in DOMAIN rows[m] /\ Append(rows[m], "gave_up")[i] = rows[m][i]
        BY <2>2, <3>2, <4>1
      <4> QED
        BY <1>1, <2>2, <3>2, <4>2 DEF TaskBehindRow
    <3> QED
      BY <2>1, <3>1, <3>2
  <2> QED
    BY <1>1, <2>2 DEF TaskBehindRow
<1>8. CASE Unlocking(r)
  BY <1>1, <1>3, <1>8, UnlockingMoves DEF fileVars
<1>9. CASE \/ ListAccount(r) \/ Gather(r) \/ RulesDone(r) \/ ClassifyDone(r)
           \/ SavePending(r) \/ SaveProgress(r)
  BY <1>3, <1>9 DEF ListAccount, Gather, RulesDone, ClassifyDone, SavePending, SaveProgress,
                    fileVars
<1> QED
  BY <1>4, <1>5, <1>6, <1>7, <1>8, <1>9 DEF Step, Unlocking

LEMMA ClaimStep ==
    ASSUME ~ListIdFaults, DryRuns \subseteq {FALSE}, ScanInv, ClaimInv, [Next]_vars
    PROVE  ClaimInv'
<1>1. TypeOK /\ scan \in [Runners -> Locals] /\ tasks \in [Mails -> Nat]
  BY DEF ScanInv, TypeOK
<1>2. ASSUME NEW r \in Runners, NEW t \in Locals, Becomes(r, t),
             t.dry \in DryRuns \cup {FALSE, scan[r].dry},
             Looping(t) => (Looping(scan[r]) /\ t.hasList = scan[r].hasList) \/ t.hasList,
             t.pc = "record" /\ t.created => \A m \in t.task : tasks'[m] > 0,
             \A m \in Mails : tasks'[m] >= tasks[m] /\ tasks'[m] \in Nat, TaskBehindRow'
      PROVE  ClaimInv'
  <2>1. scan'[r] = t /\ \A q \in Runners \ {r} : scan'[q] = scan[q]
    BY <1>1, <1>2, Becoming
  <2>2. ASSUME NEW q \in Runners
        PROVE  /\ Made(scan[q])'
               /\ ~scan'[q].dry
               /\ Looping(scan'[q]) => scan'[q].hasList
    <3>1. CASE q = r
      <4>1. scan[r].dry = FALSE
        BY <1>1 DEF ClaimInv, Locals
      <4>2. ~t.dry
        BY <1>2, <4>1
      <4>3. Looping(t) => t.hasList
        BY <1>2 DEF ClaimInv
      <4> QED
        BY <1>2, <2>1, <3>1, <4>2, <4>3 DEF Made
    <3>2. CASE q # r
      <4>1. scan'[q] = scan[q] /\ scan[q].task \subseteq Mails
        BY <1>1, <2>1, <3>2 DEF Locals
      <4> QED
        BY <1>1, <1>2, <4>1 DEF Made, ClaimInv
    <3> QED
      BY <3>1, <3>2
  <2>3. \A q \in Runners : Looping(scan[q])' <=> Looping(scan'[q])
    BY DEF Looping
  <2> QED
    BY <1>2, <2>2, <2>3 DEF ClaimInv
<1>3. ASSUME NEW r \in Runners, Step(r) \/ Throws(r) \/ Crash(r)
      PROVE  ClaimInv'
  <2>1. CASE CreateTask(r)
    <3>1. PICK t \in Locals, m \in Mails :
            /\ Becomes(r, t) /\ t.dry = scan[r].dry /\ t.hasList = scan[r].hasList
            /\ t.pc = "record" /\ t.task = {m}
            /\ (tasks' = tasks /\ ~t.created) \/ tasks' = [tasks EXCEPT ![m] = @ + 1]
      BY <2>1, CreateMoves
    <3>2. rows' = rows /\ scan[r].pc = "create"
      BY <2>1, CreateMoves
    <3>3. \A n \in Mails : tasks'[n] >= tasks[n] /\ tasks'[n] \in Nat
      BY <1>1, <3>1
    <3>4. t.created => tasks'[m] > 0
      BY <1>1, <3>1
    <3>5. TaskBehindRow'
      BY <1>1, <3>2, <3>3 DEF TaskBehindRow, ClaimInv
    <3>6. Looping(scan[r])
      BY <3>2 DEF Looping, Loops, Steps
    <3> QED
      BY <1>2, <3>1, <3>3, <3>4, <3>5, <3>6
  <2>2. CASE FindTask(r)
    <3>1. PICK t \in Locals, m \in Mails :
            /\ Becomes(r, t) /\ t.dry = scan[r].dry /\ t.hasList = scan[r].hasList
            /\ t.pc # "record"
            /\ (Decide(m, "task") /\ tasks[m] > 0) \/ rows' = rows
      BY <2>2, FindMoves
    <3>2. tasks' = tasks /\ Looping(scan[r])
      BY <2>2, FindMoves DEF FindTask, At, Looping, Loops, Steps
    <3>3. TaskBehindRow'
      BY <1>1, <3>1, <3>2, HonestRow DEF ClaimInv, Verdicts, TaskBehindRow
    <3>4. \A n \in Mails : tasks'[n] >= tasks[n] /\ tasks'[n] \in Nat
      BY <1>1, <3>2
    <3> QED
      BY <1>2, <3>1, <3>2, <3>3, <3>4
  <2>3. CASE ~CreateTask(r) /\ ~FindTask(r)
    <3>1. PICK t \in Locals :
            /\ Becomes(r, t) /\ t.pc # "record"
            /\ t.dry \in DryRuns \cup {FALSE, scan[r].dry}
            /\ Looping(t) => (Looping(scan[r]) /\ t.hasList = scan[r].hasList) \/ t.hasList
      BY <1>3, <2>3, NoTaskMade
    <3>2. tasks' = tasks /\ TaskBehindRow'
      BY <1>3, <2>3, NoTaskMade, PlainRows
    <3>3. \A n \in Mails : tasks'[n] >= tasks[n] /\ tasks'[n] \in Nat
      BY <1>1, <3>2
    <3> QED
      BY <1>2, <3>1, <3>2, <3>3
  <2> QED
    BY <2>1, <2>2, <2>3
<1>4. CASE (\E m \in Mails : Receive(m)) \/ Ages \/ UNCHANGED vars
  <2>1. rows' = rows /\ tasks' = tasks /\ scan' = scan
    BY <1>4 DEF Receive, Ages, vars, fileVars
  <2> QED
    BY <2>1 DEF ClaimInv, TaskBehindRow, Made, Looping
<1> QED
  BY <1>3, <1>4 DEF Next

\* With a marker lookup and a list lookup that answer, and no dry run, a mail gets one
\* task at most, and every row that claims a task is written after the task was made.
THEOREM TasksKept ==
    ~LookupFaults /\ ~ListIdFaults /\ DryRuns \subseteq {FALSE} =>
        (Spec /\ []OneScanAtATime => []TasksAreKept)
<1> SUFFICES ASSUME ~LookupFaults, ~ListIdFaults, DryRuns \subseteq {FALSE}
             PROVE  Spec /\ []OneScanAtATime => []TasksAreKept
  OBVIOUS
<1>1. Init => ClaimInv
  BY DEF Init, ClaimInv, Made, Looping, Loops, Steps, Idle, TaskBehindRow
<1>2. ScanInv /\ ClaimInv /\ [Next]_vars => ClaimInv'
  BY ClaimStep
<1>3. AtMostOneTask /\ ClaimInv => TasksAreKept
  BY DEF ClaimInv, TasksAreKept
<1>4. Spec /\ []OneScanAtATime => []AtMostOneTask
  BY OneTaskAtMost
<1> QED
  BY <1>1, <1>2, <1>3, <1>4, ScanInvariance, PTL DEF Spec

-----------------------------------------------------------------------------
(* The types, whoever holds the lock *)

LEMMA LoopTypes ==
    ASSUME TypeOK, NEW r \in Runners, Loop(r)
    PROVE  /\ \E t \in Locals : /\ Becomes(r, t) /\ t.pc \in Loops \cup {"save_pending"}
                                /\ Strays(t) => Strays(scan[r])
           /\ rows' \in [Mails -> Seq(Verdicts)] /\ tasks' \in [Mails -> Nat]
           /\ scan[r].pc \in Loops
           /\ UNCHANGED <<mailVars, lock, pending, cursor, faults>>
<1> DEFINE s == scan[r]
           Goes == \E t \in Locals : /\ Becomes(r, t) /\ t.pc \in Loops \cup {"save_pending"}
                                     /\ Strays(t) => Strays(s)
<1>1. /\ s \in Locals /\ s.loop \in {"rules", "classify"}
      /\ rows \in [Mails -> Seq(Verdicts)] /\ tasks \in [Mails -> Nat]
  BY DEF TypeOK, Locals
<1>2. ASSUME NEW m \in Mails, NEW v \in Verdicts, Decide(m, v)
      PROVE  rows' \in [Mails -> Seq(Verdicts)]
  BY <1>2, RowType
<1>3. ASSUME NEW p \in Loops \cup {"save_pending"}, GoTo(r, p),
             p \in Steps => s.pc \in Steps
      PROVE  Goes
  <2> DEFINE t == [s EXCEPT !.pc = p]
  <2>1. t \in Locals
    BY <1>1, PcType DEF Pc, Loops
  <2>2. t.pc = p /\ t.dry = s.dry /\ Becomes(r, t)
    BY <1>1, <1>3 DEF GoTo, Becomes, Locals
  <2> HIDE DEF t
  <2>3. Strays(t) => Strays(s)
    BY <1>3, <2>2 DEF Strays, Loops, Steps
  <2> QED
    BY <1>3, <2>1, <2>2, <2>3
<1>4. /\ s.pc \in Loops
      /\ UNCHANGED <<mailVars, lock, pending, cursor, faults>>
  BY DEF Loop, Rule, RulesDone, Classify, ClassifyDone, FindTask, CreateTask,
         RecordTask, fileVars, At, Loops, Steps
<1>5. CASE Rule(r)
  <2>1. PICK m \in s.todo :
          \/ Becomes(r, Past(r, m)) /\ \E v \in {"override", "skip", "task"} : Decide(m, v)
          \/ rows' = rows /\ Becomes(r, [Past(r, m) EXCEPT !.cands = @ \cup {m}])
          \/ rows' = rows /\ Becomes(r, [Past(r, m) EXCEPT
               !.pc = "find", !.task = {m}, !.loop = "rules"]) /\ ~s.dry
    BY <1>5 DEF Rule, Becomes
  <2>2. m \in Mails /\ s.pc = "rules" /\ Past(r, m) = [s EXCEPT !.todo = s.todo \ {m}]
    BY <1>1, <1>5, PastIs DEF Locals, Rule, At
  <2> DEFINE past == [s EXCEPT !.todo = s.todo \ {m}]
             kept == [s EXCEPT !.todo = s.todo \ {m}, !.cands = s.cands \cup {m}]
             made == [s EXCEPT !.todo = s.todo \ {m}, !.pc = "find", !.task = {m},
                               !.loop = "rules"]
  <2>3. /\ past \in Locals /\ past.pc = "rules"
        /\ kept \in Locals /\ kept.pc = "rules"
        /\ made \in Locals /\ made.pc = "find" /\ made.dry = s.dry
    BY <1>1, <2>2 DEF Locals, Pc, Steps
  <2>4. Goes
    <3>1. Becomes(r, past) \/ Becomes(r, kept) \/ (Becomes(r, made) /\ ~s.dry)
      BY <1>1, <2>1, <2>2 DEF Locals
    <3> HIDE DEF past, kept, made
    <3> QED
      BY <2>3, <3>1 DEF Loops, Steps, Strays
  <2>5. rows' \in [Mails -> Seq(Verdicts)]
    BY <1>1, <1>2, <2>1, <2>2 DEF Verdicts
  <2> QED
    BY <1>1, <1>4, <1>5, <2>4, <2>5 DEF Rule
<1>6. CASE RulesDone(r)
  <2> DEFINE p == IF s.cands = {} THEN "save_pending" ELSE "classify"
  <2>1. p \in {"save_pending", "classify"}
    OBVIOUS
  <2>2. Becomes(r, [s EXCEPT !.pc = p, !.todo = s.cands])
    BY <1>1, <1>6 DEF RulesDone, Becomes
  <2> HIDE DEF p
  <2>3. /\ [s EXCEPT !.pc = p, !.todo = s.cands] \in Locals
        /\ [s EXCEPT !.pc = p, !.todo = s.cands].pc = p
    BY <1>1, <2>1 DEF Locals, Pc
  <2> QED
    BY <1>1, <1>4, <1>6, <2>1, <2>2, <2>3 DEF RulesDone, fileVars, Loops, Steps, Strays
<1>7. CASE Classify(r)
  <2>1. PICK m \in s.todo :
          /\ rows' = rows \/ Decide(m, "skip")
          /\ \/ Becomes(r, [Past(r, m) EXCEPT !.failed = @ \cup {m}])
             \/ Becomes(r, Past(r, m))
             \/ Becomes(r, [Past(r, m) EXCEPT
                  !.pc = "find", !.task = {m}, !.loop = "classify"]) /\ ~s.dry
    BY <1>7 DEF Classify, Becomes
  <2>2. m \in Mails /\ s.pc = "classify" /\ Past(r, m) = [s EXCEPT !.todo = s.todo \ {m}]
    BY <1>1, <1>7, PastIs DEF Locals, Classify, At
  <2> DEFINE past == [s EXCEPT !.todo = s.todo \ {m}]
             kept == [s EXCEPT !.todo = s.todo \ {m}, !.failed = s.failed \cup {m}]
             made == [s EXCEPT !.todo = s.todo \ {m}, !.pc = "find", !.task = {m},
                               !.loop = "classify"]
  <2>3. /\ past \in Locals /\ past.pc = "classify"
        /\ kept \in Locals /\ kept.pc = "classify"
        /\ made \in Locals /\ made.pc = "find" /\ made.dry = s.dry
    BY <1>1, <2>2 DEF Locals, Pc, Steps
  <2>4. Goes
    <3>1. Becomes(r, past) \/ Becomes(r, kept) \/ (Becomes(r, made) /\ ~s.dry)
      BY <1>1, <2>1, <2>2 DEF Locals
    <3> HIDE DEF past, kept, made
    <3> QED
      BY <2>3, <3>1 DEF Loops, Steps, Strays
  <2>5. rows' \in [Mails -> Seq(Verdicts)]
    BY <1>1, <1>2, <2>1, <2>2 DEF Verdicts
  <2> QED
    BY <1>1, <1>4, <1>7, <2>4, <2>5 DEF Classify
<1>8. CASE ClassifyDone(r)
  BY <1>1, <1>3, <1>4, <1>8 DEF ClassifyDone, fileVars, Steps
<1>9. CASE FindTask(r)
  <2>1. PICK m \in s.task, p \in {"create", "rules", "classify"} :
          GoTo(r, p) /\ (rows' = rows \/ Decide(m, "task"))
    BY <1>1, <1>9 DEF FindTask
  <2>2. m \in Mails
    BY <1>1, <2>1 DEF Locals
  <2>3. s.pc \in Steps /\ "task" \in Verdicts
    BY <1>9 DEF FindTask, At, Steps, Verdicts
  <2>4. Goes
    BY <1>3, <2>1, <2>3 DEF Loops, Steps
  <2>5. rows' \in [Mails -> Seq(Verdicts)]
    BY <1>1, <1>2, <2>1, <2>2, <2>3
  <2> QED
    BY <1>1, <1>4, <1>9, <2>4, <2>5 DEF FindTask
<1>10. CASE CreateTask(r)
  <2>1. PICK m \in s.task, created \in BOOLEAN :
          /\ Becomes(r, [s EXCEPT !.pc = "record", !.created = created])
          /\ tasks' = tasks \/ tasks' = [tasks EXCEPT ![m] = @ + 1]
    BY <1>10 DEF CreateTask, Becomes
  <2>2. m \in Mails
    BY <1>1, <2>1 DEF Locals
  <2> DEFINE t == [s EXCEPT !.pc = "record", !.created = created]
  <2>3. t \in Locals /\ t.pc = "record" /\ t.dry = s.dry /\ s.pc = "create"
    BY <1>1, <1>10 DEF Locals, Pc, Steps, CreateTask, At
  <2>4. tasks' \in [Mails -> Nat]
    BY <1>1, <2>1, <2>2
  <2>5. Becomes(r, t)
    BY <2>1
  <2> HIDE DEF t
  <2>6. Goes
    BY <2>3, <2>5 DEF Loops, Steps, Strays
  <2> QED
    BY <1>1, <1>4, <1>10, <2>4, <2>6 DEF CreateTask, fileVars
<1>11. CASE RecordTask(r)
  <2>1. PICK m \in s.task, cands \in SUBSET Mails, failed \in SUBSET Mails :
          /\ Becomes(r, [s EXCEPT !.pc = s.loop, !.cands = cands, !.failed = failed])
          /\ rows' = rows \/ Decide(m, "task")
    <3>1. PICK m \in s.task :
            \/ Decide(m, "task") /\ GoTo(r, s.loop)
            \/ /\ rows' = rows
               /\ scan' = [scan EXCEPT
                    ![r].pc = s.loop,
                    ![r].cands = IF s.loop = "rules" THEN @ \cup {m} ELSE @,
                    ![r].failed = IF s.loop = "classify" THEN @ \cup {m} ELSE @]
      BY <1>11 DEF RecordTask
    <3>2. /\ m \in Mails /\ s.cands \subseteq Mails /\ s.failed \subseteq Mails
          /\ [s EXCEPT !.pc = s.loop]
               = [s EXCEPT !.pc = s.loop, !.cands = s.cands, !.failed = s.failed]
      BY <1>1, <3>1 DEF Locals
    <3>3. CASE Decide(m, "task") /\ GoTo(r, s.loop)
      BY <3>1, <3>2, <3>3 DEF GoTo, Becomes
    <3>4. CASE ~(Decide(m, "task") /\ GoTo(r, s.loop))
      <4> DEFINE c == IF s.loop = "rules" THEN s.cands \cup {m} ELSE s.cands
                 f == IF s.loop = "classify" THEN s.failed \cup {m} ELSE s.failed
      <4>1. c \in SUBSET Mails /\ f \in SUBSET Mails
        BY <3>2
      <4>2. Becomes(r, [s EXCEPT !.pc = s.loop, !.cands = c, !.failed = f]) /\ rows' = rows
        BY <3>1, <3>4 DEF Becomes
      <4> HIDE DEF c, f
      <4> QED
        BY <4>1, <4>2
    <3> QED
      BY <3>3, <3>4
  <2>2. m \in Mails
    BY <1>1, <2>1 DEF Locals
  <2>3. /\ [s EXCEPT !.pc = s.loop, !.cands = cands, !.failed = failed] \in Locals
        /\ [s EXCEPT !.pc = s.loop, !.cands = cands, !.failed = failed].pc = s.loop
    BY <1>1 DEF Locals, Pc
  <2>4. Goes
    BY <1>1, <2>1, <2>3 DEF Loops, Strays, Steps
  <2>5. rows' \in [Mails -> Seq(Verdicts)]
    BY <1>1, <1>2, <2>1, <2>2 DEF Verdicts
  <2> QED
    BY <1>1, <1>4, <1>11, <2>4, <2>5 DEF RecordTask
<1> QED
  BY <1>5, <1>6, <1>7, <1>8, <1>9, <1>10, <1>11 DEF Loop

Heard == \A m \in Mails : received[m] <= now

\* The steps of a scan that has the lock, but for the ones that end it.
LEMMA WorkMoves ==
    ASSUME TypeOK, Heard, NEW r \in Runners, Step(r), ~Unlocking(r)
    PROVE  /\ TypeOK'
           /\ UNCHANGED <<now, received, lock>>
           /\ Scanning(r)
           /\ \E t \in Locals : /\ Becomes(r, t) /\ t.pc \notin Waiting
                                /\ Strays(t) => Strays(scan[r])
<1> DEFINE s == scan[r]
           Goes == \E t \in Locals : /\ Becomes(r, t) /\ t.pc \notin Waiting
                                     /\ Strays(t) => Strays(s)
<1>1. s \in Locals /\ MaxAttempts \in Nat \ {0}
  BY TriageAssumption DEF TypeOK
<1>2. Goes => scan' \in [Runners -> Locals]
  BY Becoming
<1>3. ASSUME NEW p \in {"release", "save_progress"}, GoTo(r, p), s.dry => p = "release"
      PROVE  Goes
  <2>1. [s EXCEPT !.pc = p] \in Locals
    BY <1>1, PcType DEF Pc
  <2> QED
    BY <1>1, <1>3, <2>1 DEF GoTo, Becomes, Locals, Waiting, Strays, Steps
<1>4. CASE Loop(r)
  <2>1. Goes
    BY <1>4, LoopTypes DEF Loops, Steps, Waiting
  <2>2. Scanning(r)
    BY <1>4, LoopTypes DEF Loops, Steps, Waiting, Scanning
  <2> QED
    BY <1>2, <1>4, <2>1, <2>2, LoopTypes DEF TypeOK, mailVars
<1>5. CASE Start(r)
  <2>1. PICK t \in Locals :
          /\ Becomes(r, t) /\ t.pc = "list"
          /\ rows' = [m \in Mails |->
               IF t.mode # "compare" /\ m \in Exhausted
                 THEN Append(rows[m], "gave_up") ELSE rows[m]]
    BY <1>5, StartMoves
  <2>2. \A m \in Mails : Append(rows[m], "gave_up") \in Seq(Verdicts)
    BY DEF TypeOK, Verdicts
  <2>3. rows' \in [Mails -> Seq(Verdicts)]
    BY <2>1, <2>2 DEF TypeOK
  <2>4. Goes /\ Scanning(r)
    BY <1>5, <2>1 DEF Waiting, Start, At, Scanning, Strays, Steps
  <2> QED
    BY <1>2, <1>5, <2>3, <2>4, StartMoves DEF TypeOK
<1>6. CASE ListAccount(r)
  <2>1. Goes /\ Scanning(r)
    BY <1>6, ListMoves DEF Waiting, Scanning, Strays, Steps
  <2>2. faults' \in Nat
    BY <1>6 DEF ListAccount, TypeOK
  <2> QED
    BY <1>2, <1>6, <2>1, <2>2, ListMoves DEF TypeOK
<1>7. CASE Gather(r)
  <2>1. PICK t \in Locals : Becomes(r, t) /\ t.pc \in {"release", "save_pending", "rules"}
    BY <1>7, GatherMoves
  <2>2. Goes /\ Scanning(r)
    BY <1>7, <2>1, GatherMoves DEF Waiting, Scanning, Strays, Steps
  <2> QED
    BY <1>2, <1>7, <2>2, GatherMoves DEF TypeOK
<1>8. CASE SavePending(r)
  <2>1. Goes /\ Scanning(r)
    <3>1. PICK p \in {"release", "save_progress"} : GoTo(r, p) /\ (s.dry => p = "release")
      BY <1>8 DEF SavePending
    <3> QED
      BY <1>3, <1>8, <3>1 DEF SavePending, At, Scanning, Waiting
  <2>2. s.carryover \in [Mails -> 0 .. MaxAttempts - 1]
    BY <1>1 DEF Locals
  <2>3. Retries(s) \in [Mails -> 0 .. MaxAttempts]
    BY <1>1, <2>2 DEF Retries
  <2>4. pending' \in [Mails -> 0 .. MaxAttempts]
    BY <1>8, <2>3 DEF SavePending, TypeOK
  <2> QED
    BY <1>2, <1>8, <2>1, <2>4 DEF SavePending, TypeOK, mailVars
<1>9. CASE SaveProgress(r)
  <2>1. Goes /\ Scanning(r)
    BY <1>3, <1>9 DEF SaveProgress, At, Scanning, Waiting
  <2>2. s.listed \subseteq Mails /\ s.started \in Nat /\ s.since \in [Accounts -> Nat]
    BY <1>1 DEF Locals
  <2>3. \A a \in Accounts : Latest(s, a) \in Nat
    BY <2>2, LatestIs DEF Heard, TypeOK
  <2>4. Advanced(s) \in [Accounts -> Nat]
    BY <2>2, <2>3 DEF Advanced
  <2> QED
    BY <1>2, <1>9, <2>1, <2>4 DEF SaveProgress, TypeOK, mailVars
<1> QED
  BY <1>4, <1>5, <1>6, <1>7, <1>8, <1>9 DEF Step, Loop, Unlocking

LEMMA ScanTypes ==
    ASSUME TypeOK, Heard, [Next]_vars
    PROVE  (TypeOK /\ Heard)'
<1>1. ASSUME NEW m \in Mails, Receive(m)
      PROVE  (TypeOK /\ Heard)'
  <2>1. /\ now' \in Nat /\ now <= now' /\ received' = [received EXCEPT ![m] = now']
        /\ UNCHANGED <<lock, rows, pending, cursor, tasks, scan, faults>>
    BY <1>1 DEF Receive, TypeOK, fileVars
  <2>2. received' \in [Mails -> Nat] /\ \A n \in Mails : received'[n] \in {received[n], now'}
    BY <2>1 DEF TypeOK
  <2>3. Heard'
    BY <2>1, <2>2 DEF Heard, TypeOK
  <2> QED
    BY <2>1, <2>2, <2>3 DEF TypeOK
<1>2. ASSUME NEW r \in Runners, Unlocking(r)
      PROVE  (TypeOK /\ Heard)'
  <2>1. PICK t \in Locals : Becomes(r, t)
    BY <1>2, UnlockingMoves
  <2> QED
    BY <1>2, <2>1, Becoming, UnlockingMoves DEF TypeOK, Heard, mailVars, fileVars
<1>3. ASSUME NEW r \in Runners, Step(r), ~Unlocking(r)
      PROVE  (TypeOK /\ Heard)'
  BY <1>3, WorkMoves DEF Heard
<1>4. CASE Ages \/ UNCHANGED vars
  <2>1. lock' \in Locks
    BY <1>4 DEF Ages, vars, TypeOK, Locks
  <2> QED
    BY <1>4, <2>1 DEF TypeOK, Heard, Ages, vars, mailVars, fileVars
<1> QED
  BY <1>1, <1>2, <1>3, <1>4 DEF Next, Unlocking

\* The variables keep their types, whatever the agent's sessions do to the lock.
LEMMA SessionTypes ==
    ASSUME AgentTypeOK, Heard, [AgentNext]_allVars
    PROVE  (AgentTypeOK /\ Heard)'
<1>1. /\ TypeOK /\ call \in Session /\ active \in Session
      /\ Agent \in Others /\ NoSession \in Session
  BY AgentAssumption DEF AgentTypeOK, NoSession, Session
<1>2. [holder |-> Agent, old |-> FALSE] \in Locks /\ Unlocked \in Locks
  BY <1>1 DEF Locks, Unlocked
<1>3. ASSUME UNCHANGED <<mailVars, scan>>, lock' \in Locks, faults' \in Nat,
             rows' \in [Mails -> Seq(Verdicts)], pending' \in [Mails -> 0 .. MaxAttempts],
             cursor' \in [Accounts -> Nat], tasks' \in [Mails -> Nat],
             call' \in Session, active' \in Session
      PROVE  (AgentTypeOK /\ Heard)'
  BY <1>1, <1>3 DEF AgentTypeOK, TypeOK, Heard, mailVars
<1>4. /\ lock \in Locks /\ faults \in Nat /\ rows \in [Mails -> Seq(Verdicts)]
      /\ pending \in [Mails -> 0 .. MaxAttempts] /\ cursor \in [Accounts -> Nat]
      /\ tasks \in [Mails -> Nat] /\ now \in Nat
  BY <1>1 DEF TypeOK
<1>5. ASSUME NEW m \in Mails, NEW v \in Verdicts, Decide(m, v)
      PROVE  rows' \in [Mails -> Seq(Verdicts)]
  BY <1>1, <1>5, RowType
<1>6. CASE ScanSteps \/ UNCHANGED allVars
  <2>1. (TypeOK /\ Heard)'
    BY <1>1, <1>6, ScanTypes DEF ScanSteps, allVars
  <2> QED
    BY <1>1, <1>6, <2>1 DEF AgentTypeOK, ScanSteps, allVars, agentVars
<1>7. CASE GetCandidates
  <2>1. PICK dry \in BOOLEAN, hasList \in BOOLEAN :
          call' = [NoSession EXCEPT
            !.pc = "list", !.dry = dry, !.hasList = hasList, !.since = cursor,
            !.started = now, !.left = Accounts,
            !.fresh = {m \in Mails : ~Resolved(m)}]
    BY <1>7, TriageAssumption DEF GetCandidates
  <2>2. call' \in Session
    BY <1>1, <1>4, <2>1 DEF Session
  <2> QED
    BY <1>1, <1>2, <1>3, <1>4, <1>7, <2>2 DEF GetCandidates, fileVars
<1>8. CASE AgentLists
  <2>1. PICK a \in call.left :
          \/ call' = [call EXCEPT !.left = @ \ {a}, !.completed = @ \cup {a},
                                  !.listed = @ \cup Listing(a, call.since[a])]
          \/ call' = [call EXCEPT !.left = @ \ {a}]
    BY <1>8 DEF AgentLists
  <2>2. a \in Accounts /\ Listing(a, call.since[a]) \subseteq Mails
    BY <1>1, <2>1 DEF Session, Listing
  <2>3. call' \in Session
    <3>1. CASE call' = [call EXCEPT !.left = @ \ {a}]
      BY <1>1, <3>1 DEF Session
    <3>2. CASE call' = [call EXCEPT !.left = @ \ {a}, !.completed = @ \cup {a},
                                    !.listed = @ \cup Listing(a, call.since[a])]
      BY <1>1, <2>2, <3>2 DEF Session
    <3> QED
      BY <2>1, <3>1, <3>2
  <2>4. faults' \in Nat
    BY <1>4, <1>8 DEF AgentLists
  <2> QED
    BY <1>1, <1>3, <1>4, <1>8, <2>3, <2>4 DEF AgentLists, fileVars
<1>9. CASE AgentListed
  <2>1. call' \in Session
    BY <1>1, <1>9 DEF AgentListed, Session
  <2> QED
    BY <1>1, <1>3, <1>4, <1>9, <2>1 DEF AgentListed, vars, fileVars
<1>10. CASE AgentRoutes
  <2>1. PICK m \in call.todo :
          /\ rows' = rows \/ \E v \in {"override", "skip", "task"} : Decide(m, v)
          /\ \/ call' = Routed(m)
             \/ call' = [Routed(m) EXCEPT !.cands = @ \cup {m}]
             \/ call' = [Routed(m) EXCEPT !.pc = "create", !.task = {m}]
    BY <1>10 DEF AgentRoutes
  <2>2. m \in Mails /\ call.todo \ {m} \subseteq Mails
    BY <1>1, <2>1 DEF Session
  <2>3. Routed(m) \in Session
    BY <1>1, <2>2 DEF Routed, Session
  <2>4. call' \in Session
    <3>1. [Routed(m) EXCEPT !.cands = @ \cup {m}] \in Session
      BY <2>2, <2>3 DEF Session
    <3>2. [Routed(m) EXCEPT !.pc = "create", !.task = {m}] \in Session
      BY <2>2, <2>3 DEF Session
    <3> QED
      BY <2>1, <2>3, <3>1, <3>2
  <2>5. rows' \in [Mails -> Seq(Verdicts)]
    BY <1>4, <1>5, <2>1, <2>2 DEF Verdicts
  <2> QED
    BY <1>1, <1>3, <1>4, <1>10, <2>4, <2>5 DEF AgentRoutes
<1>11. CASE AgentCreates
  <2>1. PICK m \in call.task, created \in BOOLEAN :
          /\ call' = [call EXCEPT !.pc = "record", !.created = created]
          /\ tasks' = tasks \/ tasks' = [tasks EXCEPT ![m] = @ + 1]
    BY <1>11 DEF AgentCreates
  <2>2. m \in Mails
    BY <1>1, <2>1 DEF Session
  <2>3. call' \in Session
    BY <1>1, <2>1 DEF Session
  <2>4. tasks' \in [Mails -> Nat]
    <3>1. tasks \in [Mails -> Nat] /\ tasks[m] + 1 \in Nat
      BY <1>4, <2>2
    <3> QED
      BY <2>1, <2>2, <3>1
  <2> QED
    BY <1>1, <1>3, <1>4, <1>11, <2>3, <2>4 DEF AgentCreates, fileVars
<1>12. CASE AgentRecords
  <2>1. PICK m \in call.task, v \in {"task", "skip"} : Decide(m, v)
    BY <1>12 DEF AgentRecords
  <2>2. m \in Mails
    BY <1>1, <2>1 DEF Session
  <2>3. rows' \in [Mails -> Seq(Verdicts)]
    BY <1>5, <2>1, <2>2 DEF Verdicts
  <2>4. call' \in Session
    BY <1>1, <1>12 DEF AgentRecords, Session
  <2> QED
    BY <1>1, <1>3, <1>4, <1>12, <2>3, <2>4 DEF AgentRecords
<1>13. CASE Publish
  <2>1. active' \in Session /\ call' \in Session
    BY <1>1, <1>13 DEF Publish, Session
  <2> QED
    BY <1>3, <1>4, <1>13, <2>1 DEF Publish, vars, fileVars
<1>14. CASE CallThrows \/ ServerDies
  BY <1>1, <1>2, <1>3, <1>4, <1>14 DEF CallThrows, ServerDies, fileVars
<1>15. ASSUME NEW m \in Mails, LogDecision(m)
       PROVE  (AgentTypeOK /\ Heard)'
  <2>1. rows' \in [Mails -> Seq(Verdicts)]
    BY <1>4, <1>5, <1>15 DEF LogDecision, Verdicts
  <2>2. active' \in Session
    BY <1>1, <1>15 DEF LogDecision, Session
  <2> QED
    BY <1>1, <1>3, <1>4, <1>15, <2>1, <2>2 DEF LogDecision
<1>16. CASE CompleteScan
  <2>1. Reported(active) \in [Mails -> 0 .. MaxAttempts]
    BY TriageAssumption DEF Reported
  <2>2. /\ active.listed \subseteq Mails /\ active.started \in Nat
        /\ active.since \in [Accounts -> Nat]
    BY <1>1 DEF Session
  <2>3. \A a \in Accounts : Latest(active, a) \in Nat
    BY <1>1, <2>2, LatestIs DEF Heard, TypeOK
  <2>4. Advanced(active) \in [Accounts -> Nat]
    BY <2>2, <2>3 DEF Advanced
  <2>5. pending' \in [Mails -> 0 .. MaxAttempts] /\ cursor' \in [Accounts -> Nat]
    BY <1>4, <1>16, <2>1, <2>4 DEF CompleteScan
  <2> QED
    BY <1>1, <1>2, <1>3, <1>4, <1>16, <2>5 DEF CompleteScan
<1>17. CASE AgentAges
  <2>1. lock' \in Locks
    BY <1>4, <1>17 DEF AgentAges, Locks
  <2> QED
    BY <1>1, <1>3, <1>4, <1>17, <2>1 DEF AgentAges, fileVars, agentVars
<1> QED
  BY <1>6, <1>7, <1>8, <1>9, <1>10, <1>11, <1>12, <1>13, <1>14, <1>15, <1>16, <1>17
  DEF AgentNext

\* Every variable of the scans and the sessions keeps its type, with any number of
\* holders of the lock: pending counts stay within MaxAttempts, cursors are times.
THEOREM SessionTyping == AgentSpec => []AgentTypeOK
<1>1. AgentInit => AgentTypeOK /\ Heard
  BY InitTypeOK DEF AgentInit, AgentTypeOK, Session, NoSession, Heard, Init, NoMail
<1>2. AgentTypeOK /\ Heard /\ [AgentNext]_allVars => (AgentTypeOK /\ Heard)'
  BY SessionTypes
<1> QED
  BY <1>1, <1>2, PTL DEF AgentSpec

-----------------------------------------------------------------------------
(* The lock *)

\* No process dies: what a scan or a session began it ends itself.
NobodyDies == ~(\E r \in Runners : Crash(r)) /\ ~ServerDies

\* While nobody dies, the lock belongs to the one scan or session there is.
LEMMA LockStep ==
    ASSUME ~SlowScans, TypeOK, Heard, LockInv, Next, ~(\E r \in Runners : Crash(r))
    PROVE  /\ LockInv'
           /\ lock.holder = Agent <=> lock'.holder = Agent
<1>1. /\ TypeOK /\ lock \in Locks /\ scan \in [Runners -> Locals]
      /\ Free \notin Runners /\ Free # Agent /\ Agent \notin Runners
  BY TriageAssumption, AgentAssumption DEF TypeOK
<1>2. ~lock.old /\ \A q \in Runners : /\ scan[q].pc \notin {"unlink", "recreate"}
                                      /\ Scanning(q) <=> lock.holder = q
  BY DEF LockInv
<1>3. ASSUME NEW r \in Runners, NEW t \in Locals, Becomes(r, t),
             t.pc \notin {"unlink", "recreate"}, ~lock'.old,
             \/ lock' = lock /\ (t.pc \in Waiting <=> scan[r].pc \in Waiting)
             \/ lock.holder = Free /\ lock'.holder = r /\ t.pc \notin Waiting
             \/ lock.holder = r /\ lock'.holder = Free /\ t.pc \in Waiting
      PROVE  LockInv' /\ (lock.holder = Agent <=> lock'.holder = Agent)
  <2>1. scan'[r] = t /\ \A q \in Runners \ {r} : scan'[q] = scan[q]
    BY <1>1, <1>3, Becoming
  <2>2. \A q \in Runners : Scanning(q)' <=> scan'[q].pc \notin Waiting
    BY DEF Scanning
  <2> QED
    BY <1>1, <1>2, <1>3, <2>1, <2>2 DEF LockInv, Scanning
<1>4. ASSUME NEW r \in Runners, Unlocking(r), ~Crash(r)
      PROVE  LockInv' /\ (lock.holder = Agent <=> lock'.holder = Agent)
  <2> DEFINE s == scan[r]
  <2>1. s \in Locals
    BY <1>1
  <2>2. ASSUME NEW p \in Pc, GoTo(r, p)
        PROVE  \E t \in Locals : Becomes(r, t) /\ t.pc = p
    <3>1. [s EXCEPT !.pc = p] \in Locals
      BY <2>1, PcType
    <3> QED
      BY <2>1, <2>2, <3>1 DEF GoTo, Becomes, Locals
  <2>3. CASE CreateLock(r)
    <3>1. s.pc = "idle"
      BY <2>3 DEF CreateLock, At
    <3>2. CASE lock.holder = Free
      BY <1>3, <2>2, <2>3, <3>2 DEF CreateLock, Pc, Waiting
    <3>3. CASE lock.holder # Free
      BY <1>2, <1>3, <2>2, <2>3, <3>1, <3>3 DEF CreateLock, Pc, Waiting
    <3> QED
      BY <3>2, <3>3
  <2>4. CASE StatLock(r)
    <3>1. GoTo(r, "idle") /\ lock' = lock /\ s.pc = "stat"
      BY <1>2, <2>4 DEF StatLock, At
    <3> QED
      BY <1>2, <1>3, <2>2, <3>1 DEF Pc, Waiting
  <2>5. CASE UnlinkLock(r) \/ RecreateLock(r)
    BY <1>2, <2>5 DEF UnlinkLock, RecreateLock, At
  <2>6. CASE Release(r)
    <3>1. Becomes(r, Idle) /\ lock' = Unlocked /\ lock.holder = r
      BY <1>2, <2>6 DEF Release, Becomes, At, Scanning, Waiting
    <3>2. Idle.pc = "idle" /\ Unlocked.holder = Free /\ ~Unlocked.old
      BY DEF Idle, Unlocked
    <3> QED
      BY <1>3, <3>1, <3>2, IdleType DEF Waiting
  <2>7. CASE Throws(r)
    <3>1. GoTo(r, "release") /\ lock' = lock /\ s.pc \notin Waiting
      BY <2>7 DEF Throws, Scanning
    <3> QED
      BY <1>2, <1>3, <2>2, <3>1 DEF Pc, Waiting
  <2> QED
    BY <1>4, <2>3, <2>4, <2>5, <2>6, <2>7 DEF Unlocking
<1>5. ASSUME NEW r \in Runners, Step(r), ~Unlocking(r)
      PROVE  LockInv' /\ (lock.holder = Agent <=> lock'.holder = Agent)
  <2>1. PICK t \in Locals : Becomes(r, t) /\ t.pc \notin Waiting
    BY <1>1, <1>5, WorkMoves
  <2>2. lock' = lock /\ scan[r].pc \notin Waiting
    BY <1>1, <1>5, WorkMoves DEF Scanning
  <2> QED
    BY <1>2, <1>3, <2>1, <2>2 DEF Waiting
<1>6. CASE \E m \in Mails : Receive(m)
  <2>1. lock' = lock /\ scan' = scan
    BY <1>6 DEF Receive
  <2> QED
    BY <2>1 DEF LockInv, Scanning
<1>7. ~Ages
  BY <1>1, <1>2 DEF Ages
<1> QED
  BY <1>4, <1>5, <1>6, <1>7 DEF Next, Unlocking

\* The same for a session, which has the lock from its first call to its last.
LEMMA SessionLockStep ==
    ASSUME ~SlowScans, ~SlowAgent, AgentTypeOK, Heard, SessionLock,
           [AgentNext /\ NobodyDies]_allVars
    PROVE  SessionLock'
<1>1. /\ TypeOK /\ lock \in Locks /\ call \in Session /\ active \in Session
      /\ Free # Agent /\ Agent \notin Runners
  BY TriageAssumption, AgentAssumption DEF AgentTypeOK, TypeOK
<1>2. /\ LockInv
      /\ call.pc # "off" \/ active.pc # "off" <=> lock.holder = Agent
      /\ call.pc = "off" \/ active.pc = "off"
  BY DEF SessionLock, Busy
<1>3. ASSUME scan' = scan, ~lock'.old,
             \/ lock'.holder = lock.holder
             \/ {lock.holder, lock'.holder} \subseteq {Free, Agent},
             call'.pc # "off" \/ active'.pc # "off" <=> lock'.holder = Agent,
             call'.pc = "off" \/ active'.pc = "off"
      PROVE  SessionLock'
  <2>1. \A q \in Runners : lock'.holder = q <=> lock.holder = q
    BY <1>1, <1>3, TriageAssumption
  <2> QED
    BY <1>2, <1>3, <2>1 DEF SessionLock, LockInv, Scanning, Busy
<1>4. CASE ScanSteps \/ UNCHANGED allVars
  <2>1. CASE UNCHANGED allVars
    BY <2>1 DEF SessionLock, LockInv, Scanning, Busy, allVars, agentVars, vars
  <2>2. CASE Next /\ UNCHANGED <<call, active>> /\ ~(UNCHANGED allVars)
    <3>1. LockInv' /\ (lock.holder = Agent <=> lock'.holder = Agent)
      BY <1>1, <1>2, <2>2, LockStep DEF NobodyDies
    <3> QED
      BY <1>2, <2>2, <3>1 DEF SessionLock, Busy
  <2> QED
    BY <1>4, <2>1, <2>2 DEF ScanSteps
<1>5. CASE GetCandidates
  <2>1. lock.holder = Free /\ lock' = [holder |-> Agent, old |-> FALSE] /\ scan' = scan
    BY <1>2, <1>5 DEF GetCandidates, LockInv
  <2>2. call'.pc = "list" /\ active' = active /\ active.pc = "off"
    BY <1>1, <1>2, <1>5, <2>1 DEF GetCandidates, NoSession
  <2> QED
    BY <1>1, <1>3, <2>1, <2>2
<1>6. CASE AgentLists \/ AgentListed \/ AgentRoutes \/ AgentCreates \/ AgentRecords
  <2>1. lock' = lock /\ scan' = scan /\ active' = active /\ call.pc # "off"
    BY <1>6 DEF AgentLists, AgentListed, AgentRoutes, AgentCreates, AgentRecords, vars
  <2>2. call'.pc # "off"
    BY <1>1, <1>6
    DEF AgentLists, AgentListed, AgentRoutes, AgentCreates, AgentRecords, Routed, Session
  <2> QED
    BY <1>2, <1>3, <2>1, <2>2 DEF LockInv
<1>7. CASE Publish
  <2>1. /\ lock' = lock /\ scan' = scan /\ call.pc = "route"
        /\ call'.pc = "off" /\ active'.pc = "open"
    BY <1>1, <1>7 DEF Publish, vars, NoSession, Session
  <2> QED
    BY <1>2, <1>3, <2>1 DEF LockInv
<1>8. CASE CallThrows \/ CompleteScan
  <2>1. /\ lock' = Unlocked /\ scan' = scan /\ lock.holder = Agent
        /\ call'.pc = "off" /\ active'.pc = "off"
    BY <1>2, <1>8 DEF CallThrows, CompleteScan, NoSession
  <2> QED
    BY <1>1, <1>2, <1>3, <2>1 DEF Unlocked
<1>9. ASSUME NEW m \in Mails, LogDecision(m)
      PROVE  SessionLock'
  <2>1. /\ lock' = lock /\ scan' = scan /\ call' = call
        /\ active.pc = "open" /\ active'.pc = "open"
    BY <1>1, <1>9 DEF LogDecision, Session
  <2> QED
    BY <1>2, <1>3, <2>1 DEF LockInv
<1>10. ~AgentAges
  BY <1>2 DEF AgentAges, LockInv, Busy
<1>11. CASE ServerDies
  <2>1. UNCHANGED allVars
    BY <1>11 DEF NobodyDies
  <2> QED
    BY <1>4, <2>1
<1> QED
  BY <1>4, <1>5, <1>6, <1>7, <1>8, <1>9, <1>10, <1>11 DEF AgentNext

LEMMA SessionLockHolds ==
    ~SlowScans /\ ~SlowAgent =>
        (AgentSpec /\ [][NobodyDies]_allVars => [](AgentTypeOK /\ SessionLock))
<1> SUFFICES ASSUME ~SlowScans, ~SlowAgent
             PROVE  AgentSpec /\ [][NobodyDies]_allVars => [](AgentTypeOK /\ SessionLock)
  OBVIOUS
<1>1. AgentInit => AgentTypeOK /\ Heard
  BY InitTypeOK DEF AgentInit, AgentTypeOK, Session, NoSession, Heard, Init, NoMail
<1>2. AgentInit => SessionLock
  <2> SUFFICES ASSUME AgentInit
               PROVE  SessionLock
    OBVIOUS
  <2>1. Free \notin Runners /\ Free # Agent
    BY TriageAssumption, AgentAssumption
  <2> QED
    BY <2>1 DEF AgentInit, Init, SessionLock, LockInv, Busy, Scanning, Waiting, Unlocked,
               Idle, NoSession
<1>3. AgentTypeOK /\ Heard /\ [AgentNext]_allVars => (AgentTypeOK /\ Heard)'
  BY SessionTypes
<1>4. AgentTypeOK /\ Heard /\ SessionLock /\ [AgentNext]_allVars /\ [NobodyDies]_allVars
        => SessionLock'
  <2>1. [AgentNext]_allVars /\ [NobodyDies]_allVars => [AgentNext /\ NobodyDies]_allVars
    OBVIOUS
  <2> QED
    BY <2>1, SessionLockStep
<1> QED
  BY <1>1, <1>2, <1>3, <1>4, PTL DEF AgentSpec

\* As long as nobody outlives the ten minutes of a lock or dies with one, no two scans
\* run at the same time and none runs during an agent's session, throws, refused calls
\* and failed listings included.
THEOREM LockHolds ==
    ~SlowScans /\ ~SlowAgent =>
        (AgentSpec /\ [][NobodyDies]_allVars => []LockExcludes)
<1>1. AgentTypeOK /\ SessionLock => LockExcludes
  <2> SUFFICES ASSUME AgentTypeOK, SessionLock
               PROVE  LockExcludes
    OBVIOUS
  <2>1. Agent \notin Runners
    BY TriageAssumption, AgentAssumption
  <2> QED
    BY <2>1 DEF SessionLock, LockInv, LockExcludes, OneScanAtATime
<1> QED
  BY <1>1, SessionLockHolds, PTL

\* A single scanner needs no lock: without a second one the files are kept as promised,
\* crashes, throws and scans of any length included.
THEOREM OneScannerKeepsTheMail ==
    (\A r, q \in Runners : r = q) => (Spec => [](MailConserved /\ OneVerdict))
<1> SUFFICES ASSUME \A r, q \in Runners : r = q
             PROVE  Spec => [](MailConserved /\ OneVerdict)
  OBVIOUS
<1>1. OneScanAtATime
  BY DEF OneScanAtATime
<1> QED
  BY <1>1, NoMailForgotten, VerdictsAreFinal, PTL

\* Any number of scanners keep the files as promised if none dies or outlives the lock.
THEOREM LockedScansKeepTheMail ==
    ~SlowScans =>
        (Spec /\ [][~\E r \in Runners : Crash(r)]_vars => [](MailConserved /\ OneVerdict))
<1> SUFFICES ASSUME ~SlowScans
             PROVE  Spec /\ [][~\E r \in Runners : Crash(r)]_vars
                      => [](MailConserved /\ OneVerdict)
  OBVIOUS
<1>1. Init => TypeOK /\ Heard /\ LockInv
  <2> SUFFICES ASSUME Init
               PROVE  TypeOK /\ Heard /\ LockInv
    OBVIOUS
  <2>1. Free \notin Runners
    BY TriageAssumption
  <2> QED
    BY <2>1, InitTypeOK
    DEF Init, Heard, NoMail, LockInv, Scanning, Waiting, Unlocked, Idle
<1>2. /\ TypeOK /\ Heard /\ LockInv /\ [Next]_vars
      /\ [~\E r \in Runners : Crash(r)]_vars
      => (TypeOK /\ Heard /\ LockInv)'
  <2> SUFFICES ASSUME TypeOK, Heard, LockInv, [Next]_vars,
                      [~\E r \in Runners : Crash(r)]_vars
               PROVE  LockInv'
    BY ScanTypes
  <2>1. CASE UNCHANGED vars
    BY <2>1 DEF vars, LockInv, Scanning
  <2>2. CASE ~(UNCHANGED vars)
    BY <2>2, LockStep
  <2> QED
    BY <2>1, <2>2
<1>3. LockInv => OneScanAtATime
  BY DEF LockInv, OneScanAtATime
<1> QED
  BY <1>1, <1>2, <1>3, NoMailForgotten, VerdictsAreFinal, PTL DEF Spec

-----------------------------------------------------------------------------
(* The agent's sessions *)

\* One process at a time scans, or has a session: LockHolds says when.
OneHolder == LockExcludes /\ (call.pc = "off" \/ active.pc = "off")

LEMMA WithinStays ==
    ASSUME NEW s \in Session, Within(s), cursor' = cursor,
           received \in [Mails -> Nat], received' \in [Mails -> Nat],
           \A m \in Mails : received'[m] >= received[m], cursor \in [Accounts -> Nat],
           \A m \in Mails : rows[m] # <<>> => rows'[m] # <<>>
    PROVE  Within(s)'
<1>1. s.listed \subseteq Mails
  BY DEF Session
<1>2. \A m \in s.listed : received'[m] >= s.since[AccountOf[m]]
  <2> SUFFICES ASSUME NEW m \in s.listed
               PROVE  received'[m] >= s.since[AccountOf[m]]
    OBVIOUS
  <2>1. m \in Mails /\ AccountOf[m] \in Accounts
    BY <1>1, TriageAssumption
  <2>2. /\ s.since[AccountOf[m]] \in Nat /\ received[m] \in Nat /\ received'[m] \in Nat
        /\ received'[m] >= received[m] /\ received[m] >= s.since[AccountOf[m]]
    BY <2>1 DEF Within
  <2> QED
    BY <2>2
<1> QED
  BY <1>1, <1>2 DEF Within, Resolved

LEMMA RowsGrow ==
    ASSUME TypeOK, NEW m \in Mails, NEW v \in Verdicts, Decide(m, v)
    PROVE  rows'[m] # <<>> /\ \A n \in Mails : rows[n] # <<>> => rows'[n] # <<>>
BY RowType

\* The steps of get_triage_candidates, before it publishes what it found.
Calling ==
    \/ GetCandidates \/ AgentLists \/ AgentListed \/ AgentRoutes
    \/ AgentCreates \/ AgentRecords

LEMMA CallStep ==
    ASSUME AgentTypeOK, AgentTypeOK', call.pc # "off" => Within(call), Calling
    PROVE  /\ Within(call)'
           /\ UNCHANGED <<now, received, cursor, pending, scan, active>>
           /\ \A m \in Mails : rows[m] # <<>> => rows'[m] # <<>>
<1>1. /\ TypeOK /\ call \in Session /\ call' \in Session
      /\ received \in [Mails -> Nat] /\ cursor \in [Accounts -> Nat]
  BY DEF AgentTypeOK, TypeOK
<1>2. UNCHANGED <<now, received, cursor, pending, scan, active>>
  BY DEF Calling, GetCandidates, AgentLists, AgentListed, AgentRoutes, AgentCreates,
         AgentRecords, mailVars, fileVars, vars
<1>3. CASE GetCandidates
  <2>1. /\ call'.pc = "list" /\ call'.since = cursor /\ call'.listed = {}
        /\ call'.fresh = {m \in Mails : ~Resolved(m)} /\ rows' = rows
    BY <1>3 DEF GetCandidates, NoSession, fileVars
  <2> QED
    BY <1>2, <2>1 DEF Within, Resolved
<1>4. CASE AgentLists
  <2>1. PICK a \in call.left :
          \/ call' = [call EXCEPT !.left = @ \ {a}, !.completed = @ \cup {a},
                                  !.listed = @ \cup Listing(a, call.since[a])]
          \/ call' = [call EXCEPT !.left = @ \ {a}]
    BY <1>4 DEF AgentLists
  <2>2. /\ rows' = rows /\ call.pc = "list" /\ call'.pc = "list"
        /\ call'.since = call.since /\ call'.fresh = call.fresh
        /\ call'.listed = call.listed \/ call'.listed = call.listed \cup Listing(a, call.since[a])
    BY <1>1, <1>4, <2>1 DEF AgentLists, fileVars, Session
  <2>3. \A m \in Listing(a, call.since[a]) : received[m] >= call.since[AccountOf[m]]
    BY DEF Listing
  <2> QED
    BY <1>2, <2>2, <2>3 DEF Within, Resolved
<1>5. CASE AgentListed
  <2>1. /\ rows' = rows /\ call.pc = "list" /\ call'.pc = "route"
        /\ call'.since = call.since /\ call'.fresh = call.fresh
        /\ call'.listed = call.listed /\ call'.todo = call.listed \cap call.fresh
    BY <1>1, <1>5 DEF AgentListed, vars, fileVars, Session
  <2>2. call.listed \subseteq Mails
    BY <1>1 DEF Session
  <2> QED
    BY <1>2, <2>1, <2>2 DEF Within, Resolved
<1>6. CASE AgentRoutes
  <2>1. PICK m \in call.todo :
          \/ (\E v \in {"override", "skip", "task"} : Decide(m, v)) /\ call' = Routed(m)
          \/ rows' = rows /\ call' = [Routed(m) EXCEPT !.cands = @ \cup {m}]
          \/ rows' = rows /\ call.dry /\ call' = Routed(m)
          \/ rows' = rows /\ ~call.dry /\ call' = [Routed(m) EXCEPT !.pc = "create",
                                                                    !.task = {m}]
    BY <1>6 DEF AgentRoutes
  <2>2. m \in Mails /\ call.pc = "route" /\ call.listed \subseteq Mails
    BY <1>1, <1>6, <2>1 DEF Session, AgentRoutes
  <2>3. Routed(m) = [call EXCEPT !.todo = call.todo \ {m}] /\ Within(call)
    BY <1>1, <2>2 DEF Routed, Session
  <2>4. \A n \in Mails : rows[n] # <<>> => rows'[n] # <<>>
    BY <1>1, <2>1, <2>2, RowsGrow DEF Verdicts
  <2> DEFINE Same(c) == /\ c.since = call.since /\ c.fresh = call.fresh
                        /\ c.listed = call.listed /\ c.dry = call.dry
                        /\ c.todo = call.todo \ {m} /\ call.cands \subseteq c.cands
  <2>5. Same(Routed(m)) /\ Routed(m).pc = "route"
    BY <1>1, <2>2, <2>3 DEF Session
  <2>6. \A c : c = [Routed(m) EXCEPT !.cands = @ \cup {m}]
                 => Same(c) /\ c.pc = "route" /\ m \in c.cands
    BY <1>1, <2>2, <2>3 DEF Session
  <2>7. \A c : c = [Routed(m) EXCEPT !.pc = "create", !.task = {m}]
                 => Same(c) /\ c.pc = "create" /\ c.task = {m}
    BY <1>1, <2>3 DEF Session
  <2>8. (\E v \in {"override", "skip", "task"} : Decide(m, v)) => rows'[m] # <<>>
    BY <1>1, <2>2, RowsGrow DEF Verdicts
  <2>9. /\ Same(call')
        /\ call'.pc \in {"route", "create"}
        /\ call'.pc = "create" => ~call.dry /\ call'.task = {m}
    BY <2>1, <2>5, <2>6, <2>7
  <2>10. ~call.dry => rows'[m] # <<>> \/ m \in call'.cands \/ call'.pc = "create"
    BY <2>1, <2>6, <2>7, <2>8
  <2>11. \A n \in call'.listed : received[n] >= call'.since[AccountOf[n]]
    BY <2>3, <2>9 DEF Within
  <2>12. \A n \in Mails \ call'.fresh : rows'[n] # <<>>
    BY <2>3, <2>4, <2>9 DEF Within, Resolved
  <2>13. ~call.dry => \A n \in call.listed :
          rows'[n] # <<>> \/ n \in call'.todo \/ n \in call'.cands
            \/ (call'.pc = "create" /\ n \in call'.task)
    BY <2>2, <2>3, <2>4, <2>9, <2>10 DEF Within, Resolved
  <2> QED
    BY <1>2, <2>2, <2>3, <2>4, <2>9, <2>11, <2>12, <2>13 DEF Within, Resolved
<1>7. CASE AgentCreates
  <2>1. /\ rows' = rows /\ call.pc = "create" /\ call'.pc = "record"
        /\ call'.since = call.since /\ call'.fresh = call.fresh
        /\ call'.listed = call.listed /\ call'.dry = call.dry /\ call'.task = call.task
        /\ call'.todo = call.todo /\ call'.cands = call.cands
    BY <1>1, <1>7 DEF AgentCreates, fileVars, Session
  <2> QED
    BY <1>2, <2>1 DEF Within, Resolved
<1>8. CASE AgentRecords
  <2>1. /\ call.pc = "record" /\ call'.pc = "route"
        /\ call'.since = call.since /\ call'.fresh = call.fresh
        /\ call'.listed = call.listed /\ call'.dry = call.dry
        /\ call'.todo = call.todo /\ call'.cands = call.cands
        /\ call.listed \subseteq Mails
    BY <1>1, <1>8 DEF AgentRecords, Session
  <2>2. PICK m \in Mails : call.task = {m}
    BY <2>1 DEF Within
  <2>3. \E v \in {"task", "skip"} : Decide(m, v)
    BY <1>8, <2>2 DEF AgentRecords
  <2>4. rows'[m] # <<>> /\ \A n \in Mails : rows[n] # <<>> => rows'[n] # <<>>
    BY <1>1, <2>3, RowsGrow DEF Verdicts
  <2> QED
    BY <1>2, <2>1, <2>2, <2>4 DEF Within, Resolved
<1> QED
  BY <1>2, <1>3, <1>4, <1>5, <1>6, <1>7, <1>8 DEF Calling, GetCandidates, AgentLists,
     AgentListed, AgentCreates, fileVars, vars

LEMMA SessionStep ==
    ASSUME AgentTypeOK, AgentTypeOK', Heard, OneHolder, SessionInv, [AgentNext]_allVars
    PROVE  SessionInv'
<1>1. /\ TypeOK /\ TypeOK' /\ call \in Session /\ active \in Session
      /\ received \in [Mails -> Nat] /\ received' \in [Mails -> Nat]
      /\ cursor \in [Accounts -> Nat]
  BY DEF AgentTypeOK, TypeOK
<1>2. /\ Busy => \A r \in Runners : ~Scanning(r)
      /\ call.pc = "off" \/ active.pc = "off"
      /\ call.pc # "off" => Within(call)
      /\ active.pc # "off" => Within(active)
      /\ active.pc \in {"off", "open"}
      /\ \A r \in Runners : ~Strays(scan[r])
  BY DEF OneHolder, LockExcludes, SessionInv
<1>3. ASSUME cursor' = cursor, \A m \in Mails : received'[m] >= received[m],
             \A m \in Mails : rows[m] # <<>> => rows'[m] # <<>>,
             call' = call, active' = active, \A r \in Runners : ~Strays(scan'[r])
      PROVE  SessionInv'
  <2>1. call.pc # "off" => Within(call)'
    <3>1. ASSUME call.pc # "off"
          PROVE  Within(call)'
      <4>1. PICK s \in Session : s = call
        BY <1>1
      <4>2. Within(s) /\ s = call'
        BY <1>2, <1>3, <3>1, <4>1
      <4>3. Within(s)'
        BY <1>1, <1>3, <4>2, WithinStays
      <4> QED
        BY <4>2, <4>3 DEF Within
    <3> QED
      BY <3>1
  <2>2. active.pc # "off" => Within(active)'
    <3>1. ASSUME active.pc # "off"
          PROVE  Within(active)'
      <4>1. PICK s \in Session : s = active
        BY <1>1
      <4>2. Within(s) /\ s = active'
        BY <1>2, <1>3, <3>1, <4>1
      <4>3. Within(s)'
        BY <1>1, <1>3, <4>2, WithinStays
      <4> QED
        BY <4>2, <4>3 DEF Within
    <3> QED
      BY <3>1
  <2>3. \A r \in Runners : Strays(scan[r])' <=> Strays(scan'[r])
    BY DEF Strays
  <2> QED
    BY <1>2, <1>3, <2>1, <2>2, <2>3 DEF SessionInv
<1>4. \A r \in Runners : Strays(scan[r])' <=> Strays(scan'[r])
  BY DEF Strays
<1>5. \A m \in Mails : received[m] >= received[m]
  BY <1>1
<1>6. CASE ScanSteps \/ UNCHANGED allVars
  <2>1. call' = call /\ active' = active
    BY <1>6 DEF ScanSteps, allVars, agentVars
  <2>2. ASSUME NEW r \in Runners, NEW t \in Locals, Becomes(r, t), ~Strays(t)
        PROVE  \A q \in Runners : ~Strays(scan'[q])
    BY <1>1, <1>2, <2>2, Becoming
  <2>3. ASSUME NEW m \in Mails, Receive(m)
        PROVE  SessionInv'
    <3>1. /\ now' >= now /\ received' = [received EXCEPT ![m] = now'] /\ now' \in Nat
          /\ UNCHANGED <<rows, cursor, scan>>
      BY <1>1, <2>3 DEF Receive, TypeOK, fileVars
    <3>2. \A n \in Mails : received'[n] >= received[n]
      BY <1>1, <3>1 DEF Heard, TypeOK
    <3> QED
      BY <1>2, <1>3, <2>1, <3>1, <3>2
  <2>4. ASSUME NEW r \in Runners, Unlocking(r)
        PROVE  SessionInv'
    <3>1. PICK t \in Locals : Becomes(r, t) /\ t.pc \notin Underway
      BY <1>1, <2>4, UnlockingMoves
    <3>2. ~Strays(t)
      BY <3>1 DEF Strays, Underway, Loops
    <3> QED
      BY <1>1, <1>3, <1>5, <2>1, <2>2, <2>4, <3>1, <3>2, UnlockingMoves DEF mailVars, fileVars
  <2>5. ASSUME NEW r \in Runners, Step(r), ~Unlocking(r)
        PROVE  SessionInv'
    <3>1. PICK t \in Locals : Becomes(r, t) /\ (Strays(t) => Strays(scan[r]))
      BY <1>1, <2>5, WorkMoves
    <3>2. \A q \in Runners : ~Strays(scan'[q])
      BY <1>2, <2>2, <3>1
    <3>3. call.pc = "off" /\ active.pc = "off"
      BY <1>1, <1>2, <2>5, WorkMoves DEF Busy
    <3> QED
      BY <1>4, <2>1, <3>2, <3>3 DEF SessionInv
  <2>6. CASE Ages \/ UNCHANGED vars
    BY <1>2, <1>3, <1>5, <2>1, <2>6 DEF Ages, vars, mailVars, fileVars
  <2> QED
    BY <1>6, <2>3, <2>4, <2>5, <2>6 DEF ScanSteps, Next, Unlocking, allVars
<1>7. CASE Calling
  <2>1. /\ Within(call)'
        /\ UNCHANGED <<received, cursor, scan, active>>
        /\ \A m \in Mails : rows[m] # <<>> => rows'[m] # <<>>
    BY <1>2, <1>7, CallStep
  <2>2. active.pc # "off" => Within(active)'
    <3>1. ASSUME active.pc # "off"
          PROVE  Within(active)'
      <4>1. PICK s \in Session : s = active
        BY <1>1
      <4>2. Within(s) /\ s = active'
        BY <1>2, <2>1, <3>1, <4>1
      <4>3. Within(s)'
        BY <1>1, <1>5, <2>1, <4>2, WithinStays
      <4> QED
        BY <4>2, <4>3 DEF Within
    <3> QED
      BY <3>1
  <2> QED
    BY <1>2, <1>4, <2>1, <2>2 DEF SessionInv
<1>8. CASE Publish
  <2>1. /\ UNCHANGED <<rows, received, cursor, scan>> /\ call.pc = "route" /\ call.todo = {}
        /\ call'.pc = "off" /\ active'.pc = "open" /\ active'.todo = {}
        /\ active'.since = call.since /\ active'.fresh = call.fresh
        /\ active'.listed = call.listed /\ active'.dry = call.dry
        /\ active'.cands = call.cands
    BY <1>1, <1>8 DEF Publish, NoSession, Session, vars, mailVars, fileVars
  <2>2. Within(active)'
    BY <1>2, <2>1 DEF Within, Resolved
  <2> QED
    BY <1>2, <1>4, <2>1, <2>2 DEF SessionInv
<1>9. CASE CallThrows \/ CompleteScan \/ ServerDies
  <2>1. scan' = scan /\ active'.pc = "off"
    BY <1>9 DEF CallThrows, CompleteScan, ServerDies, NoSession
  <2>2. call'.pc = "off"
    BY <1>2, <1>9 DEF CallThrows, CompleteScan, ServerDies, NoSession
  <2> QED
    BY <1>2, <1>4, <2>1, <2>2 DEF SessionInv
<1>10. ASSUME NEW m \in Mails, LogDecision(m)
       PROVE  SessionInv'
  <2>1. /\ UNCHANGED <<received, cursor, scan, call>> /\ active.pc = "open"
        /\ active'.pc = "open" /\ active'.since = active.since
        /\ active'.fresh = active.fresh /\ active'.listed = active.listed
        /\ active'.dry = active.dry /\ active'.todo = active.todo
        /\ active'.cands = active.cands \ {m} /\ active.listed \subseteq Mails
    BY <1>1, <1>10 DEF LogDecision, Session, mailVars
  <2>2. /\ \A n \in Mails : rows[n] # <<>> => rows'[n] # <<>>
        /\ ~active.dry => rows'[m] # <<>>
    BY <1>1, <1>10, RowsGrow DEF LogDecision, Verdicts
  <2>3. Within(active)'
    BY <1>2, <2>1, <2>2 DEF Within, Resolved
  <2>4. call'.pc = "off"
    BY <1>2, <2>1
  <2> QED
    BY <1>2, <1>4, <2>1, <2>3, <2>4 DEF SessionInv
<1>11. CASE AgentAges
  BY <1>2, <1>3, <1>5, <1>11 DEF AgentAges, mailVars, fileVars, agentVars
<1> QED
  BY <1>6, <1>7, <1>8, <1>9, <1>10, <1>11 DEF AgentNext, Calling

\* A session ends when it is completed or the server dies.
LEMMA EndStep ==
    ASSUME AgentTypeOK, OneHolder, SessionInv, [AgentNext]_allVars
    PROVE  SessionKeepsItsMail
<1> SUFFICES ASSUME active.pc = "open", active'.pc = "off", NEW m \in active.listed
             PROVE  \/ rows'[m] # <<>>
                    \/ pending'[m] > 0
                    \/ received[m] >= cursor'[AccountOf[m]]
  BY DEF SessionKeepsItsMail
<1>1. /\ active \in Session /\ call.pc = "off" /\ Within(active)
      /\ m \in Mails /\ active.todo = {}
  BY DEF AgentTypeOK, OneHolder, SessionInv, Session, Within
<1>2. received[m] >= cursor[AccountOf[m]]
  BY <1>1 DEF Within
<1>3. CASE ServerDies
  BY <1>2, <1>3 DEF ServerDies, fileVars
<1>4. CASE CompleteScan
  <2>1. PICK advance_watermark \in BOOLEAN :
          /\ pending' = IF active.dry THEN pending ELSE Reported(active)
          /\ cursor' = IF advance_watermark /\ ~active.dry
                         THEN Advanced(active) ELSE cursor
          /\ rows' = rows
    BY <1>4 DEF CompleteScan
  <2>2. CASE active.dry
    BY <1>2, <2>1, <2>2
  <2>3. CASE ~active.dry
    <3>1. rows[m] # <<>> \/ m \in active.cands
      BY <1>1, <2>3 DEF Within, Resolved
    <3>2. m \in active.cands => Reported(active)[m] > 0
      BY <1>1 DEF Reported
    <3> QED
      BY <2>1, <2>3, <3>1, <3>2
  <2> QED
    BY <2>2, <2>3
<1>5. ~CallThrows
  BY <1>1 DEF CallThrows
<1>6. ~ScanSteps /\ ~Calling /\ ~AgentAges /\ ~(UNCHANGED allVars)
  BY DEF ScanSteps, Calling, GetCandidates, AgentLists, AgentListed, AgentRoutes,
         AgentCreates, AgentRecords, AgentAges, allVars, agentVars
<1>7. ~Publish /\ ~(\E n \in Mails : LogDecision(n))
  BY <1>1 DEF Publish, LogDecision, Session
<1> QED
  BY <1>3, <1>4, <1>5, <1>6, <1>7 DEF AgentNext, Calling

LEMMA DryStep ==
    ASSUME AgentTypeOK, OneHolder, SessionInv, [AgentNext]_allVars
    PROVE  DryMakesNothing
<1> SUFFICES ASSUME DryUnderWay
             PROVE  UNCHANGED <<tasks, pending, cursor>>
  BY DEF DryMakesNothing
<1>1. /\ TypeOK
      /\ \A r, q \in Runners : Scanning(r) /\ Scanning(q) => r = q
      /\ \A r \in Runners : Scanning(r) => call.pc = "off" /\ active.pc = "off"
      /\ call.pc = "off" \/ active.pc = "off"
  BY DEF AgentTypeOK, OneHolder, LockExcludes, OneScanAtATime, Busy
<1>2. ASSUME NEW r \in Runners, CreateTask(r) \/ SavePending(r) \/ SaveProgress(r)
      PROVE  UNCHANGED <<tasks, pending, cursor>>
  <2>1. /\ Scanning(r)
        /\ CreateTask(r) \/ SaveProgress(r) => scan[r].pc \in Steps \cup {"save_progress"}
    BY <1>2 DEF CreateTask, SavePending, SaveProgress, At, Scanning, Waiting, Steps
  <2>2. scan[r].dry
    BY <1>1, <2>1 DEF DryUnderWay
  <2>3. ~Strays(scan[r])
    BY DEF SessionInv
  <2> QED
    BY <1>2, <2>1, <2>2, <2>3 DEF Strays, SavePending
<1>3. CASE AgentCreates
  <2>1. call.pc = "create" /\ call.dry
    BY <1>1, <1>3 DEF AgentCreates, DryUnderWay
  <2> QED
    BY <2>1 DEF SessionInv, Within
<1>4. CASE CompleteScan
  <2>1. active.dry
    BY <1>1, <1>4 DEF CompleteScan, DryUnderWay
  <2> QED
    BY <1>4, <2>1 DEF CompleteScan
<1>5. CASE ScanSteps
  <2>1. ASSUME NEW r \in Runners, Step(r) \/ Throws(r) \/ Crash(r)
        PROVE  UNCHANGED <<tasks, pending, cursor>>
    <3>1. CASE Start(r)
      BY <3>1 DEF Start
    <3>2. CASE ListAccount(r) \/ Gather(r) \/ RulesDone(r) \/ ClassifyDone(r)
      BY <3>2 DEF ListAccount, Gather, RulesDone, ClassifyDone, fileVars
    <3>3. CASE Rule(r) \/ Classify(r) \/ FindTask(r) \/ RecordTask(r)
      BY <3>3 DEF Rule, Classify, FindTask, RecordTask
    <3>4. CASE Unlocking(r)
      BY <1>1, <3>4, UnlockingMoves DEF fileVars
    <3> QED
      BY <1>2, <2>1, <3>1, <3>2, <3>3, <3>4 DEF Step, Unlocking
  <2> QED
    BY <1>5, <2>1 DEF ScanSteps, Next, Receive, Ages, fileVars
<1>6. CASE \/ GetCandidates \/ AgentLists \/ AgentListed \/ AgentRoutes \/ AgentRecords
           \/ Publish \/ CallThrows \/ AgentAges \/ ServerDies \/ UNCHANGED allVars
           \/ \E m \in Mails : LogDecision(m)
  BY <1>6 DEF GetCandidates, AgentLists, AgentListed, AgentRoutes, AgentRecords, Publish,
              CallThrows, AgentAges, ServerDies, LogDecision, fileVars, vars, allVars
<1> QED
  BY <1>3, <1>4, <1>5, <1>6 DEF AgentNext

\* What a session listed has a row, waits in the pending file or will be listed again
\* when the session ends, a death of the server included, and a dry run or session makes
\* nothing: as long as one process holds the lock at a time.
THEOREM SessionsKeepTheirPromise == AgentSpec /\ []OneHolder => SessionPromise
<1>1. AgentInit => AgentTypeOK /\ Heard /\ SessionInv
  BY InitTypeOK
  DEF AgentInit, AgentTypeOK, Session, NoSession, Heard, Init, NoMail, SessionInv, Strays,
      Steps, Idle
<1>2. AgentTypeOK /\ Heard /\ OneHolder /\ SessionInv /\ [AgentNext]_allVars
        => (AgentTypeOK /\ Heard /\ SessionInv)'
  BY SessionTypes, SessionStep
<1>3. AgentTypeOK /\ OneHolder /\ SessionInv /\ [AgentNext]_allVars
        => [SessionKeepsItsMail /\ DryMakesNothing]_allVars
  BY EndStep, DryStep
<1> QED
  BY <1>1, <1>2, <1>3, PTL DEF AgentSpec, SessionPromise

\* The same where the lock sees to that, next to any number of scans.
THEOREM LockedSessionsKeepTheirPromise ==
    ~SlowScans /\ ~SlowAgent =>
        (AgentSpec /\ [][NobodyDies]_allVars => SessionPromise)
<1> SUFFICES ASSUME ~SlowScans, ~SlowAgent
             PROVE  AgentSpec /\ [][NobodyDies]_allVars => SessionPromise
  OBVIOUS
<1>1. LockExcludes /\ SessionLock => OneHolder
  BY DEF OneHolder, SessionLock
<1> QED
  BY <1>1, LockHolds, SessionLockHolds, SessionsKeepTheirPromise, PTL

\* A session without scans beside it keeps its lock until it ends or dies.
AloneLock ==
    /\ Busy => lock.holder = Agent /\ ~lock.old
    /\ call.pc = "off" \/ active.pc = "off"

\* And for sessions alone, whenever the server dies: a new session waits until the lock
\* of the dead one is old.
THEOREM SessionsAloneKeepTheirPromise ==
    ~SlowAgent /\ Runners = {} => (AgentSpec => SessionPromise)
<1> SUFFICES ASSUME ~SlowAgent, Runners = {}
             PROVE  AgentSpec => SessionPromise
  OBVIOUS
<1>1. AgentInit => AloneLock
  BY DEF AgentInit, AloneLock, Busy, NoSession
<1>2. AgentTypeOK /\ AloneLock /\ [AgentNext]_allVars => AloneLock'
  <2> SUFFICES ASSUME AgentTypeOK, AloneLock, [AgentNext]_allVars
               PROVE  AloneLock'
    OBVIOUS
  <2>1. Free # Agent /\ call \in Session /\ active \in Session
    BY TriageAssumption, AgentAssumption DEF AgentTypeOK
  <2>2. CASE ScanSteps \/ UNCHANGED allVars
    <3>1. UNCHANGED <<lock, call, active>>
      BY <2>2 DEF ScanSteps, Next, Receive, Ages, allVars, agentVars, vars
    <3> QED
      BY <3>1 DEF AloneLock, Busy
  <2>3. CASE GetCandidates
    BY <2>1, <2>3 DEF GetCandidates, AloneLock, Busy
  <2>4. CASE \/ AgentLists \/ AgentListed \/ AgentRoutes \/ AgentCreates \/ AgentRecords
             \/ Publish
    <3>1. lock' = lock /\ call.pc # "off"
      BY <2>4 DEF AgentLists, AgentListed, AgentRoutes, AgentCreates, AgentRecords, Publish,
                  vars
    <3>2. active' = active \/ call'.pc = "off"
      <4>1. NoSession.pc = "off"
        BY DEF NoSession
      <4>2. Publish => call' = NoSession
        BY DEF Publish
      <4>3. ~Publish => active' = active
        BY <2>4 DEF AgentLists, AgentListed, AgentRoutes, AgentCreates, AgentRecords
      <4> QED
        BY <4>1, <4>2, <4>3
    <3> QED
      BY <3>1, <3>2 DEF AloneLock, Busy
  <2>5. CASE CallThrows \/ CompleteScan \/ ServerDies
    BY <2>1, <2>5 DEF CallThrows, CompleteScan, ServerDies, AloneLock, Busy, NoSession
  <2>6. CASE (\E m \in Mails : LogDecision(m)) \/ AgentAges
    <3>1. CASE AgentAges
      BY <3>1 DEF AgentAges, AloneLock, Busy, agentVars
    <3>2. ASSUME NEW m \in Mails, LogDecision(m)
          PROVE  AloneLock'
      <4>1. /\ active.pc = "open" /\ active'.pc = "open"
            /\ lock' = lock /\ call' = call
        BY <2>1, <3>2 DEF LogDecision, Session
      <4> QED
        BY <4>1 DEF AloneLock, Busy
    <3> QED
      BY <2>6, <3>1, <3>2
  <2> QED
    BY <2>2, <2>3, <2>4, <2>5, <2>6 DEF AgentNext
<1>3. AloneLock => OneHolder
  BY DEF AloneLock, OneHolder, LockExcludes, OneScanAtATime
<1> QED
  BY <1>1, <1>2, <1>3, SessionTyping, SessionsKeepTheirPromise, PTL DEF AgentSpec
=============================================================================
