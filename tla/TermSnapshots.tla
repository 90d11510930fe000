---------------------------- MODULE TermSnapshots ---------------------------
(* The class schedule of one term: src/clemson-classes.ts scans the registrar's
   Banner service page by page, src/clemson-schedule-db.ts keeps the last whole
   scan in state/clemson/<term>.db, and the tools answer from that file or live.

   A call is one tool call or one run of the daily job (scripts/clemson-refresh.ts).
   Calls of one process interleave where the code awaits Banner; writeScheduleDb is
   synchronous, so only calls of other processes run between its steps.  Files are
   inodes with names, because every writer uses the same temporary name.  Sections
   are counted in pages: page n of a scan brings the n-th of them.                  *)
EXTENDS Naturals, FiniteSets

CONSTANTS
    Calls,           \* places for a call to run in
    Home,            \* Home[c]: the process call c runs in
    Questions,       \* Questions[c]: what may be asked of c
    Rows,            \* pages of sections the term has at Banner
    MaxPages,        \* MAX_PAGES
    ScanAttempts,    \* attempts of a scan for a question
    DailyAttempts,   \* attempts of a refresh
    LiveAttempts,    \* LIVE_ATTEMPTS of a live search
    Faults,          \* what Banner does wrong, a subset of FaultKinds
    DiskFaults,      \* whether a step of writeScheduleDb may fail
    Overlap,         \* whether two processes may write the term at one time
    Inodes,          \* inodes of the file system
    None,            \* no file
    MaxClock,        \* no question is asked after this many whole scans
    MaxDeaths        \* processes that die

\* "refused": an HTTP error or an HTML shell; "network": fetch rejects; "cold": a
\* session the term did not bind to; "expires": a session that turns cold between pages.
FaultKinds == {"refused", "network", "cold", "expires"}

\* A search is always scoped to a subject or a course; a sections question (who
\* teaches what, when a room is free) may be; the daily job asks for the whole term.
Question == [tool: {"search"}, subject: {TRUE}, refresh: BOOLEAN]
              \cup [tool: {"sections"}, subject: BOOLEAN, refresh: BOOLEAN]
              \cup [tool: {"daily"}, subject: {FALSE}, refresh: {TRUE}]

ASSUME SnapshotAssumption ==
    /\ \A c \in Calls : Questions[c] \subseteq Question
    /\ {Rows, MaxPages, ScanAttempts, DailyAttempts, LiveAttempts} \subseteq Nat \ {0}
    /\ {MaxClock, MaxDeaths} \subseteq Nat
    /\ Faults \subseteq FaultKinds
    /\ DiskFaults \in BOOLEAN
    /\ Overlap \in BOOLEAN
    /\ Inodes # {} /\ None \notin Inodes

VARIABLES
    pc,      \* pc[c]: where call c stands
    scan,    \* scan[c]: its question, and its scan: what for, which attempt, session, pages
    date,    \* date[c]: fetchedAt of the snapshot c is writing
    file,    \* file[c]: the inode c has open for writing
    answer,  \* answer[c]: its last answer
    live,    \* the inode named <term>.db
    temp,    \* the inode named <term>.db.tmp
    db,      \* db[i]: what inode i holds
    clock,   \* whole scans so far, standing for the time
    deaths   \* processes that died

files == <<live, temp, db>>
vars == <<pc, scan, date, file, answer, live, temp, db, clock, deaths>>

WritePcs == {"unlink", "create", "schema", "fill", "rename"}

Purposes == {"refresh", "cold", "subject", "live"}

Asked(q) == [q |-> q, purpose |-> "live", try |-> 0, jar |-> "none", out |-> 0]

NoScan == Asked([tool |-> "search", subject |-> TRUE, refresh |-> FALSE])

Blank == [stage |-> "blank", date |-> 0, rows |-> 0]

Failed == [scope |-> "error", date |-> 0, rows |-> 0]

\* No snapshot of the term yet, or a whole one of an earlier day.
Init ==
    /\ pc = [c \in Calls |-> "idle"]
    /\ scan = [c \in Calls |-> NoScan]
    /\ date = [c \in Calls |-> 0]
    /\ file = [c \in Calls |-> None]
    /\ answer = [c \in Calls |-> Failed]
    /\ live \in {None, CHOOSE i \in Inodes : TRUE}
    /\ temp = None
    /\ db = [i \in Inodes |-> IF i = live
                               THEN [stage |-> "tables", date |-> 0, rows |-> Rows]
                               ELSE Blank]
    /\ clock = 0
    /\ deaths = 0

-----------------------------------------------------------------------------
\* A process inside writeScheduleDb runs nothing else.
Writing(c) == pc[c] \in WritePcs

\* Faulty: writing awaits, and other calls of the process run meanwhile.
TurnAlways(c) == TRUE

Turn(c) == \A d \in Calls \ {c} : Home[d] = Home[c] => ~Writing(d)

Attempts(purpose) ==
    CASE purpose = "refresh" -> DailyAttempts
      [] purpose = "live" -> LiveAttempts
      [] OTHER -> ScanAttempts

\* What a scan for this purpose finds at Banner; a subject fits one page.
Total(purpose) == IF purpose \in {"subject", "live"} THEN 1 ELSE Rows

\* The call ends with this answer.
Reply(c, a) ==
    /\ pc' = [pc EXCEPT ![c] = "idle"]
    /\ answer' = [answer EXCEPT ![c] = a]
    /\ scan' = [scan EXCEPT ![c] = NoScan]
    /\ date' = [date EXCEPT ![c] = 0]

\* A fresh session for attempt n.
Scan(c, q, purpose, n) ==
    /\ pc' = [pc EXCEPT ![c] = "open"]
    /\ scan' = [scan EXCEPT ![c] = [Asked(q) EXCEPT !.purpose = purpose, !.try = n]]
    /\ UNCHANGED date

\* What inode i tells: its sections under its date, or an exception without tables.
Read(i) ==
    IF db[i].stage = "blank" THEN Failed
    ELSE [scope |-> "snapshot", date |-> db[i].date, rows |-> db[i].rows]

\* openScheduleDb and the query, with nothing awaited: the snapshot if there is
\* one, otherwise Banner.
FromDisk(c, q) ==
    IF live = None
    THEN /\ Scan(c, q, CASE q.tool = "search" -> "live"
                            [] q.tool = "sections" /\ q.subject -> "subject"
                            [] OTHER -> "cold", 1)
         /\ UNCHANGED answer
    ELSE Reply(c, Read(live))

\* A complete scan: the snapshot is dated and handed to writeScheduleDb.
StartWrite(c, n) ==
    /\ Overlap \/ \A d \in Calls : Home[d] # Home[c] => ~Writing(d)
    /\ pc' = [pc EXCEPT ![c] = "unlink"]
    /\ scan' = [scan EXCEPT ![c].out = n]
    /\ clock' = clock + 1
    /\ date' = [date EXCEPT ![c] = clock']
    /\ UNCHANGED answer

\* fetchSectionsPaged gave up: the daily job reports it, a refresh falls back to what
\* there is, any other question goes without an answer.
Fruitless(c) ==
    /\ IF scan[c].purpose = "refresh" /\ scan[c].q.tool = "sections"
       THEN FromDisk(c, scan[c].q)
       ELSE Reply(c, Failed)
    /\ UNCHANGED clock

\* Faulty: a fresh session begins the count of attempts anew.
RetryAnew(c) ==
    IF scan[c].try < Attempts(scan[c].purpose)
    THEN /\ Scan(c, scan[c].q, scan[c].purpose, 1)
         /\ UNCHANGED <<answer, clock>>
    ELSE Fruitless(c)

\* The next attempt on a fresh session, while there are any.
Retry(c) ==
    IF scan[c].try < Attempts(scan[c].purpose)
    THEN /\ Scan(c, scan[c].q, scan[c].purpose, scan[c].try + 1)
         /\ UNCHANGED <<answer, clock>>
    ELSE Fruitless(c)

\* A complete scan of n pages: a whole term is written, whatever it is for.
Complete(c, n) ==
    IF scan[c].purpose = "subject"
    THEN /\ Reply(c, [scope |-> "live-subject", date |-> 0, rows |-> n])
         /\ UNCHANGED clock
    ELSE StartWrite(c, n)

\* Faulty: a refresh keeps what it has got.
PartialWritten(c, n) == StartWrite(c, n)

\* A scan that ended early with n pages: a refresh discards them, a question is
\* answered with them.
Partial(c, n) ==
    IF scan[c].purpose = "refresh"
    THEN Fruitless(c)
    ELSE /\ Reply(c, [scope |-> "live-full", date |-> 0, rows |-> n])
         /\ UNCHANGED clock

\* fetch rejects: only the live search catches it, and tries again.
Rejected(c) ==
    IF scan[c].purpose = "live"
    THEN Retry(c)
    ELSE Reply(c, Failed) /\ UNCHANGED clock

\* A question arrives.
Ask(c) ==
    /\ pc[c] = "idle"
    /\ Turn(c)
    /\ clock < MaxClock
    /\ \E q \in Questions[c] :
        CASE q.tool = "search" /\ ~q.refresh -> FromDisk(c, q)
          [] q.tool = "search" /\ q.refresh -> Scan(c, q, "live", 1) /\ UNCHANGED answer
          [] OTHER -> /\ pc' = [pc EXCEPT ![c] = "resolve"]
                      /\ scan' = [scan EXCEPT ![c] = Asked(q)]
                      /\ UNCHANGED <<date, answer>>
    /\ UNCHANGED <<file, live, temp, db, clock, deaths>>

\* The term's code is known, or a term named in words is not found.
Resolve(c) ==
    /\ pc[c] = "resolve"
    /\ Turn(c)
    /\ \/ Reply(c, Failed)
       \/ IF scan[c].q.refresh
          THEN Scan(c, scan[c].q, "refresh", 1) /\ UNCHANGED answer
          ELSE FromDisk(c, scan[c].q)
    /\ UNCHANGED <<file, live, temp, db, clock, deaths>>

\* openSession: a session bound to the term, or cold, or no session at all.
OpenSession(c) ==
    /\ pc[c] = "open"
    /\ Turn(c)
    /\ \/ \E jar \in {"bound"} \cup (Faults \cap {"cold"}) :
            /\ pc' = [pc EXCEPT ![c] = "page"]
            /\ scan' = [scan EXCEPT ![c].jar = jar]
            /\ UNCHANGED <<date, answer, clock>>
       \/ "refused" \in Faults /\ Retry(c)
       \/ "network" \in Faults /\ Rejected(c)
    /\ UNCHANGED <<file, live, temp, db, deaths>>

\* One page that came: the last, the last one allowed, or one more to come.
NextPage(c) ==
    LET n == scan[c].out + 1
        p == scan[c].purpose
    IN IF p = "live"
       THEN /\ Reply(c, [scope |-> "live", date |-> 0, rows |-> n])
            /\ UNCHANGED clock
       ELSE IF n >= Total(p)
       THEN Complete(c, n)
       ELSE IF n = MaxPages
       THEN Partial(c, n)
       ELSE /\ scan' = [scan EXCEPT ![c].out = n]
            /\ UNCHANGED <<pc, date, answer, clock>>

\* Faulty: a first page without sections ends the scan like any other.
FetchPageTrusting(c) ==
    /\ pc[c] = "page"
    /\ Turn(c)
    /\ \/ scan[c].jar = "bound" /\ NextPage(c)
       \/ scan[c].jar = "cold" /\ Complete(c, 0)
    /\ UNCHANGED <<file, live, temp, db, deaths>>

\* runSearch: a cold session has no sections, which a first page gives away.
FetchPage(c) ==
    /\ pc[c] = "page"
    /\ Turn(c)
    /\ \/ scan[c].jar = "bound" /\ NextPage(c)
       \/ scan[c].jar = "cold" /\ Retry(c)
       \/ /\ "refused" \in Faults
          /\ IF scan[c].out = 0 THEN Retry(c) ELSE Partial(c, scan[c].out)
       \/ "network" \in Faults /\ Rejected(c)
       \/ "expires" \in Faults /\ scan[c].out > 0 /\ Complete(c, scan[c].out)
    /\ UNCHANGED <<file, live, temp, db, deaths>>

-----------------------------------------------------------------------------
(* writeScheduleDb, step by step: other processes see the files between them. *)

\* An inode with no name that nobody has open is gone.
Used == {live, temp} \cup {file[c] : c \in Calls}

Free == Inodes \ Used

Write(c, step, next) ==
    /\ pc[c] = step
    /\ pc' = [pc EXCEPT ![c] = next]
    /\ UNCHANGED <<scan, date, answer, clock, deaths>>

Unlink(c) ==
    /\ Write(c, "unlink", "create")
    /\ temp' = None
    /\ UNCHANGED <<file, live, db>>

\* new Database(tmp): another process may have made the file already.
Create(c) ==
    /\ Write(c, "create", "schema")
    /\ IF temp = None
       THEN /\ Free # {}
            /\ LET i == CHOOSE i \in Free : TRUE
               IN /\ temp' = i
                  /\ file' = [file EXCEPT ![c] = i]
                  /\ db' = [db EXCEPT ![i] = Blank]
       ELSE /\ file' = [file EXCEPT ![c] = temp]
            /\ UNCHANGED <<temp, db>>
    /\ UNCHANGED live

\* The tables and the meta rows.
Schema(c) ==
    /\ Write(c, "schema", "fill")
    /\ db' = [db EXCEPT ![file[c]].stage = "tables", ![file[c]].date = date[c]]
    /\ UNCHANGED <<file, live, temp>>

\* All sections in one transaction, then the database is closed.
Fill(c) ==
    /\ Write(c, "fill", "rename")
    /\ db' = [db EXCEPT ![file[c]].rows = IF scan[c].out > @ THEN scan[c].out ELSE @]
    /\ file' = [file EXCEPT ![c] = None]
    /\ UNCHANGED <<live, temp>>

Taken(c) == [scope |-> "snapshot", date |-> date[c], rows |-> scan[c].out]

\* renameSync puts whatever file has the temporary name in place; without one it
\* throws, which is logged, and the answer is the same.
Rename(c) ==
    /\ pc[c] = "rename"
    /\ Reply(c, Taken(c))
    /\ live' = IF temp = None THEN live ELSE temp
    /\ temp' = None
    /\ UNCHANGED <<file, db, clock, deaths>>

\* A full disk: the exception is logged, the answer is the same, the file stays.
WriteFails(c) ==
    /\ DiskFaults
    /\ pc[c] \in WritePcs \ {"unlink"}
    /\ Reply(c, Taken(c))
    /\ file' = [file EXCEPT ![c] = None]
    /\ UNCHANGED <<live, temp, db, clock, deaths>>

\* A process dies with all its calls; the files stay as they are.
Dies(p) ==
    /\ deaths < MaxDeaths
    /\ deaths' = deaths + 1
    /\ pc' = [c \in Calls |-> IF Home[c] = p THEN "idle" ELSE pc[c]]
    /\ answer' = [c \in Calls |-> IF Home[c] = p THEN Failed ELSE answer[c]]
    /\ scan' = [c \in Calls |-> IF Home[c] = p THEN NoScan ELSE scan[c]]
    /\ date' = [c \in Calls |-> IF Home[c] = p THEN 0 ELSE date[c]]
    /\ file' = [c \in Calls |-> IF Home[c] = p THEN None ELSE file[c]]
    /\ UNCHANGED <<live, temp, db, clock>>

Step(c) ==
    \/ Resolve(c)
    \/ OpenSession(c)
    \/ FetchPage(c)
    \/ Unlink(c)
    \/ Create(c)
    \/ Schema(c)
    \/ Fill(c)
    \/ Rename(c)

Next ==
    \/ \E c \in Calls : Ask(c) \/ Step(c) \/ WriteFails(c)
    \/ \E p \in {Home[c] : c \in Calls} : Dies(p)

Spec == Init /\ [][Next]_vars

\* Banner answers or the request fails, and the code's waits are timers.
FairSpec == Spec /\ \A c \in Calls : WF_vars(Step(c))

-----------------------------------------------------------------------------
Scans == [q: Question, purpose: Purposes, try: Nat,
          jar: {"none", "bound", "cold"}, out: 0..Rows]

Answers == [scope: {"error", "snapshot", "live", "live-subject", "live-full"},
            date: Nat, rows: 0..Rows]

Contents == [stage: {"blank", "tables"}, date: Nat, rows: 0..Rows]

\* The records of calls, answers and files, the names and the bounds.
TypeOK ==
    /\ pc \in [Calls -> {"idle", "resolve", "open", "page"} \cup WritePcs]
    /\ scan \in [Calls -> Scans]
    /\ \A c \in Calls : scan[c].try <= Attempts(scan[c].purpose)
    /\ date \in [Calls -> Nat]
    /\ file \in [Calls -> Inodes \cup {None}]
    /\ answer \in [Calls -> Answers]
    /\ {live, temp} \subseteq Inodes \cup {None}
    /\ db \in [Inodes -> Contents]
    /\ clock \in Nat
    /\ deaths \in 0..MaxDeaths

\* What the tools read as the term is all of a scan that reached the end: neither a
\* throttled scan nor a writer that fails or dies on the way replaces it with less.
LiveIsWhole ==
    live # None => db[live].stage = "tables" /\ db[live].rows = Rows

\* A snapshot gives way only to a later one, however scans of one term overlap.
DateNeverMovesBack ==
    [][live # None => live' # None /\ db'[live'].date >= db[live].date]_vars

\* No answer says that nothing is taught: where Banner or the file gives no sections
\* the caller is told of a failure instead.
NoFalseEmpty ==
    \A c \in Calls : answer[c].scope # "error" => answer[c].rows > 0

\* A term is read as one whole scan of it, or its reader is told of a failure.
SnapshotIsTrue == LiveIsWhole /\ NoFalseEmpty

\* Whatever Banner does, a question comes to an end.
EveryQuestionAnswered ==
    \A c \in Calls : pc[c] # "idle" ~> pc[c] = "idle"

\* getTermSections: "refresh failed - fall through to any existing snapshot / live
\* scan".  With a snapshot on disk a question is answered.
RefreshFallsBack ==
    [][\A c \in Calls :
        /\ pc[c] \notin {"idle", "resolve"}
        /\ pc'[c] = "idle"
        /\ scan[c].q.tool = "sections"
        /\ live # None
        /\ deaths' = deaths
        => answer'[c].scope # "error"]_vars
=============================================================================
