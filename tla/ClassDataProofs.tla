-------------------------- MODULE ClassDataProofs ---------------------------
(***************************************************************************)
(* Proofs about TermSnapshots and ScheduleAdvice.                          *)
(* The snapshot of a term: for any calls, processes, attempts and pages,   *)
(* as long as two processes do not write the term at one time and a        *)
(* session does not turn cold between two pages.                           *)
(* The questions: for any sections, published meetings, wishes and seats.  *)
(***************************************************************************)
EXTENDS TermSnapshots, ScheduleAdvice, FiniteSetTheorems, FunctionTheorems,
        WellFoundedInduction, TLAPS

-----------------------------------------------------------------------------
(* The snapshot *)

Assumed == ~Overlap /\ "expires" \notin Faults

OneWriter == \A c, d \in Calls : Writing(c) /\ Writing(d) => c = d

\* The writer's handle and the temporary name are the same file.
Handles ==
    \A c \in Calls : file[c] = IF pc[c] \in {"schema", "fill"} THEN temp ELSE None

TempReady ==
    \A c \in Calls :
        /\ pc[c] = "create" => temp = None
        /\ pc[c] \in {"schema", "fill", "rename"} => temp # None
        /\ pc[c] \in {"fill", "rename"} => db[temp].stage = "tables" /\ db[temp].date = clock
        /\ pc[c] = "rename" => db[temp].rows = Rows

TempApart == temp # None => temp # live

\* Before the end of a scan there is a page to come; only whole scans are written,
\* under the present date.
Progress ==
    \A c \in Calls :
        /\ ~Writing(c) => scan[c].out < Total(scan[c].purpose)
        /\ Writing(c) => scan[c].out = Rows /\ date[c] = clock

Dated == live # None => db[live].date <= clock

SnapshotInv ==
    /\ TypeOK
    /\ OneWriter
    /\ Handles
    /\ TempReady
    /\ TempApart
    /\ Progress
    /\ Dated
    /\ LiveIsWhole

-----------------------------------------------------------------------------
(* What the asynchronous steps do to a call: it ends with an answer, goes on
   with its scan, or has a whole term to write. *)

\* An answer that is not a failure brings sections.
Tells(a) == a.scope # "error" => a.rows > 0

Ends(c) == (\E a \in Answers : Tells(a) /\ Reply(c, a)) /\ UNCHANGED clock

Goes(c) ==
    \E p \in {"resolve", "open", "page"}, s \in Scans :
        /\ s.try <= Attempts(s.purpose)
        /\ s.out < Total(s.purpose)
        /\ pc' = [pc EXCEPT ![c] = p]
        /\ scan' = [scan EXCEPT ![c] = s]
        /\ UNCHANGED <<date, answer, clock>>

Proceeds(c) ==
    /\ ~Writing(c)
    /\ Turn(c)
    /\ Ends(c) \/ Goes(c) \/ StartWrite(c, Rows)
    /\ UNCHANGED <<file, live, temp, db, deaths>>

LEMMA Numbers ==
    /\ Rows \in Nat \ {0}
    /\ \A p \in Purposes : /\ Attempts(p) \in Nat \ {0}
                           /\ Total(p) \in Nat \ {0}
                           /\ Total(p) <= Rows
    /\ Failed \in Answers /\ Tells(Failed)
    /\ \A q \in Question : /\ Asked(q) \in Scans
                           /\ Asked(q).out = 0 /\ Asked(q).try = 0 /\ Asked(q).q = q
    /\ NoScan \in Scans /\ NoScan.out = 0 /\ NoScan.try = 0
<1>1. /\ Rows \in Nat \ {0} /\ ScanAttempts \in Nat \ {0}
      /\ DailyAttempts \in Nat \ {0} /\ LiveAttempts \in Nat \ {0}
  BY SnapshotAssumption
<1>2. \A p \in Purposes : /\ Attempts(p) \in Nat \ {0}
                          /\ Total(p) \in Nat \ {0}
                          /\ Total(p) <= Rows
  BY <1>1 DEF Attempts, Total
<1>3. \A q \in Question : /\ Asked(q) \in Scans
                          /\ Asked(q).out = 0 /\ Asked(q).try = 0 /\ Asked(q).q = q
  BY <1>1 DEF Asked, Scans, Purposes
<1>4. [tool |-> "search", subject |-> TRUE, refresh |-> FALSE] \in Question
  BY DEF Question
<1>5. NoScan \in Scans /\ NoScan.out = 0 /\ NoScan.try = 0
  BY <1>3, <1>4 DEF NoScan
<1> QED
  BY <1>1, <1>2, <1>3, <1>5 DEF Failed, Answers, Tells

LEMMA ScanGoes ==
    ASSUME TypeOK, NEW c \in Calls, NEW q \in Question, NEW p \in Purposes,
           NEW n \in Nat, n <= Attempts(p), Scan(c, q, p, n), UNCHANGED <<answer, clock>>
    PROVE  Goes(c)
<1> DEFINE s == [Asked(q) EXCEPT !.purpose = p, !.try = n]
<1>1. /\ s \in Scans /\ s.try = n /\ s.purpose = p /\ s.out = 0
  BY Numbers DEF Asked, Scans
<1>2. s.out < Total(s.purpose)
  BY <1>1, Numbers
<1> QED
  BY <1>1, <1>2 DEF Scan, Goes

\* A read of a whole file is an answer.
LEMMA DiskMoves ==
    ASSUME TypeOK, LiveIsWhole, NEW c \in Calls, NEW q \in Question, FromDisk(c, q), UNCHANGED clock
    PROVE  Ends(c) \/ Goes(c)
<1>1. CASE live = None
  <2> DEFINE p == CASE q.tool = "search" -> "live"
                    [] q.tool = "sections" /\ q.subject -> "subject"
                    [] OTHER -> "cold"
  <2>1. p \in Purposes
    BY DEF Purposes
  <2>2. Scan(c, q, p, 1) /\ UNCHANGED answer
    BY <1>1 DEF FromDisk
  <2>3. 1 <= Attempts(p)
    BY <2>1, Numbers
  <2> QED
    BY <2>1, <2>2, <2>3, ScanGoes
<1>2. CASE live # None
  <2>1. live \in Inodes /\ db[live] \in Contents
    BY <1>2 DEF TypeOK
  <2>2. Read(live) \in Answers /\ Tells(Read(live))
    BY <1>2, <2>1, Numbers DEF Read, Contents, Answers, Tells, LiveIsWhole
  <2> QED
    BY <1>2, <2>2 DEF FromDisk, Ends
<1> QED
  BY <1>1, <1>2

LEMMA FruitlessMoves ==
    ASSUME TypeOK, LiveIsWhole, NEW c \in Calls, Fruitless(c)
    PROVE  Ends(c) \/ Goes(c)
<1>1. scan[c].q \in Question
  BY DEF TypeOK, Scans
<1>2. UNCHANGED clock
  BY DEF Fruitless
<1>3. CASE scan[c].purpose = "refresh" /\ scan[c].q.tool = "sections"
  BY <1>1, <1>2, <1>3, DiskMoves DEF Fruitless
<1>4. CASE ~(scan[c].purpose = "refresh" /\ scan[c].q.tool = "sections")
  BY <1>2, <1>4, Numbers DEF Fruitless, Ends
<1> QED
  BY <1>3, <1>4

LEMMA RetryMoves ==
    ASSUME TypeOK, LiveIsWhole, NEW c \in Calls, Retry(c)
    PROVE  Ends(c) \/ Goes(c)
<1>1. /\ scan[c].q \in Question /\ scan[c].purpose \in Purposes /\ scan[c].try \in Nat
  BY DEF TypeOK, Scans
<1>2. CASE scan[c].try < Attempts(scan[c].purpose)
  <2>1. scan[c].try + 1 <= Attempts(scan[c].purpose)
    BY <1>1, <1>2, Numbers
  <2>2. /\ Scan(c, scan[c].q, scan[c].purpose, scan[c].try + 1)
        /\ UNCHANGED <<answer, clock>>
    BY <1>2 DEF Retry
  <2>3. scan[c].try + 1 \in Nat
    BY <1>1
  <2> QED
    BY <1>1, <2>1, <2>2, <2>3, ScanGoes
<1>3. CASE ~(scan[c].try < Attempts(scan[c].purpose))
  BY <1>3, FruitlessMoves DEF Retry
<1> QED
  BY <1>2, <1>3

LEMMA RejectedMoves ==
    ASSUME TypeOK, LiveIsWhole, NEW c \in Calls, Rejected(c)
    PROVE  Ends(c) \/ Goes(c)
<1>1. CASE scan[c].purpose = "live"
  BY <1>1, RetryMoves DEF Rejected
<1>2. CASE scan[c].purpose # "live"
  BY <1>2, Numbers DEF Rejected, Ends
<1> QED
  BY <1>1, <1>2

LEMMA PartialMoves ==
    ASSUME TypeOK, LiveIsWhole, NEW c \in Calls, NEW n \in 1..Rows, Partial(c, n)
    PROVE  Ends(c) \/ Goes(c)
<1>1. CASE scan[c].purpose = "refresh"
  BY <1>1, FruitlessMoves DEF Partial
<1>2. CASE scan[c].purpose # "refresh"
  <2>1. /\ [scope |-> "live-full", date |-> 0, rows |-> n] \in Answers
        /\ Tells([scope |-> "live-full", date |-> 0, rows |-> n])
    BY Numbers DEF Answers, Tells
  <2> QED
    BY <1>2, <2>1 DEF Partial, Ends
<1> QED
  BY <1>1, <1>2

LEMMA PageMoves ==
    ASSUME SnapshotInv, NEW c \in Calls, ~Writing(c), pc[c] = "page", NextPage(c)
    PROVE  Ends(c) \/ Goes(c) \/ StartWrite(c, Rows)
<1> DEFINE n == scan[c].out + 1
           p == scan[c].purpose
<1>1. /\ scan[c] \in Scans /\ p \in Purposes /\ scan[c].out \in 0..Rows
      /\ scan[c].try <= Attempts(p)
  BY DEF SnapshotInv, TypeOK, Scans
<1>2. scan[c].out < Total(p)
  BY DEF SnapshotInv, Progress
<1>3. /\ n \in Nat /\ n \in 1..Rows /\ n <= Total(p)
      /\ Total(p) \in Nat
      /\ TypeOK /\ LiveIsWhole
  BY <1>1, <1>2, Numbers DEF SnapshotInv
<1>4. CASE p = "live"
  <2>1. /\ [scope |-> "live", date |-> 0, rows |-> n] \in Answers
        /\ Tells([scope |-> "live", date |-> 0, rows |-> n])
    BY <1>3 DEF Answers, Tells
  <2> QED
    BY <1>4, <2>1 DEF NextPage, Ends
<1>5. CASE p # "live" /\ n >= Total(p)
  <2>1. Complete(c, n) /\ n = Total(p)
    BY <1>3, <1>5 DEF NextPage
  <2>2. CASE p = "subject"
    <3>1. /\ [scope |-> "live-subject", date |-> 0, rows |-> n] \in Answers
          /\ Tells([scope |-> "live-subject", date |-> 0, rows |-> n])
      BY <1>3 DEF Answers, Tells
    <3> QED
      BY <2>1, <2>2, <3>1 DEF Complete, Ends
  <2>3. CASE p # "subject"
    <3>1. n = Rows
      BY <1>5, <2>1, <2>3 DEF Total
    <3> QED
      BY <2>1, <2>3, <3>1 DEF Complete
  <2> QED
    BY <2>2, <2>3
<1>6. CASE p # "live" /\ n < Total(p) /\ n = MaxPages
  <2>1. Partial(c, n)
    BY <1>3, <1>6 DEF NextPage
  <2> QED
    BY <1>3, <2>1, PartialMoves
<1>7. CASE p # "live" /\ n < Total(p) /\ n # MaxPages
  <2> DEFINE s == [scan[c] EXCEPT !.out = n]
  <2>1. /\ scan' = [scan EXCEPT ![c].out = n]
        /\ UNCHANGED <<pc, date, answer, clock>>
    BY <1>3, <1>7 DEF NextPage
  <2>2. s \in Scans /\ s.out = n /\ s.purpose = p /\ s.try = scan[c].try
    BY <1>1, <1>3 DEF Scans
  <2>3. scan' = [scan EXCEPT ![c] = s] /\ pc' = [pc EXCEPT ![c] = "page"]
    BY <2>1 DEF SnapshotInv, TypeOK
  <2> QED
    BY <1>1, <1>7, <2>1, <2>2, <2>3 DEF Goes
<1> QED
  BY <1>3, <1>4, <1>5, <1>6, <1>7

LEMMA AsyncMoves ==
    ASSUME Assumed, SnapshotInv, NEW c \in Calls,
           Ask(c) \/ Resolve(c) \/ OpenSession(c) \/ FetchPage(c)
    PROVE  Proceeds(c)
<1>0. /\ TypeOK /\ LiveIsWhole
      /\ scan[c] \in Scans /\ scan[c].q \in Question /\ scan[c].purpose \in Purposes
      /\ scan[c].try <= Attempts(scan[c].purpose)
  BY DEF SnapshotInv, TypeOK, Scans
<1>1. CASE Ask(c)
  <2>1. PICK q \in Questions[c] :
          CASE q.tool = "search" /\ ~q.refresh -> FromDisk(c, q)
            [] q.tool = "search" /\ q.refresh ->
                 Scan(c, q, "live", 1) /\ UNCHANGED answer
            [] OTHER -> /\ pc' = [pc EXCEPT ![c] = "resolve"]
                        /\ scan' = [scan EXCEPT ![c] = Asked(q)]
                        /\ UNCHANGED <<date, answer>>
    BY <1>1 DEF Ask
  <2>2. q \in Question
    BY SnapshotAssumption
  <2>3. /\ pc[c] = "idle" /\ Turn(c) /\ ~Writing(c)
        /\ UNCHANGED <<file, live, temp, db, clock, deaths>>
    BY <1>1 DEF Ask, Writing, WritePcs
  <2>4. CASE q.tool = "search" /\ ~q.refresh
    BY <1>0, <2>1, <2>2, <2>3, <2>4, DiskMoves DEF Proceeds
  <2>5. CASE q.tool = "search" /\ q.refresh
    <3>1. Scan(c, q, "live", 1) /\ UNCHANGED <<answer, clock>>
      BY <2>1, <2>3, <2>5
    <3>2. "live" \in Purposes /\ 1 <= Attempts("live")
      BY Numbers DEF Purposes
    <3> QED
      BY <1>0, <2>2, <2>3, <3>1, <3>2, ScanGoes DEF Proceeds
  <2>6. CASE q.tool # "search"
    <3>1. /\ pc' = [pc EXCEPT ![c] = "resolve"]
          /\ scan' = [scan EXCEPT ![c] = Asked(q)]
          /\ UNCHANGED <<date, answer, clock>>
      BY <2>1, <2>3, <2>6
    <3>2. /\ Asked(q) \in Scans /\ Asked(q).purpose \in Purposes
          /\ Asked(q).try = 0 /\ Asked(q).out = 0
      BY <2>2, Numbers DEF Scans
    <3>3. /\ Asked(q).try <= Attempts(Asked(q).purpose)
          /\ Asked(q).out < Total(Asked(q).purpose)
      BY <3>2, Numbers
    <3> QED
      BY <2>3, <3>1, <3>2, <3>3 DEF Proceeds, Goes
  <2> QED
    BY <2>4, <2>5, <2>6
<1>2. CASE Resolve(c)
  <2>1. /\ Turn(c) /\ ~Writing(c)
        /\ UNCHANGED <<file, live, temp, db, clock, deaths>>
    BY <1>2 DEF Resolve, Writing, WritePcs
  <2>2. CASE Reply(c, Failed)
    BY <2>1, <2>2, Numbers DEF Proceeds, Ends
  <2>3. CASE Scan(c, scan[c].q, "refresh", 1) /\ UNCHANGED answer
    <3>1. "refresh" \in Purposes /\ 1 <= Attempts("refresh")
      BY Numbers DEF Purposes
    <3> QED
      BY <1>0, <2>1, <2>3, <3>1, ScanGoes DEF Proceeds
  <2>4. CASE FromDisk(c, scan[c].q)
    BY <1>0, <2>1, <2>4, DiskMoves DEF Proceeds
  <2> QED
    BY <1>2, <2>2, <2>3, <2>4 DEF Resolve
<1>3. CASE OpenSession(c)
  <2>1. /\ Turn(c) /\ ~Writing(c)
        /\ UNCHANGED <<file, live, temp, db, deaths>>
    BY <1>3 DEF OpenSession, Writing, WritePcs
  <2>2. ASSUME NEW jar \in {"bound", "cold"},
               pc' = [pc EXCEPT ![c] = "page"],
               scan' = [scan EXCEPT ![c].jar = jar],
               UNCHANGED <<date, answer, clock>>
        PROVE  Goes(c)
    <3> DEFINE s == [scan[c] EXCEPT !.jar = jar]
    <3>1. /\ s \in Scans /\ s.out = scan[c].out
          /\ s.purpose = scan[c].purpose /\ s.try = scan[c].try
      BY <1>0 DEF Scans
    <3>2. scan' = [scan EXCEPT ![c] = s]
      BY <1>0, <2>2 DEF TypeOK
    <3>3. s.out < Total(s.purpose)
      BY <2>1, <3>1 DEF SnapshotInv, Progress
    <3> QED
      BY <1>0, <2>2, <3>1, <3>2, <3>3 DEF Goes
  <2>3. CASE Retry(c) \/ Rejected(c)
    BY <1>0, <2>1, <2>3, RetryMoves, RejectedMoves DEF Proceeds
  <2> QED
    BY <1>3, <2>1, <2>2, <2>3 DEF OpenSession, Proceeds
<1>4. CASE FetchPage(c)
  <2>1. /\ Turn(c) /\ ~Writing(c) /\ pc[c] = "page"
        /\ UNCHANGED <<file, live, temp, db, deaths>>
    BY <1>4 DEF FetchPage, Writing, WritePcs
  <2>2. scan[c].out \in 0..Rows /\ Rows \in Nat
    BY <1>0, Numbers DEF Scans
  <2>3. \/ NextPage(c) \/ Retry(c) \/ Rejected(c)
        \/ scan[c].out # 0 /\ Partial(c, scan[c].out)
    BY <1>4 DEF FetchPage, Assumed
  <2> QED
    BY <1>0, <2>1, <2>2, <2>3, PageMoves, RetryMoves, PartialMoves, RejectedMoves DEF Proceeds
<1> QED
  BY <1>1, <1>2, <1>3, <1>4

-----------------------------------------------------------------------------
\* The asynchronous steps leave the files alone, and one of them at a time may
\* become the writer.
LEMMA MovesKeep ==
    ASSUME Assumed, SnapshotInv, NEW c \in Calls, Proceeds(c)
    PROVE  SnapshotInv'
<1>0. /\ TypeOK /\ OneWriter /\ Handles /\ TempReady /\ TempApart
      /\ Progress /\ Dated /\ LiveIsWhole
      /\ ~Writing(c) /\ Turn(c)
      /\ UNCHANGED <<file, live, temp, db, deaths>>
  BY DEF SnapshotInv, Proceeds
<1>1. CASE Ends(c)
  <2>1. PICK a \in Answers : Reply(c, a)
    BY <1>1 DEF Ends
  <2>2. clock' = clock
    BY <1>1 DEF Ends
  <2>3. NoScan.purpose \in Purposes /\ NoScan.out < Total(NoScan.purpose)
        /\ NoScan.try <= Attempts(NoScan.purpose)
    <3>1. NoScan.purpose \in Purposes
      BY Numbers DEF Scans
    <3> QED
      BY <3>1, Numbers
  <2>4. TypeOK'
    BY <1>0, <2>1, <2>2, <2>3, Numbers DEF TypeOK, Reply
  <2>5. \A d \in Calls : d # c => /\ pc'[d] = pc[d] /\ scan'[d] = scan[d]
                                  /\ date'[d] = date[d]
    BY <1>0, <2>1 DEF TypeOK, Reply
  <2>6. pc'[c] = "idle" /\ scan'[c] = NoScan
    BY <1>0, <2>1 DEF TypeOK, Reply
  <2>7. OneWriter' /\ Handles' /\ TempReady' /\ Progress'
    BY <1>0, <2>2, <2>3, <2>5, <2>6
    DEF OneWriter, Handles, TempReady, Progress, Writing, WritePcs
  <2> QED
    BY <1>0, <2>2, <2>4, <2>7 DEF SnapshotInv, TempApart, Dated, LiveIsWhole
<1>2. CASE Goes(c)
  <2>1. PICK p \in {"resolve", "open", "page"}, s \in Scans :
          /\ s.try <= Attempts(s.purpose)
          /\ s.out < Total(s.purpose)
          /\ pc' = [pc EXCEPT ![c] = p]
          /\ scan' = [scan EXCEPT ![c] = s]
          /\ UNCHANGED <<date, answer, clock>>
    BY <1>2 DEF Goes
  <2>2. TypeOK'
    BY <1>0, <2>1 DEF TypeOK
  <2>3. \A d \in Calls : d # c => pc'[d] = pc[d] /\ scan'[d] = scan[d]
    BY <1>0, <2>1 DEF TypeOK
  <2>4. pc'[c] = p /\ scan'[c] = s
    BY <1>0, <2>1 DEF TypeOK
  <2>5. OneWriter' /\ Handles' /\ TempReady' /\ Progress'
    BY <1>0, <2>1, <2>3, <2>4
    DEF OneWriter, Handles, TempReady, Progress, Writing, WritePcs
  <2> QED
    BY <1>0, <2>1, <2>2, <2>5 DEF SnapshotInv, TempApart, Dated, LiveIsWhole
<1>3. CASE StartWrite(c, Rows)
  <2>1. \A d \in Calls : ~Writing(d)
    BY <1>0, <1>3 DEF StartWrite, Assumed, Turn
  <2>2. /\ pc' = [pc EXCEPT ![c] = "unlink"]
        /\ scan' = [scan EXCEPT ![c].out = Rows]
        /\ clock' = clock + 1
        /\ date' = [date EXCEPT ![c] = clock']
        /\ UNCHANGED answer
    BY <1>3 DEF StartWrite
  <2>3. scan[c] \in Scans /\ [scan[c] EXCEPT !.out = Rows] \in Scans
        /\ scan' = [scan EXCEPT ![c] = [scan[c] EXCEPT !.out = Rows]]
    BY <1>0, <2>2, Numbers DEF TypeOK, Scans
  <2>4. scan'[c].out = Rows /\ scan'[c].try = scan[c].try
        /\ scan'[c].purpose = scan[c].purpose
    BY <1>0, <2>3 DEF TypeOK, Scans
  <2>5. \A d \in Calls : d # c => pc'[d] = pc[d] /\ scan'[d] = scan[d]
    BY <1>0, <2>2 DEF TypeOK
  <2>6. pc'[c] = "unlink" /\ date'[c] = clock'
    BY <1>0, <2>2 DEF TypeOK
  <2>7. clock \in Nat /\ clock' \in Nat
    BY <1>0, <2>2 DEF TypeOK
  <2>8. TypeOK'
    <3>1. \A d \in Calls : scan'[d].try <= Attempts(scan'[d].purpose)
      BY <1>0, <2>4, <2>5 DEF TypeOK
    <3> QED
      BY <1>0, <2>2, <2>3, <2>7, <3>1 DEF TypeOK, WritePcs
  <2>9. OneWriter' /\ Handles' /\ TempReady' /\ Progress'
    BY <1>0, <2>1, <2>4, <2>5, <2>6
    DEF OneWriter, Handles, TempReady, Progress, Writing, WritePcs
  <2>10. Dated'
    <3>1. live # None => db[live].date \in Nat
      BY <1>0 DEF TypeOK, Contents
    <3> QED
      BY <1>0, <2>2, <2>7, <3>1 DEF Dated
  <2> QED
    BY <1>0, <2>8, <2>9, <2>10 DEF SnapshotInv, TempApart, LiveIsWhole
<1> QED
  BY <1>1, <1>2, <1>3 DEF Proceeds

-----------------------------------------------------------------------------
\* While one call writes, no other does.
LEMMA Alone ==
    ASSUME SnapshotInv, NEW c \in Calls, Writing(c)
    PROVE  /\ \A d \in Calls \ {c} : ~Writing(d) /\ file[d] = None
           /\ scan[c].out = Rows /\ date[c] = clock
<1>1. \A d \in Calls \ {c} : ~Writing(d)
  BY DEF SnapshotInv, OneWriter
<1> QED
  BY <1>1 DEF SnapshotInv, Handles, Progress, Writing, WritePcs

LEMMA UnlinkKeeps ==
    ASSUME SnapshotInv, NEW c \in Calls, Unlink(c)
    PROVE  SnapshotInv'
<1>0. /\ TypeOK /\ OneWriter /\ Handles /\ TempReady /\ TempApart
      /\ Progress /\ Dated /\ LiveIsWhole /\ Writing(c)
  BY DEF SnapshotInv, Unlink, Write, Writing, WritePcs
<1>1. \A d \in Calls \ {c} : ~Writing(d) /\ file[d] = None
  BY <1>0, Alone
<1>2. /\ pc[c] = "unlink" /\ pc' = [pc EXCEPT ![c] = "create"] /\ temp' = None
      /\ UNCHANGED <<scan, date, answer, clock, deaths, file, live, db>>
  BY DEF Unlink, Write
<1>3. pc'[c] = "create" /\ \A d \in Calls \ {c} : pc'[d] = pc[d]
  BY <1>0, <1>2 DEF TypeOK
<1>4. TypeOK'
  BY <1>0, <1>2 DEF TypeOK, WritePcs
<1>5. OneWriter' /\ Handles' /\ TempReady' /\ Progress'
  BY <1>0, <1>1, <1>2, <1>3
  DEF OneWriter, Handles, TempReady, Progress, Writing, WritePcs
<1> QED
  BY <1>0, <1>2, <1>4, <1>5 DEF SnapshotInv, TempApart, Dated, LiveIsWhole

LEMMA CreateKeeps ==
    ASSUME SnapshotInv, NEW c \in Calls, Create(c)
    PROVE  SnapshotInv'
<1>0. /\ TypeOK /\ OneWriter /\ Handles /\ TempReady /\ TempApart
      /\ Progress /\ Dated /\ LiveIsWhole /\ Writing(c)
  BY DEF SnapshotInv, Create, Write, Writing, WritePcs
<1>1. \A d \in Calls \ {c} : ~Writing(d) /\ file[d] = None
  BY <1>0, Alone
<1>2. /\ pc[c] = "create" /\ pc' = [pc EXCEPT ![c] = "schema"] /\ temp = None
      /\ UNCHANGED <<scan, date, answer, clock, deaths, live>>
  BY <1>0 DEF Create, Write, TempReady
<1>3. PICK i \in Free : /\ temp' = i
                        /\ file' = [file EXCEPT ![c] = i]
                        /\ db' = [db EXCEPT ![i] = Blank]
  BY <1>2 DEF Create
<1>4. i \in Inodes /\ i # live /\ i # None
  BY <1>3, SnapshotAssumption DEF Free, Used
<1>5. /\ pc'[c] = "schema" /\ file'[c] = i
      /\ \A d \in Calls \ {c} : pc'[d] = pc[d] /\ file'[d] = file[d]
  BY <1>0, <1>2, <1>3 DEF TypeOK
<1>6. live # None => db'[live] = db[live]
  BY <1>0, <1>3, <1>4 DEF TypeOK
<1>7. TypeOK'
  <2>1. Blank \in Contents
    BY Numbers DEF Blank, Contents
  <2> QED
    BY <1>0, <1>2, <1>3, <1>4, <2>1 DEF TypeOK, WritePcs
<1>8. OneWriter' /\ Handles' /\ TempReady' /\ Progress'
  BY <1>0, <1>1, <1>2, <1>3, <1>4, <1>5
  DEF OneWriter, Handles, TempReady, Progress, Writing, WritePcs
<1> QED
  BY <1>0, <1>2, <1>3, <1>4, <1>6, <1>7, <1>8
  DEF SnapshotInv, TempApart, Dated, LiveIsWhole

\* The writer's file is not the one that is read.
LEMMA Apart ==
    ASSUME SnapshotInv, NEW c \in Calls, pc[c] \in {"schema", "fill"}
    PROVE  file[c] = temp /\ temp \in Inodes /\ temp # live
BY DEF SnapshotInv, TypeOK, Handles, TempReady, TempApart

LEMMA SchemaKeeps ==
    ASSUME SnapshotInv, NEW c \in Calls, Schema(c)
    PROVE  SnapshotInv'
<1>0. /\ TypeOK /\ OneWriter /\ Handles /\ TempReady /\ TempApart
      /\ Progress /\ Dated /\ LiveIsWhole /\ Writing(c)
  BY DEF SnapshotInv, Schema, Write, Writing, WritePcs
<1>1. /\ \A d \in Calls \ {c} : ~Writing(d) /\ file[d] = None
      /\ date[c] = clock
  BY <1>0, Alone
<1>2. /\ pc[c] = "schema" /\ pc' = [pc EXCEPT ![c] = "fill"]
      /\ UNCHANGED <<scan, date, answer, clock, deaths, file, live, temp>>
  BY DEF Schema, Write
<1>3. file[c] = temp /\ temp \in Inodes /\ temp # live
  BY <1>2, Apart
<1>4. /\ db' = [db EXCEPT ![temp].stage = "tables", ![temp].date = clock]
      /\ db[temp] \in Contents /\ clock \in Nat
  BY <1>0, <1>1, <1>3 DEF Schema, TypeOK
<1>5. /\ db'[temp].stage = "tables" /\ db'[temp].date = clock
      /\ db'[temp] \in Contents
      /\ \A i \in Inodes \ {temp} : db'[i] = db[i]
  BY <1>0, <1>3, <1>4 DEF TypeOK, Contents
<1>6. pc'[c] = "fill" /\ \A d \in Calls \ {c} : pc'[d] = pc[d]
  BY <1>0, <1>2 DEF TypeOK
<1>7. TypeOK'
  <2>1. db' \in [Inodes -> Contents]
    BY <1>0, <1>3, <1>4, <1>5 DEF TypeOK
  <2> QED
    BY <1>0, <1>2, <2>1 DEF TypeOK, WritePcs
<1>8. OneWriter' /\ Handles' /\ TempReady' /\ Progress'
  BY <1>0, <1>1, <1>2, <1>3, <1>5, <1>6, SnapshotAssumption
  DEF OneWriter, Handles, TempReady, Progress, Writing, WritePcs
<1>9. live # None => db'[live] = db[live]
  BY <1>0, <1>3, <1>5 DEF TypeOK
<1> QED
  BY <1>0, <1>2, <1>7, <1>8, <1>9 DEF SnapshotInv, TempApart, Dated, LiveIsWhole

LEMMA FillKeeps ==
    ASSUME SnapshotInv, NEW c \in Calls, Fill(c)
    PROVE  SnapshotInv'
<1>0. /\ TypeOK /\ OneWriter /\ Handles /\ TempReady /\ TempApart
      /\ Progress /\ Dated /\ LiveIsWhole /\ Writing(c)
  BY DEF SnapshotInv, Fill, Write, Writing, WritePcs
<1>1. /\ \A d \in Calls \ {c} : ~Writing(d) /\ file[d] = None
      /\ scan[c].out = Rows
  BY <1>0, Alone
<1>2. /\ pc[c] = "fill" /\ pc' = [pc EXCEPT ![c] = "rename"]
      /\ file' = [file EXCEPT ![c] = None]
      /\ UNCHANGED <<scan, date, answer, clock, deaths, live, temp>>
  BY DEF Fill, Write
<1>3. /\ file[c] = temp /\ temp \in Inodes /\ temp # live
      /\ db[temp].stage = "tables" /\ db[temp].date = clock
      /\ db[temp] \in Contents /\ db[temp].rows \in 0..Rows
  BY <1>0, <1>2, Apart DEF TempReady, TypeOK, Contents
<1>4. db' = [db EXCEPT ![temp].rows = Rows]
  <2>1. (IF Rows > db[temp].rows THEN Rows ELSE db[temp].rows) = Rows
    BY <1>3, Numbers
  <2>2. db' = [db EXCEPT ![temp].rows = IF Rows > @ THEN Rows ELSE @]
    BY <1>1, <1>3 DEF Fill
  <2> QED
    BY <1>0, <1>3, <2>1, <2>2 DEF TypeOK
<1>5. /\ db'[temp].stage = "tables" /\ db'[temp].date = clock /\ db'[temp].rows = Rows
      /\ db'[temp] \in Contents
      /\ \A i \in Inodes \ {temp} : db'[i] = db[i]
  BY <1>0, <1>3, <1>4, Numbers DEF TypeOK, Contents
<1>6. /\ pc'[c] = "rename" /\ file'[c] = None
      /\ \A d \in Calls \ {c} : pc'[d] = pc[d] /\ file'[d] = file[d]
  BY <1>0, <1>2 DEF TypeOK
<1>7. TypeOK'
  <2>1. db' \in [Inodes -> Contents]
    BY <1>0, <1>3, <1>4, <1>5 DEF TypeOK
  <2> QED
    BY <1>0, <1>2, <2>1 DEF TypeOK, WritePcs
<1>8. OneWriter' /\ Handles' /\ TempReady' /\ Progress'
  BY <1>0, <1>1, <1>2, <1>3, <1>5, <1>6, SnapshotAssumption
  DEF OneWriter, Handles, TempReady, Progress, Writing, WritePcs
<1>9. live # None => db'[live] = db[live]
  BY <1>0, <1>3, <1>5 DEF TypeOK
<1> QED
  BY <1>0, <1>2, <1>7, <1>8, <1>9 DEF SnapshotInv, TempApart, Dated, LiveIsWhole

\* A writer's end: nobody writes any more, whichever file has the name.
LEMMA EndKeeps ==
    ASSUME SnapshotInv, NEW c \in Calls, Writing(c), NEW a \in Answers, Reply(c, a),
           file' = [file EXCEPT ![c] = None], UNCHANGED <<db, clock, deaths>>,
           \/ UNCHANGED <<live, temp>>
           \/ pc[c] = "rename" /\ live' = temp /\ temp' = None
    PROVE  SnapshotInv'
<1>0. /\ TypeOK /\ OneWriter /\ Handles /\ TempReady /\ TempApart
      /\ Progress /\ Dated /\ LiveIsWhole
  BY DEF SnapshotInv
<1>1. \A d \in Calls \ {c} : ~Writing(d) /\ file[d] = None
  BY Alone
<1>2. /\ pc' = [pc EXCEPT ![c] = "idle"]
      /\ scan' = [scan EXCEPT ![c] = NoScan]
      /\ date' = [date EXCEPT ![c] = 0]
      /\ answer' = [answer EXCEPT ![c] = a]
  BY DEF Reply
<1>3. /\ pc'[c] = "idle" /\ scan'[c] = NoScan /\ file'[c] = None
      /\ \A d \in Calls \ {c} : /\ pc'[d] = pc[d] /\ scan'[d] = scan[d]
                                /\ file'[d] = file[d]
  BY <1>0, <1>2 DEF TypeOK
<1>4. /\ NoScan \in Scans /\ NoScan.purpose \in Purposes
      /\ NoScan.out < Total(NoScan.purpose)
      /\ NoScan.try <= Attempts(NoScan.purpose)
  <2>1. NoScan \in Scans /\ NoScan.purpose \in Purposes
    BY Numbers DEF Scans
  <2> QED
    BY <2>1, Numbers
<1>5. live' \in Inodes \cup {None} /\ temp' \in Inodes \cup {None}
  BY <1>0 DEF TypeOK
<1>6. TypeOK'
  BY <1>0, <1>2, <1>3, <1>4, <1>5 DEF TypeOK
<1>7. OneWriter' /\ Handles' /\ TempReady' /\ Progress'
  BY <1>0, <1>1, <1>3, <1>4
  DEF OneWriter, Handles, TempReady, Progress, Writing, WritePcs
<1>8. TempApart' /\ Dated' /\ LiveIsWhole'
  <2>1. CASE UNCHANGED <<live, temp>>
    BY <1>0, <2>1 DEF TempApart, Dated, LiveIsWhole
  <2>2. CASE pc[c] = "rename" /\ live' = temp /\ temp' = None
    <3>1. /\ db[temp].stage = "tables" /\ db[temp].date = clock
          /\ db[temp].rows = Rows /\ clock \in Nat
      BY <1>0, <2>2 DEF TempReady, TypeOK
    <3> QED
      BY <2>2, <3>1 DEF TempApart, Dated, LiveIsWhole
  <2> QED
    BY <2>1, <2>2
<1> QED
  BY <1>6, <1>7, <1>8 DEF SnapshotInv

LEMMA RenameKeeps ==
    ASSUME SnapshotInv, NEW c \in Calls, Rename(c) \/ WriteFails(c)
    PROVE  SnapshotInv'
<1>0. TypeOK /\ Writing(c)
  BY DEF SnapshotInv, Rename, WriteFails, Writing, WritePcs
<1>1. Taken(c) \in Answers
  BY <1>0 DEF Taken, Answers, TypeOK, Scans
<1>2. CASE Rename(c)
  <2>1. temp # None /\ file[c] = None
    BY <1>2 DEF SnapshotInv, TempReady, Handles, Rename
  <2>2. file' = [file EXCEPT ![c] = None]
    BY <1>0, <1>2, <2>1 DEF Rename, TypeOK
  <2> QED
    BY <1>0, <1>1, <1>2, <2>1, <2>2, EndKeeps DEF Rename
<1>3. CASE WriteFails(c)
  BY <1>0, <1>1, <1>3, EndKeeps DEF WriteFails
<1> QED
  BY <1>2, <1>3

LEMMA DiesKeeps ==
    ASSUME SnapshotInv, NEW p, Dies(p)
    PROVE  SnapshotInv'
<1>0. /\ TypeOK /\ OneWriter /\ Handles /\ TempReady /\ TempApart
      /\ Progress /\ Dated /\ LiveIsWhole
  BY DEF SnapshotInv
<1>1. /\ NoScan \in Scans /\ NoScan.purpose \in Purposes
      /\ NoScan.out < Total(NoScan.purpose)
      /\ NoScan.try <= Attempts(NoScan.purpose)
  <2>1. NoScan \in Scans /\ NoScan.purpose \in Purposes
    BY Numbers DEF Scans
  <2> QED
    BY <2>1, Numbers
<1>2. \A d \in Calls :
        \/ pc'[d] = "idle" /\ file'[d] = None /\ scan'[d] = NoScan
        \/ /\ pc'[d] = pc[d] /\ file'[d] = file[d]
           /\ scan'[d] = scan[d] /\ date'[d] = date[d]
  BY DEF Dies
<1>3. UNCHANGED <<live, temp, db, clock>>
  BY DEF Dies
<1>4. TypeOK'
  <2>1. deaths' \in 0..MaxDeaths
    BY <1>0, SnapshotAssumption DEF TypeOK, Dies
  <2>2. answer' \in [Calls -> Answers]
    BY <1>0, Numbers DEF TypeOK, Dies
  <2>3. scan' \in [Calls -> Scans] /\ date' \in [Calls -> Nat]
    BY <1>0, <1>1 DEF TypeOK, Dies
  <2>4. file' \in [Calls -> Inodes \cup {None}]
    BY <1>0 DEF TypeOK, Dies
  <2>5. pc' \in [Calls -> {"idle", "resolve", "open", "page"} \cup WritePcs]
    BY <1>0 DEF TypeOK, Dies
  <2>6. \A d \in Calls : scan'[d].try <= Attempts(scan'[d].purpose)
    BY <1>0, <1>1, <1>2 DEF TypeOK
  <2> QED
    BY <1>0, <1>3, <2>1, <2>2, <2>3, <2>4, <2>5, <2>6 DEF TypeOK
<1>5. OneWriter' /\ Handles' /\ TempReady' /\ Progress'
  BY <1>0, <1>1, <1>2, <1>3
  DEF OneWriter, Handles, TempReady, Progress, Writing, WritePcs
<1> QED
  BY <1>0, <1>3, <1>4, <1>5 DEF SnapshotInv, TempApart, Dated, LiveIsWhole

-----------------------------------------------------------------------------
LEMMA InitSnapshot == Init => SnapshotInv
<1> SUFFICES ASSUME Init PROVE SnapshotInv
  OBVIOUS
<1>1. /\ NoScan \in Scans /\ NoScan.purpose \in Purposes
      /\ NoScan.out < Total(NoScan.purpose)
      /\ NoScan.try <= Attempts(NoScan.purpose)
  <2>1. NoScan \in Scans /\ NoScan.purpose \in Purposes
    BY Numbers DEF Scans
  <2> QED
    BY <2>1, Numbers
<1>2. live \in Inodes \cup {None} /\ (live # None => live \in Inodes)
  BY SnapshotAssumption DEF Init
<1>3. db \in [Inodes -> Contents]
  BY Numbers DEF Init, Contents, Blank
<1>4. TypeOK
  BY <1>1, <1>2, <1>3, Numbers, SnapshotAssumption DEF Init, TypeOK
<1>5. /\ \A c \in Calls : pc[c] = "idle" /\ file[c] = None /\ scan[c] = NoScan
      /\ temp = None /\ clock = 0
  BY DEF Init
<1>6. OneWriter /\ Handles /\ TempReady /\ TempApart /\ Progress
  BY <1>1, <1>5
  DEF OneWriter, Handles, TempReady, TempApart, Progress, Writing, WritePcs
<1>7. live # None => /\ db[live].stage = "tables" /\ db[live].rows = Rows
                     /\ db[live].date = 0
  BY <1>2 DEF Init
<1>8. Dated /\ LiveIsWhole
  BY <1>5, <1>7 DEF Dated, LiveIsWhole
<1> QED
  BY <1>4, <1>6, <1>8 DEF SnapshotInv

LEMMA NextSnapshot ==
    ASSUME Assumed, SnapshotInv, [Next]_vars
    PROVE  SnapshotInv'
<1>1. CASE UNCHANGED vars
  BY <1>1
  DEF SnapshotInv, vars, TypeOK, OneWriter, Handles, TempReady, TempApart, Progress,
      Dated, LiveIsWhole, Writing
<1>2. ASSUME NEW c \in Calls, Ask(c) \/ Resolve(c) \/ OpenSession(c) \/ FetchPage(c)
      PROVE  SnapshotInv'
  BY <1>2, AsyncMoves, MovesKeep
<1>3. ASSUME NEW c \in Calls,
             Unlink(c) \/ Create(c) \/ Schema(c) \/ Fill(c) \/ Rename(c) \/ WriteFails(c)
      PROVE  SnapshotInv'
  BY <1>3, UnlinkKeeps, CreateKeeps, SchemaKeeps, FillKeeps, RenameKeeps
<1>4. ASSUME NEW p, Dies(p)
      PROVE  SnapshotInv'
  BY <1>4, DiesKeeps
<1> QED
  BY <1>1, <1>2, <1>3, <1>4 DEF Next, Step

(* The inductive invariant: one writer at a time, whose handle, temporary name,
   section count and date belong together, and a live file that is whole.      *)
THEOREM SnapshotInvariance == Assumed => (Spec => []SnapshotInv)
<1> SUFFICES ASSUME Assumed PROVE Spec => []SnapshotInv
  OBVIOUS
<1>1. Init => SnapshotInv
  BY InitSnapshot
<1>2. SnapshotInv /\ [Next]_vars => SnapshotInv'
  BY NextSnapshot
<1> QED
  BY <1>1, <1>2, PTL DEF Spec

(* Calls, scans, answers and files stay in their ranges, the attempts among them. *)
THEOREM SnapshotTypeCorrect == Assumed => (Spec => []TypeOK)
<1> SUFFICES ASSUME Assumed PROVE Spec => []TypeOK
  OBVIOUS
<1>1. Spec => []SnapshotInv
  BY SnapshotInvariance
<1>2. SnapshotInv => TypeOK
  BY DEF SnapshotInv
<1> QED
  BY <1>1, <1>2, PTL

(* clemson-classes.ts:628: what is read as the term is always one whole scan of
   it, through failing writes, deaths and throttled scans.                      *)
THEOREM OnlyWholeScans == Assumed => (Spec => []LiveIsWhole)
<1> SUFFICES ASSUME Assumed PROVE Spec => []LiveIsWhole
  OBVIOUS
<1>1. Spec => []SnapshotInv
  BY SnapshotInvariance
<1>2. SnapshotInv => LiveIsWhole
  BY DEF SnapshotInv
<1> QED
  BY <1>1, <1>2, PTL

\* Only the rename replaces what is read, and it comes with the present date.
LEMMA StepKeepsDate ==
    ASSUME Assumed, SnapshotInv, [Next]_vars, live # None
    PROVE  live' # None /\ db'[live'].date >= db[live].date
<1>0. /\ TypeOK /\ Dated /\ live \in Inodes /\ db[live].date \in Nat /\ clock \in Nat
  BY DEF SnapshotInv, TypeOK, Contents
<1>1. CASE live' = live /\ db' = db
  BY <1>0, <1>1
<1>2. ASSUME NEW c \in Calls, Create(c)
      PROVE  live' = live /\ db'[live] = db[live]
  <2>1. live \notin Free
    BY DEF Free, Used
  <2> QED
    BY <1>0, <1>2, <2>1 DEF Create, Write, TypeOK
<1>3. ASSUME NEW c \in Calls, Schema(c) \/ Fill(c)
      PROVE  live' = live /\ db'[live] = db[live]
  <2>1. pc[c] \in {"schema", "fill"}
    BY <1>3 DEF Schema, Fill, Write
  <2>2. file[c] # live
    BY <2>1, Apart
  <2> QED
    BY <1>0, <1>3, <2>2 DEF Schema, Fill, TypeOK
<1>4. ASSUME NEW c \in Calls, Rename(c)
      PROVE  live' # None /\ db'[live'].date >= db[live].date
  <2>1. temp # None /\ db[temp].date = clock /\ db[live].date <= clock
    BY <1>0, <1>4 DEF SnapshotInv, TempReady, Rename, Dated
  <2>2. live' = temp /\ db' = db
    BY <1>4, <2>1 DEF Rename
  <2> QED
    BY <1>0, <2>1, <2>2
<1>5. ASSUME NEW c \in Calls,
             \/ Ask(c) \/ Resolve(c) \/ OpenSession(c) \/ FetchPage(c)
             \/ Unlink(c) \/ WriteFails(c)
      PROVE  live' = live /\ db' = db
  BY <1>5 DEF Ask, Resolve, OpenSession, FetchPage, Unlink, WriteFails
<1>6. ASSUME NEW p, Dies(p)
      PROVE  live' = live /\ db' = db
  BY <1>6 DEF Dies
<1>7. CASE UNCHANGED vars
  BY <1>1, <1>7 DEF vars
<1>8. ASSUME live' = live, db'[live] = db[live]
      PROVE  live' # None /\ db'[live'].date >= db[live].date
  BY <1>0, <1>8
<1> QED
  BY <1>1, <1>2, <1>3, <1>4, <1>5, <1>6, <1>7, <1>8 DEF Next, Step

(* A snapshot only gives way to a later one. *)
THEOREM OnlyLaterScans == Assumed => (Spec => DateNeverMovesBack)
<1> SUFFICES ASSUME Assumed PROVE Spec => DateNeverMovesBack
  OBVIOUS
<1>1. Spec => []SnapshotInv
  BY SnapshotInvariance
<1>2. SnapshotInv /\ [Next]_vars =>
        [live # None => live' # None /\ db'[live'].date >= db[live].date]_vars
  BY StepKeepsDate
<1> QED
  BY <1>1, <1>2, PTL DEF Spec, DateNeverMovesBack

\* Each step that ends a call ends it with a failure or with sections.
LEMMA StepTells ==
    ASSUME Assumed, SnapshotInv, NoFalseEmpty, [Next]_vars
    PROVE  NoFalseEmpty'
<1>0. /\ answer \in [Calls -> Answers] /\ \A d \in Calls : Tells(answer[d])
      /\ Tells(Failed)
  BY Numbers DEF SnapshotInv, TypeOK, NoFalseEmpty, Tells
<1>1. ASSUME NEW c \in Calls, NEW a, Tells(a), answer' = [answer EXCEPT ![c] = a]
      PROVE  NoFalseEmpty'
  <2> SUFFICES ASSUME NEW d \in Calls
               PROVE  Tells(answer'[d])
    BY DEF NoFalseEmpty, Tells
  <2> QED
    BY <1>0, <1>1
<1>2. CASE UNCHANGED answer
  BY <1>2 DEF NoFalseEmpty
<1>3. ASSUME NEW c \in Calls, Ask(c) \/ Resolve(c) \/ OpenSession(c) \/ FetchPage(c)
      PROVE  NoFalseEmpty'
  <2>1. Ends(c) \/ UNCHANGED answer
    BY <1>3, AsyncMoves DEF Proceeds, Goes, StartWrite
  <2> QED
    BY <1>1, <1>2, <2>1 DEF Ends, Reply
<1>4. ASSUME NEW c \in Calls, Rename(c) \/ WriteFails(c)
      PROVE  NoFalseEmpty'
  <2>1. Writing(c)
    BY <1>4 DEF Rename, WriteFails, Writing, WritePcs
  <2>2. scan[c].out = Rows
    BY <2>1 DEF SnapshotInv, Progress
  <2>3. Tells(Taken(c))
    BY <2>2, Numbers DEF Tells, Taken
  <2> QED
    BY <1>1, <1>4, <2>3 DEF Rename, WriteFails, Reply
<1>5. ASSUME NEW c \in Calls, Unlink(c) \/ Create(c) \/ Schema(c) \/ Fill(c)
      PROVE  NoFalseEmpty'
  BY <1>2, <1>5 DEF Unlink, Create, Schema, Fill, Write
<1>6. ASSUME NEW p, Dies(p)
      PROVE  NoFalseEmpty'
  <2> SUFFICES ASSUME NEW d \in Calls
               PROVE  Tells(answer'[d])
    BY DEF NoFalseEmpty, Tells
  <2> QED
    BY <1>0, <1>6 DEF Dies
<1> QED
  BY <1>2, <1>3, <1>4, <1>5, <1>6 DEF Next, Step, vars

\* clemson-classes.ts:538: a session that is cold, a service that refuses or a
\* file without tables is told as a failure, never as a term without sections.
THEOREM FailuresAreTold == Assumed => (Spec => []NoFalseEmpty)
<1> SUFFICES ASSUME Assumed
             PROVE  Spec => []NoFalseEmpty
  OBVIOUS
<1>1. Init => NoFalseEmpty
  BY DEF Init, NoFalseEmpty, Failed
<1>2. SnapshotInv /\ NoFalseEmpty /\ [Next]_vars => NoFalseEmpty'
  BY StepTells
<1> QED
  BY <1>1, <1>2, SnapshotInvariance, PTL DEF Spec

\* Both together, clemson-classes.ts:628 and 538: the term is read as one whole
\* scan of it, or its reader is told of a failure.
THEOREM SnapshotHolds == Assumed => (Spec => []SnapshotIsTrue)
<1> SUFFICES ASSUME Assumed PROVE Spec => []SnapshotIsTrue
  OBVIOUS
<1>1. LiveIsWhole /\ NoFalseEmpty => SnapshotIsTrue
  BY DEF SnapshotIsTrue
<1> QED
  BY <1>1, OnlyWholeScans, FailuresAreTold, PTL

-----------------------------------------------------------------------------
(* The questions: rows, minutes and pairs *)

\* The rows of the snapshot are the published meetings that have a time, day by day.
IsRow(r, c, p) ==
    /\ r.crn = c /\ r.day \in p.days /\ r.start = p.start /\ r.end = p.end
    /\ r.building = p.building /\ r.room = p.room

Proper(r, c) ==
    /\ r.crn = c /\ r.day \in Days
    /\ r.start \in Nat /\ r.end \in Nat /\ r.start < r.end /\ r.end <= LastMinute

LEMMA TimedIs ==
    ASSUME NEW o \in Offers, NEW c \in Crns, NEW p \in o[c], p.start # Nil
    PROVE  /\ p.days \subseteq Days /\ p.start \in Nat /\ p.end \in Nat
           /\ p.start < p.end /\ p.end <= LastMinute
           /\ p.start # TBA /\ p.end # TBA /\ p.end # Nil
<1>1. /\ p \in Pattern /\ p.start < p.end /\ LastMinute \in Nat
      /\ Nil \notin Nat /\ TBA \notin Nat
  BY AdviceAssumption
<1>2. /\ p.days \subseteq Days
      /\ p.start \in 0 .. LastMinute /\ p.end \in 0 .. LastMinute
  BY <1>1 DEF Pattern
<1> QED
  BY <1>1, <1>2

LEMMA RowsAre ==
    ASSUME offer \in Offers, NEW c \in Crns
    PROVE  /\ \A r \in Inserted(c) : /\ Proper(r, c)
                                     /\ \E p \in offer[c] : p.start # Nil /\ IsRow(r, c, p)
           /\ \A p \in offer[c] : \A d \in p.days : p.start # Nil =>
                \E r \in Inserted(c) : r.day = d /\ IsRow(r, c, p)
<1>1. ASSUME NEW r \in Inserted(c)
      PROVE  Proper(r, c) /\ \E p \in offer[c] : p.start # Nil /\ IsRow(r, c, p)
  <2>1. PICK p \in offer[c] :
          /\ p.start # Nil /\ p.end # Nil
          /\ \E d \in p.days :
               r = [crn |-> c, day |-> d, start |-> p.start, end |-> p.end,
                    building |-> p.building, room |-> p.room]
    BY <1>1 DEF Inserted
  <2>2. IsRow(r, c, p)
    BY <2>1 DEF IsRow
  <2> QED
    BY <2>1, <2>2, TimedIs DEF Proper, IsRow
<1>2. ASSUME NEW p \in offer[c], NEW d \in p.days, p.start # Nil
      PROVE  \E r \in Inserted(c) : r.day = d /\ IsRow(r, c, p)
  <2>1. PICK r : r = [crn |-> c, day |-> d, start |-> p.start, end |-> p.end,
                      building |-> p.building, room |-> p.room]
    OBVIOUS
  <2>2. p.end # Nil
    BY <1>2, TimedIs
  <2>3. r \in Inserted(c)
    BY <1>2, <2>1, <2>2 DEF Inserted
  <2> QED
    BY <2>1, <2>3 DEF IsRow
<1> QED
  BY <1>1, <1>2

\* A section meets at the minutes of its rows.
At(r, x) == x[1] = r.day /\ r.start <= x[2] /\ x[2] < r.end

LEMMA MeetsAre ==
    ASSUME offer \in Offers, NEW c \in Crns
    PROVE  /\ \A x \in Meets(c) : x \in Days \X Nat /\ \E r \in Inserted(c) : At(r, x)
           /\ \A r \in Inserted(c), m \in Nat :
                r.start <= m /\ m < r.end => <<r.day, m>> \in Meets(c)
<1>0. LastMinute \in Nat
  BY AdviceAssumption
<1>1. ASSUME NEW x \in Meets(c)
      PROVE  x \in Days \X Nat /\ \E r \in Inserted(c) : At(r, x)
  <2>1. /\ x \in Days \X Minutes
        /\ \E p \in offer[c] : /\ p.start # Nil /\ x[1] \in p.days
                               /\ p.start <= x[2] /\ x[2] < p.end
    BY <1>1 DEF Meets
  <2>2. PICK p \in offer[c] : /\ p.start # Nil /\ x[1] \in p.days
                              /\ p.start <= x[2] /\ x[2] < p.end
    BY <2>1
  <2>3. PICK r \in Inserted(c) : r.day = x[1] /\ IsRow(r, c, p)
    BY <2>2, RowsAre
  <2> QED
    BY <1>0, <2>1, <2>2, <2>3 DEF At, IsRow, Minutes
<1>2. ASSUME NEW r \in Inserted(c), NEW m \in Nat, r.start <= m, m < r.end
      PROVE  <<r.day, m>> \in Meets(c)
  <2>1. PICK p \in offer[c] : p.start # Nil /\ IsRow(r, c, p)
    BY RowsAre
  <2>2. Proper(r, c)
    BY RowsAre
  <2>3. r.day \in Days /\ m \in Minutes
    BY <1>0, <1>2, <2>2 DEF Proper, Minutes
  <2> QED
    BY <1>2, <2>1, <2>3 DEF Meets, IsRow
<1> QED
  BY <1>1, <1>2

LEMMA NoRowsNoMinutes ==
    ASSUME offer \in Offers, NEW c \in Crns
    PROVE  /\ Inserted(c) = {} <=> Meets(c) = {}
           /\ \A r \in Inserted(c) : <<r.day, r.start>> \in Meets(c)
<1>1. \A r \in Inserted(c) : Proper(r, c)
  BY RowsAre
<1>2. \A r \in Inserted(c) : <<r.day, r.start>> \in Meets(c)
  BY <1>1, MeetsAre DEF Proper
<1> QED
  BY <1>2, MeetsAre

\* Two rows of one day overlap where their sections meet at one minute.
Clash(c, d) == Meets(c) \cap Meets(d) # {}

LEMMA ClashIs ==
    ASSUME offer \in Offers, NEW c \in Crns, NEW d \in Crns
    PROVE  Clash(c, d) <=> \E a \in Inserted(c), b \in Inserted(d) :
                             a.day = b.day /\ Overlaps(a, b)
<1>1. ASSUME NEW x \in Meets(c) \cap Meets(d)
      PROVE  \E a \in Inserted(c), b \in Inserted(d) : a.day = b.day /\ Overlaps(a, b)
  <2>1. PICK a \in Inserted(c) : At(a, x)
    BY MeetsAre
  <2>2. PICK b \in Inserted(d) : At(b, x)
    BY MeetsAre
  <2>3. Proper(a, c) /\ Proper(b, d) /\ x[2] \in Nat
    BY RowsAre, MeetsAre
  <2>4. PICK m \in Nat : a.start <= m /\ m < a.end /\ b.start <= m /\ m < b.end
    BY <2>1, <2>2, <2>3 DEF At
  <2>5. Overlaps(a, b)
    BY <2>3, <2>4 DEF Overlaps, Proper
  <2> QED
    BY <2>1, <2>2, <2>5 DEF At
<1>2. ASSUME NEW a \in Inserted(c), NEW b \in Inserted(d), a.day = b.day, Overlaps(a, b)
      PROVE  Clash(c, d)
  <2>1. Proper(a, c) /\ Proper(b, d)
    BY RowsAre
  <2>2. PICK m \in Nat : /\ a.start <= m /\ b.start <= m /\ m < a.end /\ m < b.end
    <3>1. CASE a.start <= b.start
      BY <1>2, <2>1, <3>1 DEF Overlaps, Proper
    <3>2. CASE b.start < a.start
      BY <1>2, <2>1, <3>2 DEF Overlaps, Proper
    <3> QED
      BY <2>1, <3>1, <3>2 DEF Proper
  <2>3. <<a.day, m>> \in Meets(c) /\ <<b.day, m>> \in Meets(d)
    BY <2>2, MeetsAre
  <2> QED
    BY <1>2, <2>3 DEF Clash
<1> QED
  BY <1>1, <1>2 DEF Clash

\* What the snapshot says of meetings is what is published, and nobody has more
\* seats than there are.
Snapped ==
    snap # Nil => /\ snap.meets = [c \in Crns |-> Inserted(c)]
                  /\ snap.seats \in [Crns -> 0 .. MaxSeats]

\* The pairs that are found are those that clash, in the order of the listing.
LEMMA PairsAre ==
    ASSUME offer \in Offers, Snapped, snap # Nil, NEW S \in SUBSET Crns
    PROVE  /\ \A p \in FindConflicts(GetMeetings(S)) :
                /\ p.crn_a \in S /\ p.crn_b \in S /\ p.crn_a # p.crn_b
                /\ Clash(p.crn_a, p.crn_b)
           /\ \A c, d \in S : c < d /\ Clash(c, d) =>
                \E p \in FindConflicts(GetMeetings(S)) : p.crn_a = c /\ p.crn_b = d
<1>0. S \subseteq Crns /\ Crns \subseteq Nat
  BY AdviceAssumption
<1>1. \A r : r \in GetMeetings(S) <=> \E c \in S : r \in Inserted(c)
  BY <1>0 DEF GetMeetings, Snapped
<1>2. ASSUME NEW p \in FindConflicts(GetMeetings(S))
      PROVE  /\ p.crn_a \in S /\ p.crn_b \in S /\ p.crn_a # p.crn_b
             /\ Clash(p.crn_a, p.crn_b)
  <2>1. PICK a \in GetMeetings(S), b \in GetMeetings(S) :
          /\ a.crn < b.crn /\ a.day = b.day /\ Overlaps(a, b)
          /\ p = [crn_a |-> a.crn, crn_b |-> b.crn]
    BY <1>2 DEF FindConflicts
  <2>2. PICK c \in S : a \in Inserted(c)
    BY <1>1, <2>1
  <2>3. PICK d \in S : b \in Inserted(d)
    BY <1>1, <2>1
  <2>4. a.crn = c /\ b.crn = d
    BY <1>0, <2>2, <2>3, RowsAre DEF Proper
  <2>5. Clash(c, d)
    BY <1>0, <2>1, <2>2, <2>3, ClashIs
  <2> QED
    BY <1>0, <2>1, <2>4, <2>5
<1>3. ASSUME NEW c \in S, NEW d \in S, c < d, Clash(c, d)
      PROVE  \E p \in FindConflicts(GetMeetings(S)) : p.crn_a = c /\ p.crn_b = d
  <2>1. PICK a \in Inserted(c), b \in Inserted(d) : a.day = b.day /\ Overlaps(a, b)
    BY <1>0, <1>3, ClashIs
  <2>2. a.crn = c /\ b.crn = d
    BY <1>0, <2>1, RowsAre DEF Proper
  <2>3. a \in GetMeetings(S) /\ b \in GetMeetings(S)
    BY <1>1, <2>1
  <2>4. PICK x : x = <<a, b>>
    OBVIOUS
  <2>5. /\ x \in GetMeetings(S) \X GetMeetings(S)
        /\ x[1].crn < x[2].crn /\ x[1].day = x[2].day /\ Overlaps(x[1], x[2])
        /\ x[1].crn = c /\ x[2].crn = d
    BY <1>3, <2>1, <2>2, <2>3, <2>4
  <2>6. [crn_a |-> x[1].crn, crn_b |-> x[2].crn] \in FindConflicts(GetMeetings(S))
    BY <2>5 DEF FindConflicts
  <2> QED
    BY <2>5, <2>6
<1> QED
  BY <1>2, <1>3

LEMMA ClashIsMutual == \A c, d : Clash(c, d) <=> Clash(d, c)
BY DEF Clash

\* Two different sections clash if and only if one of the two pairs is found.
LEMMA PairOf ==
    ASSUME offer \in Offers, Snapped, snap # Nil, NEW S \in SUBSET Crns,
           NEW c \in S, NEW d \in S, c # d
    PROVE  Clash(c, d) <=> \E p \in FindConflicts(GetMeetings(S)) :
                             \/ p.crn_a = c /\ p.crn_b = d
                             \/ p.crn_a = d /\ p.crn_b = c
<1>1. c \in Nat /\ d \in Nat
  BY AdviceAssumption
<1>2. c < d \/ d < c
  BY <1>1
<1> QED
  BY <1>2, PairsAre, ClashIsMutual

\* The sections outside that collide with one to be avoided.
LEMMA BlockedIs ==
    ASSUME offer \in Offers, Snapped, snap # Nil,
           NEW avoid \in SUBSET Crns, NEW candidates \in SUBSET Crns, NEW c \in candidates
    PROVE  c \in Blocked(avoid, candidates) <=>
             c \notin avoid /\ \E d \in avoid : Clash(c, d)
<1> DEFINE S == candidates \cup avoid
<1>1. S \in SUBSET Crns
  OBVIOUS
<1>2. c \in Blocked(avoid, candidates) <=>
        /\ c \notin avoid
        /\ \E p \in FindConflicts(GetMeetings(S)) :
             \/ p.crn_a \in avoid /\ p.crn_b = c
             \/ p.crn_b \in avoid /\ p.crn_a = c
  BY DEF Blocked
<1>3. ASSUME c \notin avoid, NEW d \in avoid
      PROVE  Clash(c, d) <=> \E p \in FindConflicts(GetMeetings(S)) :
                               \/ p.crn_a = c /\ p.crn_b = d
                               \/ p.crn_a = d /\ p.crn_b = c
  BY <1>1, <1>3, PairOf
<1> QED
  BY <1>2, <1>3

-----------------------------------------------------------------------------
(* The rules of a search, by rows and by minutes *)

LEMMA WishIs ==
    ASSUME NEW w \in Wishes
    PROVE  /\ w \in Wish
           /\ w.no_meeting_before # Nil => w.no_meeting_before \in Nat
           /\ w.no_meeting_after # Nil => w.no_meeting_after \in Nat
           /\ w.min_seats \in Nat /\ w.open_only \in BOOLEAN
BY AdviceAssumption DEF Wish

\* One time or day rule at a time.
LEMMA DayRule ==
    ASSUME offer \in Offers, NEW c \in Crns, NEW D
    PROVE  /\ (\A r \in Inserted(c) : r.day \in D) <=> (\A x \in Meets(c) : x[1] \in D)
           /\ (\A r \in Inserted(c) : r.day \notin D) <=> (\A x \in Meets(c) : x[1] \notin D)
<1>1. \A r \in Inserted(c) : \E x \in Meets(c) : x[1] = r.day
  BY NoRowsNoMinutes
<1>2. \A x \in Meets(c) : \E r \in Inserted(c) : x[1] = r.day
  BY MeetsAre DEF At
<1> QED
  BY <1>1, <1>2

LEMMA BeforeRule ==
    ASSUME offer \in Offers, NEW c \in Crns, NEW n \in Nat
    PROVE  (\A r \in Inserted(c) : r.start >= n) <=> (\A x \in Meets(c) : x[2] >= n)
<1>1. \A r \in Inserted(c) : Proper(r, c) /\ <<r.day, r.start>> \in Meets(c)
  BY RowsAre, NoRowsNoMinutes
<1>2. ASSUME \A r \in Inserted(c) : r.start >= n, NEW x \in Meets(c)
      PROVE  x[2] >= n
  <2>1. PICK r \in Inserted(c) : At(r, x)
    BY MeetsAre
  <2>2. x[2] \in Nat /\ r.start \in Nat /\ r.start >= n /\ r.start <= x[2]
    BY <1>1, <1>2, <2>1, MeetsAre DEF Proper, At
  <2> QED
    BY <2>2
<1>3. ASSUME \A x \in Meets(c) : x[2] >= n, NEW r \in Inserted(c)
      PROVE  r.start >= n
  BY <1>1, <1>3
<1> QED
  BY <1>2, <1>3

LEMMA AfterRule ==
    ASSUME offer \in Offers, NEW c \in Crns, NEW n \in Nat
    PROVE  (\A r \in Inserted(c) : r.end <= n) <=> (\A x \in Meets(c) : x[2] < n)
<1>1. \A r \in Inserted(c) : Proper(r, c)
  BY RowsAre
<1>2. ASSUME \A r \in Inserted(c) : r.end <= n, NEW x \in Meets(c)
      PROVE  x[2] < n
  <2>1. PICK r \in Inserted(c) : At(r, x)
    BY MeetsAre
  <2>2. x[2] \in Nat /\ r.end \in Nat /\ r.end <= n /\ x[2] < r.end
    BY <1>1, <1>2, <2>1, MeetsAre DEF Proper, At
  <2> QED
    BY <2>2
<1>3. ASSUME \A x \in Meets(c) : x[2] < n, NEW r \in Inserted(c)
      PROVE  r.end <= n
  <2>1. PICK m \in Nat : m + 1 = r.end /\ r.start <= m
    BY <1>1 DEF Proper
  <2>2. <<r.day, m>> \in Meets(c)
    BY <1>1, <2>1, MeetsAre DEF Proper
  <2>3. m < n
    BY <1>3, <2>2
  <2> QED
    BY <2>1, <2>3
<1> QED
  BY <1>2, <1>3

LEMMA StartRule ==
    ASSUME offer \in Offers, NEW c \in Crns, NEW n, n # Nil
    PROVE  (\E r \in Inserted(c) : r.start = n) <=>
             \E p \in offer[c] : p.days # {} /\ p.start = n
<1>1. ASSUME NEW r \in Inserted(c), r.start = n
      PROVE  \E p \in offer[c] : p.days # {} /\ p.start = n
  BY <1>1, RowsAre DEF IsRow
<1>2. ASSUME NEW p \in offer[c], p.days # {}, p.start = n
      PROVE  \E r \in Inserted(c) : r.start = n
  BY <1>2, RowsAre DEF IsRow
<1> QED
  BY <1>1, <1>2

\* For a section with meetings the rules say the same by rows and by minutes.
LEMMA FitsIs ==
    ASSUME offer \in Offers, Snapped, snap # Nil, NEW c \in Crns, NEW w \in Wishes
    PROVE  Meets(c) # {} => (Fits(c, w) <=> Suits(c, w))
<1> SUFFICES ASSUME Meets(c) # {}
             PROVE  Fits(c, w) <=> Suits(c, w)
  OBVIOUS
<1>1. snap.meets[c] = Inserted(c)
  BY DEF Snapped
<1>2. /\ (\A r \in Inserted(c) : r.day \in w.days_within)
           <=> \A x \in Meets(c) : x[1] \in w.days_within
      /\ (\A r \in Inserted(c) : r.day \notin w.exclude_days)
           <=> \A x \in Meets(c) : x[1] \notin w.exclude_days
  BY DayRule
<1>3. w.no_meeting_before # Nil =>
        ((\A r \in Inserted(c) : r.start >= w.no_meeting_before)
           <=> \A x \in Meets(c) : x[2] >= w.no_meeting_before)
  BY WishIs, BeforeRule
<1>4. w.no_meeting_after # Nil =>
        ((\A r \in Inserted(c) : r.end <= w.no_meeting_after)
           <=> \A x \in Meets(c) : x[2] < w.no_meeting_after)
  BY WishIs, AfterRule
<1>5. w.starts_at # Nil =>
        ((\E r \in Inserted(c) : r.start = w.starts_at)
           <=> \E p \in offer[c] : p.days # {} /\ p.start = w.starts_at)
  BY StartRule
<1> QED
  BY <1>1, <1>2, <1>3, <1>4, <1>5, Zenon DEF Fits, Suits

\* Without a time or day rule, or without meetings, there is nothing to meet.
LEMMA SuitsAnyway ==
    ASSUME NEW c \in Crns, NEW w \in Wishes, Meets(c) = {} \/ ~TimeDayGiven(w)
    PROVE  Suits(c, w)
BY DEF Suits, TimeDayGiven

-----------------------------------------------------------------------------
(* The invariant of the questions *)

Listings ==
    [kind : {"sections"}, wish : Wishes, avoid : SUBSET Crns, rule : BOOLEAN,
     sections : SUBSET Crns, without : SUBSET Crns, narrow : BOOLEAN,
     shown : [Crns -> 0 .. MaxSeats], stale : SUBSET Crns]

Verdicts ==
    [kind : {"verdict"}, fixed : SUBSET Crns, asked : SUBSET Crns, free : SUBSET Crns]

\* What is being built does not change while an answer is read.
Pending ==
    /\ reply.kind = "sections" =>
         /\ reply \in Listings
         /\ reply.wish.avoid => reply.avoid = fixed
         /\ reply.narrow => reply.sections = {} /\ reply.without = {}
    /\ reply.kind = "verdict" => reply \in Verdicts /\ reply.fixed \subseteq fixed

\* While a live query is under way nothing else happens but students' moves, and
\* what it has brought was true when it came.
Watching ==
    /\ waiting # {} => reply.kind = "sections" /\ \A c \in Crns : seats[c] \in seen[c]
    /\ \A c \in Crns : fetched[c] # Nil => fetched[c] \in seen[c]
    /\ IsFiniteSet(waiting)

Banners ==
    /\ offer \in Offers /\ seats \in [Crns -> 0 .. MaxSeats] /\ fixed \subseteq Crns
    /\ fetched \in [Crns -> (0 .. MaxSeats) \cup {Nil}]
    /\ seen \in [Crns -> SUBSET (0 .. MaxSeats)]
    /\ Snapped

AdviceInv ==
    /\ Banners /\ Pending /\ Watching
    /\ VerdictsAreExact /\ SearchesAreExact
    /\ SeatsAreLiveOrStale /\ NoClash /\ FreeIsUnused /\ PrintedIsPublished

-----------------------------------------------------------------------------
(* The parts of the invariant, step by step *)

SeatsAllow(c, w) == (w.open_only => snap.seats[c] > 0) /\ snap.seats[c] >= w.min_seats

LEMMA AllowedNext ==
    ASSUME offer' = offer, snap' = snap, NEW w, NEW avoid, NEW rule,
           reply'.wish = w, reply'.avoid = avoid, reply'.rule = rule
    PROVE  /\ \A c \in Crns : c \in Allowed' <=>
                /\ SeatsAllow(c, w)
                /\ rule => c \in RuleCourses
                /\ ~rule /\ w.among # Nil => c \in w.among
                /\ c \notin avoid => \A d \in avoid : ~Clash(c, d)
                /\ Suits(c, w)
           /\ \A c : c \in Timeless' <=> c \in Allowed' /\ TimeDayGiven(w) /\ Meets(c) = {}
           /\ Allowed' \subseteq Crns
<1>1. \A c : Meets(c)' = Meets(c)
  BY DEF Meets
<1>2. \A c : Suits(c, w)' <=> Suits(c, w)
  BY <1>1 DEF Suits
<1>3. \A c \in Crns : c \in Allowed' <=>
        /\ SeatsAllow(c, w)
        /\ rule => c \in RuleCourses
        /\ ~rule /\ w.among # Nil => c \in w.among
        /\ c \notin avoid => \A d \in avoid : ~Clash(c, d)
        /\ Suits(c, w)
  BY <1>1, <1>2 DEF Allowed, Clash, SeatsAllow
<1>4. \A c : c \in Timeless' <=> c \in Allowed' /\ TimeDayGiven(w) /\ Meets(c) = {}
  BY <1>1 DEF Timeless, TimeDayGiven
<1> QED
  BY <1>3, <1>4 DEF Allowed

\* What is exact stays so while the answer stays.
LEMMA AnswerStays ==
    ASSUME offer' = offer, reply' = reply
    PROVE  /\ VerdictsAreExact => VerdictsAreExact'
           /\ snap' = snap \/ reply.kind # "sections" =>
                (SearchesAreExact => SearchesAreExact')
           /\ PrintedIsPublished => PrintedIsPublished'
           /\ FreeIsUnused => FreeIsUnused'
<1>1. VerdictsAreExact => VerdictsAreExact'
  BY DEF VerdictsAreExact, Meets
<1>2. snap' = snap \/ reply.kind # "sections" => (SearchesAreExact => SearchesAreExact')
  BY DEF SearchesAreExact, Allowed, Timeless, Suits, Meets, TimeDayGiven
<1>3. PrintedIsPublished => PrintedIsPublished'
  BY DEF PrintedIsPublished, LineIsPublished, SameTime, Meets
<1>4. FreeIsUnused => FreeIsUnused'
  BY DEF FreeIsUnused, Unused
<1> QED
  BY <1>1, <1>2, <1>3, <1>4

LEMMA ScheduleStays ==
    ASSUME offer' = offer, fixed' \subseteq fixed, NoClash
    PROVE  NoClash'
BY DEF NoClash, Meets

LEMMA SnapStays ==
    ASSUME offer' = offer, snap' = snap, Snapped
    PROVE  Snapped'
BY DEF Snapped, Inserted

\* An answer of a tool that asks nobody.
LEMMA NewAnswer ==
    ASSUME AdviceInv, reply = NoReply, UNCHANGED <<banner, snap, fixed, overlay>>,
           Pending', VerdictsAreExact', FreeIsUnused', reply'.kind # "sections",
           PrintedIsPublished'
    PROVE  AdviceInv'
<1>1. /\ UNCHANGED <<offer, seats, snap, fixed, waiting, fetched, seen>>
      /\ reply.kind = "none"
  BY DEF banner, overlay, NoReply
<1>2. waiting = {} /\ waiting' = {}
  BY <1>1 DEF AdviceInv, Watching
<1>3. Banners'
  BY <1>1, SnapStays DEF AdviceInv, Banners
<1>4. Watching'
  BY <1>1, <1>2 DEF AdviceInv, Watching
<1>5. SearchesAreExact'
  BY DEF SearchesAreExact
<1>6. SeatsAreLiveOrStale'
  BY <1>1 DEF AdviceInv, SeatsAreLiveOrStale
<1>7. NoClash'
  BY <1>1, ScheduleStays DEF AdviceInv
<1> QED
  BY <1>3, <1>4, <1>5, <1>6, <1>7 DEF AdviceInv

LEMMA VerdictNext ==
    ASSUME offer' = offer, NEW with \in SUBSET Crns, NEW asked \in SUBSET Crns,
           NEW free, reply' = Verdict(with, asked, free), with \subseteq fixed, fixed' = fixed,
           \A c : c \in free <=> c \in asked /\ \A d \in (asked \cup with) \ {c} : ~Clash(c, d)
    PROVE  /\ Pending' /\ VerdictsAreExact' /\ reply'.kind = "verdict"
           /\ PrintedIsPublished' /\ FreeIsUnused'
<1>1. \A c : Meets(c)' = Meets(c)
  BY DEF Meets
<1>2. /\ reply'.kind = "verdict" /\ reply'.fixed = with /\ reply'.asked = asked
      /\ reply'.free = free
  BY DEF Verdict
<1>3. free \in SUBSET Crns
  OBVIOUS
<1>4. reply' \in Verdicts
  BY <1>3 DEF Verdict, Verdicts
<1>5. Pending'
  BY <1>2, <1>4 DEF Pending
<1>6. VerdictsAreExact'
  BY <1>1, <1>2 DEF VerdictsAreExact, Clash
<1>7. PrintedIsPublished'
  BY <1>2 DEF PrintedIsPublished
<1>8. FreeIsUnused'
  BY <1>2 DEF FreeIsUnused
<1> QED
  BY <1>2, <1>5, <1>6, <1>7, <1>8

LEMMA CheckKeeps ==
    ASSUME AdviceInv, NEW crns \in SUBSET Crns, CheckConflicts(crns)
    PROVE  AdviceInv'
<1>0. /\ offer \in Offers /\ Snapped /\ snap # Nil /\ reply = NoReply
      /\ UNCHANGED <<banner, snap, fixed, overlay>> /\ offer' = offer /\ fixed' = fixed
  BY DEF AdviceInv, Banners, CheckConflicts, Asks, banner
<1>1. PICK free : /\ reply' = Verdict({}, crns, free)
                  /\ free = crns \ UNION {{p.crn_a, p.crn_b} :
                                            p \in FindConflicts(GetMeetings(crns))}
  BY DEF CheckConflicts
<1>2. \A c : c \in free <=> c \in crns /\ ~\E p \in FindConflicts(GetMeetings(crns)) :
                                           p.crn_a = c \/ p.crn_b = c
  BY <1>1
<1>3. ASSUME NEW c \in crns
      PROVE  (\E p \in FindConflicts(GetMeetings(crns)) : p.crn_a = c \/ p.crn_b = c)
               <=> \E d \in (crns \cup {}) \ {c} : Clash(c, d)
  <2>1. ASSUME NEW p \in FindConflicts(GetMeetings(crns)), p.crn_a = c \/ p.crn_b = c
        PROVE  \E d \in crns \ {c} : Clash(c, d)
    BY <1>0, <2>1, PairsAre, ClashIsMutual
  <2>2. ASSUME NEW d \in crns \ {c}, Clash(c, d)
        PROVE  \E p \in FindConflicts(GetMeetings(crns)) : p.crn_a = c \/ p.crn_b = c
    BY <1>0, <2>2, PairOf
  <2> QED
    BY <2>1, <2>2
<1>4. \A c : c \in free <=> c \in crns /\ \A d \in (crns \cup {}) \ {c} : ~Clash(c, d)
  BY <1>2, <1>3
<1> QED
  BY <1>0, <1>1, <1>4, VerdictNext, NewAnswer

LEMMA WeighKeeps ==
    ASSUME AdviceInv, NEW candidates \in SUBSET Crns, FindConflictFree(candidates)
    PROVE  AdviceInv'
<1> DEFINE all == fixed \cup candidates
<1>0. /\ offer \in Offers /\ Snapped /\ snap # Nil /\ reply = NoReply
      /\ UNCHANGED <<banner, snap, fixed, overlay>> /\ offer' = offer /\ fixed' = fixed
      /\ fixed \in SUBSET Crns /\ all \in SUBSET Crns
  BY DEF AdviceInv, Banners, FindConflictFree, Asks, banner
<1> DEFINE against(c) == {p \in FindConflicts(GetMeetings(all)) :
                            \/ p.crn_a = c /\ p.crn_b \in all
                            \/ p.crn_b = c /\ p.crn_a \in all}
           free == {c \in candidates : against(c) = {}}
<1>1. reply' = Verdict(fixed, candidates, free)
  BY Zenon DEF FindConflictFree
<1>4. \A c : c \in free <=>
        c \in candidates /\ ~\E p \in FindConflicts(GetMeetings(all)) :
                                   \/ p.crn_a = c /\ p.crn_b \in all
                                   \/ p.crn_b = c /\ p.crn_a \in all
  OBVIOUS
<1>2. ASSUME NEW c \in candidates
      PROVE  (\E p \in FindConflicts(GetMeetings(all)) : \/ p.crn_a = c /\ p.crn_b \in all
                                                         \/ p.crn_b = c /\ p.crn_a \in all)
               <=> \E d \in (candidates \cup fixed) \ {c} : Clash(c, d)
  <2>1. ASSUME NEW p \in FindConflicts(GetMeetings(all)), p.crn_a = c \/ p.crn_b = c
        PROVE  \E d \in (candidates \cup fixed) \ {c} : Clash(c, d)
    BY <1>0, <2>1, PairsAre, ClashIsMutual
  <2>2. ASSUME NEW d \in (candidates \cup fixed) \ {c}, Clash(c, d)
        PROVE  \E p \in FindConflicts(GetMeetings(all)) : \/ p.crn_a = c /\ p.crn_b \in all
                                                          \/ p.crn_b = c /\ p.crn_a \in all
    <3>1. c \in all /\ d \in all /\ c # d
      OBVIOUS
    <3> QED
      BY <1>0, <2>2, <3>1, PairOf
  <2> QED
    BY <2>1, <2>2
<1>3. \A c : c \in free <=>
        c \in candidates /\ \A d \in (candidates \cup fixed) \ {c} : ~Clash(c, d)
  BY <1>2, <1>4
<1> HIDE DEF free
<1> QED
  BY <1>0, <1>1, <1>3, VerdictNext, NewAnswer

\* A search lists sections, and may ask for their live seats.
LEMMA SubjectsAreFinite ==
    ASSUME NEW S \in SUBSET Crns
    PROVE  IsFiniteSet(Subjects(S)) /\ Cardinality(Subjects(S)) \in Nat
<1>1. IsFiniteSet(S)
  BY AdviceAssumption, FS_Subset
<1>2. PICK f : f = [c \in S |-> SubjectOf[c]]
  OBVIOUS
<1>3. f \in [S -> Subjects(S)] /\ \A t \in Subjects(S) : \E c \in S : f[c] = t
  BY <1>2 DEF Subjects
<1>4. f \in Surjection(S, Subjects(S))
  BY <1>3, Fun_IsSurj
<1> QED
  BY <1>1, <1>4, FS_Surjection, FS_CardinalityType

LEMMA ListingIs ==
    ASSUME Snapped, snap # Nil, NEW w \in Wishes, NEW rule \in BOOLEAN,
           NEW avoid \in SUBSET Crns, NEW sections \in SUBSET Crns,
           NEW without \in SUBSET Crns, NEW narrow \in BOOLEAN,
           reply' = Listing(w, avoid, rule, sections, without, narrow)
    PROVE  /\ reply' \in Listings
           /\ reply'.kind = "sections" /\ reply'.wish = w /\ reply'.avoid = avoid
           /\ reply'.rule = rule /\ reply'.sections = sections
           /\ reply'.without = without /\ reply'.narrow = narrow
<1>1. snap.seats \in [Crns -> 0 .. MaxSeats]
  BY DEF Snapped
<1> QED
  BY <1>1 DEF Listing, Listings

LEMMA SearchKeeps ==
    ASSUME AdviceInv, Asks, UNCHANGED <<banner, snap, fixed>>,
           NEW w \in Wishes, NEW rule \in BOOLEAN, NEW sections \in SUBSET Crns,
           NEW without \in SUBSET Crns, NEW narrow \in BOOLEAN,
           reply' = Listing(w, Avoided(w), rule, sections, without, narrow),
           narrow => sections = {} /\ without = {},
           StartsOverlay(w, sections), SearchesAreExact'
    PROVE  AdviceInv'
<1>0. /\ offer' = offer /\ seats' = seats /\ snap' = snap /\ fixed' = fixed
      /\ snap # Nil /\ reply.kind = "none"
  BY DEF banner, Asks, NoReply
<1>1. /\ offer \in Offers /\ seats \in [Crns -> 0 .. MaxSeats] /\ fixed \in SUBSET Crns
      /\ Snapped /\ waiting = {}
  BY <1>0 DEF AdviceInv, Banners, Watching
<1>2. /\ reply' \in Listings /\ reply'.kind = "sections" /\ reply'.wish = w
      /\ reply'.avoid = Avoided(w) /\ reply'.sections = sections
      /\ reply'.without = without /\ reply'.narrow = narrow
  BY <1>0, <1>1, ListingIs DEF Avoided
<1>3. Pending'
  BY <1>0, <1>2 DEF Pending, Avoided
<1>4. IsFiniteSet(Subjects(sections)) /\ Cardinality(Subjects(sections)) \in Nat
  BY SubjectsAreFinite
<1>5. VerdictsAreExact' /\ PrintedIsPublished' /\ FreeIsUnused'
  BY <1>2 DEF VerdictsAreExact, PrintedIsPublished, FreeIsUnused
<1>6. Snapped' /\ NoClash'
  BY <1>0, <1>1, SnapStays, ScheduleStays DEF AdviceInv
<1>7. MaxRefreshSubjects \in Nat
  BY AdviceAssumption
<1>8. CASE AsksLive(w, sections) /\ sections # {}
  <2>1. /\ waiting' = Subjects(sections) /\ fetched' = NoLive
        /\ seen' = [c \in Crns |-> {seats[c]}]
    BY <1>8 DEF StartsOverlay
  <2>2. Subjects(sections) # {} /\ Cardinality(Subjects(sections)) <= MaxRefreshSubjects
    BY <1>8 DEF AsksLive, Subjects
  <2>3. Watching'
    BY <1>0, <1>2, <1>4, <2>1 DEF Watching, NoLive
  <2>4. Banners'
    BY <1>0, <1>1, <1>6, <2>1 DEF Banners, NoLive
  <2>5. SeatsAreLiveOrStale'
    BY <2>1, <2>2 DEF SeatsAreLiveOrStale
  <2> QED
    BY <1>3, <1>5, <1>6, <2>3, <2>4, <2>5 DEF AdviceInv
<1>9. CASE ~(AsksLive(w, sections) /\ sections # {})
  <2>1. waiting' = waiting /\ fetched' = fetched /\ seen' = seen
    BY <1>9 DEF StartsOverlay, overlay
  <2>2. Watching' /\ Banners'
    BY <1>0, <1>1, <1>6, <2>1 DEF AdviceInv, Watching, Banners
  <2>3. w.refresh => sections = {} \/ Cardinality(Subjects(sections)) > MaxRefreshSubjects
    BY <1>4, <1>7, <1>9 DEF AsksLive
  <2>4. SeatsAreLiveOrStale'
    BY <1>2, <2>1, <2>3 DEF AdviceInv, SeatsAreLiveOrStale
  <2> QED
    BY <1>3, <1>5, <1>6, <2>2, <2>4 DEF AdviceInv
<1> QED
  BY <1>8, <1>9

\* What passes the exclusions and the rules is what the wish allows.
LEMMA PassesIs ==
    ASSUME offer \in Offers, Snapped, snap # Nil, NEW w \in Wishes,
           NEW avoid \in SUBSET Crns, NEW candidates \in SUBSET Crns, NEW c \in candidates
    PROVE  Passes(c, w, avoid, candidates) <=>
             /\ SeatsAllow(c, w)
             /\ c \notin avoid => \A d \in avoid : ~Clash(c, d)
BY BlockedIs DEF Passes, SeatsAllow

LEMMA EligibleKeeps ==
    ASSUME AdviceInv, NEW w \in Wishes, FindEligible(w)
    PROVE  AdviceInv'
<1> DEFINE passed == {c \in RuleCourses : Passes(c, w, Avoided(w), RuleCourses)}
           without == WithoutMeetings(passed, w)
           sections == {c \in passed \ without : Fits(c, w)}
<1>0. /\ Asks /\ UNCHANGED <<banner, snap, fixed>> /\ offer' = offer
      /\ snap # Nil /\ ~NotForRules(w)
      /\ reply' = Listing(w, Avoided(w), TRUE, sections, without, FALSE)
      /\ StartsOverlay(w, sections)
  BY DEF FindEligible, Asks, banner
<1>1. /\ offer \in Offers /\ Snapped /\ Avoided(w) \in SUBSET Crns
      /\ RuleCourses \in SUBSET Crns
  BY AdviceAssumption DEF AdviceInv, Banners, Avoided
<1>2. /\ \A c : c \in passed <=> c \in RuleCourses /\ Passes(c, w, Avoided(w), RuleCourses)
      /\ \A c : c \in without <=> c \in passed /\ TimeDayGiven(w) /\ snap.meets[c] = {}
      /\ \A c : c \in sections <=> c \in passed /\ c \notin without /\ Fits(c, w)
  BY DEF WithoutMeetings
<1> HIDE DEF passed, without, sections
<1>3. without \in SUBSET Crns /\ sections \in SUBSET Crns
  BY <1>1, <1>2
<1>4. /\ reply'.wish = w /\ reply'.avoid = Avoided(w) /\ reply'.rule = TRUE
      /\ reply'.sections = sections /\ reply'.without = without /\ reply'.kind = "sections"
      /\ reply'.narrow = FALSE
  BY <1>0, <1>1, <1>3, ListingIs
<1>5. /\ \A c \in Crns : c \in Allowed' <=>
           /\ SeatsAllow(c, w) /\ c \in RuleCourses
           /\ c \notin Avoided(w) => \A d \in Avoided(w) : ~Clash(c, d)
           /\ Suits(c, w)
      /\ \A c : c \in Timeless' <=> c \in Allowed' /\ TimeDayGiven(w) /\ Meets(c) = {}
      /\ Allowed' \subseteq Crns
  BY <1>0, <1>4, AllowedNext
<1>6. \A c \in Crns : snap.meets[c] = {} <=> Meets(c) = {}
  BY <1>0, <1>1, NoRowsNoMinutes DEF Snapped
<1>7. \A c \in RuleCourses :
        Passes(c, w, Avoided(w), RuleCourses) <=>
          /\ SeatsAllow(c, w)
          /\ c \notin Avoided(w) => \A d \in Avoided(w) : ~Clash(c, d)
  BY <1>0, <1>1, PassesIs
<1>8. ASSUME NEW c \in Crns
      PROVE  /\ c \in sections <=> c \in Allowed' /\ c \notin Timeless'
             /\ c \in without <=> c \in Timeless'
  <2>1. Meets(c) # {} => (Fits(c, w) <=> Suits(c, w))
    BY <1>0, <1>1, FitsIs
  <2>2. Meets(c) = {} \/ ~TimeDayGiven(w) => Suits(c, w)
    BY SuitsAnyway
  <2>3. ~TimeDayGiven(w) => Fits(c, w)
    BY DEF TimeDayGiven, Fits
  <2> QED
    BY <1>1, <1>2, <1>5, <1>6, <1>7, <2>1, <2>2, <2>3
<1>9. SearchesAreExact'
  <2>1. sections = (Allowed \ Timeless)' /\ without = Timeless'
    BY <1>3, <1>5, <1>8
  <2> QED
    BY <1>4, <2>1 DEF SearchesAreExact
<1> QED
  BY <1>0, <1>3, <1>9, SearchKeeps

LEMMA FindKeeps ==
    ASSUME AdviceInv, NEW w \in Wishes, FindSections(w)
    PROVE  AdviceInv'
<1> DEFINE matches == Matches(w)
           narrow == Cardinality(matches) > NarrowThreshold
           sections == IF narrow THEN {} ELSE matches
<1>0. /\ Asks /\ UNCHANGED <<banner, snap, fixed>> /\ offer' = offer /\ snap # Nil
      /\ reply' = Listing(w, Avoided(w), FALSE, sections, {}, narrow)
      /\ StartsOverlay(w, sections)
  BY DEF FindSections, Asks, banner
<1>1. /\ offer \in Offers /\ Snapped /\ Avoided(w) \in SUBSET Crns
      /\ Offered(w) \in SUBSET Crns
  BY DEF AdviceInv, Banners, Avoided, Offered
<1>2. /\ \A c : c \in matches <=>
             /\ c \in Offered(w) /\ Passes(c, w, Avoided(w), Offered(w))
             /\ TimeDayGiven(w) => snap.meets[c] # {} /\ Fits(c, w)
      /\ matches \in SUBSET Crns
  BY <1>1 DEF Matches
<1>3. /\ sections \in SUBSET Crns /\ narrow \in BOOLEAN
      /\ narrow <=> Cardinality(matches) > NarrowThreshold
      /\ narrow => sections = {}
      /\ ~narrow => sections = matches
  BY <1>2
<1> HIDE DEF matches, narrow, sections
<1>4. /\ reply'.wish = w /\ reply'.avoid = Avoided(w) /\ reply'.rule = FALSE
      /\ reply'.sections = sections /\ reply'.without = {} /\ reply'.narrow = narrow
      /\ reply'.kind = "sections"
  BY <1>0, <1>1, <1>3, ListingIs
<1>5. /\ \A c \in Crns : c \in Allowed' <=>
           /\ SeatsAllow(c, w)
           /\ w.among # Nil => c \in w.among
           /\ c \notin Avoided(w) => \A d \in Avoided(w) : ~Clash(c, d)
           /\ Suits(c, w)
      /\ \A c : c \in Timeless' <=> c \in Allowed' /\ TimeDayGiven(w) /\ Meets(c) = {}
      /\ Allowed' \subseteq Crns
  BY <1>0, <1>4, AllowedNext
<1>6. \A c \in Crns : snap.meets[c] = {} <=> Meets(c) = {}
  BY <1>0, <1>1, NoRowsNoMinutes DEF Snapped
<1>7. \A c \in Offered(w) :
        Passes(c, w, Avoided(w), Offered(w)) <=>
          /\ SeatsAllow(c, w)
          /\ c \notin Avoided(w) => \A d \in Avoided(w) : ~Clash(c, d)
  BY <1>0, <1>1, PassesIs
<1>8. ASSUME NEW c \in Crns
      PROVE  c \in matches <=> c \in Allowed' /\ c \notin Timeless'
  <2>1. c \in Offered(w) <=> (w.among # Nil => c \in w.among)
    BY DEF Offered
  <2>2. Meets(c) # {} => (Fits(c, w) <=> Suits(c, w))
    BY <1>0, <1>1, FitsIs
  <2>3. Meets(c) = {} \/ ~TimeDayGiven(w) => Suits(c, w)
    BY SuitsAnyway
  <2> QED
    BY <1>2, <1>5, <1>6, <1>7, <2>1, <2>2, <2>3
<1>9. SearchesAreExact'
  <2>1. matches = (Allowed \ Timeless)'
    BY <1>2, <1>5, <1>8
  <2> QED
    BY <1>3, <1>4, <2>1 DEF SearchesAreExact
<1> QED
  BY <1>0, <1>3, <1>9, SearchKeeps

\* The overlay changes nothing but the seats shown.
LEMMA OverlaidIs ==
    ASSUME reply \in Listings, NEW failed,
           NEW got, \A c \in Crns : got[c] # Nil => got[c] \in 0 .. MaxSeats,
           reply' = Overlaid(got, failed)
    PROVE  /\ reply' \in Listings
           /\ reply'.kind = reply.kind /\ reply'.wish = reply.wish
           /\ reply'.avoid = reply.avoid /\ reply'.rule = reply.rule
           /\ reply'.sections = reply.sections /\ reply'.without = reply.without
           /\ reply'.narrow = reply.narrow
           /\ \A c \in reply.sections : IF got[c] = Nil THEN c \in reply'.stale
                                                        ELSE reply'.shown[c] = got[c]
<1>1. PICK shown : shown = [c \in Crns |-> IF c \in reply.sections /\ got[c] # Nil
                                             THEN got[c] ELSE reply.shown[c]]
  OBVIOUS
<1>2. PICK stale : stale = {c \in reply.sections : got[c] = Nil}
  OBVIOUS
<1>3. reply' = [reply EXCEPT !.shown = shown, !.stale = stale]
  BY <1>1, <1>2 DEF Overlaid
<1>4. reply.sections \subseteq Crns /\ reply.shown \in [Crns -> 0 .. MaxSeats]
  BY DEF Listings
<1>5. shown \in [Crns -> 0 .. MaxSeats] /\ stale \in SUBSET Crns
  BY <1>1, <1>2, <1>4
<1>6. /\ reply' \in Listings /\ reply'.shown = shown /\ reply'.stale = stale
      /\ reply'.kind = reply.kind /\ reply'.wish = reply.wish
      /\ reply'.avoid = reply.avoid /\ reply'.rule = reply.rule
      /\ reply'.sections = reply.sections /\ reply'.without = reply.without
      /\ reply'.narrow = reply.narrow
  BY <1>3, <1>5 DEF Listings
<1> QED
  BY <1>1, <1>2, <1>4, <1>6

LEMMA ExactStays ==
    ASSUME offer' = offer, snap' = snap, reply'.kind = reply.kind, reply'.wish = reply.wish,
           reply'.avoid = reply.avoid, reply'.rule = reply.rule,
           reply'.sections = reply.sections, reply'.without = reply.without,
           reply'.narrow = reply.narrow, SearchesAreExact
    PROVE  SearchesAreExact'
<1>1. \A c : Meets(c)' = Meets(c)
  BY DEF Meets
<1>2. Allowed' = Allowed
  BY <1>1 DEF Allowed, Suits
<1>3. Timeless' = Timeless
  BY <1>1, <1>2 DEF Timeless, TimeDayGiven
<1> QED
  BY <1>2, <1>3 DEF SearchesAreExact

LEMMA SettlesKeeps ==
    ASSUME AdviceInv, NEW subject, Settles(subject)
    PROVE  AdviceInv'
<1>0. /\ offer' = offer /\ seats' = seats /\ snap' = snap /\ fixed' = fixed /\ seen' = seen
      /\ subject \in waiting /\ waiting' = waiting \ {subject}
  BY DEF Settles, banner
<1>1. /\ offer \in Offers /\ fixed \in SUBSET Crns /\ Snapped
      /\ seats \in [Crns -> 0 .. MaxSeats]
      /\ fetched \in [Crns -> (0 .. MaxSeats) \cup {Nil}]
      /\ seen \in [Crns -> SUBSET (0 .. MaxSeats)]
  BY DEF AdviceInv, Banners
<1>2. /\ reply.kind = "sections" /\ reply \in Listings /\ IsFiniteSet(waiting)
      /\ \A c \in Crns : /\ seats[c] \in seen[c]
                         /\ fetched[c] # Nil => fetched[c] \in seen[c]
  BY <1>0 DEF AdviceInv, Watching, Pending
<1>3. IsFiniteSet(waiting') /\ Cardinality(waiting') <= MaxRefreshSubjects
  <2>1. waiting' \subseteq waiting
    BY <1>0
  <2>2. /\ IsFiniteSet(waiting') /\ Cardinality(waiting') <= Cardinality(waiting)
        /\ Cardinality(waiting') \in Nat /\ Cardinality(waiting) \in Nat
    BY <1>2, <2>1, FS_Subset, FS_CardinalityType
  <2>3. Cardinality(waiting) <= MaxRefreshSubjects /\ MaxRefreshSubjects \in Nat
    BY AdviceAssumption DEF AdviceInv, SeatsAreLiveOrStale
  <2> QED
    BY <2>2, <2>3
<1>4. PICK page, got :
        /\ got = [c \in Crns |-> IF c \in page THEN seats[c] ELSE fetched[c]]
        /\ IF waiting' = {}
             THEN /\ reply' = Overlaid(got, IF page = {} THEN subject ELSE Nil)
                  /\ fetched' = fetched
             ELSE fetched' = got /\ reply' = reply
  BY Zenon DEF Settles
<1>5. /\ got \in [Crns -> (0 .. MaxSeats) \cup {Nil}]
      /\ \A c \in Crns : got[c] # Nil => got[c] \in seen[c]
  BY <1>1, <1>2, <1>4
<1>6. Banners' /\ NoClash'
  BY <1>0, <1>1, <1>4, <1>5, SnapStays, ScheduleStays DEF AdviceInv, Banners
<1>7. Watching'
  BY <1>0, <1>2, <1>3, <1>4, <1>5 DEF Watching
<1>8. /\ reply' \in Listings
      /\ reply'.kind = reply.kind /\ reply'.wish = reply.wish
      /\ reply'.avoid = reply.avoid /\ reply'.rule = reply.rule
      /\ reply'.sections = reply.sections /\ reply'.without = reply.without
      /\ reply'.narrow = reply.narrow
      /\ waiting' = {} => \A c \in reply.sections :
                            IF got[c] = Nil THEN c \in reply'.stale
                                            ELSE reply'.shown[c] = got[c]
  <2>1. CASE waiting' = {}
    <3>1. \A c \in Crns : got[c] # Nil => got[c] \in 0 .. MaxSeats
      BY <1>5
    <3> QED
      BY <1>2, <1>4, <2>1, <3>1, OverlaidIs
  <2>2. CASE waiting' # {}
    BY <1>2, <1>4, <2>2
  <2> QED
    BY <2>1, <2>2
<1>9. Pending'
  BY <1>0, <1>2, <1>8 DEF AdviceInv, Pending
<1>10. VerdictsAreExact' /\ PrintedIsPublished' /\ FreeIsUnused'
  BY <1>2, <1>8 DEF VerdictsAreExact, PrintedIsPublished, FreeIsUnused, Listings
<1>11. SearchesAreExact'
  BY <1>0, <1>8, ExactStays DEF AdviceInv
<1>12. SeatsAreLiveOrStale'
  <2>1. \A c \in reply.sections : c \in Crns
    BY <1>2 DEF Listings
  <2>2. waiting' = {} => \A c \in reply'.sections :
                           reply'.shown[c] \in seen'[c] \/ c \in reply'.stale
    BY <1>0, <1>5, <1>8, <2>1
  <2> QED
    BY <1>3, <2>2 DEF SeatsAreLiveOrStale
<1> QED
  BY <1>6, <1>7, <1>9, <1>10, <1>11, <1>12 DEF AdviceInv

LEMMA MovesKeeps ==
    ASSUME AdviceInv, NEW c \in Crns, Moves(c)
    PROVE  AdviceInv'
<1>0. /\ offer' = offer /\ snap' = snap /\ fixed' = fixed /\ reply' = reply
      /\ waiting' = waiting /\ fetched' = fetched
      /\ waiting # {} \/ reply.kind = "none"
  BY DEF Moves, NoReply
<1>1. /\ offer \in Offers /\ Snapped /\ seats \in [Crns -> 0 .. MaxSeats]
      /\ seen \in [Crns -> SUBSET (0 .. MaxSeats)]
  BY DEF AdviceInv, Banners
<1>2. PICK n \in 0 .. MaxSeats :
        /\ seats' = [seats EXCEPT ![c] = n]
        /\ seen' = IF waiting = {} THEN seen ELSE [seen EXCEPT ![c] = @ \cup {n}]
  BY DEF Moves
<1>3. /\ seats' \in [Crns -> 0 .. MaxSeats] /\ seen' \in [Crns -> SUBSET (0 .. MaxSeats)]
      /\ \A d \in Crns : seen[d] \subseteq seen'[d]
      /\ \A d \in Crns : waiting # {} /\ seats[d] \in seen[d] => seats'[d] \in seen'[d]
  <2>1. CASE waiting = {}
    BY <1>1, <1>2, <2>1
  <2>2. CASE waiting # {}
    BY <1>1, <1>2, <2>2
  <2> QED
    BY <2>1, <2>2
<1>4. Banners' /\ NoClash'
  <2>1. Snapped'
    BY <1>0, <1>1, SnapStays
  <2>2. NoClash'
    BY <1>0, ScheduleStays DEF AdviceInv
  <2> QED
    BY <1>0, <1>1, <1>3, <2>1, <2>2 DEF AdviceInv, Banners
<1>5. Watching'
  BY <1>0, <1>3 DEF AdviceInv, Watching
<1>6. SeatsAreLiveOrStale'
  <2>1. waiting = {} => reply.kind = "none"
    BY <1>0
  <2> QED
    BY <1>0, <2>1 DEF AdviceInv, SeatsAreLiveOrStale
<1>7. Pending'
  BY <1>0 DEF AdviceInv, Pending
<1> QED
  BY <1>0, <1>4, <1>5, <1>6, <1>7, AnswerStays DEF AdviceInv

LEMMA RefreshKeeps ==
    ASSUME AdviceInv, Refresh
    PROVE  AdviceInv'
<1>0. /\ offer' = offer /\ seats' = seats /\ fixed' = fixed /\ reply' = reply
      /\ waiting' = waiting /\ fetched' = fetched /\ seen' = seen
      /\ snap' = [meets |-> [c \in Crns |-> Inserted(c)], seats |-> seats] /\ reply.kind = "none"
  BY DEF Refresh, banner, overlay, NoReply
<1>1. \A c : Inserted(c)' = Inserted(c)
  BY <1>0 DEF Inserted
<1>2. Banners'
  BY <1>0, <1>1 DEF AdviceInv, Banners, Snapped
<1>3. Watching' /\ Pending' /\ SeatsAreLiveOrStale'
  BY <1>0 DEF AdviceInv, Watching, Pending, SeatsAreLiveOrStale
<1>4. NoClash'
  BY <1>0, ScheduleStays DEF AdviceInv
<1> QED
  BY <1>0, <1>2, <1>3, <1>4, AnswerStays DEF AdviceInv

\* The agent has read the answer, and has a schedule that does not clash.
LEMMA ReadsKeeps ==
    ASSUME AdviceInv, NEW answered, Reads(answered), fixed' \subseteq Crns, NoClash'
    PROVE  AdviceInv'
<1>0. /\ offer' = offer /\ seats' = seats /\ snap' = snap
      /\ waiting' = waiting /\ waiting = {} /\ reply'.kind = "none"
      /\ fetched' = NoLive /\ seen' = [c \in Crns |-> {}]
  BY DEF Reads, banner, NoReply
<1>1. Snapped'
  BY <1>0, SnapStays DEF AdviceInv, Banners
<1>2. Banners'
  BY <1>0, <1>1 DEF AdviceInv, Banners, NoLive
<1>3. Watching' /\ Pending'
  BY <1>0 DEF AdviceInv, Watching, Pending, NoLive
<1>4. SeatsAreLiveOrStale'
  BY <1>0 DEF AdviceInv, SeatsAreLiveOrStale
<1>5. VerdictsAreExact' /\ SearchesAreExact' /\ PrintedIsPublished' /\ FreeIsUnused'
  BY <1>0 DEF VerdictsAreExact, SearchesAreExact, PrintedIsPublished, FreeIsUnused
<1> QED
  BY <1>2, <1>3, <1>4, <1>5 DEF AdviceInv

LEMMA TakeKeeps ==
    ASSUME AdviceInv, Take
    PROVE  AdviceInv'
<1>0. /\ offer' = offer /\ reply.kind = "sections" /\ reply.wish.avoid
      /\ Reads(reply.kind = "sections" /\ reply.wish.avoid)
  BY DEF Take, Reads, banner
<1>1. /\ reply \in Listings /\ reply.avoid = fixed /\ fixed \in SUBSET Crns /\ NoClash
      /\ reply.narrow => reply.sections = {} /\ reply.without = {}
  BY <1>0 DEF AdviceInv, Banners, Pending
<1>2. PICK c \in reply.sections \cup reply.without : fixed' = fixed \cup {c}
  BY DEF Take
<1>3. c \in Crns /\ ~reply.narrow
  BY <1>1, <1>2 DEF Listings
<1>4. c \in Allowed
  BY <1>0, <1>2, <1>3 DEF AdviceInv, SearchesAreExact, Timeless
<1>5. c \notin fixed => \A d \in fixed : Meets(c) \cap Meets(d) = {}
  BY <1>1, <1>4 DEF Allowed
<1>6. \A d : Meets(d)' = Meets(d)
  BY <1>0 DEF Meets
<1>7. \A d, e \in fixed' : d # e => Meets(d) \cap Meets(e) = {}
  BY <1>1, <1>2, <1>5 DEF NoClash
<1> QED
  BY <1>0, <1>1, <1>2, <1>3, <1>6, <1>7, ReadsKeeps DEF NoClash

LEMMA TakeFreeKeeps ==
    ASSUME AdviceInv, TakeFree
    PROVE  AdviceInv'
<1>0. /\ offer' = offer /\ reply.kind = "verdict" /\ Reads(reply.kind = "verdict")
      /\ fixed' = reply.fixed \cup reply.free
  BY DEF TakeFree, Reads, banner
<1>1. /\ reply \in Verdicts /\ reply.fixed \subseteq fixed /\ fixed \in SUBSET Crns /\ NoClash
      /\ reply.free = {c \in reply.asked :
                         \A d \in (reply.asked \cup reply.fixed) \ {c} :
                            Meets(c) \cap Meets(d) = {}}
  BY <1>0 DEF AdviceInv, Banners, Pending, VerdictsAreExact
<1>2. fixed' \subseteq Crns
  BY <1>0, <1>1 DEF Verdicts
<1>3. \A d : Meets(d)' = Meets(d)
  BY <1>0 DEF Meets
<1>4. ASSUME NEW c \in fixed', NEW d \in fixed', c # d
      PROVE  Meets(c) \cap Meets(d) = {}
  <2>1. CASE c \in reply.free
    BY <1>0, <1>1, <1>4, <2>1
  <2>2. CASE d \in reply.free
    BY <1>0, <1>1, <1>4, <2>2
  <2>3. CASE c \in reply.fixed /\ d \in reply.fixed
    BY <1>1, <1>4, <2>3 DEF NoClash
  <2> QED
    BY <1>0, <2>1, <2>2, <2>3
<1>5. NoClash'
  BY <1>3, <1>4 DEF NoClash
<1> QED
  BY <1>0, <1>2, <1>5, ReadsKeeps

LEMMA PassKeeps ==
    ASSUME AdviceInv, Pass
    PROVE  AdviceInv'
<1>0. offer' = offer /\ fixed' \in {fixed, {}} /\ Reads(reply # NoReply)
  BY DEF Pass, Reads, banner
<1>1. fixed' \subseteq fixed /\ fixed' \subseteq Crns
  BY <1>0 DEF AdviceInv, Banners
<1> QED
  BY <1>0, <1>1, ScheduleStays, ReadsKeeps DEF AdviceInv

-----------------------------------------------------------------------------
(* The room: steps and numbers *)

\* What is true of 0 and passed on is true up to the end.
LEMMA UpTo ==
    ASSUME NEW n \in Nat, NEW S, 0 \in S,
           \A k \in 0 .. n - 1 : k \in S => k + 1 \in S
    PROVE  \A k \in 0 .. n : k \in S
<1> DEFINE T == (0 .. n) \ S
<1> SUFFICES ASSUME T # {} PROVE FALSE
  OBVIOUS
<1>1. PICK R : R = {ss \in Nat \X Nat : ss[1] < ss[2]}
  OBVIOUS
<1>2. IsWellFoundedOn(R, Nat)
  BY <1>1, NatLessThanWellFounded DEF OpToRel
<1>3. T \subseteq Nat
  OBVIOUS
<1>4. PICK k \in T : \A y \in T : ~(<<y, k>> \in R)
  <2> HIDE DEF T
  <2> QED BY <1>2, <1>3, WFMin
<1>5. k # 0 /\ k - 1 \in 0 .. n - 1
  OBVIOUS
<1>7. k - 1 \notin T
  <2>1. <<k - 1, k>> \in R
    BY <1>1, <1>5
  <2> QED BY <1>4, <2>1
<1>6. k - 1 \in S
  BY <1>5, <1>7
<1> QED BY <1>5, <1>6

LEMMA MaxIs ==
    ASSUME NEW a \in Nat, NEW b \in Nat
    PROVE  /\ Max({a, b}) = IF a >= b THEN a ELSE b
           /\ Min({a, b}) = IF a <= b THEN a ELSE b
BY DEF Max, Min

\* A recursion over positions defines a function.
Recurs(f, n, A, a, g) ==
    /\ f \in [0 .. n -> A] /\ f[0] = a
    /\ \A i \in 1 .. n : f[i] = g[i][f[i - 1]]

LEMMA RecursionIs ==
    ASSUME NEW n \in Nat, NEW A, NEW a \in A, NEW g \in [1 .. n -> [A -> A]]
    PROVE  \E f : Recurs(f, n, A, a, g)
<1> DEFINE P(m, f) == /\ f \in [0 .. m -> A] /\ f[0] = a
                      /\ \A i \in 1 .. m : f[i] = g[i][f[i - 1]]
           S == {m \in 0 .. n : \E f : P(m, f)}
<1>1. 0 \in S
  <2>1. P(0, [i \in 0 .. 0 |-> a])
    OBVIOUS
  <2>2. 0 \in 0 .. n
    OBVIOUS
  <2> HIDE DEF P
  <2> QED BY <2>1, <2>2
<1>2. ASSUME NEW k \in 0 .. n - 1, k \in S PROVE k + 1 \in S
  <2>1. PICK f : P(k, f)
    BY <1>2
  <2> DEFINE h == [i \in 0 .. k + 1 |-> IF i = k + 1 THEN g[k + 1][f[k]] ELSE f[i]]
  <2>2. f[k] \in A /\ g[k + 1] \in [A -> A] /\ k + 1 \in 1 .. n
    BY <2>1
  <2>3. h \in [0 .. k + 1 -> A]
    BY <2>1, <2>2
  <2>7. h[0] = a
    BY <2>1
  <2>4. ASSUME NEW i \in 1 .. k + 1 PROVE h[i] = g[i][h[i - 1]]
    <3>1. CASE i = k + 1
      BY <3>1
    <3>2. CASE i \in 1 .. k
      <4>1. h[i] = f[i] /\ h[i - 1] = f[i - 1]
        BY <3>2
      <4> QED BY <4>1, <3>2, <2>1
    <3> QED BY <3>1, <3>2
  <2>5. P(k + 1, h)
    <3> HIDE DEF h
    <3> QED BY <2>3, <2>4, <2>7
  <2>6. k + 1 \in 0 .. n
    OBVIOUS
  <2> HIDE DEF P
  <2> QED BY <2>5, <2>6
<1>3. n \in S
  <2> HIDE DEF S
  <2>1. \A k \in 0 .. n : k \in S
    BY <1>1, <1>2, UpTo
  <2> QED BY <2>1
<1> QED BY <1>3 DEF Recurs

-----------------------------------------------------------------------------
(* The room: the order of the intervals *)

Interval == [s : Nat, e : Nat, crn : Crns]

\* The intervals are taken from the earliest to the last, each of them.
LEMMA OrderIs ==
    ASSUME NEW ivs, IsFiniteSet(ivs), ivs \subseteq Interval
    PROVE  /\ InOrder(ivs) \in Seq(ivs)
           /\ \A x \in ivs : \E i \in 1 .. Len(InOrder(ivs)) : InOrder(ivs)[i] = x
           /\ \A i, j \in 1 .. Len(InOrder(ivs)) :
                i < j => InOrder(ivs)[i].s <= InOrder(ivs)[j].s
<1> DEFINE Ahead(x) == {y \in ivs : Before(y, x)}
           n == Cardinality(ivs)
           rank == [x \in ivs |-> Cardinality(Ahead(x))]
<1>0. \A x \in ivs : /\ x.s \in Nat /\ x.e \in Nat /\ x.crn \in Nat
                     /\ x = [s |-> x.s, e |-> x.e, crn |-> x.crn]
  <2>1. Crns \subseteq Nat
    BY AdviceAssumption
  <2>2. \A x \in ivs : x \in [s : Nat, e : Nat, crn : Crns]
    BY DEF Interval
  <2> QED BY <2>1, <2>2
<1>1. n \in Nat
  BY FS_CardinalityType
<1>2. \A x \in ivs : ~Before(x, x)
  BY <1>0 DEF Before
<1>3. \A x, y \in ivs : x = y \/ Before(x, y) \/ Before(y, x)
  BY <1>0 DEF Before
<1>4. \A x, y, z \in ivs : Before(x, y) /\ Before(y, z) => Before(x, z)
  BY <1>0 DEF Before
<1>5. \A x, y \in ivs : Before(x, y) => x.s <= y.s
  BY <1>0 DEF Before
<1>6. \A x \in ivs : IsFiniteSet(Ahead(x)) /\ Cardinality(Ahead(x)) \in Nat
  <2> TAKE x \in ivs
  <2>1. Ahead(x) \in SUBSET ivs
    OBVIOUS
  <2> HIDE DEF Ahead
  <2> QED BY <2>1, FS_Subset, FS_CardinalityType
<1>7. \A x \in ivs : Cardinality(Ahead(x)) < n
  <2> TAKE x \in ivs
  <2>1. Ahead(x) \in SUBSET ivs /\ x \notin Ahead(x)
    BY <1>2
  <2> HIDE DEF Ahead
  <2>2. Cardinality(Ahead(x)) <= n /\ Cardinality(Ahead(x)) # n
    <3>1. Cardinality(Ahead(x)) <= Cardinality(ivs)
      BY <2>1, FS_Subset
    <3>2. Cardinality(ivs) = Cardinality(Ahead(x)) => ivs = Ahead(x)
      BY <2>1, FS_Subset
    <3> QED BY <3>1, <3>2, <2>1
  <2> QED BY <1>1, <1>6, <2>2
<1>8. \A x, y \in ivs : Before(x, y) => Cardinality(Ahead(x)) < Cardinality(Ahead(y))
  <2> TAKE x, y \in ivs
  <2> HAVE Before(x, y)
  <2>1. Ahead(x) \in SUBSET Ahead(y) /\ x \in Ahead(y) /\ x \notin Ahead(x)
    BY <1>2, <1>4
  <2> HIDE DEF Ahead
  <2>2. IsFiniteSet(Ahead(y))
    BY <1>6
  <2>3. Cardinality(Ahead(x)) <= Cardinality(Ahead(y))
    BY <2>1, <2>2, FS_Subset
  <2>4. Cardinality(Ahead(y)) = Cardinality(Ahead(x)) => Ahead(y) = Ahead(x)
    BY <2>1, <2>2, FS_Subset
  <2> QED BY <1>6, <2>1, <2>3, <2>4
<1>9. rank \in [ivs -> 0 .. n - 1]
  <2> HIDE DEF n, Ahead
  <2> QED BY <1>1, <1>6, <1>7
<1>10. \A x, y \in ivs : rank[x] = rank[y] => x = y
  <2> HIDE DEF n, Ahead
  <2> QED BY <1>3, <1>6, <1>8
<1>11. \A k \in 0 .. n - 1 : \E x \in ivs : rank[x] = k
  <2>1. rank \in Injection(ivs, 0 .. n - 1)
    <3> HIDE DEF rank, n
    <3> QED BY <1>9, <1>10 DEF Injection, IsInjective
  <2>2. IsFiniteSet(0 .. n - 1) /\ Cardinality(0 .. n - 1) = n
    <3> HIDE DEF n
    <3>1. 0 \in Int /\ n - 1 \in Int
      BY <1>1
    <3>2. IsFiniteSet(0 .. n - 1)
          /\ Cardinality(0 .. n - 1) = IF 0 > n - 1 THEN 0 ELSE n - 1 - 0 + 1
      BY <3>1, FS_Interval
    <3> QED BY <1>1, <3>2
  <2>3. rank \in Surjection(ivs, 0 .. n - 1)
    <3> HIDE DEF rank
    <3> QED BY <2>1, <2>2, FS_Injection
  <2> HIDE DEF rank, n
  <2> QED BY <2>3 DEF Surjection
<1> DEFINE s == InOrder(ivs)
<1>12. s = [i \in 1 .. n |-> CHOOSE x \in ivs : Cardinality(Ahead(x)) = i - 1]
  BY DEF InOrder
<1>13. \A i \in 1 .. n : s[i] \in ivs /\ rank[s[i]] = i - 1
  <2> HIDE DEF s
  <2> TAKE i \in 1 .. n
  <2>1. i - 1 \in 0 .. n - 1
    <3> HIDE DEF n
    <3> QED BY <1>1
  <2>2. \E x \in ivs : Cardinality(Ahead(x)) = i - 1
    BY <1>11, <2>1
  <2>3. s[i] = CHOOSE x \in ivs : Cardinality(Ahead(x)) = i - 1
    <3> HIDE DEF n
    <3> QED BY <1>12
  <2> HIDE DEF Ahead, n
  <2> QED BY <2>2, <2>3
<1> HIDE DEF Ahead, n, rank, s
<1>14. s \in Seq(ivs) /\ Len(s) = n /\ DOMAIN s = 1 .. n
  <2>1. s \in [1 .. n -> ivs]
    BY <1>12, <1>13
  <2> QED BY <1>1, <2>1
<1>15. \A x \in ivs : \E i \in 1 .. n : s[i] = x
  <2> TAKE x \in ivs
  <2>1. rank[x] + 1 \in 1 .. n
    BY <1>1, <1>9
  <2>2. s[rank[x] + 1] \in ivs /\ rank[s[rank[x] + 1]] = rank[x]
    BY <1>1, <1>9, <1>13, <2>1
  <2> QED BY <1>10, <2>1, <2>2
<1>16. \A i, j \in 1 .. n : i < j => s[i].s <= s[j].s
  <2> TAKE i, j \in 1 .. n
  <2> HAVE i < j
  <2>1. s[i] \in ivs /\ s[j] \in ivs /\ rank[s[i]] = i - 1 /\ rank[s[j]] = j - 1
    BY <1>13
  <2>2. rank[s[i]] < rank[s[j]] /\ ~(rank[s[j]] < rank[s[i]])
    BY <1>1, <2>1
  <2>3. ~Before(s[j], s[i]) /\ s[i] # s[j]
    BY <1>8, <2>1, <2>2 DEF rank
  <2> QED BY <1>3, <1>5, <2>1, <2>3
<1> QED BY <1>14, <1>15, <1>16 DEF s

-----------------------------------------------------------------------------
(* The room: the blocks *)

Block == [s : Nat, e : Nat, crns : SUBSET Crns]

\* Blocks are not empty and lie apart, in their order.
Separate(bs) ==
    /\ bs \in Seq(Block)
    /\ \A i \in 1 .. Len(bs) : bs[i].s < bs[i].e
    /\ \A i, j \in 1 .. Len(bs) : i < j => bs[i].e < bs[j].s

Covers(b, t) == b.s <= t /\ t < b.e

Covered(bs, t) == \E i \in 1 .. Len(bs) : Covers(bs[i], t)

\* An interval that does not begin before the last block is put into it or after it.
LEMMA MergeIs ==
    ASSUME NEW bs, Separate(bs), NEW iv \in Interval, iv.s < iv.e,
           \A i \in 1 .. Len(bs) : bs[i].s <= iv.s
    PROVE  /\ Separate(Merge(bs, iv))
           /\ \A i \in 1 .. Len(Merge(bs, iv)) : Merge(bs, iv)[i].s <= iv.s
           /\ \A t \in Nat : Covered(Merge(bs, iv), t) <=> Covered(bs, t) \/ Covers(iv, t)
<1> DEFINE m == Merge(bs, iv)
           n == Len(bs)
<1>0. /\ n \in Nat /\ bs \in Seq(Block) /\ \A i \in 1 .. n : bs[i] \in Block
      /\ iv.s \in Nat /\ iv.e \in Nat /\ iv.crn \in Crns
  BY DEF Separate, Interval
<1>1. CASE bs # <<>> /\ iv.s <= Last(bs).e
  <2> DEFINE to == Max({bs[n].e, iv.e})
             b == [s |-> bs[n].s, e |-> to, crns |-> bs[n].crns \cup {iv.crn}]
  <2>1. n >= 1 /\ n \in 1 .. n /\ bs[n] \in Block /\ Last(bs) = bs[n]
    BY <1>0, <1>1 DEF Last
  <2>2. bs[n].e \in Nat /\ bs[n].s \in Nat /\ bs[n].crns \in SUBSET Crns
    BY <2>1 DEF Block
  <2>3. to = IF bs[n].e >= iv.e THEN bs[n].e ELSE iv.e
    BY <1>0, <2>2, MaxIs
  <2>4. m = Append(Front(bs), b)
    BY <1>1, <2>1 DEF Merge
  <2> HIDE DEF to
  <2>5. b \in Block /\ b.s = bs[n].s /\ b.e = to /\ to \in Nat
    BY <1>0, <2>2, <2>3 DEF Block
  <2> HIDE DEF b, m
  <2>6. /\ Front(bs) \in Seq(Block) /\ Len(Front(bs)) = n - 1
        /\ \A i \in 1 .. n - 1 : Front(bs)[i] = bs[i]
    <3>1. Front(bs) = [i \in 1 .. n - 1 |-> bs[i]]
      BY <1>0, <2>1 DEF Front
    <3>2. n - 1 \in Nat /\ \A i \in 1 .. n - 1 : bs[i] \in Block
      BY <1>0, <2>1
    <3>3. Front(bs) \in [1 .. n - 1 -> Block]
      BY <3>1, <3>2
    <3>4. Front(bs) \in Seq(Block)
      BY <3>2, <3>3
    <3>5. DOMAIN Front(bs) = 1 .. n - 1
      BY <3>3
    <3> QED BY <3>1, <3>2, <3>4, <3>5
  <2>7. /\ m \in Seq(Block) /\ Len(m) = n /\ m[n] = b
        /\ \A i \in 1 .. n - 1 : m[i] = bs[i]
    BY <2>1, <2>4, <2>5, <2>6
  <2>8. iv.s <= bs[n].e /\ bs[n].s <= iv.s /\ bs[n].s < bs[n].e
    BY <1>1, <2>1 DEF Separate
  <2>9. \A i \in 1 .. n : m[i].s = bs[i].s /\ (i < n => m[i].e = bs[i].e)
    BY <2>5, <2>7
  <2>10. Separate(m)
    <3>1. \A i \in 1 .. n : m[i].s < m[i].e
      <4> TAKE i \in 1 .. n
      <4>1. CASE i < n
        BY <2>9, <4>1 DEF Separate
      <4>2. CASE i = n
        BY <1>0, <2>2, <2>3, <2>5, <2>7, <2>8, <4>2
      <4> QED BY <4>1, <4>2
    <3>2. \A i, j \in 1 .. n : i < j => m[i].e < m[j].s
      BY <2>9 DEF Separate
    <3> QED BY <2>7, <3>1, <3>2 DEF Separate
  <2>11. \A i \in 1 .. n : m[i].s <= iv.s
    BY <2>9
  <2>12. ASSUME NEW t \in Nat
         PROVE  Covered(m, t) <=> Covered(bs, t) \/ Covers(iv, t)
    <3>1. \A i \in 1 .. n - 1 : Covers(m[i], t) <=> Covers(bs[i], t)
      BY <2>7
    <3>2. Covers(m[n], t) <=> Covers(bs[n], t) \/ Covers(iv, t)
      BY <1>0, <2>2, <2>3, <2>5, <2>7, <2>8 DEF Covers
    <3>3. Covered(m, t) <=> Covers(m[n], t) \/ \E i \in 1 .. n - 1 : Covers(m[i], t)
      <4>1. \A i \in 1 .. n : i = n \/ i \in 1 .. n - 1
        BY <2>1
      <4>2. 1 .. n - 1 \subseteq 1 .. n
        BY <2>1
      <4> QED BY <2>1, <2>7, <4>1, <4>2 DEF Covered
    <3>4. Covered(bs, t) <=> Covers(bs[n], t) \/ \E i \in 1 .. n - 1 : Covers(bs[i], t)
      <4>1. \A i \in 1 .. n : i = n \/ i \in 1 .. n - 1
        BY <2>1
      <4>2. 1 .. n - 1 \subseteq 1 .. n
        BY <2>1
      <4> QED BY <2>1, <4>1, <4>2 DEF Covered
    <3> QED BY <3>1, <3>2, <3>3, <3>4
  <2> QED BY <2>7, <2>10, <2>11, <2>12 DEF m
<1>2. CASE ~(bs # <<>> /\ iv.s <= Last(bs).e)
  <2> DEFINE b == [s |-> iv.s, e |-> iv.e, crns |-> {iv.crn}]
  <2>1. m = Append(bs, b)
    BY <1>2 DEF Merge
  <2>2. b \in Block /\ b.s = iv.s /\ b.e = iv.e
    BY <1>0 DEF Block
  <2> HIDE DEF b, m
  <2>3. /\ m \in Seq(Block) /\ Len(m) = n + 1 /\ m[n + 1] = b
        /\ \A i \in 1 .. n : m[i] = bs[i]
    BY <1>0, <2>1, <2>2
  <2>4. \A i \in 1 .. n : bs[i].e < iv.s
    <3> TAKE i \in 1 .. n
    <3>1. n \in 1 .. n /\ bs # <<>> /\ Last(bs) = bs[n]
      BY <1>0 DEF Last
    <3>2. bs[n].e < iv.s
      <4>1. bs[n].e \in Nat
        BY <1>0, <3>1 DEF Block
      <4> QED BY <1>0, <1>2, <3>1, <4>1
    <3>3. CASE i = n
      BY <3>2, <3>3
    <3>4. CASE i < n
      <4>1. bs[i].e < bs[n].s /\ bs[n].s < bs[n].e
        BY <3>1, <3>4 DEF Separate
      <4>2. bs[i].e \in Nat /\ bs[n].s \in Nat /\ bs[n].e \in Nat
        BY <1>0, <3>1 DEF Block
      <4> QED BY <1>0, <3>2, <4>1, <4>2
    <3> QED BY <1>0, <3>3, <3>4
  <2>5. Separate(m)
    <3>1. \A i \in 1 .. n + 1 : m[i].s < m[i].e
      <4> TAKE i \in 1 .. n + 1
      <4>1. CASE i \in 1 .. n
        BY <2>3, <4>1 DEF Separate
      <4>2. CASE i = n + 1
        BY <2>2, <2>3, <4>2
      <4> QED BY <1>0, <4>1, <4>2
    <3>2. \A i, j \in 1 .. n + 1 : i < j => m[i].e < m[j].s
      <4> TAKE i, j \in 1 .. n + 1
      <4> HAVE i < j
      <4>0. i \in 1 .. n
        BY <1>0
      <4>1. CASE j \in 1 .. n
        BY <2>3, <4>0, <4>1 DEF Separate
      <4>2. CASE j = n + 1
        BY <2>2, <2>3, <2>4, <4>0, <4>2
      <4> QED BY <1>0, <4>1, <4>2
    <3> QED BY <2>3, <3>1, <3>2 DEF Separate
  <2>6. \A i \in 1 .. n + 1 : m[i].s <= iv.s
    <3> TAKE i \in 1 .. n + 1
    <3>1. CASE i \in 1 .. n
      BY <2>3, <3>1
    <3>2. CASE i = n + 1
      BY <1>0, <2>2, <2>3, <3>2
    <3> QED BY <1>0, <3>1, <3>2
  <2>7. ASSUME NEW t \in Nat
        PROVE  Covered(m, t) <=> Covered(bs, t) \/ Covers(iv, t)
    <3>1. \A i \in 1 .. n + 1 : i \in 1 .. n \/ i = n + 1
      BY <1>0
    <3>2. 1 .. n \subseteq 1 .. n + 1 /\ n + 1 \in 1 .. n + 1
      BY <1>0
    <3>3. Covers(m[n + 1], t) <=> Covers(iv, t)
      BY <2>2, <2>3 DEF Covers
    <3>4. \A i \in 1 .. n : Covers(m[i], t) <=> Covers(bs[i], t)
      BY <2>3
    <3> QED BY <2>3, <3>1, <3>2, <3>3, <3>4 DEF Covered
  <2> QED BY <2>3, <2>5, <2>6, <2>7 DEF m
<1> QED BY <1>1, <1>2

LEMMA MergedIs ==
    ASSUME NEW ivs \in Seq(Interval)
    PROVE  /\ Merged(ivs)[0] = <<>>
           /\ \A i \in 1 .. Len(ivs) : Merged(ivs)[i] = Merge(Merged(ivs)[i - 1], ivs[i])
<1> DEFINE A == Seq(Block)
           n == Len(ivs)
           g == [i \in 1 .. n |-> [bs \in A |-> Merge(bs, ivs[i])]]
           Is(f) == f = [i \in 0 .. n |-> IF i = 0 THEN <<>> ELSE Merge(f[i - 1], ivs[i])]
<1>1. n \in Nat /\ <<>> \in A /\ \A i \in 1 .. n : ivs[i] \in Interval
  OBVIOUS
<1>2. ASSUME NEW bs \in A, NEW i \in 1 .. n PROVE Merge(bs, ivs[i]) \in A
  <2>1. ivs[i].s \in Nat /\ ivs[i].e \in Nat /\ ivs[i].crn \in Crns
    BY <1>1 DEF Interval
  <2>2. CASE bs # <<>> /\ ivs[i].s <= Last(bs).e
    <3>1. Len(bs) \in 1 .. Len(bs) /\ Last(bs) = bs[Len(bs)] /\ bs[Len(bs)] \in Block
      BY <2>2 DEF Last
    <3>2. Last(bs).s \in Nat /\ Last(bs).e \in Nat /\ Last(bs).crns \in SUBSET Crns
      BY <3>1 DEF Block
    <3>3. Max({Last(bs).e, ivs[i].e}) \in Nat
      BY <2>1, <3>2, MaxIs
    <3> DEFINE b == [s |-> Last(bs).s, e |-> Max({Last(bs).e, ivs[i].e}),
                     crns |-> Last(bs).crns \cup {ivs[i].crn}]
    <3>4. b \in Block
      BY <2>1, <3>2, <3>3 DEF Block
    <3>5. Merge(bs, ivs[i]) = Append(Front(bs), b)
      BY <2>2 DEF Merge
    <3>6. Front(bs) \in A
      BY <3>1 DEF Front
    <3> HIDE DEF b
    <3> QED BY <3>4, <3>5, <3>6
  <2>3. CASE ~(bs # <<>> /\ ivs[i].s <= Last(bs).e)
    <3> DEFINE b == [s |-> ivs[i].s, e |-> ivs[i].e, crns |-> {ivs[i].crn}]
    <3>1. b \in Block
      BY <2>1 DEF Block
    <3>2. Merge(bs, ivs[i]) = Append(bs, b)
      BY <2>3 DEF Merge
    <3> HIDE DEF b
    <3> QED BY <3>1, <3>2
  <2> QED BY <2>2, <2>3
<1>3. g \in [1 .. n -> [A -> A]]
  <2> HIDE DEF A, n
  <2> QED BY <1>2
<1>4. PICK f : Recurs(f, n, A, <<>>, g)
  <2> HIDE DEF g, A, n
  <2> QED BY <1>1, <1>3, RecursionIs
<1>5. Is(f)
  <2>1. \A i \in 1 .. n : f[i - 1] \in A
    BY <1>1, <1>4 DEF Recurs
  <2>2. \A i \in 0 .. n : f[i] = IF i = 0 THEN <<>> ELSE Merge(f[i - 1], ivs[i])
    <3> TAKE i \in 0 .. n
    <3>1. CASE i = 0
      BY <1>4, <3>1 DEF Recurs
    <3>2. CASE i \in 1 .. n
      <4>1. f[i] = g[i][f[i - 1]]
        BY <1>4, <3>2 DEF Recurs
      <4>2. g[i] = [bs \in A |-> Merge(bs, ivs[i])]
        BY <3>2
      <4>3. f[i - 1] \in A
        BY <2>1, <3>2
      <4> HIDE DEF g, A, n
      <4> QED BY <3>2, <4>1, <4>2, <4>3
    <3> QED BY <1>1, <3>1, <3>2
  <2> HIDE DEF A, n
  <2> QED BY <1>4, <2>2 DEF Recurs
<1>6. Merged(ivs) = CHOOSE h : Is(h)
  BY Zenon DEF Merged
<1>7. Is(Merged(ivs))
  <2> HIDE DEF Is
  <2> QED BY <1>5, <1>6
<1> DEFINE h == Merged(ivs)
<1> HIDE DEF h
<1>8. h = [i \in 0 .. n |-> IF i = 0 THEN <<>> ELSE Merge(h[i - 1], ivs[i])]
  BY <1>7 DEF h
<1>9. 0 \in 0 .. n /\ \A i \in 1 .. n : i \in 0 .. n /\ i # 0
  BY <1>1
<1> HIDE DEF n
<1>10. h[0] = <<>> /\ \A i \in 1 .. n : h[i] = Merge(h[i - 1], ivs[i])
  BY <1>8, <1>9
<1> QED BY <1>10 DEF h, n

-----------------------------------------------------------------------------
(* The room: the gaps *)

Window(q) == q.dayStart \in Nat /\ q.dayEnd \in Nat /\ q.minMinutes \in Nat

\* The minutes of the window that no block covers, and their longest runs.
Idle(bs, q) == {t \in q.dayStart .. q.dayEnd - 1 : ~Covered(bs, t)}

Runs(U, q) ==
    {x \in (q.dayStart .. q.dayEnd) \X (q.dayStart .. q.dayEnd) :
       /\ x[1] < x[2] /\ x[1] .. x[2] - 1 \subseteq U
       /\ x[1] = 0 \/ x[1] - 1 \notin U
       /\ x[2] \notin U}

\* From the end of a block, or of the night, to the beginning of the next one.
Between(bs, q, from, to) ==
    /\ from \in Nat /\ to \in Nat /\ q.dayStart <= from /\ to <= q.dayEnd
    /\ from = q.dayStart \/ \E i \in 1 .. Len(bs) : from = bs[i].e
    /\ to = q.dayEnd \/ \E i \in 1 .. Len(bs) : to = bs[i].s
    /\ \A t \in from .. to - 1 : ~Covered(bs, t)

LEMMA GapIs ==
    ASSUME NEW bs, Separate(bs), NEW q, Window(q), NEW from, NEW to, Between(bs, q, from, to),
           NEW x \in Nat \X Nat
    PROVE  x \in Runs(Idle(bs, q), q) /\ from <= x[1] /\ x[1] < to
             <=> from < to /\ x = <<from, to>>
<1> DEFINE U == Idle(bs, q)
<1>0. /\ q.dayStart \in Nat /\ q.dayEnd \in Nat /\ from \in Nat /\ to \in Nat
      /\ q.dayStart <= from /\ to <= q.dayEnd
      /\ x[1] \in Nat /\ x[2] \in Nat /\ x = <<x[1], x[2]>>
  BY DEF Window, Between
<1>1. \A t \in Nat : from <= t /\ t < to => t \in U
  <2> TAKE t \in Nat
  <2> HAVE from <= t /\ t < to
  <2>1. t \in from .. to - 1 /\ t \in q.dayStart .. q.dayEnd - 1
    BY <1>0
  <2> QED BY <2>1 DEF Between, Idle
<1>2. to \notin U
  <2>1. CASE to = q.dayEnd
    BY <1>0, <2>1 DEF Idle
  <2>2. ASSUME NEW i \in 1 .. Len(bs), to = bs[i].s PROVE to \notin U
    <3>1. bs[i].s < bs[i].e
      BY DEF Separate
    <3>2. Covered(bs, to)
      BY <1>0, <2>2, <3>1 DEF Covered, Covers
    <3> QED BY <3>2 DEF Idle
  <2> QED BY <2>1, <2>2 DEF Between
<1>3. from = 0 \/ from - 1 \notin U
  <2>1. CASE from = q.dayStart
    BY <1>0, <2>1 DEF Idle
  <2>2. ASSUME NEW i \in 1 .. Len(bs), from = bs[i].e PROVE from - 1 \notin U
    <3>1. bs[i].s < bs[i].e /\ bs[i] \in Block
      BY DEF Separate
    <3>2. bs[i].s \in Nat
      BY <3>1 DEF Block
    <3>3. bs[i].s <= from - 1 /\ from - 1 < bs[i].e
      BY <1>0, <2>2, <3>1, <3>2
    <3>4. Covered(bs, from - 1)
      BY <3>3 DEF Covered, Covers
    <3> QED BY <3>4 DEF Idle
  <2> QED BY <2>1, <2>2 DEF Between
<1> HIDE DEF U
<1>4. ASSUME x \in Runs(U, q), from <= x[1], x[1] < to
      PROVE  from < to /\ x = <<from, to>>
  <2>1. /\ x[1] < x[2] /\ x[2] \notin U /\ (x[1] = 0 \/ x[1] - 1 \notin U)
        /\ x[1] .. x[2] - 1 \subseteq U
    BY <1>4 DEF Runs
  <2>2. ASSUME from # x[1] PROVE FALSE
    <3>1. x[1] - 1 \in Nat /\ from <= x[1] - 1 /\ x[1] - 1 < to /\ x[1] # 0
      BY <1>0, <1>4, <2>2
    <3> QED BY <1>1, <2>1, <3>1
  <2>3. ~(x[2] < to)
    <3> SUFFICES ASSUME x[2] < to PROVE FALSE
      OBVIOUS
    <3>1. from <= x[2]
      BY <1>0, <1>4, <2>1
    <3> QED BY <1>0, <1>1, <2>1, <3>1
  <2>4. ~(to < x[2])
    <3> SUFFICES ASSUME to < x[2] PROVE FALSE
      OBVIOUS
    <3>1. to \in x[1] .. x[2] - 1
      BY <1>0, <1>4
    <3> QED BY <1>2, <2>1, <3>1
  <2>5. x[1] = from /\ x[2] = to
    BY <1>0, <2>2, <2>3, <2>4
  <2> QED BY <1>0, <1>4, <2>5
<1>5. ASSUME from < to, x = <<from, to>>
      PROVE  x \in Runs(U, q) /\ from <= x[1] /\ x[1] < to
  <2>1. x[1] = from /\ x[2] = to
    BY <1>5
  <2>2. from \in q.dayStart .. q.dayEnd /\ to \in q.dayStart .. q.dayEnd
    BY <1>0, <1>5
  <2>3. from .. to - 1 \subseteq U
    BY <1>0, <1>1
  <2>4. x \in (q.dayStart .. q.dayEnd) \X (q.dayStart .. q.dayEnd)
    BY <1>5, <2>2
  <2>5. x \in Runs(U, q)
    BY <1>2, <1>3, <1>5, <2>1, <2>3, <2>4 DEF Runs
  <2> QED BY <1>0, <1>5, <2>1, <2>5
<1> QED BY <1>4, <1>5 DEF U

\* The gaps found up to a minute.
Long(x, q) == x[2] - x[1] >= q.minMinutes

FreeUpTo(fs, bs, q, cur) ==
    /\ fs \in Seq(Nat \X Nat)
    /\ \A x \in Nat \X Nat :
         (\E k \in 1 .. Len(fs) : fs[k] = x)
           <=> x \in Runs(Idle(bs, q), q) /\ Long(x, q) /\ x[1] < cur
    /\ \A k \in 1 .. Len(fs) : fs[k][2] < cur
    /\ \A i, j \in 1 .. Len(fs) : i < j => fs[i][2] < fs[j][1]

LEMMA GapAdded ==
    ASSUME NEW bs, Separate(bs), NEW q, Window(q), NEW from, NEW to, Between(bs, q, from, to),
           NEW fs, FreeUpTo(fs, bs, q, from),
           NEW next \in Nat, from <= next, from < to => to < next,
           \A x \in Runs(Idle(bs, q), q) : from <= x[1] /\ x[1] < next => x[1] < to
    PROVE  FreeUpTo(fs \o FreeBlock(from, to, q), bs, q, next)
<1> DEFINE R == Runs(Idle(bs, q), q)
           new == <<from, to>>
           some == from < to /\ to - from >= q.minMinutes
           gs == fs \o FreeBlock(from, to, q)
<1>0. from \in Nat /\ to \in Nat /\ new \in Nat \X Nat /\ new[1] = from /\ new[2] = to
  BY DEF Between
<1>1. \A x \in Nat \X Nat : x \in R /\ from <= x[1] /\ x[1] < to <=> from < to /\ x = new
  BY GapIs
<1>2. \A x \in Nat \X Nat :
        x \in R /\ Long(x, q) /\ x[1] < next
          <=> \/ x \in R /\ Long(x, q) /\ x[1] < from
              \/ some /\ x = new
  <2> TAKE x \in Nat \X Nat
  <2>0. x[1] \in Nat
    OBVIOUS
  <2>1. ASSUME x \in R, Long(x, q), x[1] < next, ~(x[1] < from)
        PROVE  some /\ x = new
    <3>1. x[1] < to /\ from <= x[1]
      BY <1>0, <2>0, <2>1
    <3>2. from < to /\ x = new
      BY <1>1, <2>1, <3>1
    <3> QED BY <1>0, <2>1, <3>2 DEF Long
  <2>2. ASSUME some, x = new
        PROVE  x \in R /\ Long(x, q) /\ x[1] < next
    <3>1. x \in R
      BY <1>1, <2>2
    <3> QED BY <1>0, <2>2, <3>1 DEF Long
  <2>3. x[1] < from => x[1] < next
    BY <1>0, <2>0
  <2> HIDE DEF R, new, some
  <2> QED BY <2>1, <2>2, <2>3
<1> HIDE DEF R, new, some
<1>3. /\ fs \in Seq(Nat \X Nat) /\ Len(fs) \in Nat
      /\ \A x \in Nat \X Nat :
           (\E k \in 1 .. Len(fs) : fs[k] = x) <=> x \in R /\ Long(x, q) /\ x[1] < from
      /\ \A k \in 1 .. Len(fs) : fs[k] \in Nat \X Nat /\ fs[k][2] < from
      /\ \A i, j \in 1 .. Len(fs) : i < j => fs[i][2] < fs[j][1]
  BY DEF FreeUpTo, R
<1>4. CASE ~some
  <2>1. gs = fs
    BY <1>3, <1>4 DEF FreeBlock, some
  <2>2. \A k \in 1 .. Len(fs) : fs[k][2] < next
    <3> TAKE k \in 1 .. Len(fs)
    <3>1. fs[k][2] \in Nat /\ fs[k][2] < from
      BY <1>3
    <3> QED BY <1>0, <3>1
  <2> HIDE DEF gs
  <2> QED BY <1>2, <1>3, <1>4, <2>1, <2>2 DEF FreeUpTo, gs, R
<1>5. CASE some
  <2>1. gs = fs \o <<new>>
    BY <1>5 DEF FreeBlock, some, new
  <2> HIDE DEF gs
  <2>2. /\ gs \in Seq(Nat \X Nat) /\ Len(gs) = Len(fs) + 1 /\ gs[Len(fs) + 1] = new
        /\ \A k \in 1 .. Len(fs) : gs[k] = fs[k]
    BY <1>0, <1>3, <2>1
  <2>3. \A k : k \in 1 .. Len(gs) <=> k \in 1 .. Len(fs) \/ k = Len(fs) + 1
    BY <1>3, <2>2
  <2>4. to < next /\ from < next
    BY <1>0, <1>5 DEF some
  <2>5. \A k \in 1 .. Len(gs) : gs[k][2] < next
    <3> TAKE k \in 1 .. Len(gs)
    <3>1. CASE k \in 1 .. Len(fs)
      <4>1. fs[k][2] \in Nat /\ fs[k][2] < from
        BY <1>3, <3>1
      <4> QED BY <1>0, <2>2, <2>4, <3>1, <4>1
    <3>2. CASE k = Len(fs) + 1
      BY <1>0, <2>2, <2>4, <3>2
    <3> QED BY <2>3, <3>1, <3>2
  <2>6. \A i, j \in 1 .. Len(gs) : i < j => gs[i][2] < gs[j][1]
    <3> TAKE i, j \in 1 .. Len(gs)
    <3> HAVE i < j
    <3>1. i \in 1 .. Len(fs)
      BY <1>3, <2>2
    <3>2. CASE j \in 1 .. Len(fs)
      BY <1>3, <2>2, <3>1, <3>2
    <3>3. CASE j = Len(fs) + 1
      BY <1>0, <1>3, <2>2, <3>1, <3>3
    <3> QED BY <2>3, <3>2, <3>3
  <2>7. \A x \in Nat \X Nat :
          (\E k \in 1 .. Len(gs) : gs[k] = x) <=> (\E k \in 1 .. Len(fs) : fs[k] = x) \/ x = new
    BY <2>2, <2>3
  <2> QED BY <1>2, <1>3, <1>5, <2>2, <2>5, <2>6, <2>7 DEF FreeUpTo, gs, R
<1> QED BY <1>4, <1>5

LEMMA PastBlocksIs ==
    ASSUME NEW bs \in Seq(Block), NEW q, Window(q)
    PROVE  /\ PastBlocks(bs, q)[0] = [cur |-> q.dayStart, free |-> <<>>]
           /\ \A i \in 1 .. Len(bs) :
                PastBlocks(bs, q)[i] = PastBlock(PastBlocks(bs, q)[i - 1], bs[i], q)
<1> DEFINE A == [cur : Nat, free : Seq(Nat \X Nat)]
           a == [cur |-> q.dayStart, free |-> <<>>]
           n == Len(bs)
           g == [i \in 1 .. n |-> [acc \in A |-> PastBlock(acc, bs[i], q)]]
           Is(f) == f = [i \in 0 .. n |-> IF i = 0 THEN a ELSE PastBlock(f[i - 1], bs[i], q)]
<1>1. n \in Nat /\ a \in A /\ \A i \in 1 .. n : bs[i] \in Block
  BY DEF Window
<1>2. ASSUME NEW acc \in A, NEW i \in 1 .. n PROVE PastBlock(acc, bs[i], q) \in A
  <2>1. bs[i].s \in Nat /\ bs[i].e \in Nat /\ acc.cur \in Nat /\ acc.free \in Seq(Nat \X Nat)
    BY <1>1 DEF Block
  <2> DEFINE to == Min({bs[i].s, q.dayEnd})
             cur == Max({acc.cur, bs[i].e})
             gap == FreeBlock(acc.cur, to, q)
  <2>2. cur \in Nat /\ to \in Nat
    BY <2>1, MaxIs DEF Window
  <2>3. gap \in Seq(Nat \X Nat)
    <3> HIDE DEF to
    <3>1. PICK x : x = <<acc.cur, to>>
      OBVIOUS
    <3>2. gap = <<>> \/ gap = <<x>>
      BY <3>1 DEF FreeBlock
    <3>3. x \in Nat \X Nat
      BY <2>1, <2>2, <3>1
    <3> HIDE DEF gap
    <3>4. CASE gap = <<>>
      BY <3>4
    <3>5. CASE gap = <<x>>
      BY <3>3, <3>5
    <3> QED BY <3>2, <3>4, <3>5
  <2>4. acc.free \o gap \in Seq(Nat \X Nat)
    <3> HIDE DEF gap
    <3> QED BY <2>1, <2>3
  <2>5. PastBlock(acc, bs[i], q) = [cur |-> cur, free |-> acc.free \o gap]
    BY DEF PastBlock
  <2> HIDE DEF cur, gap
  <2> QED BY <2>2, <2>4, <2>5
<1>3. g \in [1 .. n -> [A -> A]]
  <2> HIDE DEF A, n
  <2> QED BY <1>2
<1>4. PICK f : Recurs(f, n, A, a, g)
  <2> HIDE DEF g, A, n, a
  <2> QED BY <1>1, <1>3, RecursionIs
<1>5. Is(f)
  <2>1. \A i \in 1 .. n : f[i - 1] \in A
    <3>1. f \in [0 .. n -> A] /\ \A i \in 1 .. n : i - 1 \in 0 .. n
      BY <1>1, <1>4 DEF Recurs
    <3> HIDE DEF A
    <3> QED BY <3>1
  <2>2. \A i \in 0 .. n : f[i] = IF i = 0 THEN a ELSE PastBlock(f[i - 1], bs[i], q)
    <3> TAKE i \in 0 .. n
    <3>1. CASE i = 0
      BY <1>4, <3>1 DEF Recurs
    <3>2. CASE i \in 1 .. n
      <4>1. f[i] = g[i][f[i - 1]]
        BY <1>4, <3>2 DEF Recurs
      <4>2. g[i] = [acc \in A |-> PastBlock(acc, bs[i], q)]
        BY <3>2
      <4>3. f[i - 1] \in A
        BY <2>1, <3>2
      <4> HIDE DEF g, A, n, a
      <4> QED BY <3>2, <4>1, <4>2, <4>3
    <3> QED BY <1>1, <3>1, <3>2
  <2> HIDE DEF A, n, a
  <2> QED BY <1>4, <2>2 DEF Recurs
<1>6. PastBlocks(bs, q) = CHOOSE h : Is(h)
  BY Zenon DEF PastBlocks
<1>7. Is(PastBlocks(bs, q))
  <2> HIDE DEF Is
  <2> QED BY <1>5, <1>6
<1> DEFINE h == PastBlocks(bs, q)
<1> HIDE DEF h
<1>8. h = [i \in 0 .. n |-> IF i = 0 THEN a ELSE PastBlock(h[i - 1], bs[i], q)]
  BY <1>7 DEF h
<1>9. 0 \in 0 .. n /\ \A i \in 1 .. n : i \in 0 .. n /\ i # 0
  BY <1>1
<1> HIDE DEF n, a
<1>10. h[0] = a /\ \A i \in 1 .. n : h[i] = PastBlock(h[i - 1], bs[i], q)
  BY <1>8, <1>9
<1> QED BY <1>10 DEF h, n, a

\* After the first blocks: how far they reach, and the gaps before that.
Past(acc, bs, q, j) ==
    /\ acc.cur \in Nat /\ q.dayStart <= acc.cur
    /\ \A i \in 1 .. j : bs[i].e <= acc.cur
    /\ acc.cur = q.dayStart \/ \E i \in 1 .. j : acc.cur = bs[i].e
    /\ FreeUpTo(acc.free, bs, q, acc.cur)

LEMMA PastStep ==
    ASSUME NEW bs, Separate(bs), NEW q, Window(q), NEW acc, NEW j \in 0 .. Len(bs) - 1,
           Past(acc, bs, q, j)
    PROVE  Past(PastBlock(acc, bs[j + 1], q), bs, q, j + 1)
<1> DEFINE b == bs[j + 1]
           from == acc.cur
           to == Min({b.s, q.dayEnd})
           next == Max({from, b.e})
<1>0. /\ bs \in Seq(Block) /\ Len(bs) \in Nat /\ j \in Nat /\ j + 1 \in 1 .. Len(bs)
      /\ q.dayStart \in Nat /\ q.dayEnd \in Nat /\ from \in Nat /\ q.dayStart <= from
  BY DEF Separate, Window, Past
<1>1. b.s \in Nat /\ b.e \in Nat /\ b.s < b.e
  <2>1. b \in Block /\ b.s < b.e
    BY <1>0 DEF Separate
  <2> QED BY <2>1 DEF Block
<1>2. /\ to = IF b.s <= q.dayEnd THEN b.s ELSE q.dayEnd
      /\ next = IF from >= b.e THEN from ELSE b.e
  BY <1>0, <1>1, MaxIs
<1>3. \A i \in 1 .. Len(bs) : bs[i].s \in Nat /\ bs[i].e \in Nat
  <2>1. \A i \in 1 .. Len(bs) : bs[i] \in Block
    BY <1>0
  <2> QED BY <2>1 DEF Block
<1>4. PastBlock(acc, b, q) = [cur |-> next, free |-> acc.free \o FreeBlock(from, to, q)]
  BY DEF PastBlock
<1> HIDE DEF to, next
<1>5. Between(bs, q, from, to)
  <2>1. to \in Nat /\ to <= q.dayEnd /\ to <= b.s /\ (to = q.dayEnd \/ to = b.s)
    BY <1>0, <1>1, <1>2
  <2>2. ASSUME NEW t \in from .. to - 1, NEW i \in 1 .. Len(bs), Covers(bs[i], t)
        PROVE  FALSE
    <3>0. t \in Nat /\ from <= t /\ t < to
      BY <1>0, <2>1
    <3>1. CASE i \in 1 .. j
      BY <1>0, <1>3, <2>2, <3>0, <3>1 DEF Covers, Past
    <3>2. CASE i = j + 1
      BY <1>0, <1>1, <2>1, <2>2, <3>0, <3>2 DEF Covers
    <3>3. CASE i > j + 1
      <4>1. b.e < bs[i].s
        BY <1>0, <3>3 DEF Separate
      <4> QED BY <1>0, <1>1, <1>3, <2>1, <2>2, <3>0, <4>1 DEF Covers
    <3> QED BY <1>0, <3>1, <3>2, <3>3
  <2>3. \A t \in from .. to - 1 : ~Covered(bs, t)
    BY <2>2 DEF Covered
  <2>4. from = q.dayStart \/ \E i \in 1 .. Len(bs) : from = bs[i].e
    BY <1>0 DEF Past
  <2>5. to = q.dayEnd \/ \E i \in 1 .. Len(bs) : to = bs[i].s
    BY <1>0, <2>1
  <2> QED BY <1>0, <2>1, <2>3, <2>4, <2>5 DEF Between
<1>6. next \in Nat /\ from <= next /\ b.e <= next /\ (from < to => to < next)
  BY <1>0, <1>1, <1>2
<1>7. ASSUME NEW x \in Runs(Idle(bs, q), q), from <= x[1], x[1] < next
      PROVE  x[1] < to
  <2>1. /\ x[1] \in q.dayStart .. q.dayEnd /\ x[2] \in q.dayStart .. q.dayEnd /\ x[1] < x[2]
        /\ x[1] .. x[2] - 1 \subseteq Idle(bs, q)
    BY DEF Runs
  <2>2. x[1] \in Nat /\ x[1] \in x[1] .. x[2] - 1
    BY <1>0, <2>1
  <2>3. x[1] < q.dayEnd /\ ~Covered(bs, x[1])
    BY <1>0, <2>1, <2>2 DEF Idle
  <2>4. ~Covers(b, x[1])
    BY <1>0, <2>3 DEF Covered
  <2> QED BY <1>0, <1>1, <1>2, <1>7, <2>2, <2>3, <2>4 DEF Covers
<1>8. FreeUpTo(acc.free \o FreeBlock(from, to, q), bs, q, next)
  <2>1. FreeUpTo(acc.free, bs, q, from)
    BY DEF Past
  <2> HIDE DEF from
  <2> QED BY <1>5, <1>6, <1>7, <2>1, GapAdded
<1>9. q.dayStart <= next
  BY <1>0, <1>6
<1>10. \A i \in 1 .. j + 1 : bs[i].e <= next
  <2> TAKE i \in 1 .. j + 1
  <2>1. CASE i = j + 1
    BY <1>6, <2>1
  <2>2. CASE i \in 1 .. j
    <3>1. bs[i].e <= from /\ bs[i].e \in Nat
      BY <1>0, <1>3, <2>2 DEF Past
    <3> QED BY <1>0, <1>6, <3>1
  <2> QED BY <1>0, <2>1, <2>2
<1>11. next = q.dayStart \/ \E i \in 1 .. j + 1 : next = bs[i].e
  <2>1. CASE next = b.e
    BY <1>0, <2>1
  <2>2. CASE next = from
    BY <1>0, <2>2 DEF Past
  <2> QED BY <1>2, <2>1, <2>2
<1> DEFINE fs == acc.free \o FreeBlock(from, to, q)
<1> HIDE DEF fs
<1>12. PastBlock(acc, b, q).cur = next /\ PastBlock(acc, b, q).free = fs
  <2>1. PastBlock(acc, b, q) = [cur |-> next, free |-> fs]
    BY <1>4 DEF fs
  <2> HIDE DEF b
  <2> QED BY <2>1
<1> QED BY <1>6, <1>8, <1>9, <1>10, <1>11, <1>12 DEF Past, fs

\* The gaps are the runs that are long enough, in their order.
LEMMA GapsAre ==
    ASSUME NEW bs, Separate(bs), NEW q, Window(q)
    PROVE  /\ Gaps(bs, q) \in Seq(Nat \X Nat)
           /\ \A x : (\E k \in 1 .. Len(Gaps(bs, q)) : Gaps(bs, q)[k] = x)
                       <=> x \in Runs(Idle(bs, q), q) /\ Long(x, q)
           /\ \A i, j \in 1 .. Len(Gaps(bs, q)) :
                i < j => Gaps(bs, q)[i][2] < Gaps(bs, q)[j][1]
<1> DEFINE n == Len(bs)
           h == PastBlocks(bs, q)
           S == {j \in 0 .. n : Past(h[j], bs, q, j)}
<1>0. /\ bs \in Seq(Block) /\ n \in Nat /\ 0 \in 0 .. n /\ n \in 0 .. n
      /\ q.dayStart \in Nat /\ q.dayEnd \in Nat
  BY DEF Separate, Window
<1>1. /\ h[0] = [cur |-> q.dayStart, free |-> <<>>]
      /\ \A i \in 1 .. n : h[i] = PastBlock(h[i - 1], bs[i], q)
  BY <1>0, PastBlocksIs
<1> HIDE DEF h
<1>2. 0 \in S
  <2>1. h[0].cur = q.dayStart /\ h[0].free = <<>>
    BY <1>1
  <2>2. FreeUpTo(<<>>, bs, q, q.dayStart)
    <3>1. ASSUME NEW x \in Runs(Idle(bs, q), q), x[1] < q.dayStart PROVE FALSE
      <4>1. x[1] \in q.dayStart .. q.dayEnd
        BY DEF Runs
      <4> QED BY <1>0, <3>1, <4>1
    <3> QED BY <3>1 DEF FreeUpTo
  <2>3. Past(h[0], bs, q, 0)
    BY <1>0, <2>1, <2>2 DEF Past
  <2> QED BY <1>0, <2>3
<1>3. ASSUME NEW k \in 0 .. n - 1, k \in S PROVE k + 1 \in S
  <2>1. k + 1 \in 1 .. n /\ k + 1 \in 0 .. n /\ k + 1 - 1 = k
    BY <1>0
  <2>2. h[k + 1] = PastBlock(h[k], bs[k + 1], q)
    BY <1>1, <2>1
  <2>3. Past(h[k + 1], bs, q, k + 1)
    BY <1>3, <2>2, PastStep
  <2> QED BY <2>1, <2>3
<1>4. Past(h[n], bs, q, n)
  <2> HIDE DEF n
  <2>1. 0 \in S /\ \A k \in 0 .. n - 1 : k \in S => k + 1 \in S
    BY <1>2, <1>3
  <2>2. n \in S
    <3> HIDE DEF S
    <3>1. \A k \in 0 .. n : k \in S
      BY <1>0, <2>1, UpTo
    <3> QED BY <1>0, <3>1
  <2> QED BY <2>2
<1> DEFINE last == h[n]
           from == last.cur
           next == from + q.dayEnd + 1
<1>5. Gaps(bs, q) = last.free \o FreeBlock(from, q.dayEnd, q)
  BY DEF Gaps, h
<1> HIDE DEF last
<1>6. from \in Nat /\ q.dayStart <= from /\ FreeUpTo(last.free, bs, q, from)
  BY <1>4 DEF Past, last
<1>7. Between(bs, q, from, q.dayEnd)
  <2>1. from = q.dayStart \/ \E i \in 1 .. Len(bs) : from = bs[i].e
    BY <1>4 DEF Past, last
  <2>2. ASSUME NEW t \in from .. q.dayEnd - 1, NEW i \in 1 .. Len(bs), Covers(bs[i], t)
        PROVE  FALSE
    <3>1. bs[i] \in Block /\ bs[i].e <= from
      BY <1>0, <1>4 DEF Past, last
    <3>2. bs[i].e \in Nat
      BY <3>1 DEF Block
    <3> QED BY <1>0, <1>6, <2>2, <3>1, <3>2 DEF Covers
  <2>3. \A t \in from .. q.dayEnd - 1 : ~Covered(bs, t)
    BY <2>2 DEF Covered
  <2> QED BY <1>0, <1>6, <2>1, <2>3 DEF Between
<1> DEFINE R == Runs(Idle(bs, q), q)
<1>8. \A x \in R : x[1] \in Nat /\ x[1] < q.dayEnd /\ x \in Nat \X Nat
  <2> TAKE x \in R
  <2>1. x \in (q.dayStart .. q.dayEnd) \X (q.dayStart .. q.dayEnd) /\ x[1] < x[2]
    BY DEF Runs
  <2> QED BY <1>0, <2>1
<1> HIDE DEF from, R
<1>9. next \in Nat /\ from <= next /\ q.dayEnd < next
  BY <1>0, <1>6
<1> HIDE DEF next
<1>10. FreeUpTo(last.free \o FreeBlock(from, q.dayEnd, q), bs, q, next)
  BY <1>6, <1>7, <1>8, <1>9, GapAdded DEF R
<1> DEFINE gs == Gaps(bs, q)
<1> HIDE DEF gs
<1>11. FreeUpTo(gs, bs, q, next)
  BY <1>5, <1>10 DEF gs, from
<1>12. \A x : (\E k \in 1 .. Len(gs) : gs[k] = x) <=> x \in R /\ Long(x, q)
  <2> TAKE x
  <2>1. (\E k \in 1 .. Len(gs) : gs[k] = x) => x \in Nat \X Nat
    BY <1>11 DEF FreeUpTo
  <2>2. x \in R => x \in Nat \X Nat /\ x[1] < next
    BY <1>0, <1>8, <1>9
  <2>3. x \in Nat \X Nat =>
          ((\E k \in 1 .. Len(gs) : gs[k] = x) <=> x \in R /\ Long(x, q) /\ x[1] < next)
    BY <1>11 DEF FreeUpTo, R
  <2> QED BY <2>1, <2>2, <2>3
<1> QED BY <1>11, <1>12 DEF FreeUpTo, gs, R

-----------------------------------------------------------------------------
(* The room: its classes *)

\* Merged from the earliest to the last, intervals cover what they covered.
LEMMA BlocksAre ==
    ASSUME NEW ivs, IsFiniteSet(ivs), ivs \subseteq Interval, \A iv \in ivs : iv.s < iv.e
    PROVE  LET o == InOrder(ivs)
               bs == Merged(o)[Len(o)]
           IN  /\ Separate(bs)
               /\ \A t \in Nat : Covered(bs, t) <=> \E iv \in ivs : Covers(iv, t)
<1> DEFINE o == InOrder(ivs)
           n == Len(o)
           m == Merged(o)
           Good(j) == /\ Separate(m[j])
                      /\ \A i \in 1 .. Len(m[j]) : \A k \in j + 1 .. n : m[j][i].s <= o[k].s
                      /\ \A t \in Nat : Covered(m[j], t) <=> \E k \in 1 .. j : Covers(o[k], t)
           S == {j \in 0 .. n : Good(j)}
<1>1. /\ o \in Seq(ivs)
      /\ \A x \in ivs : \E i \in 1 .. n : o[i] = x
      /\ \A i, j \in 1 .. n : i < j => o[i].s <= o[j].s
  BY OrderIs
<1> HIDE DEF o
<1>2. /\ o \in Seq(Interval) /\ n \in Nat
      /\ \A i \in 1 .. n : o[i] \in ivs /\ o[i] \in Interval /\ o[i].s < o[i].e
  BY <1>1
<1>3. m[0] = <<>> /\ \A i \in 1 .. n : m[i] = Merge(m[i - 1], o[i])
  BY <1>2, MergedIs
<1> HIDE DEF m
<1>4. 0 \in S
  <2>1. Separate(<<>>) /\ \A t \in Nat : ~Covered(<<>>, t)
    BY DEF Separate, Covered
  <2>2. Good(0)
    BY <1>3, <2>1
  <2> HIDE DEF Good
  <2> QED BY <1>2, <2>2
<1>5. ASSUME NEW j \in 0 .. n - 1, j \in S PROVE j + 1 \in S
  <2> DEFINE bs == m[j]
             iv == o[j + 1]
  <2>1. j + 1 \in 1 .. n /\ j + 1 \in 0 .. n /\ j + 1 - 1 = j /\ j + 1 \in j + 1 .. n
    BY <1>2
  <2>2. m[j + 1] = Merge(bs, iv)
    BY <1>3, <2>1
  <2>3. iv \in Interval /\ iv.s < iv.e
    BY <1>2, <2>1
  <2>4. Separate(bs) /\ \A i \in 1 .. Len(bs) : bs[i].s <= iv.s
    BY <1>5, <2>1
  <2>5. /\ Separate(Merge(bs, iv))
        /\ \A i \in 1 .. Len(Merge(bs, iv)) : Merge(bs, iv)[i].s <= iv.s
        /\ \A t \in Nat : Covered(Merge(bs, iv), t) <=> Covered(bs, t) \/ Covers(iv, t)
    <3> HIDE DEF bs, iv
    <3> QED BY <2>3, <2>4, MergeIs
  <2>6. \A i \in 1 .. Len(m[j + 1]) : \A k \in j + 2 .. n : m[j + 1][i].s <= o[k].s
    <3> TAKE i \in 1 .. Len(m[j + 1])
    <3> TAKE k \in j + 2 .. n
    <3>1. m[j + 1][i].s <= iv.s /\ m[j + 1][i] \in Block
      BY <2>2, <2>5 DEF Separate
    <3>2. k \in 1 .. n /\ iv.s <= o[k].s
      BY <1>1, <1>2, <2>1
    <3>3. m[j + 1][i].s \in Nat /\ iv.s \in Nat /\ o[k].s \in Nat
      BY <1>2, <2>3, <3>1, <3>2 DEF Block, Interval
    <3> QED BY <3>1, <3>2, <3>3
  <2>7. ASSUME NEW t \in Nat
        PROVE  Covered(m[j + 1], t) <=> \E k \in 1 .. j + 1 : Covers(o[k], t)
    <3>1. \A k : k \in 1 .. j + 1 <=> k \in 1 .. j \/ k = j + 1
      BY <1>2
    <3>2. Covered(bs, t) <=> \E k \in 1 .. j : Covers(o[k], t)
      BY <1>5
    <3> QED BY <2>2, <2>5, <3>1, <3>2
  <2>8. Good(j + 1)
    <3>1. j + 1 + 1 = j + 2
      BY <1>2
    <3> QED BY <2>2, <2>5, <2>6, <2>7, <3>1
  <2> HIDE DEF Good
  <2> QED BY <2>1, <2>8
<1>6. Good(n)
  <2>1. n \in S
    <3> HIDE DEF S, n
    <3>1. \A k \in 0 .. n : k \in S
      BY <1>2, <1>4, <1>5, UpTo
    <3> QED BY <1>2, <3>1
  <2> HIDE DEF Good
  <2> QED BY <2>1
<1>7. ASSUME NEW t \in Nat
      PROVE  (\E k \in 1 .. n : Covers(o[k], t)) <=> \E iv \in ivs : Covers(iv, t)
  BY <1>1, <1>2
<1> QED BY <1>6, <1>7 DEF m, o

\* The room's intervals are the published meetings there, and they are few.
Occupied(q, t) ==
    \E c \in Crns : \E p \in offer[c] :
       /\ p.start # Nil /\ p.building \in q.buildings /\ p.room = q.room
       /\ p.days \cap q.days # {}
       /\ p.start <= t /\ t < p.end

LEMMA IntervalsAre ==
    ASSUME offer \in Offers, Snapped, snap # Nil, NEW q
    PROVE  /\ IsFiniteSet(Intervals(q)) /\ Intervals(q) \subseteq Interval
           /\ \A iv \in Intervals(q) : iv.s < iv.e
           /\ \A t \in Nat : (\E iv \in Intervals(q) : Covers(iv, t)) <=> Occupied(q, t)
<1> DEFINE Here(r) == r.building \in q.buildings /\ r.room = q.room /\ r.day \in q.days
           Of(r) == [s |-> r.start, e |-> r.end, crn |-> r.crn]
           T == [s : 0 .. LastMinute, e : 0 .. LastMinute, crn : Crns]
<1>0. /\ Crns \subseteq Nat /\ IsFiniteSet(Crns) /\ LastMinute \in Nat
      /\ \A c \in Crns : snap.meets[c] = Inserted(c)
  BY AdviceAssumption DEF Snapped
<1>1. \A iv : iv \in Intervals(q) <=> \E c \in Crns : \E r \in Inserted(c) : Here(r) /\ iv = Of(r)
  BY <1>0 DEF Intervals, GetMeetings
<1>2. \A c \in Crns : \A r \in Inserted(c) : Proper(r, c)
  BY RowsAre
<1>3. \A iv \in Intervals(q) : iv \in T /\ iv \in Interval /\ iv.s < iv.e
  <2> TAKE iv \in Intervals(q)
  <2>1. PICK c \in Crns : \E r \in Inserted(c) : Here(r) /\ iv = Of(r)
    BY <1>1
  <2>2. PICK r \in Inserted(c) : iv = Of(r)
    BY <2>1
  <2>3. /\ r.crn = c /\ r.start \in Nat /\ r.end \in Nat /\ r.start < r.end
        /\ r.end <= LastMinute /\ c \in Nat
    BY <1>0, <1>2, <2>2 DEF Proper
  <2>4. r.start \in 0 .. LastMinute /\ r.end \in 0 .. LastMinute
    BY <1>0, <2>3
  <2> QED BY <2>2, <2>3, <2>4 DEF Interval
<1>4. IsFiniteSet(T)
  <2> DEFINE M == 0 .. LastMinute
             D == (M \X M) \X Crns
             f == [z \in D |-> [s |-> z[1][1], e |-> z[1][2], crn |-> z[2]]]
  <2>1. IsFiniteSet(M)
    BY <1>0, FS_Interval
  <2>2. IsFiniteSet(M \X M)
    <3> HIDE DEF M
    <3> QED BY <2>1, FS_Product
  <2>3. IsFiniteSet(D)
    <3> DEFINE MM == M \X M
    <3>1. IsFiniteSet(MM)
      BY <2>2
    <3> HIDE DEF MM
    <3>2. IsFiniteSet(MM \X Crns)
      BY <1>0, <3>1, FS_Product
    <3> QED BY <3>2 DEF MM
  <2>4. f \in [D -> T]
    <3> HIDE DEF M
    <3> QED BY DEF M
  <2>5. \A x \in T : \E z \in D : f[z] = x
    <3> TAKE x \in T
    <3> DEFINE z == <<<<x.s, x.e>>, x.crn>>
    <3>1. z \in D
      OBVIOUS
    <3>2. f[z] = [s |-> x.s, e |-> x.e, crn |-> x.crn]
      BY <3>1
    <3>3. x = [s |-> x.s, e |-> x.e, crn |-> x.crn]
      OBVIOUS
    <3> HIDE DEF z, f
    <3> QED BY <3>1, <3>2, <3>3
  <2>6. f \in Surjection(D, T)
    <3> HIDE DEF f, D, T
    <3> QED BY <2>4, <2>5 DEF Surjection
  <2> HIDE DEF f, D, T
  <2> QED BY <2>3, <2>6, FS_Surjection, Zenon
<1>5. IsFiniteSet(Intervals(q))
  <2>1. Intervals(q) \in SUBSET T
    BY <1>3
  <2> HIDE DEF T
  <2> QED BY <1>4, <2>1, FS_Subset
<1>6. ASSUME NEW t \in Nat
      PROVE  (\E iv \in Intervals(q) : Covers(iv, t)) <=> Occupied(q, t)
  <2>1. ASSUME NEW iv \in Intervals(q), Covers(iv, t) PROVE Occupied(q, t)
    <3>1. PICK c \in Crns : \E r \in Inserted(c) : Here(r) /\ iv = Of(r)
      BY <1>1
    <3>2. PICK r \in Inserted(c) : Here(r) /\ iv = Of(r)
      BY <3>1
    <3>3. PICK p \in offer[c] : p.start # Nil /\ IsRow(r, c, p)
      BY RowsAre
    <3> QED BY <2>1, <3>2, <3>3 DEF Occupied, IsRow, Covers
  <2>2. ASSUME Occupied(q, t) PROVE \E iv \in Intervals(q) : Covers(iv, t)
    <3>0. PICK c \in Crns : \E p \in offer[c] :
            /\ p.start # Nil /\ p.building \in q.buildings /\ p.room = q.room
            /\ p.days \cap q.days # {}
            /\ p.start <= t /\ t < p.end
      BY <2>2 DEF Occupied
    <3>1. PICK p \in offer[c] :
            /\ p.start # Nil /\ p.building \in q.buildings /\ p.room = q.room
            /\ p.days \cap q.days # {}
            /\ p.start <= t /\ t < p.end
      BY <3>0
    <3>2. PICK d \in p.days : d \in q.days
      BY <3>1
    <3>3. PICK r \in Inserted(c) : r.day = d /\ IsRow(r, c, p)
      BY <3>1, RowsAre
    <3>4. Of(r) \in Intervals(q)
      BY <1>1, <3>1, <3>2, <3>3 DEF IsRow
    <3>5. Covers(Of(r), t)
      BY <3>1, <3>3 DEF IsRow, Covers
    <3> HIDE DEF Of
    <3> QED BY <3>4, <3>5
  <2> QED BY <2>1, <2>2
<1> QED BY <1>3, <1>5, <1>6


LEMMA UnusedIs ==
    ASSUME offer \in Offers, Snapped, snap # Nil, NEW q \in RoomWishes
    PROVE  Window(q) /\ Separate(Busy(q)) /\ Unused(q) = Idle(Busy(q), q)
<1>1. Window(q)
  BY AdviceAssumption DEF Window
<1>2. /\ Separate(Busy(q))
      /\ \A t \in Nat : Covered(Busy(q), t) <=> \E iv \in Intervals(q) : Covers(iv, t)
  <2>1. /\ IsFiniteSet(Intervals(q)) /\ Intervals(q) \subseteq Interval
        /\ \A iv \in Intervals(q) : iv.s < iv.e
    BY IntervalsAre
  <2> QED BY <2>1, BlocksAre DEF Busy
<1>3. \A t \in Nat : Covered(Busy(q), t) <=> Occupied(q, t)
  BY <1>2, IntervalsAre
<1>4. \A t \in q.dayStart .. q.dayEnd - 1 : t \in Nat
  BY <1>1 DEF Window
<1>5. Unused(q) = Idle(Busy(q), q)
  BY <1>3, <1>4 DEF Unused, Idle, Occupied
<1> QED BY <1>1, <1>2, <1>5

LEMMA RoomKeeps ==
    ASSUME AdviceInv, NEW q \in RoomWishes, RoomAvailability(q)
    PROVE  AdviceInv'
<1>0. offer \in Offers /\ Snapped /\ snap # Nil /\ offer' = offer
  BY DEF AdviceInv, Banners, RoomAvailability, Asks, banner
<1> DEFINE free == Gaps(Busy(q), q)
<1>1. /\ reply = NoReply /\ UNCHANGED <<banner, snap, fixed, overlay>>
      /\ reply'.kind = "room" /\ reply'.ask = q /\ reply'.free = free
  BY DEF RoomAvailability, Asks
<1>2. Pending' /\ VerdictsAreExact' /\ PrintedIsPublished'
  BY <1>1 DEF Pending, VerdictsAreExact, PrintedIsPublished
<1> DEFINE R == Runs(Unused(q), q)
<1>3. /\ free \in Seq(Nat \X Nat)
      /\ \A x : (\E k \in 1 .. Len(free) : free[k] = x) <=> x \in R /\ Long(x, q)
      /\ \A i, j \in 1 .. Len(free) : i < j => free[i][2] < free[j][1]
  <2>1. Window(q) /\ Separate(Busy(q)) /\ Unused(q) = Idle(Busy(q), q)
    BY <1>0, UnusedIs
  <2>2. /\ free \in Seq(Nat \X Nat)
        /\ \A x : (\E k \in 1 .. Len(free) : free[k] = x)
                    <=> x \in Runs(Idle(Busy(q), q), q) /\ Long(x, q)
        /\ \A i, j \in 1 .. Len(free) : i < j => free[i][2] < free[j][1]
    BY <2>1, GapsAre
  <2> HIDE DEF free
  <2> QED BY <2>1, <2>2
<1> HIDE DEF free
<1>4. /\ {free[i] : i \in DOMAIN free} = {x \in R : x[2] - x[1] >= q.minMinutes}
      /\ \A i, j \in DOMAIN free : i < j => free[i][2] < free[j][1]
  <2>1. DOMAIN free = 1 .. Len(free)
    BY <1>3
  <2> HIDE DEF R
  <2> QED BY <1>3, <2>1 DEF Long
<1>5. Unused(q)' = Unused(q)
  BY <1>0 DEF Unused
<1>6. FreeIsUnused'
  BY <1>1, <1>4, <1>5 DEF FreeIsUnused, Runs
<1> QED
  BY <1>1, <1>2, <1>6, NewAnswer

-----------------------------------------------------------------------------
(* The document *)

Times(l) ==
    /\ l.begin \in Nat /\ l.end \in Nat /\ l.begin < l.end /\ l.end <= LastMinute
    /\ l.days \subseteq Days /\ l.days # {}

Then(l) == {p \in offer[l.crn] : /\ p.start # Nil /\ p.days # {}
                                 /\ p.start = l.begin /\ p.end = l.end}

\* A line that passes the check says of its section what is published.
LEMMA CheckedIs ==
    ASSUME offer \in Offers, Snapped, snap # Nil, NEW l \in Line, CheckSection(l)
    PROVE  LineIsPublished(l) /\ (l.begin # TBA => Times(l))
<1> DEFINE rows == Inserted(l.crn)
           group == {r \in rows : r.start = l.begin /\ r.end = l.end}
<1>1. l.crn \in Crns
  BY DEF Line
<1>2. /\ l.agrees
      /\ rows = {} => l.begin = TBA /\ l.building = Nil /\ l.room = Nil
      /\ rows # {} =>
           /\ group # {} /\ l.days = {r.day : r \in group}
           /\ l.building # Nil => \E r \in group : r.building = l.building
           /\ l.room # Nil => \E r \in group : r.room = l.room
  BY <1>1 DEF CheckSection, Snapped
<1>3. TBA \notin Nat
  BY AdviceAssumption
<1>4. rows # {} => Times(l)
  <2>1. ASSUME NEW r \in group
        PROVE  Proper(r, l.crn) /\ r.start = l.begin /\ r.end = l.end
    BY <1>1, RowsAre
  <2> QED
    BY <1>2, <2>1 DEF Times, Proper
<1>5. l.begin = TBA => Meets(l.crn) = {} /\ l.building = Nil /\ l.room = Nil
  BY <1>1, <1>2, <1>3, <1>4, NoRowsNoMinutes DEF Times
<1>6. ASSUME NEW r \in group
      PROVE  \E p \in Then(l) : IsRow(r, l.crn, p)
  <2>1. PICK p \in offer[l.crn] : p.start # Nil /\ IsRow(r, l.crn, p)
    BY <1>1, RowsAre
  <2>2. p.days # {} /\ p.start = l.begin /\ p.end = l.end
    BY <2>1 DEF IsRow
  <2> QED
    BY <2>1, <2>2 DEF Then
<1>7. ASSUME NEW p \in Then(l), NEW d \in p.days
      PROVE  \E r \in group : r.day = d
  <2>1. PICK r \in rows : r.day = d /\ IsRow(r, l.crn, p)
    BY <1>1, <1>7, RowsAre DEF Then
  <2> QED
    BY <1>7, <2>1 DEF Then, IsRow
<1>8. ASSUME rows # {}
      PROVE  l.days = UNION {p.days : p \in Then(l)}
  <2>1. \A d \in l.days : \E p \in Then(l) : d \in p.days
    BY <1>2, <1>6, <1>8 DEF IsRow
  <2>2. \A p \in Then(l) : \A d \in p.days : d \in l.days
    BY <1>2, <1>7, <1>8
  <2> QED
    BY <2>1, <2>2
<1>9. ASSUME rows # {}
      PROVE  /\ Then(l) # {}
             /\ l.building # Nil => \E p \in Then(l) : p.building = l.building
             /\ l.room # Nil => \E p \in Then(l) : p.room = l.room
  BY <1>2, <1>6, <1>9 DEF IsRow
<1> HIDE DEF rows, group
<1>10. ASSUME l.begin # TBA, \A p, q \in Then(l) : p.building = q.building /\ p.room = q.room
       PROVE  \A p \in Then(l) : /\ l.building # Nil => p.building = l.building
                                 /\ l.room # Nil => p.room = l.room
  BY <1>2, <1>9, <1>10
<1> QED
  BY <1>2, <1>4, <1>5, <1>8, <1>9, <1>10 DEF LineIsPublished, Then

\* Two times overlap where they share a minute.
LEMMA SharedMinute ==
    ASSUME NEW a, NEW b, Times(a), Times(b)
    PROVE  a.begin < b.end /\ b.begin < a.end <=>
             \E t \in Minutes : /\ a.begin <= t /\ t < a.end
                                /\ b.begin <= t /\ t < b.end
<1>0. LastMinute \in Nat
  BY AdviceAssumption
<1>1. ASSUME a.begin < b.end, b.begin < a.end
      PROVE  \E t \in Minutes : /\ a.begin <= t /\ t < a.end
                                /\ b.begin <= t /\ t < b.end
  <2>1. CASE a.begin <= b.begin
    <3>1. b.begin \in Minutes
      BY <1>0 DEF Times, Minutes
    <3> QED
      BY <1>1, <2>1, <3>1 DEF Times
  <2>2. CASE b.begin < a.begin
    <3>1. a.begin \in Minutes
      BY <1>0 DEF Times, Minutes
    <3> QED
      BY <1>1, <2>2, <3>1 DEF Times
  <2> QED
    BY <2>1, <2>2 DEF Times
<1>2. ASSUME NEW t \in Minutes, a.begin <= t, t < a.end, b.begin <= t, t < b.end
      PROVE  a.begin < b.end /\ b.begin < a.end
  BY <1>0, <1>2 DEF Times, Minutes
<1> QED
  BY <1>1, <1>2

Counts(a, b) ==
    /\ IsTimed(a) /\ IsTimed(b)
    /\ Letters(a) \cap Letters(b) # {}
    /\ a.begin < b.end /\ b.begin < a.end

\* What two lines share for the badge.
LEMMA CountedIs ==
    ASSUME NEW a \in Line, NEW b \in Line,
           a.begin # TBA => Times(a), b.begin # TBA => Times(b)
    PROVE  /\ SameTime(a, b) /\ a.days \cap b.days # {} /\ Comparable(a, b) => Counts(a, b)
           /\ Counts(a, b) => /\ SameTime(a, b)
                             /\ \/ a.days \cap b.days # {}
                                \/ a.style = "spaced" /\ b.style = "spaced"
<1>1. TBA \notin Nat
  BY AdviceAssumption
<1>2. \A l \in {a, b} : IsTimed(l) <=> l.begin # TBA /\ l.style # "colon"
  BY <1>1 DEF IsTimed, Times
<1>3. a.begin # TBA /\ b.begin # TBA =>
        (SameTime(a, b) <=> a.begin < b.end /\ b.begin < a.end)
  BY SharedMinute DEF SameTime
<1>4. a.days \cap b.days # {} /\ Comparable(a, b) => Letters(a) \cap Letters(b) # {}
  <2> SUFFICES ASSUME Comparable(a, b), NEW d \in a.days \cap b.days
               PROVE  Letters(a) \cap Letters(b) # {}
    OBVIOUS
  <2>1. PICK x : x = <<IF a.style = "lower" THEN "lower" ELSE "upper", d>>
    OBVIOUS
  <2>2. x \in Letters(a) /\ x \in Letters(b)
    BY <2>1 DEF Comparable, Letters
  <2> QED
    BY <2>2
<1>5. ASSUME NEW x \in Letters(a) \cap Letters(b)
      PROVE  \/ a.days \cap b.days # {}
             \/ a.style = "spaced" /\ b.style = "spaced"
  BY DEF Letters
<1> QED
  BY <1>2, <1>3, <1>4, <1>5 DEF Counts, Comparable, SameTime

\* What the grid draws of a line that passed the check.
LEMMA DrawnIs ==
    ASSUME NEW l \in Line, l.begin # TBA => Times(l)
    PROVE  IsGriddable(l) <=> l.begin # TBA /\ l.style \notin {"colon", "lower"}
<1>1. TBA \notin Nat
  BY AdviceAssumption
<1>2. IsTimed(l) <=> l.begin # TBA /\ l.style # "colon"
  BY <1>1 DEF IsTimed, Times
<1>3. ASSUME l.begin # TBA, l.style # "lower"
      PROVE  Letters(l) \cap ({"upper"} \X Days) # {}
  <2>1. PICK d \in Days : d \in l.days
    BY <1>3 DEF Times
  <2>2. <<"upper", d>> \in Letters(l)
    BY <1>3, <2>1 DEF Letters
  <2> QED
    BY <2>1, <2>2
<1>4. l.style = "lower" => Letters(l) \cap ({"upper"} \X Days) = {}
  BY DEF Letters
<1> QED
  BY <1>2, <1>3, <1>4 DEF IsGriddable

LEMMA LinesAre ==
    ASSUME NEW S, NEW lines \in {<<>>} \cup {<<l>> : l \in S} \cup (S \X S)
    PROVE  \A i \in DOMAIN lines : lines[i] \in S
<1>1. CASE lines = <<>>
  BY <1>1
<1>2. CASE lines \in {<<l>> : l \in S}
  BY <1>2
<1>3. CASE lines \in S \X S
  BY <1>3
<1> QED
  BY <1>1, <1>2, <1>3

LEMMA ProposeKeeps ==
    ASSUME AdviceInv, ProposeSchedule
    PROVE  AdviceInv'
<1> DEFINE accepted == IF snap = Nil THEN {} ELSE {l \in Line : CheckSection(l)}
<1>0. /\ offer \in Offers /\ Snapped /\ reply = NoReply
      /\ UNCHANGED <<banner, snap, fixed, overlay>> /\ offer' = offer
  BY DEF AdviceInv, Banners, ProposeSchedule, banner
<1>1. PICK lines \in {<<>>} \cup {<<l>> : l \in accepted} \cup (accepted \X accepted) :
        reply' = [kind |-> "document", lines |-> lines, verified |-> snap # Nil,
                  drawn |-> {i \in DOMAIN lines : IsGriddable(lines[i])},
                  pairs |-> ConflictInfo(lines)]
  BY Zenon DEF ProposeSchedule
<1>2. /\ Pending' /\ VerdictsAreExact' /\ FreeIsUnused'
      /\ reply'.kind = "document"
  BY <1>1 DEF Pending, VerdictsAreExact, FreeIsUnused
<1>3. \A i \in DOMAIN lines : lines[i] \in accepted
  BY LinesAre
<1>4. ASSUME snap # Nil
      PROVE  PrintedIsPublished'
  <2>1. \A l : LineIsPublished(l)' <=> LineIsPublished(l)
    BY <1>0 DEF LineIsPublished, Meets
  <2>2. \A i \in DOMAIN lines : lines[i] \in Line /\ CheckSection(lines[i])
    BY <1>3, <1>4
  <2>3. \A i \in DOMAIN lines : /\ LineIsPublished(lines[i])
                                /\ lines[i].begin # TBA => Times(lines[i])
    BY <1>0, <1>4, <2>2, CheckedIs
  <2>4. /\ reply'.lines = lines /\ reply'.pairs = ConflictInfo(lines)
        /\ reply'.drawn = {i \in DOMAIN lines : IsGriddable(lines[i])}
    BY <1>1
  <2>5. reply'.drawn = {i \in DOMAIN lines :
               lines[i].begin # TBA /\ lines[i].style \notin {"colon", "lower"}}
    BY <2>2, <2>3, <2>4, DrawnIs
  <2>6. ASSUME NEW i \in DOMAIN lines, NEW j \in DOMAIN lines
        PROVE  LET a == lines[i]
                   b == lines[j]
               IN  /\ i < j /\ SameTime(a, b) /\ a.days \cap b.days # {} /\ Comparable(a, b)
                        => <<i, j>> \in reply'.pairs
                   /\ <<i, j>> \in reply'.pairs =>
                        /\ i < j
                        /\ \/ SameTime(a, b) /\ a.days \cap b.days # {}
                           \/ SameTime(a, b) /\ a.style = "spaced" /\ b.style = "spaced"
    <3>1. <<i, j>> \in reply'.pairs <=> i < j /\ Counts(lines[i], lines[j])
      BY <2>4 DEF ConflictInfo, Counts
    <3> QED
      BY <2>2, <2>3, <3>1, CountedIs
  <2>7. \A l, m : SameTime(l, m)' <=> SameTime(l, m)
    BY DEF SameTime
  <2> QED
    BY <2>1, <2>3, <2>4, <2>5, <2>6, <2>7 DEF PrintedIsPublished
<1>5. snap = Nil => PrintedIsPublished'
  BY <1>1 DEF PrintedIsPublished
<1> QED
  BY <1>0, <1>2, <1>4, <1>5, NewAnswer

-----------------------------------------------------------------------------
(* The questions are answered truly *)

LEMMA InitAdvice == AdviceInit => AdviceInv
<1> SUFFICES ASSUME AdviceInit
             PROVE  AdviceInv
  OBVIOUS
<1>0. /\ offer \in Offers /\ seats = [c \in Crns |-> MaxSeats] /\ snap = Nil /\ fixed = {}
      /\ reply.kind = "none" /\ waiting = {} /\ fetched = [c \in Crns |-> Nil]
      /\ seen = [c \in Crns |-> {}]
  BY DEF AdviceInit, NoReply, NoLive
<1>1. MaxSeats \in Nat /\ MaxRefreshSubjects \in Nat
  BY AdviceAssumption
<1>2. Banners
  BY <1>0, <1>1 DEF Banners, Snapped
<1>3. IsFiniteSet(waiting) /\ Cardinality(waiting) = 0
  BY <1>0, FS_EmptySet
<1>4. Watching /\ Pending /\ SeatsAreLiveOrStale
  BY <1>0, <1>1, <1>3 DEF Watching, Pending, SeatsAreLiveOrStale
<1>5. /\ VerdictsAreExact /\ SearchesAreExact /\ NoClash /\ PrintedIsPublished
      /\ FreeIsUnused
  BY <1>0 DEF VerdictsAreExact, SearchesAreExact, NoClash, PrintedIsPublished, FreeIsUnused
<1> QED
  BY <1>2, <1>4, <1>5 DEF AdviceInv

LEMMA NextAdvice == AdviceInv /\ [AdviceNext]_adviceVars => AdviceInv'
<1> SUFFICES ASSUME AdviceInv, [AdviceNext]_adviceVars
             PROVE  AdviceInv'
  OBVIOUS
<1>1. CASE Refresh
  BY <1>1, RefreshKeeps
<1>2. CASE Take \/ TakeFree \/ Pass
  BY <1>2, TakeKeeps, TakeFreeKeeps, PassKeeps
<1>3. CASE ProposeSchedule
  BY <1>3, ProposeKeeps
<1>4. ASSUME NEW c \in Crns, Moves(c)
      PROVE  AdviceInv'
  BY <1>4, MovesKeeps
<1>5. ASSUME NEW crns \in (SUBSET Crns) \ {{}}, CheckConflicts(crns) \/ FindConflictFree(crns)
      PROVE  AdviceInv'
  BY <1>5, CheckKeeps, WeighKeeps
<1>6. ASSUME NEW w \in Wishes, FindEligible(w) \/ FindSections(w)
      PROVE  AdviceInv'
  BY <1>6, EligibleKeeps, FindKeeps
<1>7. ASSUME NEW subject \in Subjects(Crns), Settles(subject)
      PROVE  AdviceInv'
  BY <1>7, SettlesKeeps
<1>8. ASSUME NEW q \in RoomWishes, RoomAvailability(q)
      PROVE  AdviceInv'
  BY <1>8, RoomKeeps
<1>9. CASE UNCHANGED adviceVars
  <2>1. /\ offer' = offer /\ seats' = seats /\ snap' = snap /\ fixed' = fixed
        /\ reply' = reply /\ waiting' = waiting /\ fetched' = fetched /\ seen' = seen
    BY <1>9 DEF adviceVars, banner, overlay
  <2>2. Banners' /\ Watching' /\ Pending' /\ SeatsAreLiveOrStale' /\ NoClash'
    BY <2>1, SnapStays, ScheduleStays
      DEF AdviceInv, Banners, Watching, Pending, SeatsAreLiveOrStale
  <2> QED
    BY <2>1, <2>2, AnswerStays DEF AdviceInv
<1> QED
  BY <1>1, <1>2, <1>3, <1>4, <1>5, <1>6, <1>7, <1>8, <1>9 DEF AdviceNext, LooksUp, Builds

\* The rows of the snapshot are what is published, an answer that is being read
\* is exact, and what was seen of the seats was true when it was seen, at every
\* step of the tools on a term's snapshot.
THEOREM AdviceInvariance == AdviceSpec => []AdviceInv
<1>1. AdviceInit => AdviceInv
  BY InitAdvice
<1>2. AdviceInv /\ [AdviceNext]_adviceVars => AdviceInv'
  BY NextAdvice
<1> QED
  BY <1>1, <1>2, PTL DEF AdviceSpec

LEMMA StepTyped ==
    ASSUME AdviceInv, AdviceInv', AdviceTypeOK, [AdviceNext]_adviceVars
    PROVE  AdviceTypeOK'
<1>0. /\ offer \in Offers /\ Snapped
      /\ moves \in 0 .. MaxMoves /\ MaxMoves \in Nat /\ reply \in Told
      /\ snap = Nil \/ DOMAIN snap = {"meets", "seats"}
      /\ waiting \subseteq Subjects(Crns) /\ RuleCourses \subseteq Crns
  BY AdviceAssumption DEF AdviceInv, Banners, AdviceTypeOK
<1>1. /\ offer' \in Offers /\ seats' \in [Crns -> 0 .. MaxSeats] /\ fixed' \subseteq Crns
      /\ fetched' \in [Crns -> (0 .. MaxSeats) \cup {Nil}]
      /\ seen' \in [Crns -> SUBSET (0 .. MaxSeats)]
      /\ reply'.kind = "sections" => reply' \in Listings
      /\ reply'.kind = "verdict" => reply' \in Verdicts
  BY DEF AdviceInv, Banners, Pending
<1>2. Listings \subseteq Told /\ Verdicts \subseteq Told /\ NoReply \in Told
  BY DEF Listings, Verdicts, Told
<1> DEFINE Rest == /\ moves' \in 0 .. MaxMoves
                   /\ snap' = Nil \/ DOMAIN snap' = {"meets", "seats"}
                   /\ reply' \in Told /\ waiting' \subseteq Subjects(Crns)
<1> SUFFICES Rest
  BY <1>1 DEF AdviceTypeOK
<1>3. CASE UNCHANGED adviceVars
  BY <1>0, <1>3 DEF adviceVars, banner, overlay
<1>4. CASE Refresh
  <2>1. /\ moves' = moves /\ reply' = reply /\ waiting' = waiting
        /\ snap' = [meets |-> [c \in Crns |-> Inserted(c)], seats |-> seats]
    BY <1>4 DEF Refresh, banner, overlay
  <2>2. DOMAIN snap' = {"meets", "seats"}
    BY <2>1
  <2> QED BY <1>0, <2>1, <2>2
<1>5. ASSUME NEW answered, Reads(answered) PROVE Rest
  BY <1>0, <1>2, <1>5 DEF Reads, banner
<1>6. CASE Take \/ TakeFree \/ Pass
  BY <1>5, <1>6 DEF Take, TakeFree, Pass
<1>7. ASSUME NEW c \in Crns, Moves(c) PROVE Rest
  BY <1>0, <1>7 DEF Moves
<1>8. ASSUME NEW crns \in SUBSET Crns, CheckConflicts(crns) \/ FindConflictFree(crns) PROVE Rest
  <2>1. /\ moves' = moves /\ snap' = snap /\ waiting' = waiting /\ reply'.kind = "verdict"
    BY <1>8 DEF CheckConflicts, FindConflictFree, banner, overlay, Verdict
  <2> QED BY <1>0, <1>1, <1>2, <2>1
<1>9. ASSUME NEW w, NEW sections \in SUBSET Crns, StartsOverlay(w, sections)
      PROVE  waiting' \subseteq Subjects(Crns)
  BY <1>0, <1>9 DEF StartsOverlay, overlay, Subjects
<1>10. ASSUME NEW w \in Wishes, FindEligible(w) PROVE Rest
  <2> DEFINE passed == {c \in RuleCourses : Passes(c, w, Avoided(w), RuleCourses)}
             without == WithoutMeetings(passed, w)
             sections == {c \in passed \ without : Fits(c, w)}
  <2>1. /\ moves' = moves /\ snap' = snap
        /\ reply' = Listing(w, Avoided(w), TRUE, sections, without, FALSE)
        /\ StartsOverlay(w, sections)
    BY <1>10, Zenon DEF FindEligible, banner
  <2>2. sections \in SUBSET Crns
    BY <1>0
  <2> HIDE DEF sections, without
  <2>3. reply'.kind = "sections" /\ waiting' \subseteq Subjects(Crns)
    BY <1>9, <2>1, <2>2 DEF Listing
  <2> QED BY <1>0, <1>1, <1>2, <2>1, <2>3
<1>11. ASSUME NEW w \in Wishes, FindSections(w) PROVE Rest
  <2> DEFINE narrow == Cardinality(Matches(w)) > NarrowThreshold
             sections == IF narrow THEN {} ELSE Matches(w)
  <2>1. /\ moves' = moves /\ snap' = snap
        /\ reply' = Listing(w, Avoided(w), FALSE, sections, {}, narrow)
        /\ StartsOverlay(w, sections)
    BY <1>11, Zenon DEF FindSections, banner
  <2>2. sections \in SUBSET Crns
    BY DEF Matches, Offered
  <2> HIDE DEF sections, narrow
  <2>3. reply'.kind = "sections" /\ waiting' \subseteq Subjects(Crns)
    BY <1>9, <2>1, <2>2 DEF Listing
  <2> QED BY <1>0, <1>1, <1>2, <2>1, <2>3
<1>12. ASSUME NEW subject \in Subjects(Crns), Settles(subject) PROVE Rest
  <2>1. /\ moves' = moves /\ snap' = snap /\ waiting' = waiting \ {subject} /\ subject \in waiting
        /\ reply' = reply \/ \E got, failed : reply' = Overlaid(got, failed)
    BY <1>12 DEF Settles, banner
  <2>2. reply.kind = "sections" /\ reply \in Listings
    BY <2>1 DEF AdviceInv, Watching, Pending
  <2>3. reply'.kind = "sections"
    <3>1. CASE reply' = reply
      BY <2>2, <3>1
    <3>2. ASSUME NEW got, NEW failed, reply' = Overlaid(got, failed)
          PROVE  reply'.kind = "sections"
      BY <2>2, <3>2 DEF Overlaid, Listings
    <3> QED BY <2>1, <3>1, <3>2
  <2> QED BY <1>0, <1>1, <1>2, <2>1, <2>3
<1>13. ASSUME NEW q \in RoomWishes, RoomAvailability(q) PROVE Rest
  <2>1. /\ moves' = moves /\ snap' = snap /\ waiting' = waiting /\ snap # Nil
        /\ reply' = [kind |-> "room", ask |-> q, busy |-> Busy(q), free |-> Gaps(Busy(q), q)]
    BY <1>13 DEF RoomAvailability, Asks, banner, overlay
  <2>2. Window(q) /\ Separate(Busy(q))
    BY <1>0, <2>1, UnusedIs
  <2>3. Busy(q) \in Seq([s : Nat, e : Nat, crns : SUBSET Crns])
    BY <2>2 DEF Separate, Block
  <2>4. Gaps(Busy(q), q) \in Seq(Nat \X Nat)
    BY <2>2, GapsAre
  <2>5. reply' \in Told
    BY <2>1, <2>3, <2>4 DEF Told
  <2> QED BY <1>0, <2>1, <2>5
<1>14. CASE ProposeSchedule
  <2> DEFINE accepted == IF snap = Nil THEN {} ELSE {l \in Line : CheckSection(l)}
  <2>1. PICK lines \in {<<>>} \cup {<<l>> : l \in accepted} \cup (accepted \X accepted) :
          reply' = [kind |-> "document", lines |-> lines, verified |-> snap # Nil,
                    drawn |-> {i \in DOMAIN lines : IsGriddable(lines[i])},
                    pairs |-> ConflictInfo(lines)]
    BY <1>14, Zenon DEF ProposeSchedule
  <2>2. moves' = moves /\ snap' = snap /\ waiting' = waiting
    BY <1>14 DEF ProposeSchedule, banner, overlay
  <2>3. accepted \subseteq Line
    OBVIOUS
  <2> HIDE DEF accepted
  <2>4. lines \in Seq(Line)
    <3>1. CASE lines = <<>>
      BY <3>1
    <3>2. CASE lines \in {<<l>> : l \in accepted}
      BY <2>3, <3>2
    <3>3. CASE lines \in accepted \X accepted
      <4>1. PICK a \in accepted, b \in accepted : lines = <<a, b>>
        BY <3>3
      <4> QED BY <2>3, <4>1
    <3> QED BY <3>1, <3>2, <3>3
  <2>5. DOMAIN lines \subseteq Nat
    BY <2>4
  <2> DEFINE drawn == {i \in DOMAIN lines : IsGriddable(lines[i])}
             pairs == ConflictInfo(lines)
  <2>6. drawn \in SUBSET Nat /\ pairs \in SUBSET (Nat \X Nat)
    BY <2>5 DEF ConflictInfo
  <2>7. (snap # Nil) \in BOOLEAN
    OBVIOUS
  <2> HIDE DEF drawn, pairs
  <2>8. reply' = [kind |-> "document", lines |-> lines, verified |-> snap # Nil,
                  drawn |-> drawn, pairs |-> pairs]
    BY <2>1 DEF drawn, pairs
  <2>9. reply' \in Told
    BY <2>4, <2>6, <2>7, <2>8 DEF Told
  <2> QED BY <1>0, <2>2, <2>9
<1> QED
  BY <1>3, <1>4, <1>6, <1>7, <1>8, <1>10, <1>11, <1>12, <1>13, <1>14 DEF AdviceNext, LooksUp, Builds

\* Answers, lines and blocks keep their types, for any sections and wishes.
THEOREM AdviceTyping == AdviceSpec => []AdviceTypeOK
<1>1. AdviceInit => AdviceTypeOK
  <2> SUFFICES ASSUME AdviceInit PROVE AdviceTypeOK
    OBVIOUS
  <2>1. MaxSeats \in Nat /\ MaxMoves \in Nat
    BY AdviceAssumption
  <2> QED BY <2>1 DEF AdviceInit, AdviceTypeOK, Told, NoLive
<1>2. AdviceInv /\ AdviceInv' /\ AdviceTypeOK /\ [AdviceNext]_adviceVars => AdviceTypeOK'
  BY StepTyped
<1> QED
  BY <1>1, <1>2, AdviceInvariance, PTL DEF AdviceSpec

\* A candidate is called free if and only if it meets at no minute of a fixed
\* section or of another candidate, and a search lists exactly the sections that
\* the wish allows (find_conflicts in src/mcp-tools/clemson-schedule.ts, the
\* two searches in src/mcp-tools/clemson-advising.ts).
THEOREM RepliesAreExact == AdviceSpec => []AnswersAreExact
<1>1. AdviceInv => AnswersAreExact
  BY DEF AdviceInv, AnswersAreExact
<1> QED
  BY <1>1, AdviceInvariance, PTL

\* A schedule built from the answers alone never has two sections at the same
\* minute, however often the tools are asked.
THEOREM ScheduleNeverClashes == AdviceSpec => []NoClash
<1>1. AdviceInv => NoClash
  BY DEF AdviceInv
<1> QED
  BY <1>1, AdviceInvariance, PTL

\* The seats shown after a live refresh are seats that Banner had meanwhile, or
\* the section is counted as stale (overlayLiveSeats in
\* src/mcp-tools/clemson-advising.ts).
THEOREM SeatsAreTold == AdviceSpec => []SeatsAreLiveOrStale
<1>1. AdviceInv => SeatsAreLiveOrStale
  BY DEF AdviceInv
<1> QED
  BY <1>1, AdviceInvariance, PTL

\* The free blocks of a room are its unused stretches that are long enough, each
\* in one piece and in their order, whatever overlaps, touches or leaves the
\* window (getClemsonRoomAvailability in src/clemson-classes.ts).
THEOREM GapsAreFree == AdviceSpec => []FreeIsUnused
<1>1. AdviceInv => FreeIsUnused
  BY DEF AdviceInv
<1> QED
  BY <1>1, AdviceInvariance, PTL

\* What is told or shown of a section is what was published for it, down to the
\* document of a proposed schedule and its grid, however its lines are written
\* and wherever its sections meet (checkSection in
\* src/advisor-schedule-verify.ts, conflictInfo in src/schedule-grid.ts).
THEOREM AdviceHolds == AdviceSpec => []AdviceIsTrue
<1>1. AdviceInv => AdviceIsTrue
  BY DEF AdviceInv, AdviceIsTrue, AnswersAreExact
<1> QED
  BY <1>1, AdviceInvariance, PTL
=============================================================================
