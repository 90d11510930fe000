--------------------------- MODULE ScheduleAdvice ---------------------------
(***************************************************************************)
(* The tools with which an advisor's agent builds a schedule from a term's *)
(* snapshot: check-schedule-conflicts and find-conflict-free-schedule      *)
(* (src/mcp-tools/clemson-schedule.ts), find-eligible-sections and         *)
(* find-sections-by-schedule with the overlay of live seats                *)
(* (src/mcp-tools/clemson-advising.ts), get-clemson-room-availability      *)
(* (src/clemson-classes.ts), and the host's check and grid of the schedule *)
(* that the agent proposes (src/advisor-schedule-verify.ts,                *)
(* src/schedule-grid.ts).                                                  *)
(*                                                                         *)
(* The agent calls one tool at a time.  Only the overlay awaits something: *)
(* one live query of Banner for each subject, while students register.     *)
(* What is published of a section's meetings does not change meanwhile.    *)
(***************************************************************************)
EXTENDS Naturals, Sequences, FiniteSets, SequencesExt

CONSTANTS
    Crns,               \* the sections, numbered in the order of the listing
    SubjectOf,          \* the subject of each section
    RuleCourses,        \* the sections of the courses a requirement rule lists
    Days,
    LastMinute,
    Buildings, RoomNumbers,
    Offers,             \* the published meetings that are looked at
    MaxSeats, MaxMoves, \* bounds on seats and on how often they change
    Wishes,             \* arguments of the two searches; among: the sections with
                        \* the subject prefix and the credits asked for
    RoomWishes,         \* arguments of the room's query; buildings: those whose
                        \* names contain the one asked for
    NarrowThreshold,    \* more matches than this are not listed
    MaxRefreshSubjects, \* more subjects than this are not asked live
    FirstPage,          \* sections of a subject in the answer to a live query
    Styles,             \* how the agent writes days and times
    Nil,
    TBA

Minutes == 0 .. LastMinute - 1

\* A meeting as Banner publishes it; without times for an online section.
Pattern ==
    [days : SUBSET Days, start : 0 .. LastMinute, end : 0 .. LastMinute,
     building : Buildings \cup {Nil}, room : RoomNumbers \cup {Nil}]
        \cup [days : {{}}, start : {Nil}, end : {Nil}, building : {Nil}, room : {Nil}]

\* The arguments of a search; Nil for one that is not given.
Wish ==
    [among : {Nil} \cup SUBSET Crns,
     days_within : {Nil} \cup SUBSET Days, exclude_days : {Nil} \cup SUBSET Days,
     starts_at : {Nil} \cup Nat, no_meeting_before : {Nil} \cup Nat,
     no_meeting_after : {Nil} \cup Nat,
     open_only : BOOLEAN, min_seats : Nat, avoid : BOOLEAN, refresh : BOOLEAN]

ASSUME AdviceAssumption ==
    /\ Crns \subseteq Nat /\ IsFiniteSet(Crns)
    /\ RuleCourses \subseteq Crns
    /\ Wishes \subseteq Wish
    /\ RoomWishes \subseteq [buildings : SUBSET Buildings, room : RoomNumbers, days : SUBSET Days,
                              dayStart : Nat, dayEnd : Nat, minMinutes : Nat]
    /\ Nil \notin Nat /\ TBA \notin Nat
    /\ \A offer \in Offers : \A c \in Crns : \A p \in offer[c] :
         p \in Pattern /\ (p.start # Nil => p.start < p.end)
    /\ {MaxSeats, MaxMoves, NarrowThreshold, MaxRefreshSubjects, FirstPage,
        LastMinute} \subseteq Nat
    /\ Styles \subseteq {"plain", "colon", "spaced", "lower"}

VARIABLES
    offer,      \* the published meetings of each section
    seats,      \* the seats Banner has now
    moves,      \* how often they have changed
    snap,       \* the snapshot: rows of meetings and seats, or Nil
    fixed,      \* the sections of the schedule under construction, from the tools' answers
    reply,      \* what the last tool call answered
    waiting,    \* subjects whose live query is under way
    fetched,    \* seats that live queries have returned, or Nil
    seen        \* seats that Banner had since these queries began

banner == <<offer, seats, moves>>
overlay == <<waiting, fetched, seen>>
adviceVars == <<banner, snap, fixed, reply, overlay>>

NoLive == [c \in Crns |-> Nil]
NoReply == [kind |-> "none"]
Subjects(sections) == {SubjectOf[c] : c \in sections}

\* A section of the document: does it name a CRN of the term with its course,
\* section and credits, and what does it say of the meeting?
Line ==
    [crn : Crns, agrees : BOOLEAN, days : SUBSET Days,
     begin : (0 .. LastMinute) \cup {TBA}, end : (0 .. LastMinute) \cup {TBA},
     building : Buildings \cup {Nil}, room : RoomNumbers \cup {Nil},
     style : Styles]

Told ==
    {NoReply}
    \cup [kind : {"verdict"}, fixed : SUBSET Crns, asked : SUBSET Crns, free : SUBSET Crns]
    \cup [kind : {"sections"}, wish : Wishes, avoid : SUBSET Crns, rule : BOOLEAN,
          sections : SUBSET Crns, without : SUBSET Crns, narrow : BOOLEAN,
          shown : [Crns -> 0 .. MaxSeats], stale : SUBSET Crns]
    \cup [kind : {"room"}, ask : RoomWishes, busy : Seq([s : Nat, e : Nat, crns : SUBSET Crns]),
          free : Seq(Nat \X Nat)]
    \cup [kind : {"document"}, lines : Seq(Line), verified : BOOLEAN,
          drawn : SUBSET Nat, pairs : SUBSET (Nat \X Nat)]

AdviceTypeOK ==
    /\ offer \in Offers
    /\ seats \in [Crns -> 0 .. MaxSeats]
    /\ moves \in 0 .. MaxMoves
    /\ snap = Nil \/ DOMAIN snap = {"meets", "seats"}
    /\ fixed \subseteq Crns
    /\ reply \in Told
    /\ waiting \subseteq Subjects(Crns)
    /\ fetched \in [Crns -> (0 .. MaxSeats) \cup {Nil}]
    /\ seen \in [Crns -> SUBSET (0 .. MaxSeats)]

AdviceInit ==
    /\ offer \in Offers
    /\ seats = [c \in Crns |-> MaxSeats]
    /\ moves = 0
    /\ snap = Nil
    /\ fixed = {}
    /\ reply = NoReply
    /\ waiting = {}
    /\ fetched = NoLive
    /\ seen = [c \in Crns |-> {}]

-----------------------------------------------------------------------------
(* Banner and the snapshot *)

\* A student registers or drops.  While the agent reads an answer this makes
\* no difference and is left out.
Moves(c) ==
    /\ moves < MaxMoves
    /\ waiting # {} \/ reply = NoReply
    /\ moves' = moves + 1
    /\ \E n \in (0 .. MaxSeats) \ {seats[c]} :
         /\ seats' = [seats EXCEPT ![c] = n]
         /\ seen' = IF waiting = {} THEN seen ELSE [seen EXCEPT ![c] = @ \cup {n}]
    /\ UNCHANGED <<offer, snap, fixed, reply, waiting, fetched>>

\* One row for each day of a meeting that has times.
Inserted(c) ==
    UNION {{[crn |-> c, day |-> d, start |-> p.start, end |-> p.end,
             building |-> p.building, room |-> p.room] : d \in p.days} :
           p \in {q \in offer[c] : q.start # Nil /\ q.end # Nil}}

\* The daily job.
Refresh ==
    /\ reply = NoReply
    /\ snap' = [meets |-> [c \in Crns |-> Inserted(c)], seats |-> seats]
    /\ UNCHANGED <<banner, fixed, reply, overlay>>

\* A tool that finds no snapshot answers with an error.
Asks == reply = NoReply /\ snap # Nil

-----------------------------------------------------------------------------
(* check-schedule-conflicts, find-conflict-free-schedule *)

GetMeetings(crns) == UNION {snap.meets[c] : c \in crns}

Overlaps(a, b) == a.start < b.end /\ b.start < a.end

\* The pairs of sections that meet at the same time, the earlier in the
\* listing first.
FindConflicts(rows) ==
    {[crn_a |-> x[1].crn, crn_b |-> x[2].crn] :
        x \in {y \in rows \X rows : /\ y[1].crn < y[2].crn
                                    /\ y[1].day = y[2].day
                                    /\ Overlaps(y[1], y[2])}}

Verdict(with, asked, free) ==
    [kind |-> "verdict", fixed |-> with, asked |-> asked, free |-> free]

CheckConflicts(crns) ==
    /\ Asks
    /\ LET pairs == FindConflicts(GetMeetings(crns))
       IN reply' = Verdict({}, crns,
                           crns \ UNION {{p.crn_a, p.crn_b} : p \in pairs})
    /\ UNCHANGED <<banner, snap, fixed, overlay>>

\* A candidate is weighed against the fixed sections and the other candidates.
FindConflictFree(candidates) ==
    /\ Asks
    /\ LET all == fixed \cup candidates
           pairs == FindConflicts(GetMeetings(all))
           against(c) == {p \in pairs : \/ p.crn_a = c /\ p.crn_b \in all
                                        \/ p.crn_b = c /\ p.crn_a \in all}
       IN reply' = Verdict(fixed, candidates, {c \in candidates : against(c) = {}})
    /\ UNCHANGED <<banner, snap, fixed, overlay>>

-----------------------------------------------------------------------------
(* find-eligible-sections, find-sections-by-schedule *)

\* Faulty: a section avoided counts only as the first of a pair.
BlockedOneWay(avoid, candidates) ==
    {p.crn_b : p \in {q \in FindConflicts(GetMeetings(candidates \cup avoid)) :
                        q.crn_a \in avoid /\ q.crn_b \notin avoid}}

\* avoid_conflict_with: the sections outside that collide with one of it.
Blocked(avoid, candidates) ==
    LET pairs == FindConflicts(GetMeetings(candidates \cup avoid))
    IN  {p.crn_b : p \in {q \in pairs : q.crn_a \in avoid /\ q.crn_b \notin avoid}}
        \cup {p.crn_a : p \in {q \in pairs : q.crn_b \in avoid /\ q.crn_a \notin avoid}}

\* The time and day rules, for a section that has meetings.
Fits(c, w) ==
    LET rows == snap.meets[c]
    IN  /\ w.days_within # Nil => \A r \in rows : r.day \in w.days_within
        /\ w.starts_at # Nil => \E r \in rows : r.start = w.starts_at
        /\ w.no_meeting_before # Nil => \A r \in rows : r.start >= w.no_meeting_before
        /\ w.no_meeting_after # Nil => \A r \in rows : r.end <= w.no_meeting_after
        /\ w.exclude_days # Nil => \A r \in rows : r.day \notin w.exclude_days

TimeDayGiven(w) ==
    \/ w.days_within # Nil \/ w.starts_at # Nil \/ w.exclude_days # Nil
    \/ w.no_meeting_before # Nil \/ w.no_meeting_after # Nil

\* open_only, min_seats and avoid_conflict_with exclude outright.
Passes(c, w, avoid, candidates) ==
    /\ w.open_only => snap.seats[c] > 0
    /\ snap.seats[c] >= w.min_seats
    /\ c \notin Blocked(avoid, candidates)

Listing(w, avoid, rule, sections, without, narrow) ==
    [kind |-> "sections", wish |-> w, avoid |-> avoid, rule |-> rule,
     sections |-> sections, without |-> without, narrow |-> narrow,
     shown |-> snap.seats, stale |-> {}]

AsksLive(w, sections) ==
    w.refresh /\ Cardinality(Subjects(sections)) <= MaxRefreshSubjects

\* overlayLiveSeats, up to its await: all subjects are asked at once.
StartsOverlay(w, sections) ==
    IF AsksLive(w, sections) /\ sections # {}
      THEN /\ waiting' = Subjects(sections)
           /\ fetched' = NoLive
           /\ seen' = [c \in Crns |-> {seats[c]}]
      ELSE UNCHANGED overlay

Avoided(w) == IF w.avoid THEN fixed ELSE {}

\* The arguments that only find-sections-by-schedule has.
NotForRules(w) ==
    \/ w.among # Nil \/ w.days_within # Nil \/ w.starts_at # Nil
    \/ w.no_meeting_after # Nil \/ w.min_seats > 0

\* Sections without meetings are listed apart if there is a time or day rule.
WithoutMeetings(passed, w) ==
    {c \in passed : TimeDayGiven(w) /\ snap.meets[c] = {}}

FindEligible(w) ==
    /\ Asks
    /\ ~NotForRules(w)
    /\ LET passed == {c \in RuleCourses : Passes(c, w, Avoided(w), RuleCourses)}
           without == WithoutMeetings(passed, w)
           sections == {c \in passed \ without : Fits(c, w)}
       IN /\ reply' = Listing(w, Avoided(w), TRUE, sections, without, FALSE)
          /\ StartsOverlay(w, sections)
    /\ UNCHANGED <<banner, snap, fixed>>

\* Without a constraint that bounds the search the tool refuses.
Bounded(w) ==
    \/ w.among # Nil \/ w.days_within # Nil \/ w.starts_at # Nil
    \/ w.no_meeting_before # Nil \/ w.no_meeting_after # Nil

Offered(w) == {c \in Crns : w.among # Nil => c \in w.among}

Matches(w) ==
    {c \in Offered(w) : /\ Passes(c, w, Avoided(w), Offered(w))
                        /\ TimeDayGiven(w) => snap.meets[c] # {} /\ Fits(c, w)}

\* Too many matches are counted, not listed.
FindSections(w) ==
    /\ Asks
    /\ Bounded(w)
    /\ LET matches == Matches(w)
           narrow == Cardinality(matches) > NarrowThreshold
           sections == IF narrow THEN {} ELSE matches
       IN /\ reply' = Listing(w, Avoided(w), FALSE, sections, {}, narrow)
          /\ StartsOverlay(w, sections)
    /\ UNCHANGED <<banner, snap, fixed>>

\* The first page of a live query.
Page(subject) ==
    {c \in Crns : /\ SubjectOf[c] = subject
                  /\ Cardinality({d \in Crns : d <= c /\ SubjectOf[d] = subject}) <= FirstPage}

\* Faulty: only a query that failed leaves its sections stale.
OverlaidBySubject(got, failed) ==
    [reply EXCEPT
       !.shown = [c \in Crns |-> IF c \in reply.sections /\ got[c] # Nil
                                   THEN got[c] ELSE reply.shown[c]],
       !.stale = {c \in reply.sections : SubjectOf[c] = failed}]

\* Sections that no live answer names keep their snapshot's seats and are
\* counted as stale.
Overlaid(got, failed) ==
    [reply EXCEPT
       !.shown = [c \in Crns |-> IF c \in reply.sections /\ got[c] # Nil
                                   THEN got[c] ELSE reply.shown[c]],
       !.stale = {c \in reply.sections : got[c] = Nil}]

\* A live query ends, with a page or with nothing; after the last one the
\* overlay is made.
Settles(subject) ==
    /\ subject \in waiting
    /\ waiting' = waiting \ {subject}
    /\ \E page \in {Page(subject), {}} :
         LET got == [c \in Crns |-> IF c \in page THEN seats[c] ELSE fetched[c]]
         IN IF waiting' = {}
              THEN /\ reply' = Overlaid(got, IF page = {} THEN subject ELSE Nil)
                   /\ UNCHANGED fetched
              ELSE /\ fetched' = got
                   /\ UNCHANGED reply
    /\ UNCHANGED <<banner, snap, fixed, seen>>

-----------------------------------------------------------------------------
(* The agent builds the schedule from what the tools answered. *)

Reads(answered) ==
    /\ waiting = {}
    /\ answered
    /\ reply' = NoReply
    /\ fetched' = NoLive /\ seen' = [c \in Crns |-> {}]
    /\ UNCHANGED <<banner, snap, waiting>>

\* One section of a search that was told to avoid the schedule.
Take ==
    /\ Reads(reply.kind = "sections" /\ reply.wish.avoid)
    /\ \E c \in reply.sections \cup reply.without : fixed' = fixed \cup {c}

\* All candidates that were called free of conflicts, at once.
TakeFree ==
    /\ Reads(reply.kind = "verdict")
    /\ fixed' = reply.fixed \cup reply.free

\* The agent only looks at the answer, or starts a new schedule.
Pass ==
    /\ Reads(reply # NoReply)
    /\ fixed' \in {fixed, {}}

-----------------------------------------------------------------------------
(* get-clemson-room-availability *)

Before(a, b) ==
    \/ a.s < b.s
    \/ a.s = b.s /\ a.e < b.e
    \/ a.s = b.s /\ a.e = b.e /\ a.crn < b.crn

\* In their order: an interval's place is the number of those before it.
InOrder(ivs) ==
    [i \in 1 .. Cardinality(ivs) |->
        CHOOSE x \in ivs : Cardinality({y \in ivs : Before(y, x)}) = i - 1]

\* Faulty: a class inside another one ends the block.
MergeToTheLast(blocks, iv) ==
    IF blocks # <<>> /\ iv.s <= Last(blocks).e
      THEN Append(Front(blocks), [s |-> Last(blocks).s, e |-> iv.e,
                                  crns |-> Last(blocks).crns \cup {iv.crn}])
      ELSE Append(blocks, [s |-> iv.s, e |-> iv.e, crns |-> {iv.crn}])

Merge(blocks, iv) ==
    IF blocks # <<>> /\ iv.s <= Last(blocks).e
      THEN Append(Front(blocks), [s |-> Last(blocks).s, e |-> Max({Last(blocks).e, iv.e}),
                                  crns |-> Last(blocks).crns \cup {iv.crn}])
      ELSE Append(blocks, [s |-> iv.s, e |-> iv.e, crns |-> {iv.crn}])

\* The blocks after each of the intervals.
Merged(ivs) ==
    LET after[i \in 0 .. Len(ivs)] == IF i = 0 THEN <<>> ELSE Merge(after[i - 1], ivs[i])
    IN  after

\* The room's classes on any of the days.
Intervals(q) ==
    {[s |-> r.start, e |-> r.end, crn |-> r.crn] :
        r \in {m \in GetMeetings(Crns) : /\ m.building \in q.buildings /\ m.room = q.room
                                         /\ m.day \in q.days}}

Busy(q) == LET ivs == InOrder(Intervals(q)) IN Merged(ivs)[Len(ivs)]

\* A free block, if there is one and it is long enough.
FreeBlock(from, to, q) ==
    IF from < to /\ to - from >= q.minMinutes THEN <<<<from, to>>>> ELSE <<>>

\* The gap before a block, and where the blocks end.
PastBlock(acc, b, q) ==
    [cur |-> Max({acc.cur, b.e}),
     free |-> acc.free \o FreeBlock(acc.cur, Min({b.s, q.dayEnd}), q)]

PastBlocks(blocks, q) ==
    LET past[i \in 0 .. Len(blocks)] ==
          IF i = 0 THEN [cur |-> q.dayStart, free |-> <<>>]
                   ELSE PastBlock(past[i - 1], blocks[i], q)
    IN  past

\* The gaps before each block and after the last one, inside the window.
Gaps(blocks, q) ==
    LET last == PastBlocks(blocks, q)[Len(blocks)]
    IN  last.free \o FreeBlock(last.cur, q.dayEnd, q)

RoomAvailability(q) ==
    /\ Asks
    /\ reply' = [kind |-> "room", ask |-> q, busy |-> Busy(q), free |-> Gaps(Busy(q), q)]
    /\ UNCHANGED <<banner, snap, fixed, overlay>>

-----------------------------------------------------------------------------
(* propose_schedule *)

\* The line's time must be one of the section's, with all days of that time;
\* a building or a room, if there is one, must be one of that time's.
CheckSection(l) ==
    /\ l.agrees
    /\ LET rows == snap.meets[l.crn]
           group == {r \in rows : r.start = l.begin /\ r.end = l.end}
       IN IF rows = {}
            THEN l.days = {} /\ l.begin = TBA /\ l.end = TBA /\ l.building = Nil /\ l.room = Nil
            ELSE /\ group # {}
                 /\ l.days = {r.day : r \in group}
                 /\ l.building # Nil => l.building \in {r.building : r \in group}
                 /\ l.room # Nil => l.room \in {r.room : r \in group}

\* The characters of the line's days: the check ignores case and blanks.
Letters(l) ==
    ({IF l.style = "lower" THEN "lower" ELSE "upper"} \X l.days)
      \cup (IF l.style = "spaced" /\ Cardinality(l.days) > 1 THEN {<<"blank", Nil>>} ELSE {})

\* parseHhmm takes four digits only.
IsTimed(l) == l.begin # TBA /\ l.end # TBA /\ l.style # "colon"

IsGriddable(l) == IsTimed(l) /\ Letters(l) \cap ({"upper"} \X Days) # {}

\* The pairs of lines that the grid's badge counts.
ConflictInfo(lines) ==
    {x \in (DOMAIN lines) \X (DOMAIN lines) :
       LET a == lines[x[1]]
           b == lines[x[2]]
       IN /\ x[1] < x[2] /\ IsTimed(a) /\ IsTimed(b)
          /\ Letters(a) \cap Letters(b) # {}
          /\ a.begin < b.end /\ b.begin < a.end}

\* A schedule with a line that fails the check is refused; without a snapshot
\* it is taken and marked unverified (what it says then is left out).
ProposeSchedule ==
    /\ reply = NoReply
    /\ LET accepted == IF snap = Nil THEN {} ELSE {l \in Line : CheckSection(l)}
       IN \E lines \in {<<>>} \cup {<<l>> : l \in accepted} \cup (accepted \X accepted) :
            reply' = [kind |-> "document", lines |-> lines, verified |-> snap # Nil,
                      drawn |-> {i \in DOMAIN lines : IsGriddable(lines[i])},
                      pairs |-> ConflictInfo(lines)]
    /\ UNCHANGED <<banner, snap, fixed, overlay>>

-----------------------------------------------------------------------------
\* The answers that depend on the snapshot's meetings alone.
LooksUp == ProposeSchedule \/ \E q \in RoomWishes : RoomAvailability(q)

Builds ==
    \/ Refresh \/ Take \/ TakeFree \/ Pass
    \/ \E c \in Crns : Moves(c)
    \/ \E crns \in (SUBSET Crns) \ {{}} : CheckConflicts(crns) \/ FindConflictFree(crns)
    \/ \E w \in Wishes : FindEligible(w) \/ FindSections(w)
    \/ \E subject \in Subjects(Crns) : Settles(subject)

AdviceNext == LooksUp \/ Builds

AdviceSpec == AdviceInit /\ [][AdviceNext]_adviceVars

-----------------------------------------------------------------------------
(* Properties *)

\* The instants at which a section is published to meet.
Meets(c) ==
    {x \in Days \X Minutes : \E p \in offer[c] :
        p.start # Nil /\ x[1] \in p.days /\ p.start <= x[2] /\ x[2] < p.end}

\* A schedule that was built only from what the tools said fits, one search or
\* one verdict after the other, never has two sections at the same minute.
NoClash ==
    \A c, d \in fixed : c # d => Meets(c) \cap Meets(d) = {}

\* A section that meets when the wish allows it, minute by minute.
Suits(c, w) ==
    /\ \A x \in Meets(c) :
         /\ w.days_within # Nil => x[1] \in w.days_within
         /\ w.exclude_days # Nil => x[1] \notin w.exclude_days
         /\ w.no_meeting_before # Nil => x[2] >= w.no_meeting_before
         /\ w.no_meeting_after # Nil => x[2] < w.no_meeting_after
    /\ w.starts_at # Nil /\ Meets(c) # {} =>
         \E p \in offer[c] : p.days # {} /\ p.start = w.starts_at

\* The sections that the wish of the last search allows, by their meetings and
\* the snapshot's seats, and those of them that have no time although it speaks
\* of times.
Allowed ==
    {c \in Crns :
        /\ reply.wish.open_only => snap.seats[c] > 0
        /\ snap.seats[c] >= reply.wish.min_seats
        /\ reply.rule => c \in RuleCourses
        /\ ~reply.rule /\ reply.wish.among # Nil => c \in reply.wish.among
        /\ c \notin reply.avoid => \A d \in reply.avoid : Meets(c) \cap Meets(d) = {}
        /\ Suits(c, reply.wish)}

Timeless == {c \in Allowed : TimeDayGiven(reply.wish) /\ Meets(c) = {}}

VerdictsAreExact ==
    reply.kind = "verdict" =>
        reply.free = {c \in reply.asked :
                        \A d \in (reply.asked \cup reply.fixed) \ {c} :
                           Meets(c) \cap Meets(d) = {}}

SearchesAreExact ==
    reply.kind = "sections" =>
        /\ reply.narrow <=>
             ~reply.rule /\ Cardinality(Allowed \ Timeless) > NarrowThreshold
        /\ reply.sections = IF reply.narrow THEN {} ELSE Allowed \ Timeless
        /\ reply.without = IF reply.rule THEN Timeless ELSE {}

\* Minute by minute: a candidate is called free if and only if it meets at no
\* minute of a fixed section or of another candidate, and a search lists
\* exactly the sections that the wish allows, or none if they are too many.
AnswersAreExact == VerdictsAreExact /\ SearchesAreExact

\* The minutes of the window without a class on any of the days.
Unused(q) ==
    {t \in q.dayStart .. q.dayEnd - 1 :
       ~\E c \in Crns : \E p \in offer[c] :
          /\ p.start # Nil /\ p.building \in q.buildings /\ p.room = q.room
          /\ p.days \cap q.days # {}
          /\ p.start <= t /\ t < p.end}

\* The free blocks of a room are its unused stretches that are long enough,
\* each in one piece, whatever overlaps, touches or leaves the window.
FreeIsUnused ==
    reply.kind = "room" =>
      LET q == reply.ask
          runs == {x \in (q.dayStart .. q.dayEnd) \X (q.dayStart .. q.dayEnd) :
                     /\ x[1] < x[2] /\ x[1] .. x[2] - 1 \subseteq Unused(q)
                     /\ x[1] = 0 \/ x[1] - 1 \notin Unused(q)
                     /\ x[2] \notin Unused(q)}
      IN  /\ {reply.free[i] : i \in DOMAIN reply.free} =
               {x \in runs : x[2] - x[1] >= q.minMinutes}
          /\ \A i, j \in DOMAIN reply.free : i < j => reply.free[i][2] < reply.free[j][1]

\* The seats shown after a live refresh are seats that Banner had while the
\* refresh was under way, or the section is counted as stale, whatever fails,
\* does not fit on a page, or moves between two subjects' answers; and a search
\* that spans many subjects does not ask live at all.
SeatsAreLiveOrStale ==
    /\ Cardinality(waiting) <= MaxRefreshSubjects
    /\ reply.kind = "sections" /\ waiting = {} /\ reply.wish.refresh =>
        \/ \A c \in reply.sections : reply.shown[c] \in seen[c] \/ c \in reply.stale
        \/ Cardinality(Subjects(reply.sections)) > MaxRefreshSubjects

\* A line is true of its section: the section meets at that time on these days
\* and no others, the building is one of that time's and so is the room.  They
\* are each other's if the section has one place at that time.
LineIsPublished(l) ==
    LET then == {p \in offer[l.crn] : /\ p.start # Nil /\ p.days # {}
                                      /\ p.start = l.begin /\ p.end = l.end}
    IN  /\ l.agrees
        /\ l.begin = TBA => Meets(l.crn) = {} /\ l.building = Nil /\ l.room = Nil
        /\ l.begin # TBA =>
             /\ then # {}
             /\ l.days = UNION {p.days : p \in then}
             /\ l.building # Nil => \E p \in then : p.building = l.building
             /\ l.room # Nil => \E p \in then : p.room = l.room
             /\ (\A p, q \in then : p.building = q.building /\ p.room = q.room) =>
                  \A p \in then : /\ l.building # Nil => p.building = l.building
                                  /\ l.room # Nil => p.room = l.room

SameTime(a, b) ==
    /\ a.begin # TBA /\ b.begin # TBA
    /\ \E t \in Minutes : /\ a.begin <= t /\ t < a.end
                          /\ b.begin <= t /\ t < b.end

\* The grid compares the days of two lines: both times have four digits, and
\* their letters are of one case.
Comparable(a, b) ==
    /\ a.style # "colon" /\ b.style # "colon"
    /\ a.style = "lower" <=> b.style = "lower"

\* Every line of a document that says it was checked is published, however it is
\* written.  The grid draws the lines that have a time as it can read it; its
\* badge counts every clash of lines that it can compare, and nothing else, but
\* for lines at the same time whose days share no more than a blank.
PrintedIsPublished ==
    reply.kind = "document" /\ reply.verified =>
      LET lines == reply.lines
          clash(a, b) == SameTime(a, b) /\ a.days \cap b.days # {}
      IN  /\ \A i \in DOMAIN lines : LineIsPublished(lines[i])
          /\ reply.drawn = {i \in DOMAIN lines :
               lines[i].begin # TBA /\ lines[i].style \notin {"colon", "lower"}}
          /\ \A i, j \in DOMAIN lines :
               LET a == lines[i]
                   b == lines[j]
               IN  /\ i < j /\ clash(a, b) /\ Comparable(a, b) => <<i, j>> \in reply.pairs
                   /\ <<i, j>> \in reply.pairs =>
                        /\ i < j
                        /\ \/ clash(a, b)
                           \/ SameTime(a, b) /\ a.style = "spaced" /\ b.style = "spaced"

\* What is told or shown of a section is what was published for it: verdicts and
\* searches are exact, seats are live ones or said to be stale, the lines of a
\* schedule passed the check, and the sections that the answers led to do not
\* clash.
AdviceIsTrue ==
    AnswersAreExact /\ SeatsAreLiveOrStale /\ PrintedIsPublished /\ NoClash
=============================================================================
