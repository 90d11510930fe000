----------------------------- MODULE MCClassData ----------------------------
(* Instances of TermSnapshots and ScheduleAdvice for TLC.  What a snapshot is  *)
(* made of does not depend on what is asked of it: a behaviour follows the     *)
(* file, or the questions, while the other stands still.                       *)
EXTENDS TermSnapshots, ScheduleAdvice

CONSTANTS q1, q2, job

\* Two questions of the server, and the daily job in a process of its own.
TwoProcesses == [c \in Calls |-> IF c = job THEN "job" ELSE "server"]

\* One asks for what there is, one for a refresh; the job refreshes.
EachItsOwn == [c \in Calls |->
    CASE c = job -> {q \in Question : q.tool = "daily"}
      [] c = q2 -> {q \in Question : q.tool = "sections" /\ q.refresh /\ ~q.subject}
      [] OTHER -> {q \in Question : q.tool # "daily" /\ (q.refresh => q.tool = "search")}]

\* Four sections of three subjects; a meeting is at least one minute long.
ThreeSubjects == [c \in Crns |-> IF c < 3 THEN "GC" ELSE IF c = 3 THEN "MATH" ELSE "ART"]

At(days, start, end, building) ==
    [days |-> days, start |-> start, end |-> end, building |-> building,
     room |-> CASE building = "A" -> "1" [] building = "B" -> "2" [] OTHER -> Nil]

Online == At({}, Nil, Nil, Nil)

\* Meetings that overlap, touch, contain each other or fall on other days; a
\* section with two patterns, one in two places at one time, one without times,
\* one without any.
Long == {{At({"M"}, 0, 3, "A")}, {At({"M"}, 0, 1, "A"), At({"T"}, 2, 3, "A")}, {Online}}
Short == {{}, {At({"M"}, 1, 2, "A"), At({"T"}, 1, 2, "B")},
          {At({"T"}, 0, 2, "A"), At({"M"}, 2, 4, Nil)}}
Third == {{At({"M", "T"}, 2, 4, "A")}, {[At({"M"}, 1, 4, "B") EXCEPT !.room = "1"]}}
ManyOffers == {o \in [Crns -> Long \cup Short \cup Third] :
                 o[1] \in Long /\ o[2] \in Short /\ o[3] \in Third /\ o[4] = {Online}}

Anything ==
    [among |-> Nil, days_within |-> Nil, starts_at |-> Nil,
     no_meeting_before |-> Nil, no_meeting_after |-> Nil, exclude_days |-> Nil,
     open_only |-> FALSE, min_seats |-> 0, avoid |-> TRUE, refresh |-> FALSE]

SomeWishes ==
    {[Anything EXCEPT !.refresh = TRUE],
     [Anything EXCEPT !.no_meeting_before = 1, !.open_only = TRUE],
     [Anything EXCEPT !.exclude_days = {"T"}, !.refresh = TRUE, !.avoid = FALSE],
     [Anything EXCEPT !.among = {1, 2}, !.refresh = TRUE],
     [Anything EXCEPT !.days_within = {"M"}, !.min_seats = 1],
     [Anything EXCEPT !.starts_at = 2, !.avoid = FALSE, !.refresh = TRUE],
     [Anything EXCEPT !.no_meeting_after = 3]}

\* A name that one building has, or two.
SomeRooms ==
    {[buildings |-> b, room |-> "1", days |-> d, dayStart |-> s, dayEnd |-> e,
      minMinutes |-> n] :
        b \in {{"A"}, {"A", "B"}}, d \in {{"M"}, {"M", "T"}}, s \in {0, 1}, e \in {3, 5},
        n \in {2}}

-----------------------------------------------------------------------------
VARIABLE followed

classVars == <<vars, adviceVars, followed>>

ClassInit ==
    /\ Init /\ AdviceInit
    /\ \/ followed = "file" /\ offer = CHOOSE o \in Offers : TRUE
       \/ followed = "advice" /\ live = None

OfFile(A) == followed = "file" /\ A /\ UNCHANGED <<adviceVars, followed>>
OfAdvice(A) == followed = "advice" /\ A /\ UNCHANGED <<vars, followed>>

\* What depends on the meetings alone is looked up once.
ClassNext ==
    \/ OfFile(Next) \/ OfAdvice(Builds)
    \/ fixed = {} /\ moves = 0 /\ OfAdvice(LooksUp)

\* A call that has begun goes on, as in FairSpec.
ClassSpec ==
    /\ ClassInit /\ [][ClassNext]_classVars
    /\ \A c \in Calls : WF_classVars(OfFile(Step(c)))
=============================================================================
