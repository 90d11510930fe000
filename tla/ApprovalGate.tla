---------------------------- MODULE ApprovalGate ----------------------------
(***************************************************************************)
(* The send-approval gate (src/approval/gate.ts) with the SQLite store it  *)
(* writes through to (src/approval/store.ts) and the Telegram receiver     *)
(* that feeds it taps (src/notifiers/telegram-approval.ts).                *)
(*                                                                         *)
(* JavaScript runs every synchronous stretch of the gate to its end, so an *)
(* action is one such stretch: it ends at an await (the channel's post,    *)
(* the provider's send, getUpdates) or at a return.  The process can be    *)
(* killed at any moment.  A kill between two synchronous store writes is   *)
(* an action of its own where the store differs (KilledInSubmit).          *)
(*                                                                         *)
(* `approvals', `rejects', `mailed', `lost' and `untimed' are history:     *)
(* nothing reads them but the properties.                                  *)
(***************************************************************************)
EXTENDS Naturals, Sequences, FiniteSets

CONSTANTS
    Requests,        \* request ids the id generator can still hand out
    TTL,             \* config.ttlMs, in clock ticks
    Hour,            \* HOUR_MS, in clock ticks
    RateLimit,       \* config.rateLimitPerHour
    MaxOutstanding,  \* config.maxOutstanding
    StoreFaults,     \* may a store write throw (disk full, SQLITE_BUSY)?
    Tappers,         \* who taps: the authorized "owner", a "stranger"
    MaxTime,         \* bound on the clock
    MaxTaps,         \* bound on button taps
    MaxCrashes       \* bound on process deaths

ASSUME GateAssumption ==
    /\ TTL \in Nat \ {0}
    /\ Hour \in Nat \ {0}
    /\ RateLimit \in Nat
    /\ MaxOutstanding \in Nat
    /\ StoreFaults \in BOOLEAN
    /\ Tappers \subseteq {"owner", "stranger"}
    /\ MaxTime \in Nat
    /\ MaxTaps \in Nat
    /\ MaxCrashes \in Nat

VARIABLES
    now,        \* ports.clock
    up,         \* is the gate's process running?
    mem,        \* status of each entry of the map `pending'; "absent": no entry
    disk,       \* status column of pending_sends; "absent": no row
    created,    \* created_at, kept with the record
    issued,     \* ids the generator has handed out
    times,      \* submitTimes: the requests whose submit it still counts
    diskTimes,  \* the submit_times table, likewise
    posting,    \* requests whose submit awaits channel.post
    chat,       \* requests whose message, with its buttons, reached the chat
    updates,    \* callback queries Telegram has received, oldest first
    confirmed,  \* how many of them Telegram will not deliver again
    offset,     \* pollLoop's offset: updates it has taken from its batches
    fetched,    \* end of the batch pollLoop is going through
    await,      \* what approve's await of the sender knows of each request
    orphans,    \* sends nobody awaits any more but the provider may still do
    mailed,     \* how many times the provider delivered the mail
    approvals,  \* how often approve took the request out of pending
    rejects,    \* how often reject did
    lost,       \* requests whose decision was not written to the store
    untimed,    \* requests whose submit time was not written to the store
    crashes

clockVars  == <<now, up, crashes>>
reqVars    == <<created, issued, untimed>>
rateVars   == <<times, diskTimes>>
postVars   == <<posting, chat>>
pollVars   == <<updates, confirmed, offset, fetched>>
sendVars   == <<await, orphans, mailed>>
decideVars == <<approvals, rejects, lost>>
vars == <<clockVars, mem, disk, reqVars, rateVars, postVars, pollVars,
          sendVars, decideVars>>

SendStatus == {"pending", "sending", "sent", "rejected", "expired", "failed"}
Terminal   == {"sent", "rejected", "expired", "failed"}
Answers    == {"no", "waiting", "delivered", "refused"}
Verbs      == {"ok", "no"}

Update == [verb : Verbs, req : Requests, by : Tappers]

TypeOK ==
    /\ now \in Nat
    /\ up \in BOOLEAN
    /\ crashes \in Nat
    /\ mem \in [Requests -> SendStatus \cup {"absent"}]
    /\ disk \in [Requests -> SendStatus \cup {"absent"}]
    /\ created \in [Requests -> Nat]
    /\ issued \subseteq Requests
    /\ untimed \subseteq Requests
    /\ times \subseteq Requests
    /\ diskTimes \subseteq Requests
    /\ posting \subseteq Requests
    /\ chat \subseteq Requests
    /\ updates \in Seq(Update)
    /\ confirmed \in Nat
    /\ offset \in Nat
    /\ fetched \in Nat
    /\ await \in [Requests -> Answers]
    /\ orphans \in [Requests -> Nat]
    /\ mailed \in [Requests -> Nat]
    /\ approvals \in [Requests -> Nat]
    /\ rejects \in [Requests -> Nat]
    /\ lost \subseteq Requests

Init ==
    /\ now = 0
    /\ up = TRUE
    /\ crashes = 0
    /\ mem = [r \in Requests |-> "absent"]
    /\ disk = [r \in Requests |-> "absent"]
    /\ created = [r \in Requests |-> 0]
    /\ issued = {}
    /\ untimed = {}
    /\ times = {}
    /\ diskTimes = {}
    /\ posting = {}
    /\ chat = {}
    /\ updates = <<>>
    /\ confirmed = 0
    /\ offset = 0
    /\ fetched = 0
    /\ await = [r \in Requests |-> "no"]
    /\ orphans = [r \in Requests |-> 0]
    /\ mailed = [r \in Requests |-> 0]
    /\ approvals = [r \in Requests |-> 0]
    /\ rejects = [r \in Requests |-> 0]
    /\ lost = {}

-----------------------------------------------------------------------------
(* Helpers of the gate. *)

\* sweepExpired: pending entries whose time to live has elapsed expire.
Swept(status) ==
    [r \in Requests |->
        IF status[r] = "pending" /\ now >= created[r] + TTL
        THEN "expired" ELSE status[r]]

Changed(status) == {r \in Requests : status[r] # mem[r]}

\* persist upserts each entry it is given.  A write that throws is absorbed:
\* the row keeps what it had and the gate carries on.  The sets of requests of
\* which the write can have gone through, and the rows these leave.
Writes(entries) == IF StoreFaults THEN SUBSET entries ELSE {entries}

Rows(status, written) ==
    [r \in Requests |-> IF r \in written THEN status[r] ELSE disk[r]]

\* Entries take the statuses given; the ones that changed are persisted.
Settle(status) ==
    /\ mem' = status
    /\ \E written \in Writes(Changed(status)) : disk' = Rows(status, written)

\* The entries the hourly window still counts: now - t < HOUR_MS.
Recent == {r \in times : now < created[r] + Hour}

Outstanding(status) == {r \in Requests : status[r] = "pending"}

Admits ==
    /\ Cardinality(Recent) < RateLimit
    /\ Cardinality(Outstanding(Swept(mem))) < MaxOutstanding

-----------------------------------------------------------------------------
(* submit.  Only a submit that leaves its TTL within the bounded clock is    *)
(* looked at.                                                                *)

Submit(r) ==
    /\ up
    /\ r \notin issued
    /\ now + TTL <= MaxTime
    /\ Admits
    /\ Settle([Swept(mem) EXCEPT ![r] = "pending"])
    /\ created' = [created EXCEPT ![r] = now]
    /\ issued' = issued \cup {r}
    /\ times' = Recent \cup {r}
    /\ \/ diskTimes' = diskTimes \cup {r} /\ UNCHANGED untimed
       \/ StoreFaults /\ untimed' = untimed \cup {r} /\ UNCHANGED diskTimes
    /\ posting' = posting \cup {r}
    /\ UNCHANGED <<clockVars, chat, pollVars, sendVars, decideVars>>

\* rate_limited or too_many_pending: the sweep and the filter still happened.
SubmitRefused ==
    /\ up
    /\ ~Admits
    /\ Settle(Swept(mem))
    /\ times' = Recent
    /\ UNCHANGED <<clockVars, reqVars, diskTimes, postVars, pollVars,
                   sendVars, decideVars>>

\* The message reaches the chat while submit awaits the answer.
PostDelivered(r) ==
    /\ r \in posting \ chat
    /\ chat' = chat \cup {r}
    /\ UNCHANGED <<clockVars, mem, disk, reqVars, rateVars, posting, pollVars,
                   sendVars, decideVars>>

PostOk(r) ==
    /\ r \in posting \cap chat
    /\ posting' = posting \ {r}
    /\ UNCHANGED <<clockVars, mem, disk, reqVars, rateVars, chat, pollVars,
                   sendVars, decideVars>>

\* post throws (the message may have arrived, or still arrive): the entry
\* becomes failed, whatever it was by then.
PostFails(r) ==
    /\ r \in posting
    /\ posting' = posting \ {r}
    /\ \E arrived \in SUBSET {r} : chat' = chat \cup arrived
    /\ mem' = [mem EXCEPT ![r] = "failed"]
    /\ \E written \in Writes({r}) : disk' = Rows(mem', written)
    /\ UNCHANGED <<clockVars, reqVars, rateVars, pollVars, sendVars,
                   decideVars>>

-----------------------------------------------------------------------------
(* The Telegram receiver.  One loop: it takes the next update only when the  *)
(* one before it is done, so no poll and no tap while approve awaits.        *)

LoopFree == up /\ \A r \in Requests : await[r] = "no"

\* The user taps a button of a message in the chat.  (The buttons go once an
\* edit reaches the client, which no code waits for: any message can be
\* tapped again.)
Tap(r, verb, who) ==
    /\ r \in chat
    /\ Len(updates) < MaxTaps
    /\ updates' = Append(updates, [verb |-> verb, req |-> r, by |-> who])
    /\ UNCHANGED <<clockVars, mem, disk, reqVars, rateVars, postVars,
                   confirmed, offset, fetched, sendVars, decideVars>>

\* getUpdates: the offset sent confirms what lies below it.  The answer is
\* every update above it, or is lost on the way.  A fresh loop sends 0 and is
\* given whatever was never confirmed.
Poll ==
    /\ LoopFree
    /\ offset >= fetched
    /\ confirmed' = IF offset > confirmed THEN offset ELSE confirmed
    /\ offset' = confirmed'
    /\ fetched' \in {offset', Len(updates)}
    /\ UNCHANGED <<clockVars, mem, disk, reqVars, rateVars, postVars, updates,
                   sendVars, decideVars>>

NextTap == updates[offset + 1]

TakesTap ==
    /\ LoopFree
    /\ offset < fetched
    /\ offset' = offset + 1
    /\ UNCHANGED <<clockVars, reqVars, rateVars, postVars, updates, confirmed,
                   fetched, orphans, mailed>>

\* Faulty variant: the user id is not looked at.
DecidesForAnyone(verb) ==
    /\ NextTap.verb = verb
    /\ Swept(mem)[NextTap.req] = "pending"

\* Faulty variant: everything but a send in flight can be decided.
DecidesAgain(verb) ==
    /\ NextTap.verb = verb
    /\ NextTap.by = "owner"
    /\ Swept(mem)[NextTap.req] \notin {"absent", "sending"}

\* Faulty variant: the entry is looked at before the sweep.
DecidesUnswept(verb) ==
    /\ NextTap.verb = verb
    /\ NextTap.by = "owner"
    /\ mem[NextTap.req] = "pending"

Decides(verb) ==
    /\ NextTap.verb = verb
    /\ NextTap.by = "owner"
    /\ Swept(mem)[NextTap.req] = "pending"

\* The decision's write may be the one that throws.
Decide(r, status) ==
    LET after == [Swept(mem) EXCEPT ![r] = status]
    IN  /\ mem' = after
        /\ \E written \in Writes(Changed(after)) :
              /\ disk' = Rows(after, written)
              /\ lost' = IF r \in written THEN lost ELSE lost \cup {r}

\* Faulty variant: only the outcome of the send is written, not `sending'.
ApproveUnwritten ==
    /\ TakesTap
    /\ Decides("ok")
    /\ mem' = [Swept(mem) EXCEPT ![NextTap.req] = "sending"]
    /\ disk' = Rows(mem', Changed(Swept(mem)))
    /\ await' = [await EXCEPT ![NextTap.req] = "waiting"]
    /\ approvals' = [approvals EXCEPT ![NextTap.req] = @ + 1]
    /\ UNCHANGED <<rejects, lost>>

\* approve up to its await: `sending' is written before the provider is called.
Approve ==
    /\ TakesTap
    /\ Decides("ok")
    /\ Decide(NextTap.req, "sending")
    /\ await' = [await EXCEPT ![NextTap.req] = "waiting"]
    /\ approvals' = [approvals EXCEPT ![NextTap.req] = @ + 1]
    /\ UNCHANGED rejects

Reject ==
    /\ TakesTap
    /\ Decides("no")
    /\ Decide(NextTap.req, "rejected")
    /\ rejects' = [rejects EXCEPT ![NextTap.req] = @ + 1]
    /\ UNCHANGED <<await, approvals>>

\* A stranger's tap, or a tap on what is no longer pending: only the sweep.
IgnoreTap ==
    /\ TakesTap
    /\ ~Decides("ok") /\ ~Decides("no")
    /\ Settle(Swept(mem))
    /\ UNCHANGED <<await, decideVars>>

\* answerCallbackQuery or editMessageText throws after a tap was handled: the
\* rest of the batch is dropped, to be fetched again.
DropBatch ==
    /\ LoopFree
    /\ offset < fetched
    /\ fetched' = offset
    /\ UNCHANGED <<clockVars, mem, disk, reqVars, rateVars, postVars, updates,
                   confirmed, offset, sendVars, decideVars>>

-----------------------------------------------------------------------------
(* The send approve awaits: the provider acts, then the await returns.       *)

ProviderAccepts(r) ==
    /\ await[r] = "waiting"
    /\ await' = [await EXCEPT ![r] = "delivered"]
    /\ mailed' = [mailed EXCEPT ![r] = @ + 1]
    /\ UNCHANGED <<clockVars, mem, disk, reqVars, rateVars, postVars, pollVars,
                   orphans, decideVars>>

ProviderRefuses(r) ==
    /\ await[r] = "waiting"
    /\ await' = [await EXCEPT ![r] = "refused"]
    /\ UNCHANGED <<clockVars, mem, disk, reqVars, rateVars, postVars, pollVars,
                   orphans, mailed, decideVars>>

\* A send given up on while the provider still has it.
Orphaned(r) ==
    IF await[r] = "waiting" THEN [orphans EXCEPT ![r] = @ + 1] ELSE orphans

\* The rest of approve, and the getStatus with which the loop follows it.
SendReturns(r, status) ==
    /\ Settle(Swept([mem EXCEPT ![r] = status]))
    /\ await' = [await EXCEPT ![r] = "no"]
    /\ UNCHANGED <<clockVars, reqVars, rateVars, postVars, pollVars, mailed,
                   decideVars>>

SendOk(r) ==
    /\ await[r] = "delivered"
    /\ SendReturns(r, "sent")
    /\ UNCHANGED orphans

\* Refused, or a timeout or a broken connection, delivered or not.
SendFails(r) ==
    /\ await[r] # "no"
    /\ SendReturns(r, "failed")
    /\ orphans' = Orphaned(r)

OrphanDelivers(r) ==
    /\ orphans[r] > 0
    /\ orphans' = [orphans EXCEPT ![r] = @ - 1]
    /\ mailed' = [mailed EXCEPT ![r] = @ + 1]
    /\ UNCHANGED <<clockVars, mem, disk, reqVars, rateVars, postVars, pollVars,
                   await, decideVars>>

-----------------------------------------------------------------------------
(* The rest: status queries, the clock, process death and restart.           *)

GetStatus ==
    /\ up
    /\ Settle(Swept(mem))
    /\ UNCHANGED <<clockVars, reqVars, rateVars, postVars, pollVars, sendVars,
                   decideVars>>

Tick ==
    /\ now < MaxTime
    /\ now' = now + 1
    /\ UNCHANGED <<up, crashes, mem, disk, reqVars, rateVars, postVars,
                   pollVars, sendVars, decideVars>>

\* What dies with the process.  A message or a mail on its way is not undone.
Dies ==
    /\ up
    /\ crashes < MaxCrashes
    /\ up' = FALSE
    /\ crashes' = crashes + 1
    /\ mem' = [r \in Requests |-> "absent"]
    /\ times' = {}
    /\ posting' = {}
    /\ offset' = 0
    /\ fetched' = 0
    /\ await' = [r \in Requests |-> "no"]
    /\ orphans' = [r \in Requests |-> Orphaned(r)[r]]
    /\ UNCHANGED <<now, diskTimes, updates, confirmed, mailed, decideVars>>

Crash ==
    /\ Dies
    /\ \E arrived \in SUBSET posting : chat' = chat \cup arrived
    /\ UNCHANGED <<disk, reqVars>>

\* Killed between submit's two writes: the row is there, its time is not.
KilledInSubmit(r) ==
    /\ Dies
    /\ r \notin issued
    /\ now + TTL <= MaxTime
    /\ Admits
    /\ disk' = Rows([Swept(mem) EXCEPT ![r] = "pending"],
                    Changed([Swept(mem) EXCEPT ![r] = "pending"]))
    /\ created' = [created EXCEPT ![r] = now]
    /\ issued' = issued \cup {r}
    /\ untimed' = untimed \cup {r}
    /\ UNCHANGED chat

\* Faulty variants: what was in flight comes back as pending, is taken for sent,
\* or is left as it is.
HydratedPending == [r \in Requests |-> IF disk[r] = "sending" THEN "pending" ELSE disk[r]]
HydratedSent == [r \in Requests |-> IF disk[r] = "sending" THEN "sent" ELSE disk[r]]
HydratedAsIs == disk

\* What a process finds in flight it fails: the outcome is unknown.
Hydrated == [r \in Requests |-> IF disk[r] = "sending" THEN "failed" ELSE disk[r]]

\* Faulty variant: the hourly window starts empty.
ReloadedNothing == {}

\* loadSubmitTimes since an hour ago.
Reloaded == {r \in diskTimes : created[r] + Hour >= now}

\* The constructor: hydrate, reload the hourly window, sweep.
Restart ==
    /\ ~up
    /\ up' = TRUE
    /\ mem' = Swept(Hydrated)
    /\ \E written \in Writes({r \in Requests : Swept(Hydrated)[r] # disk[r]}) :
          disk' = Rows(Swept(Hydrated), written)
    /\ times' = Reloaded
    /\ UNCHANGED <<now, crashes, reqVars, diskTimes, postVars, pollVars,
                   sendVars, decideVars>>

-----------------------------------------------------------------------------
Next ==
    \/ SubmitRefused \/ Poll \/ Approve \/ Reject \/ IgnoreTap \/ DropBatch
    \/ GetStatus \/ Tick \/ Crash \/ Restart
    \/ \E r \in Requests :
          \/ Submit(r) \/ PostDelivered(r) \/ PostOk(r) \/ PostFails(r)
          \/ ProviderAccepts(r) \/ ProviderRefuses(r)
          \/ SendOk(r) \/ SendFails(r) \/ OrphanDelivers(r)
          \/ KilledInSubmit(r)
          \/ \E verb \in Verbs, who \in Tappers : Tap(r, verb, who)

Spec == Init /\ [][Next]_vars

\* Time passes, launchd restarts a dead process, a call that was made returns
\* (a send that hangs for ever stops the receiver: not assumed away by the
\* code, assumed here), and the proposer asks for the status until it is final.
Fairness ==
    /\ WF_vars(Tick)
    /\ WF_vars(Restart)
    /\ WF_vars(GetStatus)
    /\ \A r \in Requests : WF_vars(SendOk(r) \/ SendFails(r))

FairSpec == Spec /\ Fairness

-----------------------------------------------------------------------------
(* Properties.                                                              *)

\* Nothing leaves without the person: a mail the provider delivered was
\* approved by a tap of the authorized user on that very request.
MailOnlyOnApproval ==
    \A r \in Requests : mailed[r] > 0 =>
        \E i \in 1..Len(updates) :
            updates[i] = [verb |-> "ok", req |-> r, by |-> "owner"]

\* One outcome per request, whatever is tapped, redelivered, restarted or
\* timed out: it is mailed at most once, and not at all if rejected.  Only a
\* decision that was never written to the store can be taken twice.
OneOutcome ==
    \A r \in Requests \ lost :
        mailed[r] + orphans[r] + rejects[r] <= 1

\* What the proposer is told is true: `sent' only of mail that was delivered,
\* and neither pending, rejected nor expired of mail that was or may yet be.
\* (`failed' promises nothing: it is also the answer for an unknown delivery.)
StatusIsHonest ==
    \A r \in Requests :
        /\ "sent" \in {mem[r], disk[r]} => mailed[r] > 0
        /\ r \notin lost /\ mem[r] \in {"pending", "rejected", "expired"} =>
              mailed[r] + orphans[r] = 0

\* A row that says a request is settled is never reopened, by a restart, a
\* late send or post, or a redelivered tap.  (It may change between sent and
\* failed: post's error and the provider's answer overwrite one another.)
SettledNeverReopens ==
    [][\A r \in Requests :
          disk[r] \in Terminal => disk'[r] \in Terminal]_vars

\* An approval that comes at or after expires_at sends nothing, though no
\* timer expires anything: each entry point sweeps before it looks.
NoSendAfterExpiry ==
    [][\A r \in Requests :
          approvals'[r] > approvals[r] => now < created[r] + TTL]_vars

\* Both limits of submit hold across kills and restarts.  maxOutstanding bounds
\* the live Approve buttons as long as the store takes its writes (a settlement
\* that was not written comes back as one more pending entry), and no hour
\* holds more than rateLimitPerHour submits, but for those whose time could not
\* be written before the process died.
WithinLimits ==
    /\ ~StoreFaults => Cardinality(Outstanding(mem)) <= MaxOutstanding
    /\ \A t \in 0..now :
         Cardinality({r \in issued \ untimed :
                         t <= created[r] /\ created[r] < t + Hour}) <= RateLimit

\* Every request issued comes to an end that the store remembers, though the
\* process may die in the send and though nothing but calls expires anything.
EverySubmitSettles ==
    \A r \in Requests : r \in issued ~> disk[r] \in Terminal

\* As long as the store takes its writes, the gate with its restarts,
\* redeliveries and late answers is no more than SendOnce: each request is
\* decided once, and a mail goes out once, after an approval.
Promise == INSTANCE SendOnce WITH
    undecided <- {r \in Requests : approvals[r] + rejects[r] = 0},
    approved  <- {r \in Requests : approvals[r] > 0 /\ mailed[r] = 0},
    declined  <- {r \in Requests : rejects[r] > 0},
    mails     <- mailed

KeepsPromise == Promise!Spec

\* What the design promises ("Terminal states are final -> all transitions are
\* idempotent", docs/superpowers/specs/
\* 2026-06-04-send-mail-approval-gate-design.md:106), of the state where it
\* matters most: while the process lives, a request that is sent stays sent.
SentIsFinal ==
    [][\A r \in Requests :
          up' /\ mem[r] = "sent" => mem'[r] = "sent"]_vars
=============================================================================
