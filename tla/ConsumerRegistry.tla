-------------------------- MODULE ConsumerRegistry --------------------------
(***************************************************************************)
(* The registry of agents in state/mcp-consumers.json and its three        *)
(* writers: the MCP server, which notes when an agent was seen             *)
(* (src/mcp-server.ts), the token portal (src/token-portal.ts) and the     *)
(* operator's command line (scripts/mcp-consumers.ts).  Each of them loads *)
(* the whole list, changes it and writes it back (loadConsumers and        *)
(* saveConsumers in src/mcp-tools/consumers.ts); nothing orders them, so a *)
(* list may be saved over one that was saved since it was loaded.          *)
(*                                                                         *)
(* A list is a function from the ids in it to their entries; created_at,   *)
(* last_seen_at and note are left out, and so is provider, which every     *)
(* writer sets to one that policy approves.  writeFileSync first empties   *)
(* the file, and a file that does not parse is an empty list.              *)
(***************************************************************************)
EXTENDS Naturals, FiniteSets

CONSTANTS
    Agents,     \* ids the operator pairs
    Users,      \* ids of the portal's users
    Logins,     \* sign-ins at the portal, one nonce each
    MaxTokens,  \* bound on the tokens minted
    MaxCrashes  \* bound on the writers that die

Ids == Agents \cup Users
Writers == {"server", "portal", "operator"}
Scopes == {"full", "clemson"}
Entry == [token : 1 .. MaxTokens, scope : Scopes]
Lists == UNION {[S -> Entry] : S \in SUBSET Ids}
NoList == [i \in {} |-> {}]

\* What has become of the last completed command about an id: its effect is in
\* the list, or the list comes from an emptied file and lacks the id, or the
\* list was loaded before the command and saved after it.
Fates == {"kept", "emptied", "undone"}

ASSUME RegistryAssumption ==
    /\ MaxTokens \in Nat /\ MaxCrashes \in Nat
    /\ IsFiniteSet(Ids)

VARIABLES
    file,       \* the list in the file
    fate,       \* what has become of each id's last command, in the file
    job,        \* what each writer is doing
    told,       \* the list as the completed commands describe it
    revoked,    \* ids whose last completed command revoked them
    nonce,      \* state of each sign-in
    calls,      \* callbacks of each sign-in that await Google
    mints,      \* tokens minted for each sign-in
    tokens,     \* number of tokens minted
    crashes

signIns == <<nonce, calls, mints>>
vars == <<file, fate, job, told, revoked, signIns, tokens, crashes>>

\* A job: the list that will be written, the fates in it, the command's id and
\* its new entry.  `over' is `write' to a file that is not empty any more.
Idle == [pc |-> "idle", list |-> NoList, fate |-> [i \in Ids |-> "kept"],
         id |-> "", entry |-> {}]
Jobs == [pc : {"idle", "truncate", "write", "over"}, list : Lists, fate : [Ids -> Fates],
         id : Ids \cup {""}, entry : {{}} \cup {{e} : e \in Entry}]

TypeOK ==
    /\ file \in Lists /\ told \in Lists
    /\ fate \in [Ids -> Fates]
    /\ job \in [Writers -> Jobs]
    /\ \A w \in Writers : job[w].pc # "idle" => job[w].id \in Ids
    /\ revoked \subseteq Ids
    /\ nonce \in [Logins -> {"new", "valid", "gone"}]
    /\ calls \in [Logins -> 0 .. 2]
    /\ mints \in [Logins -> 0 .. MaxTokens]
    /\ tokens \in 0 .. MaxTokens
    /\ crashes \in 0 .. MaxCrashes

Init ==
    /\ file = NoList /\ told = NoList
    /\ fate = [i \in Ids |-> "kept"]
    /\ job = [w \in Writers |-> Idle]
    /\ revoked = {}
    /\ nonce = [l \in Logins |-> "new"]
    /\ calls = [l \in Logins |-> 0]
    /\ mints = [l \in Logins |-> 0]
    /\ tokens = 0
    /\ crashes = 0

\* The list with the entries of one id replaced by those of e, at
\* most one.
With(list, id, e) ==
    [i \in (DOMAIN list \ {id}) \cup (IF e = {} THEN {} ELSE {id}) |->
       IF i = id THEN CHOOSE x \in e : TRUE ELSE list[i]]

\* Faulty: the other entries are not carried over.
SavesAlone(w, id, e) ==
    job' = [job EXCEPT ![w] = [pc |-> "truncate", list |-> With(NoList, id, e),
                               fate |-> fate, id |-> id, entry |-> e]]

\* A writer has loaded the list and computed the one to save.
Saves(w, id, e) ==
    job' = [job EXCEPT ![w] = [pc |-> "truncate", list |-> With(file, id, e),
                               fate |-> fate, id |-> id, entry |-> e]]

-----------------------------------------------------------------------------
(* scripts/mcp-consumers.ts *)

\* The scopes after a pair or an attest: those asked for with --scope, or
\* those there are, or all.
ScopesOf(id) ==
    {"clemson"} \cup (IF id \in DOMAIN file THEN {file[id].scope} ELSE {"full"})

Pair(id) ==
    /\ job["operator"].pc = "idle"
    /\ tokens < MaxTokens
    /\ tokens' = tokens + 1
    /\ \E s \in ScopesOf(id) :
         Saves("operator", id, {[token |-> tokens + 1, scope |-> s]})
    /\ UNCHANGED <<file, fate, told, revoked, signIns, crashes>>

Revoke(id) ==
    /\ job["operator"].pc = "idle"
    /\ id \in DOMAIN file
    /\ Saves("operator", id, {})
    /\ UNCHANGED <<file, fate, told, revoked, signIns, tokens, crashes>>

Attest(id) ==
    /\ job["operator"].pc = "idle"
    /\ id \in DOMAIN file
    /\ \E s \in ScopesOf(id) :
         Saves("operator", id, {[file[id] EXCEPT !.scope = s]})
    /\ UNCHANGED <<file, fate, told, revoked, signIns, tokens, crashes>>

-----------------------------------------------------------------------------
(* src/token-portal.ts *)

Login(l) ==
    /\ nonce[l] = "new"
    /\ nonce' = [nonce EXCEPT ![l] = "valid"]
    /\ UNCHANGED <<file, fate, job, told, revoked, calls, mints, tokens, crashes>>

\* handleCallback, up to its request to Google.
Callback(l) ==
    /\ nonce[l] = "valid"
    /\ nonce' = [nonce EXCEPT ![l] = "gone"]
    /\ calls' = [calls EXCEPT ![l] = @ + 1]
    /\ UNCHANGED <<file, fate, job, told, revoked, mints, tokens, crashes>>

\* The nonce has expired, when it is presented or at the next login.
Expire(l) ==
    /\ nonce[l] = "valid"
    /\ nonce' = [nonce EXCEPT ![l] = "gone"]
    /\ UNCHANGED <<file, fate, job, told, revoked, calls, mints, tokens, crashes>>

\* The exchange failed, or the account is not of the domain.
Denied(l) ==
    /\ calls[l] > 0
    /\ calls' = [calls EXCEPT ![l] = @ - 1]
    /\ UNCHANGED <<file, fate, job, told, revoked, nonce, mints, tokens, crashes>>

\* Google answers: a token for the user, with the portal's scope.
Mint(l, id) ==
    /\ job["portal"].pc = "idle"
    /\ calls[l] > 0
    /\ tokens < MaxTokens
    /\ calls' = [calls EXCEPT ![l] = @ - 1]
    /\ mints' = [mints EXCEPT ![l] = @ + 1]
    /\ tokens' = tokens + 1
    /\ Saves("portal", id, {[token |-> tokens + 1, scope |-> "clemson"]})
    /\ UNCHANGED <<file, fate, told, revoked, nonce, crashes>>

-----------------------------------------------------------------------------
(* src/mcp-server.ts *)

\* touchConsumer after a request whose token was found: recordSeen saves the
\* list it loads.  The hour between two of them has passed.
Seen(id) ==
    /\ job["server"].pc = "idle"
    /\ id \in DOMAIN file
    /\ Saves("server", id, {file[id]})
    /\ UNCHANGED <<file, fate, told, revoked, signIns, tokens, crashes>>

-----------------------------------------------------------------------------
(* saveConsumers *)

\* Others that have emptied the file find it empty again.
Truncate(w) ==
    /\ job[w].pc = "truncate"
    /\ file' = NoList
    /\ fate' = [i \in Ids |-> "emptied"]
    /\ job' = [v \in Writers |->
         IF v = w \/ job[v].pc = "over" THEN [job[v] EXCEPT !.pc = "write"] ELSE job[v]]
    /\ UNCHANGED <<told, revoked, signIns, tokens, crashes>>

\* The command has completed and reports what it did.
Reports(w) ==
    LET id == job[w].id
        e  == job[w].entry
    IN IF w = "server" THEN UNCHANGED <<told, revoked>>
       ELSE /\ told' = With(told, id, e)
            /\ revoked' = IF e = {} THEN revoked \cup {id} ELSE revoked \ {id}

\* The fates in a list without the entry that a command has just changed.
Undoes(f, id) == IF f[id] = "kept" THEN [f EXCEPT ![id] = "undone"] ELSE f

\* The list is in the file.  Written over a longer one it leaves the end of that
\* behind, and the file does not parse.
Write(w) ==
    /\ job[w].pc \in {"write", "over"}
    /\ \/ /\ file' = job[w].list
          /\ fate' = IF w = "server" THEN job[w].fate
                     ELSE [job[w].fate EXCEPT ![job[w].id] = "kept"]
       \/ /\ job[w].pc = "over"
          /\ file' = NoList
          /\ fate' = [i \in Ids |-> "emptied"]
    /\ job' = [v \in Writers |->
         IF v = w THEN Idle ELSE IF job[v].pc = "idle" THEN job[v]
         ELSE [job[v] EXCEPT
                !.pc = IF @ = "write" THEN "over" ELSE @,
                !.fate = IF w = "server" THEN @ ELSE Undoes(@, job[w].id)]]
    /\ Reports(w)
    /\ UNCHANGED <<signIns, tokens, crashes>>

\* A writer dies; a portal's sign-ins die with it.
Dies(w) ==
    /\ crashes < MaxCrashes
    /\ job[w].pc # "idle"
    /\ job' = [job EXCEPT ![w] = Idle]
    /\ nonce' = [l \in Logins |-> IF w = "portal" /\ nonce[l] = "valid"
                                    THEN "gone" ELSE nonce[l]]
    /\ calls' = IF w = "portal" THEN [l \in Logins |-> 0] ELSE calls
    /\ crashes' = crashes + 1
    /\ UNCHANGED <<file, fate, told, revoked, mints, tokens>>

Next ==
    \/ \E id \in Ids : Pair(id) \/ Revoke(id) \/ Attest(id) \/ Seen(id)
    \/ \E l \in Logins :
         \/ Login(l) \/ Callback(l) \/ Expire(l) \/ Denied(l)
         \/ \E id \in Users : Mint(l, id)
    \/ \E w \in Writers : Truncate(w) \/ Write(w) \/ Dies(w)

Spec == Init /\ [][Next]_vars

-----------------------------------------------------------------------------
(* Properties *)

\* A list says of an id what the completed commands said, unless it comes from
\* an emptied file, and then it lacks the id, or another command about the id
\* completed between its loading and its saving.
Fits(list, f, i) ==
    /\ f[i] = "kept" => /\ i \in DOMAIN list <=> i \in DOMAIN told
                        /\ i \in DOMAIN list => list[i] = told[i]
    /\ f[i] = "emptied" => i \notin DOMAIN list

\* At every moment the file says of each agent what the last completed
\* command about it said: the only ways to lose that are an overlapping
\* writer, and a file that is being written, was left empty by a death or was
\* garbled by two writes at once.  Only the first brings back an agent that was
\* revoked and not paired since.
UpdatesTake ==
    /\ \A i \in Ids : Fits(file, fate, i)
    /\ \A i \in revoked \cap DOMAIN file : fate[i] = "undone"

\* A sign-in is good for one token, however often its callback is called
\* while Google is asked.
OneTokenPerSignIn == \A l \in Logins : mints[l] <= 1

\* The registry holds what the operator and the portal gave, once each.
RegistryIsTrue == UpdatesTake /\ OneTokenPerSignIn
=============================================================================
