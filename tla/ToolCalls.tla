------------------------------ MODULE ToolCalls ------------------------------
(***************************************************************************)
(* The tools of the credentialed MCP server (src/mcp-tools/): a request is *)
(* authenticated against the registry of ConsumerRegistry when its headers *)
(* arrive, its tool is looked up, held against the agent's scope and the   *)
(* policy when its body has arrived, and calls Microsoft Graph, Google or  *)
(* Banner.  A tool that writes leaves an intent row and a row with its     *)
(* outcome in decisions.jsonl.                                             *)
(*                                                                         *)
(* Tools that behave alike share a name: draft is any write of mail or     *)
(* calendar by Graph, task any write of To Do, create makes a document or  *)
(* a spreadsheet, update overwrites cells, append adds to a file, move is  *)
(* move-mail-message for an Outlook mail, read is any tool of the clemson  *)
(* scope.  The Google tools call a command line synchronously: until they  *)
(* have answered the server does nothing else.                             *)
(***************************************************************************)
EXTENDS ConsumerRegistry

CONSTANTS
    Reqs,       \* requests under way, each answered before it is reused
    Tools,      \* the tools that are called
    Old, New,   \* Google files there were before, and ids for new ones
    Throwing,   \* tools whose backend may throw instead of answering
    MaxTidies   \* bound on the folders that the owner moves

AllTools  == {"read", "draft", "move", "task", "create", "update", "append"}
GwsTools  == {"create", "update", "append"}
AuditedFirst == {"draft", "move"}   \* the intent row precedes the checks
Files     == Old \cup New
NoFile    == "none"

ASSUME ToolsAssumption ==
    /\ Tools \subseteq AllTools /\ Throwing \subseteq Tools
    /\ MaxTidies \in Nat

\* The mailbox: two folders at the top, and below them two that are both
\* called News.  A mail may be moved to the path sorted/News or trash/News.
Top     == {"sorted", "trash"}
Leaves  == {"news", "oldNews"}
Folders == Top \cup Leaves
Root    == "root"

VARIABLES
    req,        \* the requests
    folderOf,   \* the folder each folder is in
    tidies,     \* folders the owner has moved
    owned,      \* ids in state/gws-created-files.json
    grant,      \* what gws:grant is doing
    made,       \* files that a tool created
    reported,   \* files whose creation a tool reported
    granted,    \* files whose grant was reported
    crossed     \* have two updates of the owned files overlapped?

toolVars == <<req, folderOf, tidies, owned, grant, made, reported, granted, crossed>>
allVars  == <<vars, toolVars>>

\* A request: who and with what scope it was authenticated, whether that is
\* what the completed commands say or what a writer that undid one left
\* (`entitled'), the tool and what it is
\* asked to do, the folders still to be read and those found, what Graph or
\* Google has done with it, and the rows it left.
Fresh ==
    [pc |-> "answered", who |-> "", scope |-> "clemson", entitled |-> TRUE,
     tool |-> "read", arg |-> NoFile, queue |-> {}, found |-> {}, held |-> {},
     dest |-> NoFile, done |-> FALSE, list |-> {}, intent |-> "", row |-> ""]

Steps == {"answered", "header", "walk", "graph", "gws", "save", "write"}
IdleGrant == [pc |-> "idle", file |-> NoFile, list |-> {}]

Requests ==
    [pc : Steps, who : Ids \cup {""}, scope : Scopes, entitled : BOOLEAN, tool : AllTools,
     arg : {NoFile, "allowed", "forbidden"} \cup Top \cup Files,
     queue : SUBSET (Folders \cup {Root}),
     found : SUBSET [id : Folders, parent : Folders \cup {Root}], held : SUBSET Leaves,
     dest : Leaves \cup {NoFile}, done : BOOLEAN, list : SUBSET Files,
     intent : Ids \cup {""}, row : {"", "success", "error"}]

ToolsTypeOK ==
    /\ req \in [Reqs -> Requests]
    /\ grant \in [pc : {"idle", "save", "write"}, file : Old \cup {NoFile}, list : SUBSET Files]
    /\ tidies \in 0 .. MaxTidies
    /\ folderOf \in [Folders -> Top \cup {Root}]
    /\ owned \subseteq Files /\ made \subseteq New
    /\ reported \subseteq made /\ granted \subseteq Old
    /\ crossed \in BOOLEAN

ToolsInit ==
    /\ Init
    /\ req = [c \in Reqs |-> Fresh]
    /\ folderOf = [f \in Folders |-> CASE f \in Top   -> Root
                                       [] f = "news"  -> "sorted"
                                       [] OTHER       -> "trash"]
    /\ tidies = 0
    /\ owned = {} /\ grant = IdleGrant
    /\ made = {} /\ reported = {} /\ granted = {} /\ crossed = FALSE

\* The server is in the middle of something synchronous.
Blocked ==
    \/ job["server"].pc # "idle"
    \/ \E c \in Reqs : req[c].pc \in {"gws", "save", "write"}

\* The call is answered; what is left of it is in decisions.jsonl, at Graph
\* and at Google.
Answers(c, row) ==
    req' = [req EXCEPT ![c] = [Fresh EXCEPT
              !.intent = req[c].intent, !.row = row, !.done = req[c].done]]

-----------------------------------------------------------------------------
(* server.ts *)

\* Faulty: a token is good once it was minted, whatever the file says now.
AuthenticatesEver(t) ==
    {[id |-> id, scope |-> "full"] : id \in IF t <= tokens THEN Agents ELSE {}}

\* The entries whose token is presented: the registry is read again for each
\* request.
Authenticates(t) ==
    {[id |-> id, scope |-> file[id].scope] :
       id \in {i \in DOMAIN file : file[i].token = t}}

\* The headers of a request arrive.  A token that is not in the file is
\* answered 401; otherwise onSeen may note the agent (unless it did within the
\* hour).
Arrive(c, t) ==
    /\ req[c].pc = "answered"
    /\ ~Blocked
    /\ \E p \in Authenticates(t) :
         /\ req' = [req EXCEPT ![c] = [Fresh EXCEPT
              !.pc = "header", !.who = p.id, !.scope = p.scope,
              !.entitled = \/ fate[p.id] = "undone"
                           \/ /\ p.id \in DOMAIN told
                              /\ told[p.id] = [token |-> t, scope |-> p.scope]]]
         /\ \/ Seen(p.id)
            \/ UNCHANGED vars
    /\ UNCHANGED <<folderOf, tidies, owned, grant, made, reported, granted, crossed>>

\* expandScopes: no scope at all means every exposed operation.
Grants(scope, tool) == scope = "full" \/ tool = "read"

\* What a tool may be asked to do: to write as policy allows or not (attendees,
\* a body, another calendar), to write a file, to file a mail in a folder.
ArgsOf(tool) ==
    CASE tool \in {"draft", "task"}    -> {"allowed", "forbidden"}
      [] tool \in {"update", "append"} -> Old \cup made
      [] tool = "move"                 -> Top
      [] OTHER                         -> {NoFile}

\* assertMcpOperation: the constraints of the tool's policy action.  `sorted'
\* is the allowed subtree, `trash' is a blocked folder.
Refuses(tool, arg) ==
    \/ arg = "forbidden"
    \/ tool = "move" /\ arg # "sorted"
    \/ tool = "update" /\ arg \notin owned

At(top, tree) == {f \in Leaves : tree[f] = top}

\* A handler up to its first call of a backend.
Started(c, tool, arg) ==
    [req[c] EXCEPT
       !.pc = CASE tool \in GwsTools -> "gws"
                [] tool = "move"     -> "walk"
                [] OTHER             -> "graph",
       !.tool = tool, !.arg = arg,
       !.queue = IF tool = "move" THEN {Root} ELSE {},
       !.held = IF tool = "move" THEN At(arg, folderOf) ELSE {},
       !.intent = IF tool = "read" THEN "" ELSE req[c].who]

\* The body has arrived: buildServer and the start of the tool's handler.
Call(c, tool) ==
    /\ req[c].pc = "header"
    /\ ~Blocked
    /\ IF ~Grants(req[c].scope, tool)
         THEN Answers(c, "")
         ELSE \E arg \in ArgsOf(tool) :
                IF ~Refuses(tool, arg)
                  THEN req' = [req EXCEPT ![c] = Started(c, tool, arg)]
                  ELSE IF tool \in AuditedFirst
                    THEN req' = [req EXCEPT ![c] = [Fresh EXCEPT
                           !.intent = req[c].who, !.row = "error"]]
                    ELSE Answers(c, "")
    /\ UNCHANGED <<vars, folderOf, tidies, owned, grant, made, reported, granted, crossed>>

-----------------------------------------------------------------------------
(* move-mail-message: the walk over the folders *)

\* Faulty: a folder is looked for by its name alone.
MatchByName(found, top) == {r.id : r \in {x \in found : x.id \in Leaves}}

\* resolveMs365FolderByPath: the folders whose names, joined along the parents
\* they were found under, are the path that was asked for.
Match(found, top) ==
    {r.id : r \in {x \in found : x.id \in Leaves /\ x.parent = top}}

\* A level of the tree is known, or Graph has failed to give it: at the top
\* that is the end, below it leaves the branch out.  With the last one the
\* destination is resolved.
Walk(c) ==
    /\ req[c].pc = "walk"
    /\ ~Blocked
    /\ \E at \in req[c].queue, ok \in BOOLEAN :
         LET level == IF ok THEN {f \in Folders : folderOf[f] = at} ELSE {}
             found == req[c].found \cup {[id |-> f, parent |-> at] : f \in level}
             queue == (req[c].queue \ {at}) \cup
                        {f \in level : \E g \in Folders : folderOf[g] = f}
         IN IF queue # {}
              THEN req' = [req EXCEPT ![c].queue = queue, ![c].found = found]
            ELSE IF Match(found, req[c].arg) = {}
              THEN Answers(c, "error")
            ELSE \E f \in Match(found, req[c].arg) :
                   req' = [req EXCEPT ![c] = [@ EXCEPT
                     !.pc = "graph", !.queue = {}, !.found = {}, !.dest = f]]
    /\ UNCHANGED <<vars, folderOf, tidies, owned, grant, made, reported, granted, crossed>>

\* The owner moves a folder; a move that is under way may meet it at either
\* place.
OwnerTidies(f, to) ==
    /\ tidies < MaxTidies
    /\ folderOf[f] # to
    /\ ~\E g \in Leaves : folderOf[g] = to    \* both are called News
    /\ tidies' = tidies + 1
    /\ folderOf' = [folderOf EXCEPT ![f] = to]
    /\ req' = [c \in Reqs |->
         IF req[c].pc = "walk"
           THEN [req[c] EXCEPT !.held = @ \cup At(req[c].arg, folderOf')]
           ELSE req[c]]
    /\ UNCHANGED <<vars, owned, grant, made, reported, granted, crossed>>

-----------------------------------------------------------------------------
(* Graph, and the rest of the handlers that await it *)

\* Graph does what it was asked, whatever becomes of its answer.
GraphActs(c) ==
    /\ req[c].pc = "graph"
    /\ req[c].tool # "read"
    /\ ~req[c].done
    /\ req' = [req EXCEPT ![c].done = TRUE]
    /\ UNCHANGED <<vars, folderOf, tidies, owned, grant, made, reported, granted, crossed>>

\* What a helper can return: an object when Graph has done it, and null for
\* any status but 2xx, whatever Graph did.
Returns(c) == {"error"} \cup (IF req[c].done THEN {"success"} ELSE {})

\* The handler writes the row of what its helper returned; a read has none.
GraphAnswers(c) ==
    /\ req[c].pc = "graph"
    /\ ~Blocked
    /\ IF req[c].tool = "read" THEN Answers(c, "")
         ELSE \E row \in Returns(c) : Answers(c, row)
    /\ UNCHANGED <<vars, folderOf, tidies, owned, grant, made, reported, granted, crossed>>

\* fetch or r.json rejects.  The tools of To Do catch that and leave a row; the
\* others leave none.
RowAfterThrow(tool) == IF tool = "task" THEN "error" ELSE ""

GraphThrows(c) ==
    /\ req[c].pc \in {"walk", "graph"}
    /\ req[c].tool \in Throwing
    /\ ~Blocked
    /\ Answers(c, RowAfterThrow(req[c].tool))
    /\ UNCHANGED <<vars, folderOf, tidies, owned, grant, made, reported, granted, crossed>>

-----------------------------------------------------------------------------
(* Google, and the registry of the files it may overwrite *)

GoogleActs(c) ==
    /\ req[c].pc = "gws"
    /\ ~req[c].done
    /\ IF req[c].tool = "create"
         THEN \E f \in New \ made :
                /\ made' = made \cup {f}
                /\ req' = [req EXCEPT ![c].done = TRUE, ![c].arg = f]
         ELSE /\ req' = [req EXCEPT ![c].done = TRUE]
              /\ UNCHANGED made
    /\ UNCHANGED <<vars, folderOf, tidies, owned, grant, reported, granted, crossed>>

\* Faulty: an exit code of 0 is a success, even with an error in the answer.
SucceedsOnExit(c) == TRUE

\* runGws exits with 0 and its answer is no error envelope.
Succeeds(c) == req[c].done

\* The command line has ended, or it was killed after 20 seconds, whatever it
\* did by then.  A new file is registered unless it is already.
GwsReturns(c) ==
    /\ req[c].pc = "gws"
    /\ \/ /\ Succeeds(c)
          /\ IF req[c].tool = "create" /\ req[c].arg \notin owned
               THEN /\ crossed' = (crossed \/ grant.pc # "idle")
                    /\ req' = [req EXCEPT ![c].pc = "save",
                                          ![c].list = owned \cup {req[c].arg}]
               ELSE Answers(c, "success") /\ UNCHANGED crossed
       \/ Answers(c, "error") /\ UNCHANGED crossed
    /\ UNCHANGED <<vars, folderOf, tidies, owned, grant, made, reported, granted>>

\* saveOwned, in the two steps of writeFileSync.  A list that is written over
\* the other process's may leave a file that does not parse.
PutsOwned(list) ==
    \/ owned' = list
    \/ owned # {} /\ owned' = {}

Save(c) ==
    /\ req[c].pc = "save"
    /\ owned' = {}
    /\ req' = [req EXCEPT ![c].pc = "write"]
    /\ UNCHANGED <<vars, folderOf, tidies, grant, made, reported, granted, crossed>>

SaveEnds(c) ==
    /\ req[c].pc = "write"
    /\ PutsOwned(req[c].list)
    /\ reported' = reported \cup {req[c].arg}
    /\ Answers(c, "success")
    /\ UNCHANGED <<vars, folderOf, tidies, grant, made, granted, crossed>>

\* scripts/gws-grant.ts
Grant(f) ==
    /\ grant.pc = "idle"
    /\ f \notin owned
    /\ crossed' = (crossed \/ \E c \in Reqs : req[c].pc \in {"save", "write"})
    /\ grant' = [pc |-> "save", file |-> f, list |-> owned \cup {f}]
    /\ UNCHANGED <<vars, req, folderOf, tidies, owned, made, reported, granted>>

GrantSaves ==
    /\ \/ /\ grant.pc = "save"
          /\ owned' = {}
          /\ grant' = [grant EXCEPT !.pc = "write"]
          /\ UNCHANGED granted
       \/ /\ grant.pc = "write"
          /\ PutsOwned(grant.list)
          /\ granted' = granted \cup {grant.file}
          /\ grant' = IdleGrant
    /\ UNCHANGED <<vars, req, folderOf, tidies, made, reported, crossed>>

-----------------------------------------------------------------------------
\* The server dies with its requests; launchd starts it again.
ServerDies ==
    /\ crashes < MaxCrashes
    /\ job["server"].pc # "idle" \/ \E c \in Reqs : req[c].pc # "answered"
    /\ crashes' = crashes + 1
    /\ job' = [job EXCEPT !["server"] = Idle]
    /\ req' = [c \in Reqs |-> Fresh]
    /\ UNCHANGED <<file, fate, told, revoked, signIns, tokens, folderOf, tidies,
                   owned, grant, made, reported, granted, crossed>>

\* The other writers of the registry, and the end of the server's own update.
RegistrySteps ==
    /\ \/ \E id \in Agents : Pair(id)
       \/ \E id \in Ids : Revoke(id) \/ Attest(id)
       \/ \E l \in Logins :
            \/ Login(l) \/ Callback(l) \/ Expire(l) \/ Denied(l)
            \/ \E id \in Users : Mint(l, id)
       \/ \E w \in Writers : Truncate(w) \/ Write(w)
       \/ \E w \in Writers \ {"server"} : Dies(w)
    /\ UNCHANGED toolVars

ToolSteps ==
    \/ \E c \in Reqs :
         \/ \E t \in 1 .. MaxTokens : Arrive(c, t)
         \/ \E tool \in Tools : Call(c, tool)
         \/ Walk(c) \/ GraphActs(c) \/ GraphAnswers(c) \/ GraphThrows(c)
         \/ GoogleActs(c) \/ GwsReturns(c) \/ Save(c) \/ SaveEnds(c)
    \/ \E f \in Leaves, to \in Top \cup {Root} : OwnerTidies(f, to)
    \/ \E f \in Old : Grant(f)
    \/ GrantSaves
    \/ ServerDies

ToolsNext == RegistrySteps \/ ToolSteps

ToolsSpec == ToolsInit /\ [][ToolsNext]_allVars

-----------------------------------------------------------------------------
(* Properties *)

Acting(c) == req[c].done /\ req[c].pc # "answered"

\* Nothing happens at Graph or Google on behalf of a caller that the registry,
\* as the completed commands describe it, did not hold when the request arrived
\* (unless an overlapping writer had undone the last of them), nor by a tool outside the scope it had then; and a row in
\* decisions.jsonl that names this caller and no other announced it before.
EffectIsOwedToItsCaller ==
    \A c \in Reqs : Acting(c) =>
       /\ req[c].entitled
       /\ req[c].scope = "full"
       /\ req[c].intent = req[c].who

\* A tool that reports success has done what it was asked, and only a tool
\* that reports failure may have done it or not: of an answered call whose
\* intent is on file there is a row with its outcome.
RowsTellTheOutcome ==
    \A c \in Reqs : req[c].pc = "answered" /\ req[c].intent # "" =>
       /\ req[c].row = "success" => req[c].done
       /\ req[c].row # ""

\* A mail goes to no folder but one that was at the allowed path that was
\* asked for, at some time while the call ran.
MovesWhereAsked ==
    \A c \in Reqs : Acting(c) /\ req[c].tool = "move" =>
       /\ req[c].arg = "sorted"
       /\ req[c].dest \in req[c].held

\* Cells are overwritten only in files that a tool made or the owner granted; and
\* while no process has died and no two updates of their list have overlapped
\* (nothing orders a tool's and gws:grant's), each file whose creation or grant was reported
\* can be overwritten.
OverwritesItsOwn ==
    /\ \A c \in Reqs : Acting(c) /\ req[c].tool = "update" =>
         req[c].arg \in made \cup granted
    /\ crashes = 0 /\ ~crossed /\ grant.pc # "write" /\ (\A c \in Reqs : req[c].pc # "write")
         => reported \cup granted \subseteq owned

\* What a call changes at Outlook or Google is what it was asked to change.
ChangesWhatIsAsked == MovesWhereAsked /\ OverwritesItsOwn
=============================================================================
