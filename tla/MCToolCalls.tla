----------------------------- MODULE MCToolCalls ----------------------------
(* Instances of ToolCalls for TLC. *)
EXTENDS ToolCalls, TLC

CONSTANTS a1, u1, l1, c1, c2, o1, n1

SomeReqs == Permutations(Reqs)

\* Bound: a behaviour has sign-ins at the portal or calls of tools, not both.
NoSignIn == \A l \in Logins : nonce[l] = "new"
NoCall ==
    /\ req = [c \in Reqs |-> Fresh] /\ tidies = 0
    /\ owned = {} /\ grant = IdleGrant /\ made = {}

\* Bound: the registry changes before and after a tool is at work, or with the
\* server in an update of its own.  Only the arrival of a request reads the
\* registry, so a change in between would come to the same a step earlier.
NoTool == \A c \in Reqs : req[c].pc \in {"answered", "header"}

\* Bound: where the writers of a registry overlap, the tools are a read, a draft,
\* and the two that read or write the owned files; beside writers that take
\* turns there is every tool.
VARIABLE turns

callsVars == <<allVars, turns>>

InTurn == Cardinality({w \in Writers : job'[w].pc # "idle"}) <= 1 /\ ~crossed'
FewTools ==
    /\ tidies' = 0
    /\ \A c \in Reqs : req'[c].tool \in {"read", "draft", "create", "update"}

CallsInit == ToolsInit /\ turns \in BOOLEAN

CallsNext ==
    /\ \/ /\ NoTool \/ job["server"].pc # "idle"
          /\ RegistrySteps
          /\ NoCall \/ nonce' = nonce
       \/ NoSignIn /\ ToolSteps
    /\ IF turns THEN InTurn ELSE FewTools
    /\ UNCHANGED turns

CallsSpec == CallsInit /\ [][CallsNext]_callsVars
=============================================================================
