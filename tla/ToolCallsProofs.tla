--------------------------- MODULE ToolCallsProofs --------------------------
(***************************************************************************)
(* Proofs about ToolCalls and the registry it authenticates against, for   *)
(* any agents, users, sign-ins, requests, files and number of crashes.     *)
(***************************************************************************)
EXTENDS ToolCalls, TLAPS

-----------------------------------------------------------------------------
(* Lists of agents *)

Changes == {{}} \cup {{e} : e \in Entry}

LEMMA ListIs ==
    ASSUME NEW l \in Lists
    PROVE  /\ DOMAIN l \subseteq Ids
           /\ \A i \in DOMAIN l : l[i] \in Entry
           /\ l = [i \in DOMAIN l |-> l[i]]
BY DEF Lists

LEMMA IsList ==
    ASSUME NEW S \in SUBSET Ids, NEW l \in [S -> Entry]
    PROVE  l \in Lists
BY DEF Lists

LEMMA NoListIs == NoList \in Lists /\ DOMAIN NoList = {}
<1>1. NoList \in [{} -> Entry] /\ DOMAIN NoList = {}
  BY DEF NoList
<1> QED
  BY <1>1, IsList

\* What With returns: the other entries, and the new one if there is one.
Replaces(k, l, id, e) ==
    /\ k \in Lists
    /\ e = {} => DOMAIN k = DOMAIN l \ {id}
    /\ e # {} => DOMAIN k = DOMAIN l \cup {id}
    /\ \A i \in DOMAIN l \ {id} : k[i] = l[i]
    /\ \A x : e = {x} => k[id] = x

LEMMA WithIs ==
    ASSUME NEW l \in Lists, NEW id \in Ids, NEW e \in Changes
    PROVE  Replaces(With(l, id, e), l, id, e)
<1> DEFINE S == (DOMAIN l \ {id}) \cup (IF e = {} THEN {} ELSE {id})
<1>1. /\ DOMAIN l \subseteq Ids /\ \A i \in DOMAIN l : l[i] \in Entry
      /\ S \subseteq Ids
  BY ListIs
<1>2. With(l, id, e) = [i \in S |-> IF i = id THEN CHOOSE x \in e : TRUE ELSE l[i]]
  BY DEF With
<1>3. \A x : (CHOOSE y \in {x} : TRUE) = x
  OBVIOUS
<1>4. e # {} => (CHOOSE x \in e : TRUE) \in Entry
  BY <1>3 DEF Changes
<1>5. \A i \in S : (IF i = id THEN CHOOSE x \in e : TRUE ELSE l[i]) \in Entry
  BY <1>1, <1>4
<1>6. With(l, id, e) \in [S -> Entry]
  BY <1>2, <1>5
<1>7. With(l, id, e) \in Lists
  BY <1>1, <1>6, IsList
<1>8. \A x : e = {x} => With(l, id, e)[id] = x
  BY <1>2, <1>3
<1>9. \A i \in DOMAIN l \ {id} : With(l, id, e)[i] = l[i]
  BY <1>2
<1>10. /\ e = {} => DOMAIN With(l, id, e) = DOMAIN l \ {id}
       /\ e # {} => DOMAIN With(l, id, e) = DOMAIN l \cup {id}
  BY <1>6
<1> QED
  BY <1>7, <1>8, <1>9, <1>10 DEF Replaces

\* Replacing an entry by itself changes nothing.
LEMMA WithItself ==
    ASSUME NEW l \in Lists, NEW id \in DOMAIN l
    PROVE  /\ {l[id]} \in Changes
           /\ With(l, id, {l[id]}) = l
<1>1. id \in Ids /\ l[id] \in Entry /\ {l[id]} \in Changes
  BY ListIs DEF Changes
<1>2. PICK k : k = With(l, id, {l[id]})
  OBVIOUS
<1>3. Replaces(k, l, id, {l[id]})
  BY <1>1, <1>2, WithIs
<1>4. k \in Lists /\ DOMAIN k = DOMAIN l /\ \A i \in DOMAIN l : k[i] = l[i]
  BY <1>3 DEF Replaces
<1>5. k = [i \in DOMAIN k |-> k[i]] /\ l = [i \in DOMAIN l |-> l[i]]
  BY <1>4, ListIs
<1>6. k = l
  BY <1>4, <1>5
<1> QED
  BY <1>1, <1>2, <1>6

-----------------------------------------------------------------------------
(* The registry *)

\* Fits, of what any commands k said.
FitsIn(k, l, f, i) ==
    /\ f[i] = "kept" => /\ i \in DOMAIN l <=> i \in DOMAIN k
                        /\ i \in DOMAIN l => l[i] = k[i]
    /\ f[i] = "emptied" => i \notin DOMAIN l

\* The list that writer w is about to save in job j: it fits but for the
\* command's own id, which has the new entry.
JobFits(k, w, j) ==
    /\ \A i \in Ids : w = "server" \/ i # j.id => FitsIn(k, j.list, j.fate, i)
    /\ w # "server" => /\ j.id \in DOMAIN j.list <=> j.entry # {}
                       /\ \A x : j.entry = {x} => j.list[j.id] = x

ListsAgree ==
    /\ \A i \in Ids : FitsIn(told, file, fate, i)
    /\ revoked \cap DOMAIN told = {}
    /\ \A w \in Writers : job[w].pc # "idle" => JobFits(told, w, job[w])

\* A sign-in that can still be called back has no token, and one whose callback
\* waits for Google is called back no more.
SignedIn ==
    \A l \in Logins : /\ nonce[l] # "gone" => calls[l] = 0 /\ mints[l] = 0
                      /\ calls[l] + mints[l] <= 1

RegistryInv == TypeOK /\ SignedIn /\ ListsAgree

\* What a crash of the server does to the registry, busy with it or not.
ServerStops ==
    /\ crashes < MaxCrashes /\ crashes' = crashes + 1
    /\ job' = [job EXCEPT !["server"] = Idle]
    /\ UNCHANGED <<file, fate, told, revoked, signIns, tokens>>

LEMMA IdleIs == Idle \in Jobs /\ Idle.pc = "idle"
BY NoListIs DEF Idle, Jobs, Fates

LEMMA InitRegistry == Init => RegistryInv
<1> SUFFICES ASSUME Init
             PROVE  RegistryInv
  OBVIOUS
<1>1. Idle \in Jobs /\ NoList \in Lists /\ Idle.pc = "idle"
  BY NoListIs, IdleIs
<1>2. MaxTokens \in Nat /\ MaxCrashes \in Nat
  BY RegistryAssumption
<1>3. TypeOK
  <2>1. /\ file \in Lists /\ told \in Lists /\ revoked \subseteq Ids
        /\ fate \in [Ids -> Fates]
        /\ job \in [Writers -> Jobs] /\ \A w \in Writers : job[w].pc = "idle"
    BY <1>1 DEF Init, Fates
  <2>2. /\ nonce \in [Logins -> {"new", "valid", "gone"}]
        /\ calls \in [Logins -> 0 .. 2] /\ mints \in [Logins -> 0 .. MaxTokens]
        /\ tokens \in 0 .. MaxTokens /\ crashes \in 0 .. MaxCrashes
    BY <1>2 DEF Init
  <2> QED
    BY <2>1, <2>2 DEF TypeOK
<1>4. SignedIn
  BY DEF Init, SignedIn
<1>5. ListsAgree
  BY <1>1, NoListIs DEF Init, ListsAgree, FitsIn
<1> QED
  BY <1>3, <1>4, <1>5 DEF RegistryInv

JobsOK ==
    /\ job \in [Writers -> Jobs] /\ fate \in [Ids -> Fates]
    /\ \A w \in Writers : job[w].pc # "idle" => job[w].id \in Ids

\* Writer w has loaded the list; the server saves it as it is.
Starts(w, id, e) ==
    /\ Saves(w, id, e)
    /\ w = "server" => id \in DOMAIN file /\ e = {file[id]}
    /\ UNCHANGED <<file, fate, told, revoked, crashes>>

LEMMA StartsKeeps ==
    ASSUME TypeOK, ListsAgree, NEW w \in Writers, NEW id \in Ids, NEW e \in Changes,
           Starts(w, id, e)
    PROVE  JobsOK' /\ ListsAgree'
<1>1. /\ job \in [Writers -> Jobs] /\ file \in Lists /\ told \in Lists
      /\ fate \in [Ids -> Fates]
      /\ \A v \in Writers : job[v].pc # "idle" => job[v].id \in Ids
  BY DEF TypeOK
<1>2. PICK l : l = With(file, id, e)
  OBVIOUS
<1>3. Replaces(l, file, id, e) /\ l \in Lists
  <2>1. Replaces(l, file, id, e)
    BY <1>1, <1>2, WithIs
  <2> QED
    BY <2>1 DEF Replaces
<1>4. PICK j : j = [pc |-> "truncate", list |-> l, fate |-> fate, id |-> id, entry |-> e]
  OBVIOUS
<1>5. /\ j \in Jobs /\ j.pc = "truncate" /\ j.list = l /\ j.fate = fate
      /\ j.id = id /\ j.entry = e
  BY <1>1, <1>3, <1>4 DEF Jobs, Changes
<1>6. job' = [job EXCEPT ![w] = j]
  BY <1>2, <1>4 DEF Starts, Saves
<1>7. job'[w] = j /\ \A v \in Writers \ {w} : job'[v] = job[v]
  BY <1>1, <1>6
<1>8. JobsOK'
  BY <1>1, <1>5, <1>6, <1>7 DEF JobsOK, Starts
<1>9. JobFits(told, w, j)
  <2>1. ASSUME NEW i \in Ids, w = "server" \/ i # id
        PROVE  FitsIn(told, l, fate, i)
    <3>1. FitsIn(told, file, fate, i)
      BY DEF ListsAgree
    <3>2. CASE w = "server"
      <4>1. l = file
        BY <1>1, <1>2, <3>2, WithItself DEF Starts
      <4> QED
        BY <3>1, <4>1
    <3>3. CASE i # id
      <4>1. /\ i \in DOMAIN l <=> i \in DOMAIN file
            /\ i \in DOMAIN l => l[i] = file[i]
        BY <1>3, <3>3 DEF Replaces, Changes
      <4> QED
        BY <3>1, <4>1 DEF FitsIn
    <3> QED
      BY <2>1, <3>2, <3>3
  <2>2. /\ id \in DOMAIN l <=> e # {}
        /\ \A x : e = {x} => l[id] = x
    BY <1>3 DEF Replaces
  <2> QED
    BY <1>5, <2>1, <2>2 DEF JobFits
<1>10. ListsAgree'
  BY <1>7, <1>9 DEF ListsAgree, Starts
<1> QED
  BY <1>8, <1>10

LEMMA TruncateKeeps ==
    ASSUME TypeOK, ListsAgree, NEW w \in Writers, Truncate(w)
    PROVE  JobsOK' /\ ListsAgree' /\ file' \in Lists
<1>1. /\ job \in [Writers -> Jobs] /\ told \in Lists
      /\ \A v \in Writers : job[v].pc # "idle" => job[v].id \in Ids
  BY DEF TypeOK
<1>2. /\ job[w].pc = "truncate" /\ file' = NoList
      /\ fate' = [i \in Ids |-> "emptied"]
      /\ UNCHANGED <<told, revoked, crashes>>
      /\ job' = [v \in Writers |->
           IF v = w \/ job[v].pc = "over" THEN [job[v] EXCEPT !.pc = "write"] ELSE job[v]]
  BY DEF Truncate
<1>3. ASSUME NEW v \in Writers
      PROVE  /\ job'[v] \in Jobs
             /\ job'[v].pc # "idle" => job[v].pc # "idle"
             /\ job'[v].list = job[v].list /\ job'[v].fate = job[v].fate
             /\ job'[v].id = job[v].id /\ job'[v].entry = job[v].entry
  <2>1. job[v] \in Jobs
    BY <1>1
  <2>2. job'[v] = job[v] \/ (job[v].pc # "idle" /\ job'[v] = [job[v] EXCEPT !.pc = "write"])
    BY <1>2
  <2> QED
    BY <2>1, <2>2 DEF Jobs
<1>4. JobsOK'
  <2>1. job' \in [Writers -> Jobs]
    BY <1>2, <1>3
  <2>2. fate' \in [Ids -> Fates]
    BY <1>2 DEF Fates
  <2>3. \A v \in Writers : job'[v].pc # "idle" => job'[v].id \in Ids
    BY <1>1, <1>3
  <2> QED
    BY <2>1, <2>2, <2>3 DEF JobsOK
<1>5. ListsAgree'
  <2>1. \A i \in Ids : FitsIn(told', file', fate', i)
    BY <1>2, NoListIs DEF FitsIn
  <2>2. \A v \in Writers : job'[v].pc # "idle" => JobFits(told', v, job'[v])
    BY <1>2, <1>3 DEF ListsAgree, JobFits
  <2>3. revoked' \cap DOMAIN told' = {}
    BY <1>2 DEF ListsAgree
  <2> QED
    BY <2>1, <2>2, <2>3 DEF ListsAgree
<1> QED
  BY <1>2, <1>4, <1>5, NoListIs

\* What the other writers' jobs come to when the command on id completes.
LEMMA UndoesFits ==
    ASSUME NEW k \in Lists, NEW n \in Lists, NEW id \in Ids, NEW e \in Changes,
           Replaces(n, k, id, e), NEW f \in [Ids -> Fates], NEW l, NEW i \in Ids,
           FitsIn(k, l, f, i)
    PROVE  Undoes(f, id) \in [Ids -> Fates] /\ FitsIn(n, l, Undoes(f, id), i)
<1>1. PICK g : g = Undoes(f, id)
  OBVIOUS
<1>2. /\ g \in [Ids -> Fates] /\ g[id] # "kept"
      /\ \A x \in Ids \ {id} : g[x] = f[x]
      /\ g[id] = "emptied" => f[id] = "emptied"
  BY <1>1 DEF Undoes, Fates
<1>3. ASSUME i = id
      PROVE  FitsIn(n, l, g, i)
  BY <1>2, <1>3 DEF FitsIn
<1>4. ASSUME i # id
      PROVE  FitsIn(n, l, g, i)
  <2>1. /\ i \in DOMAIN n <=> i \in DOMAIN k
        /\ i \in DOMAIN k => n[i] = k[i]
    BY <1>4 DEF Replaces, Changes
  <2> QED
    BY <1>2, <1>4, <2>1 DEF FitsIn
<1> QED
  BY <1>1, <1>2, <1>3, <1>4

LEMMA WriteKeeps ==
    ASSUME TypeOK, ListsAgree, NEW w \in Writers, Write(w)
    PROVE  /\ JobsOK' /\ ListsAgree'
           /\ file' \in Lists /\ told' \in Lists /\ revoked' \subseteq Ids
<1>1. /\ job \in [Writers -> Jobs] /\ told \in Lists /\ revoked \subseteq Ids
      /\ \A v \in Writers : job[v].pc # "idle" => job[v].id \in Ids
  BY DEF TypeOK
<1>2. PICK j : j = job[w]
  OBVIOUS
<1>3. PICK id, e, f : id = j.id /\ e = j.entry /\ f = j.fate
  OBVIOUS
<1>4. /\ j \in Jobs /\ j.pc # "idle" /\ id \in Ids /\ e \in Changes /\ j.list \in Lists
      /\ f \in [Ids -> Fates]
  BY <1>1, <1>2, <1>3 DEF Jobs, Changes, Write
<1>5. /\ w = "server" => told' = told /\ revoked' = revoked
      /\ w # "server" => /\ told' = With(told, id, e)
                         /\ revoked' = IF e = {} THEN revoked \cup {id} ELSE revoked \ {id}
  BY <1>2, <1>3 DEF Write, Reports
<1>6. w # "server" => Replaces(told', told, id, e)
  BY <1>1, <1>4, <1>5, WithIs
<1>7. told' \in Lists /\ revoked' \subseteq Ids
  <2>1. revoked \cup {id} \subseteq Ids /\ revoked \ {id} \subseteq Ids
    BY <1>1, <1>4
  <2> QED
    BY <1>1, <1>5, <1>6, <2>1 DEF Replaces
<1>8. revoked' \cap DOMAIN told' = {}
  BY <1>5, <1>6 DEF ListsAgree, Replaces
<1>9. /\ file' \in Lists /\ fate' \in [Ids -> Fates]
      /\ \A i \in Ids : FitsIn(told', file', fate', i)
  <2>1. \/ file' = j.list /\ fate' = IF w = "server" THEN f ELSE [f EXCEPT ![id] = "kept"]
        \/ file' = NoList /\ fate' = [i \in Ids |-> "emptied"]
    BY <1>2, <1>3 DEF Write
  <2>2. JobFits(told, w, j)
    BY <1>2, <1>4 DEF ListsAgree
  <2>3. CASE file' = NoList /\ fate' = [i \in Ids |-> "emptied"]
    BY <2>3, NoListIs DEF FitsIn, Fates
  <2>4. CASE w = "server" /\ file' = j.list /\ fate' = f
    BY <1>3, <1>4, <1>5, <2>2, <2>4 DEF JobFits
  <2>5. CASE w # "server" /\ file' = j.list /\ fate' = [f EXCEPT ![id] = "kept"]
    <3>1. fate' \in [Ids -> Fates] /\ fate'[id] = "kept" /\ \A i \in Ids \ {id} : fate'[i] = f[i]
      BY <1>4, <2>5 DEF Fates
    <3>2. ASSUME NEW i \in Ids
          PROVE  FitsIn(told', file', fate', i)
      <4>1. CASE i = id
        <5>1. e = {} \/ \E x : e = {x}
          BY <1>4 DEF Changes
        <5>2. /\ id \in DOMAIN j.list <=> e # {}
              /\ \A x : e = {x} => j.list[id] = x
          BY <1>3, <2>2, <2>5 DEF JobFits
        <5>3. /\ id \in DOMAIN told' <=> e # {}
              /\ \A x : e = {x} => told'[id] = x
          BY <1>6, <2>5 DEF Replaces
        <5> QED
          BY <2>5, <3>1, <4>1, <5>1, <5>2, <5>3 DEF FitsIn
      <4>2. CASE i # id
        <5>1. FitsIn(told, j.list, f, i)
          BY <1>3, <2>2, <4>2 DEF JobFits
        <5>2. /\ i \in DOMAIN told' <=> i \in DOMAIN told
              /\ i \in DOMAIN told => told'[i] = told[i]
          BY <1>6, <2>5, <4>2 DEF Replaces, Changes
        <5> QED
          BY <2>5, <3>1, <4>2, <5>1, <5>2 DEF FitsIn
      <4> QED
        BY <4>1, <4>2
    <3> QED
      BY <1>4, <2>5, <3>1, <3>2
  <2> QED
    BY <2>1, <2>3, <2>4, <2>5
<1>10. job' = [v \in Writers |->
         IF v = w THEN Idle ELSE IF job[v].pc = "idle" THEN job[v]
         ELSE [job[v] EXCEPT !.pc = IF @ = "write" THEN "over" ELSE @,
                             !.fate = IF w = "server" THEN @ ELSE Undoes(@, id)]]
  BY <1>2, <1>3 DEF Write
<1>11. ASSUME NEW v \in Writers, v # w, job[v].pc # "idle"
       PROVE  job'[v] \in Jobs /\ job'[v].id = job[v].id /\ JobFits(told', v, job'[v])
  <2>1. PICK g : g = IF w = "server" THEN job[v].fate ELSE Undoes(job[v].fate, id)
    OBVIOUS
  <2>2. PICK p \in {"truncate", "write", "over"} :
          job'[v] = [job[v] EXCEPT !.pc = p, !.fate = g]
    <3>1. job[v] \in Jobs
      BY <1>1
    <3>2. PICK p : p = IF job[v].pc = "write" THEN "over" ELSE job[v].pc
      OBVIOUS
    <3>3. p \in {"truncate", "write", "over"}
      BY <1>11, <3>1, <3>2 DEF Jobs
    <3> QED
      BY <1>10, <1>11, <2>1, <3>2, <3>3
  <2>3. /\ job[v] \in Jobs /\ job[v].fate \in [Ids -> Fates]
        /\ JobFits(told, v, job[v])
    BY <1>1, <1>11 DEF Jobs, ListsAgree
  <2>4. /\ g \in [Ids -> Fates]
        /\ \A i \in Ids : FitsIn(told, job[v].list, job[v].fate, i)
                            => FitsIn(told', job[v].list, g, i)
    <3>1. CASE w = "server"
      BY <1>5, <2>1, <2>3, <3>1
    <3>2. CASE w # "server"
      <4>1. g = Undoes(job[v].fate, id)
        BY <2>1, <3>2
      <4>2. g \in [Ids -> Fates]
        BY <1>4, <2>3, <4>1 DEF Undoes, Fates
      <4> QED
        BY <1>1, <1>4, <1>6, <1>7, <2>3, <3>2, <4>1, <4>2, UndoesFits
    <3> QED
      BY <3>1, <3>2
  <2>5. /\ job'[v] \in Jobs /\ job'[v].list = job[v].list /\ job'[v].fate = g
        /\ job'[v].id = job[v].id /\ job'[v].entry = job[v].entry
    BY <2>2, <2>3, <2>4 DEF Jobs
  <2> QED
    BY <2>3, <2>4, <2>5 DEF JobFits
<1>12. /\ job'[w] = Idle
       /\ \A v \in Writers : v # w /\ job[v].pc = "idle" => job'[v] = job[v]
  BY <1>10
<1>13. JobsOK'
  <2>1. \A v \in Writers : job'[v] \in Jobs /\ (job'[v].pc # "idle" => job'[v].id \in Ids)
    BY <1>1, <1>11, <1>12, IdleIs
  <2>2. job' \in [Writers -> Jobs]
    BY <1>10, <2>1
  <2> QED
    BY <1>9, <2>1, <2>2 DEF JobsOK
<1>14. \A v \in Writers : job'[v].pc # "idle" => JobFits(told', v, job'[v])
  BY <1>11, <1>12, IdleIs
<1>15. ListsAgree'
  BY <1>8, <1>9, <1>14 DEF ListsAgree
<1> QED
  BY <1>7, <1>9, <1>13, <1>15

\* A writer dies, or the server stops while it may be writing.
LEMMA DeathKeeps ==
    ASSUME TypeOK, ListsAgree, NEW w \in Writers, job' = [job EXCEPT ![w] = Idle],
           UNCHANGED <<file, fate, told, revoked>>
    PROVE  JobsOK' /\ ListsAgree'
<1>1. /\ job \in [Writers -> Jobs] /\ fate \in [Ids -> Fates]
      /\ \A v \in Writers : job[v].pc # "idle" => job[v].id \in Ids
  BY DEF TypeOK
<1>2. job'[w] = Idle /\ \A v \in Writers \ {w} : job'[v] = job[v]
  BY <1>1
<1>3. JobsOK'
  BY <1>1, <1>2, IdleIs DEF JobsOK
<1>4. ListsAgree'
  BY <1>2, IdleIs DEF ListsAgree
<1> QED
  BY <1>3, <1>4

\* What a sign-in's callbacks and tokens come to.
LEMMA SignInKeeps ==
    ASSUME TypeOK, SignedIn, NEW l \in Logins,
           \/ Login(l) \/ Callback(l) \/ Expire(l) \/ Denied(l)
           \/ \E id \in Users : Mint(l, id)
    PROVE  /\ nonce' \in [Logins -> {"new", "valid", "gone"}]
           /\ calls' \in [Logins -> 0 .. 2]
           /\ mints' \in [Logins -> 0 .. MaxTokens]
           /\ SignedIn'
<1>1. /\ nonce \in [Logins -> {"new", "valid", "gone"}]
      /\ calls \in [Logins -> 0 .. 2] /\ mints \in [Logins -> 0 .. MaxTokens]
      /\ tokens \in 0 .. MaxTokens /\ MaxTokens \in Nat
  BY RegistryAssumption DEF TypeOK
<1>2. \A k \in Logins : /\ nonce[k] # "gone" => calls[k] = 0 /\ mints[k] = 0
                        /\ calls[k] + mints[k] <= 1
  BY DEF SignedIn
<1>3. CASE Login(l) \/ Expire(l)
  <2>1. PICK v \in {"valid", "gone"} : nonce' = [nonce EXCEPT ![l] = v]
    BY <1>3 DEF Login, Expire
  <2>2. UNCHANGED <<calls, mints>> /\ nonce[l] # "gone"
    BY <1>3 DEF Login, Expire
  <2> QED
    BY <1>1, <1>2, <2>1, <2>2 DEF SignedIn
<1>4. CASE Callback(l)
  <2>1. /\ nonce' = [nonce EXCEPT ![l] = "gone"] /\ calls' = [calls EXCEPT ![l] = @ + 1]
        /\ mints' = mints /\ calls[l] = 0 /\ mints[l] = 0
    BY <1>2, <1>4 DEF Callback
  <2>2. calls[l] + 1 \in 0 .. 2
    BY <2>1
  <2>3. calls' \in [Logins -> 0 .. 2] /\ calls'[l] = 1
    BY <1>1, <2>1, <2>2
  <2> QED
    BY <1>1, <1>2, <2>1, <2>3 DEF SignedIn
<1>5. CASE Denied(l)
  <2>1. /\ calls' = [calls EXCEPT ![l] = @ - 1] /\ calls[l] > 0
        /\ UNCHANGED <<nonce, mints>>
    BY <1>5 DEF Denied
  <2>2. calls[l] - 1 \in 0 .. 2 /\ calls[l] \in 0 .. 2
    BY <1>1, <2>1
  <2>3. calls' \in [Logins -> 0 .. 2] /\ calls'[l] = calls[l] - 1
    BY <1>1, <2>1, <2>2
  <2> QED
    BY <1>1, <1>2, <2>1, <2>2, <2>3 DEF SignedIn
<1>6. ASSUME NEW id \in Users, Mint(l, id)
      PROVE  /\ nonce' \in [Logins -> {"new", "valid", "gone"}]
             /\ calls' \in [Logins -> 0 .. 2]
             /\ mints' \in [Logins -> 0 .. MaxTokens]
             /\ SignedIn'
  <2>1. /\ calls' = [calls EXCEPT ![l] = @ - 1] /\ mints' = [mints EXCEPT ![l] = @ + 1]
        /\ nonce' = nonce /\ calls[l] > 0 /\ tokens < MaxTokens
    BY <1>6 DEF Mint
  <2>2. calls[l] = 1 /\ mints[l] = 0
    BY <1>1, <1>2, <2>1
  <2>3. calls[l] - 1 \in 0 .. 2 /\ mints[l] + 1 \in 0 .. MaxTokens
    BY <1>1, <2>1, <2>2
  <2>4. /\ calls' \in [Logins -> 0 .. 2] /\ mints' \in [Logins -> 0 .. MaxTokens]
        /\ calls'[l] = 0 /\ mints'[l] = 1
    BY <1>1, <2>1, <2>2, <2>3
  <2> QED
    BY <1>1, <1>2, <2>1, <2>2, <2>4 DEF SignedIn
<1> QED
  BY <1>3, <1>4, <1>5, <1>6

LEMMA RegistryStep ==
    ASSUME RegistryInv, Next \/ ServerStops \/ UNCHANGED vars
    PROVE  RegistryInv'
<1>1. /\ TypeOK /\ SignedIn /\ ListsAgree /\ JobsOK
      /\ file \in Lists /\ told \in Lists /\ revoked \subseteq Ids
      /\ nonce \in [Logins -> {"new", "valid", "gone"}]
      /\ calls \in [Logins -> 0 .. 2] /\ mints \in [Logins -> 0 .. MaxTokens]
      /\ tokens \in 0 .. MaxTokens /\ crashes \in 0 .. MaxCrashes
      /\ MaxTokens \in Nat /\ MaxCrashes \in Nat
  BY RegistryAssumption DEF RegistryInv, TypeOK, JobsOK
<1>2. ASSUME UNCHANGED signIns
      PROVE  /\ SignedIn'
             /\ nonce' \in [Logins -> {"new", "valid", "gone"}]
             /\ calls' \in [Logins -> 0 .. 2] /\ mints' \in [Logins -> 0 .. MaxTokens]
  BY <1>1, <1>2 DEF SignedIn, signIns
<1>3. ASSUME JobsOK', ListsAgree', SignedIn', file' \in Lists, told' \in Lists,
             revoked' \subseteq Ids, tokens' \in 0 .. MaxTokens, crashes' \in 0 .. MaxCrashes,
             nonce' \in [Logins -> {"new", "valid", "gone"}],
             calls' \in [Logins -> 0 .. 2], mints' \in [Logins -> 0 .. MaxTokens]
      PROVE  RegistryInv'
  BY <1>3 DEF RegistryInv, TypeOK, JobsOK
<1>4. \A id \in DOMAIN file : /\ id \in Ids /\ file[id] \in Entry
                              /\ {file[id]} \in Changes
                              /\ \A s \in Scopes : {[file[id] EXCEPT !.scope = s]} \in Changes
  BY <1>1, ListIs DEF Changes, Entry
<1>5. \A s \in Scopes : tokens < MaxTokens => {[token |-> tokens + 1, scope |-> s]} \in Changes
  <2>1. tokens < MaxTokens => tokens + 1 \in 1 .. MaxTokens
    BY <1>1
  <2> QED
    BY <2>1 DEF Changes, Entry
<1>6. \A id : ScopesOf(id) \subseteq Scopes
  <2>1. \A id \in DOMAIN file : file[id].scope \in Scopes
    BY <1>4 DEF Entry
  <2> QED
    BY <2>1 DEF ScopesOf, Scopes
<1>7. ASSUME NEW w \in Writers, NEW id \in Ids, NEW e \in Changes, Starts(w, id, e),
             UNCHANGED signIns \/ (SignedIn' /\ nonce' \in [Logins -> {"new", "valid", "gone"}]
                                  /\ calls' \in [Logins -> 0 .. 2]
                                  /\ mints' \in [Logins -> 0 .. MaxTokens]),
             tokens' = tokens \/ (tokens < MaxTokens /\ tokens' = tokens + 1)
      PROVE  RegistryInv'
  <2>1. JobsOK' /\ ListsAgree'
    BY <1>1, <1>7, StartsKeeps
  <2>2. UNCHANGED <<file, told, revoked, crashes>>
    BY <1>7 DEF Starts
  <2>3. tokens' \in 0 .. MaxTokens
    BY <1>1, <1>7
  <2> QED
    BY <1>1, <1>2, <1>3, <1>7, <2>1, <2>2, <2>3
<1>8. ASSUME NEW id \in Ids, Pair(id)
      PROVE  RegistryInv'
  <2>1. PICK s \in ScopesOf(id) :
          Saves("operator", id, {[token |-> tokens + 1, scope |-> s]})
    BY <1>8 DEF Pair
  <2>2. PICK e \in Changes : e = {[token |-> tokens + 1, scope |-> s]}
    BY <1>5, <1>6, <1>8 DEF Pair
  <2>3. /\ Starts("operator", id, e) /\ UNCHANGED signIns
        /\ tokens < MaxTokens /\ tokens' = tokens + 1
    BY <1>8, <2>1, <2>2 DEF Pair, Starts
  <2> QED
    BY <1>7, <2>3 DEF Writers
<1>9. ASSUME NEW id \in Ids, Revoke(id)
      PROVE  RegistryInv'
  <2>1. {} \in Changes /\ Starts("operator", id, {}) /\ UNCHANGED <<signIns, tokens>>
    BY <1>9 DEF Revoke, Starts, Changes
  <2> QED
    BY <1>7, <2>1 DEF Writers
<1>10. ASSUME NEW id \in Ids, Attest(id)
       PROVE  RegistryInv'
  <2>1. PICK s \in ScopesOf(id) : Saves("operator", id, {[file[id] EXCEPT !.scope = s]})
    BY <1>10 DEF Attest
  <2>2. PICK e \in Changes : e = {[file[id] EXCEPT !.scope = s]}
    BY <1>4, <1>6, <1>10 DEF Attest
  <2>3. Starts("operator", id, e) /\ UNCHANGED <<signIns, tokens>>
    BY <1>10, <2>1, <2>2 DEF Attest, Starts
  <2> QED
    BY <1>7, <2>3 DEF Writers
<1>11. ASSUME NEW id \in Ids, Seen(id)
       PROVE  RegistryInv'
  <2>1. PICK e \in Changes : e = {file[id]}
    BY <1>4, <1>11 DEF Seen
  <2>2. Starts("server", id, e) /\ UNCHANGED <<signIns, tokens>>
    BY <1>11, <2>1 DEF Seen, Starts
  <2> QED
    BY <1>7, <2>2 DEF Writers
<1>12. ASSUME NEW l \in Logins, NEW id \in Users, Mint(l, id)
       PROVE  RegistryInv'
  <2>1. PICK e \in Changes : e = {[token |-> tokens + 1, scope |-> "clemson"]}
    BY <1>5, <1>12 DEF Mint, Scopes
  <2>2. /\ Starts("portal", id, e) /\ tokens < MaxTokens /\ tokens' = tokens + 1
    BY <1>12, <2>1 DEF Mint, Starts
  <2>3. /\ nonce' \in [Logins -> {"new", "valid", "gone"}]
        /\ calls' \in [Logins -> 0 .. 2] /\ mints' \in [Logins -> 0 .. MaxTokens] /\ SignedIn'
    BY <1>1, <1>12, SignInKeeps
  <2> QED
    BY <1>7, <2>2, <2>3 DEF Writers, Ids
<1>13. ASSUME NEW l \in Logins, Login(l) \/ Callback(l) \/ Expire(l) \/ Denied(l)
       PROVE  RegistryInv'
  <2>1. UNCHANGED <<file, fate, job, told, revoked, tokens, crashes>>
    BY <1>13 DEF Login, Callback, Expire, Denied
  <2>2. /\ nonce' \in [Logins -> {"new", "valid", "gone"}]
        /\ calls' \in [Logins -> 0 .. 2] /\ mints' \in [Logins -> 0 .. MaxTokens] /\ SignedIn'
    BY <1>1, <1>13, SignInKeeps
  <2>3. JobsOK' /\ ListsAgree'
    BY <1>1, <2>1 DEF JobsOK, ListsAgree
  <2> QED
    BY <1>1, <1>3, <2>1, <2>2, <2>3
<1>14. ASSUME NEW w \in Writers, Truncate(w)
       PROVE  RegistryInv'
  <2>1. UNCHANGED <<told, revoked, signIns, tokens, crashes>>
    BY <1>14 DEF Truncate
  <2> QED
    BY <1>1, <1>2, <1>3, <1>14, <2>1, TruncateKeeps
<1>15. ASSUME NEW w \in Writers, Write(w)
       PROVE  RegistryInv'
  <2>1. UNCHANGED <<signIns, tokens, crashes>>
    BY <1>15 DEF Write
  <2> QED
    BY <1>1, <1>2, <1>3, <1>15, <2>1, WriteKeeps
<1>16. ASSUME NEW w \in Writers, job' = [job EXCEPT ![w] = Idle], crashes < MaxCrashes,
              crashes' = crashes + 1, UNCHANGED <<file, fate, told, revoked, tokens>>,
              SignedIn', nonce' \in [Logins -> {"new", "valid", "gone"}],
              calls' \in [Logins -> 0 .. 2], mints' \in [Logins -> 0 .. MaxTokens]
       PROVE  RegistryInv'
  <2>1. crashes' \in 0 .. MaxCrashes
    BY <1>1, <1>16
  <2> QED
    BY <1>1, <1>3, <1>16, <2>1, DeathKeeps
<1>17. ASSUME NEW w \in Writers, Dies(w)
       PROVE  RegistryInv'
  <2>1. /\ nonce' = [l \in Logins |-> IF w = "portal" /\ nonce[l] = "valid" THEN "gone" ELSE nonce[l]]
        /\ calls' = calls \/ calls' = [l \in Logins |-> 0]
        /\ mints' = mints
    BY <1>17 DEF Dies
  <2>2. nonce' \in [Logins -> {"new", "valid", "gone"}]
    BY <1>1, <2>1
  <2>3. calls' \in [Logins -> 0 .. 2]
    BY <1>1, <2>1
  <2>4. SignedIn'
    BY <1>1, <2>1 DEF SignedIn
  <2> QED
    BY <1>1, <1>16, <1>17, <2>1, <2>2, <2>3, <2>4 DEF Dies
<1>18. CASE ServerStops
  BY <1>1, <1>2, <1>16, <1>18 DEF ServerStops, Writers
<1>19. CASE UNCHANGED vars
  <2>1. JobsOK' /\ ListsAgree'
    BY <1>1, <1>19 DEF JobsOK, ListsAgree, vars
  <2> QED
    BY <1>1, <1>2, <1>3, <1>19, <2>1 DEF vars
<1> QED
  BY <1>8, <1>9, <1>10, <1>11, <1>12, <1>13, <1>14, <1>15, <1>17, <1>18, <1>19 DEF Next

LEMMA RegistryTells == RegistryInv => RegistryIsTrue
<1> SUFFICES ASSUME RegistryInv
             PROVE  RegistryIsTrue
  OBVIOUS
<1>1. UpdatesTake
  <2>1. \A i \in Ids : Fits(file, fate, i)
    BY DEF RegistryInv, ListsAgree, FitsIn, Fits
  <2>2. ASSUME NEW i \in revoked \cap DOMAIN file
        PROVE  fate[i] = "undone"
    <3>1. /\ i \in Ids /\ fate \in [Ids -> Fates] /\ i \notin DOMAIN told
      BY DEF RegistryInv, TypeOK, ListsAgree
    <3> QED
      BY <2>1, <3>1 DEF Fits, Fates
  <2> QED
    BY <2>1, <2>2 DEF UpdatesTake
<1>2. OneTokenPerSignIn
  <2> SUFFICES ASSUME NEW l \in Logins
               PROVE  mints[l] <= 1
    BY DEF OneTokenPerSignIn
  <2>1. calls[l] \in Nat /\ mints[l] \in Nat /\ calls[l] + mints[l] <= 1
    BY RegistryAssumption DEF RegistryInv, TypeOK, SignedIn
  <2> QED
    BY <2>1
<1> QED
  BY <1>1, <1>2 DEF RegistryIsTrue

-----------------------------------------------------------------------------
(* The calls *)

Synchronous == {"gws", "save", "write"}
Working == {"walk", "graph"} \cup Synchronous

\* A call under way was entitled to what it does, and has announced it.
Owed(r) ==
    /\ r.entitled
    /\ r.pc = "header" => ~r.done /\ r.intent = "" /\ r.found = {}
    /\ r.pc \in Working =>
         /\ Grants(r.scope, r.tool)
         /\ r.intent = IF r.tool = "read" THEN "" ELSE r.who
         /\ r.tool = "read" => ~r.done
         /\ r.tool = "move" => r.arg = "sorted"
    /\ r.pc = "walk" => r.tool = "move" /\ ~r.done
    /\ r.pc \in Synchronous => r.tool \in GwsTools
    /\ r.pc = "graph" => r.tool \notin GwsTools

\* Only the tools of To Do can be given an exception by their backend.
OnlyTasksThrow == Throwing \subseteq {"read", "task"}

Rowed(r) ==
    OnlyTasksThrow /\ r.pc = "answered" /\ r.intent # "" =>
        r.row # "" /\ (r.row = "success" => r.done)

\* The folders a move knows at the path it was given were there while it ran.
Filed(r) ==
    /\ r.pc = "walk" =>
         /\ At(r.arg, folderOf) \subseteq r.held
         /\ \A x \in r.found : x.id \in Leaves /\ x.parent = r.arg => x.id \in r.held
    /\ r.pc = "graph" /\ r.tool = "move" => r.dest \in r.held

\* A file that is written was made by a tool or granted by the owner.
Kept(r) ==
    /\ r.pc \in Working /\ r.tool = "update" => r.arg \in made \cup granted
    /\ r.pc \in Synchronous /\ r.tool = "create" /\ r.done => r.arg \in made
    /\ r.pc \in {"save", "write"} =>
         /\ r.done /\ r.tool = "create"
         /\ r.arg \in r.list /\ r.list \subseteq made \cup granted

Good(r) == Owed(r) /\ Rowed(r) /\ Filed(r) /\ Kept(r)

Saving == {c \in Reqs : req[c].pc \in {"save", "write"}}

\* While the two writers of the list of files have taken turns, one that has
\* emptied it finds it so.
TakeTurns ==
    ~crossed => /\ grant.pc = "idle" \/ Saving = {}
                /\ grant.pc = "write" => owned = {}
                /\ \A c \in Reqs : req[c].pc = "write" => owned = {}

\* Without a crash either, the list and the lists to be saved have what was reported.
Registered ==
    ~crossed /\ crashes = 0 =>
      /\ grant.pc # "write" /\ (\A c \in Reqs : req[c].pc # "write")
           => reported \cup granted \subseteq owned
      /\ \A c \in Saving : reported \cup granted \subseteq req[c].list
      /\ grant.pc # "idle" => reported \cup granted \subseteq grant.list

\* The registry of files: what is in it, what is about to be, and who may write it.
FilesInv ==
    /\ owned \subseteq made \cup granted
    /\ grant.pc # "idle" => /\ grant.file \in Old
                            /\ grant.file \in grant.list
                            /\ grant.list \subseteq made \cup granted \cup {grant.file}
    /\ \A c, d \in Reqs :
         req[c].pc \in Synchronous /\ req[d].pc \in Synchronous => c = d
    /\ TakeTurns /\ Registered

CallsInv == ToolsTypeOK /\ (\A c \in Reqs : Good(req[c])) /\ FilesInv

ToolsInv == RegistryInv /\ CallsInv

-----------------------------------------------------------------------------
(* What the steps of a call do to it *)

LEMMA FreshIs ==
    /\ Fresh \in Requests
    /\ Fresh.pc = "answered" /\ Fresh.entitled /\ Fresh.intent = ""
BY DEF Fresh, Requests, Steps, Scopes, AllTools

\* The request of c becomes r.
Becomes(c, r) ==
    /\ req' \in [Reqs -> Requests]
    /\ req'[c] = r
    /\ \A d \in Reqs \ {c} : req'[d] = req[d]

LEMMA BecomesIs ==
    ASSUME ToolsTypeOK, NEW c \in Reqs, NEW r \in Requests, req' = [req EXCEPT ![c] = r]
    PROVE  Becomes(c, r)
BY DEF ToolsTypeOK, Becomes

LEMMA AnswersMoves ==
    ASSUME ToolsTypeOK, NEW c \in Reqs, NEW row \in {"", "success", "error"}, Answers(c, row)
    PROVE  \E r \in Requests :
             /\ Becomes(c, r)
             /\ r.pc = "answered" /\ r.entitled
             /\ r.intent = req[c].intent /\ r.row = row /\ r.done = req[c].done
<1> DEFINE r == [Fresh EXCEPT !.intent = req[c].intent, !.row = row, !.done = req[c].done]
<1>1. req[c] \in Requests
  BY DEF ToolsTypeOK
<1>2. req[c].intent \in Ids \cup {""} /\ req[c].done \in BOOLEAN
  BY <1>1 DEF Requests
<1>3. /\ r \in Requests /\ r.pc = "answered" /\ r.entitled
      /\ r.intent = req[c].intent /\ r.row = row /\ r.done = req[c].done
  BY <1>2, FreshIs DEF Requests, Fresh
<1>4. req' = [req EXCEPT ![c] = r]
  BY DEF Answers
<1> HIDE DEF r
<1> QED
  BY <1>3, <1>4, BecomesIs

LEMMA ArriveMoves ==
    ASSUME ToolsTypeOK, RegistryInv, NEW c \in Reqs, NEW t \in 1 .. MaxTokens, Arrive(c, t)
    PROVE  \E r \in Requests :
             /\ Becomes(c, r)
             /\ r.pc = "header" /\ ~r.done /\ r.intent = "" /\ r.found = {}
             /\ r.entitled
             /\ r.who \in DOMAIN file
             /\ Seen(r.who) \/ UNCHANGED vars
<1>1. PICK p \in Authenticates(t) :
        /\ req' = [req EXCEPT ![c] = [Fresh EXCEPT
             !.pc = "header", !.who = p.id, !.scope = p.scope,
             !.entitled = \/ fate[p.id] = "undone"
                          \/ /\ p.id \in DOMAIN told
                             /\ told[p.id] = [token |-> t, scope |-> p.scope]]]
        /\ Seen(p.id) \/ UNCHANGED vars
  BY DEF Arrive
<1>2. PICK id \in DOMAIN file : file[id].token = t /\ p = [id |-> id, scope |-> file[id].scope]
  BY DEF Authenticates
<1>3. p.id = id /\ p.scope = file[id].scope
  BY <1>2
<1>4. file \in Lists /\ id \in Ids /\ file[id] \in Entry
  BY ListIs DEF RegistryInv, TypeOK
<1>5. file[id] = [token |-> t, scope |-> p.scope] /\ p.scope \in Scopes
  BY <1>2, <1>3, <1>4 DEF Entry
<1>6. PICK e \in BOOLEAN :
        e = (\/ fate[p.id] = "undone"
             \/ /\ p.id \in DOMAIN told
                /\ told[p.id] = [token |-> t, scope |-> p.scope])
  OBVIOUS
<1>7. e
  <2>1. FitsIn(told, file, fate, id) /\ fate[id] \in Fates
    BY <1>4 DEF RegistryInv, ListsAgree, TypeOK
  <2> QED
    BY <1>2, <1>3, <1>5, <1>6, <2>1 DEF FitsIn, Fates
<1>8. PICK r : r = [Fresh EXCEPT !.pc = "header", !.who = p.id, !.scope = p.scope, !.entitled = e]
  OBVIOUS
<1>9. /\ r \in Requests /\ r.pc = "header" /\ ~r.done /\ r.intent = "" /\ r.found = {}
      /\ r.entitled = e /\ r.who = p.id
  BY <1>3, <1>4, <1>5, <1>8, FreshIs DEF Requests, Fresh, Steps
<1>10. Becomes(c, r)
  BY <1>1, <1>6, <1>8, <1>9, BecomesIs
<1> QED
  BY <1>1, <1>3, <1>7, <1>9, <1>10

LEMMA CallMoves ==
    ASSUME ToolsTypeOK, NEW c \in Reqs, NEW tool \in Tools, Call(c, tool)
    PROVE  /\ req[c].pc = "header" /\ ~Blocked
           /\ \/ Answers(c, "")
              \/ \E r \in Requests :
                   /\ Becomes(c, r) /\ r.pc = "answered" /\ r.entitled
                   /\ r.row = "error"
              \/ \E r \in Requests, arg \in ArgsOf(tool) :
                   /\ Becomes(c, r)
                   /\ Grants(req[c].scope, tool) /\ ~Refuses(tool, arg)
                   /\ r.tool = tool /\ r.arg = arg /\ r.scope = req[c].scope
                   /\ r.who = req[c].who /\ r.entitled = req[c].entitled
                   /\ r.done = req[c].done /\ r.found = req[c].found
                   /\ r.intent = IF tool = "read" THEN "" ELSE req[c].who
                   /\ tool \in GwsTools => r.pc = "gws"
                   /\ tool = "move" => r.pc = "walk" /\ r.held = At(arg, folderOf)
                   /\ tool \notin GwsTools \cup {"move"} => r.pc = "graph"
<1>1. /\ req[c] \in Requests /\ tool \in AllTools /\ req[c].pc = "header" /\ ~Blocked
      /\ owned \subseteq Files /\ made \subseteq New
  BY ToolsAssumption DEF ToolsTypeOK, Call
<1>2. CASE ~Grants(req[c].scope, tool)
  BY <1>1, <1>2 DEF Call
<1>3. CASE Grants(req[c].scope, tool)
  <2>1. PICK arg \in ArgsOf(tool) :
          IF ~Refuses(tool, arg) THEN req' = [req EXCEPT ![c] = Started(c, tool, arg)]
          ELSE IF tool \in AuditedFirst
            THEN req' = [req EXCEPT ![c] = [Fresh EXCEPT !.intent = req[c].who, !.row = "error"]]
            ELSE Answers(c, "")
    BY <1>3 DEF Call
  <2>2. CASE Refuses(tool, arg) /\ tool \in AuditedFirst
    <3>1. PICK r : r = [Fresh EXCEPT !.intent = req[c].who, !.row = "error"]
      OBVIOUS
    <3>2. r \in Requests /\ r.pc = "answered" /\ r.entitled /\ r.row = "error"
      BY <1>1, <3>1, FreshIs DEF Requests, Fresh
    <3> QED
      BY <1>1, <2>1, <2>2, <3>1, <3>2, BecomesIs
  <2>3. CASE ~Refuses(tool, arg)
    <3>1. arg \in {NoFile, "allowed", "forbidden"} \cup Top \cup Files
      BY <1>1 DEF ArgsOf, Files
    <3>2. PICK pc : pc = CASE tool \in GwsTools -> "gws" [] tool = "move" -> "walk" [] OTHER -> "graph"
      OBVIOUS
    <3>3. /\ pc \in Steps
          /\ tool \in GwsTools => pc = "gws"
          /\ tool = "move" => pc = "walk"
          /\ tool \notin GwsTools \cup {"move"} => pc = "graph"
      BY <3>2 DEF Steps, GwsTools
    <3>4. PICK queue, held, intent :
            /\ queue = IF tool = "move" THEN {Root} ELSE {}
            /\ held = IF tool = "move" THEN At(arg, folderOf) ELSE {}
            /\ intent = IF tool = "read" THEN "" ELSE req[c].who
      OBVIOUS
    <3>5. queue \subseteq Folders \cup {Root} /\ held \subseteq Leaves /\ intent \in Ids \cup {""}
      BY <1>1, <3>4 DEF At, Requests
    <3>6. PICK r : r = [req[c] EXCEPT !.pc = pc, !.tool = tool, !.arg = arg, !.queue = queue,
                                      !.held = held, !.intent = intent]
      OBVIOUS
    <3>7. /\ r \in Requests /\ r.pc = pc /\ r.tool = tool /\ r.arg = arg /\ r.held = held
          /\ r.intent = intent /\ r.scope = req[c].scope /\ r.who = req[c].who
          /\ r.entitled = req[c].entitled /\ r.done = req[c].done /\ r.found = req[c].found
      BY <1>1, <3>1, <3>3, <3>5, <3>6 DEF Requests
    <3>8. req' = [req EXCEPT ![c] = r]
      BY <2>1, <2>3, <3>2, <3>4, <3>6 DEF Started
    <3>9. Becomes(c, r)
      BY <3>7, <3>8, BecomesIs
    <3> QED
      BY <1>1, <1>3, <2>3, <3>3, <3>4, <3>7, <3>9
  <2> QED
    BY <1>1, <2>1, <2>2, <2>3
<1> QED
  BY <1>2, <1>3

\* Nothing changes but how far the call has got.
SameCall(r, s) ==
    /\ s.entitled = r.entitled /\ s.who = r.who /\ s.scope = r.scope /\ s.tool = r.tool
    /\ s.intent = r.intent /\ s.held = r.held

LEMMA WalkMoves ==
    ASSUME ToolsTypeOK, NEW c \in Reqs, Walk(c)
    PROVE  /\ req[c].pc = "walk"
           /\ \/ Answers(c, "error")
              \/ \E r \in Requests, at \in Folders \cup {Root} :
                   /\ Becomes(c, r) /\ SameCall(req[c], r)
                   /\ r.arg = req[c].arg /\ r.done = req[c].done
                   /\ \/ /\ r.pc = "walk"
                         /\ \A x \in r.found :
                              x \in req[c].found \/ (x.parent = at /\ folderOf[x.id] = at)
                      \/ /\ r.pc = "graph"
                         /\ r.dest \in Leaves
                         /\ \/ [id |-> r.dest, parent |-> r.arg] \in req[c].found
                            \/ folderOf[r.dest] = r.arg
<1>1. /\ req[c] \in Requests /\ req[c].pc = "walk"
      /\ req[c].found \subseteq [id : Folders, parent : Folders \cup {Root}]
      /\ req[c].queue \subseteq Folders \cup {Root}
  BY DEF ToolsTypeOK, Requests, Walk
<1>2. PICK at \in req[c].queue, ok \in BOOLEAN :
        LET level == IF ok THEN {f \in Folders : folderOf[f] = at} ELSE {}
            found == req[c].found \cup {[id |-> f, parent |-> at] : f \in level}
            queue == (req[c].queue \ {at}) \cup {f \in level : \E g \in Folders : folderOf[g] = f}
        IN IF queue # {}
             THEN req' = [req EXCEPT ![c].queue = queue, ![c].found = found]
           ELSE IF Match(found, req[c].arg) = {}
             THEN Answers(c, "error")
           ELSE \E f \in Match(found, req[c].arg) :
                  req' = [req EXCEPT ![c] = [@ EXCEPT
                    !.pc = "graph", !.queue = {}, !.found = {}, !.dest = f]]
  BY DEF Walk
<1>3. PICK level \in SUBSET Folders :
        level = IF ok THEN {f \in Folders : folderOf[f] = at} ELSE {}
  OBVIOUS
<1>4. PICK found : found = req[c].found \cup {[id |-> f, parent |-> at] : f \in level}
  OBVIOUS
<1>5. PICK queue : queue = (req[c].queue \ {at}) \cup
                             {f \in level : \E g \in Folders : folderOf[g] = f}
  OBVIOUS
<1>6. /\ \A f \in level : folderOf[f] = at
      /\ at \in Folders \cup {Root} /\ queue \subseteq Folders \cup {Root}
      /\ found \subseteq [id : Folders, parent : Folders \cup {Root}]
  <2>1. \A f \in level : folderOf[f] = at
    BY <1>3
  <2>2. at \in Folders \cup {Root} /\ queue \subseteq Folders \cup {Root}
    BY <1>1, <1>5
  <2>3. \A f \in level : [id |-> f, parent |-> at] \in [id : Folders, parent : Folders \cup {Root}]
    BY <2>2
  <2> QED
    BY <1>1, <1>4, <2>1, <2>2, <2>3
<1>7. \A x \in found : x \in req[c].found \/ (x.parent = at /\ folderOf[x.id] = at)
  BY <1>4, <1>6
<1>8. IF queue # {} THEN req' = [req EXCEPT ![c].queue = queue, ![c].found = found]
      ELSE IF Match(found, req[c].arg) = {} THEN Answers(c, "error")
      ELSE \E f \in Match(found, req[c].arg) :
             req' = [req EXCEPT ![c] = [req[c] EXCEPT
               !.pc = "graph", !.queue = {}, !.found = {}, !.dest = f]]
  BY <1>2, <1>3, <1>4, <1>5
<1>9. CASE queue # {}
  <2>1. PICK r : r = [req[c] EXCEPT !.queue = queue, !.found = found]
    OBVIOUS
  <2>2. /\ r \in Requests /\ SameCall(req[c], r) /\ r.arg = req[c].arg /\ r.done = req[c].done
        /\ r.pc = "walk" /\ r.found = found
    BY <1>1, <1>6, <2>1 DEF Requests, SameCall
  <2>3. req' = [req EXCEPT ![c] = r]
    BY <1>8, <1>9, <2>1
  <2>4. Becomes(c, r)
    BY <2>2, <2>3, BecomesIs
  <2> QED
    BY <1>1, <1>6, <1>7, <2>2, <2>4
<1>10. CASE queue = {} /\ Match(found, req[c].arg) = {}
  BY <1>1, <1>8, <1>10
<1>11. CASE queue = {} /\ Match(found, req[c].arg) # {}
  <2>1. PICK f \in Match(found, req[c].arg) :
          req' = [req EXCEPT ![c] = [req[c] EXCEPT
            !.pc = "graph", !.queue = {}, !.found = {}, !.dest = f]]
    BY <1>8, <1>11
  <2>2. PICK x \in found : x.id \in Leaves /\ x.parent = req[c].arg /\ x.id = f
    BY <2>1 DEF Match
  <2>3. PICK r : r = [req[c] EXCEPT !.pc = "graph", !.queue = {}, !.found = {}, !.dest = f]
    OBVIOUS
  <2>4. /\ r \in Requests /\ SameCall(req[c], r) /\ r.arg = req[c].arg /\ r.done = req[c].done
        /\ r.pc = "graph" /\ r.dest = f
    BY <1>1, <2>2, <2>3 DEF Requests, SameCall, Steps
  <2>5. Becomes(c, r)
    BY <2>1, <2>3, <2>4, BecomesIs
  <2>6. x = [id |-> f, parent |-> req[c].arg]
    BY <1>6, <2>2
  <2>7. [id |-> f, parent |-> req[c].arg] \in req[c].found \/ folderOf[f] = req[c].arg
    BY <1>7, <2>2, <2>6
  <2> QED
    BY <1>1, <1>6, <2>2, <2>4, <2>5, <2>7
<1> QED
  BY <1>9, <1>10, <1>11

\* A call that Graph or Google has done, or that has got a step further.
LEMMA ActsMoves ==
    ASSUME ToolsTypeOK, NEW c \in Reqs, GraphActs(c) \/ GoogleActs(c)
    PROVE  \E r \in Requests :
             /\ Becomes(c, r) /\ SameCall(req[c], r)
             /\ r.pc = req[c].pc /\ r.done
             /\ \/ r.pc = "graph" /\ r.tool # "read" /\ r.dest = req[c].dest
                   /\ r.arg = req[c].arg /\ made' = made
                \/ r.pc = "gws" /\ r.tool # "create" /\ r.arg = req[c].arg /\ made' = made
                \/ /\ r.pc = "gws" /\ r.tool = "create"
                   /\ r.arg \in New /\ made' = made \cup {r.arg}
<1>1. req[c] \in Requests
  BY DEF ToolsTypeOK
<1>2. CASE GraphActs(c) \/ (GoogleActs(c) /\ req[c].tool # "create")
  <2>1. PICK r : r = [req[c] EXCEPT !.done = TRUE]
    OBVIOUS
  <2>2. /\ r \in Requests /\ SameCall(req[c], r) /\ r.pc = req[c].pc /\ r.done
        /\ r.dest = req[c].dest /\ r.arg = req[c].arg
    BY <1>1, <2>1 DEF Requests, SameCall
  <2>3. /\ req' = [req EXCEPT ![c] = r] /\ made' = made
        /\ \/ req[c].pc = "graph" /\ req[c].tool # "read"
           \/ req[c].pc = "gws" /\ req[c].tool # "create"
    BY <1>2, <2>1 DEF GraphActs, GoogleActs
  <2>4. Becomes(c, r)
    BY <2>2, <2>3, BecomesIs
  <2> QED
    BY <2>2, <2>3, <2>4 DEF SameCall
<1>3. CASE GoogleActs(c) /\ req[c].tool = "create"
  <2>1. PICK f \in New \ made :
          /\ made' = made \cup {f}
          /\ req' = [req EXCEPT ![c].done = TRUE, ![c].arg = f]
    BY <1>3 DEF GoogleActs
  <2>2. PICK r : r = [req[c] EXCEPT !.done = TRUE, !.arg = f]
    OBVIOUS
  <2>3. /\ r \in Requests /\ SameCall(req[c], r) /\ r.pc = req[c].pc /\ r.done /\ r.arg = f
    BY <1>1, <2>2 DEF Requests, SameCall, Files
  <2>4. Becomes(c, r)
    BY <2>1, <2>2, <2>3, BecomesIs
  <2> QED
    BY <1>3, <2>1, <2>3, <2>4 DEF GoogleActs, SameCall
<1> QED
  BY <1>2, <1>3

LEMMA SavesMoves ==
    ASSUME ToolsTypeOK, NEW c \in Reqs, Kept(req[c]), GwsReturns(c)
    PROVE  /\ req[c].pc = "gws"
           /\ \/ Answers(c, "error") /\ crossed' = crossed
              \/ Answers(c, "success") /\ req[c].done /\ crossed' = crossed
              \/ \E r \in Requests :
                   /\ Becomes(c, r) /\ SameCall(req[c], r) /\ req[c].done
                   /\ r.pc = "save" /\ r.done /\ r.arg = req[c].arg
                   /\ r.tool = "create" /\ r.list = owned \cup {r.arg}
                   /\ crossed' = (crossed \/ grant.pc # "idle")
<1>1. req[c] \in Requests /\ owned \subseteq Files /\ req[c].pc = "gws"
  BY DEF ToolsTypeOK, GwsReturns
<1>2. CASE /\ req[c].done /\ req[c].tool = "create"
           /\ crossed' = (crossed \/ grant.pc # "idle")
           /\ req' = [req EXCEPT ![c].pc = "save", ![c].list = owned \cup {req[c].arg}]
           /\ req[c].arg \in Files
  <2>1. PICK r : r = [req[c] EXCEPT !.pc = "save", !.list = owned \cup {req[c].arg}]
    OBVIOUS
  <2>2. /\ r \in Requests /\ SameCall(req[c], r) /\ r.pc = "save" /\ r.done
        /\ r.arg = req[c].arg /\ r.list = owned \cup {req[c].arg}
    BY <1>1, <1>2, <2>1 DEF Requests, SameCall, Steps
  <2>3. req' = [req EXCEPT ![c] = r]
    BY <1>2, <2>1
  <2>4. Becomes(c, r)
    BY <2>2, <2>3, BecomesIs
  <2> QED
    BY <1>1, <1>2, <2>2, <2>4 DEF SameCall
<1>3. \/ Answers(c, "error") /\ crossed' = crossed
      \/ Answers(c, "success") /\ req[c].done /\ crossed' = crossed
      \/ /\ req[c].done /\ req[c].tool = "create"
         /\ crossed' = (crossed \/ grant.pc # "idle")
         /\ req' = [req EXCEPT ![c].pc = "save", ![c].list = owned \cup {req[c].arg}]
  BY DEF GwsReturns, Succeeds
<1>4. req[c].done /\ req[c].tool = "create" => req[c].arg \in Files
  BY <1>1 DEF Kept, Synchronous, ToolsTypeOK, Files
<1> QED
  BY <1>1, <1>2, <1>3, <1>4

-----------------------------------------------------------------------------
(* What the steps keep *)

\* A call that does not change stays good as files are made and granted.
LEMMA GoodStays ==
    ASSUME NEW r, Good(r), folderOf' = folderOf, made \subseteq made', granted \subseteq granted'
    PROVE  Good(r)'
<1>1. Owed(r)' /\ Rowed(r)'
  BY DEF Good, Owed, Rowed, OnlyTasksThrow
<1>2. Filed(r)'
  BY DEF Good, Filed, At
<1>3. Kept(r)'
  BY DEF Good, Kept
<1> QED
  BY <1>1, <1>2, <1>3 DEF Good

LEMMA OneIsGood ==
    ASSUME CallsInv, NEW c \in Reqs, NEW r \in Requests, Becomes(c, r), Good(r)',
           folderOf' = folderOf, made \subseteq made', granted \subseteq granted'
    PROVE  \A d \in Reqs : Good(req[d])'
<1>1. \A d \in Reqs \ {c} : Good(req[d])'
  <2> TAKE d \in Reqs \ {c}
  <2>1. PICK s : s = req[d]
    OBVIOUS
  <2>2. Good(s)'
    BY <2>1, GoodStays DEF CallsInv
  <2>3. req'[d] = s
    BY <2>1 DEF Becomes
  <2> QED
    BY <2>2, <2>3
<1>2. Good(req[c])'
  <2>1. req'[c] = r
    BY DEF Becomes
  <2> QED
    BY <2>1
<1> QED
  BY <1>1, <1>2

\* A call moves without touching the registry of files.
LEMMA FilesStay ==
    ASSUME CallsInv, NEW c \in Reqs, NEW r \in Requests, Becomes(c, r),
           req[c].pc \notin {"save", "write"}, r.pc \notin {"save", "write"},
           r.pc \in Synchronous => req[c].pc \in Synchronous \/ ~Blocked,
           UNCHANGED <<owned, grant, reported, granted, crossed>>, made \subseteq made',
           crashes' = crashes \/ (crashes' # 0)
    PROVE  FilesInv'
<1>1. FilesInv
  BY DEF CallsInv
<1>2. req'[c] = r /\ \A d \in Reqs \ {c} : req'[d] = req[d]
  BY DEF Becomes
<1>3. Saving' = Saving /\ \A d \in Saving : d \in Reqs \ {c}
  BY <1>2 DEF Saving
<1>4. \A d, e \in Reqs :
        req'[d].pc \in Synchronous /\ req'[e].pc \in Synchronous => d = e
  BY <1>1, <1>2 DEF FilesInv, TakeTurns, Registered, Blocked, Synchronous
<1>5. /\ owned' \subseteq made' \cup granted'
      /\ grant'.pc # "idle" => /\ grant'.file \in Old /\ grant'.file \in grant'.list
                               /\ grant'.list \subseteq made' \cup granted' \cup {grant'.file}
  BY <1>1 DEF FilesInv, TakeTurns, Registered
<1>6. TakeTurns'
  BY <1>1, <1>2, <1>3 DEF FilesInv, TakeTurns
<1>7. Registered'
  <2> SUFFICES ASSUME ~crossed', crashes' = 0
               PROVE  /\ grant'.pc # "write" /\ (\A d \in Reqs : req'[d].pc # "write")
                           => reported' \cup granted' \subseteq owned'
                      /\ \A d \in Saving' : reported' \cup granted' \subseteq req'[d].list
                      /\ grant'.pc # "idle" => reported' \cup granted' \subseteq grant'.list
    BY DEF Registered
  <2>1. /\ grant.pc # "write" /\ (\A d \in Reqs : req[d].pc # "write")
             => reported \cup granted \subseteq owned
        /\ \A d \in Saving : reported \cup granted \subseteq req[d].list
        /\ grant.pc # "idle" => reported \cup granted \subseteq grant.list
    BY <1>1 DEF FilesInv, TakeTurns, Registered
  <2>2. (\A d \in Reqs : req'[d].pc # "write") => \A d \in Reqs : req[d].pc # "write"
    BY <1>2
  <2>3. \A d \in Saving' : req'[d].list = req[d].list
    BY <1>2, <1>3
  <2> QED
    BY <1>3, <2>1, <2>2, <2>3
<1> QED
  BY <1>4, <1>5, <1>6, <1>7 DEF FilesInv

LEMMA RequestStep ==
    ASSUME CallsInv, NEW c \in Reqs, NEW r \in Requests, Becomes(c, r), Good(r)',
           req[c].pc \notin {"save", "write"}, r.pc \notin {"save", "write"},
           r.pc \in Synchronous => req[c].pc \in Synchronous \/ ~Blocked,
           UNCHANGED <<folderOf, tidies, owned, grant, reported, granted, crossed, crashes>>,
           made \subseteq made', made' \subseteq New
    PROVE  CallsInv'
<1>1. FilesInv'
  BY FilesStay
<1>2. \A d \in Reqs : Good(req[d])'
  BY OneIsGood
<1>3. ToolsTypeOK'
  <2>1. ToolsTypeOK /\ req' \in [Reqs -> Requests]
    BY DEF CallsInv, Becomes
  <2> QED
    BY <2>1 DEF ToolsTypeOK
<1> QED
  BY <1>1, <1>2, <1>3 DEF CallsInv

\* An answer with a row keeps what the rows tell.
LEMMA AnswerStep ==
    ASSUME CallsInv, NEW c \in Reqs, NEW row \in {"", "success", "error"}, Answers(c, row),
           req[c].pc \notin {"save", "write"}, row = "success" => req[c].done,
           OnlyTasksThrow /\ req[c].intent # "" => row # "",
           UNCHANGED <<folderOf, tidies, owned, grant, reported, granted, crossed, crashes, made>>
    PROVE  CallsInv'
<1>1. ToolsTypeOK /\ made \subseteq New
  BY DEF CallsInv, ToolsTypeOK
<1>2. PICK r \in Requests :
        /\ Becomes(c, r) /\ r.pc = "answered" /\ r.entitled
        /\ r.intent = req[c].intent /\ r.row = row /\ r.done = req[c].done
  BY <1>1, AnswersMoves
<1>3. Good(r)'
  BY <1>2 DEF Good, Owed, Rowed, Filed, Kept, Working, Synchronous, OnlyTasksThrow
<1> QED
  BY <1>1, <1>2, <1>3, RequestStep DEF Synchronous

LEMMA ArriveStep ==
    ASSUME ToolsInv, NEW c \in Reqs, NEW t \in 1 .. MaxTokens, Arrive(c, t)
    PROVE  ToolsInv'
<1>1. CallsInv /\ ToolsTypeOK /\ RegistryInv /\ made \subseteq New
  BY DEF ToolsInv, CallsInv, ToolsTypeOK
<1>2. /\ req[c].pc = "answered"
      /\ UNCHANGED <<folderOf, tidies, owned, grant, made, reported, granted, crossed>>
  BY DEF Arrive
<1>3. PICK r \in Requests :
        /\ Becomes(c, r)
        /\ r.pc = "header" /\ ~r.done /\ r.intent = "" /\ r.found = {}
        /\ r.entitled
        /\ r.who \in DOMAIN file
        /\ Seen(r.who) \/ UNCHANGED vars
  BY <1>1, ArriveMoves
<1>4. Good(r)'
  BY <1>3 DEF Good, Owed, Rowed, Filed, Kept, Working, Synchronous, OnlyTasksThrow
<1>5. UNCHANGED crashes
  BY <1>3 DEF Seen, vars
<1>6. CallsInv'
  BY <1>1, <1>2, <1>3, <1>4, <1>5, RequestStep DEF Synchronous
<1>7. RegistryInv'
  <2>1. r.who \in Ids
    BY <1>1, <1>3, ListIs DEF RegistryInv, TypeOK
  <2> QED
    BY <1>1, <1>3, <2>1, RegistryStep DEF Next
<1> QED
  BY <1>6, <1>7 DEF ToolsInv

LEMMA CallStep ==
    ASSUME CallsInv, NEW c \in Reqs, NEW tool \in Tools, Call(c, tool)
    PROVE  CallsInv'
<1>1. /\ ToolsTypeOK /\ made \subseteq New /\ FilesInv /\ req[c] \in Requests
      /\ owned \subseteq made \cup granted
      /\ UNCHANGED <<vars, folderOf, tidies, owned, grant, made, reported, granted, crossed>>
      /\ req[c].pc = "header" /\ ~Blocked
  BY CallMoves DEF CallsInv, ToolsTypeOK, FilesInv, TakeTurns, Registered, Call
<1>2. Owed(req[c]) /\ ~req[c].done /\ req[c].intent = "" /\ req[c].found = {}
  BY <1>1 DEF CallsInv, Good, Owed
<1>3. UNCHANGED crashes
  BY <1>1 DEF vars
<1>4. CASE Answers(c, "")
  BY <1>1, <1>2, <1>3, <1>4, AnswerStep
<1>5. ASSUME NEW r \in Requests, Becomes(c, r), r.pc = "answered", r.entitled, r.row = "error"
      PROVE  CallsInv'
  <2>1. Good(r)'
    BY <1>5 DEF Good, Owed, Rowed, Filed, Kept, Working, Synchronous, OnlyTasksThrow
  <2> QED
    BY <1>1, <1>3, <1>5, <2>1, RequestStep DEF Synchronous
<1>6. ASSUME NEW r \in Requests, NEW arg \in ArgsOf(tool), Becomes(c, r),
             Grants(req[c].scope, tool), ~Refuses(tool, arg),
             r.tool = tool, r.arg = arg, r.scope = req[c].scope,
             r.who = req[c].who, r.entitled = req[c].entitled,
             r.done = req[c].done, r.found = req[c].found,
             r.intent = IF tool = "read" THEN "" ELSE req[c].who,
             tool \in GwsTools => r.pc = "gws",
             tool = "move" => r.pc = "walk" /\ r.held = At(arg, folderOf),
             tool \notin GwsTools \cup {"move"} => r.pc = "graph"
      PROVE  CallsInv'
  <2>1. /\ r.pc \in {"gws", "walk", "graph"}
        /\ r.pc = "gws" <=> tool \in GwsTools
        /\ r.pc = "walk" <=> tool = "move"
    BY <1>6 DEF GwsTools
  <2>2. Owed(r)
    BY <1>2, <1>6, <2>1 DEF Owed, Working, Synchronous, Refuses
  <2>3. Rowed(r)
    BY <2>1 DEF Rowed
  <2>4. Filed(r)
    BY <1>2, <1>6, <2>1 DEF Filed
  <2>5. Kept(r)
    <3>1. tool = "update" => arg \in owned
      BY <1>6 DEF Refuses
    <3> QED
      BY <1>1, <1>2, <1>6, <2>1, <3>1 DEF Kept
  <2>6. Good(r)'
    BY <1>1, <2>2, <2>3, <2>4, <2>5, GoodStays DEF Good
  <2> QED
    BY <1>1, <1>3, <1>6, <2>1, <2>6, RequestStep DEF Synchronous
<1> QED
  BY <1>1, <1>4, <1>5, <1>6, CallMoves

LEMMA WalkStep ==
    ASSUME CallsInv, NEW c \in Reqs, Walk(c)
    PROVE  CallsInv'
<1>1. /\ ToolsTypeOK /\ made \subseteq New /\ req[c].pc = "walk" /\ Good(req[c])
      /\ UNCHANGED <<vars, folderOf, tidies, owned, grant, made, reported, granted, crossed>>
  BY DEF CallsInv, ToolsTypeOK, Walk
<1>2. /\ req[c].tool = "move" /\ ~req[c].done /\ req[c].arg = "sorted" /\ Owed(req[c])
      /\ At(req[c].arg, folderOf) \subseteq req[c].held
      /\ \A x \in req[c].found : x.id \in Leaves /\ x.parent = req[c].arg => x.id \in req[c].held
  BY <1>1 DEF Good, Owed, Filed, Working
<1>3. UNCHANGED crashes
  BY <1>1 DEF vars
<1>4. CASE Answers(c, "error")
  BY <1>1, <1>3, <1>4, AnswerStep
<1>5. ASSUME NEW r \in Requests, NEW at \in Folders \cup {Root}, Becomes(c, r), SameCall(req[c], r),
             r.arg = req[c].arg, r.done = req[c].done,
             \/ /\ r.pc = "walk"
                /\ \A x \in r.found :
                     x \in req[c].found \/ (x.parent = at /\ folderOf[x.id] = at)
             \/ /\ r.pc = "graph"
                /\ r.dest \in Leaves
                /\ \/ [id |-> r.dest, parent |-> r.arg] \in req[c].found
                   \/ folderOf[r.dest] = r.arg
      PROVE  CallsInv'
  <2>1. Owed(r)
    BY <1>1, <1>2, <1>5 DEF Owed, SameCall, Working, Synchronous, GwsTools
  <2>2. Rowed(r) /\ Kept(r)
    BY <1>2, <1>5 DEF Rowed, Kept, SameCall, Synchronous
  <2>3. Filed(r)
    <3>1. CASE r.pc = "walk"
      <4>1. r.held = req[c].held
        BY <1>5 DEF SameCall
      <4>2. ASSUME NEW x \in r.found, x.id \in Leaves, x.parent = r.arg
            PROVE  x.id \in r.held
        <5>1. CASE x \in req[c].found
          BY <1>2, <1>5, <4>1, <4>2, <5>1
        <5>2. CASE x \notin req[c].found
          <6>1. folderOf[x.id] = r.arg
            BY <1>5, <3>1, <4>2, <5>2
          <6>2. x.id \in At(r.arg, folderOf)
            BY <4>2, <6>1 DEF At
          <6> QED
            BY <1>2, <1>5, <4>1, <6>2
        <5> QED
          BY <5>1, <5>2
      <4> QED
        BY <1>2, <1>5, <3>1, <4>1, <4>2 DEF Filed
    <3>2. CASE r.pc = "graph"
      <4>1. r.dest \in Leaves /\ r.held = req[c].held
        BY <1>5, <3>2 DEF SameCall
      <4>2. CASE [id |-> r.dest, parent |-> r.arg] \in req[c].found
        <5>1. PICK x \in req[c].found : x = [id |-> r.dest, parent |-> r.arg]
          BY <4>2
        <5>2. x.id = r.dest /\ x.parent = r.arg
          BY <5>1
        <5> QED
          BY <1>2, <1>5, <3>2, <4>1, <5>2 DEF Filed
      <4>3. CASE folderOf[r.dest] = r.arg
        BY <1>2, <1>5, <3>2, <4>1, <4>3 DEF Filed, At
      <4> QED
        BY <1>5, <3>2, <4>2, <4>3
    <3> QED
      BY <1>5, <3>1, <3>2
  <2>4. Good(r)'
    BY <1>1, <2>1, <2>2, <2>3, GoodStays DEF Good
  <2> QED
    BY <1>1, <1>3, <1>5, <2>4, RequestStep DEF Synchronous
<1> QED
  BY <1>1, <1>4, <1>5, WalkMoves

LEMMA ActsStep ==
    ASSUME CallsInv, NEW c \in Reqs, GraphActs(c) \/ GoogleActs(c)
    PROVE  CallsInv'
<1>1. /\ ToolsTypeOK /\ made \subseteq New /\ Good(req[c])
      /\ UNCHANGED <<vars, folderOf, tidies, owned, grant, reported, granted, crossed>>
      /\ req[c].pc \in {"graph", "gws"}
  BY DEF CallsInv, ToolsTypeOK, GraphActs, GoogleActs
<1>2. PICK r \in Requests :
        /\ Becomes(c, r) /\ SameCall(req[c], r) /\ r.pc = req[c].pc /\ r.done
        /\ \/ r.pc = "graph" /\ r.tool # "read" /\ r.dest = req[c].dest
              /\ r.arg = req[c].arg /\ made' = made
           \/ r.pc = "gws" /\ r.tool # "create" /\ r.arg = req[c].arg /\ made' = made
           \/ /\ r.pc = "gws" /\ r.tool = "create"
              /\ r.arg \in New /\ made' = made \cup {r.arg}
  BY <1>1, ActsMoves
<1>3. made \subseteq made' /\ made' \subseteq New
  BY <1>1, <1>2
<1>4. Owed(r)
  BY <1>1, <1>2 DEF Good, Owed, SameCall, Working, Synchronous, GwsTools
<1>5. Rowed(r) /\ Filed(r)
  BY <1>1, <1>2 DEF Good, Rowed, Filed, SameCall
<1>6. Kept(r)'
  BY <1>1, <1>2 DEF Good, Kept, SameCall, Working, Synchronous
<1>7. Good(r)'
  <2>1. Owed(r)' /\ Rowed(r)'
    BY <1>4, <1>5 DEF Owed, Rowed, OnlyTasksThrow
  <2>2. Filed(r)'
    BY <1>1, <1>5 DEF Filed, At
  <2> QED
    BY <1>6, <2>1, <2>2 DEF Good
<1>8. UNCHANGED crashes
  BY <1>1 DEF vars
<1> QED
  BY <1>1, <1>2, <1>3, <1>7, <1>8, RequestStep DEF Synchronous

LEMMA GraphStep ==
    ASSUME CallsInv, NEW c \in Reqs, GraphAnswers(c) \/ GraphThrows(c)
    PROVE  CallsInv'
<1>1. /\ ToolsTypeOK /\ Good(req[c]) /\ req[c].pc \in {"walk", "graph"}
      /\ UNCHANGED <<vars, folderOf, tidies, owned, grant, made, reported, granted, crossed>>
  BY DEF CallsInv, GraphAnswers, GraphThrows
<1>2. UNCHANGED crashes
  BY <1>1 DEF vars
<1>3. req[c].tool = "read" => req[c].intent = ""
  BY <1>1 DEF Good, Owed, Working
<1>4. CASE GraphAnswers(c)
  <2>1. CASE req[c].tool = "read"
    BY <1>1, <1>2, <1>3, <1>4, <2>1, AnswerStep DEF GraphAnswers
  <2>2. CASE req[c].tool # "read"
    <3>1. PICK row \in Returns(c) : Answers(c, row)
      BY <1>4, <2>2 DEF GraphAnswers
    <3>2. row \in {"success", "error"} /\ (row = "success" => req[c].done)
      BY <3>1 DEF Returns
    <3> QED
      BY <1>1, <1>2, <3>1, <3>2, AnswerStep
  <2> QED
    BY <2>1, <2>2
<1>5. CASE GraphThrows(c)
  <2>1. PICK row \in {"", "error"} :
          /\ row = RowAfterThrow(req[c].tool) /\ Answers(c, row)
          /\ req[c].tool \in Throwing
    BY <1>5 DEF GraphThrows, RowAfterThrow
  <2>2. OnlyTasksThrow /\ req[c].intent # "" => row # ""
    BY <1>3, <2>1 DEF OnlyTasksThrow, RowAfterThrow
  <2> QED
    BY <1>1, <1>2, <2>1, <2>2, AnswerStep
<1> QED
  BY <1>1, <1>4, <1>5

LEMMA GwsStep ==
    ASSUME CallsInv, NEW c \in Reqs, GwsReturns(c)
    PROVE  CallsInv'
<1>1. /\ ToolsTypeOK /\ made \subseteq New /\ FilesInv /\ Good(req[c]) /\ Kept(req[c])
      /\ req[c].pc = "gws" /\ req[c] \in Requests
      /\ UNCHANGED <<vars, folderOf, tidies, owned, grant, made, reported>> /\ granted' = granted
  BY DEF CallsInv, ToolsTypeOK, Good, GwsReturns
<1>2. UNCHANGED crashes
  BY <1>1 DEF vars
<1>3. CASE (Answers(c, "error") \/ (Answers(c, "success") /\ req[c].done)) /\ crossed' = crossed
  BY <1>1, <1>2, <1>3, AnswerStep
<1>4. ASSUME NEW r \in Requests, Becomes(c, r), SameCall(req[c], r), req[c].done,
             r.pc = "save", r.done, r.arg = req[c].arg,
             r.tool = "create", r.list = owned \cup {r.arg},
             crossed' = (crossed \/ grant.pc # "idle")
      PROVE  CallsInv'
  <2>1. r.arg \in made /\ owned \subseteq made \cup granted
    BY <1>1, <1>4 DEF Kept, SameCall, Synchronous, FilesInv, TakeTurns, Registered
  <2>2. Owed(r)
    BY <1>1, <1>4 DEF Good, Owed, SameCall, Working, Synchronous, GwsTools
  <2>3. Rowed(r) /\ Filed(r)
    BY <1>4 DEF Rowed, Filed
  <2>4. Kept(r)
    BY <1>4, <2>1 DEF Kept
  <2>5. Good(r)'
    BY <1>1, <2>2, <2>3, <2>4, GoodStays DEF Good
  <2>6. \A d \in Reqs : Good(req[d])'
    BY <1>1, <1>4, <2>5, OneIsGood
  <2>7. req'[c] = r /\ \A d \in Reqs \ {c} : req'[d] = req[d]
    BY <1>4 DEF Becomes
  <2>8. /\ \A d \in Reqs \ {c} : req[d].pc \notin Synchronous
        /\ Saving = {} /\ Saving' = {c}
    BY <1>1, <1>4, <2>7 DEF FilesInv, TakeTurns, Registered, Saving, Synchronous
  <2>9. FilesInv'
    <3>1. \A d, e \in Reqs : req'[d].pc \in Synchronous /\ req'[e].pc \in Synchronous => d = e
      BY <2>7, <2>8
    <3>2. ~crossed' /\ crashes = 0 => reported \cup granted \subseteq owned
      BY <1>1, <1>4, <2>8 DEF FilesInv, TakeTurns, Registered, Saving
    <3>3. req'[c].list = owned \cup {r.arg} /\ \A d \in Saving' : d = c
      BY <1>4, <2>7, <2>8
    <3>4. /\ ~crossed' => grant.pc = "idle"
          /\ \A d \in Reqs : req'[d].pc # "write"
      BY <1>4, <2>7, <2>8 DEF Synchronous
    <3> QED
      BY <1>1, <1>2, <3>1, <3>2, <3>3, <3>4 DEF FilesInv, TakeTurns, Registered
  <2>10. ToolsTypeOK'
    BY <1>1, <1>4 DEF ToolsTypeOK, Becomes
  <2> QED
    BY <2>6, <2>9, <2>10 DEF CallsInv
<1> QED
  BY <1>1, <1>3, <1>4, SavesMoves

\* The registry of files is emptied and written.
LEMMA SaveStep ==
    ASSUME CallsInv, NEW c \in Reqs, Save(c)
    PROVE  CallsInv'
<1>1. /\ ToolsTypeOK /\ FilesInv /\ Good(req[c]) /\ req[c] \in Requests
      /\ req[c].pc = "save" /\ owned' = {}
      /\ UNCHANGED <<vars, folderOf, tidies, grant, made, reported, granted, crossed>>
  BY DEF CallsInv, ToolsTypeOK, Save
<1>2. PICK r : r = [req[c] EXCEPT !.pc = "write"]
  OBVIOUS
<1>3. /\ r \in Requests /\ SameCall(req[c], r) /\ r.pc = "write" /\ r.list = req[c].list
      /\ r.arg = req[c].arg /\ r.done = req[c].done
  BY <1>1, <1>2 DEF Requests, SameCall, Steps
<1>4. Becomes(c, r)
  <2>1. req' = [req EXCEPT ![c] = r]
    BY <1>2 DEF Save
  <2> QED
    BY <1>1, <1>3, <2>1, BecomesIs
<1>5. Good(r)'
  <2>1. Owed(r)
    BY <1>1, <1>3 DEF Good, Owed, SameCall, Working, Synchronous, GwsTools
  <2>2. Rowed(r) /\ Filed(r)
    BY <1>3 DEF Rowed, Filed
  <2>3. Kept(r)
    BY <1>1, <1>3 DEF Good, Kept, SameCall, Working, Synchronous
  <2> QED
    BY <1>1, <2>1, <2>2, <2>3, GoodStays DEF Good
<1>6. \A d \in Reqs : Good(req[d])'
  BY <1>1, <1>3, <1>4, <1>5, OneIsGood
<1>7. req'[c] = r /\ \A d \in Reqs \ {c} : req'[d] = req[d]
  BY <1>4 DEF Becomes
<1>8. UNCHANGED crashes
  BY <1>1 DEF vars
<1>9. FilesInv'
  <2>1. \A d, e \in Reqs : req'[d].pc \in Synchronous /\ req'[e].pc \in Synchronous => d = e
    BY <1>1, <1>3, <1>7 DEF FilesInv, TakeTurns, Registered, Synchronous
  <2>2. Saving' = Saving /\ \A d \in Saving : req'[d].list = req[d].list
    BY <1>1, <1>3, <1>7 DEF Saving
  <2>3. req'[c].pc = "write"
    BY <1>3, <1>7
  <2> QED
    BY <1>1, <1>8, <2>1, <2>2, <2>3 DEF FilesInv, TakeTurns, Registered
<1>10. ToolsTypeOK'
  BY <1>1, <1>4 DEF ToolsTypeOK, Becomes
<1> QED
  BY <1>6, <1>9, <1>10 DEF CallsInv

LEMMA SaveEndsStep ==
    ASSUME CallsInv, NEW c \in Reqs, SaveEnds(c)
    PROVE  CallsInv'
<1>1. /\ ToolsTypeOK /\ FilesInv /\ Good(req[c]) /\ req[c] \in Requests
      /\ req[c].pc = "write" /\ reported' = reported \cup {req[c].arg}
      /\ owned' = req[c].list \/ (owned # {} /\ owned' = {})
      /\ Answers(c, "success")
      /\ UNCHANGED <<vars, folderOf, tidies, grant, made, granted, crossed>>
  BY DEF CallsInv, ToolsTypeOK, SaveEnds, PutsOwned
<1>2. /\ req[c].done /\ req[c].arg \in made /\ req[c].arg \in req[c].list
      /\ req[c].list \subseteq made \cup granted
  BY <1>1 DEF Good, Kept, Synchronous
<1>3. PICK r \in Requests :
        /\ Becomes(c, r) /\ r.pc = "answered" /\ r.entitled
        /\ r.intent = req[c].intent /\ r.row = "success" /\ r.done = req[c].done
  BY <1>1, AnswersMoves
<1>4. Good(r)'
  BY <1>2, <1>3 DEF Good, Owed, Rowed, Filed, Kept, Working, Synchronous, OnlyTasksThrow
<1>5. \A d \in Reqs : Good(req[d])'
  BY <1>1, <1>3, <1>4, OneIsGood
<1>6. req'[c] = r /\ \A d \in Reqs \ {c} : req'[d] = req[d]
  BY <1>3 DEF Becomes
<1>7. UNCHANGED crashes
  BY <1>1 DEF vars
<1>8. \A d \in Reqs : req'[d].pc \notin Synchronous
  BY <1>1, <1>3, <1>6 DEF FilesInv, TakeTurns, Registered, Synchronous
<1>9. Saving' = {} /\ c \in Saving
  BY <1>1, <1>8 DEF Saving, Synchronous
<1>10. FilesInv'
  <2>1. ~crossed => grant.pc = "idle" /\ owned' = req[c].list
    BY <1>1, <1>9 DEF FilesInv, TakeTurns, Registered
  <2>2. ~crossed /\ crashes = 0 => reported' \cup granted' \subseteq owned'
    <3>1. ~crossed /\ crashes = 0 => reported \cup granted \subseteq req[c].list
      BY <1>1, <1>9 DEF FilesInv, TakeTurns, Registered
    <3> QED
      BY <1>1, <1>2, <2>1, <3>1
  <2> QED
    BY <1>1, <1>2, <1>7, <1>8, <1>9, <2>1, <2>2
       DEF FilesInv, TakeTurns, Registered, Synchronous
<1>11. ToolsTypeOK'
  BY <1>1, <1>2, <1>3 DEF ToolsTypeOK, Becomes, Requests
<1> QED
  BY <1>5, <1>10, <1>11 DEF CallsInv

\* The owner moves a folder: a move under way may find it at either place.
LEMMA TidiesStep ==
    ASSUME CallsInv, NEW f \in Leaves, NEW to \in Top \cup {Root}, OwnerTidies(f, to)
    PROVE  CallsInv'
<1>1. /\ ToolsTypeOK /\ FilesInv /\ req \in [Reqs -> Requests]
      /\ folderOf \in [Folders -> Top \cup {Root}] /\ tidies \in 0 .. MaxTidies
      /\ tidies < MaxTidies /\ tidies' = tidies + 1 /\ MaxTidies \in Nat
      /\ folderOf' = [folderOf EXCEPT ![f] = to]
      /\ UNCHANGED <<vars, owned, grant, made, reported, granted, crossed>>
  BY ToolsAssumption DEF CallsInv, ToolsTypeOK, OwnerTidies
<1>2. tidies' \in 0 .. MaxTidies
  BY <1>1
<1>3. folderOf' \in [Folders -> Top \cup {Root}]
  BY <1>1 DEF Folders
<1>4. PICK tree : tree = folderOf'
  OBVIOUS
<1>5. req' = [c \in Reqs |-> IF req[c].pc = "walk"
                               THEN [req[c] EXCEPT !.held = @ \cup At(req[c].arg, tree)]
                               ELSE req[c]]
  BY <1>4 DEF OwnerTidies, At
<1>6. ASSUME NEW c \in Reqs
      PROVE  /\ req'[c] \in Requests /\ Good(req[c])'
             /\ req'[c].pc = req[c].pc /\ req'[c].list = req[c].list
  <2>1. req[c] \in Requests /\ Good(req[c])
    BY <1>1 DEF CallsInv
  <2>2. PICK r : r = req'[c]
    OBVIOUS
  <2>3. CASE req[c].pc = "walk"
    <3>1. PICK held : held = req[c].held \cup At(req[c].arg, tree)
      OBVIOUS
    <3>2. held \subseteq Leaves
      BY <2>1, <3>1 DEF At, Requests
    <3>3. r = [req[c] EXCEPT !.held = held]
      BY <1>5, <2>2, <2>3, <3>1
    <3>4. /\ r \in Requests /\ r.held = held /\ r.pc = "walk" /\ r.list = req[c].list
          /\ r.entitled = req[c].entitled /\ r.done = req[c].done
          /\ r.intent = req[c].intent /\ r.found = req[c].found /\ r.scope = req[c].scope
          /\ r.tool = req[c].tool /\ r.who = req[c].who /\ r.arg = req[c].arg
      BY <2>1, <2>3, <3>2, <3>3 DEF Requests
    <3>5. Owed(r)
      BY <2>1, <2>3, <3>4 DEF Good, Owed, Working
    <3>6. Rowed(r) /\ Kept(r)
      BY <2>1, <2>3, <3>4 DEF Good, Owed, Rowed, Kept, Synchronous
    <3>7. /\ At(r.arg, tree) \subseteq r.held
          /\ \A x \in r.found : x.id \in Leaves /\ x.parent = r.arg => x.id \in r.held
      BY <2>1, <2>3, <3>1, <3>4 DEF Good, Filed
    <3>8. Owed(r)' /\ Rowed(r)' /\ Kept(r)'
      BY <1>1, <3>5, <3>6 DEF Owed, Rowed, Kept, OnlyTasksThrow
    <3>9. Filed(r)'
      BY <1>4, <3>4, <3>7 DEF Filed, At
    <3>10. Good(req[c])'
      BY <2>2, <3>8, <3>9 DEF Good, Owed, Rowed, Kept, Filed
    <3> QED
      BY <2>2, <2>3, <3>4, <3>10
  <2>4. CASE req[c].pc # "walk"
    <3>1. r = req[c]
      BY <1>5, <2>2, <2>4
    <3>2. Owed(r)' /\ Rowed(r)' /\ Kept(r)'
      BY <1>1, <2>1, <3>1 DEF Good, Owed, Rowed, Kept, OnlyTasksThrow
    <3>3. Filed(r)'
      BY <2>1, <2>4, <3>1 DEF Good, Filed
    <3>4. Good(req[c])'
      BY <2>2, <3>2, <3>3 DEF Good, Owed, Rowed, Kept, Filed
    <3> QED
      BY <2>1, <2>2, <3>1, <3>4
  <2> QED
    BY <2>3, <2>4
<1>7. req' \in [Reqs -> Requests]
  BY <1>5, <1>6
<1>8. ToolsTypeOK'
  BY <1>1, <1>2, <1>3, <1>7 DEF ToolsTypeOK
<1>9. FilesInv'
  <2>1. Saving' = Saving
    BY <1>6 DEF Saving
  <2>2. UNCHANGED crashes
    BY <1>1 DEF vars
  <2> QED
    BY <1>1, <1>6, <2>1, <2>2 DEF FilesInv, TakeTurns, Registered, Saving
<1> QED
  BY <1>6, <1>8, <1>9 DEF CallsInv

\* gws:grant, which adds a file of the owner's.
LEMMA GrantStep ==
    ASSUME CallsInv, NEW f \in Old, Grant(f)
    PROVE  CallsInv'
<1>1. /\ ToolsTypeOK /\ FilesInv /\ owned \subseteq Files /\ f \in Files
      /\ grant.pc = "idle"
      /\ crossed' = (crossed \/ \E c \in Reqs : req[c].pc \in {"save", "write"})
      /\ UNCHANGED <<vars, req, folderOf, tidies, owned, made, reported, granted>>
  BY DEF CallsInv, ToolsTypeOK, Grant, Files
<1>2. PICK list : list = owned \cup {f}
  OBVIOUS
<1>3. grant' = [pc |-> "save", file |-> f, list |-> list]
  BY <1>2 DEF Grant
<1>4. grant'.pc = "save" /\ grant'.file = f /\ grant'.list = list /\ list \subseteq Files
  BY <1>1, <1>2, <1>3
<1>5. ToolsTypeOK'
  BY <1>1, <1>3, <1>4 DEF ToolsTypeOK
<1>6. \A c \in Reqs : Good(req[c])'
  BY <1>1 DEF CallsInv, Good, Owed, Rowed, Filed, Kept, OnlyTasksThrow, At
<1>7. UNCHANGED crashes
  BY <1>1 DEF vars
<1>8. FilesInv'
  <2>1. Saving' = Saving /\ (~crossed' => ~crossed /\ Saving = {})
    BY <1>1 DEF Saving
  <2>2. ~crossed' /\ crashes = 0 => reported \cup granted \subseteq owned
    BY <1>1, <2>1 DEF FilesInv, TakeTurns, Registered, Saving
  <2> QED
    BY <1>1, <1>2, <1>4, <1>7, <2>1, <2>2 DEF FilesInv, TakeTurns, Registered
<1> QED
  BY <1>5, <1>6, <1>8 DEF CallsInv

LEMMA GrantSavesStep ==
    ASSUME CallsInv, GrantSaves
    PROVE  CallsInv'
<1>1. /\ ToolsTypeOK /\ FilesInv /\ owned \subseteq Files
      /\ grant \in [pc : {"idle", "save", "write"}, file : Old \cup {NoFile}, list : SUBSET Files]
      /\ UNCHANGED <<vars, req, folderOf, tidies, made, reported, crossed>>
  BY DEF CallsInv, ToolsTypeOK, GrantSaves
<1>2. UNCHANGED crashes /\ Saving' = Saving
  BY <1>1 DEF vars, Saving
<1>3. \A c \in Reqs : Good(req[c]) /\ req[c]' = req[c]
  BY <1>1 DEF CallsInv
<1>4. CASE grant.pc = "save"
  <2>1. owned' = {} /\ grant' = [grant EXCEPT !.pc = "write"] /\ granted' = granted
    BY <1>4 DEF GrantSaves
  <2>2. grant'.pc = "write" /\ grant'.file = grant.file /\ grant'.list = grant.list
    BY <1>1, <2>1
  <2>3. ToolsTypeOK'
    BY <1>1, <2>1 DEF ToolsTypeOK
  <2>4. \A c \in Reqs : Good(req[c])'
    BY <1>1, <1>3, <2>1 DEF Good, Owed, Rowed, Filed, Kept, OnlyTasksThrow, At
  <2>5. FilesInv'
    BY <1>1, <1>2, <1>4, <2>1, <2>2 DEF FilesInv, TakeTurns, Registered
  <2> QED
    BY <2>3, <2>4, <2>5 DEF CallsInv
<1>5. CASE grant.pc = "write"
  <2>1. /\ owned' = grant.list \/ (owned # {} /\ owned' = {})
        /\ granted' = granted \cup {grant.file} /\ grant' = IdleGrant
    BY <1>5 DEF GrantSaves, PutsOwned
  <2>2. /\ grant.file \in Old /\ grant.file \in grant.list
        /\ grant.list \subseteq made \cup granted \cup {grant.file}
    BY <1>1, <1>5 DEF FilesInv, TakeTurns, Registered
  <2>3. /\ IdleGrant.pc = "idle"
        /\ IdleGrant \in [pc : {"idle", "save", "write"}, file : Old \cup {NoFile},
                          list : SUBSET Files]
    BY DEF IdleGrant
  <2>4. ToolsTypeOK'
    BY <1>1, <2>1, <2>2, <2>3 DEF ToolsTypeOK
  <2>5. \A c \in Reqs : Good(req[c])'
    <3>1. \A c \in Reqs : Owed(req[c])' /\ Rowed(req[c])' /\ Filed(req[c])'
      BY <1>1, <1>3 DEF Good, Owed, Rowed, Filed, OnlyTasksThrow, At
    <3>2. \A c \in Reqs : Kept(req[c])'
      BY <1>1, <1>3, <2>1 DEF Good, Kept
    <3> QED
      BY <3>1, <3>2 DEF Good
  <2>6. FilesInv'
    <3>1. ~crossed => Saving = {} /\ owned' = grant.list
      BY <1>1, <1>5, <2>1 DEF FilesInv, TakeTurns, Registered
    <3>2. ~crossed /\ crashes = 0 => reported \cup granted' \subseteq owned'
      BY <1>1, <1>5, <2>1, <2>2, <3>1 DEF FilesInv, TakeTurns, Registered
    <3>3. ~crossed => \A c \in Reqs : req[c].pc # "write"
      BY <3>1 DEF Saving
    <3>4. TakeTurns'
      BY <1>1, <2>1, <2>3, <3>3 DEF TakeTurns
    <3>5. Registered'
      BY <1>1, <1>2, <2>1, <2>3, <3>1, <3>2 DEF Registered
    <3>6. owned' \subseteq made' \cup granted' /\ grant'.pc = "idle"
      BY <1>1, <2>1, <2>2, <2>3
    <3>7. \A c, d \in Reqs :
            req'[c].pc \in Synchronous /\ req'[d].pc \in Synchronous => c = d
      BY <1>1 DEF FilesInv
    <3> QED
      BY <3>4, <3>5, <3>6, <3>7 DEF FilesInv
  <2> QED
    BY <2>4, <2>5, <2>6 DEF CallsInv
<1> QED
  BY <1>4, <1>5 DEF GrantSaves

\* A crash of the server: its calls are gone, and what they did stays.
LEMMA ServerDiesStep ==
    ASSUME ToolsInv, ServerDies
    PROVE  ToolsInv'
<1>1. /\ RegistryInv /\ CallsInv /\ ToolsTypeOK /\ FilesInv
      /\ crashes \in Nat /\ crashes' = crashes + 1
      /\ UNCHANGED <<folderOf, tidies, owned, grant, made, reported, granted, crossed>>
      /\ req' = [c \in Reqs |-> Fresh]
  BY RegistryAssumption DEF ToolsInv, CallsInv, RegistryInv, TypeOK, ServerDies
<1>2. RegistryInv'
  <2>1. ServerStops
    BY DEF ServerDies, ServerStops
  <2> QED
    BY <1>1, <2>1, RegistryStep
<1>3. crashes' # 0
  BY <1>1
<1>4. \A c \in Reqs : req'[c] = Fresh /\ req'[c].pc = "answered"
  BY <1>1, FreshIs
<1>5. Saving' = {} /\ \A c \in Reqs : req'[c].pc \notin Synchronous
  BY <1>4 DEF Saving, Synchronous
<1>6. \A c \in Reqs : Good(req[c])'
  BY <1>4, FreshIs DEF Good, Owed, Rowed, Filed, Kept, Working, Synchronous
<1>7. ToolsTypeOK'
  BY <1>1, FreshIs DEF ToolsTypeOK
<1>8. FilesInv'
  <2>1. TakeTurns'
    BY <1>1, <1>4, <1>5 DEF FilesInv, TakeTurns
  <2>2. Registered'
    BY <1>3 DEF Registered
  <2> QED
    BY <1>1, <1>5, <2>1, <2>2 DEF FilesInv
<1> QED
  BY <1>2, <1>6, <1>7, <1>8 DEF ToolsInv, CallsInv

\* The other writers of the registry of agents do nothing to the calls.
LEMMA OthersStep ==
    ASSUME ToolsInv, UNCHANGED toolVars, Next \/ UNCHANGED vars
    PROVE  ToolsInv'
<1>1. /\ RegistryInv /\ ToolsTypeOK /\ FilesInv /\ crashes \in Nat
      /\ UNCHANGED <<req, folderOf, tidies, owned, grant, made, reported, granted, crossed>>
  BY RegistryAssumption DEF ToolsInv, CallsInv, RegistryInv, TypeOK, toolVars
<1>2. RegistryInv'
  BY <1>1, RegistryStep
<1>3. crashes' = crashes \/ crashes' # 0
  <2>1. crashes' = crashes \/ crashes' = crashes + 1
    BY DEF Next, vars, Pair, Revoke, Attest, Seen, Login, Callback, Expire, Denied, Mint,
           Truncate, Write, Dies
  <2> QED
    BY <1>1, <2>1
<1>4. ToolsTypeOK' /\ \A c \in Reqs : Good(req[c])'
  BY <1>1 DEF ToolsInv, CallsInv, ToolsTypeOK, Good, Owed, Rowed, Filed, Kept,
              OnlyTasksThrow, At
<1>5. FilesInv'
  BY <1>1, <1>3 DEF FilesInv, TakeTurns, Registered, Saving
<1> QED
  BY <1>2, <1>4, <1>5 DEF ToolsInv, CallsInv

LEMMA InitTools == ToolsInit => ToolsInv
<1> SUFFICES ASSUME ToolsInit
             PROVE  ToolsInv
  OBVIOUS
<1>1. RegistryInv
  BY InitRegistry DEF ToolsInit
<1>2. \A c \in Reqs : req[c] = Fresh /\ req[c].pc = "answered"
  BY FreshIs DEF ToolsInit
<1>3. \A c \in Reqs : Good(req[c])
  BY <1>2, FreshIs DEF Good, Owed, Rowed, Filed, Kept, Working, Synchronous
<1>4. IdleGrant.pc = "idle"
  BY DEF IdleGrant
<1>5. ToolsTypeOK
  <2>1. folderOf \in [Folders -> Top \cup {Root}]
    BY DEF ToolsInit, Top, Folders, Root
  <2>2. grant \in [pc : {"idle", "save", "write"}, file : Old \cup {NoFile}, list : SUBSET Files]
    BY DEF ToolsInit, IdleGrant
  <2>3. req \in [Reqs -> Requests]
    BY FreshIs DEF ToolsInit
  <2>4. tidies \in 0 .. MaxTidies
    BY ToolsAssumption DEF ToolsInit
  <2> QED
    BY <2>1, <2>2, <2>3, <2>4 DEF ToolsInit, ToolsTypeOK
<1>6. FilesInv
  BY <1>2, <1>4 DEF ToolsInit, FilesInv, TakeTurns, Registered, Saving, Synchronous
<1> QED
  BY <1>1, <1>3, <1>5, <1>6 DEF ToolsInv, CallsInv

LEMMA ToolsStep == ToolsInv /\ [ToolsNext]_allVars => ToolsInv'
<1> SUFFICES ASSUME ToolsInv, [ToolsNext]_allVars
             PROVE  ToolsInv'
  OBVIOUS
<1>1. CallsInv /\ RegistryInv
  BY DEF ToolsInv
<1>2. ASSUME UNCHANGED vars, CallsInv'
      PROVE  ToolsInv'
  BY <1>1, <1>2, RegistryStep DEF ToolsInv
<1>3. CASE RegistrySteps
  <2>1. Next /\ UNCHANGED toolVars
    BY <1>3 DEF RegistrySteps, Next, Ids
  <2> QED
    BY <2>1, OthersStep
<1>4. CASE UNCHANGED allVars
  <2>1. UNCHANGED vars /\ UNCHANGED toolVars
    BY <1>4 DEF allVars
  <2> QED
    BY <2>1, OthersStep
<1>5. ASSUME NEW c \in Reqs,
             \/ \E t \in 1 .. MaxTokens : Arrive(c, t)
             \/ \E tool \in Tools : Call(c, tool)
             \/ Walk(c) \/ GraphActs(c) \/ GraphAnswers(c) \/ GraphThrows(c)
             \/ GoogleActs(c) \/ GwsReturns(c) \/ Save(c) \/ SaveEnds(c)
      PROVE  ToolsInv'
  <2>1. ASSUME NEW t \in 1 .. MaxTokens, Arrive(c, t)
        PROVE  ToolsInv'
    BY <2>1, ArriveStep
  <2>2. ASSUME NEW tool \in Tools, Call(c, tool)
        PROVE  ToolsInv'
    <3>1. UNCHANGED vars
      BY <2>2 DEF Call
    <3> QED
      BY <1>1, <1>2, <2>2, <3>1, CallStep
  <2>3. CASE Walk(c)
    <3>1. UNCHANGED vars
      BY <2>3 DEF Walk
    <3> QED
      BY <1>1, <1>2, <2>3, <3>1, WalkStep
  <2>4. CASE GraphActs(c) \/ GoogleActs(c)
    <3>1. UNCHANGED vars
      BY <2>4 DEF GraphActs, GoogleActs
    <3> QED
      BY <1>1, <1>2, <2>4, <3>1, ActsStep
  <2>5. CASE GraphAnswers(c) \/ GraphThrows(c)
    <3>1. UNCHANGED vars
      BY <2>5 DEF GraphAnswers, GraphThrows
    <3> QED
      BY <1>1, <1>2, <2>5, <3>1, GraphStep
  <2>6. CASE GwsReturns(c)
    <3>1. UNCHANGED vars
      BY <2>6 DEF GwsReturns
    <3> QED
      BY <1>1, <1>2, <2>6, <3>1, GwsStep
  <2>7. CASE Save(c)
    <3>1. UNCHANGED vars
      BY <2>7 DEF Save
    <3> QED
      BY <1>1, <1>2, <2>7, <3>1, SaveStep
  <2>8. CASE SaveEnds(c)
    <3>1. UNCHANGED vars
      BY <2>8 DEF SaveEnds
    <3> QED
      BY <1>1, <1>2, <2>8, <3>1, SaveEndsStep
  <2> QED
    BY <1>5, <2>1, <2>2, <2>3, <2>4, <2>5, <2>6, <2>7, <2>8
<1>6. ASSUME NEW f \in Leaves, NEW to \in Top \cup {Root}, OwnerTidies(f, to)
      PROVE  ToolsInv'
  <2>1. UNCHANGED vars
    BY <1>6 DEF OwnerTidies
  <2> QED
    BY <1>1, <1>2, <1>6, <2>1, TidiesStep
<1>7. ASSUME NEW f \in Old, Grant(f)
      PROVE  ToolsInv'
  <2>1. UNCHANGED vars
    BY <1>7 DEF Grant
  <2> QED
    BY <1>1, <1>2, <1>7, <2>1, GrantStep
<1>8. CASE GrantSaves
  <2>1. UNCHANGED vars
    BY <1>8 DEF GrantSaves
  <2> QED
    BY <1>1, <1>2, <1>8, <2>1, GrantSavesStep
<1>9. CASE ServerDies
  BY <1>9, ServerDiesStep
<1> QED
  BY <1>3, <1>4, <1>5, <1>6, <1>7, <1>8, <1>9 DEF ToolsNext, ToolSteps

-----------------------------------------------------------------------------
(* What the calls and the registry promise *)

\* The inductive invariant holds of every behaviour, however the writers'
\* updates of the two registries overlap and whichever backends throw.
THEOREM ToolsInvariance == ToolsSpec => []ToolsInv
<1>1. ToolsInit => ToolsInv
  BY InitTools
<1>2. ToolsInv /\ [ToolsNext]_allVars => ToolsInv'
  BY ToolsStep
<1> QED
  BY <1>1, <1>2, PTL DEF ToolsSpec

\* Every variable of the registry and of the tools keeps its type
\* (src/mcp-tools/consumers.ts, src/mcp-tools/server.ts).
THEOREM ToolsTyping == ToolsSpec => [](TypeOK /\ ToolsTypeOK)
<1>1. ToolsInv => TypeOK /\ ToolsTypeOK
  BY DEF ToolsInv, RegistryInv, CallsInv
<1> QED
  BY <1>1, ToolsInvariance, PTL

\* However the server, the portal and the operator's commands overlap on
\* mcp-consumers.json and wherever they die, an agent's entry differs from
\* what the last completed command said of it only if another writer saved a
\* list it had loaded before, or the file was emptied and the agent is not in
\* it; and a sign-in is good for one token.
THEOREM RegistryHolds == ToolsSpec => []RegistryIsTrue
<1>1. ToolsInv => RegistryIsTrue
  BY RegistryTells DEF ToolsInv
<1> QED
  BY <1>1, ToolsInvariance, PTL

\* A sign-in at the portal is good for one token even while the updates of the
\* registry overlap: its nonce goes before Google is asked
\* (handleCallback, src/token-portal.ts).
THEOREM SignInsBuyOneToken == ToolsSpec => []OneTokenPerSignIn
<1>1. ToolsInv => OneTokenPerSignIn
  <2> SUFFICES ASSUME ToolsInv, NEW l \in Logins
               PROVE  mints[l] <= 1
    BY DEF OneTokenPerSignIn
  <2>1. calls[l] \in Nat /\ mints[l] \in Nat /\ calls[l] + mints[l] <= 1
    BY RegistryAssumption DEF ToolsInv, RegistryInv, TypeOK, SignedIn
  <2> QED
    BY <2>1
<1> QED
  BY <1>1, ToolsInvariance, PTL

\* Nothing is done at Graph or Google but for a caller that the registry held,
\* or that an overlapping writer brought back, within the scope it was given
\* and with a row that announced it.
THEOREM CallersAreEntitled == ToolsSpec => []EffectIsOwedToItsCaller
<1>1. ToolsInv => EffectIsOwedToItsCaller
  <2> SUFFICES ASSUME ToolsInv, NEW c \in Reqs, Acting(c)
               PROVE  req[c].entitled /\ req[c].scope = "full" /\ req[c].intent = req[c].who
    BY DEF EffectIsOwedToItsCaller
  <2>1. Owed(req[c]) /\ req[c] \in Requests /\ req[c].done /\ req[c].pc # "answered"
    BY DEF ToolsInv, CallsInv, ToolsTypeOK, Good, Acting
  <2>2. req[c].pc \in Working
    BY <2>1 DEF Owed, Requests, Steps, Working, Synchronous
  <2> QED
    BY <2>1, <2>2 DEF Owed, Grants
<1> QED
  BY <1>1, ToolsInvariance, PTL

\* An intent row of an answered call has an outcome row, and success is
\* reported of nothing that was not done, as long as no backend throws in a
\* handler that does not catch it.
THEOREM RowsAreHonest == OnlyTasksThrow => (ToolsSpec => []RowsTellTheOutcome)
<1> SUFFICES ASSUME OnlyTasksThrow
             PROVE  ToolsSpec => []RowsTellTheOutcome
  OBVIOUS
<1>1. ToolsInv => RowsTellTheOutcome
  BY DEF ToolsInv, CallsInv, Good, Rowed, RowsTellTheOutcome
<1> QED
  BY <1>1, ToolsInvariance, PTL

\* A mail is filed in no folder that was not at the path asked for while the
\* call ran, however the owner moves folders, and cells are overwritten in no
\* file but those a tool made or the owner granted: by any number of calls and
\* whether or not saves overlap.
THEOREM CallsStayInTheirBounds ==
    ToolsSpec => [](MovesWhereAsked /\ \A c \in Reqs : Acting(c) /\ req[c].tool = "update" =>
                                         req[c].arg \in made \cup granted)
<1>1. ToolsInv => MovesWhereAsked /\ \A c \in Reqs : Acting(c) /\ req[c].tool = "update" =>
                                       req[c].arg \in made \cup granted
  <2> SUFFICES ASSUME ToolsInv, NEW c \in Reqs, Acting(c)
               PROVE  /\ req[c].tool = "move" => /\ req[c].arg = "sorted"
                                                 /\ req[c].dest \in req[c].held
                      /\ req[c].tool = "update" => req[c].arg \in made \cup granted
    BY DEF MovesWhereAsked
  <2>1. Good(req[c]) /\ req[c] \in Requests /\ req[c].done /\ req[c].pc # "answered"
    BY DEF ToolsInv, CallsInv, ToolsTypeOK, Acting
  <2>2. req[c].pc \in Working /\ req[c].pc # "walk"
    BY <2>1 DEF Good, Owed, Requests, Steps, Working, Synchronous
  <2>3. req[c].tool = "move" => req[c].pc = "graph"
    BY <2>1, <2>2 DEF Good, Owed, Working, GwsTools
  <2> QED
    BY <2>1, <2>2, <2>3 DEF Good, Owed, Filed, Kept
<1> QED
  BY <1>1, ToolsInvariance, PTL

\* Until saves of gws-created-files.json overlap or a process dies, a file whose
\* creation or grant was reported can be overwritten too.
THEOREM CallsDoWhatIsAsked == ToolsSpec => []ChangesWhatIsAsked
<1>1. ToolsInv => (crashes = 0 /\ ~crossed /\ grant.pc # "write" /\ (\A c \in Reqs : req[c].pc # "write")
                     => reported \cup granted \subseteq owned)
  BY DEF ToolsInv, CallsInv, FilesInv, TakeTurns, Registered
<1>2. [](MovesWhereAsked /\ \A c \in Reqs : Acting(c) /\ req[c].tool = "update" =>
           req[c].arg \in made \cup granted)
      /\ []ToolsInv => []ChangesWhatIsAsked
  <2>1. (MovesWhereAsked /\ \A c \in Reqs : Acting(c) /\ req[c].tool = "update" =>
           req[c].arg \in made \cup granted) /\ ToolsInv => ChangesWhatIsAsked
    BY <1>1 DEF ChangesWhatIsAsked, OverwritesItsOwn
  <2> QED
    BY <2>1, PTL
<1> QED
  BY <1>2, ToolsInvariance, CallsStayInTheirBounds, PTL
=============================================================================
