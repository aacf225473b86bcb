------------------------------ MODULE Services_proofs ------------------------------
(***************************************************************************)
(* Proofs about what stands around the agent and the terminal, each part   *)
(* on its own: the login tokens, the sync key, the backends, the           *)
(* diagnostics, edits, the files and their snapshots, the memory file.     *)
(***************************************************************************)
EXTENDS LoginTokens, SyncKey, Backends, Documents, MemoryStore, FiniteSetTheorems,
        WellFoundedInduction, TLAPS

-----------------------------------------------------------------------------
(* LoginTokens, for every set of processes and orchestrators and every     *)
(* number of logins and refreshes.                                         *)

AtWork == {"refreshing", "saving", "refused", "logged in", "revoking", "deleting"}

\* A process that works with a token holds one, and every token around is of a login
\* that has happened.
Given(t) == t \in Tokens /\ t.family \in 1..families

TokensGiven ==
  /\ \A p \in Procs : phase[p] \in AtWork => Given(held[p])
  /\ tokenFile # NoToken => Given(tokenFile)

TypeInv == TokenTypeOK /\ TokensGiven

LEMMA FamiliesAreFamily ==
  ASSUME families \in 0..MaxLogins
  PROVE  1..families \subseteq Family
  BY TokenAssumption DEF Family

LEMMA FamiliesCount ==
  ASSUME TypeInv
  PROVE  families \in 0..MaxLogins /\ families \in Nat
<1>1. families \in 0..MaxLogins
  BY DEF TypeInv, TokenTypeOK
<1>2. QED
  BY <1>1, TokenAssumption

LEMMA SentStaysTyped ==
  ASSUME sentTo \subseteq Tokens \X Bases, NEW t \in Tokens, NEW b \in Bases,
         sentTo' = sentTo \cup {<<t, b>>}
  PROVE  sentTo' \subseteq Tokens \X Bases
  OBVIOUS

LEMMA NextTokenGiven ==
  ASSUME NEW t, Given(t)
  PROVE  /\ Given(NextToken(t)) /\ NextToken(t).base = t.base
         /\ NextToken(t).family = t.family /\ NextToken(t).n = t.n + 1
  BY DEF Given, Tokens, NextToken

LEMMA HolderHas ==
  ASSUME TypeInv, NEW p \in Procs, phase[p] \in AtWork
  PROVE  /\ held[p] \in Tokens /\ held[p].family \in 1..families /\ held[p].family \in Family
         /\ held[p].n \in Nat /\ held[p].base \in Bases /\ base[p] \in Bases
<1>1. Given(held[p])
  BY DEF TypeInv, TokensGiven
<1>2. held[p] \in Tokens /\ held[p].family \in 1..families
  BY <1>1 DEF Given
<1>3. base[p] \in Bases
  BY DEF TypeInv, TokenTypeOK
<1>4. QED
  BY <1>2, <1>3 DEF Tokens

LEMMA FileHas ==
  ASSUME TypeInv, tokenFile # NoToken
  PROVE  tokenFile \in Tokens /\ tokenFile.family \in 1..families
  BY DEF TypeInv, TokensGiven, Given

\* The steps that send nothing and start no login.
LEMMA QuietSteps ==
  ASSUME TypeInv, NEW p \in Procs,
         NeedsRefresh(p) \/ Offline(p) \/ Save(p) \/ SaveFails(p) \/ Forget(p)
           \/ Login(p) \/ Logout(p) \/ Delete(p)
  PROVE  TypeInv'
<1> USE DEF In, Go, Hold, Server, AtWork
<1>1. CASE NeedsRefresh(p)
  <2>1. Given(tokenFile)
    BY <1>1 DEF NeedsRefresh, Usable, TypeInv, TokensGiven
  <2>2. TokenTypeOK'
    BY <1>1, <2>1 DEF NeedsRefresh, Begins, TypeInv, TokenTypeOK, Given
  <2>3. TokensGiven'
    BY <1>1, <2>1 DEF NeedsRefresh, TypeInv, TokenTypeOK, TokensGiven, Given
  <2>4. QED
    BY <2>2, <2>3 DEF TypeInv
<1>2. CASE Logout(p)
  <2>1. Given(tokenFile)
    BY <1>2 DEF Logout, TypeInv, TokensGiven
  <2>2. TokenTypeOK'
    BY <1>2, <2>1 DEF Logout, Begins, TypeInv, TokenTypeOK, Given
  <2>3. TokensGiven'
    BY <1>2, <2>1 DEF Logout, TypeInv, TokenTypeOK, TokensGiven, Given
  <2>4. QED
    BY <2>2, <2>3 DEF TypeInv
<1>3. CASE Save(p) \/ SaveFails(p)
  <2>1. phase[p] \in AtWork /\ Given(held[p])
    BY <1>3 DEF Save, SaveFails, TypeInv, TokensGiven
  <2>2. TokenTypeOK'
    BY <1>3, <2>1 DEF Save, SaveFails, Because, TypeInv, TokenTypeOK, Given
  <2>3. TokensGiven'
    BY <1>3, <2>1 DEF Save, SaveFails, TypeInv, TokenTypeOK, TokensGiven, Given
  <2>4. QED
    BY <2>2, <2>3 DEF TypeInv
<1>4. CASE Offline(p) \/ Forget(p) \/ Delete(p) \/ Login(p)
  <2>1. TokenTypeOK'
    BY <1>4 DEF Offline, Forget, Delete, Login, Begins, TypeInv, TokenTypeOK
  <2>2. TokensGiven'
    BY <1>4 DEF Offline, Forget, Delete, Login, TypeInv, TokenTypeOK, TokensGiven, Given
  <2>3. QED
    BY <2>1, <2>2 DEF TypeInv
<1>5. QED
  BY <1>1, <1>2, <1>3, <1>4

LEMMA UseTokenType ==
  ASSUME TypeInv, NEW p \in Procs, UseToken(p)
  PROVE  TypeInv'
<1>1. tokenFile \in Tokens /\ base[p] \in Bases
  BY FileHas DEF UseToken, Usable, TypeInv, TokenTypeOK
<1>2. sentTo \subseteq Tokens \X Bases /\ sentTo' = sentTo \cup {<<tokenFile, base[p]>>}
  BY DEF UseToken, TypeInv, TokenTypeOK
<1>3. sentTo' \subseteq Tokens \X Bases
  BY <1>1, <1>2, SentStaysTyped
<1>4. QED
  BY <1>3 DEF UseToken, Server, TypeInv, TokenTypeOK, TokensGiven, Given

LEMMA RotatesType ==
  ASSUME TypeInv, NEW p \in Procs, Rotates(p)
  PROVE  TypeInv'
<1>1. phase[p] \in AtWork
  BY DEF Rotates, In, AtWork
<1>2. /\ held[p] \in Tokens /\ held[p].family \in Family /\ base[p] \in Bases
      /\ held[p].family \in 1..families /\ Given(held[p])
  BY <1>1, HolderHas DEF Given
<1>3. Given(NextToken(held[p]))
  BY <1>2, NextTokenGiven
<1>4. sentTo' \subseteq Tokens \X Bases
  <2>1. sentTo \subseteq Tokens \X Bases /\ sentTo' = sentTo \cup {<<held[p], base[p]>>}
    BY DEF Rotates, Send, TypeInv, TokenTypeOK
  <2>2. QED
    BY <2>1, <1>2, SentStaysTyped
<1>5. newest' \in [Family -> Nat]
  <2> DEFINE f == held[p].family
  <2>1. newest \in [Family -> Nat] /\ f \in Family
    BY <1>2 DEF TypeInv, TokenTypeOK
  <2>2. newest[f] + 1 \in Nat
    BY <2>1
  <2>3. newest' = [newest EXCEPT ![f] = newest[f] + 1]
    BY DEF Rotates
  <2> HIDE DEF f
  <2>4. QED
    BY <2>1, <2>2, <2>3
<1>6. TokenTypeOK'
  BY <1>3, <1>4, <1>5, ZenonT(30) DEF Rotates, Go, Hold, Because, TypeInv, TokenTypeOK, Given
<1>7. TokensGiven'
  BY <1>1, <1>3 DEF Rotates, Go, Hold, TypeInv, TokenTypeOK, TokensGiven, Given
<1>8. QED
  BY <1>6, <1>7 DEF TypeInv

LEMMA RefusesType ==
  ASSUME TypeInv, NEW p \in Procs, Refuses(p)
  PROVE  TypeInv'
<1>1. phase[p] \in AtWork
  BY DEF Refuses, In, AtWork
<1>2. held[p] \in Tokens /\ held[p].family \in Family /\ base[p] \in Bases
  BY <1>1, HolderHas
<1>3. sentTo' \subseteq Tokens \X Bases
  <2>1. sentTo \subseteq Tokens \X Bases /\ sentTo' = sentTo \cup {<<held[p], base[p]>>}
    BY DEF Refuses, Send, TypeInv, TokenTypeOK
  <2>2. QED
    BY <2>1, <1>2, SentStaysTyped
<1>4. TokenTypeOK'
  BY <1>2, <1>3 DEF Refuses, TypeInv, TokenTypeOK
<1>5. TokensGiven'
  BY <1>1 DEF Refuses, TypeInv, TokenTypeOK, TokensGiven, Given
<1>6. QED
  BY <1>4, <1>5 DEF TypeInv

LEMMA GivenGrows ==
  ASSUME TypeInv, families' \in 0..MaxLogins, families <= families', tokenFile' = tokenFile,
         NEW p \in Procs, \A q \in Procs \ {p} : held'[q] = held[q] /\ phase'[q] = phase[q],
         phase'[p] \in AtWork => Given(held[p])' 
  PROVE  TokensGiven'
<1>1. families \in Nat /\ families' \in Nat
  BY TokenAssumption, FamiliesCount
<1>2. \A t : Given(t) => t \in Tokens /\ t.family \in 1..families'
  BY <1>1 DEF Given
<1>3. QED
  BY <1>2 DEF TypeInv, TokensGiven, Given

LEMMA GrantedType ==
  ASSUME TypeInv, NEW p \in Procs, Granted(p)
  PROVE  TypeInv'
<1> DEFINE t == [family |-> families + 1, n |-> 1, base |-> base[p]]
<1>1. families \in Nat /\ families' = families + 1 /\ families' \in 0..MaxLogins
  <2>1. families < MaxLogins /\ families' = families + 1
    BY DEF Granted
  <2>2. QED
    BY <2>1, TokenAssumption, FamiliesCount
<1>2. t \in Tokens /\ t.family = families'
  <2>1. base[p] \in Bases
    BY DEF TypeInv, TokenTypeOK
  <2>2. families + 1 \in Family
    BY <1>1, TokenAssumption DEF Family
  <2>3. QED
    BY <1>1, <2>1, <2>2 DEF Tokens
<1>3. held' = [held EXCEPT ![p] = t] /\ phase' = [phase EXCEPT ![p] = "logged in"]
  BY DEF Granted, Hold, Go
<1>4. TokenTypeOK'
  BY <1>1, <1>2, <1>3 DEF Granted, TypeInv, TokenTypeOK
<1>5. held'[p] = t /\ \A q \in Procs \ {p} : held'[q] = held[q] /\ phase'[q] = phase[q]
  BY <1>3 DEF TypeInv, TokenTypeOK
<1>6. Given(held[p])'
  BY <1>1, <1>2, <1>5 DEF Given
<1>7. TokensGiven'
  <2>1. families <= families'
    BY <1>1
  <2>2. tokenFile' = tokenFile
    BY DEF Granted
  <2>3. QED
    BY <1>1, <1>5, <1>6, <2>1, <2>2, GivenGrows
<1>8. QED
  BY <1>4, <1>7 DEF TypeInv

LEMMA LoginFailsType ==
  ASSUME TypeInv, NEW p \in Procs, LoginFails(p)
  PROVE  TypeInv'
<1>1. families' \in 0..MaxLogins /\ families <= families'
  <2>1. families' \in {families} \cup {n \in Family : n = families + 1}
    BY DEF LoginFails
  <2>2. CASE families' = families
    BY <2>2, FamiliesCount, TokenAssumption
  <2>3. CASE families' \in Family /\ families' = families + 1
    BY <2>3, TokenAssumption, FamiliesCount DEF Family
  <2>4. QED
    BY <2>1, <2>2, <2>3
<1>2. TokenTypeOK'
  BY <1>1 DEF LoginFails, Go, TypeInv, TokenTypeOK
<1>3. phase'[p] = "idle" /\ \A q \in Procs \ {p} : held'[q] = held[q] /\ phase'[q] = phase[q]
  BY DEF LoginFails, Go, TypeInv, TokenTypeOK
<1>4. TokensGiven'
  BY <1>1, <1>3, GivenGrows DEF LoginFails, AtWork
<1>5. QED
  BY <1>2, <1>4 DEF TypeInv

LEMMA RevokesType ==
  ASSUME TypeInv, WebRevokes \/ (\E p \in Procs : Revoke(p))
  PROVE  TypeInv'
<1>1. CASE WebRevokes
  <2>1. 1..families \subseteq Family
    BY FamiliesAreFamily DEF TypeInv, TokenTypeOK
  <2>2. revoked' \subseteq Family
    BY <1>1, <2>1 DEF WebRevokes, TypeInv, TokenTypeOK
  <2>3. QED
    BY <1>1, <2>2 DEF WebRevokes, Because, TypeInv, TokenTypeOK, TokensGiven, Given
<1>2. ASSUME NEW p \in Procs, Revoke(p)
      PROVE  TypeInv'
  <2>1. phase[p] \in AtWork
    BY <1>2 DEF Revoke, In, AtWork
  <2>2. held[p] \in Tokens /\ held[p].family \in Family /\ held[p].base \in Bases
    BY <2>1, HolderHas
  <2>3. sentTo' \subseteq Tokens \X Bases
    <3>1. \/ sentTo' = sentTo
          \/ sentTo' = sentTo \cup {<<held[p], held[p].base>>}
      BY <1>2 DEF Revoke, RevokesAt
    <3>2. sentTo \subseteq Tokens \X Bases
      BY DEF TypeInv, TokenTypeOK
    <3>3. QED
      BY <3>1, <3>2, <2>2, SentStaysTyped
  <2>4. TokenTypeOK'
    BY <1>2, <2>2, <2>3 DEF Revoke, Go, Because, TypeInv, TokenTypeOK
  <2>5. TokensGiven'
    BY <1>2, <2>1 DEF Revoke, Go, AtWork, TypeInv, TokenTypeOK, TokensGiven, Given
  <2>6. QED
    BY <2>4, <2>5 DEF TypeInv
<1>3. QED
  BY <1>1, <1>2

LEMMA TypeStep == TypeInv /\ [TokenNext]_tokenVars => TypeInv'
<1> SUFFICES ASSUME TypeInv, [TokenNext]_tokenVars
             PROVE  TypeInv'
  OBVIOUS
<1>1. CASE UNCHANGED tokenVars
  BY <1>1 DEF TypeInv, TokenTypeOK, TokensGiven, Given, tokenVars
<1>2. CASE TokenNext
  BY <1>2, QuietSteps, UseTokenType, RotatesType, RefusesType, GrantedType, LoginFailsType,
     RevokesType DEF TokenNext
<1>3. QED
  BY <1>1, <1>2

LEMMA TypeInit == TokenInit => TypeInv
  BY TokenAssumption DEF TokenInit, TypeInv, TokenTypeOK, TokensGiven, AtWork, Family

\* The token type: every process works with a token of a login that has happened, and
\* the file holds one such token or none.
THEOREM TokensTypeCorrect == TokenSpec => []TokenTypeOK
<1>1. TypeInv => TokenTypeOK
  BY DEF TypeInv
<1>2. QED
  BY <1>1, TypeInit, TypeStep, PTL DEF TokenSpec

-----------------------------------------------------------------------------
(* No token is replayed to another orchestrator.                           *)

\* A process refreshes, and saves what it refreshed, only for its own orchestrator;
\* whatever others store meanwhile, it goes on with the token it has read.
HomeInv ==
  /\ TokensGoHome
  /\ \A p \in Procs : phase[p] = "refreshing" => held[p].base = base[p]

LEMMA HomeStep == TypeInv /\ HomeInv /\ [TokenNext]_tokenVars => HomeInv'
<1> SUFFICES ASSUME TypeInv, HomeInv, [TokenNext]_tokenVars
             PROVE  HomeInv'
  OBVIOUS
<1> USE DEF In, Go, Hold, Server, Send
<1>1. phase \in [Procs -> AtWork \cup {"idle", "logging in"}] /\ DOMAIN held = Procs
  BY DEF TypeInv, TokenTypeOK, AtWork
<1>2. CASE UNCHANGED tokenVars
  BY <1>2 DEF HomeInv, TokensGoHome, tokenVars
<1>3. CASE WebRevokes
  BY <1>3 DEF WebRevokes, HomeInv, TokensGoHome
<1>4. ASSUME NEW p \in Procs, UseToken(p)
      PROVE  HomeInv'
  BY <1>4 DEF UseToken, Usable, HomeInv, TokensGoHome
<1>5. ASSUME NEW p \in Procs, NeedsRefresh(p)
      PROVE  HomeInv'
  BY <1>1, <1>5 DEF NeedsRefresh, Usable, HomeInv, TokensGoHome
<1>6. ASSUME NEW p \in Procs, Rotates(p) \/ Refuses(p)
      PROVE  HomeInv'
  <2>1. sentTo' = sentTo \cup {<<held[p], base[p]>>} /\ held[p].base = base[p] /\ base' = base
    BY <1>6 DEF Rotates, Refuses, HomeInv
  <2>2. TokensGoHome'
    BY <2>1 DEF HomeInv, TokensGoHome
  <2>3. \A q \in Procs : phase'[q] = "refreshing" => q # p /\ phase[q] = "refreshing" /\ held'[q] = held[q]
    BY <1>1, <1>6 DEF Rotates, Refuses
  <2>4. QED
    BY <2>1, <2>2, <2>3 DEF HomeInv
<1>7. ASSUME NEW p \in Procs,
             Offline(p) \/ Save(p) \/ SaveFails(p) \/ Forget(p) \/ Delete(p) \/ Login(p) \/ LoginFails(p)
      PROVE  HomeInv'
  BY <1>1, <1>7 DEF Offline, Save, SaveFails, Forget, Delete, Login, LoginFails, HomeInv, TokensGoHome
<1>8. ASSUME NEW p \in Procs, Granted(p) \/ Logout(p)
      PROVE  HomeInv'
  BY <1>1, <1>8 DEF Granted, Logout, HomeInv, TokensGoHome
<1>9. ASSUME NEW p \in Procs, Revoke(p)
      PROVE  HomeInv'
  <2>1. /\ sentTo' \in {sentTo, sentTo \cup {<<held[p], held[p].base>>}}
        /\ base' = base /\ held' = held
    BY <1>9 DEF Revoke, RevokesAt
  <2>2. TokensGoHome'
    BY <2>1 DEF HomeInv, TokensGoHome
  <2>3. \A q \in Procs : phase'[q] = "refreshing" => phase[q] = "refreshing"
    BY <1>1, <1>9 DEF Revoke
  <2>4. QED
    BY <2>1, <2>2, <2>3 DEF HomeInv
<1>10. QED
  BY <1>2, <1>3, <1>4, <1>5, <1>6, <1>7, <1>8, <1>9 DEF TokenNext

\* A token is sent only to the orchestrator that minted it: as a bearer, in a refresh
\* and at a logout.
THEOREM TokensStayHome == TokenSpec => []TokensGoHome
<1>1. TokenInit => HomeInv
  BY DEF TokenInit, HomeInv, TokensGoHome
<1>2. HomeInv => TokensGoHome
  BY DEF HomeInv
<1>3. QED
  BY <1>1, <1>2, TypeInit, TypeStep, HomeStep, PTL DEF TokenSpec

-----------------------------------------------------------------------------
(* A login lasts.                                                          *)

\* No refresh token of a login that is to come has been used.
Unused == \A f \in Family : f > families => newest[f] = 1

Alone == \A p, q \in Procs : phase[p] # "idle" /\ phase[q] # "idle" => p = q

\* What every process does with the live token.
WorksLive(p) ==
  /\ phase[p] # "refused"
  /\ phase[p] = "refreshing" => Live(held[p])
  /\ phase[p] \in {"saving", "logged in"} => Live(held[p])

FileLive ==
  tokenFile # NoToken /\ (\A p \in Procs : phase[p] # "saving") => Live(tokenFile)

LastInv ==
  /\ Unused
  /\ causes = {} => Alone /\ revoked = {} /\ FileLive /\ \A p \in Procs : WorksLive(p)

LEMMA UnusedStep == TypeInv /\ Unused /\ [TokenNext]_tokenVars => Unused'
<1> SUFFICES ASSUME TypeInv, Unused, [TokenNext]_tokenVars
             PROVE  Unused'
  OBVIOUS
<1>1. families \in Nat /\ newest \in [Family -> Nat] /\ Family \subseteq Nat
  <2>1. families \in Nat
    BY FamiliesCount
  <2>2. newest \in [Family -> Nat]
    BY DEF TypeInv, TokenTypeOK
  <2>3. Family \subseteq Nat
    BY TokenAssumption DEF Family
  <2>4. QED
    BY <2>1, <2>2, <2>3
<1>2. ASSUME NEW p \in Procs, Rotates(p)
      PROVE  Unused'
  <2>1. held[p].family \in 1..families /\ held[p].family \in Family
    BY <1>2, HolderHas DEF Rotates, In, AtWork
  <2>2. families' = families /\ newest' = [newest EXCEPT ![held[p].family] = @ + 1]
    BY <1>2 DEF Rotates
  <2>3. ASSUME NEW f \in Family, f > families
        PROVE  newest'[f] = 1
    <3>1. f # held[p].family
      BY <2>1, <2>3, <1>1
    <3>2. newest'[f] = newest[f]
      BY <3>1, <2>2, <1>1
    <3>3. QED
      BY <3>2, <2>3 DEF Unused
  <2>4. QED
    BY <2>2, <2>3 DEF Unused
<1>3. ASSUME newest' = newest, families' \in {families, families + 1}
      PROVE  Unused'
  BY <1>1, <1>3 DEF Unused
<1>4. QED
  BY <1>2, <1>3 DEF TokenNext, tokenVars, Server, WebRevokes, UseToken, NeedsRefresh, Refuses,
     Offline, Save, SaveFails, Forget, Login, Granted, LoginFails, Logout, Revoke, Delete

LEMMA Shapes ==
  ASSUME TypeInv
  PROVE  DOMAIN phase = Procs /\ DOMAIN held = Procs
  BY DEF TypeInv, TokenTypeOK

\* The steps that leave the server alone.
LEMMA LastQuiet ==
  ASSUME TypeInv, LastInv, causes' = {}, NEW p \in Procs,
         \/ NeedsRefresh(p) \/ Offline(p) \/ Save(p) \/ SaveFails(p) \/ Forget(p)
         \/ Login(p) \/ LoginFails(p) \/ Logout(p) \/ Delete(p) \/ UseToken(p)
  PROVE  Alone' /\ revoked' = {} /\ FileLive' /\ \A q \in Procs : WorksLive(q)'
<1> USE DEF In, Go, Hold, Server
<1>1. causes = {}
  BY DEF NeedsRefresh, Offline, Save, SaveFails, Forget, Login, LoginFails, Logout, Delete,
     UseToken, Begins, Because
<1>2. Alone /\ revoked = {} /\ FileLive /\ \A q \in Procs : WorksLive(q)
  BY <1>1 DEF LastInv
<1>3. revoked' = revoked /\ newest' = newest
  BY DEF NeedsRefresh, Offline, Save, SaveFails, Forget, Login, LoginFails, Logout, Delete, UseToken
<1>4. \A t : Live(t) => t.family \notin revoked' /\ t.n = newest'[t.family]
  BY <1>3 DEF Live
<1>5. CASE NeedsRefresh(p) \/ Login(p) \/ Logout(p)
  <2>1. \A q \in Procs \ {p} : phase[q] = "idle"
    BY <1>5, <1>1 DEF NeedsRefresh, Login, Logout, Begins
  <2>2. phase[p] = "idle" /\ tokenFile' = tokenFile
    BY <1>5 DEF NeedsRefresh, Login, Logout
  <2>3. tokenFile # NoToken => Live(tokenFile)
    BY <1>2, <2>1, <2>2 DEF FileLive
  <2>4. \A q \in Procs \ {p} : phase'[q] = "idle"
    BY <1>5, <2>1, Shapes DEF NeedsRefresh, Login, Logout
  <2>5. \/ phase'[p] \in {"logging in", "revoking"}
        \/ phase'[p] = "refreshing" /\ held'[p] = tokenFile /\ tokenFile # NoToken
    BY <1>5, Shapes DEF NeedsRefresh, Login, Logout, Usable
  <2>6. Alone'
    BY <2>4 DEF Alone
  <2>7. FileLive'
    BY <2>2, <2>3, <1>4 DEF FileLive, Live
  <2>8. \A q \in Procs : WorksLive(q)'
    BY <2>3, <2>4, <2>5, <1>4 DEF WorksLive, Live
  <2>9. QED
    BY <1>2, <1>3, <2>6, <2>7, <2>8
<1>6. CASE UseToken(p)
  BY <1>6, <1>2, <1>3 DEF UseToken, Alone, FileLive, WorksLive, Live
<1>7. CASE Offline(p) \/ Save(p) \/ SaveFails(p) \/ Forget(p) \/ LoginFails(p) \/ Delete(p)
  <2>1. phase' = [phase EXCEPT ![p] = "idle"] /\ held' = held /\ phase[p] # "idle"
    BY <1>7 DEF Offline, Save, SaveFails, Forget, LoginFails, Delete
  <2>2. \A q \in Procs : phase'[q] = "idle"
    BY <2>1, <1>2, Shapes DEF Alone
  <2>3. \A q \in Procs \ {p} : phase[q] = "idle"
    BY <2>1, <1>2 DEF Alone
  <2>4. tokenFile' # NoToken => Live(tokenFile')
    <3>1. CASE Save(p)
      BY <3>1, <1>2 DEF Save, WorksLive
    <3>2. CASE SaveFails(p)
      <4>1. phase[p] = "logged in" /\ tokenFile' = tokenFile
        BY <3>2, <1>1 DEF SaveFails, Because
      <4>2. QED
        BY <4>1, <2>3, <1>2 DEF FileLive
    <3>3. CASE Offline(p) \/ Forget(p) \/ LoginFails(p) \/ Delete(p)
      <4>1. phase[p] # "saving" /\ tokenFile' \in {NoToken, tokenFile}
        BY <3>3 DEF Offline, Forget, LoginFails, Delete
      <4>2. QED
        BY <4>1, <2>3, <1>2 DEF FileLive
    <3>4. QED
      BY <1>7, <3>1, <3>2, <3>3
  <2>5. Alone' /\ \A q \in Procs : WorksLive(q)'
    BY <2>2 DEF Alone, WorksLive
  <2>6. FileLive'
    BY <2>4, <1>4 DEF FileLive, Live
  <2>7. QED
    BY <1>2, <1>3, <2>5, <2>6
<1>8. QED
  BY <1>5, <1>6, <1>7

LEMMA LastRotates ==
  ASSUME TypeInv, LastInv, causes' = {}, NEW p \in Procs, Rotates(p)
  PROVE  Alone' /\ revoked' = {} /\ FileLive' /\ \A q \in Procs : WorksLive(q)'
<1>1. /\ held' = [held EXCEPT ![p] = NextToken(held[p])]
      /\ phase' = [phase EXCEPT ![p] = "saving"] /\ causes = {}
  BY DEF Rotates, Hold, Go, Because
<1>2. Alone /\ revoked = {} /\ \A q \in Procs : WorksLive(q)
  BY <1>1 DEF LastInv
<1>3. phase[p] = "refreshing" /\ Live(held[p]) /\ revoked' = revoked
  BY DEF Rotates, In
<1>4. Given(held[p]) /\ held[p].family \in Family /\ held[p].n \in Nat
  BY <1>3, HolderHas DEF AtWork, Given
<1>5. \A q \in Procs \ {p} : phase'[q] = "idle"
  BY <1>1, <1>2, <1>3, Shapes DEF Alone
<1>6. phase'[p] = "saving" /\ held'[p] = NextToken(held[p])
  BY <1>1, Shapes
<1>7. Live(held[p])'
  <2> DEFINE f == held[p].family
  <2>1. newest'[f] = newest[f] + 1
    BY <1>4 DEF Rotates, TypeInv, TokenTypeOK
  <2>2. held'[p].family = f /\ held'[p].n = held[p].n + 1
    BY <1>4, <1>6, NextTokenGiven
  <2>3. held[p].n = newest[f]
    BY <1>3 DEF Live
  <2>4. QED
    BY <1>2, <1>3, <2>1, <2>2, <2>3 DEF Live
<1>8. Alone' /\ FileLive'
  BY <1>5, <1>6 DEF Alone, FileLive
<1>9. \A q \in Procs : WorksLive(q)'
  BY <1>5, <1>6, <1>7 DEF WorksLive
<1>10. QED
  BY <1>2, <1>3, <1>8, <1>9

LEMMA LastGranted ==
  ASSUME TypeInv, LastInv, causes' = {}, NEW p \in Procs, Granted(p)
  PROVE  Alone' /\ revoked' = {} /\ FileLive' /\ \A q \in Procs : WorksLive(q)'
<1>1. /\ phase[p] = "logging in" /\ causes = {}
      /\ tokenFile' = tokenFile /\ newest' = newest /\ revoked' = revoked
  BY DEF Granted, In
<1>2. Alone /\ revoked = {} /\ FileLive /\ \A q \in Procs : WorksLive(q)
  BY <1>1 DEF LastInv
<1>3. phase' = [phase EXCEPT ![p] = "logged in"]
  BY DEF Granted, Go
<1>4. held'[p] = [family |-> families + 1, n |-> 1, base |-> base[p]]
  BY Shapes DEF Granted, Hold
<1>5. \A q \in Procs \ {p} : phase[q] = "idle" /\ phase'[q] = "idle"
  BY <1>1, <1>2, <1>3, Shapes DEF Alone
<1>6. newest[families + 1] = 1
  <2>1. families + 1 \in Family /\ families + 1 > families
    <3>1. families < MaxLogins
      BY DEF Granted
    <3>2. families \in Nat
      BY FamiliesCount
    <3>3. QED
      BY <3>1, <3>2, TokenAssumption DEF Family
  <2>2. QED
    BY <2>1 DEF LastInv, Unused
<1>7. Live(held[p])'
  <2>1. held'[p].family = families + 1 /\ held'[p].n = 1
    BY <1>4
  <2>2. newest'[families + 1] = 1 /\ families + 1 \notin revoked'
    BY <1>1, <1>2, <1>6
  <2>3. QED
    BY <2>1, <2>2 DEF Live
<1>8. phase'[p] = "logged in"
  BY <1>3, Shapes
<1>9. Alone' /\ \A q \in Procs : WorksLive(q)'
  BY <1>5, <1>7, <1>8 DEF Alone, WorksLive
<1>10. FileLive'
  <2>1. \A q \in Procs : phase[q] # "saving"
    BY <1>1, <1>5
  <2>2. tokenFile # NoToken => Live(tokenFile)
    BY <2>1, <1>2 DEF FileLive
  <2>3. QED
    BY <2>2, <1>1 DEF FileLive, Live
<1>11. QED
  BY <1>1, <1>2, <1>9, <1>10

\* A revocation or a refusal: the first leaves a cause or sends nothing, and no token
\* that a process refreshes is refused.
LEMMA LastRevoke ==
  ASSUME TypeInv, LastInv, causes' = {}, NEW p \in Procs,
         WebRevokes \/ Refuses(p) \/ Revoke(p)
  PROVE  Alone' /\ revoked' = {} /\ FileLive' /\ \A q \in Procs : WorksLive(q)'
<1>1. ~WebRevokes
  BY DEF WebRevokes, Because
<1>2. causes = {}
  BY <1>1 DEF Refuses, Revoke, Because
<1>3. Alone /\ revoked = {} /\ FileLive /\ \A q \in Procs : WorksLive(q)
  BY <1>2 DEF LastInv
<1>4. ~Refuses(p)
  BY <1>3 DEF Refuses, In, WorksLive
<1>5. /\ phase[p] = "revoking" /\ phase' = [phase EXCEPT ![p] = "deleting"]
      /\ UNCHANGED <<tokenFile, held, newest, revoked>>
  BY <1>1, <1>4 DEF Revoke, In, Go, Because
<1>6. \A q \in Procs : phase'[q] # phase[q] => q = p /\ phase'[q] = "deleting"
  BY <1>5, Shapes
<1>7. \A q \in Procs : phase'[q] # "idle" => phase[q] # "idle"
  BY <1>5, <1>6
<1>8. Alone'
  BY <1>3, <1>7 DEF Alone
<1>9. FileLive'
  BY <1>3, <1>5, <1>6 DEF FileLive, Live
<1>10. \A q \in Procs : WorksLive(q)'
  BY <1>3, <1>5, <1>6 DEF WorksLive, Live
<1>11. QED
  BY <1>3, <1>5, <1>8, <1>9, <1>10

LEMMA LastStep == TypeInv /\ LastInv /\ [TokenNext]_tokenVars => LastInv'
<1> SUFFICES ASSUME TypeInv, LastInv, [TokenNext]_tokenVars
             PROVE  LastInv'
  OBVIOUS
<1>1. Unused'
  BY UnusedStep DEF LastInv
<1>2. ASSUME causes' = {}
      PROVE  Alone' /\ revoked' = {} /\ FileLive' /\ \A q \in Procs : WorksLive(q)'
  <2>1. CASE UNCHANGED tokenVars
    BY <1>2, <2>1 DEF LastInv, Alone, FileLive, WorksLive, Live, tokenVars
  <2>2. CASE WebRevokes
    BY <1>2, <2>2 DEF WebRevokes, Because
  <2>3. CASE \E p \in Procs :
               \/ NeedsRefresh(p) \/ Offline(p) \/ Save(p) \/ SaveFails(p) \/ Forget(p)
               \/ Login(p) \/ LoginFails(p) \/ Logout(p) \/ Delete(p) \/ UseToken(p)
    BY <1>2, <2>3, LastQuiet
  <2>4. CASE \E p \in Procs : Rotates(p)
    BY <1>2, <2>4, LastRotates
  <2>5. CASE \E p \in Procs : Granted(p)
    BY <1>2, <2>5, LastGranted
  <2>6. CASE \E p \in Procs : Refuses(p) \/ Revoke(p)
    BY <1>2, <2>6, LastRevoke
  <2>7. QED
    BY <2>1, <2>2, <2>3, <2>4, <2>5, <2>6 DEF TokenNext
<1>3. QED
  BY <1>1, <1>2 DEF LastInv

\* A login lasts, although every refresh kills the token it uses: while nothing is
\* lost, left unsaved, overlapped or revoked, no refresh is refused and the stored
\* refresh token is the live one.
THEOREM LoginsLast == TokenSpec => []LoginLasts
<1>1. TokenInit => LastInv
  BY DEF TokenInit, LastInv, Unused, Alone, FileLive, WorksLive
<1>2. LastInv => LoginLasts
  BY DEF LastInv, LoginLasts, FileLive, WorksLive
<1>3. QED
  BY <1>1, <1>2, TypeInit, TypeStep, LastStep, PTL DEF TokenSpec

-----------------------------------------------------------------------------
(* SyncKey, for every number of processes, keys and commands.              *)

\* While nothing outlives a wipe: a wipe that is past a removal has made it, and
\* nothing else goes before the key and the recovery file.
WipedSoFar ==
  ~kept =>
    /\ "key" \in wiped => keyFile = NoKey
    /\ "recovery" \in wiped => recovery = NoKey
    /\ wiped \ {"key", "recovery"} # {} => {"key", "recovery"} \subseteq wiped
    /\ \A p \in Shells : step[p] = "wiping" /\ at[p] > 1 => "key" \in wiped
    /\ \A p \in Shells : step[p] = "wiping" /\ at[p] > 2 => "recovery" \in wiped

WipeInv ==
  /\ WipedSoFar
  /\ at \in [Shells -> 1..Len(WipeOrder)] /\ DOMAIN step = Shells

LEMMA EightRemovals ==
  /\ Len(WipeOrder) = 8
  /\ WipeOrder[1] = "key" /\ WipeOrder[2] = "recovery"
  /\ \A i \in 3..8 : WipeOrder[i] \notin {"key", "recovery"}
  BY DEF WipeOrder

\* A step that moves no wipe on, and stores a key only by saying so.
LEMMA OtherSteps ==
  ASSUME WipeInv, NEW p \in Shells,
         at' \in {at, [at EXCEPT ![p] = 1]}, DOMAIN step' = Shells,
         \A q \in Shells : step'[q] = "wiping" => step[q] = "wiping" \/ at'[q] = 1,
         wiped' = wiped, kept => kept',
         kept' \/ wiped = {} \/ (keyFile' = keyFile /\ recovery' = recovery)
  PROVE  WipeInv'
<1>1. 1 \in 1..Len(WipeOrder)
  BY EightRemovals
<1>2. at' \in [Shells -> 1..Len(WipeOrder)] /\ DOMAIN step' = Shells
  BY <1>1 DEF WipeInv
<1>3. \A q \in Shells : step'[q] = "wiping" /\ at'[q] > 1 => step[q] = "wiping" /\ at'[q] = at[q]
  BY DEF WipeInv
<1>4. WipedSoFar'
  BY <1>2, <1>3, EightRemovals DEF WipeInv, WipedSoFar
<1>5. QED
  BY <1>2, <1>4 DEF WipeInv

LEMMA WipeStepKeeps ==
  ASSUME WipeInv, NEW p \in Shells, WipeStep(p)
  PROVE  WipeInv'
<1> DEFINE what == WipeOrder[at[p]]
<1>1. at[p] \in 1..8 /\ step[p] = "wiping"
  BY EightRemovals DEF WipeInv, WipeStep
<1>2. \/ /\ at[p] = 8 /\ at' = [at EXCEPT ![p] = 1] /\ step' = [step EXCEPT ![p] = "idle"]
      \/ /\ at[p] # 8 /\ at' = [at EXCEPT ![p] = at[p] + 1] /\ step' = step
  BY EightRemovals DEF WipeStep, Rest, Become
<1>3. at' \in [Shells -> 1..Len(WipeOrder)] /\ DOMAIN step' = Shells
  BY <1>1, <1>2, EightRemovals DEF WipeInv
<1>4. \A q \in Shells : step'[q] = "wiping" =>
        step[q] = "wiping" /\ at'[q] = (IF q = p THEN at[p] + 1 ELSE at[q])
  BY <1>2 DEF WipeInv
<1>5. CASE \* The removal fails.
           /\ UNCHANGED <<keyFile, recovery, wiped>>
           /\ kept' = (kept \/ what \in {"key", "recovery"})
  <2>1. ASSUME ~kept'
        PROVE  ~kept /\ at[p] > 2
    <3>1. ~kept /\ what # "key" /\ what # "recovery"
      BY <1>5, <2>1
    <3>2. at[p] # 1 /\ at[p] # 2
      BY <3>1, EightRemovals
    <3>3. QED
      BY <1>1, <3>1, <3>2
  <2>2. WipedSoFar'
    BY <1>1, <1>4, <1>5, <2>1 DEF WipedSoFar, WipeInv
  <2>3. QED
    BY <1>3, <2>2 DEF WipeInv
<1>6. CASE /\ keyFile'  = IF what = "key" THEN NoKey ELSE keyFile
           /\ recovery' = IF what = "recovery" THEN NoKey ELSE recovery
           /\ wiped' = wiped \cup {what} /\ UNCHANGED kept
  <2> SUFFICES ASSUME ~kept
               PROVE  WipedSoFar'
    BY <1>3, <1>6 DEF WipeInv, WipedSoFar
  <2>0. /\ "key" \in wiped => keyFile = NoKey
        /\ "recovery" \in wiped => recovery = NoKey
        /\ wiped \ {"key", "recovery"} # {} => {"key", "recovery"} \subseteq wiped
        /\ \A q \in Shells : step[q] = "wiping" /\ at[q] > 1 => "key" \in wiped
        /\ \A q \in Shells : step[q] = "wiping" /\ at[q] > 2 => "recovery" \in wiped
    BY DEF WipeInv, WipedSoFar
  <2>1. /\ "key" \in wiped' => keyFile' = NoKey
        /\ "recovery" \in wiped' => recovery' = NoKey
    BY <1>6, <2>0
  <2>2. CASE at[p] = 1
    <3>1. wiped' = wiped \cup {"key"}
      BY <1>6, <2>2, EightRemovals
    <3>2. \A q \in Shells : step'[q] = "wiping" /\ at'[q] > 2 => step[q] = "wiping" /\ at[q] > 2
      BY <1>4, <2>2
    <3>3. QED
      BY <2>0, <2>1, <3>1, <3>2 DEF WipedSoFar
  <2>3. CASE at[p] = 2
    <3>1. wiped' = wiped \cup {"recovery"} /\ "key" \in wiped
      BY <1>1, <1>6, <2>0, <2>3, EightRemovals
    <3>2. QED
      BY <2>0, <2>1, <3>1 DEF WipedSoFar
  <2>4. CASE at[p] \in 3..8
    <3>1. {"key", "recovery"} \subseteq wiped
      BY <1>1, <2>0, <2>4
    <3>2. QED
      BY <1>6, <2>1, <3>1 DEF WipedSoFar
  <2>5. QED
    BY <1>1, <2>2, <2>3, <2>4
<1>7. QED
  BY <1>5, <1>6 DEF WipeStep

LEMMA WipeInvStep == WipeInv /\ [KeyNext]_keyVars => WipeInv'
<1> SUFFICES ASSUME WipeInv, [KeyNext]_keyVars
             PROVE  WipeInv'
  OBVIOUS
<1> USE DEF Disk, Past, Become, Rest, Take, Command
<1>1. CASE UNCHANGED keyVars
  BY <1>1 DEF WipeInv, WipedSoFar, keyVars
<1>2. ASSUME NEW p \in Shells, Setup(p)
      PROVE  WipeInv'
  BY <1>2, OtherSteps DEF Setup, WipeInv
<1>3. ASSUME NEW p \in Shells, Join(p) \/ PrintWords(p) \/ ShowCode(p) \/ Arm(p)
      PROVE  WipeInv'
  BY <1>3, OtherSteps DEF Join, PrintWords, ShowCode, Arm, WipeInv
<1>4. ASSUME NEW p \in Shells, SaveKey(p)
      PROVE  WipeInv'
  <2>1. kept' \/ wiped = {}
    BY <1>4 DEF SaveKey
  <2>2. /\ DOMAIN step' = Shells
        /\ \A q \in Shells : step'[q] = "wiping" => step[q] = "wiping"
    BY <1>4 DEF SaveKey, WipeInv
  <2>3. at' = at /\ wiped' = wiped /\ (kept => kept')
    BY <1>4 DEF SaveKey
  <2>4. QED
    BY <2>1, <2>2, <2>3, OtherSteps
<1>5. ASSUME NEW p \in Shells, Export(p)
      PROVE  WipeInv'
  <2>1. kept' \/ wiped = {}
    BY <1>5 DEF Export
  <2>2. /\ step' = step /\ at' = at /\ wiped' = wiped /\ (kept => kept')
        /\ DOMAIN step = Shells
    BY <1>5 DEF Export, WipeInv
  <2>3. QED
    BY <2>1, <2>2, OtherSteps
<1>6. ASSUME NEW p \in Shells, EnableSync(p) \/ Ends(p)
      PROVE  WipeInv'
  BY <1>6, OtherSteps DEF EnableSync, Ends, WipeInv
<1>7. ASSUME NEW p \in Shells, Nuke(p)
      PROVE  WipeInv'
  <2>1. /\ step' = [step EXCEPT ![p] = "wiping"] /\ at' = [at EXCEPT ![p] = 1]
        /\ UNCHANGED <<wiped, kept, keyFile, recovery>>
    BY <1>7 DEF Nuke
  <2>2. /\ DOMAIN step' = Shells
        /\ \A q \in Shells : step'[q] = "wiping" => step[q] = "wiping" \/ at'[q] = 1
    BY <2>1 DEF WipeInv
  <2>3. QED
    BY <2>1, <2>2, OtherSteps
<1>8. ASSUME NEW p \in Shells, OpenSession(p) \/ SyncSession(p)
      PROVE  WipeInv'
  BY <1>8, OtherSteps DEF OpenSession, SyncSession, WipeInv
<1>9. QED
  BY <1>1, <1>2, <1>3, <1>4, <1>5, <1>6, <1>7, <1>8, WipeStepKeeps DEF KeyNext

\* Wherever a wipe stops, by a failure, a kill or the power, it has removed nothing
\* before the key and its recovery file, which alone can read what is left.
THEOREM KeyGoesFirst == KeySpec => []ShredComesFirst
<1>1. KeyInit => WipeInv
  BY EightRemovals DEF KeyInit, WipeInv, WipedSoFar
<1>2. WipeInv => ShredComesFirst
  BY DEF WipeInv, WipedSoFar, ShredComesFirst
<1>3. QED
  BY <1>1, <1>2, WipeInvStep, PTL DEF KeySpec

-----------------------------------------------------------------------------
(* Backends.                                                               *)

\* Before the session is assembled there is nothing; afterwards a gated turn, once
\* begun, keeps a backend that was built: nothing a terminal or a print run does in
\* a turn changes it.
ServedInv ==
  /\ GatedTurnsAreServed
  /\ active = "local" => "local" \in clients
  /\ Gated /\ session = "turn" => active \in clients

LEMMA ServedStep == BackendTypeOK /\ ServedInv /\ [BackendNext]_backendVars => ServedInv'
<1> SUFFICES ASSUME BackendTypeOK, ServedInv, [BackendNext]_backendVars
             PROVE  ServedInv'
  OBVIOUS
<1> USE DEF ServedInv, GatedTurnsAreServed, Gated
<1>1. CASE UNCHANGED backendVars
  BY <1>1 DEF backendVars
<1>2. CASE WorkerChanges
  BY <1>2 DEF WorkerChanges
<1>3. CASE Assemble
  <2>1. session' # "turn" /\ answer' = answer /\ kind' = kind
    BY <1>3 DEF Assemble
  <2>2. active' = "local" => "local" \in clients'
    BY <1>3 DEF Assemble
  <2>3. QED
    BY <2>1, <2>2
<1>4. CASE StartTurn
  <2>1. ASSUME Gated
        PROVE  active \in clients
    <3>1. session = "open" /\ AuthGate
      BY <1>4, <2>1 DEF StartTurn
    <3>2. CASE active = "remote"
      BY <3>1, <3>2 DEF AuthGate
    <3>3. CASE active = "local"
      BY <3>3
    <3>4. QED
      BY <3>2, <3>3 DEF BackendTypeOK, Modes
  <2>2. QED
    BY <1>4, <2>1 DEF StartTurn
<1>5. CASE Request
  BY <1>5 DEF Request, BackendTypeOK, Modes
<1>6. CASE EndTurn
  BY <1>6 DEF EndTurn
<1>7. ASSUME NEW m \in Modes, SwitchMode(m)
      PROVE  ServedInv'
  <2>1. session' = session /\ answer' = answer /\ kind' = kind /\ clients' = clients
    BY <1>7 DEF SwitchMode
  <2>2. active' = active \/ active' \in clients
    BY <1>7 DEF SwitchMode, CanSwitch
  <2>3. Gated /\ session = "turn" => FALSE
    BY <1>7 DEF SwitchMode
  <2>4. QED
    BY <2>1, <2>2, <2>3
<1>8. QED
  BY <1>1, <1>2, <1>3, <1>4, <1>5, <1>6, <1>7 DEF BackendNext

LEMMA BackendTypeStep == BackendTypeOK /\ [BackendNext]_backendVars => BackendTypeOK'
<1> SUFFICES ASSUME BackendTypeOK, [BackendNext]_backendVars
             PROVE  BackendTypeOK'
  OBVIOUS
<1>1. Endpoint \in {"none", "tcp", "unix", "http"}
  BY DEF Endpoint, Wishes, BackendTypeOK
<1>2. CASE Assemble
  BY <1>1, <1>2 DEF Assemble, BackendTypeOK, Modes
<1>3. CASE UNCHANGED backendVars \/ WorkerChanges \/ StartTurn \/ EndTurn
  BY <1>3 DEF backendVars, WorkerChanges, StartTurn, EndTurn, BackendTypeOK
<1>4. CASE Request
  BY <1>4 DEF Request, BackendTypeOK, Modes
<1>5. ASSUME NEW m \in Modes, SwitchMode(m)
      PROVE  BackendTypeOK'
  BY <1>5 DEF SwitchMode, BackendTypeOK
<1>6. QED
  BY <1>2, <1>3, <1>4, <1>5 DEF BackendNext

LEMMA BackendTypeInit == BackendInit => BackendTypeOK
  BY DEF BackendInit, BackendTypeOK, Modes

\* A gated turn never asks a backend that was not built, although the gate is asked
\* once and every request looks the backend up again.
THEOREM GatedAreServed == BackendSpec => []GatedTurnsAreServed
<1>1. BackendInit => ServedInv
  BY DEF BackendInit, ServedInv, GatedTurnsAreServed
<1>2. ServedInv => GatedTurnsAreServed
  BY DEF ServedInv
<1>3. QED
  BY <1>1, <1>2, BackendTypeInit, BackendTypeStep, ServedStep, PTL DEF BackendSpec

-----------------------------------------------------------------------------
(* Nothing goes where it was not wished.                                   *)

\* A session with an endpoint stays with it until /worker_mode remote.
WishInv ==
  /\ OnlyByWish
  /\ (active = "remote" /\ endpoint # "none") => "remote" \in switched
  /\ session = "new" => endpoint = "none" /\ answer = "none" /\ switched = {}

LEMMA WishStep == BackendTypeOK /\ WishInv /\ [BackendNext]_backendVars => WishInv'
<1> SUFFICES ASSUME BackendTypeOK, WishInv, [BackendNext]_backendVars
             PROVE  WishInv'
  OBVIOUS
<1> USE DEF WishInv, OnlyByWish
<1>1. CASE UNCHANGED backendVars \/ WorkerChanges \/ StartTurn \/ EndTurn
  BY <1>1 DEF backendVars, WorkerChanges, StartTurn, EndTurn
<1>2. CASE Assemble
  <2>1. Endpoint = "unix" => wish.direct
    BY DEF Endpoint, Direct
  <2>2. session = "new" /\ session' \in {"open", "failed"} /\ answer' = answer
        /\ wish' = wish /\ switched' = switched
    BY <1>2 DEF Assemble
  <2>3. \/ session' = "failed" /\ endpoint' = endpoint /\ active' = active
        \/ endpoint' = Endpoint /\ (wish.local => Endpoint # "none")
           /\ active' = IF Endpoint = "none" THEN "remote" ELSE "local"
    BY <1>2 DEF Assemble
  <2>4. QED
    BY <2>1, <2>2, <2>3
<1>3. CASE Request
  BY <1>3 DEF Request
<1>4. ASSUME NEW m \in Modes, SwitchMode(m)
      PROVE  WishInv'
  BY <1>4 DEF SwitchMode
<1>5. QED
  BY <1>1, <1>2, <1>3, <1>4 DEF BackendNext

\* The direct channel, which can hang, is used only when asked for; a session with a
\* local worker sends nothing to the network before /worker_mode remote; --local
\* never opens a session without a worker.
THEOREM GoesWhereWished == BackendSpec => []OnlyByWish
<1>1. BackendInit => WishInv
  BY DEF BackendInit, WishInv, OnlyByWish
<1>2. WishInv => OnlyByWish
  BY DEF WishInv
<1>3. QED
  BY <1>1, <1>2, BackendTypeInit, BackendTypeStep, WishStep, PTL DEF BackendSpec
-----------------------------------------------------------------------------
(* Documents, for every set of servers and files and every number of       *)
(* notifications.                                                          *)

\* The handlers that have stored a notification and not yet moved the version.
Storing == {s \in Servers : handling[s].step = 2}

Handlings == [step : {1, 2}, file : Files, n : Nat]
Waits == [at : {"none", "told", "first", "steady"}, files : SUBSET Files, start : Nat, last : Nat]

DocShapes ==
  /\ handling \in [Servers -> Handlings \cup {Nobody}]
  /\ publishes \in Nat /\ stored \in Nat /\ version \in Nat
  /\ call \in Waits
  /\ report.seen \in Nat /\ report.holds \in Nat

\* The version is behind the store by the handlers between their two steps, and a call
\* has seen no version that there has not been.
MovesInv ==
  /\ IsFiniteSet(Storing) /\ stored = version + Cardinality(Storing)
  /\ call.last <= version
  /\ ReportsWhatMoved

DocInv == DocShapes /\ MovesInv

\* A notification begins or is stored: its handler alone changes.
LEMMA HandlingChanges ==
  ASSUME DocInv, NEW s \in Servers, NEW h \in Handlings \cup {Nobody},
         handling' = [handling EXCEPT ![s] = h]
  PROVE  /\ handling' \in [Servers -> Handlings \cup {Nobody}]
         /\ h.step = 2 => Storing' = Storing \cup {s}
         /\ h.step # 2 => Storing' = Storing \ {s}
<1>1. handling' \in [Servers -> Handlings \cup {Nobody}]
  BY DEF DocInv, DocShapes
<1>2. \A q \in Servers : handling'[q] = IF q = s THEN h ELSE handling[q]
  BY DEF DocInv, DocShapes
<1>3. QED
  BY <1>1, <1>2 DEF Storing

LEMMA HandleStep ==
  ASSUME DocInv, NEW s \in Servers, Handle(s)
  PROVE  DocInv'
<1>1. handling[s] \in Handlings
  BY DEF DocInv, DocShapes, Handle
<1>2. PICK h : h = handling[s]
  OBVIOUS
<1>3. h \in Handlings /\ h.step \in {1, 2} /\ [h EXCEPT !.step = 2] \in Handlings
      /\ [h EXCEPT !.step = 2].step = 2
  BY <1>1, <1>2 DEF Handlings
<1>4. UNCHANGED <<publishes, call, report>>
  BY DEF Handle
<1>5. IsFiniteSet(Storing) /\ Cardinality(Storing) \in Nat
  BY FS_CardinalityType DEF DocInv, MovesInv
<1>6. CASE h.step = 1
  <2>1. stored' = stored + 1 /\ version' = version
        /\ handling' = [handling EXCEPT ![s] = [h EXCEPT !.step = 2]]
    BY <1>2, <1>6 DEF Handle, StoresAt, StoreFirst
  <2>2. handling' \in [Servers -> Handlings \cup {Nobody}] /\ Storing' = Storing \cup {s}
    BY <1>3, <2>1, HandlingChanges
  <2>3. s \notin Storing
    BY <1>2, <1>6 DEF Storing
  <2>4. IsFiniteSet(Storing') /\ Cardinality(Storing') = Cardinality(Storing) + 1
    BY <1>5, <2>2, <2>3, FS_AddElement
  <2>5. DocShapes'
    BY <1>4, <2>1, <2>2 DEF DocInv, DocShapes
  <2>6. stored' = version' + Cardinality(Storing')
    BY <1>5, <2>1, <2>4 DEF DocInv, DocShapes, MovesInv
  <2>7. MovesInv'
    BY <1>4, <2>1, <2>4, <2>6 DEF DocInv, MovesInv, ReportsWhatMoved
  <2>8. QED
    BY <2>5, <2>7 DEF DocInv
<1>7. CASE h.step = 2
  <2>1. stored' = stored /\ version' = version + 1 /\ handling' = [handling EXCEPT ![s] = Nobody]
    BY <1>2, <1>7 DEF Handle, StoresAt, StoreFirst
  <2>2. handling' \in [Servers -> Handlings \cup {Nobody}] /\ Storing' = Storing \ {s}
    <3>1. Nobody.step # 2 /\ Nobody \in Handlings \cup {Nobody}
      BY DEF Nobody
    <3>2. QED
      BY <2>1, <3>1, HandlingChanges
  <2>3. s \in Storing
    BY <1>2, <1>7 DEF Storing
  <2>4. IsFiniteSet(Storing') /\ Cardinality(Storing') = Cardinality(Storing) - 1
    BY <1>5, <2>2, <2>3, FS_RemoveElement
  <2>5. DocShapes'
    BY <1>4, <2>1, <2>2 DEF DocInv, DocShapes
  <2>6. stored' = version' + Cardinality(Storing') /\ call'.last <= version'
    BY <1>4, <1>5, <2>1, <2>4 DEF DocInv, DocShapes, MovesInv, Waits
  <2>7. MovesInv'
    BY <1>4, <2>4, <2>6 DEF DocInv, MovesInv, ReportsWhatMoved
  <2>8. QED
    BY <2>5, <2>7 DEF DocInv
<1>8. QED
  BY <1>3, <1>6, <1>7

LEMMA PublishesStep ==
  ASSUME DocInv, NEW s \in Servers, NEW f \in Files, Publishes(s, f)
  PROVE  DocInv'
<1>1. PICK h : h = [step |-> 1, file |-> f, n |-> publishes + 1]
  OBVIOUS
<1>2. h \in Handlings /\ h \in Handlings \cup {Nobody} /\ h.step # 2
  BY <1>1 DEF Handlings, DocInv, DocShapes
<1>3. /\ handling' = [handling EXCEPT ![s] = h] /\ publishes' = publishes + 1
      /\ UNCHANGED <<stored, version, call, report>>
  BY <1>1 DEF Publishes
<1>4. handling' \in [Servers -> Handlings \cup {Nobody}] /\ Storing' = Storing \ {s}
  BY <1>2, <1>3, HandlingChanges
<1>5. s \notin Storing
  BY DEF Publishes, Storing, Nobody
<1>6. Storing' = Storing
  BY <1>4, <1>5
<1>7. QED
  BY <1>3, <1>4, <1>6, SMTT(30) DEF DocInv, DocShapes, MovesInv, ReportsWhatMoved

\* The steps of the tool's call, which moves neither the store nor the version.
LEMMA CallSteps ==
  ASSUME DocInv, [\/ \E written \in (SUBSET Files) \ {{}} : Notify(written)
                  \/ BeginWait \/ SeesMove \/ Reports]_docVars
  PROVE  DocInv'
<1>1. UNCHANGED <<publishes, handling, stored, version>>
  BY DEF Notify, BeginWait, SeesMove, Reports, docVars
<1>2. /\ call' \in Waits
      /\ call'.last \in {0, call.last, version}
      /\ report' = report \/ (report'.seen = call.last /\ report'.holds = stored)
  <2>1. call \in Waits /\ version \in Nat /\ NoCall \in Waits
    BY DEF DocInv, DocShapes, NoCall, Waits
  <2>2. ASSUME NEW written \in SUBSET Files, Notify(written)
        PROVE  call' \in Waits /\ call'.last = call.last /\ report' = report
    BY <2>1, <2>2 DEF Notify, Waits
  <2>3. ASSUME BeginWait
        PROVE  call' \in Waits /\ call'.last = version /\ report' = report
    BY <2>1, <2>3 DEF BeginWait, Waits
  <2>4. ASSUME SeesMove
        PROVE  call' \in Waits /\ call'.last = version /\ report' = report
    BY <2>1, <2>4 DEF SeesMove, Waits
  <2>5. ASSUME Reports
        PROVE  /\ call' \in Waits /\ call'.last = 0
               /\ report'.seen = call.last /\ report'.holds = stored
    <3>1. call' = NoCall /\ report' = [seen |-> call.last, holds |-> stored]
      BY <2>5 DEF Reports
    <3>2. QED
      BY <2>1, <3>1 DEF NoCall
  <2>6. UNCHANGED docVars => UNCHANGED <<call, report>>
    BY DEF docVars
  <2>7. QED
    BY <2>1, <2>2, <2>3, <2>4, <2>5, <2>6
<1>3. call'.last <= version
  BY <1>2 DEF DocInv, DocShapes, MovesInv, Waits
<1>4. Storing' = Storing
  BY <1>1 DEF Storing
<1>5. Cardinality(Storing) \in Nat
  BY FS_CardinalityType DEF DocInv, MovesInv
<1>6. stored >= call.last /\ call.last \in Nat
  BY <1>5 DEF DocInv, DocShapes, MovesInv, Waits
<1>7. QED
  BY <1>1, <1>2, <1>3, <1>4, <1>6 DEF DocInv, DocShapes, MovesInv, ReportsWhatMoved

\* Whatever movement of the version a wait has seen, the report that follows is made of
\* the diagnostics that moved it (csync.VersionedMap.Set stores before it counts, and
\* WaitForDiagnostics reads the version without the lock).
THEOREM DiagnosticsAreThere == DocSpec => []ReportsWhatMoved
<1>1. DocInit => DocInv
  <2> SUFFICES ASSUME DocInit PROVE DocInv
    OBVIOUS
  <2>1. call \in Waits
    BY DEF DocInit, NoCall, Waits
  <2>2. DocShapes
    BY <2>1 DEF DocInit, DocShapes, NoReport
  <2>3. Storing = {}
    BY DEF DocInit, Storing, Nobody
  <2>4. QED
    BY <2>2, <2>3, FS_EmptySet DEF DocInit, DocInv, MovesInv, ReportsWhatMoved, NoCall, NoReport
<1>2. DocInv /\ [DocNext]_docVars => DocInv'
  BY HandleStep, PublishesStep, CallSteps DEF DocNext
<1>3. DocInv => ReportsWhatMoved
  BY DEF DocInv, MovesInv
<1>4. QED
  BY <1>1, <1>2, <1>3, PTL DEF DocSpec

-----------------------------------------------------------------------------
(* MemoryStore: eviction.                                                  *)

\* Memory files whose notes have been counted so often.
MemNotes(U) == [text : Text, pinned : BOOLEAN, uses : U]
MemFacts    == [key : FactKeys, pinned : BOOLEAN]
Memories(U) == [facts : Seq(MemFacts), notes : Seq(MemNotes(U))]

\* A set of naturals that is not empty has a least element.
Below == {ss \in Nat \X Nat : ss[1] < ss[2]}

LEMMA LeastNatural ==
  ASSUME NEW T, T \subseteq Nat, T # {}
  PROVE  \E x \in T : \A y \in T : x <= y
<1>1. IsWellFoundedOn(Below, Nat)
  BY NatLessThanWellFounded DEF OpToRel, Below
<1>2. PICK x \in T : \A y \in T : ~(<<y, x>> \in Below)
  BY <1>1, WFMin
<1>3. ASSUME NEW y \in T
      PROVE  x <= y
  <2>1. <<y, x>> \in Nat \X Nat /\ x \in Nat /\ y \in Nat
    OBVIOUS
  <2>2. ~(y < x)
    BY <1>2, <2>1 DEF Below
  <2>3. QED
    BY <2>1, <2>2
<1>4. QED
  BY <1>3

\* Induction: a set with 0 and every successor of its members has every natural.
LEMMA SetInduction ==
  ASSUME NEW S, 0 \in S, \A n \in Nat : n \in S => n + 1 \in S
  PROVE  Nat \subseteq S
<1>1. SUFFICES ASSUME Nat \ S # {} PROVE FALSE
  OBVIOUS
<1>2. PICK x \in Nat \ S : \A y \in Nat \ S : x <= y
  BY <1>1, LeastNatural
<1>3. x # 0 /\ x - 1 \in Nat
  BY <1>2
<1>4. x - 1 \in S
  BY <1>2, <1>3
<1>5. QED
  BY <1>2, <1>3, <1>4

\* Where there is a note of a class, one of them is the least useful.
LEMMA LeastUsefulExists ==
  ASSUME NEW file \in Memories(Nat), NEW c \in BOOLEAN, NEW i \in DOMAIN file.notes,
         file.notes[i].pinned = c
  PROVE  LowestUtility(file, c) # {}
<1> DEFINE ns == file.notes
           of == {j \in DOMAIN ns : ns[j].pinned = c}
           least == {j \in of : \A k \in of : ns[j].uses <= ns[k].uses}
<1>1. ns \in Seq(MemNotes(Nat))
  BY DEF Memories
<1>2. DOMAIN ns \subseteq Nat /\ \A j \in DOMAIN ns : ns[j].uses \in Nat
  <2>1. DOMAIN ns \subseteq Nat /\ \A j \in DOMAIN ns : ns[j] \in MemNotes(Nat)
    BY <1>1
  <2>2. \A n \in MemNotes(Nat) : n.uses \in Nat
    BY DEF MemNotes
  <2>3. QED
    BY <2>1, <2>2
<1>3. i \in of
  OBVIOUS
<1>4. PICK u \in {ns[j].uses : j \in of} : \A v \in {ns[j].uses : j \in of} : u <= v
  <2>1. {ns[j].uses : j \in of} \subseteq Nat /\ {ns[j].uses : j \in of} # {}
    BY <1>2, <1>3
  <2> HIDE DEF of
  <2>2. QED
    BY <2>1, LeastNatural
<1>5. least # {} /\ least \subseteq Nat
  BY <1>2, <1>4
<1>6. PICK j \in least : \A k \in least : j <= k
  <2> HIDE DEF least
  <2>1. QED
    BY <1>5, LeastNatural
<1>7. ASSUME NEW k \in of
      PROVE  ns[k].uses > ns[j].uses \/ (ns[k].uses = ns[j].uses /\ k >= j)
  <2>1. ns[j].uses <= ns[k].uses /\ ns[j].uses \in Nat /\ ns[k].uses \in Nat /\ j \in Nat /\ k \in Nat
    BY <1>2
  <2>2. ASSUME ns[k].uses = ns[j].uses
        PROVE  k \in least
    BY <2>2
  <2>3. QED
    BY <1>6, <2>1, <2>2
<1>8. j \in LowestUtility(file, c)
  BY <1>7 DEF LowestUtility
<1>9. QED
  BY <1>8

\* Where there is a fact of a class, one of them is the first.
LEMMA FirstFactExists ==
  ASSUME NEW file \in Memories(Nat), NEW c \in BOOLEAN, NEW i \in DOMAIN file.facts,
         file.facts[i].pinned = c
  PROVE  FirstFact(file, c) # {}
<1> DEFINE of == {j \in DOMAIN file.facts : file.facts[j].pinned = c}
<1>1. file.facts \in Seq(MemFacts)
  BY DEF Memories
<1>2. of \subseteq Nat /\ of # {}
  BY <1>1
<1>3. PICK j \in of : \A k \in of : j <= k
  <2> HIDE DEF of
  <2>1. QED
    BY <1>2, LeastNatural
<1>4. j \in FirstFact(file, c)
  BY <1>2, <1>3 DEF FirstFact
<1>5. QED
  BY <1>4

\* A sequence without one of its elements.
Without(r, s, i) ==
  /\ ToSet(r) \subseteq ToSet(s) /\ ToSet(s) \ ToSet(r) \subseteq {s[i]}

LEMMA RemoveAtIsWithout ==
  ASSUME NEW S, NEW s \in Seq(S), NEW i \in DOMAIN s
  PROVE  RemoveAt(s, i) \in Seq(S) /\ Without(RemoveAt(s, i), s, i)
<1>1. i \in Nat /\ i >= 1 /\ i <= Len(s) /\ Len(s) \in Nat
  OBVIOUS
<1> DEFINE a == SubSeq(s, 1, i - 1)
           b == SubSeq(s, i + 1, Len(s))
<1>2. a \in Seq(S) /\ Len(a) = i - 1 /\ \A k \in 1..(i - 1) : a[k] = s[k]
  BY <1>1
<1>3. b \in Seq(S) /\ Len(b) = Len(s) - i /\ \A k \in 1..(Len(s) - i) : b[k] = s[i + k]
  BY <1>1
<1>4. RemoveAt(s, i) = a \o b
  BY DEF RemoveAt
<1> HIDE DEF a, b
<1>5. PICK r : r = a \o b
  OBVIOUS
<1>6. r \in Seq(S) /\ Len(r) = Len(a) + Len(b)
  <2>1. a \in Seq(S) /\ b \in Seq(S)
    BY <1>2, <1>3
  <2>2. a \o b \in Seq(S) /\ Len(a \o b) = Len(a) + Len(b)
    BY <2>1
  <2>3. QED
    BY <1>5, <2>2
<1>61. /\ \A k \in 1..Len(a) : r[k] = a[k]
       /\ \A k \in 1..Len(b) : r[Len(a) + k] = b[k]
  <2>1. a \in Seq(S) /\ b \in Seq(S)
    BY <1>2, <1>3
  <2>2. /\ \A k \in 1..Len(a) : (a \o b)[k] = a[k]
        /\ \A k \in 1..Len(b) : (a \o b)[Len(a) + k] = b[k]
    BY <2>1
  <2>3. QED
    BY <1>5, <2>2
<1>62. /\ Len(a) = i - 1 /\ Len(b) = Len(s) - i /\ Len(r) = Len(s) - 1
       /\ DOMAIN r = 1..(Len(s) - 1) /\ DOMAIN s = 1..Len(s)
  BY <1>1, <1>2, <1>3, <1>6
<1>63. /\ \A k \in 1..(i - 1) : r[k] = s[k]
       /\ \A k \in 1..(Len(s) - i) : r[(i - 1) + k] = s[i + k]
  BY <1>2, <1>3, <1>61, <1>62
<1> HIDE DEF a, b
<1>7. ASSUME NEW k \in DOMAIN r
      PROVE  \E n \in DOMAIN s : r[k] = s[n]
  <2>0. k \in Nat /\ k >= 1 /\ k <= Len(s) - 1
    BY <1>1, <1>62, <1>7
  <2>1. CASE k <= i - 1
    <3>1. k \in 1..(i - 1) /\ k \in DOMAIN s
      BY <1>1, <1>62, <2>0, <2>1
    <3>2. QED
      BY <1>63, <3>1
  <2>2. CASE k > i - 1
    <3>1. PICK d \in 1..(Len(s) - i) : k = (i - 1) + d /\ i + d \in DOMAIN s
      <4>1. k - (i - 1) \in 1..(Len(s) - i) /\ k = (i - 1) + (k - (i - 1)) /\ i + (k - (i - 1)) \in 1..Len(s)
        BY <1>1, <2>0, <2>2
      <4>2. QED
        BY <1>62, <4>1
    <3>2. QED
      BY <1>63, <3>1
  <2>3. QED
    BY <1>1, <2>0, <2>1, <2>2
<1>8. ASSUME NEW n \in DOMAIN s, n # i
      PROVE  \E k \in DOMAIN r : r[k] = s[n]
  <2>0. n \in Nat /\ n >= 1 /\ n <= Len(s)
    BY <1>1, <1>62, <1>8
  <2>1. CASE n < i
    <3>1. n \in 1..(i - 1) /\ n \in DOMAIN r
      BY <1>1, <1>62, <2>0, <2>1
    <3>2. QED
      BY <1>63, <3>1
  <2>2. CASE n > i
    <3>1. PICK d \in 1..(Len(s) - i) : n = i + d /\ (i - 1) + d \in DOMAIN r
      <4>1. n - i \in 1..(Len(s) - i) /\ n = i + (n - i) /\ (i - 1) + (n - i) \in 1..(Len(s) - 1)
        BY <1>1, <2>0, <2>2
      <4>2. QED
        BY <1>62, <4>1
    <3>2. QED
      BY <1>63, <3>1
  <2>3. QED
    BY <1>1, <1>8, <2>0, <2>1, <2>2
<1>9. Without(r, s, i)
  BY <1>7, <1>8 DEF Without, ToSet
<1>10. QED
  BY <1>4, <1>5, <1>6, <1>9

-----------------------------------------------------------------------------
(* MemoryStore: rounds of eviction.                                        *)

\* What a round takes, by the entries of the file before and after: the least useful
\* unpinned note, or a pinned one of nothing but pinned notes; an unpinned fact of a
\* file without notes, or a pinned one of nothing but pinned facts.
NoteRound(file, g) ==
  /\ ToSet(g.facts) = ToSet(file.facts)
  /\ \E n \in ToSet(file.notes) :
       /\ ToSet(g.notes) \subseteq ToSet(file.notes) /\ ToSet(file.notes) \ ToSet(g.notes) \subseteq {n}
       /\ n.pinned => \A m \in ToSet(file.notes) : m.pinned
       /\ ~n.pinned => \A m \in ToSet(file.notes) : ~m.pinned => n.uses <= m.uses
FactRound(file, g) ==
  /\ ToSet(file.notes) = {} /\ ToSet(g.notes) = {}
  /\ \E f \in ToSet(file.facts) :
       /\ ToSet(g.facts) \subseteq ToSet(file.facts) /\ ToSet(file.facts) \ ToSet(g.facts) \subseteq {f}
       /\ f.pinned => \A h \in ToSet(file.facts) : h.pinned

\* Such a round takes nothing that is worth more than what stays.
LEMMA RoundsKeepUseful ==
  ASSUME NEW had, NEW file, NEW g, KeepsUseful(had, file), NoteRound(file, g) \/ FactRound(file, g)
  PROVE  KeepsUseful(had, g)
<1> DEFINE H == ToSet(had.notes)
           A == ToSet(file.notes)
           B == ToSet(g.notes)
           HF == ToSet(had.facts)
           F == ToSet(file.facts)
           G == ToSet(g.facts)
<1>1. /\ \A n \in H \ A, m \in A : ~m.pinned => ~n.pinned /\ n.uses <= m.uses
      /\ HF \ F # {} => A = {}
      /\ (\E f \in HF \ F : f.pinned) => \A f \in F : f.pinned
  BY DEF KeepsUseful
<1>2. SUFFICES /\ \A n \in H \ B, m \in B : ~m.pinned => ~n.pinned /\ n.uses <= m.uses
               /\ HF \ G # {} => B = {}
               /\ (\E f \in HF \ G : f.pinned) => \A f \in G : f.pinned
  BY DEF KeepsUseful
<1>3. CASE NoteRound(file, g)
  <2>1. G = F
    BY <1>3 DEF NoteRound
  <2>2. PICK n \in A : /\ B \subseteq A /\ A \ B \subseteq {n}
                       /\ n.pinned => \A m \in A : m.pinned
                       /\ ~n.pinned => \A m \in A : ~m.pinned => n.uses <= m.uses
    BY <1>3 DEF NoteRound
  <2> HIDE DEF H, A, B, HF, F, G
  <2>3. ASSUME NEW x \in H \ B, NEW m \in B, ~m.pinned
        PROVE  ~x.pinned /\ x.uses <= m.uses
    <3>1. x \in H \ A \/ x = n
      BY <2>2
    <3>2. m \in A
      BY <2>2
    <3>3. ~n.pinned /\ n.uses <= m.uses
      BY <2>2, <2>3, <3>2
    <3>4. QED
      BY <1>1, <2>3, <3>1, <3>2, <3>3
  <2>4. HF \ F = {}
    BY <1>1, <2>2
  <2>5. QED
    BY <2>1, <2>3, <2>4
<1>4. CASE FactRound(file, g)
  <2>1. A = {} /\ B = {}
    BY <1>4 DEF FactRound
  <2>2. PICK f \in F : /\ G \subseteq F /\ F \ G \subseteq {f}
                       /\ f.pinned => \A h \in F : h.pinned
    BY <1>4 DEF FactRound
  <2> HIDE DEF H, A, B, HF, F, G
  <2>3. ASSUME NEW x \in HF \ G, x.pinned, NEW h \in G
        PROVE  h.pinned
    <3>1. x \in HF \ F \/ x = f
      BY <2>2
    <3>2. h \in F
      BY <2>2
    <3>3. QED
      BY <1>1, <2>2, <2>3, <3>1, <3>2
  <2>4. QED
    BY <2>1, <2>3
<1>5. QED
  BY <1>3, <1>4

\* An element of a file's notes or facts, and its place.
LEMMA EntriesHaveFields ==
  ASSUME NEW U, U \subseteq Nat, NEW file \in Memories(U)
  PROVE  /\ file \in Memories(Nat)
         /\ file.notes \in Seq(MemNotes(U)) /\ file.facts \in Seq(MemFacts)
         /\ \A i \in DOMAIN file.notes : file.notes[i].pinned \in BOOLEAN
         /\ \A i \in DOMAIN file.facts : file.facts[i].pinned \in BOOLEAN
<1>1. file.notes \in Seq(MemNotes(U)) /\ file.facts \in Seq(MemFacts) /\ file = [facts |-> file.facts, notes |-> file.notes]
  BY DEF Memories
<1>2. MemNotes(U) \subseteq MemNotes(Nat)
  BY DEF MemNotes
<1>3. \A i \in DOMAIN file.notes : file.notes[i] \in MemNotes(U)
  BY <1>1
<1>4. \A i \in DOMAIN file.facts : file.facts[i] \in MemFacts
  BY <1>1
<1>5. file.notes \in Seq(MemNotes(Nat))
  BY <1>1, <1>2, <1>3
<1>6. file \in Memories(Nat)
  BY <1>1, <1>5 DEF Memories
<1>7. (\A n \in MemNotes(U) : n.pinned \in BOOLEAN) /\ (\A f \in MemFacts : f.pinned \in BOOLEAN)
  BY DEF MemNotes, MemFacts
<1>8. QED
  BY <1>1, <1>3, <1>4, <1>6, <1>7

\* evict takes from the first class that is not empty, and there is one.
LEMMA FirstClass ==
  ASSUME NEW file \in Memories(Nat), Size(file) > 1
  PROVE  \E n \in 1..4 : /\ OneLess(file) \in Evictions(file)[n]
                         /\ \A m \in 1..(n - 1) : Evictions(file)[m] = {}
<1>0. /\ file.notes \in Seq(MemNotes(Nat)) /\ file.facts \in Seq(MemFacts)
      /\ \A i \in DOMAIN file.notes : file.notes[i].pinned \in BOOLEAN
      /\ \A i \in DOMAIN file.facts : file.facts[i].pinned \in BOOLEAN
  BY EntriesHaveFields
<1>1. /\ Evictions(file)[1] = WithoutNote(file, FALSE) /\ Evictions(file)[2] = WithoutNote(file, TRUE)
      /\ Evictions(file)[3] = WithoutFact(file, FALSE) /\ Evictions(file)[4] = WithoutFact(file, TRUE)
  BY DEF Evictions
<1> DEFINE E == {n \in 1..4 : Evictions(file)[n] # {}}
<1>2. E # {}
  <2>1. DOMAIN file.notes # {} \/ DOMAIN file.facts # {}
    <3>1. PICK s \in Seq(MemNotes(Nat)), r \in Seq(MemFacts) : s = file.notes /\ r = file.facts
      BY <1>0
    <3>2. Len(r) + Len(s) > 1
      BY <3>1 DEF Size
    <3>3. Len(r) \in Nat /\ Len(s) \in Nat /\ DOMAIN r = 1..Len(r) /\ DOMAIN s = 1..Len(s)
      OBVIOUS
    <3>4. 1 \in DOMAIN r \/ 1 \in DOMAIN s
      BY <3>2, <3>3
    <3>5. QED
      BY <3>1, <3>4
  <2>2. CASE DOMAIN file.notes # {}
    <3>1. PICK i \in DOMAIN file.notes : TRUE
      BY <2>2
    <3>2. PICK c \in BOOLEAN : file.notes[i].pinned = c
      BY <1>0
    <3>3. LowestUtility(file, c) # {}
      BY <3>2, LeastUsefulExists
    <3>4. WithoutNote(file, c) # {}
      BY <3>3 DEF WithoutNote
    <3>5. Evictions(file)[1] # {} \/ Evictions(file)[2] # {}
      BY <1>1, <3>4
    <3>6. 1 \in 1..4 /\ 2 \in 1..4
      OBVIOUS
    <3>7. QED
      BY <3>5, <3>6
  <2>3. CASE DOMAIN file.facts # {}
    <3>1. PICK i \in DOMAIN file.facts : TRUE
      BY <2>3
    <3>2. PICK c \in BOOLEAN : file.facts[i].pinned = c
      BY <1>0
    <3>3. FirstFact(file, c) # {}
      BY <3>2, FirstFactExists
    <3>4. WithoutFact(file, c) # {}
      BY <3>3 DEF WithoutFact
    <3>5. Evictions(file)[3] # {} \/ Evictions(file)[4] # {}
      BY <1>1, <3>4
    <3>6. 3 \in 1..4 /\ 4 \in 1..4
      OBVIOUS
    <3>7. QED
      BY <3>5, <3>6
  <2>4. QED
    BY <2>1, <2>2, <2>3
<1> DEFINE IsFirst(n) == Evictions(file)[n] # {} /\ \A m \in 1..(n - 1) : Evictions(file)[m] = {}
<1>3. \E n \in 1..4 : IsFirst(n)
  <2>1. E \subseteq Nat
    OBVIOUS
  <2>2. PICK n \in E : \A m \in E : n <= m
    <3> HIDE DEF E
    <3>1. QED
      BY <1>2, <2>1, LeastNatural
  <2>3. n \in 1..4 /\ Evictions(file)[n] # {}
    OBVIOUS
  <2>4. ASSUME NEW m \in 1..(n - 1)
        PROVE  Evictions(file)[m] = {}
    <3>1. m \in 1..4 /\ ~(n <= m)
      BY <2>3
    <3>2. QED
      BY <2>2, <3>1
  <2>5. QED
    BY <2>3, <2>4
<1> DEFINE first == CHOOSE n \in 1..4 : IsFirst(n)
<1>4. first \in 1..4 /\ IsFirst(first)
  <2> HIDE DEF IsFirst
  <2>1. QED
    BY <1>3
<1>5. OneLess(file) = CHOOSE f \in Evictions(file)[first] : TRUE
  BY DEF OneLess
<1>6. OneLess(file) \in Evictions(file)[first]
  BY <1>4, <1>5
<1>7. QED
  BY <1>4, <1>6

\* A round of evict keeps a file a file and takes a note or a fact as above.
LEMMA OneLessIsARound ==
  ASSUME NEW U, U \subseteq Nat, NEW file \in Memories(U), Size(file) > 1
  PROVE  /\ OneLess(file) \in Memories(U)
         /\ NoteRound(file, OneLess(file)) \/ FactRound(file, OneLess(file))
<1>0. /\ file \in Memories(Nat)
      /\ file.notes \in Seq(MemNotes(U)) /\ file.facts \in Seq(MemFacts)
      /\ \A i \in DOMAIN file.notes : file.notes[i].pinned \in BOOLEAN
      /\ \A i \in DOMAIN file.facts : file.facts[i].pinned \in BOOLEAN
  BY EntriesHaveFields
<1>1. PICK g : g = OneLess(file)
  OBVIOUS
<1>2. PICK n \in 1..4 : /\ g \in Evictions(file)[n]
                        /\ \A m \in 1..(n - 1) : Evictions(file)[m] = {}
  BY <1>0, <1>1, FirstClass
<1>3. /\ Evictions(file)[1] = WithoutNote(file, FALSE) /\ Evictions(file)[2] = WithoutNote(file, TRUE)
      /\ Evictions(file)[3] = WithoutFact(file, FALSE) /\ Evictions(file)[4] = WithoutFact(file, TRUE)
  BY DEF Evictions
<1>4. n = 1 \/ n = 2 \/ n = 3 \/ n = 4
  OBVIOUS
<1>5. ASSUME n # 1
      PROVE  \A i \in DOMAIN file.notes : file.notes[i].pinned = TRUE
  <2>1. WithoutNote(file, FALSE) = {}
    <3>1. 1 \in 1..(n - 1)
      BY <1>4, <1>5
    <3>2. Evictions(file)[1] = {}
      BY <1>2, <3>1
    <3>3. QED
      BY <1>3, <3>2
  <2>2. LowestUtility(file, FALSE) = {}
    BY <2>1 DEF WithoutNote
  <2>3. QED
    BY <1>0, <2>2, LeastUsefulExists
<1>6. ASSUME n # 1, n # 2
      PROVE  DOMAIN file.notes = {}
  <2>1. WithoutNote(file, TRUE) = {}
    <3>1. 2 \in 1..(n - 1)
      BY <1>4, <1>6
    <3>2. Evictions(file)[2] = {}
      BY <1>2, <3>1
    <3>3. QED
      BY <1>3, <3>2
  <2>2. LowestUtility(file, TRUE) = {}
    BY <2>1 DEF WithoutNote
  <2>3. QED
    BY <1>0, <1>5, <1>6, <2>2, LeastUsefulExists
<1>7. ASSUME n = 4
      PROVE  \A i \in DOMAIN file.facts : file.facts[i].pinned = TRUE
  <2>1. WithoutFact(file, FALSE) = {}
    <3>1. 3 \in 1..(n - 1)
      BY <1>7
    <3>2. Evictions(file)[3] = {}
      BY <1>2, <3>1
    <3>3. QED
      BY <1>3, <3>2
  <2>2. FirstFact(file, FALSE) = {}
    BY <2>1 DEF WithoutFact
  <2>3. QED
    BY <1>0, <2>2, FirstFactExists
<1>8. ASSUME n = 1 \/ n = 2
      PROVE  g \in Memories(U) /\ NoteRound(file, g)
  <2>1. PICK c \in BOOLEAN : g \in WithoutNote(file, c) /\ (c => n # 1)
    BY <1>2, <1>3, <1>8
  <2>2. PICK i \in LowestUtility(file, c) : g = [file EXCEPT !.notes = RemoveAt(@, i)]
    BY <2>1 DEF WithoutNote
  <2>3. /\ i \in DOMAIN file.notes /\ file.notes[i].pinned = c
        /\ \A j \in DOMAIN file.notes : file.notes[j].pinned = c =>
             \/ file.notes[j].uses > file.notes[i].uses
             \/ file.notes[j].uses = file.notes[i].uses /\ j >= i
    BY <2>2 DEF LowestUtility
  <2>4. PICK r : r = RemoveAt(file.notes, i)
    OBVIOUS
  <2>5. r \in Seq(MemNotes(U)) /\ Without(r, file.notes, i)
    BY <1>0, <2>3, <2>4, RemoveAtIsWithout
  <2>6. g.notes = r /\ g.facts = file.facts /\ g \in Memories(U)
    BY <1>0, <2>2, <2>4, <2>5 DEF Memories
  <2>7. \A j \in DOMAIN file.notes : file.notes[j].uses \in Nat
    <3>1. \A j \in DOMAIN file.notes : file.notes[j] \in MemNotes(U)
      BY <1>0
    <3>2. \A m \in MemNotes(U) : m.uses \in U
      BY DEF MemNotes
    <3>3. QED
      BY <3>1, <3>2
  <2>8. ToSet(file.notes) = {file.notes[j] : j \in DOMAIN file.notes}
    BY DEF ToSet
  <2>9. c => \A m \in ToSet(file.notes) : m.pinned
    BY <1>5, <2>1, <2>8
  <2>10. ~c => \A m \in ToSet(file.notes) : ~m.pinned => file.notes[i].uses <= m.uses
    <3>1. SUFFICES ASSUME ~c, NEW j \in DOMAIN file.notes, ~file.notes[j].pinned
                   PROVE  file.notes[i].uses <= file.notes[j].uses
      BY <2>8
    <3>2. file.notes[j].pinned = c
      BY <1>0, <3>1
    <3>3. QED
      BY <2>3, <2>7, <3>2
  <2>11. file.notes[i] \in ToSet(file.notes)
    BY <2>3, <2>8
  <2>12. QED
    BY <2>3, <2>5, <2>6, <2>9, <2>10, <2>11 DEF NoteRound, Without
<1>9. ASSUME n = 3 \/ n = 4
      PROVE  g \in Memories(U) /\ FactRound(file, g)
  <2>1. PICK c \in BOOLEAN : g \in WithoutFact(file, c) /\ (c => n = 4)
    BY <1>2, <1>3, <1>9
  <2>2. PICK i \in FirstFact(file, c) : g = [file EXCEPT !.facts = RemoveAt(@, i)]
    BY <2>1 DEF WithoutFact
  <2>3. i \in DOMAIN file.facts /\ file.facts[i].pinned = c
    BY <2>2 DEF FirstFact
  <2>4. PICK r : r = RemoveAt(file.facts, i)
    OBVIOUS
  <2>5. r \in Seq(MemFacts) /\ Without(r, file.facts, i)
    BY <1>0, <2>3, <2>4, RemoveAtIsWithout
  <2>6. g.facts = r /\ g.notes = file.notes /\ g \in Memories(U)
    BY <1>0, <2>2, <2>4, <2>5 DEF Memories
  <2>7. ToSet(file.facts) = {file.facts[j] : j \in DOMAIN file.facts}
    BY DEF ToSet
  <2>8. ToSet(file.notes) = {} /\ ToSet(g.notes) = {}
    <3>1. DOMAIN file.notes = {}
      BY <1>6, <1>9
    <3>2. QED
      BY <2>6, <3>1 DEF ToSet
  <2>9. c => \A h \in ToSet(file.facts) : h.pinned
    BY <1>7, <2>1, <2>7
  <2>10. file.facts[i] \in ToSet(file.facts)
    BY <2>3, <2>7
  <2>11. QED
    BY <2>3, <2>5, <2>6, <2>8, <2>9, <2>10 DEF FactRound, Without
<1>10. QED
  BY <1>1, <1>4, <1>8, <1>9

LEMMA ShrunkKeepsUseful ==
  ASSUME NEW U, U \subseteq Nat, NEW file \in Memories(U), NEW had, KeepsUseful(had, file)
  PROVE  Shrunk(file) \in Memories(U) /\ KeepsUseful(had, Shrunk(file))
<1>1. CASE Size(file) > Cap /\ Size(file) > 1
  <2>1. PICK g : g = OneLess(file)
    OBVIOUS
  <2>2. g \in Memories(U) /\ (NoteRound(file, g) \/ FactRound(file, g))
    BY <1>1, <2>1, OneLessIsARound
  <2>3. KeepsUseful(had, g)
    BY <2>2, RoundsKeepUseful
  <2>4. QED
    BY <1>1, <2>1, <2>2, <2>3 DEF Shrunk
<1>2. CASE ~(Size(file) > Cap /\ Size(file) > 1)
  BY <1>2 DEF Shrunk
<1>3. QED
  BY <1>1, <1>2

\* evict's recursive function on a file, up to n.
ShrinkStep(f, file, n) == IF n = 0 THEN file ELSE Shrunk(f[n - 1])
Shrinks(f, file, k) == f = [n \in 0..k |-> ShrinkStep(f, file, n)]

LEMMA ShrinksAt ==
  ASSUME NEW f, NEW file, NEW k, Shrinks(f, file, k), NEW n \in 0..k
  PROVE  f[n] = ShrinkStep(f, file, n)
BY DEF Shrinks

LEMMA ShrinksExists ==
  ASSUME NEW file, NEW k \in Nat
  PROVE  \E f : Shrinks(f, file, k)
<1> DEFINE S == {m \in Nat : \E f : Shrinks(f, file, m)}
<1>1. 0 \in S
  <2>1. Shrinks([n \in 0..0 |-> file], file, 0)
    BY DEF Shrinks, ShrinkStep
  <2>2. QED
    BY <2>1
<1>2. ASSUME NEW m \in Nat, m \in S
      PROVE  m + 1 \in S
  <2>1. PICK f : Shrinks(f, file, m)
    BY <1>2
  <2> DEFINE g == [n \in 0..(m + 1) |-> ShrinkStep(f, file, n)]
  <2>2. \A n \in 0..m : n \in 0..(m + 1) /\ f[n] = g[n]
    BY <2>1, ShrinksAt
  <2>3. \A n \in 0..(m + 1) : ShrinkStep(f, file, n) = ShrinkStep(g, file, n)
    <3> HIDE DEF g
    <3>1. \A n \in 0..(m + 1) : n # 0 => n - 1 \in 0..m
      OBVIOUS
    <3>2. QED
      BY <2>2, <3>1 DEF ShrinkStep
  <2>4. Shrinks(g, file, m + 1)
    BY <2>3 DEF Shrinks
  <2>5. QED
    BY <2>4
<1>3. Nat \subseteq S
  <2> HIDE DEF S
  <2>1. QED
    BY <1>1, <1>2, SetInduction
<1>4. QED
  BY <1>3

\* What evict leaves of a file is a file, and nothing it took was worth more.
LEMMA EvictedKeepsUseful ==
  ASSUME NEW U, U \subseteq Nat, NEW file \in Memories(U)
  PROVE  Evicted(file) \in Memories(U) /\ KeepsUseful(file, Evicted(file))
<1>1. Size(file) \in Nat
  <2>1. PICK s \in Seq(MemNotes(U)), r \in Seq(MemFacts) : s = file.notes /\ r = file.facts
    BY EntriesHaveFields
  <2>2. Len(r) \in Nat /\ Len(s) \in Nat
    OBVIOUS
  <2>3. Len(r) + Len(s) \in Nat
    BY <2>2
  <2>4. QED
    BY <2>1, <2>3 DEF Size
<1>2. PICK k \in Nat : k = Size(file)
  BY <1>1
<1> DEFINE f == CHOOSE f : Shrinks(f, file, k)
<1>3. Shrinks(f, file, k)
  BY ShrinksExists
<1>4. Evicted(file) = f[k]
  BY <1>2 DEF Evicted, Shrinks, ShrinkStep
<1> HIDE DEF f
<1> DEFINE S == {n \in Nat : n <= k => f[n] \in Memories(U) /\ KeepsUseful(file, f[n])}
<1>5. 0 \in S
  <2>1. 0 \in 0..k
    BY <1>2
  <2>2. f[0] = ShrinkStep(f, file, 0)
    BY <1>3, <2>1, ShrinksAt
  <2>3. f[0] = file
    BY <2>2 DEF ShrinkStep
  <2>4. KeepsUseful(file, file)
    BY DEF KeepsUseful
  <2>5. QED
    BY <2>3, <2>4
<1>6. ASSUME NEW n \in Nat, n \in S
      PROVE  n + 1 \in S
  <2>1. SUFFICES ASSUME n + 1 <= k
                 PROVE  f[n + 1] \in Memories(U) /\ KeepsUseful(file, f[n + 1])
    OBVIOUS
  <2>2. n <= k /\ n + 1 \in 0..k /\ n + 1 # 0 /\ (n + 1) - 1 = n
    BY <2>1
  <2>3. PICK g : g = f[n]
    OBVIOUS
  <2>4. f[n + 1] = ShrinkStep(f, file, n + 1)
    BY <1>3, <2>2, ShrinksAt
  <2>5. f[n + 1] = Shrunk(g)
    BY <2>2, <2>3, <2>4 DEF ShrinkStep
  <2>6. g \in Memories(U) /\ KeepsUseful(file, g)
    BY <1>6, <2>2, <2>3
  <2>7. Shrunk(g) \in Memories(U) /\ KeepsUseful(file, Shrunk(g))
    BY <2>6, ShrunkKeepsUseful
  <2>8. QED
    BY <2>5, <2>7
<1>7. Nat \subseteq S
  <2> HIDE DEF S
  <2>1. QED
    BY <1>5, <1>6, SetInduction
<1>8. k \in S
  BY <1>7
<1>9. QED
  BY <1>2, <1>4, <1>8

-----------------------------------------------------------------------------
(* MemoryStore: what is written.                                           *)

\* What a process may be writing, and the files there are.
Writings(U) == {Nothing} \cup [kind : {"fact", "note", "uses"}, file : Memories(U)]
FilesIn(mem, wr, U) == mem \in Memories(U) /\ wr \in [Sessions -> Writings(U)]

LEMMA SequenceOver ==
  ASSUME NEW S, NEW T, NEW s \in Seq(S), NEW f \in [DOMAIN s -> T]
  PROVE  f \in Seq(T)
<1>1. DOMAIN s = 1..Len(s) /\ Len(s) \in Nat
  OBVIOUS
<1>2. f \in [1..Len(s) -> T]
  BY <1>1
<1>3. QED
  BY <1>1, <1>2

\* A note after Parse and Marshal.
Reparsed(n) == [n EXCEPT !.text = Parsed(@), !.pinned = @ \/ n.text.mark # ""]

LEMMA ReparsedIsNote ==
  ASSUME NEW U, NEW n \in MemNotes(U)
  PROVE  Reparsed(n) \in MemNotes(U)
<1>1. n = [text |-> n.text, pinned |-> n.pinned, uses |-> n.uses] /\ n.text \in Text /\ n.pinned \in BOOLEAN /\ n.uses \in U
  BY DEF MemNotes
<1>2. Parsed(n.text) \in Text
  <2>1. PICK t \in Text : t = n.text
    BY <1>1
  <2>2. PICK b \in Bodies, m \in {t.mark} : t = [body |-> b, mark |-> m]
    BY DEF Text
  <2>3. PICK e : e = ""
    OBVIOUS
  <2>4. [t EXCEPT !.mark = e] = [body |-> b, mark |-> e]
    <3> HIDE <2>3
    <3>1. QED
      BY <2>2
  <2>5. [body |-> b, mark |-> e] \in Text
    BY <2>3 DEF Text
  <2>6. Parsed(n.text) = [t EXCEPT !.mark = e]
    BY <2>1, <2>3 DEF Parsed
  <2>7. QED
    BY <2>4, <2>5, <2>6
<1>3. PICK t \in Text : t = Parsed(n.text)
  BY <1>2
<1>4. PICK b \in BOOLEAN : b = (n.pinned \/ n.text.mark # "")
  OBVIOUS
<1>5. [n EXCEPT !.text = t, !.pinned = b] = [text |-> t, pinned |-> b, uses |-> n.uses]
  <2>1. PICK m : m = [n EXCEPT !.text = t]
    OBVIOUS
  <2>2. m = [text |-> t, pinned |-> n.pinned, uses |-> n.uses]
    BY <1>1, <2>1
  <2>3. [m EXCEPT !.pinned = b] = [text |-> t, pinned |-> b, uses |-> n.uses]
    BY <2>2
  <2>4. QED
    BY <2>1, <2>3
<1>6. [text |-> t, pinned |-> b, uses |-> n.uses] \in MemNotes(U)
  BY <1>1 DEF MemNotes
<1>7. Reparsed(n) = [n EXCEPT !.text = t, !.pinned = b]
  BY <1>3, <1>4 DEF Reparsed
<1>8. QED
  BY <1>5, <1>6, <1>7

LEMMA RereadIsFile ==
  ASSUME NEW U, U \subseteq Nat, NEW file \in Memories(U)
  PROVE  Reread(file) \in Memories(U)
<1>1. file.notes \in Seq(MemNotes(U)) /\ file.facts \in Seq(MemFacts)
  BY EntriesHaveFields
<1>2. PICK ns : ns = [i \in DOMAIN file.notes |-> Reparsed(file.notes[i])]
  OBVIOUS
<1>3. \A i \in DOMAIN file.notes : file.notes[i] \in MemNotes(U)
  BY <1>1
<1>4. \A i \in DOMAIN file.notes : Reparsed(file.notes[i]) \in MemNotes(U)
  BY <1>3, ReparsedIsNote
<1>5. ns \in [DOMAIN file.notes -> MemNotes(U)]
  BY <1>2, <1>4
<1>6. ns \in Seq(MemNotes(U))
  BY <1>1, <1>5, SequenceOver
<1>7. Reread(file) = [facts |-> file.facts, notes |-> ns]
  BY <1>2 DEF Reread, Reparsed
<1>8. QED
  BY <1>1, <1>6, <1>7 DEF Memories

LEMMA WithFactIsFile ==
  ASSUME NEW U, U \subseteq Nat, NEW file \in Memories(U), NEW f \in MemFacts
  PROVE  WithFact(file, f) \in Memories(U)
<1>1. /\ file.notes \in Seq(MemNotes(U)) /\ file.facts \in Seq(MemFacts)
      /\ file = [facts |-> file.facts, notes |-> file.notes]
  BY DEF Memories
<1> DEFINE same == {i \in DOMAIN file.facts : file.facts[i].key = f.key}
           first == CHOOSE i \in same : \A j \in same : i <= j
<1>2. CASE same = {}
  <2>1. WithFact(file, f) = [file EXCEPT !.facts = Append(@, f)]
    BY <1>2 DEF WithFact
  <2>2. PICK fs : fs = Append(file.facts, f)
    OBVIOUS
  <2>3. fs \in Seq(MemFacts)
    BY <1>1, <2>2
  <2>4. WithFact(file, f) = [facts |-> fs, notes |-> file.notes]
    <3>1. WithFact(file, f) = [file EXCEPT !.facts = fs]
      BY <2>1, <2>2
    <3>2. [file EXCEPT !.facts = fs] = [facts |-> fs, notes |-> file.notes]
      BY <1>1
    <3>3. QED
      BY <3>1, <3>2
  <2>5. QED
    BY <1>1, <2>3, <2>4 DEF Memories
<1>3. CASE same # {}
  <2>1. WithFact(file, f) = [file EXCEPT !.facts[first] = f]
    BY <1>3 DEF WithFact
  <2> HIDE DEF first
  <2>2. PICK fs : fs = [file.facts EXCEPT ![first] = f]
    OBVIOUS
  <2>3. fs \in [DOMAIN file.facts -> MemFacts]
    <3>1. file.facts \in [DOMAIN file.facts -> MemFacts]
      BY <1>1
    <3>2. QED
      BY <2>2, <3>1
  <2>4. fs \in Seq(MemFacts)
    BY <1>1, <2>3, SequenceOver
  <2>5. WithFact(file, f) = [facts |-> fs, notes |-> file.notes]
    <3>1. WithFact(file, f) = [file EXCEPT !.facts = fs]
      BY <2>1, <2>2
    <3>2. [file EXCEPT !.facts = fs] = [facts |-> fs, notes |-> file.notes]
      BY <1>1
    <3>3. QED
      BY <3>1, <3>2
  <2>6. QED
    BY <1>1, <2>4, <2>5 DEF Memories
<1>4. QED
  BY <1>2, <1>3

LEMMA WithNoteIsFile ==
  ASSUME NEW U, U \subseteq Nat, 0 \in U, NEW file \in Memories(U), NEW t \in Text, NEW pinned \in BOOLEAN
  PROVE  [file EXCEPT !.notes = Append(@, Note(t, pinned))] \in Memories(U)
<1>1. /\ file.notes \in Seq(MemNotes(U)) /\ file.facts \in Seq(MemFacts)
      /\ file = [facts |-> file.facts, notes |-> file.notes]
  BY DEF Memories
<1>2. PICK n : n = Note(t, pinned)
  OBVIOUS
<1>3. n \in MemNotes(U)
  BY <1>2 DEF Note, MemNotes
<1>4. PICK ns : ns = Append(file.notes, n)
  OBVIOUS
<1>5. ns \in Seq(MemNotes(U))
  BY <1>1, <1>3, <1>4
<1>6. [file EXCEPT !.notes = Append(@, Note(t, pinned))] = [facts |-> file.facts, notes |-> ns]
  <2>1. [file EXCEPT !.notes = Append(@, Note(t, pinned))] = [file EXCEPT !.notes = ns]
    BY <1>2, <1>4
  <2>2. [file EXCEPT !.notes = ns] = [facts |-> file.facts, notes |-> ns]
    BY <1>1
  <2>3. QED
    BY <2>1, <2>2
<1>7. QED
  BY <1>1, <1>5, <1>6 DEF Memories

LEMMA CountedIsFile ==
  ASSUME NEW U, U \subseteq Nat, NEW V, V \subseteq Nat, U \subseteq V, \A u \in U : u + 1 \in V,
         NEW file \in Memories(U), NEW counted
  PROVE  Counted(file, counted) \in Memories(V)
<1>1. /\ file.notes \in Seq(MemNotes(U)) /\ file.facts \in Seq(MemFacts)
      /\ file = [facts |-> file.facts, notes |-> file.notes]
  BY DEF Memories
<1> DEFINE More(n) == [n EXCEPT !.uses = @ + 1]
<1>2. ASSUME NEW n \in MemNotes(U)
      PROVE  More(n) \in MemNotes(V) /\ n \in MemNotes(V)
  <2>1. n = [text |-> n.text, pinned |-> n.pinned, uses |-> n.uses] /\ n.text \in Text /\ n.pinned \in BOOLEAN /\ n.uses \in U
    BY DEF MemNotes
  <2>2. More(n) = [text |-> n.text, pinned |-> n.pinned, uses |-> n.uses + 1]
    BY <2>1
  <2>3. n.uses + 1 \in V /\ n.uses \in V
    BY <2>1
  <2> HIDE DEF More
  <2>4. QED
    BY <2>1, <2>2, <2>3 DEF MemNotes
<1>3. PICK ns : ns = [i \in DOMAIN file.notes |-> IF i \in counted THEN More(file.notes[i]) ELSE file.notes[i]]
  OBVIOUS
<1>4. Counted(file, counted) = [facts |-> file.facts, notes |-> ns]
  <2>1. Counted(file, counted) = [file EXCEPT !.notes = ns]
    BY <1>3 DEF Counted
  <2>2. [file EXCEPT !.notes = ns] = [facts |-> file.facts, notes |-> ns]
    BY <1>1
  <2>3. QED
    BY <2>1, <2>2
<1>5. \A i \in DOMAIN file.notes : file.notes[i] \in MemNotes(U)
  BY <1>1
<1>6. ns \in [DOMAIN file.notes -> MemNotes(V)]
  <2> HIDE DEF More
  <2>1. QED
    BY <1>2, <1>3, <1>5
<1>7. ns \in Seq(MemNotes(V))
  BY <1>1, <1>6, SequenceOver
<1>8. QED
  BY <1>1, <1>4, <1>7 DEF Memories

LEMMA FilesGrow ==
  ASSUME NEW U, NEW V, U \subseteq V
  PROVE  Memories(U) \subseteq Memories(V) /\ Writings(U) \subseteq Writings(V)
<1>1. MemNotes(U) \subseteq MemNotes(V)
  BY DEF MemNotes
<1>2. Seq(MemNotes(U)) \subseteq Seq(MemNotes(V))
  <2> SUFFICES ASSUME NEW s \in Seq(MemNotes(U)) PROVE s \in Seq(MemNotes(V))
    OBVIOUS
  <2>1. s \in [DOMAIN s -> MemNotes(V)]
    BY <1>1
  <2>2. QED
    BY <2>1, SequenceOver
<1>3. Memories(U) \subseteq Memories(V)
  BY <1>2 DEF Memories
<1>4. QED
  BY <1>3 DEF Writings

LEMMA BeginsWriting ==
  ASSUME NEW U, writing \in [Sessions -> Writings(U)], NEW p \in Sessions, NEW k \in {"fact", "note", "uses"},
         NEW file \in Memories(U), Begin(p, [kind |-> k, file |-> file])
  PROVE  writing' \in [Sessions -> Writings(U)]
<1>1. [kind |-> k, file |-> file] \in Writings(U)
  BY DEF Writings
<1>2. QED
  BY <1>1 DEF Begin

\* Notes counted within U stay counted within V, where V has room for one more use if
\* uses are recorded.
LEMMA FilesStep ==
  ASSUME NEW U, U \subseteq Nat, 0 \in U, NEW V, V \subseteq Nat, U \subseteq V,
         (\E p \in Sessions : RecordUses(p)) => \A u \in U : u + 1 \in V,
         FilesIn(memory, writing, U), [MemNext]_memVars
  PROVE  FilesIn(memory', writing', V)
<1>1. memory \in Memories(U) /\ writing \in [Sessions -> Writings(U)]
  BY DEF FilesIn
<1>2. Memories(U) \subseteq Memories(V) /\ Writings(U) \subseteq Writings(V)
  BY FilesGrow
<1>3. memory \in Memories(V) /\ writing \in [Sessions -> Writings(V)]
  BY <1>1, <1>2
<1>4. Reread(memory) \in Memories(U)
  BY <1>1, RereadIsFile
<1>5. CASE UNCHANGED memVars
  BY <1>3, <1>5 DEF FilesIn, memVars
<1>6. CASE EditByHand
  <2>1. writing' = writing
    BY <1>6 DEF EditByHand
  <2>2. ASSUME NEW t \in Text, memory' = [memory EXCEPT !.notes = Append(@, Note(t, TRUE))]
        PROVE  memory' \in Memories(U)
    <3>1. TRUE \in BOOLEAN
      OBVIOUS
    <3>2. [memory EXCEPT !.notes = Append(@, Note(t, TRUE))] \in Memories(U)
      BY <1>1, <3>1, WithNoteIsFile
    <3>3. QED
      BY <2>2, <3>2
  <2>3. ASSUME NEW k \in FactKeys, memory' = [memory EXCEPT !.facts = Append(@, Fact(k, FALSE))]
        PROVE  memory' \in Memories(U)
    <3>1. /\ memory.notes \in Seq(MemNotes(U)) /\ memory.facts \in Seq(MemFacts)
          /\ memory = [facts |-> memory.facts, notes |-> memory.notes]
      BY <1>1 DEF Memories
    <3>2. PICK f \in MemFacts : f = Fact(k, FALSE)
      BY DEF Fact, MemFacts
    <3>3. PICK fs : fs = Append(memory.facts, f)
      OBVIOUS
    <3>4. fs \in Seq(MemFacts)
      BY <3>1, <3>3
    <3>5. memory' = [facts |-> fs, notes |-> memory.notes]
      <4>1. memory' = [memory EXCEPT !.facts = fs]
        BY <2>3, <3>2, <3>3
      <4>2. [memory EXCEPT !.facts = fs] = [facts |-> fs, notes |-> memory.notes]
        BY <3>1
      <4>3. QED
        BY <4>1, <4>2
    <3>6. QED
      BY <3>1, <3>4, <3>5 DEF Memories
  <2>4. memory' \in Memories(U)
    BY <1>6, <2>2, <2>3 DEF EditByHand
  <2>5. QED
    BY <1>2, <1>3, <2>1, <2>4 DEF FilesIn
<1>7. ASSUME NEW p \in Sessions, SetFact(p)
      PROVE  FilesIn(memory', writing', V)
  <2>1. PICK k \in FactKeys, pinned \in BOOLEAN :
          Begin(p, [kind |-> "fact", file |-> WithFact(Reread(memory), Fact(k, pinned))])
    BY <1>7 DEF SetFact
  <2>2. PICK f \in MemFacts : f = Fact(k, pinned)
    BY DEF Fact, MemFacts
  <2>3. PICK file \in Memories(U) : file = WithFact(Reread(memory), f)
    BY <1>4, WithFactIsFile
  <2>4. "fact" \in {"fact", "note", "uses"} /\ Begin(p, [kind |-> "fact", file |-> file])
    BY <2>1, <2>2, <2>3
  <2>5. writing' \in [Sessions -> Writings(U)]
    BY <1>1, <2>4, BeginsWriting
  <2>6. memory' = memory
    BY <1>7 DEF SetFact
  <2>7. QED
    BY <1>2, <1>3, <2>5, <2>6 DEF FilesIn
<1>8. ASSUME NEW p \in Sessions, AddNote(p)
      PROVE  FilesIn(memory', writing', V)
  <2>1. PICK t \in Text, pinned \in BOOLEAN :
          \/ UNCHANGED writing
          \/ Begin(p, [kind |-> "note", file |-> [Reread(memory) EXCEPT !.notes = Append(@, Note(t, pinned))]])
    BY <1>8 DEF AddNote
  <2>2. memory' = memory
    BY <1>8 DEF AddNote
  <2>3. PICK file \in Memories(U) : file = [Reread(memory) EXCEPT !.notes = Append(@, Note(t, pinned))]
    BY <1>4, WithNoteIsFile
  <2>4. "note" \in {"fact", "note", "uses"} /\ (UNCHANGED writing \/ Begin(p, [kind |-> "note", file |-> file]))
    BY <2>1, <2>3
  <2>5. writing' \in [Sessions -> Writings(U)]
    BY <1>1, <2>4, BeginsWriting
  <2>6. QED
    BY <1>2, <1>3, <2>2, <2>5 DEF FilesIn
<1>9. ASSUME NEW p \in Sessions, RecordUses(p)
      PROVE  FilesIn(memory', writing', V)
  <2>1. PICK counted :
          \/ UNCHANGED writing
          \/ Begin(p, [kind |-> "uses", file |-> Counted(Reread(memory), counted)])
    BY <1>9 DEF RecordUses, Counted
  <2>2. memory' = memory
    BY <1>9 DEF RecordUses
  <2>3. \A u \in U : u + 1 \in V
    BY <1>9
  <2>4. PICK file \in Memories(V) : file = Counted(Reread(memory), counted)
    BY <1>4, <2>3, CountedIsFile
  <2>5. "uses" \in {"fact", "note", "uses"} /\ (UNCHANGED writing \/ Begin(p, [kind |-> "uses", file |-> file]))
    BY <2>1, <2>4
  <2>6. writing' \in [Sessions -> Writings(V)]
    BY <1>3, <2>5, BeginsWriting
  <2>7. QED
    BY <1>3, <2>2, <2>6 DEF FilesIn
<1>10. ASSUME NEW p \in Sessions, Saved(p)
       PROVE  FilesIn(memory', writing', V)
  <2>1. /\ writing[p].kind # "none" /\ writing' = [writing EXCEPT ![p] = Nothing]
        /\ memory' = Evicted(writing[p].file) \/ memory' \in {memory, NoFile}
    BY <1>10 DEF Saved
  <2>2. PICK file \in Memories(U) : file = writing[p].file
    BY <1>1, <2>1 DEF Writings, Nothing
  <2>3. Evicted(file) \in Memories(U)
    BY EvictedKeepsUseful
  <2>4. NoFile \in Memories(U)
    BY DEF NoFile, Memories
  <2>5. memory' \in Memories(V)
    BY <1>1, <1>2, <2>1, <2>2, <2>3, <2>4
  <2>6. writing' \in [Sessions -> Writings(V)]
    BY <1>3, <2>1 DEF Writings
  <2>7. QED
    BY <2>5, <2>6 DEF FilesIn
<1>11. ASSUME NEW p \in Sessions, SessionStart(p) \/ SubAgentAsks(p) \/ Section(p) \/ TurnEnds(p)
       PROVE  FilesIn(memory', writing', V)
  <2>1. memory' = memory /\ writing' = writing
    BY <1>11 DEF SessionStart, SubAgentAsks, Section, TurnEnds
  <2>2. QED
    BY <1>3, <2>1 DEF FilesIn
<1>12. QED
  BY <1>5, <1>6, <1>7, <1>8, <1>9, <1>10, <1>11 DEF MemNext

-----------------------------------------------------------------------------
(* MemoryStore: turns, requests and uses.                                  *)

AskedQueries == Queries \cup {""}
AskingSteps  == {"between turns", "asking", "counting"}
AskingType   == [query : AskedQueries, step : AskingSteps, recalled : SUBSET Text]

\* The processes whose turn may still count a use: it is about to be counted, or the
\* next request of the turn has a new query.
Pending == {p \in Sessions : \/ asking[p].step = "counting"
                             \/ asking[p].step = "asking" /\ NewQuery(p)}

\* The uses there may be while so many turns have not counted theirs.
Room(n, pending) == 0..(n - Cardinality(pending))

MemTypeInv == /\ FilesIn(memory, writing, Nat)
              /\ asking \in [Sessions -> AskingType] /\ DOMAIN lastQuery = Sessions
              /\ turns \in Nat

MemInv ==
  /\ MemTypeInv
  /\ ~shared => /\ IsFiniteSet(Pending) /\ Cardinality(Pending) <= turns
                /\ FilesIn(memory, writing, Room(turns, Pending))
                /\ \A p \in Sessions : asking[p].step = "counting" => ~NewQuery(p)

\* What the step of a process does to what it asks.
Asks(p, s, recalled) ==
  asking' = [asking EXCEPT ![p].step = s, ![p].recalled = recalled]
AsksAnew(p, q, s) == asking' = [asking EXCEPT ![p].query = q, ![p].step = s]
Stops(p, s) == asking' = [asking EXCEPT ![p].step = s]
Becomes(p, q, s, r) == asking' = [asking EXCEPT ![p] = [query |-> q, step |-> s, recalled |-> r]]

LEMMA RecalledAreTexts ==
  ASSUME NEW file \in Memories(Nat), NEW q
  PROVE  Recalled(file, q) \in SUBSET Text
<1>1. file.notes \in Seq(MemNotes(Nat))
  BY EntriesHaveFields
<1>2. \A i \in DOMAIN file.notes : file.notes[i] \in MemNotes(Nat)
  BY <1>1
<1>3. \A n \in MemNotes(Nat) : n.text \in Text
  BY DEF MemNotes
<1>4. \A i \in DOMAIN file.notes : file.notes[i].text \in Text
  BY <1>2, <1>3
<1>5. QED
  BY <1>4 DEF Recalled

\* What a process asks after a change of its step.
LEMMA AskedBy ==
  ASSUME asking \in [Sessions -> AskingType], NEW p \in Sessions,
         NEW q \in AskedQueries, NEW s \in AskingSteps, NEW r \in SUBSET Text,
         Becomes(p, q, s, r)
  PROVE  /\ asking' \in [Sessions -> AskingType]
         /\ asking'[p].query = q /\ asking'[p].step = s
         /\ \A o \in Sessions \ {p} : asking'[o] = asking[o]
<1>1. PICK a : a = [query |-> q, step |-> s, recalled |-> r]
  OBVIOUS
<1>2. a \in AskingType /\ a.query = q /\ a.step = s
  BY <1>1 DEF AskingType
<1>3. asking' = [asking EXCEPT ![p] = a]
  BY <1>1 DEF Becomes
<1>4. asking'[p] = a
  BY <1>3
<1>5. QED
  BY <1>2, <1>3, <1>4

\* The record of a process.
LEMMA AskingOf ==
  ASSUME asking \in [Sessions -> AskingType], NEW p \in Sessions
  PROVE  /\ asking[p] = [query |-> asking[p].query, step |-> asking[p].step, recalled |-> asking[p].recalled]
         /\ asking[p].query \in AskedQueries
         /\ asking[p].step \in AskingSteps
         /\ asking[p].recalled \in SUBSET Text
<1>1. asking[p] \in AskingType
  OBVIOUS
<1>2. \A a \in AskingType :
        /\ a = [query |-> a.query, step |-> a.step, recalled |-> a.recalled]
        /\ a.query \in AskedQueries /\ a.step \in AskingSteps
        /\ a.recalled \in SUBSET Text
  BY DEF AskingType
<1>3. QED
  BY <1>1, <1>2

LEMMA Became ==
  ASSUME asking \in [Sessions -> AskingType], NEW p \in Sessions,
         NEW q, NEW s, NEW r, asking[p] = [query |-> q, step |-> s, recalled |-> r]
  PROVE  /\ \A t, v : Asks(p, t, v) => Becomes(p, q, t, v)
         /\ \A d, t : AsksAnew(p, d, t) => Becomes(p, d, t, r)
         /\ \A t : Stops(p, t) => Becomes(p, q, t, r)
<1>1. PICK a : a = asking[p]
  OBVIOUS
<1>2. a = [query |-> q, step |-> s, recalled |-> r]
  BY <1>1
<1>3. ASSUME NEW t, NEW v, Asks(p, t, v)
      PROVE  Becomes(p, q, t, v)
  <2>1. PICK b : b = [a EXCEPT !.step = t]
    OBVIOUS
  <2>2. PICK c : c = [b EXCEPT !.recalled = v]
    OBVIOUS
  <2>3. b = [query |-> q, step |-> t, recalled |-> r]
    BY <1>2, <2>1
  <2>4. c = [query |-> q, step |-> t, recalled |-> v]
    BY <2>2, <2>3
  <2>5. PICK f : f = [asking EXCEPT ![p] = b]
    OBVIOUS
  <2>6. f[p] = b
    BY <2>5
  <2>7. asking' = [f EXCEPT ![p] = c]
    BY <1>1, <1>3, <2>1, <2>2, <2>5, <2>6 DEF Asks
  <2>8. asking' = [asking EXCEPT ![p] = c]
    BY <2>5, <2>7
  <2>9. QED
    BY <2>4, <2>8 DEF Becomes
<1>4. ASSUME NEW d, NEW t, AsksAnew(p, d, t)
      PROVE  Becomes(p, d, t, r)
  <2>1. PICK b : b = [a EXCEPT !.query = d]
    OBVIOUS
  <2>2. PICK c : c = [b EXCEPT !.step = t]
    OBVIOUS
  <2>3. b = [query |-> d, step |-> s, recalled |-> r]
    BY <1>2, <2>1
  <2>4. c = [query |-> d, step |-> t, recalled |-> r]
    BY <2>2, <2>3
  <2>5. PICK f : f = [asking EXCEPT ![p] = b]
    OBVIOUS
  <2>6. f[p] = b
    BY <2>5
  <2>7. asking' = [f EXCEPT ![p] = c]
    BY <1>1, <1>4, <2>1, <2>2, <2>5, <2>6 DEF AsksAnew
  <2>8. asking' = [asking EXCEPT ![p] = c]
    BY <2>5, <2>7
  <2>9. QED
    BY <2>4, <2>8 DEF Becomes
<1>5. ASSUME NEW t, Stops(p, t)
      PROVE  Becomes(p, q, t, r)
  <2>1. PICK c : c = [a EXCEPT !.step = t]
    OBVIOUS
  <2>2. c = [query |-> q, step |-> t, recalled |-> r]
    BY <1>2, <2>1
  <2>3. QED
    BY <1>1, <1>5, <2>1, <2>2 DEF Stops, Becomes
<1>6. QED
  BY <1>3, <1>4, <1>5

LEMMA MemInvInit ==
  ASSUME MemInit
  PROVE  MemInv
<1>1. FilesIn(memory, writing, {0})
  <2>1. NoFile \in Memories({0})
    BY DEF NoFile, Memories
  <2>2. QED
    BY <2>1 DEF MemInit, FilesIn, Writings
<1>2. FilesIn(memory, writing, Nat)
  BY <1>1, FilesGrow DEF FilesIn
<1>3. asking \in [Sessions -> AskingType]
  <2>1. PICK a : a = [query |-> "", step |-> "between turns", recalled |-> {}]
    OBVIOUS
  <2>2. a \in AskingType
    BY <2>1 DEF AskingType, AskedQueries, AskingSteps
  <2>3. asking = [p \in Sessions |-> a]
    BY <2>1 DEF MemInit
  <2>4. QED
    BY <2>2, <2>3
<1>4. \A p \in Sessions : asking[p].step = "between turns"
  BY DEF MemInit
<1>5. Pending = {}
  BY <1>4 DEF Pending
<1>6. IsFiniteSet(Pending) /\ Cardinality(Pending) = 0
  BY <1>5, FS_EmptySet
<1>7. turns = 0 /\ DOMAIN lastQuery = Sessions
  BY DEF MemInit
<1>8. Room(turns, Pending) = {0}
  BY <1>6, <1>7 DEF Room
<1>9. MemTypeInv
  BY <1>2, <1>3, <1>7 DEF MemTypeInv
<1>10. IsFiniteSet(Pending) /\ Cardinality(Pending) <= turns
  BY <1>6, <1>7
<1>11. FilesIn(memory, writing, Room(turns, Pending))
  BY <1>1, <1>8
<1>12. \A p \in Sessions : asking[p].step # "counting"
  BY <1>4
<1>13. QED
  BY <1>9, <1>10, <1>11, <1>12 DEF MemInv

\* What a step does to the turns and to what is asked: at most one process asks anew,
\* with a turn of its own, and one whose uses are recorded asks nothing new after it.
LEMMA AskingStep ==
  ASSUME MemInv, [MemNext]_memVars
  PROVE  /\ asking' \in [Sessions -> AskingType] /\ DOMAIN lastQuery' = Sessions
         /\ turns' \in Nat
         /\ shared => shared'
         /\ ~shared' => /\ \A p \in Sessions : asking'[p].step = "counting" => ~NewQuery(p)'
                        /\ \/ turns' = turns /\ Pending' \subseteq Pending
                           \/ turns' = turns + 1 /\ \E p \in Sessions : Pending' \subseteq Pending \cup {p}
                        /\ \A p \in Sessions : RecordUses(p) => p \in Pending \ Pending' /\ turns' = turns
<1>0. /\ asking \in [Sessions -> AskingType] /\ DOMAIN lastQuery = Sessions /\ turns \in Nat
      /\ FilesIn(memory, writing, Nat) /\ memory \in Memories(Nat)
      /\ ~shared => \A p \in Sessions : asking[p].step = "counting" => ~NewQuery(p)
  BY DEF MemInv, MemTypeInv, FilesIn
<1> DEFINE Good == /\ asking' \in [Sessions -> AskingType] /\ DOMAIN lastQuery' = Sessions
                   /\ turns' \in Nat
                   /\ shared => shared'
                   /\ ~shared' => /\ \A p \in Sessions : asking'[p].step = "counting" => ~NewQuery(p)'
                                  /\ \/ turns' = turns /\ Pending' \subseteq Pending
                                     \/ turns' = turns + 1 /\ \E p \in Sessions : Pending' \subseteq Pending \cup {p}
                                  /\ \A p \in Sessions : RecordUses(p) => p \in Pending \ Pending' /\ turns' = turns
<1>1. ASSUME UNCHANGED <<lastQuery, asking, turns, shared>>, \A p \in Sessions : ~RecordUses(p)
      PROVE  Good
  <2>1. Pending' = Pending /\ \A p \in Sessions : NewQuery(p)' = NewQuery(p)
    BY <1>1 DEF Pending, NewQuery
  <2>2. QED
    BY <1>0, <1>1, <2>1
<1>2. ASSUME NEW p \in Sessions, RecordUses(p)
      PROVE  /\ asking' \in [Sessions -> AskingType] /\ UNCHANGED <<lastQuery, turns, shared>>
             /\ asking[p].step = "counting" /\ asking'[p].step = "asking"
             /\ asking'[p].query = asking[p].query
             /\ \A o \in Sessions \ {p} : asking'[o] = asking[o]
  <2>1. asking[p] = [query |-> asking[p].query, step |-> asking[p].step, recalled |-> asking[p].recalled]
        /\ asking[p].query \in AskedQueries
    BY <1>0, AskingOf
  <2>2. Asks(p, "asking", {})
    BY <1>2 DEF RecordUses, Asks
  <2>3. Becomes(p, asking[p].query, "asking", {})
    BY <1>0, <2>1, <2>2, Became
  <2>4. {} \in SUBSET Text /\ "asking" \in AskingSteps
    BY DEF AskingSteps
  <2>5. PICK q \in AskedQueries : q = asking[p].query
    BY <2>1
  <2>6. /\ asking' \in [Sessions -> AskingType]
        /\ asking'[p].query = q /\ asking'[p].step = "asking"
        /\ \A o \in Sessions \ {p} : asking'[o] = asking[o]
    BY <1>0, <2>3, <2>4, <2>5, AskedBy
  <2>7. asking[p].step = "counting" /\ UNCHANGED <<lastQuery, turns, shared>>
    BY <1>2 DEF RecordUses
  <2>8. QED
    BY <2>5, <2>6, <2>7
<1>3. ASSUME NEW p \in Sessions, SessionStart(p)
      PROVE  /\ asking' \in [Sessions -> AskingType] /\ UNCHANGED <<lastQuery, shared>> /\ turns' = turns + 1
             /\ asking[p].step = "between turns" /\ asking'[p].step = "asking"
             /\ \A o \in Sessions \ {p} : asking'[o] = asking[o]
  <2>1. /\ asking[p] = [query |-> asking[p].query, step |-> asking[p].step, recalled |-> asking[p].recalled]
        /\ asking[p].recalled \in SUBSET Text
    BY <1>0, AskingOf
  <2>2. PICK q \in Queries : AsksAnew(p, q, "asking")
    BY <1>3 DEF SessionStart, AsksAnew
  <2>3. PICK r \in SUBSET Text : r = asking[p].recalled
    BY <2>1
  <2>4. Becomes(p, q, "asking", r)
    BY <1>0, <2>1, <2>2, <2>3, Became
  <2>5. q \in AskedQueries /\ "asking" \in AskingSteps
    BY DEF AskedQueries, AskingSteps
  <2>6. /\ asking' \in [Sessions -> AskingType]
        /\ asking'[p].query = q /\ asking'[p].step = "asking"
        /\ \A o \in Sessions \ {p} : asking'[o] = asking[o]
    BY <1>0, <2>4, <2>5, AskedBy
  <2>7. asking[p].step = "between turns" /\ UNCHANGED <<lastQuery, shared>> /\ turns' = turns + 1
    BY <1>3 DEF SessionStart
  <2>8. QED
    BY <2>6, <2>7
<1>4. ASSUME NEW p \in Sessions, NEW r \in SUBSET Text, asking[p].step = "asking", Asks(p, "counting", r)
      PROVE  /\ asking' \in [Sessions -> AskingType]
             /\ asking'[p].step = "counting" /\ asking'[p].query = asking[p].query
             /\ \A o \in Sessions \ {p} : asking'[o] = asking[o]
  <2>1. asking[p] = [query |-> asking[p].query, step |-> asking[p].step, recalled |-> asking[p].recalled]
        /\ asking[p].query \in AskedQueries
    BY <1>0, AskingOf
  <2>2. Becomes(p, asking[p].query, "counting", r)
    BY <1>0, <1>4, <2>1, Became
  <2>3. PICK q \in AskedQueries : q = asking[p].query
    BY <2>1
  <2>4. "counting" \in AskingSteps
    BY DEF AskingSteps
  <2>5. /\ asking' \in [Sessions -> AskingType]
        /\ asking'[p].query = q /\ asking'[p].step = "counting"
        /\ \A o \in Sessions \ {p} : asking'[o] = asking[o]
    BY <1>0, <2>2, <2>3, <2>4, AskedBy
  <2>6. QED
    BY <2>3, <2>5
<1>5. ASSUME NEW p \in Sessions, SubAgentAsks(p)
      PROVE  /\ asking' \in [Sessions -> AskingType] /\ DOMAIN lastQuery' = Sessions
             /\ UNCHANGED turns /\ shared' = TRUE
  <2>1. PICK q : asking' = asking \/ Asks(p, "counting", Recalled(Reread(memory), q))
    BY <1>5 DEF SubAgentAsks, Asks
  <2>2. Recalled(Reread(memory), q) \in SUBSET Text
    BY <1>0, RereadIsFile, RecalledAreTexts
  <2>3. asking[p].step = "asking" /\ UNCHANGED turns /\ shared' = TRUE /\ DOMAIN lastQuery' = DOMAIN lastQuery
    BY <1>5 DEF SubAgentAsks
  <2>4. QED
    BY <1>0, <1>4, <2>1, <2>2, <2>3
<1>6. ASSUME NEW p \in Sessions, Section(p)
      PROVE  /\ asking' \in [Sessions -> AskingType] /\ DOMAIN lastQuery' = Sessions
             /\ UNCHANGED <<turns, shared>>
             /\ lastQuery'[p] = asking'[p].query /\ asking[p].step = "asking"
             /\ asking'[p].step = "counting" => NewQuery(p)
             /\ \A o \in Sessions \ {p} : asking'[o] = asking[o] /\ lastQuery'[o] = lastQuery[o]
  <2>1. /\ asking' = asking \/ (NewQuery(p) /\ Asks(p, "counting", Recalled(Reread(memory), asking[p].query)))
        /\ asking[p].step = "asking" /\ UNCHANGED <<turns, shared>>
        /\ lastQuery' = [lastQuery EXCEPT ![p] = asking[p].query]
    BY <1>6 DEF Section, Asks
  <2>2. PICK r \in SUBSET Text : r = Recalled(Reread(memory), asking[p].query)
    BY <1>0, RereadIsFile, RecalledAreTexts
  <2>3. QED
    BY <1>0, <1>4, <2>1, <2>2
<1>7. ASSUME NEW p \in Sessions, TurnEnds(p)
      PROVE  /\ asking' \in [Sessions -> AskingType] /\ UNCHANGED <<lastQuery, turns, shared>>
             /\ asking'[p].step = "between turns"
             /\ \A o \in Sessions \ {p} : asking'[o] = asking[o]
  <2>1. /\ asking[p] = [query |-> asking[p].query, step |-> asking[p].step, recalled |-> asking[p].recalled]
        /\ asking[p].query \in AskedQueries /\ asking[p].recalled \in SUBSET Text
    BY <1>0, AskingOf
  <2>2. Stops(p, "between turns") /\ UNCHANGED <<lastQuery, turns, shared>>
    BY <1>7 DEF TurnEnds, Stops
  <2>3. PICK q \in AskedQueries, r \in SUBSET Text : q = asking[p].query /\ r = asking[p].recalled
    BY <2>1
  <2>4. Becomes(p, q, "between turns", r)
    BY <1>0, <2>1, <2>2, <2>3, Became
  <2>5. "between turns" \in AskingSteps
    BY DEF AskingSteps
  <2>6. /\ asking' \in [Sessions -> AskingType]
        /\ asking'[p].query = q /\ asking'[p].step = "between turns"
        /\ \A o \in Sessions \ {p} : asking'[o] = asking[o]
    BY <1>0, <2>4, <2>5, AskedBy
  <2>7. QED
    BY <2>2, <2>6
\* Only the process whose uses are recorded is counting before and not after.
<1>8. ASSUME NEW p \in Sessions, \A o \in Sessions \ {p} : asking'[o] = asking[o], ~(asking[p].step = "counting")
      PROVE  \A o \in Sessions : ~RecordUses(o)
  <2>1. ASSUME NEW o \in Sessions, RecordUses(o)
        PROVE  FALSE
    <3>1. asking[o].step = "counting" /\ asking'[o].step = "asking"
      BY <1>2, <2>1
    <3>2. o # p
      BY <1>8, <3>1
    <3>3. asking'[o] = asking[o]
      BY <1>8, <3>2
    <3>4. QED
      BY <3>1, <3>3
  <2>2. QED
    BY <2>1
<1>9. \A p \in Sessions : NewQuery(p) <=> asking[p].query # lastQuery[p]
  BY DEF NewQuery
<1>10. \A p \in Sessions : NewQuery(p)' <=> asking'[p].query # lastQuery'[p]
  BY DEF NewQuery
<1>11. \A p \in Sessions : /\ p \in Pending <=> asking[p].step = "counting" \/ (asking[p].step = "asking" /\ NewQuery(p))
                           /\ p \in Pending' <=> asking'[p].step = "counting" \/ (asking'[p].step = "asking" /\ NewQuery(p)')
       /\ Pending \subseteq Sessions /\ Pending' \subseteq Sessions
  BY DEF Pending
<1>12. ASSUME NEW p \in Sessions, RecordUses(p)
       PROVE  Good
  <2>1. ASSUME ~shared, NEW o \in Sessions
        PROVE  /\ asking'[o].step = "counting" => ~NewQuery(o)'
               /\ o \in Pending' => o \in Pending
               /\ RecordUses(o) => o \in Pending \ Pending'
    <3>1. CASE o = p
      BY <1>0, <1>2, <1>9, <1>10, <1>11, <1>12, <2>1, <3>1
    <3>2. CASE o # p
      <4>1. asking'[o] = asking[o] /\ lastQuery'[o] = lastQuery[o]
        BY <1>2, <1>12, <3>2
      <4>2. ~RecordUses(o)
        BY <1>2, <4>1
      <4>3. QED
        BY <1>0, <1>9, <1>10, <1>11, <2>1, <4>1, <4>2
    <3>3. QED
      BY <3>1, <3>2
  <2>2. asking' \in [Sessions -> AskingType] /\ UNCHANGED <<lastQuery, turns, shared>>
    BY <1>2, <1>12
  <2>3. QED
    BY <1>0, <1>11, <2>1, <2>2
<1>13. ASSUME NEW p \in Sessions, SessionStart(p)
       PROVE  Good
  <2>1. /\ asking' \in [Sessions -> AskingType] /\ UNCHANGED <<lastQuery, shared>> /\ turns' = turns + 1
        /\ asking[p].step = "between turns" /\ asking'[p].step = "asking"
        /\ \A o \in Sessions \ {p} : asking'[o] = asking[o]
    BY <1>3, <1>13
  <2>2. \A o \in Sessions : ~RecordUses(o)
    BY <1>8, <2>1
  <2>3. ASSUME ~shared, NEW o \in Sessions
        PROVE  /\ asking'[o].step = "counting" => ~NewQuery(o)'
               /\ o \in Pending' => o \in Pending \cup {p}
    <3>1. CASE o = p
      BY <2>1, <3>1
    <3>2. CASE o # p
      <4>1. asking'[o] = asking[o] /\ lastQuery'[o] = lastQuery[o]
        BY <2>1, <3>2
      <4>2. QED
        BY <1>0, <1>9, <1>10, <1>11, <2>3, <4>1
    <3>3. QED
      BY <3>1, <3>2
  <2>4. ~shared => Pending' \subseteq Pending \cup {p}
    BY <1>11, <2>3
  <2>5. turns' \in Nat
    <3>1. turns \in Nat
      BY <1>0
    <3>2. turns' = turns + 1
      BY <2>1
    <3>3. QED
      BY <3>1, <3>2
  <2>6. QED
    BY <1>0, <2>1, <2>2, <2>3, <2>4, <2>5
<1>14. ASSUME NEW p \in Sessions, SubAgentAsks(p)
       PROVE  Good
  BY <1>0, <1>5, <1>14
<1>15. ASSUME NEW p \in Sessions, Section(p)
       PROVE  Good
  <2>1. /\ asking' \in [Sessions -> AskingType] /\ DOMAIN lastQuery' = Sessions
        /\ UNCHANGED <<turns, shared>>
        /\ lastQuery'[p] = asking'[p].query /\ asking[p].step = "asking"
        /\ asking'[p].step = "counting" => NewQuery(p)
        /\ \A o \in Sessions \ {p} : asking'[o] = asking[o] /\ lastQuery'[o] = lastQuery[o]
    BY <1>6, <1>15
  <2>2. \A o \in Sessions : ~RecordUses(o)
    BY <1>8, <2>1
  <2>3. ASSUME ~shared, NEW o \in Sessions
        PROVE  /\ asking'[o].step = "counting" => ~NewQuery(o)'
               /\ o \in Pending' => o \in Pending
    <3>1. CASE o = p
      BY <1>9, <1>10, <1>11, <2>1, <3>1
    <3>2. CASE o # p
      <4>1. asking'[o] = asking[o] /\ lastQuery'[o] = lastQuery[o]
        BY <2>1, <3>2
      <4>2. QED
        BY <1>0, <1>9, <1>10, <1>11, <2>3, <4>1
    <3>3. QED
      BY <3>1, <3>2
  <2>4. QED
    BY <1>0, <1>11, <2>1, <2>2, <2>3
<1>16. ASSUME NEW p \in Sessions, TurnEnds(p)
       PROVE  Good
  <2>1. /\ asking' \in [Sessions -> AskingType] /\ UNCHANGED <<lastQuery, turns, shared>>
        /\ asking'[p].step = "between turns"
        /\ \A o \in Sessions \ {p} : asking'[o] = asking[o]
    BY <1>7, <1>16
  <2>2. asking[p].step = "asking"
    BY <1>16 DEF TurnEnds
  <2>3. \A o \in Sessions : ~RecordUses(o)
    BY <1>8, <2>1, <2>2
  <2>4. ASSUME ~shared, NEW o \in Sessions
        PROVE  /\ asking'[o].step = "counting" => ~NewQuery(o)'
               /\ o \in Pending' => o \in Pending
    <3>1. CASE o = p
      BY <1>11, <2>1, <3>1
    <3>2. CASE o # p
      <4>1. asking'[o] = asking[o] /\ lastQuery'[o] = lastQuery[o]
        BY <2>1, <3>2
      <4>2. QED
        BY <1>0, <1>9, <1>10, <1>11, <2>4, <4>1
    <3>3. QED
      BY <3>1, <3>2
  <2>5. QED
    BY <1>0, <1>11, <2>1, <2>3, <2>4
<1>17. ASSUME UNCHANGED <<lastQuery, asking, turns, shared>>
       PROVE  Good
  <2>1. CASE \E p \in Sessions : RecordUses(p)
    BY <1>12, <2>1
  <2>2. CASE \A p \in Sessions : ~RecordUses(p)
    BY <1>1, <1>17, <2>2
  <2>3. QED
    BY <2>1, <2>2
<1>18. UNCHANGED memVars \/ EditByHand => UNCHANGED <<lastQuery, asking, turns, shared>>
  BY DEF memVars, EditByHand
<1>19. \A p \in Sessions : SetFact(p) \/ AddNote(p) \/ Saved(p) => UNCHANGED <<lastQuery, asking, turns, shared>>
  BY DEF SetFact, AddNote, Saved
<1>20. Good
  <2> HIDE DEF Good
  <2>1. QED
    BY <1>12, <1>13, <1>14, <1>15, <1>16, <1>17, <1>18, <1>19 DEF MemNext
<1>21. QED
  BY <1>20

LEMMA MemInvStep ==
  ASSUME MemInv, [MemNext]_memVars
  PROVE  MemInv'
<1>0. /\ FilesIn(memory, writing, Nat) /\ turns \in Nat
      /\ ~shared => /\ IsFiniteSet(Pending) /\ Cardinality(Pending) <= turns
                    /\ FilesIn(memory, writing, Room(turns, Pending))
  BY DEF MemInv, MemTypeInv
<1>1. PICK now, then : now = Pending /\ then = Pending'
  OBVIOUS
<1>2. /\ asking' \in [Sessions -> AskingType] /\ DOMAIN lastQuery' = Sessions
      /\ turns' \in Nat /\ (shared => shared')
      /\ ~shared' => /\ \A p \in Sessions : asking'[p].step = "counting" => ~NewQuery(p)'
                     /\ \/ turns' = turns /\ then \subseteq now
                        \/ turns' = turns + 1 /\ \E p \in Sessions : then \subseteq now \cup {p}
                     /\ \A p \in Sessions : RecordUses(p) => p \in now \ then /\ turns' = turns
  BY <1>1, AskingStep
<1>3. FilesIn(memory', writing', Nat)
  <2>1. 0 \in Nat /\ \A u \in Nat : u + 1 \in Nat
    OBVIOUS
  <2>2. QED
    BY <1>0, <2>1, FilesStep
<1>4. ASSUME ~shared'
      PROVE  /\ IsFiniteSet(then) /\ Cardinality(then) <= turns'
             /\ FilesIn(memory', writing', Room(turns', then))
  <2>1. /\ IsFiniteSet(now) /\ Cardinality(now) <= turns /\ Cardinality(now) \in Nat
        /\ FilesIn(memory, writing, Room(turns, now))
    BY <1>0, <1>1, <1>2, <1>4, FS_CardinalityType
  <2>2. IsFiniteSet(then) /\ Cardinality(then) \in Nat
    <3>1. \E p : then \subseteq now \cup {p}
      BY <1>2, <1>4
    <3>2. QED
      BY <2>1, <3>1, FS_AddElement, FS_Subset, FS_CardinalityType
  <2>3. turns' - Cardinality(then) >= turns - Cardinality(now)
    <3>1. CASE turns' = turns /\ then \subseteq now
      <4>1. Cardinality(then) <= Cardinality(now)
        BY <2>1, <3>1, FS_Subset
      <4>2. QED
        BY <1>0, <2>1, <2>2, <3>1, <4>1
    <3>2. CASE turns' = turns + 1 /\ \E p \in Sessions : then \subseteq now \cup {p}
      <4>1. PICK p : then \subseteq now \cup {p}
        BY <3>2
      <4>2. IsFiniteSet(now \cup {p}) /\ Cardinality(now \cup {p}) <= Cardinality(now) + 1
            /\ Cardinality(now \cup {p}) \in Nat
        <5>1. CASE p \in now
          <6>1. now \cup {p} = now
            BY <5>1
          <6>2. Cardinality(now) \in Nat /\ Cardinality(now) <= Cardinality(now) + 1
            BY <2>1
          <6>3. QED
            BY <2>1, <6>1, <6>2
        <5>2. CASE p \notin now
          BY <2>1, <5>2, FS_AddElement
        <5>3. QED
          BY <5>1, <5>2
      <4>3. Cardinality(then) <= Cardinality(now \cup {p})
        BY <4>1, <4>2, FS_Subset
      <4>4. QED
        BY <1>0, <2>1, <2>2, <3>2, <4>2, <4>3
    <3>3. QED
      BY <1>2, <1>4, <3>1, <3>2
  <2>4. Cardinality(then) <= turns'
    BY <1>0, <1>2, <2>1, <2>2, <2>3
  <2>5. PICK U, V : U = Room(turns, now) /\ V = Room(turns', then)
    OBVIOUS
  <2>6. U \subseteq Nat /\ V \subseteq Nat /\ 0 \in U /\ U \subseteq V
    BY <1>0, <1>2, <2>1, <2>2, <2>3, <2>5 DEF Room
  <2>7. ASSUME NEW p \in Sessions, RecordUses(p)
        PROVE  \A u \in U : u + 1 \in V
    <3>1. p \in now /\ p \notin then /\ then \subseteq now /\ turns' = turns
      BY <1>0, <1>2, <1>4, <2>7
    <3>2. IsFiniteSet(now \ {p}) /\ Cardinality(now \ {p}) = Cardinality(now) - 1
      BY <2>1, <3>1, FS_RemoveElement
    <3>3. Cardinality(then) <= Cardinality(now \ {p})
      BY <3>1, <3>2, FS_Subset
    <3>4. QED
      BY <1>0, <2>1, <2>2, <2>5, <3>1, <3>2, <3>3 DEF Room
  <2>8. FilesIn(memory', writing', V)
    BY <2>1, <2>5, <2>6, <2>7, FilesStep
  <2>9. QED
    BY <2>2, <2>4, <2>5, <2>8
<1>5. MemTypeInv'
  BY <1>2, <1>3 DEF MemTypeInv
<1>6. QED
  BY <1>1, <1>2, <1>4, <1>5 DEF MemInv

\* Any number of korai processes, on any memory file and with any queries: a note is
\* counted at most once a turn, however often the turn's requests are built, as long as
\* no sub-agent asked with its parent's provider (Provider.Section, RecordUses).
THEOREM UsesAreCountedOnce == MemSpec => []UsesCountQueries
<1>1. MemInv => UsesCountQueries
  <2>1. SUFFICES ASSUME MemInv, ~shared, NEW i \in DOMAIN memory.notes
                 PROVE  memory.notes[i].uses <= turns
    BY DEF UsesCountQueries
  <2>2. PICK U : U = Room(turns, Pending)
    OBVIOUS
  <2>3. memory \in Memories(U)
    BY <2>1, <2>2 DEF MemInv, FilesIn
  <2>4. turns \in Nat /\ Cardinality(Pending) \in Nat
    BY <2>1, FS_CardinalityType DEF MemInv, MemTypeInv
  <2>5. \A u \in U : u <= turns
    BY <2>2, <2>4 DEF Room
  <2>6. memory.notes \in Seq(MemNotes(U))
    BY <2>3 DEF Memories
  <2>7. memory.notes[i] \in MemNotes(U)
    BY <2>1, <2>6
  <2>8. memory.notes[i].uses \in U
    BY <2>7 DEF MemNotes
  <2>9. QED
    BY <2>5, <2>8
<1>2. QED
  BY <1>1, MemInvInit, MemInvStep, PTL DEF MemSpec

\* What a save evicts is never worth more than what it keeps: the notes and facts that
\* are gone from the file a process wrote come first in the order of evict, whatever
\* the cap, the file and the edits by hand before (Store.evict, lowestUtilityNote).
THEOREM EvictionIsByUtility == MemSpec => EvictsByUtility
<1> DEFINE Step == \A p \in Sessions :
                     writing[p].kind # "none" /\ writing'[p].kind = "none" /\ memory' \notin {memory, NoFile} =>
                       KeepsUseful(writing[p].file, memory')
<1>1. ASSUME MemInv, MemNext
      PROVE  Step
  <2>1. SUFFICES ASSUME NEW p \in Sessions, writing[p].kind # "none", writing'[p].kind = "none",
                        memory' \notin {memory, NoFile}
                 PROVE  KeepsUseful(writing[p].file, memory')
    OBVIOUS
  <2>2. writing \in [Sessions -> Writings(Nat)]
    BY <1>1 DEF MemInv, MemTypeInv, FilesIn
  <2>3. Saved(p)
    <3>1. CASE EditByHand
      BY <2>1, <3>1 DEF EditByHand
    <3>2. PICK o \in Sessions :
            \/ SetFact(o) \/ AddNote(o) \/ RecordUses(o) \/ Saved(o)
            \/ SessionStart(o) \/ SubAgentAsks(o) \/ Section(o) \/ TurnEnds(o) \/ EditByHand
      BY <1>1 DEF MemNext
    <3>3. CASE SetFact(o) \/ AddNote(o) \/ RecordUses(o) \/ SessionStart(o) \/ SubAgentAsks(o) \/ Section(o) \/ TurnEnds(o)
      <4>1. memory' = memory
        BY <3>3 DEF SetFact, AddNote, RecordUses, SessionStart, SubAgentAsks, Section, TurnEnds
      <4>2. QED
        BY <2>1, <4>1
    <3>4. CASE Saved(o)
      <4>1. writing' = [writing EXCEPT ![o] = Nothing]
        BY <3>4 DEF Saved
      <4>2. o # p => writing'[p] = writing[p]
        BY <4>1
      <4>3. o = p
        BY <2>1, <4>2
      <4>4. QED
        BY <3>4, <4>3
    <3>5. QED
      BY <3>1, <3>2, <3>3, <3>4
  <2>4. memory' = Evicted(writing[p].file)
    BY <2>1, <2>3 DEF Saved
  <2>5. PICK file \in Memories(Nat) : file = writing[p].file
    BY <2>1, <2>2 DEF Writings, Nothing
  <2>6. KeepsUseful(file, Evicted(file))
    BY EvictedKeepsUseful
  <2>7. QED
    BY <2>4, <2>5, <2>6
<1>2. ASSUME MemInv, [MemNext]_memVars
      PROVE  [Step]_memVars
  BY <1>1, <1>2
<1>3. QED
  BY <1>2, MemInvInit, MemInvStep, PTL DEF MemSpec, EvictsByUtility

=============================================================================
