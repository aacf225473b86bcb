------------------------------- MODULE LoginTokens -------------------------------
(***************************************************************************)
(* The login of a device (cmd/korai/auth.go, internal/auth): one token     *)
(* file, the korai processes that read, refresh and delete it, and the     *)
(* server that rotates its refresh token.                                  *)
(*                                                                         *)
(* A login starts a family of refresh tokens at the server.  A refresh     *)
(* gives the family's next token and the one before it is dead; the server *)
(* answers a dead one, or one of a revoked family, with invalid_grant, and *)
(* revokes the family for it.  The server is external.  Saving is a        *)
(* rename: the file holds one token or another, or none.                   *)
(***************************************************************************)
EXTENDS Naturals, FiniteSets

CONSTANTS
  Procs,       \* korai processes of one home directory
  Bases,       \* the orchestrators they may be configured for
  NoToken,     \* there is no token file
  MaxLogins,   \* bound: logins
  MaxRotations \* bound: refreshes of a family

ASSUME TokenAssumption == MaxLogins \in Nat /\ MaxRotations \in Nat

VARIABLES
  tokenFile, \* ~/.korai/auth.json
  phase,     \* what each process is doing
  held,      \* the token it has read or been given
  base,      \* the orchestrator it talks to
  \* The server.
  families,  \* logins so far
  newest,    \* the number of each family's live refresh token
  revoked,   \* the families revoked
  \* History.
  causes,    \* what has gone wrong: a lost answer, a new token not saved, two processes
             \* at once, a revocation in the web or by a logout
  sentTo     \* tokens sent, with the orchestrator they were sent to

tokenVars == <<tokenFile, phase, held, base, families, newest, revoked, causes, sentTo>>

Family == 1..MaxLogins
Tokens == [family : Family, n : Nat, base : Bases]

TokenInit ==
  /\ tokenFile = NoToken /\ phase = [p \in Procs |-> "idle"]
  /\ held = [p \in Procs |-> NoToken] /\ base \in [Procs -> Bases]
  /\ families = 0 /\ newest = [f \in Family |-> 1] /\ revoked = {}
  /\ causes = {} /\ sentTo = {}

Server == <<families, newest, revoked>>
In(p, ph) == phase[p] = ph
Go(p, ph) == phase' = [phase EXCEPT ![p] = ph]
Hold(p, t) == held' = [held EXCEPT ![p] = t]
Because(c) == causes' = causes \cup {c}
Send(p) == sentTo' = sentTo \cup {<<held[p], base[p]>>}

\* A process begins something: alone, or while another is at it.
Begins(p) ==
  causes' = IF \E q \in Procs \ {p} : phase[q] # "idle" THEN causes \cup {"overlap"} ELSE causes

-----------------------------------------------------------------------------
(* resolveBearer.                                                          *)

\* A token of any orchestrator.
AnyToken(p) == tokenFile # NoToken

\* A token minted against another orchestrator is not used.
Usable(p) == tokenFile # NoToken /\ tokenFile.base = base[p]

\* The stored token is fresh and is the bearer.
UseToken(p) ==
  /\ In(p, "idle") /\ Usable(p)
  /\ sentTo' = sentTo \cup {<<tokenFile, base[p]>>}
  /\ UNCHANGED <<tokenFile, phase, held, base, Server, causes>>

\* NeedsRefresh.  A caller that gets no token takes the key of the environment.
NeedsRefresh(p) ==
  /\ In(p, "idle") /\ Usable(p) /\ Hold(p, tokenFile) /\ Go(p, "refreshing") /\ Begins(p)
  /\ UNCHANGED <<tokenFile, base, Server, sentTo>>

Live(t) == t.family \notin revoked /\ t.n = newest[t.family]

\* A response folded into a token without the rotated refresh token.
OldRefresh(t) == t

\* FromResponse.
NextToken(t) == [t EXCEPT !.n = @ + 1]

\* refreshToken: the request reaches the server.
Rotates(p) ==
  /\ In(p, "refreshing") /\ Live(held[p]) /\ held[p].n < MaxRotations /\ Send(p)
  /\ newest' = [newest EXCEPT ![held[p].family] = @ + 1]
  /\ \/ Hold(p, NextToken(held[p])) /\ Go(p, "saving") /\ UNCHANGED causes
     \/ UNCHANGED held /\ Go(p, "idle") /\ Because("lost answer")
  /\ UNCHANGED <<tokenFile, base, families, revoked>>

Refuses(p) ==
  /\ In(p, "refreshing") /\ ~Live(held[p]) /\ Send(p)
  /\ revoked' = revoked \cup {held[p].family}
  /\ phase' \in {[phase EXCEPT ![p] = "refused"], [phase EXCEPT ![p] = "idle"]}
  /\ UNCHANGED <<tokenFile, held, base, families, newest, causes>>

\* The server is not reached: the access token at hand is tried.
Offline(p) ==
  /\ In(p, "refreshing") /\ Go(p, "idle")
  /\ UNCHANGED <<tokenFile, held, base, Server, causes, sentTo>>

\* SaveToken, of a refresh or of a login.
Save(p) ==
  /\ phase[p] \in {"saving", "logged in"} /\ tokenFile' = held[p] /\ Go(p, "idle")
  /\ UNCHANGED <<held, base, Server, causes, sentTo>>

\* It fails, or the process ends first: a refresh's old token stays, and is dead.
SaveFails(p) ==
  /\ phase[p] \in {"saving", "logged in"} /\ Go(p, "idle")
  /\ IF phase[p] = "saving" THEN Because("not saved") ELSE UNCHANGED causes
  /\ UNCHANGED <<tokenFile, held, base, Server, sentTo>>

\* invalid_grant: DeleteToken, whatever the file holds by now.
Forget(p) ==
  /\ In(p, "refused") /\ tokenFile' \in {NoToken, tokenFile} /\ Go(p, "idle")
  /\ UNCHANGED <<held, base, Server, causes, sentTo>>

-----------------------------------------------------------------------------
(* performLogin and performLogout.                                         *)

Login(p) ==
  /\ In(p, "idle") /\ families < MaxLogins /\ Go(p, "logging in") /\ Begins(p)
  /\ UNCHANGED <<tokenFile, held, base, Server, sentTo>>

\* The browser's callback and the exchange of its code, or the poll of a device code.
Granted(p) ==
  /\ In(p, "logging in") /\ families < MaxLogins /\ families' = families + 1
  /\ Hold(p, [family |-> families + 1, n |-> 1, base |-> base[p]]) /\ Go(p, "logged in")
  /\ UNCHANGED <<tokenFile, base, newest, revoked, causes, sentTo>>

\* Denied, expired, cancelled after ten minutes, or the answer is lost.
LoginFails(p) ==
  /\ In(p, "logging in") /\ Go(p, "idle")
  /\ families' \in {families} \cup {n \in Family : n = families + 1}
  /\ UNCHANGED <<tokenFile, held, base, newest, revoked, causes, sentTo>>

Logout(p) ==
  /\ In(p, "idle") /\ tokenFile # NoToken
  /\ Hold(p, tokenFile) /\ Go(p, "revoking") /\ Begins(p)
  /\ UNCHANGED <<tokenFile, base, Server, sentTo>>

\* Where a logout sends the token: to the orchestrator that minted it.
RevokesAt(p) == held[p].base

\* Revoke, if the server is reached.
Revoke(p) ==
  /\ In(p, "revoking") /\ Go(p, "deleting")
  /\ \/ /\ revoked' = revoked \cup {held[p].family} /\ Because("revoked")
        /\ sentTo' = sentTo \cup {<<held[p], RevokesAt(p)>>}
     \/ UNCHANGED <<revoked, causes, sentTo>>
  /\ UNCHANGED <<tokenFile, held, base, families, newest>>

Delete(p) ==
  /\ In(p, "deleting") /\ tokenFile' \in {NoToken, tokenFile} /\ Go(p, "idle")
  /\ UNCHANGED <<held, base, Server, causes, sentTo>>

\* The user revokes a session in the web.
WebRevokes ==
  /\ \E f \in 1..families : f \notin revoked /\ revoked' = revoked \cup {f}
  /\ Because("revoked")
  /\ UNCHANGED <<tokenFile, phase, held, base, families, newest, sentTo>>

-----------------------------------------------------------------------------
TokenNext ==
  \/ WebRevokes
  \/ \E p \in Procs :
       \/ UseToken(p) \/ NeedsRefresh(p) \/ Rotates(p) \/ Refuses(p) \/ Offline(p)
       \/ Save(p) \/ SaveFails(p) \/ Forget(p)
       \/ Login(p) \/ Granted(p) \/ LoginFails(p) \/ Logout(p) \/ Revoke(p) \/ Delete(p)

TokenSpec == TokenInit /\ [][TokenNext]_tokenVars
-----------------------------------------------------------------------------
TokenTypeOK ==
  /\ tokenFile \in Tokens \cup {NoToken}
  /\ phase \in [Procs -> {"idle", "refreshing", "saving", "refused", "logging in", "logged in",
                          "revoking", "deleting"}]
  /\ held \in [Procs -> Tokens \cup {NoToken}] /\ base \in [Procs -> Bases]
  /\ families \in 0..MaxLogins /\ newest \in [Family -> Nat] /\ revoked \subseteq Family
  /\ causes \subseteq {"lost answer", "not saved", "overlap", "revoked"}
  /\ sentTo \subseteq Tokens \X Bases

\* A login lasts: the stored refresh token is the live one whenever no process is about
\* to replace or delete it, and no refresh is refused, although every refresh kills the
\* token it uses -- as long as no answer is lost, every save works, processes do not
\* overlap and nobody revokes.
LoginLasts ==
  causes = {} =>
    /\ \A p \in Procs : phase[p] # "refused"
    /\ tokenFile # NoToken /\ (\A p \in Procs : phase[p] # "saving") => Live(tokenFile)

\* "must not be replayed here" (resolveBearer): no token reaches another orchestrator
\* than the one that minted it, as a bearer, in a refresh or at the logout, whatever
\* other processes store meanwhile.
TokensGoHome == \A s \in sentTo : s[1].base = s[2]
=============================================================================
