----------------------------- MODULE OAuthTokens -----------------------------
(***************************************************************************)
(* The refresh tokens of OAuth clients: issue, rotation, replay detection, *)
(* revocation (internal/federation/oidc/oidc.go).                          *)
(*                                                                         *)
(* A rotation locks its token's row (SELECT ... FOR UPDATE) and inserts    *)
(* the successor in the same transaction, which nobody sees before the     *)
(* commit.  A replay and an administrator's RevokeGrant run an UPDATE of   *)
(* the pair's rows.  At READ COMMITTED that statement works on the rows    *)
(* its snapshot shows (Snapshot), takes their locks one by one, waiting    *)
(* for transactions that hold them (Visit), and its writes appear with the *)
(* commit (Commit).  Transactions that wait for one another are a deadlock *)
(* to Postgres, which aborts one of them (DeadlockAbort).                  *)
(***************************************************************************)
EXTENDS Naturals

CONSTANTS Pair,      \* a client and a user it holds tokens for
          Token,     \* rows of auth.oidc_refresh_tokens
          Request,   \* handlers of the token, revocation and grant endpoints
          None,      \* SQL NULL / no row
          MaxCrash   \* how many handlers may fail half-way

ASSUME OAuthTokensAssumption ==
  /\ None \notin Pair \cup Token \cup Request
  /\ MaxCrash \in Nat

VARIABLES
  owner,       \* client_id and user_id, None when there is no row
  replacedBy,  \* replaced_by; used_at is set with it
  revoked,     \* tokens with revoked_at
  expired,     \* tokens past expires_at
  rowLock,     \* the transaction that holds a token's row lock
  pc,          \* where each handler is
  tok,         \* the token a refresh was given
  pair,        \* the pair a handler works for
  todo,        \* rows of the UPDATE's snapshot it has yet to lock
  first,       \* history: the token of the grant a token descends from
  crashes      \* history: failures so far

rowVars == <<owner, replacedBy, revoked, expired>>
reqVars == <<pc, tok, pair, todo>>
histVars == <<first, crashes>>
vars == <<rowVars, rowLock, reqVars, histVars>>

Used(t) == replacedBy[t] # None
TokensOf(p) == {t \in Token : owner[t] = p}

(* Row identifiers are fresh and carry no meaning: any unused one will do. *)
Unstored == {t \in Token : owner[t] = None}
NewRow == CHOOSE t \in Token : owner[t] = None

(* Introspect: neither revoked nor rotated nor expired.                    *)
Active(t) == owner[t] # None /\ t \notin revoked /\ ~Used(t) /\ t \notin expired

TypeOK ==
  /\ owner \in [Token -> Pair \cup {None}]
  /\ replacedBy \in [Token -> Token \cup {None}]
  /\ revoked \subseteq Token
  /\ expired \subseteq Token
  /\ rowLock \in [Token -> Request \cup {None}]
  /\ pc \in [Request -> {"idle", "issue", "refuse", "rotate", "reuse", "update"}]
  /\ tok \in [Request -> Token \cup {None}]
  /\ pair \in [Request -> Pair \cup {None}]
  /\ todo \in [Request -> SUBSET Token]
  /\ first \in [Token -> Token \cup {None}]
  /\ crashes \in 0..MaxCrash

Init ==
  /\ owner = [t \in Token |-> None]
  /\ replacedBy = [t \in Token |-> None]
  /\ revoked = {}
  /\ expired = {}
  /\ rowLock = [t \in Token |-> None]
  /\ pc = [r \in Request |-> "idle"]
  /\ tok = [r \in Request |-> None]
  /\ pair = [r \in Request |-> None]
  /\ todo = [r \in Request |-> {}]
  /\ first = [t \in Token |-> None]
  /\ crashes = 0

-----------------------------------------------------------------------------
Go(r, at, t, p, rows) ==
  /\ pc' = [pc EXCEPT ![r] = at]
  /\ tok' = [tok EXCEPT ![r] = t]
  /\ pair' = [pair EXCEPT ![r] = p]
  /\ todo' = [todo EXCEPT ![r] = rows]

(* The transaction ends and gives up its row locks.                        *)
Finish(r) ==
  /\ Go(r, "idle", None, None, {})
  /\ rowLock' = [t \in Token |-> IF rowLock[t] = r THEN None ELSE rowLock[t]]

(* A ticket was redeemed (GrantTickets) and its transaction is committed.  *)
Redeemed(r, p) ==
  /\ pc[r] = "idle"
  /\ Go(r, "issue", None, p, {})
  /\ UNCHANGED <<rowVars, rowLock, histVars>>

(* issueRefreshToken: the first token of a grant.                          *)
IssueRefreshToken(r) ==
  LET t == NewRow IN
  /\ pc[r] = "issue"
  /\ Unstored # {}
  /\ owner' = [owner EXCEPT ![t] = pair[r]]
  /\ first' = [first EXCEPT ![t] = t]
  /\ Finish(r)
  /\ UNCHANGED <<replacedBy, revoked, expired, crashes>>

(* Mutant: revoked_at is looked at for used tokens only.                   *)
VerdictIgnoringRevocation(t, own) ==
  IF ~own \/ (Used(t) /\ t \in revoked) THEN "refuse"
  ELSE IF Used(t) THEN "reuse"
  ELSE IF t \in expired THEN "refuse"
  ELSE "rotate"

(* What RefreshToken makes of the row; own: it is the token's own client   *)
(* that was authenticated.                                                 *)
Verdict(t, own) ==
  IF ~own \/ t \in revoked THEN "refuse"
  ELSE IF Used(t) THEN "reuse"
  ELSE IF t \in expired THEN "refuse"
  ELSE "rotate"

(* Mutant: a plain SELECT, which waits for nobody.                         *)
RefreshWithoutLock(r, own, t) ==
  /\ pc[r] = "idle"
  /\ owner[t] # None
  /\ Go(r, Verdict(t, own), t, owner[t], {})
  /\ UNCHANGED <<rowVars, rowLock, histVars>>

(* RefreshToken: the SELECT ... FOR UPDATE and the checks after it.        *)
RefreshLock(r, own, t) ==
  /\ pc[r] = "idle"
  /\ owner[t] # None
  /\ rowLock[t] = None
  /\ rowLock' = [rowLock EXCEPT ![t] = r]
  /\ Go(r, Verdict(t, own), t, owner[t], {})
  /\ UNCHANGED <<rowVars, histVars>>

(* Refused, or (a bound of the model) there is no row left to insert.      *)
RefreshRefuse(r) ==
  /\ pc[r] = "refuse" \/ (pc[r] = "rotate" /\ Unstored = {})
  /\ Finish(r)
  /\ UNCHANGED <<rowVars, histVars>>

(* The successor is inserted, the token marked used, the two committed.    *)
Rotate(r) ==
  LET t == NewRow IN
  /\ pc[r] = "rotate"
  /\ Unstored # {}
  /\ owner' = [owner EXCEPT ![t] = pair[r]]
  /\ replacedBy' = [replacedBy EXCEPT ![tok[r]] = t]
  /\ first' = [first EXCEPT ![t] = first[tok[r]]]
  /\ Finish(r)
  /\ UNCHANGED <<revoked, expired, crashes>>

-----------------------------------------------------------------------------
(* RevokeRefreshTokenChain and RevokeGrantChain: the pair's rows that the  *)
(* statement's snapshot shows unrevoked.                                   *)
Snapshot(p) == TokensOf(p) \ revoked

(* handleRefreshReuse starts its UPDATE; the replayed row stays locked.    *)
Reuse(r) ==
  /\ pc[r] = "reuse"
  /\ Go(r, "update", None, pair[r], Snapshot(pair[r]))
  /\ UNCHANGED <<rowVars, rowLock, histVars>>

(* RevokeGrant: an administrator names a token of the pair, any of them.   *)
RevokeGrant(r, p) ==
  /\ pc[r] = "idle"
  /\ TokensOf(p) # {}
  /\ Go(r, "update", None, p, Snapshot(p))
  /\ UNCHANGED <<rowVars, rowLock, histVars>>

(* The UPDATE takes the lock of one more row; it rechecks revoked_at and   *)
(* leaves alone a row that was revoked meanwhile.                          *)
Visit(r, t) ==
  /\ pc[r] = "update"
  /\ t \in todo[r]
  /\ rowLock[t] \in {None, r}
  /\ rowLock' = [rowLock EXCEPT ![t] = r]
  /\ todo' = [todo EXCEPT ![r] = @ \ {t}]
  /\ UNCHANGED <<rowVars, pc, tok, pair, histVars>>

(* The audit row and the commit: every row the UPDATE locked is revoked.   *)
Commit(r) ==
  /\ pc[r] = "update"
  /\ todo[r] = {}
  /\ revoked' = revoked \cup {t \in Token : rowLock[t] = r}
  /\ Finish(r)
  /\ UNCHANGED <<owner, replacedBy, expired, first, crashes>>

(* r waits for a row, and so do all whom it waits for, for one another.    *)
Blockers(r) == {rowLock[t] : t \in todo[r]}

Deadlocked(r) ==
  \E S \in SUBSET Request :
    /\ r \in S
    /\ \A q \in S : todo[q] # {} /\ Blockers(q) \subseteq S \ {q}

(* Postgres aborts one transaction of a deadlock; the call fails.          *)
DeadlockAbort(r) ==
  /\ Deadlocked(r)
  /\ Finish(r)
  /\ UNCHANGED <<rowVars, histVars>>

(* RevokeToken (RFC 7009): one statement for one token, which waits for    *)
(* the row and leaves a successor alone.                                   *)
RevokeToken(t) ==
  /\ owner[t] # None
  /\ rowLock[t] = None
  /\ revoked' = revoked \cup {t}
  /\ UNCHANGED <<owner, replacedBy, expired, rowLock, reqVars, histVars>>

-----------------------------------------------------------------------------
(* A handler fails: what its transaction did is undone; a redeemed ticket  *)
(* stays redeemed and its tokens are not made.                             *)
Crash(r) ==
  /\ crashes < MaxCrash
  /\ pc[r] # "idle"
  /\ crashes' = crashes + 1
  /\ Finish(r)
  /\ UNCHANGED <<rowVars, first>>

(* Wall-clock time passes a token's expires_at; nobody asks it of a used   *)
(* token.                                                                  *)
Expire(t) ==
  /\ owner[t] # None
  /\ ~Used(t)
  /\ t \notin expired
  /\ expired' = expired \cup {t}
  /\ UNCHANGED <<owner, replacedBy, revoked, rowLock, reqVars, histVars>>

HandlerStep(r) ==
  \/ IssueRefreshToken(r)
  \/ Rotate(r)
  \/ \E t \in Token : Visit(r, t)
  \/ RefreshRefuse(r)
  \/ Reuse(r)
  \/ Commit(r)
  \/ DeadlockAbort(r)

Next ==
  \/ \E r \in Request, p \in Pair : Redeemed(r, p) \/ RevokeGrant(r, p)
  \/ \E r \in Request, own \in BOOLEAN, t \in Token : RefreshLock(r, own, t)
  \/ \E r \in Request : HandlerStep(r) \/ Crash(r)
  \/ \E t \in Token : RevokeToken(t) \/ Expire(t)

Spec == Init /\ [][Next]_vars

-----------------------------------------------------------------------------
(* Properties                                                              *)

(* A grant has at most one token that can still be rotated, whatever       *)
(* number of refreshes present the same one: RefreshToken's row lock.      *)
OneUnusedPerGrant ==
  \A t1, t2 \in Token :
    /\ first[t1] # None
    /\ first[t1] = first[t2]
    /\ ~Used(t1)
    /\ ~Used(t2)
    => t1 = t2

Family(f) == {t \in Token : first[t] = f}

StaysDead(f) ==
  Family(f) # {} /\ Family(f) \subseteq revoked => Family(f)' \subseteq revoked'

(* A grant all of whose tokens are revoked never gets another, whoever     *)
(* revoked them while a rotation waited for its row: RefreshToken reads    *)
(* revoked_at once it has the lock.                                        *)
DeadGrantStaysDead == [][\A f \in Token : StaysDead(f)]_vars

(* "RevokeGrant revokes the entire (client, user) refresh-token chain the  *)
(* given token belongs to, so a rotated sibling can't keep the grant       *)
(* alive": once a revocation commits, no token of a grant it revoked a     *)
(* token of is active.                                                     *)
RevokedGrantHasNoActiveToken ==
  [][\A r \in Request : Commit(r) =>
       \A s, t \in Token : rowLock[s] = r /\ first[s] = first[t] => ~Active(t)']_vars

=============================================================================
