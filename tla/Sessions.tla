------------------------------ MODULE Sessions ------------------------------
(***************************************************************************)
(* API sessions and their rotating refresh tokens                          *)
(* (internal/access/authentication/service.go).                            *)
(*                                                                         *)
(* Postgres runs at READ COMMITTED.  A refresh is one transaction whose    *)
(* first statement, SELECT ... FOR UPDATE OF rt, joins the token with its  *)
(* session and user: the session and user columns come from the snapshot   *)
(* the statement starts with, the token's own columns are read again once  *)
(* its row lock is granted, and the lock is held until the transaction     *)
(* ends.  The statement is therefore two steps here, RefreshSelect and     *)
(* RefreshLock; what follows is decided from the values they read, and     *)
(* the writes of the transaction appear at its commit.                     *)
(***************************************************************************)
EXTENDS Naturals, FiniteSets

CONSTANTS User,      \* rows of "user".users
          Session,   \* identifiers of auth.sessions rows
          Token,     \* identifiers of auth.refresh_tokens rows
          Request,   \* handlers serving refresh and logout calls
          None,      \* SQL NULL / no row
          MaxCrash   \* how many handlers may fail before their commit or emit

ASSUME SessionsAssumption ==
  /\ None \notin User \cup Session \cup Token \cup Request
  /\ MaxCrash \in Nat

VARIABLES
  blocked,    \* users whose status is suspended or whose deleted_at is set
  sessUser,   \* sessions.user_id, None when there is no row
  tenantless, \* sessions whose tenant_id is NULL
  revoked,    \* sessions whose revoked_at is set
  rtSess,     \* refresh_tokens.session_id, None when there is no row
  replacedBy, \* refresh_tokens.replaced_by; used_at is set with it
  expired,    \* tokens past expires_at
  rowLock,    \* the transaction that holds a token's row lock
  pc,         \* where each handler is
  tok,        \* the token a refresh handler was given
  sess,       \* the session a handler works on
  barred,     \* what the SELECT read: session revoked, account blocked, expired
  seenUsed,   \* what RefreshLock read: used_at is set
  signalled,  \* sessions a session.revoked webhook was emitted for
  late,       \* history: tokens minted for a session already revoked
  crashes     \* history: failures so far

dbVars == <<blocked, sessUser, tenantless, revoked, rtSess, replacedBy, expired>>
reqVars == <<pc, tok, sess, barred, seenUsed>>
vars == <<dbVars, rowLock, reqVars, signalled, late, crashes>>

Used(t) == replacedBy[t] # None
SessionsOf(u) == {s \in Session : sessUser[s] = u}

TypeOK ==
  /\ blocked \subseteq User
  /\ sessUser \in [Session -> User \cup {None}]
  /\ tenantless \subseteq Session
  /\ revoked \subseteq Session
  /\ rtSess \in [Token -> Session \cup {None}]
  /\ replacedBy \in [Token -> Token \cup {None}]
  /\ expired \subseteq Token
  /\ rowLock \in [Token -> Request \cup {None}]
  /\ pc \in [Request -> {"idle", "selected", "locked", "emit"}]
  /\ tok \in [Request -> Token \cup {None}]
  /\ sess \in [Request -> Session \cup {None}]
  /\ barred \in [Request -> BOOLEAN]
  /\ seenUsed \in [Request -> BOOLEAN]
  /\ signalled \subseteq Session
  /\ late \subseteq Token
  /\ crashes \in 0..MaxCrash

Init ==
  /\ blocked = {}
  /\ sessUser = [s \in Session |-> None]
  /\ tenantless = {}
  /\ revoked = {}
  /\ rtSess = [t \in Token |-> None]
  /\ replacedBy = [t \in Token |-> None]
  /\ expired = {}
  /\ rowLock = [t \in Token |-> None]
  /\ pc = [r \in Request |-> "idle"]
  /\ tok = [r \in Request |-> None]
  /\ sess = [r \in Request |-> None]
  /\ barred = [r \in Request |-> FALSE]
  /\ seenUsed = [r \in Request |-> FALSE]
  /\ signalled = {}
  /\ late = {}
  /\ crashes = 0

-----------------------------------------------------------------------------
(* issuePair: one transaction inserts the session and its first refresh    *)
(* token.  It does not look at the account's status: its callers did, some *)
(* of them earlier, and SwitchTenant never does.                           *)
IssuePair(u, s, t) ==
  /\ sessUser[s] = None
  /\ rtSess[t] = None
  /\ sessUser' = [sessUser EXCEPT ![s] = u]
  /\ rtSess' = [rtSess EXCEPT ![t] = s]
  /\ \/ tenantless' = tenantless \cup {s}
     \/ UNCHANGED tenantless
  /\ UNCHANGED <<blocked, revoked, replacedBy, expired, rowLock, reqVars,
                 signalled, late, crashes>>

(* Mutant: the session's revoked_at is not looked at.                      *)
RefreshSelectIgnoringRevocation(r, t) ==
  LET s == rtSess[t] IN
  /\ pc[r] = "idle"
  /\ s # None
  /\ pc' = [pc EXCEPT ![r] = "selected"]
  /\ tok' = [tok EXCEPT ![r] = t]
  /\ sess' = [sess EXCEPT ![r] = s]
  /\ barred' = [barred EXCEPT ![r] = sessUser[s] \in blocked]
  /\ UNCHANGED <<dbVars, rowLock, seenUsed, signalled, late, crashes>>

(* Refresh, its SELECT: the snapshot of the session and of the user.       *)
RefreshSelect(r, t) ==
  LET s == rtSess[t] IN
  /\ pc[r] = "idle"
  /\ s # None
  /\ pc' = [pc EXCEPT ![r] = "selected"]
  /\ tok' = [tok EXCEPT ![r] = t]
  /\ sess' = [sess EXCEPT ![r] = s]
  /\ barred' = [barred EXCEPT ![r] = s \in revoked \/ sessUser[s] \in blocked]
  /\ UNCHANGED <<dbVars, rowLock, seenUsed, signalled, late, crashes>>

(* Mutant: a plain SELECT, which waits for nobody.                         *)
RefreshLockWithoutWaiting(r) ==
  /\ pc[r] = "selected"
  /\ pc' = [pc EXCEPT ![r] = "locked"]
  /\ seenUsed' = [seenUsed EXCEPT ![r] = Used(tok[r])]
  /\ barred' = [barred EXCEPT ![r] = @ \/ tok[r] \in expired]
  /\ UNCHANGED <<dbVars, rowLock, tok, sess, signalled, late, crashes>>

(* FOR UPDATE OF rt: wait for the row lock, then read the token's columns; *)
(* expires_at is compared with the clock here.                             *)
RefreshLock(r) ==
  /\ pc[r] = "selected"
  /\ rowLock[tok[r]] = None
  /\ rowLock' = [rowLock EXCEPT ![tok[r]] = r]
  /\ pc' = [pc EXCEPT ![r] = "locked"]
  /\ seenUsed' = [seenUsed EXCEPT ![r] = Used(tok[r])]
  /\ barred' = [barred EXCEPT ![r] = @ \/ tok[r] \in expired]
  /\ UNCHANGED <<dbVars, tok, sess, signalled, late, crashes>>

(* What the handler still holds after a step: nothing once it returned,    *)
(* the session to report on once a revocation is committed.                *)
Left(r, at, s) ==
  /\ pc' = [pc EXCEPT ![r] = at]
  /\ tok' = [tok EXCEPT ![r] = None]
  /\ sess' = [sess EXCEPT ![r] = s]
  /\ barred' = [barred EXCEPT ![r] = FALSE]
  /\ seenUsed' = [seenUsed EXCEPT ![r] = FALSE]

Return(r) == Left(r, "idle", None)
Committed(r, s) == Left(r, "emit", s)

Unlock(r) ==
  rowLock' = [t \in Token |-> IF rowLock[t] = r THEN None ELSE rowLock[t]]

(* Session revoked, account suspended or deleted, or token expired.        *)
RefreshRefuse(r) ==
  /\ pc[r] = "locked"
  /\ barred[r]
  /\ Return(r)
  /\ Unlock(r)
  /\ UNCHANGED <<dbVars, signalled, late, crashes>>

(* The used token's row points at its successor, a fresh row.              *)
RefreshRotate(r, t) ==
  /\ pc[r] = "locked"
  /\ ~barred[r]
  /\ ~seenUsed[r]
  /\ rtSess[t] = None
  /\ rtSess' = [rtSess EXCEPT ![t] = sess[r]]
  /\ replacedBy' = [replacedBy EXCEPT ![tok[r]] = t]
  /\ late' = IF sess[r] \in revoked THEN late \cup {t} ELSE late
  /\ Return(r)
  /\ Unlock(r)
  /\ UNCHANGED <<blocked, sessUser, tenantless, revoked, expired, signalled,
                 crashes>>

(* Mutant: the error return comes before the commit, so the deferred       *)
(* Rollback undoes the revocation.                                         *)
RefreshReuseRolledBack(r) ==
  /\ pc[r] = "locked"
  /\ ~barred[r]
  /\ seenUsed[r]
  /\ Return(r)
  /\ Unlock(r)
  /\ UNCHANGED <<dbVars, signalled, late, crashes>>

(* Mutant: a failed commit goes unnoticed and the signal is emitted.       *)
RefreshReuseUncommitted(r) ==
  /\ pc[r] = "locked"
  /\ ~barred[r]
  /\ seenUsed[r]
  /\ Committed(r, sess[r])
  /\ Unlock(r)
  /\ UNCHANGED <<dbVars, signalled, late, crashes>>

(* handleRefreshReuse and the commit: the session is revoked together with *)
(* its audit and outbox rows; the webhook signal is emitted afterwards.    *)
RefreshReuse(r) ==
  /\ pc[r] = "locked"
  /\ ~barred[r]
  /\ seenUsed[r]
  /\ revoked' = revoked \cup {sess[r]}
  /\ Committed(r, sess[r])
  /\ Unlock(r)
  /\ UNCHANGED <<blocked, sessUser, tenantless, rtSess, replacedBy, expired,
                 signalled, late, crashes>>

(* Logout: a conditional UPDATE ... RETURNING; nothing happens, and        *)
(* nothing is emitted, when the session is already revoked.                *)
Logout(r, s) ==
  /\ pc[r] = "idle"
  /\ sessUser[s] # None
  /\ s \notin revoked
  /\ revoked' = revoked \cup {s}
  /\ Committed(r, s)
  /\ UNCHANGED <<blocked, sessUser, tenantless, rtSess, replacedBy, expired,
                 rowLock, signalled, late, crashes>>

(* emit: best effort, after the commit, skipped for a tenant-less session. *)
Emit(r) ==
  /\ pc[r] = "emit"
  /\ signalled' = IF sess[r] \in tenantless
                    THEN signalled ELSE signalled \cup {sess[r]}
  /\ Return(r)
  /\ UNCHANGED <<dbVars, rowLock, late, crashes>>

(* A handler fails: an error return or a process crash rolls back an open  *)
(* transaction and releases its lock; after the commit only the emission   *)
(* is lost.                                                                *)
Crash(r) ==
  /\ crashes < MaxCrash
  /\ pc[r] # "idle"
  /\ crashes' = crashes + 1
  /\ Return(r)
  /\ Unlock(r)
  /\ UNCHANGED <<dbVars, signalled, late>>

(* RevokeUserSessions, as ConfirmPasswordReset and the GDPR purge run it.  *)
RevokeUserSessions(u) ==
  /\ revoked' = revoked \cup SessionsOf(u)
  /\ UNCHANGED <<blocked, sessUser, tenantless, rtSess, replacedBy, expired,
                 rowLock, reqVars, signalled, late, crashes>>

(* The user repository suspends or soft-deletes an account, reactivates or *)
(* restores it.  Neither touches auth.sessions.                            *)
SetBlocked(u) ==
  /\ blocked' = IF u \in blocked THEN blocked \ {u} ELSE blocked \cup {u}
  /\ UNCHANGED <<sessUser, tenantless, revoked, rtSess, replacedBy, expired,
                 rowLock, reqVars, signalled, late, crashes>>

(* Wall-clock time passes a token's expires_at.                            *)
Expire(t) ==
  /\ rtSess[t] # None
  /\ t \notin expired
  /\ expired' = expired \cup {t}
  /\ UNCHANGED <<blocked, sessUser, tenantless, revoked, rtSess, replacedBy,
                 rowLock, reqVars, signalled, late, crashes>>

HandlerStep(r) ==
  \/ RefreshLock(r)
  \/ RefreshRefuse(r)
  \/ \E t \in Token : RefreshRotate(r, t)
  \/ RefreshReuse(r)
  \/ Emit(r)

Next ==
  \/ \E u \in User, s \in Session, t \in Token : IssuePair(u, s, t)
  \/ \E r \in Request, t \in Token : RefreshSelect(r, t)
  \/ \E r \in Request : HandlerStep(r)
  \/ \E r \in Request, s \in Session : Logout(r, s)
  \/ \E r \in Request : Crash(r)
  \/ \E u \in User : RevokeUserSessions(u)
  \/ \E u \in User : SetBlocked(u)
  \/ \E t \in Token : Expire(t)

Spec == Init /\ [][Next]_vars

(* A handler that has started runs on; Postgres queues the waiters of a    *)
(* row lock, so none waits for it for ever.                                *)
Fairness == \A r \in Request : SF_vars(RefreshLock(r)) /\ WF_vars(HandlerStep(r))

FairSpec == Spec /\ Fairness

-----------------------------------------------------------------------------
(* Properties                                                              *)

(* Rotation leaves a session at most one refresh token that still buys a   *)
(* pair, whatever number of refreshes of it run side by side: the row lock *)
(* of Refresh's SELECT and the used_at it reads under it.                  *)
OneUnusedPerSession ==
  \A t1, t2 \in Token :
    /\ rtSess[t1] # None
    /\ rtSess[t1] = rtSess[t2]
    /\ ~Used(t1)
    /\ ~Used(t2)
    => t1 = t2

(* Refresh decides from a snapshot of the session, so a refresh in flight  *)
(* may still mint a pair for a session that Logout, a reuse or a password  *)
(* reset has just revoked; it is the last one that session ever gets.      *)
AtMostOnePairAfterRevocation ==
  \A t1, t2 \in late : rtSess[t1] = rtSess[t2] => t1 = t2

(* A refresh that presents a used token of a live session and account ends *)
(* in the revocation of that session, unless the token is found expired or *)
(* a handler fails: Refresh's reuse branch commits before it reports the   *)
(* error.                                                                  *)
ReuseRevokes ==
  \A t \in Token :
    (\E r \in Request : pc[r] = "selected" /\ tok[r] = t /\ Used(t) /\ ~barred[r])
      ~> (rtSess[t] \in revoked \/ t \in expired \/ crashes > 0)

(* A relying party is told of a revocation only once it is durable: the    *)
(* session.revoked webhook of Logout and of a reuse follows the commit.    *)
SignalledIsRevoked == signalled \subseteq revoked

-----------------------------------------------------------------------------
(* What the module promises: each session is a family with one live        *)
(* credential.                                                             *)
Unused(s) == {t \in Token : rtSess[t] = s /\ ~Used(t)}

FamilyPhase(s) ==
  IF sessUser[s] = None THEN "none"
  ELSE IF s \notin revoked THEN "open"
  ELSE IF \E t \in late : rtSess[t] = s THEN "closed"
  ELSE "closing"

Family == INSTANCE TokenFamily WITH
  Family <- Session,
  Credential <- Token,
  phase <- [s \in Session |-> FamilyPhase(s)],
  live <- [s \in Session |-> Unused(s)],
  spent <- {t \in Token : Used(t)}

(* Every behaviour of the sessions is one of token families.               *)
ImplementsTokenFamily == Family!Spec

=============================================================================
