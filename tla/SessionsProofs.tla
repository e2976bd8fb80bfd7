--------------------------- MODULE SessionsProofs ---------------------------
(***************************************************************************)
(* Proofs about Sessions, for every set of users, sessions, tokens and     *)
(* handlers and any number of failures.                                    *)
(***************************************************************************)
EXTENDS Sessions, TLAPS

InRefresh(r) == pc[r] \in {"selected", "locked"}

(* A row lock is held by the handler that locked that very token.          *)
LockInv ==
  \A r \in Request, t \in Token :
    rowLock[t] = r <=> (pc[r] = "locked" /\ tok[r] = t)

(* A refresh in flight works on a token that has a row, and on its session;*)
(* a handler about to emit has a session to report.                        *)
RefreshInv ==
  \A r \in Request :
    /\ InRefresh(r) =>
         tok[r] \in Token /\ sess[r] \in Session /\ rtSess[tok[r]] = sess[r]
    /\ pc[r] = "emit" => sess[r] \in Session

(* What was read under the lock stays true while the lock is held.         *)
SeenInv ==
  \A r \in Request : pc[r] = "locked" => (seenUsed[r] <=> Used(tok[r]))

(* Only a token with a row is used, only a session with a row has tokens   *)
(* or is revoked.                                                          *)
RowInv ==
  /\ \A t \in Token : Used(t) => rtSess[t] # None
  /\ \A t \in Token : rtSess[t] # None => sessUser[rtSess[t]] # None
  /\ \A s \in revoked : sessUser[s] # None

(* A token minted after the revocation is never spent, and every refresh   *)
(* of it read the revocation.                                              *)
LateInv ==
  \A t \in late :
    /\ rtSess[t] \in revoked
    /\ ~Used(t)
    /\ \A r \in Request : InRefresh(r) /\ tok[r] = t => barred[r]

IInv == /\ TypeOK
        /\ LockInv
        /\ RefreshInv
        /\ SeenInv
        /\ RowInv
        /\ OneUnusedPerSession
        /\ LateInv

-----------------------------------------------------------------------------
LEMMA IssuePairPreserves ==
  ASSUME IInv, NEW u \in User, NEW s \in Session, NEW t \in Token, IssuePair(u, s, t)
  PROVE  IInv'
<1> USE SessionsAssumption DEF IInv, dbVars, reqVars
<1>1. TypeOK'
  BY DEF IssuePair, TypeOK, RefreshInv, InRefresh
<1>2. LockInv'
  BY DEF IssuePair, TypeOK, LockInv
<1>3. RefreshInv'
  BY DEF IssuePair, TypeOK, RefreshInv, InRefresh
<1>4. SeenInv'
  BY DEF IssuePair, TypeOK, SeenInv, LockInv, RefreshInv, InRefresh, Used
<1>5. RowInv'
  BY DEF IssuePair, TypeOK, RowInv, RefreshInv, InRefresh, Used
<1>6. OneUnusedPerSession'
  BY DEF IssuePair, TypeOK, OneUnusedPerSession, RefreshInv, SeenInv, RowInv, InRefresh, Used
<1>7. LateInv'
  BY DEF IssuePair, TypeOK, LateInv, RefreshInv, OneUnusedPerSession, SeenInv, RowInv, InRefresh, Used
<1> QED BY <1>1, <1>2, <1>3, <1>4, <1>5, <1>6, <1>7

LEMMA RefreshSelectPreserves ==
  ASSUME IInv, NEW r \in Request, NEW t \in Token, RefreshSelect(r, t)
  PROVE  IInv'
<1> USE SessionsAssumption DEF IInv, dbVars, reqVars
<1>1. TypeOK'
  BY DEF RefreshSelect, TypeOK, RefreshInv, InRefresh
<1>2. LockInv'
  BY DEF RefreshSelect, TypeOK, LockInv
<1>3. RefreshInv'
  BY DEF RefreshSelect, TypeOK, RefreshInv, InRefresh
<1>4. SeenInv'
  BY DEF RefreshSelect, TypeOK, SeenInv, LockInv, RefreshInv, InRefresh, Used
<1>5. RowInv'
  BY DEF RefreshSelect, TypeOK, RowInv, RefreshInv, InRefresh, Used
<1>6. OneUnusedPerSession'
  BY DEF RefreshSelect, TypeOK, OneUnusedPerSession, RefreshInv, SeenInv, RowInv, InRefresh, Used
<1>7. LateInv'
  BY DEF RefreshSelect, TypeOK, LateInv, RefreshInv, OneUnusedPerSession, SeenInv, RowInv, InRefresh, Used
<1> QED BY <1>1, <1>2, <1>3, <1>4, <1>5, <1>6, <1>7

LEMMA RefreshLockPreserves ==
  ASSUME IInv, NEW r \in Request, RefreshLock(r)
  PROVE  IInv'
<1> USE SessionsAssumption DEF IInv, dbVars, reqVars
<1>1. TypeOK'
  <2>1. barred' \in [Request -> BOOLEAN]
    BY Zenon DEF RefreshLock, TypeOK
  <2>2. seenUsed' \in [Request -> BOOLEAN]
    BY Zenon DEF RefreshLock, TypeOK, Used
  <2> QED BY <2>1, <2>2 DEF RefreshLock, TypeOK, RefreshInv, InRefresh
<1>2. LockInv'
  BY DEF RefreshLock, TypeOK, LockInv
<1>3. RefreshInv'
  BY DEF RefreshLock, TypeOK, RefreshInv, InRefresh
<1>4. SeenInv'
  <2>1. (seenUsed'[r] <=> Used(tok[r])')
    BY Zenon DEF RefreshLock, TypeOK, Used
  <2> QED BY <2>1 DEF RefreshLock, TypeOK, SeenInv, LockInv, RefreshInv, InRefresh, Used
<1>5. RowInv'
  BY DEF RefreshLock, TypeOK, RowInv, RefreshInv, InRefresh, Used
<1>6. OneUnusedPerSession'
  BY DEF RefreshLock, TypeOK, OneUnusedPerSession, RefreshInv, SeenInv, RowInv, InRefresh, Used
<1>7. LateInv'
  BY DEF RefreshLock, TypeOK, LateInv, RefreshInv, OneUnusedPerSession, SeenInv, RowInv, InRefresh, Used
<1> QED BY <1>1, <1>2, <1>3, <1>4, <1>5, <1>6, <1>7

LEMMA RefreshRefusePreserves ==
  ASSUME IInv, NEW r \in Request, RefreshRefuse(r)
  PROVE  IInv'
<1> USE SessionsAssumption DEF IInv, dbVars, reqVars
<1>1. TypeOK'
  BY DEF RefreshRefuse, Return, Left, Unlock, TypeOK, RefreshInv, InRefresh
<1>2. LockInv'
  BY DEF RefreshRefuse, Return, Left, Unlock, TypeOK, LockInv
<1>3. RefreshInv'
  BY DEF RefreshRefuse, Return, Left, Unlock, TypeOK, RefreshInv, InRefresh
<1>4. SeenInv'
  BY DEF RefreshRefuse, Return, Left, Unlock, TypeOK, SeenInv, LockInv, RefreshInv, InRefresh, Used
<1>5. RowInv'
  BY DEF RefreshRefuse, Return, Left, Unlock, TypeOK, RowInv, RefreshInv, InRefresh, Used
<1>6. OneUnusedPerSession'
  BY DEF RefreshRefuse, Return, Left, Unlock, TypeOK, OneUnusedPerSession, RefreshInv, SeenInv, RowInv, InRefresh, Used
<1>7. LateInv'
  BY DEF RefreshRefuse, Return, Left, Unlock, TypeOK, LateInv, RefreshInv, OneUnusedPerSession, SeenInv, RowInv, InRefresh, Used
<1> QED BY <1>1, <1>2, <1>3, <1>4, <1>5, <1>6, <1>7

LEMMA RefreshRotatePreserves ==
  ASSUME IInv, NEW r \in Request, NEW t \in Token, RefreshRotate(r, t)
  PROVE  IInv'
<1> USE SessionsAssumption DEF IInv, dbVars, reqVars
<1>1. TypeOK'
  BY DEF RefreshRotate, Return, Left, Unlock, TypeOK, RefreshInv, InRefresh
<1>2. LockInv'
  BY DEF RefreshRotate, Return, Left, Unlock, TypeOK, LockInv
<1>3. RefreshInv'
  BY DEF RefreshRotate, Return, Left, Unlock, TypeOK, RefreshInv, InRefresh
<1>4. SeenInv'
  BY DEF RefreshRotate, Return, Left, Unlock, TypeOK, SeenInv, LockInv, RefreshInv, InRefresh, Used
<1>5. RowInv'
  BY DEF RefreshRotate, Return, Left, Unlock, TypeOK, RowInv, RefreshInv, InRefresh, Used
<1>6. OneUnusedPerSession'
  BY DEF RefreshRotate, Return, Left, Unlock, TypeOK, OneUnusedPerSession, RefreshInv, SeenInv, RowInv, InRefresh, Used
<1>7. LateInv'
  BY DEF RefreshRotate, Return, Left, Unlock, TypeOK, LateInv, RefreshInv, OneUnusedPerSession, SeenInv, RowInv, InRefresh, Used
<1> QED BY <1>1, <1>2, <1>3, <1>4, <1>5, <1>6, <1>7

LEMMA RefreshReusePreserves ==
  ASSUME IInv, NEW r \in Request, RefreshReuse(r)
  PROVE  IInv'
<1> USE SessionsAssumption DEF IInv, dbVars, reqVars
<1>1. TypeOK'
  BY DEF RefreshReuse, Committed, Left, Unlock, TypeOK, RefreshInv, InRefresh
<1>2. LockInv'
  BY DEF RefreshReuse, Committed, Left, Unlock, TypeOK, LockInv
<1>3. RefreshInv'
  BY DEF RefreshReuse, Committed, Left, Unlock, TypeOK, RefreshInv, InRefresh
<1>4. SeenInv'
  BY DEF RefreshReuse, Committed, Left, Unlock, TypeOK, SeenInv, LockInv, RefreshInv, InRefresh, Used
<1>5. RowInv'
  BY DEF RefreshReuse, Committed, Left, Unlock, TypeOK, RowInv, RefreshInv, InRefresh, Used
<1>6. OneUnusedPerSession'
  BY DEF RefreshReuse, Committed, Left, Unlock, TypeOK, OneUnusedPerSession, RefreshInv, SeenInv, RowInv, InRefresh, Used
<1>7. LateInv'
  BY DEF RefreshReuse, Committed, Left, Unlock, TypeOK, LateInv, RefreshInv, OneUnusedPerSession, SeenInv, RowInv, InRefresh, Used
<1> QED BY <1>1, <1>2, <1>3, <1>4, <1>5, <1>6, <1>7

LEMMA LogoutPreserves ==
  ASSUME IInv, NEW r \in Request, NEW s \in Session, Logout(r, s)
  PROVE  IInv'
<1> USE SessionsAssumption DEF IInv, dbVars, reqVars
<1>1. TypeOK'
  BY DEF Logout, Committed, Left, TypeOK, RefreshInv, InRefresh
<1>2. LockInv'
  BY DEF Logout, Committed, Left, TypeOK, LockInv
<1>3. RefreshInv'
  BY DEF Logout, Committed, Left, TypeOK, RefreshInv, InRefresh
<1>4. SeenInv'
  BY DEF Logout, Committed, Left, TypeOK, SeenInv, LockInv, RefreshInv, InRefresh, Used
<1>5. RowInv'
  BY DEF Logout, Committed, Left, TypeOK, RowInv, RefreshInv, InRefresh, Used
<1>6. OneUnusedPerSession'
  BY DEF Logout, Committed, Left, TypeOK, OneUnusedPerSession, RefreshInv, SeenInv, RowInv, InRefresh, Used
<1>7. LateInv'
  BY DEF Logout, Committed, Left, TypeOK, LateInv, RefreshInv, OneUnusedPerSession, SeenInv, RowInv, InRefresh, Used
<1> QED BY <1>1, <1>2, <1>3, <1>4, <1>5, <1>6, <1>7

LEMMA EmitPreserves ==
  ASSUME IInv, NEW r \in Request, Emit(r)
  PROVE  IInv'
<1> USE SessionsAssumption DEF IInv, dbVars, reqVars
<1>1. TypeOK'
  BY DEF Emit, Return, Left, TypeOK, RefreshInv, InRefresh
<1>2. LockInv'
  BY DEF Emit, Return, Left, TypeOK, LockInv
<1>3. RefreshInv'
  BY DEF Emit, Return, Left, TypeOK, RefreshInv, InRefresh
<1>4. SeenInv'
  BY DEF Emit, Return, Left, TypeOK, SeenInv, LockInv, RefreshInv, InRefresh, Used
<1>5. RowInv'
  BY DEF Emit, Return, Left, TypeOK, RowInv, RefreshInv, InRefresh, Used
<1>6. OneUnusedPerSession'
  BY DEF Emit, Return, Left, TypeOK, OneUnusedPerSession, RefreshInv, SeenInv, RowInv, InRefresh, Used
<1>7. LateInv'
  BY DEF Emit, Return, Left, TypeOK, LateInv, RefreshInv, OneUnusedPerSession, SeenInv, RowInv, InRefresh, Used
<1> QED BY <1>1, <1>2, <1>3, <1>4, <1>5, <1>6, <1>7

LEMMA CrashPreserves ==
  ASSUME IInv, NEW r \in Request, Crash(r)
  PROVE  IInv'
<1> USE SessionsAssumption DEF IInv, dbVars, reqVars
<1>1. TypeOK'
  BY DEF Crash, Return, Left, Unlock, TypeOK, RefreshInv, InRefresh
<1>2. LockInv'
  BY DEF Crash, Return, Left, Unlock, TypeOK, LockInv
<1>3. RefreshInv'
  BY DEF Crash, Return, Left, Unlock, TypeOK, RefreshInv, InRefresh
<1>4. SeenInv'
  BY DEF Crash, Return, Left, Unlock, TypeOK, SeenInv, LockInv, RefreshInv, InRefresh, Used
<1>5. RowInv'
  BY DEF Crash, Return, Left, Unlock, TypeOK, RowInv, RefreshInv, InRefresh, Used
<1>6. OneUnusedPerSession'
  BY DEF Crash, Return, Left, Unlock, TypeOK, OneUnusedPerSession, RefreshInv, SeenInv, RowInv, InRefresh, Used
<1>7. LateInv'
  BY DEF Crash, Return, Left, Unlock, TypeOK, LateInv, RefreshInv, OneUnusedPerSession, SeenInv, RowInv, InRefresh, Used
<1> QED BY <1>1, <1>2, <1>3, <1>4, <1>5, <1>6, <1>7

LEMMA RevokeUserSessionsPreserves ==
  ASSUME IInv, NEW u \in User, RevokeUserSessions(u)
  PROVE  IInv'
<1> USE SessionsAssumption DEF IInv, dbVars, reqVars
<1>1. TypeOK'
  BY DEF RevokeUserSessions, SessionsOf, TypeOK, RefreshInv, InRefresh
<1>2. LockInv'
  BY DEF RevokeUserSessions, SessionsOf, TypeOK, LockInv
<1>3. RefreshInv'
  BY DEF RevokeUserSessions, SessionsOf, TypeOK, RefreshInv, InRefresh
<1>4. SeenInv'
  BY DEF RevokeUserSessions, SessionsOf, TypeOK, SeenInv, LockInv, RefreshInv, InRefresh, Used
<1>5. RowInv'
  BY DEF RevokeUserSessions, SessionsOf, TypeOK, RowInv, RefreshInv, InRefresh, Used
<1>6. OneUnusedPerSession'
  BY DEF RevokeUserSessions, SessionsOf, TypeOK, OneUnusedPerSession, RefreshInv, SeenInv, RowInv, InRefresh, Used
<1>7. LateInv'
  BY DEF RevokeUserSessions, SessionsOf, TypeOK, LateInv, RefreshInv, OneUnusedPerSession, SeenInv, RowInv, InRefresh, Used
<1> QED BY <1>1, <1>2, <1>3, <1>4, <1>5, <1>6, <1>7

LEMMA SetBlockedPreserves ==
  ASSUME IInv, NEW u \in User, SetBlocked(u)
  PROVE  IInv'
<1> USE SessionsAssumption DEF IInv, dbVars, reqVars
<1>1. TypeOK'
  BY DEF SetBlocked, TypeOK, RefreshInv, InRefresh
<1>2. LockInv'
  BY DEF SetBlocked, TypeOK, LockInv
<1>3. RefreshInv'
  BY DEF SetBlocked, TypeOK, RefreshInv, InRefresh
<1>4. SeenInv'
  BY DEF SetBlocked, TypeOK, SeenInv, LockInv, RefreshInv, InRefresh, Used
<1>5. RowInv'
  BY DEF SetBlocked, TypeOK, RowInv, RefreshInv, InRefresh, Used
<1>6. OneUnusedPerSession'
  BY DEF SetBlocked, TypeOK, OneUnusedPerSession, RefreshInv, SeenInv, RowInv, InRefresh, Used
<1>7. LateInv'
  BY DEF SetBlocked, TypeOK, LateInv, RefreshInv, OneUnusedPerSession, SeenInv, RowInv, InRefresh, Used
<1> QED BY <1>1, <1>2, <1>3, <1>4, <1>5, <1>6, <1>7

LEMMA ExpirePreserves ==
  ASSUME IInv, NEW t \in Token, Expire(t)
  PROVE  IInv'
<1> USE SessionsAssumption DEF IInv, dbVars, reqVars
<1>1. TypeOK'
  BY DEF Expire, TypeOK, RefreshInv, InRefresh
<1>2. LockInv'
  BY DEF Expire, TypeOK, LockInv
<1>3. RefreshInv'
  BY DEF Expire, TypeOK, RefreshInv, InRefresh
<1>4. SeenInv'
  BY DEF Expire, TypeOK, SeenInv, LockInv, RefreshInv, InRefresh, Used
<1>5. RowInv'
  BY DEF Expire, TypeOK, RowInv, RefreshInv, InRefresh, Used
<1>6. OneUnusedPerSession'
  BY DEF Expire, TypeOK, OneUnusedPerSession, RefreshInv, SeenInv, RowInv, InRefresh, Used
<1>7. LateInv'
  BY DEF Expire, TypeOK, LateInv, RefreshInv, OneUnusedPerSession, SeenInv, RowInv, InRefresh, Used
<1> QED BY <1>1, <1>2, <1>3, <1>4, <1>5, <1>6, <1>7

LEMMA StutterPreserves ==
  ASSUME IInv, UNCHANGED vars
  PROVE  IInv'
<1> USE DEF vars, dbVars, reqVars, IInv, InRefresh, Used
<1>1. TypeOK' /\ LockInv' /\ RefreshInv'
  BY DEF TypeOK, LockInv, RefreshInv
<1>2. SeenInv' /\ RowInv' /\ OneUnusedPerSession' /\ LateInv'
  BY DEF SeenInv, RowInv, OneUnusedPerSession, LateInv
<1> QED BY <1>1, <1>2

LEMMA InitIInv == Init => IInv
<1> SUFFICES ASSUME Init PROVE IInv
  OBVIOUS
<1> USE SessionsAssumption DEF Init, InRefresh, Used
<1>1. TypeOK
  BY DEF TypeOK
<1>2. LockInv /\ RefreshInv /\ SeenInv /\ RowInv
  BY DEF LockInv, RefreshInv, SeenInv, RowInv
<1>3. OneUnusedPerSession /\ LateInv
  BY DEF OneUnusedPerSession, LateInv
<1> QED BY <1>1, <1>2, <1>3 DEF IInv

LEMMA NextIInv == IInv /\ [Next]_vars => IInv'
<1> SUFFICES ASSUME IInv, [Next]_vars PROVE IInv'
  OBVIOUS
<1>1. CASE UNCHANGED vars
  BY <1>1, StutterPreserves
<1>2. CASE Next
  BY <1>2, IssuePairPreserves, RefreshSelectPreserves, RefreshLockPreserves,
     RefreshRefusePreserves, RefreshRotatePreserves, RefreshReusePreserves,
     LogoutPreserves, EmitPreserves, CrashPreserves,
     RevokeUserSessionsPreserves, SetBlockedPreserves, ExpirePreserves
     DEF Next, HandlerStep
<1> QED BY <1>1, <1>2

LEMMA SpecIInv == Spec => []IInv
<1> QED BY InitIInv, NextIInv, PTL DEF Spec

(* Every variable keeps its type, whatever the interleaving.               *)
THEOREM SessionsTypeCorrect == Spec => []TypeOK
<1>1. IInv => TypeOK
  BY DEF IInv
<1> QED BY <1>1, SpecIInv, PTL

(* Refresh leaves a session at most one refresh token that still buys a    *)
(* pair, for any number of sessions, tokens and concurrent handlers.       *)
THEOREM RotationIsExclusive == Spec => []OneUnusedPerSession
<1>1. IInv => OneUnusedPerSession
  BY DEF IInv
<1> QED BY <1>1, SpecIInv, PTL

(* A refresh that read its session before the revocation may still commit; *)
(* no session gets a second pair that way.                                 *)
THEOREM RevocationIsFinal == Spec => []AtMostOnePairAfterRevocation
<1>1. IInv => AtMostOnePairAfterRevocation
  <2> SUFFICES ASSUME IInv, NEW t1 \in late, NEW t2 \in late,
                      rtSess[t1] = rtSess[t2]
               PROVE  t1 = t2
    BY DEF AtMostOnePairAfterRevocation
  <2>1. t1 \in Token /\ t2 \in Token /\ ~Used(t1) /\ ~Used(t2)
    BY DEF IInv, TypeOK, LateInv
  <2>2. rtSess[t1] # None
    BY SessionsAssumption DEF IInv, TypeOK, LateInv
  <2> QED BY <2>1, <2>2 DEF IInv, OneUnusedPerSession
<1> QED BY <1>1, SpecIInv, PTL

(* A handler that is about to emit session.revoked has committed.          *)
EmitInv == \A r \in Request : pc[r] = "emit" => sess[r] \in revoked

LEMMA SignalStep == IInv /\ EmitInv /\ SignalledIsRevoked /\ [Next]_vars
                      => EmitInv' /\ SignalledIsRevoked'
<1> SUFFICES ASSUME IInv, EmitInv, SignalledIsRevoked, [Next]_vars
             PROVE  EmitInv' /\ SignalledIsRevoked'
  OBVIOUS
<1> USE DEF EmitInv, SignalledIsRevoked, dbVars, reqVars
<1>1. /\ pc \in [Request -> {"idle", "selected", "locked", "emit"}]
      /\ sess \in [Request -> Session \cup {None}]
  BY DEF IInv, TypeOK
<1>2. CASE UNCHANGED vars
  BY <1>2 DEF vars
<1>3. ASSUME NEW u \in User, NEW s \in Session, NEW t \in Token, IssuePair(u, s, t)
      PROVE  EmitInv' /\ SignalledIsRevoked'
  BY <1>3 DEF IssuePair
<1>4. ASSUME NEW r \in Request, NEW t \in Token, RefreshSelect(r, t)
      PROVE  EmitInv' /\ SignalledIsRevoked'
  BY <1>1, <1>4 DEF RefreshSelect
<1>5. ASSUME NEW r \in Request, RefreshLock(r) \/ RefreshRefuse(r) \/ Crash(r)
      PROVE  EmitInv' /\ SignalledIsRevoked'
  BY <1>1, <1>5 DEF RefreshLock, RefreshRefuse, Crash, Return, Left
<1>6. ASSUME NEW r \in Request, NEW t \in Token, RefreshRotate(r, t)
      PROVE  EmitInv' /\ SignalledIsRevoked'
  BY <1>1, <1>6 DEF RefreshRotate, Return, Left
<1>7. ASSUME NEW r \in Request, RefreshReuse(r)
      PROVE  EmitInv' /\ SignalledIsRevoked'
  BY <1>1, <1>7 DEF RefreshReuse, Committed, Left
<1>8. ASSUME NEW r \in Request, Emit(r)
      PROVE  EmitInv' /\ SignalledIsRevoked'
  BY <1>1, <1>8 DEF Emit, Return, Left
<1>9. ASSUME NEW r \in Request, NEW s \in Session, Logout(r, s)
      PROVE  EmitInv' /\ SignalledIsRevoked'
  BY <1>1, <1>9 DEF Logout, Committed, Left
<1>10. ASSUME NEW u \in User, RevokeUserSessions(u) \/ SetBlocked(u)
       PROVE  EmitInv' /\ SignalledIsRevoked'
  BY <1>10 DEF RevokeUserSessions, SetBlocked
<1>11. ASSUME NEW t \in Token, Expire(t)
       PROVE  EmitInv' /\ SignalledIsRevoked'
  BY <1>11 DEF Expire
<1> QED BY <1>2, <1>3, <1>4, <1>5, <1>6, <1>7, <1>8, <1>9, <1>10, <1>11 DEF Next, HandlerStep

(* The session.revoked webhook follows the commit of what it reports: a    *)
(* signalled session stays revoked, whatever handlers fail in between.     *)
THEOREM SignalFollowsCommit == Spec => []SignalledIsRevoked
<1>1. Init => EmitInv /\ SignalledIsRevoked
  BY DEF Init, EmitInv, SignalledIsRevoked
<1> QED BY <1>1, SpecIInv, SignalStep, PTL DEF Spec

-----------------------------------------------------------------------------
(* The refinement.                                                         *)

phaseBar == [s \in Session |-> FamilyPhase(s)]
liveBar == [s \in Session |-> Unused(s)]
spentBar == {t \in Token : Used(t)}

LEMMA FamilyUnchanged ==
  ASSUME UNCHANGED <<sessUser, revoked, rtSess, replacedBy, late>>
  PROVE  UNCHANGED <<phaseBar, liveBar, spentBar>>
BY DEF phaseBar, liveBar, spentBar, FamilyPhase, Unused, Used

(* A token without a row is in no family.                                  *)
LEMMA FreshToken ==
  ASSUME IInv, NEW t \in Token, rtSess[t] = None
  PROVE  t \notin spentBar /\ \A s \in Session : t \notin liveBar[s]
BY SessionsAssumption DEF IInv, RowInv, spentBar, liveBar, Unused

(* Revoking sessions closes the ones that were open.                       *)
LEMMA RevokeCloses ==
  ASSUME IInv, NEW S \in SUBSET Session, \A s \in S : sessUser[s] # None,
         revoked' = revoked \cup S,
         UNCHANGED <<sessUser, rtSess, replacedBy, late>>
  PROVE  Family!Next
<1> DEFINE F == S \ revoked
<1>1. \A f \in F : phaseBar[f] = "open"
  BY DEF phaseBar, FamilyPhase
<1>2. UNCHANGED <<liveBar, spentBar>>
  BY DEF liveBar, spentBar, Unused, Used
<1>3. \A f \in F : ~ \E t \in late : rtSess[t] = f
  BY DEF IInv, LateInv
<1>4. ASSUME NEW f \in Session
      PROVE  FamilyPhase(f)' = IF f \in F THEN "closing" ELSE FamilyPhase(f)
  BY <1>3 DEF FamilyPhase
<1>5. phaseBar' = [f \in Session |-> IF f \in F THEN "closing" ELSE phaseBar[f]]
  BY <1>4 DEF phaseBar
<1>6. Family!Close(F)
  BY <1>1, <1>2, <1>5 DEF Family!Close, phaseBar, liveBar, spentBar
<1> QED BY <1>6 DEF Family!Next

LEMMA IssuePairOpens ==
  ASSUME IInv, NEW u \in User, NEW s \in Session, NEW t \in Token,
         IssuePair(u, s, t)
  PROVE  Family!Next
<1> USE SessionsAssumption DEF IInv
<1>1. phaseBar[s] = "none"
  BY DEF IssuePair, phaseBar, FamilyPhase
<1>2. t \notin spentBar /\ \A f \in Session : t \notin liveBar[f]
  BY FreshToken DEF IssuePair
<1>3. \A x \in Token : rtSess[x] # s
  BY DEF IssuePair, RowInv
<1>4. liveBar' = [liveBar EXCEPT ![s] = {t}]
  <2>1. ~Used(t)
    BY DEF IssuePair, RowInv
  <2>2. Unused(s)' = {t}
    BY <1>3, <2>1 DEF IssuePair, Unused, Used, TypeOK
  <2>3. ASSUME NEW f \in Session, f # s PROVE Unused(f)' = Unused(f)
    BY <2>3 DEF IssuePair, Unused, Used, TypeOK
  <2> QED BY <2>2, <2>3 DEF liveBar
<1>5. phaseBar' = [phaseBar EXCEPT ![s] = "open"]
  <2>1. FamilyPhase(s)' = "open"
    BY DEF IssuePair, FamilyPhase, RowInv, TypeOK
  <2>2. ASSUME NEW f \in Session, f # s PROVE FamilyPhase(f)' = FamilyPhase(f)
    <3>1. (\E x \in late : rtSess[x] = f) <=> (\E x \in late' : rtSess'[x] = f)
      BY <2>2 DEF IssuePair, TypeOK, LateInv
    <3> QED BY <2>2, <3>1 DEF IssuePair, FamilyPhase, TypeOK
  <2> QED BY <2>1, <2>2 DEF phaseBar
<1>6. UNCHANGED spentBar
  BY DEF IssuePair, spentBar, Used
<1>7. Family!Open(s, t)
  BY <1>1, <1>2, <1>4, <1>5, <1>6
     DEF Family!Open, Family!Fresh, phaseBar, liveBar, spentBar
<1> QED BY <1>7 DEF Family!Next

LEMMA RotateRotates ==
  ASSUME IInv, NEW r \in Request, NEW t \in Token, RefreshRotate(r, t)
  PROVE  Family!Next
<1> USE SessionsAssumption DEF IInv
<1>0. PICK s \in Session, old \in Token : s = sess[r] /\ old = tok[r]
  BY DEF RefreshRotate, RefreshInv, InRefresh
<1>1. /\ s = sess[r] /\ old = tok[r]
      /\ rtSess[old] = s /\ ~Used(old)
  BY <1>0 DEF RefreshRotate, RefreshInv, InRefresh, SeenInv
<1>2. liveBar[s] = {old}
  BY <1>1 DEF liveBar, Unused, OneUnusedPerSession
<1>3. t \notin spentBar /\ \A f \in Session : t \notin liveBar[f]
  BY FreshToken DEF RefreshRotate
<1>4. ~ \E x \in late : rtSess[x] = s
  <2> SUFFICES ASSUME NEW x \in late, rtSess[x] = s PROVE FALSE
    OBVIOUS
  <2>1. x = old
    BY <1>1 DEF LateInv, OneUnusedPerSession, TypeOK
  <2> QED BY <1>1, <2>1 DEF LateInv, InRefresh, RefreshRotate
<1>5. phaseBar[s] \in {"open", "closing"}
  BY <1>1, <1>4 DEF phaseBar, FamilyPhase, RowInv
<1>6. liveBar' = [liveBar EXCEPT ![s] = {t}]
  <2>1. ~Used(t) /\ t # old
    BY <1>1 DEF RefreshRotate, RowInv
  <2>2. Unused(s)' = {t}
    <3>1. \A x \in Token : x \in Unused(s) <=> x = old
      BY <1>1, <1>2 DEF liveBar
    <3>2. \A x \in Token : x \in Unused(s)' <=> x = t
      BY <1>1, <2>1, <3>1 DEF RefreshRotate, Unused, Used, TypeOK
    <3> QED BY <3>2 DEF Unused
  <2>3. ASSUME NEW f \in Session, f # s PROVE Unused(f)' = Unused(f)
    BY <1>1, <2>1, <2>3 DEF RefreshRotate, Unused, Used, TypeOK
  <2> QED BY <2>2, <2>3 DEF liveBar
<1>7. spentBar' = spentBar \cup {old}
  BY <1>1 DEF RefreshRotate, spentBar, Used, TypeOK
<1>8. phaseBar' = [phaseBar EXCEPT ![s] = IF @ = "open" THEN "open" ELSE "closed"]
  <2>1. CASE s \notin revoked
    <3>1. FamilyPhase(s)' = "open" /\ FamilyPhase(s) = "open"
      BY <1>1, <2>1 DEF RefreshRotate, FamilyPhase, RowInv
    <3>2. ASSUME NEW f \in Session, f # s PROVE FamilyPhase(f)' = FamilyPhase(f)
      BY <1>1, <2>1, <3>2 DEF RefreshRotate, FamilyPhase, TypeOK, LateInv
    <3> QED BY <3>1, <3>2, <1>1 DEF phaseBar
  <2>2. CASE s \in revoked
    <3>1. FamilyPhase(s)' = "closed" /\ FamilyPhase(s) = "closing"
      BY <1>1, <1>4, <2>2 DEF RefreshRotate, FamilyPhase, RowInv, TypeOK
    <3>2. ASSUME NEW f \in Session, f # s PROVE FamilyPhase(f)' = FamilyPhase(f)
      BY <1>1, <2>2, <3>2 DEF RefreshRotate, FamilyPhase, TypeOK, LateInv
    <3> QED BY <3>1, <3>2, <1>1 DEF phaseBar
  <2> QED BY <2>1, <2>2
<1>9. Family!Rotate(s, old, t)
  BY <1>2, <1>3, <1>5, <1>6, <1>7, <1>8
     DEF Family!Rotate, Family!Fresh, phaseBar, liveBar, spentBar
<1> QED BY <1>1, <1>9 DEF Family!Next

LEMMA FamilyInit == Init => Family!Init
<1> SUFFICES ASSUME Init PROVE Family!Init
  OBVIOUS
<1>1. \A s \in Session : FamilyPhase(s) = "none"
  BY DEF Init, FamilyPhase
<1>2. \A s \in Session : Unused(s) = {}
  BY SessionsAssumption DEF Init, Unused
<1>3. {t \in Token : Used(t)} = {}
  BY DEF Init, Used
<1> QED BY <1>1, <1>2, <1>3 DEF Family!Init

LEMMA FamilyNext == IInv /\ [Next]_vars => [Family!Next]_(Family!vars)
<1> SUFFICES ASSUME IInv, [Next]_vars PROVE [Family!Next]_(Family!vars)
  OBVIOUS
<1>0. ASSUME UNCHANGED <<sessUser, revoked, rtSess, replacedBy, late>>
      PROVE  UNCHANGED Family!vars
  BY <1>0, FamilyUnchanged DEF Family!vars, phaseBar, liveBar, spentBar
<1>1. CASE UNCHANGED vars
  BY <1>0, <1>1 DEF vars, dbVars
<1>2. ASSUME NEW u \in User, NEW s \in Session, NEW t \in Token,
             IssuePair(u, s, t)
      PROVE  Family!Next
  BY <1>2, IssuePairOpens
<1>3. ASSUME NEW r \in Request, NEW t \in Token, RefreshSelect(r, t)
      PROVE  UNCHANGED Family!vars
  BY <1>0, <1>3 DEF RefreshSelect, dbVars
<1>4. ASSUME NEW r \in Request,
             RefreshLock(r) \/ RefreshRefuse(r) \/ Emit(r) \/ Crash(r)
      PROVE  UNCHANGED Family!vars
  BY <1>0, <1>4 DEF RefreshLock, RefreshRefuse, Emit, Crash, dbVars
<1>5. ASSUME NEW r \in Request, NEW t \in Token, RefreshRotate(r, t)
      PROVE  Family!Next
  BY <1>5, RotateRotates
<1>6. ASSUME NEW r \in Request, RefreshReuse(r)
      PROVE  Family!Next
  <2>1. sess[r] \in Session /\ sessUser[sess[r]] # None
    BY <1>6, SessionsAssumption DEF RefreshReuse, IInv, RefreshInv, InRefresh, RowInv
  <2>2. {sess[r]} \in SUBSET Session /\ \A s \in {sess[r]} : sessUser[s] # None
    BY <2>1
  <2>3. revoked' = revoked \cup {sess[r]}
    BY <1>6 DEF RefreshReuse
  <2>4. UNCHANGED <<sessUser, rtSess, replacedBy, late>>
    BY <1>6 DEF RefreshReuse
  <2> QED BY <2>2, <2>3, <2>4, RevokeCloses
<1>7. ASSUME NEW r \in Request, NEW s \in Session, Logout(r, s)
      PROVE  Family!Next
  <2>1. {s} \in SUBSET Session /\ \A x \in {s} : sessUser[x] # None
    BY <1>7 DEF Logout
  <2>2. revoked' = revoked \cup {s}
    BY <1>7 DEF Logout
  <2>3. UNCHANGED <<sessUser, rtSess, replacedBy, late>>
    BY <1>7 DEF Logout
  <2> QED BY <2>1, <2>2, <2>3, RevokeCloses
<1>8. ASSUME NEW u \in User, RevokeUserSessions(u)
      PROVE  Family!Next
  <2>1. \A s \in SessionsOf(u) : sessUser[s] # None
    BY SessionsAssumption DEF SessionsOf
  <2>2. SessionsOf(u) \in SUBSET Session
    BY DEF SessionsOf
  <2> QED BY <1>8, <2>1, <2>2, RevokeCloses DEF RevokeUserSessions
<1>9. ASSUME NEW u \in User, SetBlocked(u)
      PROVE  UNCHANGED Family!vars
  BY <1>0, <1>9 DEF SetBlocked
<1>10. ASSUME NEW t \in Token, Expire(t)
       PROVE  UNCHANGED Family!vars
  BY <1>0, <1>10 DEF Expire
<1> QED BY <1>1, <1>2, <1>3, <1>4, <1>5, <1>6, <1>7, <1>8, <1>9, <1>10
        DEF Next, HandlerStep

(* Sessions with concurrent refreshes, revocations and failures implement  *)
(* token families: one live credential, replaced atomically, and at most   *)
(* one rotation after the family is closed.                                *)
THEOREM SessionsImplementTokenFamily == Spec => ImplementsTokenFamily
<1> QED BY SpecIInv, FamilyInit, FamilyNext, PTL
        DEF Spec, ImplementsTokenFamily, Family!Spec

=============================================================================
