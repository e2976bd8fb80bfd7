---------------------------- MODULE LoginProofs ----------------------------
(***************************************************************************)
(* Proofs about Login, for every number of requests, passwords, tickets,   *)
(* challenges and codes and every lockout threshold.                       *)
(***************************************************************************)
EXTENDS Login, FiniteSetTheorems, TLAPS

(* What a request holds follows from where it is.                          *)
ArgInv ==
  \A r \in Request :
    /\ pc[r] \in {"checked", "bad", "good", "rehash", "passed"} => arg[r] \in Password
    /\ pc[r] \in {"bad", "good", "rehash"} => read[r] \in Hash
    /\ pc[r] \in {"mfa", "matched", "verified"} => arg[r] \in Challenge
    /\ pc[r] = "matched" => read[r] \in RecoveryCode
    /\ pc[r] \in {"reset", "magic"} => arg[r] \in OneTime

(* A ticket is marked by the commit that used it, and until then at most   *)
(* one transaction holds it.                                               *)
TicketInv ==
  /\ \A t \in OneTime : ticketUses[t] = IF ticket[t] = "used" THEN 1 ELSE 0
  /\ \A r \in Request : pc[r] \in {"reset", "magic"} => ticket[arg[r]] # "used"
  /\ \A r, q \in Request :
       /\ pc[r] \in {"reset", "magic"}
       /\ pc[q] \in {"reset", "magic"}
       /\ arg[r] = arg[q]
       => r = q

(* The anomaly was sent, or lost with the answer that called for it,       *)
(* exactly if the counter has met the threshold, and only then is there a  *)
(* lock, in force or over.                                                 *)
AlertInv ==
  /\ alerts = IF failed >= MaxFailed /\ ~lost THEN 1 ELSE 0
  /\ lost => failed >= MaxFailed
  /\ lock = "none" <=> failed < MaxFailed

IInv == TypeOK /\ ArgInv /\ TicketInv /\ AlertInv

LEMMA InitIInv == Init => IInv
<1> SUFFICES ASSUME Init PROVE IInv
  OBVIOUS
<1> USE LoginAssumption DEF Init
<1>1. TypeOK
  <2>1. pc \in [Request -> PC]
    BY DEF PC
  <2>2. failed \in 0..(MaxFailed + 1) /\ alerts \in Nat /\ tries \in Nat /\ faults \in Nat
    OBVIOUS
  <2> QED BY <2>1, <2>2 DEF TypeOK
<1>2. ArgInv /\ TicketInv /\ AlertInv
  BY DEF ArgInv, TicketInv, AlertInv
<1> QED BY <1>1, <1>2 DEF IInv

LEMMA CheckLockPreserves ==
  ASSUME IInv, NEW r \in Request, NEW p \in Password, CheckLock(r, p)
  PROVE  IInv'
<1> USE LoginAssumption DEF IInv
<1>1. TypeOK'
  <2>1. faults' \in Nat
    BY DEF CheckLock, TypeOK
  <2> QED
    BY <2>1 DEF CheckLock, Goto, credVars, mfaVars, chalVars, ticketVars, TypeOK, PC
<1>2. ArgInv'
  BY DEF CheckLock, Goto, credVars, mfaVars, chalVars, ticketVars, TypeOK, ArgInv
<1>3. TicketInv'
  BY DEF CheckLock, Goto, credVars, mfaVars, chalVars, ticketVars, TypeOK, ArgInv, TicketInv
<1>4. AlertInv'
  BY DEF CheckLock, TypeOK, AlertInv
<1> QED BY <1>1, <1>2, <1>3, <1>4

LEMMA VerifyPasswordPreserves ==
  ASSUME IInv, NEW r \in Request, VerifyPassword(r)
  PROVE  IInv'
<1> USE LoginAssumption DEF IInv
<1>1. TypeOK'
  BY DEF VerifyPassword, Goto, credVars, mfaVars, chalVars, ticketVars, TypeOK, ArgInv, PC
<1>2. ArgInv'
  BY DEF VerifyPassword, Goto, credVars, mfaVars, chalVars, ticketVars, TypeOK, ArgInv
<1>3. TicketInv'
  BY DEF VerifyPassword, Goto, credVars, mfaVars, chalVars, ticketVars, TypeOK, ArgInv, TicketInv
<1>4. AlertInv'
  BY DEF VerifyPassword, Goto, credVars, mfaVars, chalVars, ticketVars, TypeOK, AlertInv
<1> QED BY <1>1, <1>2, <1>3, <1>4

LEMMA RecordFailedLoginPreserves ==
  ASSUME IInv, NEW r \in Request, RecordFailedLogin(r)
  PROVE  IInv'
<1> USE LoginAssumption DEF IInv
<1>1. TypeOK'
  <2>1. failed' \in 0..(MaxFailed + 1) /\ alerts' \in Nat /\ tries' \in Nat /\ faults' \in Nat
    <3>1. NewCount \in 0..(MaxFailed + 1)
      BY DEF NewCount, TypeOK
    <3>2. failed' = NewCount \/ failed' = failed
      BY DEF RecordFailedLogin, UpsertLoginAttempt
    <3>3. /\ tries' = 1 \/ tries' = tries
          /\ faults' = 0 \/ faults' = faults \/ faults' = faults + 1
      BY DEF RecordFailedLogin, UpsertLoginAttempt
    <3>4. \/ alerts' = alerts
          \/ alerts' = (IF NewCount = 1 THEN 0 ELSE alerts) + (IF Anomaly THEN 1 ELSE 0)
      BY Zenon DEF RecordFailedLogin
    <3> QED BY <3>1, <3>2, <3>3, <3>4 DEF TypeOK
  <2>2. lock' \in {"none", "on", "over"}
    BY DEF RecordFailedLogin, UpsertLoginAttempt, NewLock, TypeOK
  <2>3. lost' \in BOOLEAN /\ stale' \in BOOLEAN
    <3>1. stale' = FALSE \/ stale' = stale
      BY Zenon DEF RecordFailedLogin, UpsertLoginAttempt
    <3>2. lost' = FALSE \/ lost' = TRUE \/ lost' = lost
      BY Zenon DEF RecordFailedLogin
    <3> QED BY Zenon, <3>1, <3>2 DEF TypeOK
  <2>4. pc' \in [Request -> PC]
        /\ arg' \in [Request -> Password \cup Challenge \cup OneTime \cup {None}]
        /\ read' \in [Request -> Hash \cup RecoveryCode \cup {None}]
    BY DEF RecordFailedLogin, Finish, Goto, TypeOK, PC
  <2>5. UNCHANGED <<credVars, mfaVars, chalVars, ticketVars>>
    BY DEF RecordFailedLogin
  <2> QED
    BY Zenon, <2>1, <2>2, <2>3, <2>4, <2>5 DEF credVars, mfaVars, chalVars, ticketVars, TypeOK
<1>2. ArgInv'
  BY DEF RecordFailedLogin, Finish, Goto, credVars, mfaVars, chalVars, ticketVars, TypeOK, ArgInv
<1>3. TicketInv'
  BY DEF RecordFailedLogin, Finish, Goto, credVars, mfaVars, chalVars, ticketVars, TypeOK, ArgInv,
  TicketInv
<1>4. AlertInv'
  <2>1. CASE UNCHANGED <<failed, lock, stale, alerts, lost, tries>>
    BY <2>1 DEF AlertInv
  <2>2. CASE /\ UpsertLoginAttempt
             /\ alerts' = (IF NewCount = 1 THEN 0 ELSE alerts) + (IF Anomaly THEN 1 ELSE 0)
             /\ lost' = IF NewCount = 1 THEN FALSE ELSE lost
    <3>1. CASE NewCount = 1
      <4>1. failed' = 1 /\ lock' = NewLock /\ ~lost' /\ alerts' = 0
        BY <2>2, <3>1 DEF UpsertLoginAttempt, Anomaly
      <4> QED BY <4>1, <3>1 DEF NewLock, AlertInv
    <3>2. CASE NewCount # 1
      <4>1. /\ failed' = NewCount /\ UNCHANGED lost
            /\ alerts' = alerts + (IF Anomaly THEN 1 ELSE 0)
            /\ lock' = NewLock
        BY <2>2, <3>2 DEF UpsertLoginAttempt
      <4>2. failed \in Nat /\ NewCount = (IF failed > MaxFailed THEN failed ELSE failed + 1)
        BY <3>2 DEF NewCount, TypeOK
      <4> QED BY <4>1, <4>2 DEF NewLock, Anomaly, AlertInv
    <3> QED BY <3>1, <3>2
  <2>3. CASE UpsertLoginAttempt /\ Anomaly /\ lost' = TRUE /\ UNCHANGED alerts
    <3>1. failed' = MaxFailed /\ lock' = "on" /\ NewCount # 1
      BY <2>3 DEF UpsertLoginAttempt, Anomaly, NewLock
    <3>2. failed \in Nat /\ failed + 1 = MaxFailed
      BY <2>3, <3>1 DEF Anomaly, NewCount, TypeOK
    <3> QED BY <2>3, <3>1, <3>2 DEF AlertInv
  <2> QED BY <2>1, <2>2, <2>3 DEF RecordFailedLogin
<1> QED BY <1>1, <1>2, <1>3, <1>4

LEMMA ClearLoginAttemptsPreserves ==
  ASSUME IInv, NEW r \in Request, ClearLoginAttempts(r)
  PROVE  IInv'
<1> USE LoginAssumption DEF IInv
<1>1. TypeOK'
  <2>1. pc' \in [Request -> PC]
    BY Zenon DEF ClearLoginAttempts, Goto, TypeOK, PC
  <2>2. lock' \in {"none", "on", "over"} /\ stale' \in BOOLEAN /\ lost' \in BOOLEAN
    BY Zenon DEF ClearLoginAttempts, lockVars, TypeOK
  <2>3. failed' \in 0..(MaxFailed + 1) /\ alerts' \in Nat /\ tries' \in Nat /\ faults' \in Nat
    BY DEF ClearLoginAttempts, lockVars, TypeOK
  <2>4. UNCHANGED <<cred, resetTo, enrolled, code, chal, chalUses, ticket,
                    ticketUses, arg, read>>
    BY Zenon DEF ClearLoginAttempts, credVars, mfaVars, chalVars, ticketVars
  <2> QED BY Zenon, <2>1, <2>2, <2>3, <2>4 DEF TypeOK
<1>2. ArgInv'
  BY DEF ClearLoginAttempts, Goto, credVars, mfaVars, chalVars, ticketVars, TypeOK, ArgInv
<1>3. TicketInv'
  BY DEF ClearLoginAttempts, Goto, credVars, mfaVars, chalVars, ticketVars, TypeOK, ArgInv,
  TicketInv
<1>4. AlertInv'
  BY DEF ClearLoginAttempts, lockVars, TypeOK, AlertInv
<1> QED BY <1>1, <1>2, <1>3, <1>4

LEMMA RehashPreserves ==
  ASSUME IInv, NEW r \in Request, Rehash(r)
  PROVE  IInv'
<1> USE LoginAssumption DEF IInv
<1>1. TypeOK'
  <2>1. CASE cred' = [pw |-> arg[r], legacy |-> FALSE]
    <3>1. cred' \in Hash
      BY <2>1 DEF Rehash, ArgInv, Hash
    <3> QED
      BY <3>1 DEF Rehash, Goto, lockVars, mfaVars, chalVars, ticketVars, TypeOK, PC
  <2>2. CASE UNCHANGED cred
    BY <2>2 DEF Rehash, Goto, lockVars, mfaVars, chalVars, ticketVars, TypeOK, PC
  <2> QED BY <2>1, <2>2 DEF Rehash
<1>2. ArgInv'
  BY DEF Rehash, Goto, lockVars, mfaVars, chalVars, ticketVars, TypeOK, ArgInv
<1>3. TicketInv'
  BY DEF Rehash, Goto, lockVars, mfaVars, chalVars, ticketVars, TypeOK, ArgInv, TicketInv
<1>4. AlertInv'
  BY DEF Rehash, Goto, lockVars, mfaVars, chalVars, ticketVars, TypeOK, AlertInv
<1> QED BY <1>1, <1>2, <1>3, <1>4

LEMMA HookDeniesPreserves ==
  ASSUME IInv, NEW r \in Request, HookDenies(r)
  PROVE  IInv'
<1> USE LoginAssumption DEF IInv
<1>1. TypeOK'
  BY DEF HookDenies, Finish, Goto, credVars, lockVars, mfaVars, chalVars, ticketVars, TypeOK,
  ArgInv, PC
<1>2. ArgInv'
  BY DEF HookDenies, Finish, Goto, credVars, lockVars, mfaVars, chalVars, ticketVars, TypeOK,
  ArgInv
<1>3. TicketInv'
  BY DEF HookDenies, Finish, Goto, credVars, lockVars, mfaVars, chalVars, ticketVars, TypeOK,
  ArgInv, TicketInv
<1>4. AlertInv'
  BY DEF HookDenies, Finish, Goto, credVars, lockVars, mfaVars, chalVars, ticketVars, TypeOK,
  AlertInv
<1> QED BY <1>1, <1>2, <1>3, <1>4

LEMMA LoginWithoutMFAPreserves ==
  ASSUME IInv, NEW r \in Request, LoginWithoutMFA(r)
  PROVE  IInv'
<1> USE LoginAssumption DEF IInv
<1>1. TypeOK'
  BY DEF LoginWithoutMFA, Goto, credVars, lockVars, mfaVars, chalVars, ticketVars, TypeOK, ArgInv,
  PC
<1>2. ArgInv'
  BY DEF LoginWithoutMFA, Goto, credVars, lockVars, mfaVars, chalVars, ticketVars, TypeOK, ArgInv
<1>3. TicketInv'
  BY DEF LoginWithoutMFA, Goto, credVars, lockVars, mfaVars, chalVars, ticketVars, TypeOK, ArgInv,
  TicketInv
<1>4. AlertInv'
  BY DEF LoginWithoutMFA, Goto, credVars, lockVars, mfaVars, chalVars, ticketVars, TypeOK,
  AlertInv
<1> QED BY <1>1, <1>2, <1>3, <1>4

LEMMA LoginTrustedPreserves ==
  ASSUME IInv, NEW r \in Request, LoginTrusted(r)
  PROVE  IInv'
<1> USE LoginAssumption DEF IInv
<1>1. TypeOK'
  BY DEF LoginTrusted, Goto, credVars, lockVars, mfaVars, chalVars, ticketVars, TypeOK, ArgInv, PC
<1>2. ArgInv'
  BY DEF LoginTrusted, Goto, credVars, lockVars, mfaVars, chalVars, ticketVars, TypeOK, ArgInv
<1>3. TicketInv'
  BY DEF LoginTrusted, Goto, credVars, lockVars, mfaVars, chalVars, ticketVars, TypeOK, ArgInv,
  TicketInv
<1>4. AlertInv'
  BY DEF LoginTrusted, Goto, credVars, lockVars, mfaVars, chalVars, ticketVars, TypeOK, AlertInv
<1> QED BY <1>1, <1>2, <1>3, <1>4

LEMMA CreateChallengePreserves ==
  ASSUME IInv, NEW r \in Request, NEW c \in Challenge, CreateChallenge(r, c)
  PROVE  IInv'
<1> USE LoginAssumption DEF IInv
<1>1. TypeOK'
  BY DEF CreateChallenge, Finish, Goto, credVars, lockVars, mfaVars, ticketVars, TypeOK, ArgInv,
  PC
<1>2. ArgInv'
  BY DEF CreateChallenge, Finish, Goto, credVars, lockVars, mfaVars, ticketVars, TypeOK, ArgInv
<1>3. TicketInv'
  BY DEF CreateChallenge, Finish, Goto, credVars, lockVars, mfaVars, ticketVars, TypeOK, ArgInv,
  TicketInv
<1>4. AlertInv'
  BY DEF CreateChallenge, Finish, Goto, credVars, lockVars, mfaVars, ticketVars, TypeOK, AlertInv
<1> QED BY <1>1, <1>2, <1>3, <1>4

LEMMA SelectChallengePreserves ==
  ASSUME IInv, NEW r \in Request, NEW c \in Challenge, SelectChallenge(r, c)
  PROVE  IInv'
<1> USE LoginAssumption DEF IInv
<1>1. TypeOK'
  BY DEF SelectChallenge, Goto, credVars, lockVars, mfaVars, chalVars, ticketVars, TypeOK, ArgInv,
  PC
<1>2. ArgInv'
  BY DEF SelectChallenge, Goto, credVars, lockVars, mfaVars, chalVars, ticketVars, TypeOK, ArgInv
<1>3. TicketInv'
  BY DEF SelectChallenge, Goto, credVars, lockVars, mfaVars, chalVars, ticketVars, TypeOK, ArgInv,
  TicketInv
<1>4. AlertInv'
  BY DEF SelectChallenge, Goto, credVars, lockVars, mfaVars, chalVars, ticketVars, TypeOK,
  AlertInv
<1> QED BY <1>1, <1>2, <1>3, <1>4

LEMMA VerifyTOTPPreserves ==
  ASSUME IInv, NEW r \in Request, VerifyTOTP(r)
  PROVE  IInv'
<1> USE LoginAssumption DEF IInv
<1>1. TypeOK'
  BY DEF VerifyTOTP, Goto, credVars, lockVars, mfaVars, chalVars, ticketVars, TypeOK, ArgInv, PC
<1>2. ArgInv'
  BY DEF VerifyTOTP, Goto, credVars, lockVars, mfaVars, chalVars, ticketVars, TypeOK, ArgInv
<1>3. TicketInv'
  BY DEF VerifyTOTP, Goto, credVars, lockVars, mfaVars, chalVars, ticketVars, TypeOK, ArgInv,
  TicketInv
<1>4. AlertInv'
  BY DEF VerifyTOTP, Goto, credVars, lockVars, mfaVars, chalVars, ticketVars, TypeOK, AlertInv
<1> QED BY <1>1, <1>2, <1>3, <1>4

LEMMA MatchRecoveryCodePreserves ==
  ASSUME IInv, NEW r \in Request, NEW c \in RecoveryCode, MatchRecoveryCode(r, c)
  PROVE  IInv'
<1> USE LoginAssumption DEF IInv
<1>1. TypeOK'
  BY DEF MatchRecoveryCode, Goto, credVars, lockVars, mfaVars, chalVars, ticketVars, TypeOK,
  ArgInv, PC
<1>2. ArgInv'
  BY DEF MatchRecoveryCode, Goto, credVars, lockVars, mfaVars, chalVars, ticketVars, TypeOK,
  ArgInv
<1>3. TicketInv'
  BY DEF MatchRecoveryCode, Goto, credVars, lockVars, mfaVars, chalVars, ticketVars, TypeOK,
  ArgInv, TicketInv
<1>4. AlertInv'
  BY DEF MatchRecoveryCode, Goto, credVars, lockVars, mfaVars, chalVars, ticketVars, TypeOK,
  AlertInv
<1> QED BY <1>1, <1>2, <1>3, <1>4

LEMMA MarkRecoveryCodeUsedPreserves ==
  ASSUME IInv, NEW r \in Request, MarkRecoveryCodeUsed(r)
  PROVE  IInv'
<1> USE LoginAssumption DEF IInv
<1>1. TypeOK'
  BY DEF MarkRecoveryCodeUsed, Goto, credVars, lockVars, chalVars, ticketVars, TypeOK, ArgInv, PC
<1>2. ArgInv'
  BY DEF MarkRecoveryCodeUsed, Goto, credVars, lockVars, chalVars, ticketVars, TypeOK, ArgInv
<1>3. TicketInv'
  BY DEF MarkRecoveryCodeUsed, Goto, credVars, lockVars, chalVars, ticketVars, TypeOK, ArgInv,
  TicketInv
<1>4. AlertInv'
  BY DEF MarkRecoveryCodeUsed, Goto, credVars, lockVars, chalVars, ticketVars, TypeOK, AlertInv
<1> QED BY <1>1, <1>2, <1>3, <1>4

LEMMA WrongCodePreserves ==
  ASSUME IInv, NEW r \in Request, WrongCode(r)
  PROVE  IInv'
<1> USE LoginAssumption DEF IInv
<1>1. TypeOK'
  BY DEF WrongCode, Finish, Goto, credVars, lockVars, mfaVars, chalVars, ticketVars, TypeOK,
  ArgInv, PC
<1>2. ArgInv'
  BY DEF WrongCode, Finish, Goto, credVars, lockVars, mfaVars, chalVars, ticketVars, TypeOK,
  ArgInv
<1>3. TicketInv'
  BY DEF WrongCode, Finish, Goto, credVars, lockVars, mfaVars, chalVars, ticketVars, TypeOK,
  ArgInv, TicketInv
<1>4. AlertInv'
  BY DEF WrongCode, Finish, Goto, credVars, lockVars, mfaVars, chalVars, ticketVars, TypeOK,
  AlertInv
<1> QED BY <1>1, <1>2, <1>3, <1>4

LEMMA DeleteChallengePreserves ==
  ASSUME IInv, NEW r \in Request, DeleteChallenge(r)
  PROVE  IInv'
<1> USE LoginAssumption DEF IInv
<1>1. TypeOK'
  BY DEF DeleteChallenge, Goto, credVars, lockVars, mfaVars, ticketVars, TypeOK, ArgInv, PC
<1>2. ArgInv'
  BY DEF DeleteChallenge, Goto, credVars, lockVars, mfaVars, ticketVars, TypeOK, ArgInv
<1>3. TicketInv'
  BY DEF DeleteChallenge, Goto, credVars, lockVars, mfaVars, ticketVars, TypeOK, ArgInv, TicketInv
<1>4. AlertInv'
  BY DEF DeleteChallenge, Goto, credVars, lockVars, mfaVars, ticketVars, TypeOK, AlertInv
<1> QED BY <1>1, <1>2, <1>3, <1>4

LEMMA IssuePreserves ==
  ASSUME IInv, NEW r \in Request, Issue(r)
  PROVE  IInv'
<1> USE LoginAssumption DEF IInv
<1>1. TypeOK'
  BY DEF Issue, Finish, Goto, credVars, lockVars, mfaVars, chalVars, ticketVars, TypeOK, ArgInv,
  PC
<1>2. ArgInv'
  BY DEF Issue, Finish, Goto, credVars, lockVars, mfaVars, chalVars, ticketVars, TypeOK, ArgInv
<1>3. TicketInv'
  BY DEF Issue, Finish, Goto, credVars, lockVars, mfaVars, chalVars, ticketVars, TypeOK, ArgInv,
  TicketInv
<1>4. AlertInv'
  BY DEF Issue, Finish, Goto, credVars, lockVars, mfaVars, chalVars, ticketVars, TypeOK, AlertInv
<1> QED BY <1>1, <1>2, <1>3, <1>4

LEMMA LockTicketPreserves ==
  ASSUME IInv, NEW r \in Request, NEW t \in OneTime, LockTicket(r, t)
  PROVE  IInv'
<1> USE LoginAssumption DEF IInv
<1>1. TypeOK'
  BY DEF LockTicket, Locked, Goto, credVars, lockVars, mfaVars, chalVars, ticketVars, TypeOK,
  ArgInv, PC
<1>2. ArgInv'
  BY DEF LockTicket, Locked, Goto, credVars, lockVars, mfaVars, chalVars, ticketVars, TypeOK,
  ArgInv
<1>3. TicketInv'
  BY DEF LockTicket, Locked, Goto, credVars, lockVars, mfaVars, chalVars, ticketVars, TypeOK,
  ArgInv, TicketInv
<1>4. AlertInv'
  BY DEF LockTicket, Locked, Goto, credVars, lockVars, mfaVars, chalVars, ticketVars, TypeOK,
  AlertInv
<1> QED BY <1>1, <1>2, <1>3, <1>4

LEMMA ConfirmPasswordResetPreserves ==
  ASSUME IInv, NEW r \in Request, NEW p \in Password, ConfirmPasswordReset(r, p)
  PROVE  IInv'
<1> USE LoginAssumption DEF IInv
<1>1. TypeOK'
  <2>1. cred' \in Hash
    BY DEF ConfirmPasswordReset, UseTicket, Finish, Goto, lockVars, mfaVars, chalVars, TypeOK,
    ArgInv, Hash
  <2> QED
    BY <2>1 DEF ConfirmPasswordReset, UseTicket, Finish, Goto, lockVars, mfaVars, chalVars,
    TypeOK, ArgInv, PC
<1>2. ArgInv'
  BY DEF ConfirmPasswordReset, UseTicket, Finish, Goto, lockVars, mfaVars, chalVars, TypeOK,
  ArgInv
<1>3. TicketInv'
  BY DEF ConfirmPasswordReset, UseTicket, Finish, Goto, lockVars, mfaVars, chalVars, TypeOK,
  ArgInv, TicketInv
<1>4. AlertInv'
  BY DEF ConfirmPasswordReset, UseTicket, Finish, Goto, lockVars, mfaVars, chalVars, TypeOK,
  AlertInv
<1> QED BY <1>1, <1>2, <1>3, <1>4

LEMMA ConsumeMagicLinkPreserves ==
  ASSUME IInv, NEW r \in Request, ConsumeMagicLink(r)
  PROVE  IInv'
<1> USE LoginAssumption DEF IInv
<1>1. TypeOK'
  BY DEF ConsumeMagicLink, UseTicket, Goto, credVars, lockVars, mfaVars, chalVars, TypeOK, ArgInv,
  PC
<1>2. ArgInv'
  BY DEF ConsumeMagicLink, UseTicket, Goto, credVars, lockVars, mfaVars, chalVars, TypeOK, ArgInv
<1>3. TicketInv'
  BY DEF ConsumeMagicLink, UseTicket, Goto, credVars, lockVars, mfaVars, chalVars, TypeOK, ArgInv,
  TicketInv
<1>4. AlertInv'
  BY DEF ConsumeMagicLink, UseTicket, Goto, credVars, lockVars, mfaVars, chalVars, TypeOK,
  AlertInv
<1> QED BY <1>1, <1>2, <1>3, <1>4

LEMMA TicketRollbackPreserves ==
  ASSUME IInv, NEW r \in Request, TicketRollback(r)
  PROVE  IInv'
<1> USE LoginAssumption DEF IInv
<1>1. TypeOK'
  BY DEF TicketRollback, Finish, Goto, credVars, lockVars, mfaVars, chalVars, ticketVars, TypeOK,
  ArgInv, PC
<1>2. ArgInv'
  BY DEF TicketRollback, Finish, Goto, credVars, lockVars, mfaVars, chalVars, ticketVars, TypeOK,
  ArgInv
<1>3. TicketInv'
  BY DEF TicketRollback, Finish, Goto, credVars, lockVars, mfaVars, chalVars, ticketVars, TypeOK,
  ArgInv, TicketInv
<1>4. AlertInv'
  BY DEF TicketRollback, Finish, Goto, credVars, lockVars, mfaVars, chalVars, ticketVars, TypeOK,
  AlertInv
<1> QED BY <1>1, <1>2, <1>3, <1>4

LEMMA LockExpiresPreserves ==
  ASSUME IInv, LockExpires
  PROVE  IInv'
<1> USE LoginAssumption DEF IInv
<1>1. TypeOK'
  BY DEF LockExpires, credVars, mfaVars, chalVars, ticketVars, reqVars, TypeOK, ArgInv, PC
<1>2. ArgInv'
  BY DEF LockExpires, credVars, mfaVars, chalVars, ticketVars, reqVars, TypeOK, ArgInv
<1>3. TicketInv'
  BY DEF LockExpires, credVars, mfaVars, chalVars, ticketVars, reqVars, TypeOK, ArgInv, TicketInv
<1>4. AlertInv'
  BY DEF LockExpires, credVars, mfaVars, chalVars, ticketVars, reqVars, TypeOK, AlertInv
<1> QED BY <1>1, <1>2, <1>3, <1>4

LEMMA WindowElapsesPreserves ==
  ASSUME IInv, WindowElapses
  PROVE  IInv'
<1> USE LoginAssumption DEF IInv
<1>1. TypeOK'
  BY DEF WindowElapses, credVars, mfaVars, chalVars, ticketVars, reqVars, TypeOK, ArgInv, PC
<1>2. ArgInv'
  BY DEF WindowElapses, credVars, mfaVars, chalVars, ticketVars, reqVars, TypeOK, ArgInv
<1>3. TicketInv'
  BY DEF WindowElapses, credVars, mfaVars, chalVars, ticketVars, reqVars, TypeOK, ArgInv,
  TicketInv
<1>4. AlertInv'
  BY DEF WindowElapses, credVars, mfaVars, chalVars, ticketVars, reqVars, TypeOK, AlertInv
<1> QED BY <1>1, <1>2, <1>3, <1>4

LEMMA ExpireChallengePreserves ==
  ASSUME IInv, NEW c \in Challenge, ExpireChallenge(c)
  PROVE  IInv'
<1> USE LoginAssumption DEF IInv
<1>1. TypeOK'
  BY DEF ExpireChallenge, credVars, lockVars, mfaVars, ticketVars, reqVars, TypeOK, ArgInv, PC
<1>2. ArgInv'
  BY DEF ExpireChallenge, credVars, lockVars, mfaVars, ticketVars, reqVars, TypeOK, ArgInv
<1>3. TicketInv'
  BY DEF ExpireChallenge, credVars, lockVars, mfaVars, ticketVars, reqVars, TypeOK, ArgInv,
  TicketInv
<1>4. AlertInv'
  BY DEF ExpireChallenge, credVars, lockVars, mfaVars, ticketVars, reqVars, TypeOK, AlertInv
<1> QED BY <1>1, <1>2, <1>3, <1>4

LEMMA ConfirmEnrollPreserves ==
  ASSUME IInv, NEW C \in SUBSET RecoveryCode, ConfirmEnroll(C)
  PROVE  IInv'
<1> USE LoginAssumption DEF IInv
<1>1. TypeOK'
  BY DEF ConfirmEnroll, MintRecoveryCodes, credVars, lockVars, chalVars, ticketVars, reqVars,
         TypeOK, ArgInv, PC
<1>2. ArgInv'
  BY DEF ConfirmEnroll, MintRecoveryCodes, credVars, lockVars, chalVars, ticketVars, reqVars,
         TypeOK, ArgInv
<1>3. TicketInv'
  BY DEF ConfirmEnroll, MintRecoveryCodes, credVars, lockVars, chalVars, ticketVars, reqVars,
         TypeOK, ArgInv,
  TicketInv
<1>4. AlertInv'
  BY DEF ConfirmEnroll, MintRecoveryCodes, credVars, lockVars, chalVars, ticketVars, reqVars,
         TypeOK, AlertInv
<1> QED BY <1>1, <1>2, <1>3, <1>4

LEMMA RegeneratePreserves ==
  ASSUME IInv, NEW C \in SUBSET RecoveryCode, Regenerate(C)
  PROVE  IInv'
<1> USE LoginAssumption DEF IInv
<1>1. TypeOK'
  BY DEF Regenerate, MintRecoveryCodes, credVars, lockVars, chalVars, ticketVars, reqVars,
         TypeOK, ArgInv, PC
<1>2. ArgInv'
  BY DEF Regenerate, MintRecoveryCodes, credVars, lockVars, chalVars, ticketVars, reqVars,
         TypeOK, ArgInv
<1>3. TicketInv'
  BY DEF Regenerate, MintRecoveryCodes, credVars, lockVars, chalVars, ticketVars, reqVars,
         TypeOK, ArgInv,
  TicketInv
<1>4. AlertInv'
  BY DEF Regenerate, MintRecoveryCodes, credVars, lockVars, chalVars, ticketVars, reqVars,
         TypeOK, AlertInv
<1> QED BY <1>1, <1>2, <1>3, <1>4

LEMMA StartEnrollPreserves ==
  ASSUME IInv, StartEnroll
  PROVE  IInv'
<1> USE LoginAssumption DEF IInv
<1>1. TypeOK'
  BY DEF StartEnroll, credVars, lockVars, chalVars, ticketVars, reqVars, TypeOK, ArgInv, PC
<1>2. ArgInv'
  BY DEF StartEnroll, credVars, lockVars, chalVars, ticketVars, reqVars, TypeOK, ArgInv
<1>3. TicketInv'
  BY DEF StartEnroll, credVars, lockVars, chalVars, ticketVars, reqVars, TypeOK, ArgInv, TicketInv
<1>4. AlertInv'
  BY DEF StartEnroll, credVars, lockVars, chalVars, ticketVars, reqVars, TypeOK, AlertInv
<1> QED BY <1>1, <1>2, <1>3, <1>4

LEMMA DisableMFAPreserves ==
  ASSUME IInv, DisableMFA
  PROVE  IInv'
<1> USE LoginAssumption DEF IInv
<1>1. TypeOK'
  BY DEF DisableMFA, MintRecoveryCodes, credVars, lockVars, chalVars, ticketVars, reqVars,
         TypeOK, ArgInv, PC
<1>2. ArgInv'
  BY DEF DisableMFA, MintRecoveryCodes, credVars, lockVars, chalVars, ticketVars, reqVars,
         TypeOK, ArgInv
<1>3. TicketInv'
  BY DEF DisableMFA, MintRecoveryCodes, credVars, lockVars, chalVars, ticketVars, reqVars,
         TypeOK, ArgInv, TicketInv
<1>4. AlertInv'
  BY DEF DisableMFA, MintRecoveryCodes, credVars, lockVars, chalVars, ticketVars, reqVars,
         TypeOK, AlertInv
<1> QED BY <1>1, <1>2, <1>3, <1>4

LEMMA SendTicketPreserves ==
  ASSUME IInv, NEW t \in OneTime, SendTicket(t)
  PROVE  IInv'
<1> USE LoginAssumption DEF IInv
<1>1. TypeOK'
  BY DEF SendTicket, credVars, lockVars, mfaVars, chalVars, reqVars, TypeOK, ArgInv, PC
<1>2. ArgInv'
  BY DEF SendTicket, credVars, lockVars, mfaVars, chalVars, reqVars, TypeOK, ArgInv
<1>3. TicketInv'
  BY DEF SendTicket, credVars, lockVars, mfaVars, chalVars, reqVars, TypeOK, ArgInv, TicketInv
<1>4. AlertInv'
  BY DEF SendTicket, credVars, lockVars, mfaVars, chalVars, reqVars, TypeOK, AlertInv
<1> QED BY <1>1, <1>2, <1>3, <1>4

LEMMA ExpireTicketPreserves ==
  ASSUME IInv, NEW t \in OneTime, ExpireTicket(t)
  PROVE  IInv'
<1> USE LoginAssumption DEF IInv
<1>1. TypeOK'
  BY DEF ExpireTicket, credVars, lockVars, mfaVars, chalVars, reqVars, TypeOK, ArgInv, PC
<1>2. ArgInv'
  BY DEF ExpireTicket, credVars, lockVars, mfaVars, chalVars, reqVars, TypeOK, ArgInv
<1>3. TicketInv'
  BY DEF ExpireTicket, credVars, lockVars, mfaVars, chalVars, reqVars, TypeOK, ArgInv, TicketInv
<1>4. AlertInv'
  BY DEF ExpireTicket, credVars, lockVars, mfaVars, chalVars, reqVars, TypeOK, AlertInv
<1> QED BY <1>1, <1>2, <1>3, <1>4

LEMMA SetPasswordPreserves ==
  ASSUME IInv, NEW p \in Password, SetPassword(p)
  PROVE  IInv'
<1> USE LoginAssumption DEF IInv
<1>1. TypeOK'
  <2>1. cred' \in Hash
    BY DEF SetPassword, lockVars, mfaVars, chalVars, ticketVars, reqVars, TypeOK, ArgInv, Hash
  <2> QED
    BY <2>1 DEF SetPassword, lockVars, mfaVars, chalVars, ticketVars, reqVars, TypeOK, ArgInv, PC
<1>2. ArgInv'
  BY DEF SetPassword, lockVars, mfaVars, chalVars, ticketVars, reqVars, TypeOK, ArgInv
<1>3. TicketInv'
  BY DEF SetPassword, lockVars, mfaVars, chalVars, ticketVars, reqVars, TypeOK, ArgInv, TicketInv
<1>4. AlertInv'
  BY DEF SetPassword, lockVars, mfaVars, chalVars, ticketVars, reqVars, TypeOK, AlertInv
<1> QED BY <1>1, <1>2, <1>3, <1>4

LEMMA NextIInv == IInv /\ [Next]_vars => IInv'
<1> SUFFICES ASSUME IInv, [Next]_vars PROVE IInv'
  OBVIOUS
<1>1. CASE UNCHANGED vars
  BY <1>1 DEF vars, credVars, lockVars, mfaVars, chalVars, ticketVars, reqVars, IInv, TypeOK,
              ArgInv, TicketInv, AlertInv
<1>2. CASE Next
  BY <1>2, CheckLockPreserves,
     VerifyPasswordPreserves,
     RecordFailedLoginPreserves,
     ClearLoginAttemptsPreserves,
     RehashPreserves,
     HookDeniesPreserves,
     LoginWithoutMFAPreserves,
     LoginTrustedPreserves,
     CreateChallengePreserves,
     SelectChallengePreserves,
     VerifyTOTPPreserves,
     MatchRecoveryCodePreserves,
     MarkRecoveryCodeUsedPreserves,
     WrongCodePreserves,
     DeleteChallengePreserves,
     IssuePreserves,
     LockTicketPreserves,
     ConfirmPasswordResetPreserves,
     ConsumeMagicLinkPreserves,
     TicketRollbackPreserves,
     LockExpiresPreserves,
     WindowElapsesPreserves,
     ExpireChallengePreserves,
     ConfirmEnrollPreserves,
     RegeneratePreserves,
     StartEnrollPreserves,
     DisableMFAPreserves,
     SendTicketPreserves,
     ExpireTicketPreserves,
     SetPasswordPreserves
     DEF Next, CheckPasswordStep, SecondFactorStep, RecoveryStep
<1> QED BY <1>1, <1>2

LEMMA SpecIInv == Spec => []IInv
<1> QED BY InitIInv, NextIInv, PTL DEF Spec

(* Every variable keeps its type.                                          *)
THEOREM LoginTypeCorrect == Spec => []TypeOK
<1>1. IInv => TypeOK
  BY LoginAssumption DEF IInv, TypeOK
<1> QED BY <1>1, SpecIInv, PTL

(* However many requests present the same reset token or magic link at     *)
(* once, FOR UPDATE lets one of them commit.                               *)
THEOREM TicketsAreSingleUse == Spec => []TicketsSingleUse
<1>1. IInv => TicketsSingleUse
  BY LoginAssumption DEF IInv, TicketInv, TicketsSingleUse
<1> QED BY <1>1, SpecIInv, PTL

(* The single upsert of recordFailedLogin sends one anomaly per counter,   *)
(* and only a lost answer leaves a locked account without it.              *)
THEOREM LockAlertsOnce == Spec => []AlertOncePerLock
<1>1. IInv => AlertOncePerLock
  BY LoginAssumption DEF IInv, TypeOK, AlertInv, AlertOncePerLock
<1> QED BY <1>1, SpecIInv, PTL

-----------------------------------------------------------------------------
(* The bound on the wrong passwords compared                               *)

Checked == {r \in Request : pc[r] = "checked"}
Bad == {r \in Request : pc[r] = "bad"}

(* Below the threshold every comparison is counted, about to be, or was    *)
(* not stored; while the lock is on only the requests that passed the      *)
(* check before, or that could not read the lock, are left; once it is     *)
(* over they start from nothing.                                           *)
GuessInv ==
  /\ lock = "none" => tries <= failed + Cardinality(Bad) + faults
  /\ lock = "on" =>
       tries + Cardinality(Checked) <= MaxFailed - 1 + Cardinality(Request) + faults
  /\ lock = "over" => tries <= Cardinality(Bad) + faults

(* Sets of requests are finite, and two that share no request are together *)
(* no more than all of them.                                               *)
LEMMA RequestSets ==
  ASSUME NEW S, NEW T, S \subseteq Request, T \subseteq Request, S \cap T = {}
  PROVE  /\ IsFiniteSet(S) /\ Cardinality(S) \in Nat
         /\ Cardinality(Request) \in Nat
         /\ Cardinality(S) + Cardinality(T) <= Cardinality(Request)
<1>1. IsFiniteSet(Request) /\ IsFiniteSet(S) /\ IsFiniteSet(T)
  BY LoginAssumption, FS_Subset
<1>2. /\ Cardinality(S) \in Nat /\ Cardinality(T) \in Nat /\ Cardinality(Request) \in Nat
      /\ Cardinality(S \cap T) = 0
  BY <1>1, FS_CardinalityType, FS_EmptySet
<1>3. IsFiniteSet(S \cup T)
      /\ Cardinality(S \cup T) = Cardinality(S) + Cardinality(T) - Cardinality(S \cap T)
  BY <1>1, FS_Union
<1>4. Cardinality(S \cup T) <= Cardinality(Request)
  BY <1>1, FS_Subset, S \cup T \subseteq Request
<1> QED BY <1>1, <1>2, <1>3, <1>4

LEMMA RequestSet ==
  ASSUME NEW S, S \subseteq Request
  PROVE  Cardinality(S) \in Nat
BY LoginAssumption, FS_Subset, FS_CardinalityType

(* A step that leaves the lockout alone and moves no request into or out   *)
(* of a comparison keeps the bound.                                        *)
LEMMA Elsewhere ==
  ASSUME GuessInv, UNCHANGED lockVars, Checked' = Checked, Bad' = Bad
  PROVE  GuessInv'
BY DEF GuessInv, lockVars

LEMMA GuessCheckLock ==
  ASSUME IInv, GuessInv, NEW r \in Request, NEW p \in Password, CheckLock(r, p)
  PROVE  GuessInv'
<1>1. /\ UNCHANGED <<failed, lock, tries>>
      /\ \/ lock # "on" /\ faults' = faults
         \/ lock = "on" /\ faults' = faults + 1
  BY DEF CheckLock
<1>2. Bad' = Bad /\ Checked' = Checked \cup {r} /\ r \notin Checked
  BY DEF CheckLock, Goto, Bad, Checked, IInv, TypeOK
<1>3. IsFiniteSet(Checked) /\ Cardinality(Checked) \in Nat /\ Cardinality(Request) \in Nat
  BY RequestSets, Checked \subseteq Request, {} \subseteq Request, Checked \cap {} = {}
     DEF Checked
<1>4. Cardinality(Checked') = Cardinality(Checked) + 1
  BY <1>2, <1>3, FS_AddElement
<1> QED BY <1>1, <1>2, <1>3, <1>4, LoginAssumption DEF GuessInv, IInv, TypeOK

LEMMA GuessVerifyPassword ==
  ASSUME IInv, GuessInv, NEW r \in Request, VerifyPassword(r)
  PROVE  GuessInv'
<1>1. UNCHANGED <<failed, lock, faults>> /\ r \in Checked /\ r \notin Bad
  BY DEF VerifyPassword, Checked, Bad
<1>2. Checked' = Checked \ {r}
  BY DEF VerifyPassword, Goto, Checked, IInv, TypeOK
<1>3. IsFiniteSet(Checked) /\ IsFiniteSet(Bad)
      /\ Cardinality(Checked) \in Nat /\ Cardinality(Bad) \in Nat
      /\ Cardinality(Request) \in Nat
  BY RequestSets, Checked \subseteq Request, Bad \subseteq Request, Checked \cap Bad = {}
     DEF Checked, Bad
<1>4. Cardinality(Checked') = Cardinality(Checked) - 1
  BY <1>1, <1>2, <1>3, FS_RemoveElement
<1>5. CASE cred.pw = arg[r]
  <2>1. tries' = tries /\ Bad' = Bad
    BY <1>5 DEF VerifyPassword, Goto, Bad, IInv, TypeOK
  <2> QED BY <1>1, <1>3, <1>4, <2>1, LoginAssumption DEF GuessInv, IInv, TypeOK
<1>6. CASE cred.pw # arg[r]
  <2>1. tries' = tries + 1 /\ Bad' = Bad \cup {r}
    BY <1>6 DEF VerifyPassword, Goto, Bad, IInv, TypeOK
  <2>2. Cardinality(Bad') = Cardinality(Bad) + 1
    BY <1>1, <1>3, <2>1, FS_AddElement
  <2> QED BY <1>1, <1>3, <1>4, <2>1, <2>2, LoginAssumption DEF GuessInv, IInv, TypeOK
<1> QED BY <1>5, <1>6

LEMMA GuessRecordFailedLogin ==
  ASSUME IInv, GuessInv, NEW r \in Request, RecordFailedLogin(r)
  PROVE  GuessInv'
<1>1. Checked' = Checked /\ Bad' = Bad \ {r} /\ r \in Bad
  BY DEF RecordFailedLogin, Finish, Goto, Checked, Bad, IInv, TypeOK
<1>2. IsFiniteSet(Bad) /\ Cardinality(Checked) \in Nat /\ Cardinality(Bad) \in Nat
      /\ Cardinality(Request) \in Nat
      /\ Cardinality(Checked) + Cardinality(Bad) <= Cardinality(Request)
  BY RequestSets, Checked \subseteq Request, Bad \subseteq Request, Checked \cap Bad = {}
     DEF Checked, Bad
<1>3. Cardinality(Bad') = Cardinality(Bad) - 1
  BY <1>1, <1>2, FS_RemoveElement
<1>4. /\ failed \in Nat /\ tries \in Nat /\ faults \in Nat /\ lock \in {"none", "on", "over"}
      /\ (lock = "none" <=> failed < MaxFailed)
  BY LoginAssumption DEF IInv, TypeOK, AlertInv
<1>5. CASE ~UpsertLoginAttempt
  <2>1. UNCHANGED <<failed, lock, tries>> /\ faults' = faults + 1
    BY <1>5 DEF RecordFailedLogin
  <2> QED BY <2>1, <1>1, <1>2, <1>3, <1>4, LoginAssumption DEF GuessInv
<1>6. CASE UpsertLoginAttempt /\ NewCount = 1
  <2>1. lock' = "none" /\ failed' = 1 /\ tries' = 1 /\ faults' = 0
    <3>1. ~(NewCount >= MaxFailed)
      BY <1>6, LoginAssumption
    <3> QED BY <3>1, <1>6 DEF UpsertLoginAttempt, NewLock
  <2> QED BY <2>1, <1>2, <1>3, <1>1, RequestSet, Bad' \subseteq Request DEF GuessInv, Bad
<1>7. CASE UpsertLoginAttempt /\ NewCount # 1
  <2>1. failed' = NewCount /\ lock' = NewLock /\ UNCHANGED <<tries, faults>>
    BY <1>7 DEF UpsertLoginAttempt
  <2>2. CASE lock = "none"
    <3>1. NewCount = failed + 1
      BY <1>4, <1>7, <2>2, LoginAssumption DEF NewCount
    <3>2. tries <= failed + Cardinality(Bad) + faults
      BY <2>2 DEF GuessInv
    <3>3. CASE failed + 1 < MaxFailed
      <4>1. lock' = "none"
        BY <1>4, <2>1, <3>1, <3>3, LoginAssumption DEF NewLock
      <4> QED BY <4>1, <1>2, <1>3, <1>4, <2>1, <3>1, <3>2 DEF GuessInv
    <3>4. CASE failed + 1 >= MaxFailed
      <4>1. lock' = "on"
        BY <2>1, <3>1, <3>4 DEF NewLock
      <4> QED BY <4>1, <1>1, <1>2, <1>4, <2>1, <2>2, <3>2, LoginAssumption DEF GuessInv
    <3> QED BY <3>3, <3>4, <1>4, LoginAssumption
  <2>3. CASE lock # "none"
    <3>1. lock' = "on"
      BY <1>4, <1>7, <2>1, <2>3, LoginAssumption DEF NewCount, NewLock
    <3>2. \/ tries + Cardinality(Checked) <= MaxFailed - 1 + Cardinality(Request) + faults
          \/ tries <= Cardinality(Bad) + faults
      BY <1>4, <2>3 DEF GuessInv
    <3> QED BY <3>1, <3>2, <1>1, <1>2, <1>4, <2>1, LoginAssumption DEF GuessInv
  <2> QED BY <2>2, <2>3
<1> QED BY <1>5, <1>6, <1>7

LEMMA GuessClearLoginAttempts ==
  ASSUME IInv, GuessInv, NEW r \in Request, ClearLoginAttempts(r)
  PROVE  GuessInv'
<1>1. \/ failed' = 0 /\ lock' = "none" /\ tries' = 0 /\ faults' = 0
      \/ UNCHANGED <<failed, lock, tries, faults>>
  BY Zenon DEF ClearLoginAttempts, lockVars
<1>2. Bad' = Bad /\ Checked' = Checked
  BY DEF ClearLoginAttempts, Goto, Bad, Checked, IInv, TypeOK
<1>3. Cardinality(Bad) \in Nat
  BY RequestSet, Bad \subseteq Request DEF Bad
<1> QED BY <1>1, <1>2, <1>3 DEF GuessInv

LEMMA GuessLockExpires ==
  ASSUME IInv, GuessInv, LockExpires
  PROVE  GuessInv'
<1>1. lock' = "over" /\ tries' = 0 /\ faults' = 0
  BY DEF LockExpires
<1>2. Bad' \subseteq Request
  BY DEF Bad
<1>3. Cardinality(Bad') \in Nat
  BY <1>2, RequestSet
<1> QED BY <1>1, <1>3 DEF GuessInv

LEMMA GuessOthers ==
  ASSUME IInv, GuessInv, NEW r \in Request,
         \/ Rehash(r) \/ HookDenies(r) \/ SecondFactorStep(r) \/ RecoveryStep(r)
  PROVE  GuessInv'
<1>1. UNCHANGED lockVars
  BY DEF Rehash, HookDenies, SecondFactorStep, LoginWithoutMFA, LoginTrusted, CreateChallenge,
         SelectChallenge, VerifyTOTP, MatchRecoveryCode, MarkRecoveryCodeUsed, WrongCode,
         DeleteChallenge, Issue, RecoveryStep, LockTicket, ConfirmPasswordReset,
         ConsumeMagicLink, TicketRollback
<1>2. /\ pc[r] \notin {"checked", "bad"}
      /\ \E l \in PC \ {"checked", "bad"} : pc' = [pc EXCEPT ![r] = l]
  BY DEF Rehash, HookDenies, SecondFactorStep, LoginWithoutMFA, LoginTrusted, CreateChallenge,
         SelectChallenge, VerifyTOTP, MatchRecoveryCode, MarkRecoveryCodeUsed, WrongCode,
         DeleteChallenge, Issue, RecoveryStep, LockTicket, ConfirmPasswordReset,
         ConsumeMagicLink, TicketRollback, Finish, Goto, PC
<1>3. Checked' = Checked /\ Bad' = Bad
  BY <1>2 DEF Checked, Bad, IInv, TypeOK
<1> QED BY <1>1, <1>3, Elsewhere

LEMMA GuessEnvironment ==
  ASSUME IInv, GuessInv,
         \/ WindowElapses \/ StartEnroll \/ DisableMFA
         \/ \E C \in SUBSET RecoveryCode : ConfirmEnroll(C) \/ Regenerate(C)
         \/ \E c \in Challenge : ExpireChallenge(c)
         \/ \E t \in OneTime : SendTicket(t) \/ ExpireTicket(t)
         \/ \E p \in Password : SetPassword(p)
  PROVE  GuessInv'
<1>1. UNCHANGED <<failed, lock, tries, faults, pc>>
  BY DEF WindowElapses, ConfirmEnroll, Regenerate, StartEnroll, DisableMFA, ExpireChallenge,
         SendTicket, ExpireTicket, SetPassword, lockVars, reqVars
<1>2. Checked' = Checked /\ Bad' = Bad
  BY <1>1 DEF Checked, Bad
<1> QED BY <1>1, <1>2 DEF GuessInv

(* The lockout's two statements, a read and a later upsert, bound the      *)
(* wrong passwords compared by the threshold, the requests in flight and   *)
(* the storage errors between them.                                        *)
THEOREM LockoutBoundsGuesses == Spec => []GuessesBounded
<1>1. Init => GuessInv
  <2> SUFFICES ASSUME Init PROVE GuessInv
    OBVIOUS
  <2>1. Bad \subseteq Request
    BY DEF Bad
  <2>2. Cardinality(Bad) \in Nat
    BY <2>1, RequestSet
  <2> QED BY <2>2 DEF Init, GuessInv
<1>2. IInv /\ GuessInv /\ [Next]_vars => GuessInv'
  <2> SUFFICES ASSUME IInv, GuessInv, [Next]_vars PROVE GuessInv'
    OBVIOUS
  <2>1. CASE UNCHANGED vars
    BY <2>1 DEF vars, lockVars, reqVars, GuessInv, Checked, Bad
  <2>2. CASE Next
    BY <2>2, GuessCheckLock, GuessVerifyPassword, GuessRecordFailedLogin,
       GuessClearLoginAttempts, GuessLockExpires, GuessOthers, GuessEnvironment
       DEF Next, CheckPasswordStep
  <2> QED BY <2>1, <2>2
<1>3. IInv /\ GuessInv => GuessesBounded
  <2> SUFFICES ASSUME IInv, GuessInv PROVE GuessesBounded
    OBVIOUS
  <2>1. /\ Cardinality(Checked) \in Nat /\ Cardinality(Bad) \in Nat
        /\ Cardinality(Request) \in Nat
        /\ Cardinality(Bad) + Cardinality(Checked) <= Cardinality(Request)
    BY RequestSets, Checked \subseteq Request, Bad \subseteq Request, Checked \cap Bad = {}
       DEF Checked, Bad
  <2> QED BY <2>1, LoginAssumption DEF GuessInv, GuessesBounded, IInv, TypeOK, AlertInv
<1> QED BY <1>1, <1>2, <1>3, SpecIInv, PTL DEF Spec

=============================================================================
