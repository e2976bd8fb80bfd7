------------------------------- MODULE Login -------------------------------
(***************************************************************************)
(* Signing in to one account: CheckPassword with its brute-force lockout   *)
(* and rehash-on-login, Login / BeginLoginSession, the second-factor step  *)
(* (internal/access/authentication), the codes it verifies                 *)
(* (internal/access/mfa), password reset and magic links                   *)
(* (internal/access/recovery).                                             *)
(*                                                                         *)
(* A request is a handler running on some API replica.  Each of its        *)
(* database statements is a step of its own, except those that share a     *)
(* transaction and touch rows the transaction has locked.  A refusal that  *)
(* leaves no trace is not a step.                                          *)
(***************************************************************************)
EXTENDS Naturals, FiniteSets, TLC

CONSTANTS Request,      \* handlers running side by side
          Password,
          ResetToken,   \* rows of auth.password_resets
          MagicLink,    \* rows of auth.magic_links
          Challenge,    \* rows of auth.mfa_login_challenges
          RecoveryCode, \* rows of auth.mfa_recovery_codes
          None,
          MaxFailed,    \* maxFailedLogins
          MaxFault      \* bound: storage errors of the lockout, see faults

OneTime == ResetToken \cup MagicLink

ASSUME LoginAssumption ==
  /\ IsFiniteSet(Request)
  /\ None \notin Request \cup Password \cup OneTime \cup Challenge \cup RecoveryCode
  /\ ResetToken \cap MagicLink = {}
  /\ MaxFailed \in Nat \ {0, 1}
  /\ MaxFault \in Nat

VARIABLES
  cred,      \* the stored hash: of which password, and whether it NeedsRehash
  resetTo,   \* history: what a password reset set, None once an administrator set another
  failed,    \* failed_count; 0 without a row, MaxFailed + 1 for any count above MaxFailed
  lock,      \* locked_until: "none" (NULL), "on" (ahead), "over" (behind)
  stale,     \* last_failed_at is before the failure window
  alerts,    \* history: OnAccountLocked calls since the counter began
  lost,      \* history: one was due, and the answer that says so got lost
  tries,     \* history: wrong passwords compared since the counter or the lock began anew
  faults,    \* history: since then, locks that could not be read and failures not stored
  enrolled,  \* a confirmed TOTP factor
  code,      \* recovery codes: "none", "unused", "used", "gone" (the row is deleted)
  chal,      \* challenges: "none", "open", "gone"
  chalUses,  \* history: sessions each challenge was exchanged for
  ticket,    \* reset tokens and magic links: "none", "sent", "used", "expired"
  ticketUses,\* history: commits each of them led to
  pc,        \* where a request is
  arg,       \* the password, challenge or ticket it works with
  read       \* the hash it read, or the recovery code it matched

credVars == <<cred, resetTo>>
lockVars == <<failed, lock, stale, alerts, lost, tries, faults>>
mfaVars == <<enrolled, code>>
chalVars == <<chal, chalUses>>
ticketVars == <<ticket, ticketUses>>
reqVars == <<pc, arg, read>>
vars == <<credVars, lockVars, mfaVars, chalVars, ticketVars, reqVars>>

Hash == [pw : Password, legacy : BOOLEAN]
PC == {"idle", "checked", "bad", "good", "rehash", "passed", "issue",
       "mfa", "matched", "verified", "reset", "magic"}

TypeOK ==
  /\ cred \in Hash
  /\ resetTo \in Password \cup {None}
  /\ failed \in 0..(MaxFailed + 1)
  /\ lock \in {"none", "on", "over"}
  /\ stale \in BOOLEAN
  /\ alerts \in Nat
  /\ lost \in BOOLEAN
  /\ tries \in Nat
  /\ faults \in Nat
  /\ enrolled \in BOOLEAN
  /\ code \in [RecoveryCode -> {"none", "unused", "used", "gone"}]
  /\ chal \in [Challenge -> {"none", "open", "gone"}]
  /\ chalUses \in [Challenge -> Nat]
  /\ ticket \in [OneTime -> {"none", "sent", "used", "expired"}]
  /\ ticketUses \in [OneTime -> Nat]
  /\ pc \in [Request -> PC]
  /\ arg \in [Request -> Password \cup Challenge \cup OneTime \cup {None}]
  /\ read \in [Request -> Hash \cup RecoveryCode \cup {None}]

Init ==
  /\ cred \in Hash
  /\ resetTo = None
  /\ failed = 0 /\ lock = "none" /\ stale = FALSE /\ alerts = 0 /\ lost = FALSE
  /\ tries = 0 /\ faults = 0
  /\ enrolled = FALSE
  /\ code = [c \in RecoveryCode |-> "none"]
  /\ chal = [c \in Challenge |-> "none"]
  /\ chalUses = [c \in Challenge |-> 0]
  /\ ticket = [t \in OneTime |-> "none"]
  /\ ticketUses = [t \in OneTime |-> 0]
  /\ pc = [r \in Request |-> "idle"]
  /\ arg = [r \in Request |-> None]
  /\ read = [r \in Request |-> None]

Goto(r, l) == pc' = [pc EXCEPT ![r] = l]

(* The handler returns.                                                    *)
Finish(r) ==
  /\ Goto(r, "idle")
  /\ arg' = [arg EXCEPT ![r] = None]
  /\ read' = [read EXCEPT ![r] = None]

-----------------------------------------------------------------------------
(* CheckPassword                                                           *)

(* loginLockedUntil: the account is not locked at this moment, or it is    *)
(* and the row cannot be read, which counts as not locked.                 *)
CheckLock(r, p) ==
  /\ pc[r] = "idle"
  /\ \/ lock # "on" /\ UNCHANGED faults
     \/ lock = "on" /\ faults < MaxFault /\ faults' = faults + 1
  /\ Goto(r, "checked")
  /\ arg' = [arg EXCEPT ![r] = p]
  /\ UNCHANGED <<credVars, failed, lock, stale, alerts, lost, tries, mfaVars, chalVars,
                 ticketVars, read>>

(* PasswordHash and password.Verify.                                       *)
VerifyPassword(r) ==
  LET ok == cred.pw = arg[r] IN
  /\ pc[r] = "checked"
  /\ read' = [read EXCEPT ![r] = cred]
  /\ Goto(r, IF ok THEN "good" ELSE "bad")
  /\ tries' = IF ok THEN tries ELSE tries + 1
  /\ UNCHANGED <<credVars, failed, lock, stale, alerts, lost, faults, mfaVars, chalVars,
                 ticketVars, arg>>

(* UpsertLoginAttempt, one statement; the insert sets no locked_until.     *)
NewCount == IF failed = 0 \/ stale THEN 1
            ELSE IF failed > MaxFailed THEN failed ELSE failed + 1

(* Mutant: the threshold is passed, not met.                               *)
NewLockPastThreshold == IF NewCount > MaxFailed THEN "on" ELSE "none"

NewLock == IF NewCount >= MaxFailed THEN "on" ELSE "none"

UpsertLoginAttempt ==
  LET anew == NewCount = 1 IN
  /\ failed' = NewCount
  /\ lock' = NewLock
  /\ stale' = FALSE
  /\ tries' = IF anew THEN 1 ELSE tries
  /\ faults' = IF anew THEN 0 ELSE faults

(* Mutant: every failure from the threshold on sends the anomaly.          *)
AnomalyFromThresholdOn == NewCount >= MaxFailed

(* The anomaly goes out when the returned count is the threshold.          *)
Anomaly == NewCount = MaxFailed

(* recordFailedLogin: the failure is counted; or it is counted and the     *)
(* answer is lost, and an anomaly with it; or the statement fails, which   *)
(* is logged.  The request is refused all the same.                        *)
RecordFailedLogin(r) ==
  LET anew == NewCount = 1
      Sent == IF Anomaly THEN 1 ELSE 0
  IN
  /\ pc[r] = "bad"
  /\ Finish(r)
  /\ \/ /\ UpsertLoginAttempt
        /\ \/ /\ alerts' = (IF anew THEN 0 ELSE alerts) + Sent
              /\ lost' = IF anew THEN FALSE ELSE lost
           \/ /\ Anomaly
              /\ lost' = TRUE
              /\ UNCHANGED alerts
     \/ /\ faults < MaxFault
        /\ faults' = faults + 1
        /\ UNCHANGED <<failed, lock, stale, alerts, lost, tries>>
  /\ UNCHANGED <<credVars, mfaVars, chalVars, ticketVars>>

(* clearLoginAttempts; an error of the DELETE is ignored.                  *)
ClearLoginAttempts(r) ==
  /\ pc[r] = "good"
  /\ \/ /\ failed' = 0 /\ lock' = "none" /\ stale' = FALSE
        /\ alerts' = 0 /\ lost' = FALSE /\ tries' = 0 /\ faults' = 0
     \/ UNCHANGED lockVars
  /\ Goto(r, IF read[r].legacy THEN "rehash" ELSE "passed")
  /\ UNCHANGED <<credVars, mfaVars, chalVars, ticketVars, arg, read>>

(* UpdatePasswordCredentialHash, whatever hash is stored by now; an error  *)
(* is logged and the sign-in goes on.                                      *)
Rehash(r) ==
  /\ pc[r] = "rehash"
  /\ \/ cred' = [pw |-> arg[r], legacy |-> FALSE]
     \/ UNCHANGED cred
  /\ Goto(r, "passed")
  /\ UNCHANGED <<resetTo, lockVars, mfaVars, chalVars, ticketVars, arg, read>>

(* The login hook denies the sign-in.                                      *)
HookDenies(r) ==
  /\ pc[r] = "passed"
  /\ Finish(r)
  /\ UNCHANGED <<credVars, lockVars, mfaVars, chalVars, ticketVars>>

(* The lock ends lockoutDuration after the failure that set it, computed   *)
(* before the statement that dates the failure: the window elapses later.  *)
LockExpires ==
  /\ lock = "on"
  /\ lock' = "over"
  /\ tries' = 0 /\ faults' = 0
  /\ UNCHANGED <<credVars, failed, stale, alerts, lost, mfaVars, chalVars, ticketVars, reqVars>>

WindowElapses ==
  /\ failed > 0 /\ lock # "on" /\ ~stale
  /\ stale' = TRUE
  /\ UNCHANGED <<credVars, failed, lock, alerts, lost, tries, faults, mfaVars, chalVars,
                 ticketVars, reqVars>>

-----------------------------------------------------------------------------
(* Login, BeginLoginSession and the second factor                          *)


(* IsEnrolled says no: the password is enough.                             *)
LoginWithoutMFA(r) ==
  /\ pc[r] = "passed"
  /\ ~enrolled
  /\ Goto(r, "issue")
  /\ UNCHANGED <<credVars, lockVars, mfaVars, chalVars, ticketVars, arg, read>>

(* BeginLoginSession from a device deviceTrusted accepts.                  *)
LoginTrusted(r) ==
  /\ pc[r] = "passed"
  /\ enrolled
  /\ Goto(r, "issue")
  /\ UNCHANGED <<credVars, lockVars, mfaVars, chalVars, ticketVars, arg, read>>

(* createMFAChallenge.                                                     *)
CreateChallenge(r, c) ==
  /\ pc[r] = "passed"
  /\ enrolled
  /\ chal[c] = "none"
  /\ chal' = [chal EXCEPT ![c] = "open"]
  /\ Finish(r)
  /\ UNCHANGED <<credVars, lockVars, mfaVars, chalUses, ticketVars>>

(* verifyAndConsumeMFAChallenge: the SELECT of a challenge still good ...  *)
SelectChallenge(r, c) ==
  /\ pc[r] = "idle"
  /\ chal[c] = "open"
  /\ Goto(r, "mfa")
  /\ arg' = [arg EXCEPT ![r] = c]
  /\ UNCHANGED <<credVars, lockVars, mfaVars, chalVars, ticketVars, read>>

(* ... or the deletion of an expired one.                                  *)
ExpireChallenge(c) ==
  /\ chal[c] = "open"
  /\ chal' = [chal EXCEPT ![c] = "gone"]
  /\ UNCHANGED <<credVars, lockVars, mfaVars, chalUses, ticketVars, reqVars>>

(* mfa.Verify: a TOTP code, of an account still enrolled ...               *)
VerifyTOTP(r) ==
  /\ pc[r] = "mfa"
  /\ enrolled
  /\ Goto(r, "verified")
  /\ UNCHANGED <<credVars, lockVars, mfaVars, chalVars, ticketVars, arg, read>>

(* ... or one of the recovery codes it lists as unused ...                 *)
MatchRecoveryCode(r, c) ==
  /\ pc[r] = "mfa"
  /\ enrolled
  /\ code[c] = "unused"
  /\ Goto(r, "matched")
  /\ read' = [read EXCEPT ![r] = c]
  /\ UNCHANGED <<credVars, lockVars, mfaVars, chalVars, ticketVars, arg>>

(* ... which it then marks, by id, and commits ...                         *)
MarkRecoveryCodeUsed(r) ==
  LET c == read[r] IN
  /\ pc[r] = "matched"
  /\ code' = [code EXCEPT ![c] = IF @ = "gone" THEN @ ELSE "used"]
  /\ Goto(r, "verified")
  /\ UNCHANGED <<credVars, lockVars, enrolled, chalVars, ticketVars, arg, read>>

(* ... or a wrong code, which consumes nothing.                            *)
WrongCode(r) ==
  /\ pc[r] = "mfa"
  /\ Finish(r)
  /\ UNCHANGED <<credVars, lockVars, mfaVars, chalVars, ticketVars>>

(* DeleteMFALoginChallenge; how many rows it deleted is not looked at.     *)
DeleteChallenge(r) ==
  /\ pc[r] = "verified"
  /\ chal' = [chal EXCEPT ![arg[r]] = "gone"]
  /\ chalUses' = [chalUses EXCEPT ![arg[r]] = @ + 1]
  /\ Goto(r, "issue")
  /\ UNCHANGED <<credVars, lockVars, mfaVars, ticketVars, arg, read>>

(* issuePair or CreateLoginSession; what becomes of the session is the     *)
(* subject of module Sessions.                                             *)
Issue(r) ==
  /\ pc[r] = "issue"
  /\ Finish(r)
  /\ UNCHANGED <<credVars, lockVars, mfaVars, chalVars, ticketVars>>

(* mintRecoveryCodes: the old codes are deleted, C are new.                *)
MintRecoveryCodes(C) ==
  /\ \A c \in C : code[c] = "none"
  /\ code' = [c \in RecoveryCode |-> IF c \in C THEN "unused"
                                     ELSE IF code[c] = "none" THEN "none" ELSE "gone"]

(* StartEnroll writes a new, unconfirmed secret, over a confirmed one too. *)
StartEnroll ==
  /\ enrolled
  /\ enrolled' = FALSE
  /\ UNCHANGED <<credVars, lockVars, code, chalVars, ticketVars, reqVars>>

(* ConfirmEnroll, of a secret confirmed before or not.                     *)
ConfirmEnroll(C) ==
  /\ MintRecoveryCodes(C)
  /\ enrolled' = TRUE
  /\ UNCHANGED <<credVars, lockVars, chalVars, ticketVars, reqVars>>

(* Regenerate, of an enrolled account.                                     *)
Regenerate(C) ==
  /\ enrolled
  /\ MintRecoveryCodes(C)
  /\ UNCHANGED <<credVars, lockVars, enrolled, chalVars, ticketVars, reqVars>>

(* Disable or ResetForUser: the factor and its recovery codes are deleted. *)
DisableMFA ==
  /\ enrolled
  /\ enrolled' = FALSE
  /\ MintRecoveryCodes({})
  /\ UNCHANGED <<credVars, lockVars, chalVars, ticketVars, reqVars>>

-----------------------------------------------------------------------------
(* Password reset and magic links                                          *)

(* StartPasswordReset, StartMagicLink.                                     *)
SendTicket(t) ==
  /\ ticket[t] = "none"
  /\ ticket' = [ticket EXCEPT ![t] = "sent"]
  /\ UNCHANGED <<credVars, lockVars, mfaVars, chalVars, ticketUses, reqVars>>

ExpireTicket(t) ==
  /\ ticket[t] = "sent"
  /\ ticket' = [ticket EXCEPT ![t] = "expired"]
  /\ UNCHANGED <<credVars, lockVars, mfaVars, chalVars, ticketUses, reqVars>>

(* A transaction holds the row lock of SELECT ... FOR UPDATE on t.         *)
Locked(t) == \E r \in Request : pc[r] \in {"reset", "magic"} /\ arg[r] = t

(* Mutant: the row is read without FOR UPDATE.                             *)
LockTicketPlainSelect(r, t) ==
  /\ pc[r] = "idle"
  /\ ticket[t] = "sent"
  /\ Goto(r, IF t \in ResetToken THEN "reset" ELSE "magic")
  /\ arg' = [arg EXCEPT ![r] = t]
  /\ UNCHANGED <<credVars, lockVars, mfaVars, chalVars, ticketVars, read>>

(* GetPasswordResetByToken, GetMagicLinkByToken: neither used nor expired. *)
LockTicket(r, t) ==
  /\ pc[r] = "idle"
  /\ ~Locked(t)
  /\ ticket[t] = "sent"
  /\ Goto(r, IF t \in ResetToken THEN "reset" ELSE "magic")
  /\ arg' = [arg EXCEPT ![r] = t]
  /\ UNCHANGED <<credVars, lockVars, mfaVars, chalVars, ticketVars, read>>

UseTicket(t) ==
  /\ ticket' = [ticket EXCEPT ![t] = "used"]
  /\ ticketUses' = [ticketUses EXCEPT ![t] = @ + 1]

(* The rest of ConfirmPasswordReset; the sessions it revokes are those of  *)
(* Sessions!RevokeUserSessions.                                            *)
ConfirmPasswordReset(r, p) ==
  /\ pc[r] = "reset"
  /\ cred' = [pw |-> p, legacy |-> FALSE]
  /\ resetTo' = p
  /\ UseTicket(arg[r])
  /\ Finish(r)
  /\ UNCHANGED <<lockVars, mfaVars, chalVars>>

(* The rest of ConsumeMagicLink; its handler goes on to IssuePair.         *)
ConsumeMagicLink(r) ==
  /\ pc[r] = "magic"
  /\ UseTicket(arg[r])
  /\ Goto(r, "issue")
  /\ UNCHANGED <<credVars, lockVars, mfaVars, chalVars, arg, read>>

(* A statement of the transaction fails and it is rolled back.             *)
TicketRollback(r) ==
  /\ pc[r] \in {"reset", "magic"}
  /\ Finish(r)
  /\ UNCHANGED <<credVars, lockVars, mfaVars, chalVars, ticketVars>>

(* An administrator sets the password (users.SetPassword).                 *)
SetPassword(p) ==
  /\ cred' = [pw |-> p, legacy |-> FALSE]
  /\ resetTo' = None
  /\ UNCHANGED <<lockVars, mfaVars, chalVars, ticketVars, reqVars>>

-----------------------------------------------------------------------------
CheckPasswordStep(r) ==
  \/ \E p \in Password : CheckLock(r, p)
  \/ VerifyPassword(r)
  \/ RecordFailedLogin(r)
  \/ ClearLoginAttempts(r)
  \/ Rehash(r)
  \/ HookDenies(r)

SecondFactorStep(r) ==
  \/ LoginWithoutMFA(r)
  \/ LoginTrusted(r)
  \/ \E c \in Challenge : CreateChallenge(r, c) \/ SelectChallenge(r, c)
  \/ VerifyTOTP(r)
  \/ \E c \in RecoveryCode : MatchRecoveryCode(r, c)
  \/ MarkRecoveryCodeUsed(r)
  \/ WrongCode(r)
  \/ DeleteChallenge(r)
  \/ Issue(r)

RecoveryStep(r) ==
  \/ \E t \in OneTime : LockTicket(r, t)
  \/ \E p \in Password : ConfirmPasswordReset(r, p)
  \/ ConsumeMagicLink(r)
  \/ TicketRollback(r)

Next ==
  \/ \E r \in Request : CheckPasswordStep(r) \/ SecondFactorStep(r) \/ RecoveryStep(r)
  \/ LockExpires \/ WindowElapses
  \/ \E c \in Challenge : ExpireChallenge(c)
  \/ \E C \in SUBSET RecoveryCode : ConfirmEnroll(C) \/ Regenerate(C)
  \/ StartEnroll \/ DisableMFA
  \/ \E t \in OneTime : SendTicket(t) \/ ExpireTicket(t)
  \/ \E p \in Password : SetPassword(p)

Spec == Init /\ [][Next]_vars

-----------------------------------------------------------------------------
(* Properties                                                              *)

(* recordFailedLogin is one upsert and loginLockedUntil an earlier read,   *)
(* so requests already past the check are still compared after the lock is *)
(* set; a lock that cannot be read and a failure that is not stored are    *)
(* swallowed.  The lockout lets through MaxFailed - 1 wrong passwords, one *)
(* for every request in flight and one for every such storage error, and   *)
(* never more; the counter a failed DELETE leaves behind lets through none.*)
GuessesBounded == tries <= MaxFailed - 1 + Cardinality(Request) + faults

(* "Exactly once, on the attempt that crosses the lockout threshold": an   *)
(* account is locked only after one anomaly, unless the answer that tells  *)
(* of the crossing got lost; and however many failures follow, from        *)
(* requests in flight or after the lock ended, whatever storage errors     *)
(* come between, the same counter sends no second one.                     *)
AlertOncePerLock ==
  /\ alerts + (IF lost THEN 1 ELSE 0) <= 1
  /\ lock = "on" => alerts = 1 \/ lost

(* A reset token changes the password once and a magic link signs in once, *)
(* whoever presents them at the same time.                                 *)
TicketsSingleUse == \A t \in OneTime : ticketUses[t] <= 1

(* "Your password has been reset. You can now sign in with your new        *)
(* password.": until the next change, the stored hash is of that password. *)
ResetTakesEffect == resetTo # None => cred.pw = resetTo

(* "The challenge is single-use."                                          *)
ChallengeSingleUse == \A c \in Challenge : chalUses[c] <= 1

-----------------------------------------------------------------------------
(* The instance the run checks: one ticket of either kind is sent.         *)
OneTicket == \A t, v \in OneTime : ticket[t] # "none" /\ ticket[v] # "none" => t = v

LoginSpec == Init /\ [][Next /\ OneTicket']_vars

(* For the runs: requests are interchangeable, and so are passwords.       *)
Symmetry == Permutations(Request) \cup Permutations(Password)

(* Two histories that no action and no other property reads.               *)
WithoutResetHistory == <<cred, lockVars, mfaVars, chal, ticketVars, reqVars>>

=============================================================================
