------------------------------- MODULE Factors -------------------------------
(***************************************************************************)
(* Second factors by e-mail or SMS, the step-up window they open, trusted  *)
(* devices, hosted login sessions, and the verification of addresses and   *)
(* numbers: everything in which a short code that was sent is presented.   *)
(*                                                                         *)
(* SELECT ... FOR UPDATE locks the code and, for a factor's code, the      *)
(* factor with it; the rest of the transaction is one step (LockCode, then *)
(* Confirm, VerifyOTP or ConfirmContact).  TOTP, recovery codes and the    *)
(* sign-in that asks for them are the subject of Login.                    *)
(***************************************************************************)
EXTENDS Naturals, FiniteSets

CONSTANTS User,
          Factor,    \* ids of mfa_otp_factors: a user, a channel, a destination
          OwnerOf,   \* whose each of them is
          Code,      \* rows of mfa_otp_codes and of the two verification tables
          Cookie,    \* trusted-device and login-session tokens
          Request,
          None

Contact == {"email", "phone"}
Target == Factor \cup (User \X Contact)

VARIABLES
  factor,    \* "absent", "unverified" or "verified"
  code,      \* None before it is sent, else what it was sent for, and whether used
  due,       \* codes past expires_at
  totp,      \* each user's authenticator: "none", "pending" or "confirmed"
  proof,     \* mfa_verifications: "never", "recent" or "old" (beyond the window)
  verified,  \* addresses and numbers with email_verified_at or phone_verified_at
  cookie,    \* None, or the kind and user of each
  req,       \* what each handler is doing
  counted,   \* history: what each code counted for, and how the factor stood then
  earned     \* history: users whose window was last opened by a proof

vars == <<factor, code, due, totp, proof, verified, cookie, req, counted, earned>>

Idle == [at |-> "idle"]

FactorsInit ==
  /\ factor = [f \in Factor |-> "absent"]
  /\ code = [c \in Code |-> None]
  /\ due = {}
  /\ totp \in [User -> {"none", "confirmed"}]
  /\ proof = [u \in User |-> "never"]
  /\ verified = {}
  /\ cookie = [k \in Cookie |-> None]
  /\ req = [r \in Request |-> Idle]
  /\ counted = [c \in Code |-> {}]
  /\ earned = {}

FactorsTypeOK ==
  /\ factor \in [Factor -> {"absent", "unverified", "verified"}]
  /\ code \in [Code -> [to : Target, used : BOOLEAN] \cup {None}]
  /\ due \subseteq Code
  /\ totp \in [User -> {"none", "pending", "confirmed"}]
  /\ earned \subseteq User
  /\ proof \in [User -> {"never", "recent", "old"}]
  /\ verified \subseteq User \X Contact
  /\ cookie \in [Cookie -> [kind : {"device", "session"}, user : User] \cup {None}]
  /\ \A r \in Request : req[r].at \in {"idle", "code", "stepup", "proved"}

-----------------------------------------------------------------------------
Becomes(r, w) == req' = [req EXCEPT ![r] = w]

(* INSERT of a code that expires in ten minutes; it is sent after that.    *)
SendCode(c, to) ==
  /\ code[c] = None
  /\ code' = [code EXCEPT ![c] = [to |-> to, used |-> FALSE]]

Usable(c) == code[c] # None /\ ~code[c].used /\ c \notin due

(* The codes and factors a transaction under way has locked.               *)
Locking(c) == {r \in Request : req[r].at = "code" /\ req[r].code = c}
FactorFree(f) == \A r \in Request : req[r].at = "code" => code[req[r].code].to # f

(* The window opens anew, by a proof or not.                               *)
RecordVerification(u, proved) ==
  /\ proof' = [proof EXCEPT ![u] = "recent"]
  /\ earned' = IF proved THEN earned \cup {u} ELSE earned \ {u}

UseCode(c, for, u) ==
  /\ code' = [code EXCEPT ![c].used = TRUE]
  /\ counted' = [counted EXCEPT ![c] = @ \cup
       {[for |-> for, user |-> u, again |-> code[c].used,
         factor |-> IF code[c].to \in Factor THEN factor[code[c].to] ELSE "none"]}]

-----------------------------------------------------------------------------
(* Factors.  Enrolling a destination again takes its verification back.    *)
EnrollOTPStart(f, c) ==
  /\ FactorFree(f)
  /\ factor' = [factor EXCEPT ![f] = "unverified"]
  /\ SendCode(c, f)
  /\ UNCHANGED <<due, totp, proof, verified, cookie, req, counted, earned>>

ChallengeOTP(f, c) ==
  /\ factor[f] = "verified"
  /\ SendCode(c, f)
  /\ UNCHANGED <<factor, due, totp, proof, verified, cookie, req, counted, earned>>

(* The row and, by ON DELETE CASCADE, its codes.                           *)
DropFactors(F) ==
  /\ \A f \in F : FactorFree(f)
  /\ factor' = [f \in Factor |-> IF f \in F THEN "absent" ELSE factor[f]]
  /\ code' = [c \in Code |-> IF code[c] # None /\ code[c].to \in F
                             THEN [code[c] EXCEPT !.used = TRUE] ELSE code[c]]

DeleteOTPFactor(f) ==
  /\ factor[f] # "absent"
  /\ DropFactors({f})
  /\ UNCHANGED <<due, totp, proof, verified, cookie, req, counted, earned>>

(* An administrator's reset: trusted devices and an open window stay.      *)
ResetForUser(u) ==
  /\ totp' = [totp EXCEPT ![u] = "none"]
  /\ DropFactors({f \in Factor : OwnerOf[f] = u})
  /\ UNCHANGED <<due, proof, verified, cookie, req, counted, earned>>

-----------------------------------------------------------------------------
(* Presenting a code.                                                      *)
(* Mutant: the code is selected without FOR UPDATE.                        *)
UnlockedAlways(c) == TRUE
Unlocked(c) == Locking(c) = {}

GetOTPCodeForConfirm(r, f, c) ==
  /\ req[r] = Idle
  /\ Usable(c) /\ code[c].to = f /\ factor[f] # "absent" /\ Unlocked(c)
  /\ Becomes(r, [at |-> "code", code |-> c, for |-> "enrol"])
  /\ UNCHANGED <<factor, code, due, totp, proof, verified, cookie, counted, earned>>

GetOTPCodeForVerify(r, u, c) ==
  /\ req[r] = Idle
  /\ Usable(c) /\ code[c].to \in {f \in Factor : OwnerOf[f] = u /\ factor[f] = "verified"}
  /\ Unlocked(c)
  /\ Becomes(r, [at |-> "code", code |-> c, for |-> "verify"])
  /\ UNCHANGED <<factor, code, due, totp, proof, verified, cookie, counted, earned>>

(* The latest row with the code; one used or expired is refused after it   *)
(* was locked.                                                             *)
GetLatestVerification(r, u, k, c) ==
  /\ req[r] = Idle
  /\ Usable(c) /\ code[c].to = <<u, k>> /\ Unlocked(c)
  /\ Becomes(r, [at |-> "code", code |-> c, for |-> "contact"])
  /\ UNCHANGED <<factor, code, due, totp, proof, verified, cookie, counted, earned>>

EnrollOTPConfirm(r) ==
  /\ req[r].at = "code" /\ req[r].for = "enrol"
  /\ LET f == code[req[r].code].to IN
       /\ UseCode(req[r].code, "enrol", OwnerOf[f])
       /\ factor' = [factor EXCEPT ![f] = "verified"]
  /\ Becomes(r, Idle)
  /\ UNCHANGED <<due, totp, proof, verified, cookie, earned>>

VerifyOTP(r) ==
  /\ req[r].at = "code" /\ req[r].for = "verify"
  /\ LET c == req[r].code
         u == OwnerOf[code[c].to] IN
       /\ UseCode(c, "verify", u)
       /\ RecordVerification(u, ~code[c].used /\ factor[code[c].to] = "verified")
  /\ Becomes(r, Idle)
  /\ UNCHANGED <<factor, due, totp, verified, cookie>>

(* Whatever address the code was sent to, the one on file is verified.     *)
ConfirmContact(r) ==
  /\ req[r].at = "code" /\ req[r].for = "contact"
  /\ UseCode(req[r].code, "contact", code[req[r].code].to[1])
  /\ verified' = verified \cup {code[req[r].code].to}
  /\ Becomes(r, Idle)
  /\ UNCHANGED <<factor, due, totp, proof, cookie, earned>>

Rollback(r) ==
  /\ req[r] # Idle
  /\ Becomes(r, Idle)
  /\ UNCHANGED <<factor, code, due, totp, proof, verified, cookie, counted, earned>>

StartEmail(u, c) ==
  /\ SendCode(c, <<u, "email">>)
  /\ UNCHANGED <<factor, due, totp, proof, verified, cookie, req, counted, earned>>

StartPhone(u, c) ==
  /\ SendCode(c, <<u, "phone">>)
  /\ UNCHANGED <<factor, due, totp, proof, verified, cookie, req, counted, earned>>

-----------------------------------------------------------------------------
(* Other ways to prove a second factor: a TOTP or recovery code ...        *)
Verify(u) ==
  /\ totp[u] = "confirmed"
  /\ RecordVerification(u, TRUE)
  /\ UNCHANGED <<factor, code, due, totp, verified, cookie, req, counted>>

(* ... or a passkey, recorded in a transaction of its own afterwards.      *)
WebauthnVerify(u) ==
  /\ RecordVerification(u, TRUE)
  /\ UNCHANGED <<factor, code, due, totp, verified, cookie, req, counted>>

RecentlyVerified(u) == proof[u] = "recent"

(* The middleware in front of Disable and Regenerate ...                   *)
RequireRecentMFA(r, u) ==
  /\ req[r] = Idle
  /\ RecentlyVerified(u)
  /\ Becomes(r, [at |-> "stepup", user |-> u, earned |-> u \in earned])
  /\ UNCHANGED <<factor, code, due, totp, proof, verified, cookie, counted, earned>>

(* ... and what it lets through.                                           *)
Disable(r) ==
  /\ req[r].at = "stepup"
  /\ totp' = [totp EXCEPT ![req[r].user] = "none"]
  /\ Becomes(r, Idle)
  /\ UNCHANGED <<factor, code, due, proof, verified, cookie, counted, earned>>

(* The recovery codes are those of Login!MintRecoveryCodes.                *)
RegenerateRecovery(r) ==
  /\ req[r].at = "stepup" /\ totp[req[r].user] = "confirmed"
  /\ Becomes(r, Idle)
  /\ UNCHANGED <<factor, code, due, totp, proof, verified, cookie, counted, earned>>

(* A new secret, not confirmed, in the place of the old.                   *)
StartEnroll(u) ==
  /\ totp' = [totp EXCEPT ![u] = "pending"]
  /\ UNCHANGED <<factor, code, due, proof, verified, cookie, req, counted, earned>>

(* A code of the authenticator being enrolled is itself a proof.           *)
ConfirmEnroll(u) ==
  /\ totp[u] # "none"
  /\ totp' = [totp EXCEPT ![u] = "confirmed"]
  /\ RecordVerification(u, TRUE)
  /\ UNCHANGED <<factor, code, due, verified, cookie, req, counted>>

WindowCloses(u) ==
  /\ proof[u] = "recent"
  /\ proof' = [proof EXCEPT ![u] = "old"]
  /\ earned' = earned \ {u}
  /\ UNCHANGED <<factor, code, due, totp, verified, cookie, req, counted>>

-----------------------------------------------------------------------------
(* The second step of a hosted sign-in (Login!DeleteChallenge) was passed. *)
CompleteMFALogin(r, u) ==
  /\ req[r] = Idle /\ totp[u] = "confirmed"
  /\ RecordVerification(u, TRUE)
  /\ Becomes(r, [at |-> "proved", user |-> u])
  /\ UNCHANGED <<factor, code, due, totp, verified, cookie, counted>>

CreateLoginSession(u, k) ==
  /\ cookie[k] = None
  /\ cookie' = [cookie EXCEPT ![k] = [kind |-> "session", user |-> u]]
  /\ UNCHANGED <<factor, code, due, totp, proof, verified, req, counted, earned>>

CreateTrustedDevice(r, k) ==
  /\ req[r].at = "proved" /\ cookie[k] = None
  /\ cookie' = [cookie EXCEPT ![k] = [kind |-> "device", user |-> req[r].user]]
  /\ Becomes(r, Idle)
  /\ UNCHANGED <<factor, code, due, totp, proof, verified, counted, earned>>

RevokeLoginSession(k) ==
  /\ cookie[k] # None /\ cookie[k].kind = "session"
  /\ cookie' = [cookie EXCEPT ![k] = None]
  /\ UNCHANGED <<factor, code, due, totp, proof, verified, req, counted, earned>>

Lapse(c) ==
  /\ code[c] # None /\ c \notin due
  /\ due' = due \cup {c}
  /\ UNCHANGED <<factor, code, totp, proof, verified, cookie, req, counted, earned>>

-----------------------------------------------------------------------------
SendNext ==
  \E c \in Code :
    \/ \E f \in Factor : EnrollOTPStart(f, c) \/ ChallengeOTP(f, c)
    \/ \E u \in User : StartEmail(u, c) \/ StartPhone(u, c)

PresentNext ==
  \E r \in Request :
    \/ \E c \in Code :
         \/ \E f \in Factor : GetOTPCodeForConfirm(r, f, c)
         \/ \E u \in User : GetOTPCodeForVerify(r, u, c)
         \/ \E u \in User, k \in Contact : GetLatestVerification(r, u, k, c)
    \/ EnrollOTPConfirm(r) \/ VerifyOTP(r) \/ ConfirmContact(r)
    \/ Rollback(r)

StepUpNext ==
  \/ \E u \in User : Verify(u) \/ WebauthnVerify(u) \/ WindowCloses(u)
  \/ \E u \in User : StartEnroll(u) \/ ConfirmEnroll(u)
  \/ \E r \in Request :
       \/ \E u \in User : RequireRecentMFA(r, u) \/ CompleteMFALogin(r, u)
       \/ Disable(r) \/ RegenerateRecovery(r)
       \/ \E k \in Cookie : CreateTrustedDevice(r, k)
  \/ \E u \in User, k \in Cookie : CreateLoginSession(u, k)
  \/ \E k \in Cookie : RevokeLoginSession(k)

FactorsNext ==
  \/ SendNext \/ PresentNext \/ StepUpNext
  \/ \E f \in Factor : DeleteOTPFactor(f)
  \/ \E u \in User : ResetForUser(u)
  \/ \E c \in Code : Lapse(c)

-----------------------------------------------------------------------------
(* mfa.go:441 "consumes a code from any of the user's verified OTP         *)
(* factors": whoever presents it, deletes or enrols its factor meanwhile,  *)
(* a code counts once, and as a second factor only while its factor is     *)
(* verified; the window through which a step-up was let was last opened by *)
(* a proof, never by such a code used before or of a factor enrolled anew; *)
(* and (trusteddevice.go:27) trust in a device follows a proof.            *)
ProofsCountOnce ==
  /\ \A c \in Code :
       /\ Cardinality(counted[c]) <= 1
       /\ \A p \in counted[c] : ~p.again /\ (p.for = "verify" => p.factor = "verified")
  /\ \A r \in Request : req[r].at = "stepup" => req[r].earned
  /\ \A k \in Cookie : cookie[k] # None /\ cookie[k].kind = "device"
                        => proof[cookie[k].user] # "never"
=============================================================================
