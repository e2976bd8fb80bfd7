------------------------------ MODULE Erasure ------------------------------
(***************************************************************************)
(* What becomes of an account's personal data: the GDPR purge and export   *)
(* queues and their sweeper (internal/operations/gdpr), the deletion and   *)
(* restoring of users (internal/identity/users) and the retention sweep    *)
(* (internal/operations/retention).                                        *)
(*                                                                         *)
(* Each replica's sweeper selects ripe purge requests FOR UPDATE SKIP      *)
(* LOCKED in a statement of its own, whose locks end with it, then purges  *)
(* them one transaction at a time; after them it builds pending exports.   *)
(***************************************************************************)
EXTENDS Naturals, FiniteSets

CONSTANTS User,
          Purge,    \* rows of user.purge_requests
          Export,   \* rows of user.export_requests
          Sweeper,  \* worker replicas
          None,
          MaxFault  \* how many purges or exports fail or replicas restart

VARIABLES
  user,     \* "live", "deleted" (soft), "gone" (the row is deleted)
  data,     \* which kinds of personal data and credentials a user has
  sessions, \* users with a live session
  aged,     \* users soft-deleted for longer than the retention window
  policy,   \* the tenant enabled retention
  purge,    \* purge requests: "none", "pending", "cancelled", "completed", "gone"
  subject,  \* the user a purge or export request is about
  ripe,     \* purge requests whose grace period is over
  export,   \* export requests: "none", "pending", "ready", "failed", "gone"
  payload,  \* what a ready export holds: "none", "personal", "redacted"
  pc,       \* a sweeper: "idle", "purging", "exporting", "collected"
  todo,     \* the requests of its batch it has still to treat
  got,      \* the export at hand and what was collected for it, None between two
  listed,   \* the retention sweep listed the tenant's policy
  restored, \* history: users restored since they were last erased
  faults    \* history: failures so far

userVars == <<user, data, sessions, aged>>
queueVars == <<purge, subject, ripe, export, payload>>
sweepVars == <<pc, todo, got>>
miscVars == <<listed, restored, faults>>
vars == <<userVars, policy, queueVars, sweepVars, miscVars>>

(* "profile": e-mail, phone, name and metadata; "avatar": avatar_url and    *)
(* external_id, on the same row.  "password": the password, TOTP secret    *)
(* and recovery codes; "factor": passkeys, OTP factors and the identities  *)
(* linked at external providers, each with a table of its own.             *)
Kind == {"profile", "avatar", "password", "factor"}

TypeOK ==
  /\ user \in [User -> {"live", "deleted", "gone"}]
  /\ data \in [User -> SUBSET Kind]
  /\ sessions \subseteq User /\ aged \subseteq User
  /\ policy \in BOOLEAN /\ listed \in BOOLEAN
  /\ purge \in [Purge -> {"none", "pending", "cancelled", "completed", "gone"}]
  /\ subject \in [Purge \cup Export -> User \cup {None}]
  /\ ripe \subseteq Purge
  /\ export \in [Export -> {"none", "pending", "ready", "failed", "gone"}]
  /\ payload \in [Export -> {"none", "personal", "redacted"}]
  /\ pc \in [Sweeper -> {"idle", "purging", "exporting", "collected"}]
  /\ todo \in [Sweeper -> SUBSET (Purge \cup Export)]
  /\ got \in [Sweeper -> [of : Export, data : {"personal", "redacted", "error"}] \cup {None}]
  /\ restored \subseteq User
  /\ faults \in 0..MaxFault

Init ==
  /\ user = [u \in User |-> "live"]
  /\ data = [u \in User |-> Kind]
  /\ sessions = {} /\ aged = {}
  /\ policy = FALSE /\ listed = FALSE
  /\ purge = [q \in Purge |-> "none"]
  /\ subject = [q \in Purge \cup Export |-> None]
  /\ ripe = {}
  /\ export = [x \in Export |-> "none"]
  /\ payload = [x \in Export |-> "none"]
  /\ pc = [w \in Sweeper |-> "idle"]
  /\ todo = [w \in Sweeper |-> {}]
  /\ got = [w \in Sweeper |-> None]
  /\ restored = {} /\ faults = 0

-----------------------------------------------------------------------------
(* Users                                                                   *)

(* A sign-in of a live account, by password or by another factor.          *)
SignIn(u) ==
  /\ user[u] = "live" /\ data[u] \cap {"password", "factor"} # {}
  /\ sessions' = sessions \cup {u}
  /\ UNCHANGED <<user, data, aged, policy, queueVars, sweepVars, miscVars>>

(* Mutant: the UPDATE does not ask for deleted_at IS NULL.                 *)
UpdateDeleted(u, k) ==
  /\ user[u] # "gone"
  /\ data' = [data EXCEPT ![u] = @ \cup {k}]
  /\ UNCHANGED <<user, sessions, aged, policy, queueVars, sweepVars, miscVars>>

(* Update: columns are written, on a row that is not deleted.              *)
Update(u, k) ==
  /\ user[u] = "live"
  /\ data' = [data EXCEPT ![u] = @ \cup {k}]
  /\ UNCHANGED <<user, sessions, aged, policy, queueVars, sweepVars, miscVars>>

(* ConfirmPasswordReset with a token asked for while the account was live: *)
(* the token is looked up, not the account, so a password is also set for  *)
(* one deleted or erased since.  No token lives as long as the retention   *)
(* window.                                                                 *)
ConfirmPasswordReset(u) ==
  /\ user[u] # "gone" /\ u \notin aged
  /\ data' = [data EXCEPT ![u] = @ \cup {"password"}]
  /\ sessions' = sessions \ {u}
  /\ UNCHANGED <<user, aged, policy, queueVars, sweepVars, miscVars>>

(* SoftDelete.                                                             *)
SoftDelete(u) ==
  /\ user[u] = "live"
  /\ user' = [user EXCEPT ![u] = "deleted"]
  /\ UNCHANGED <<data, sessions, aged, policy, queueVars, sweepVars, miscVars>>

(* Restore: erased accounts can be restored too.                           *)
Restore(u) ==
  /\ user[u] = "deleted"
  /\ user' = [user EXCEPT ![u] = "live"]
  /\ aged' = aged \ {u}
  /\ restored' = restored \cup {u}
  /\ UNCHANGED <<data, sessions, policy, queueVars, sweepVars, listed, faults>>

(* DELETE of user rows; requests, sessions and credentials go with them,   *)
(* by ON DELETE CASCADE.                                                   *)
DeleteRows(U) ==
  /\ user' = [u \in User |-> IF u \in U THEN "gone" ELSE user[u]]
  /\ data' = [u \in User |-> IF u \in U THEN {} ELSE data[u]]
  /\ sessions' = sessions \ U /\ aged' = aged \ U
  /\ purge' = [q \in Purge |-> IF subject[q] \in U THEN "gone" ELSE purge[q]]
  /\ export' = [x \in Export |-> IF subject[x] \in U THEN "gone" ELSE export[x]]
  /\ payload' = [x \in Export |-> IF subject[x] \in U THEN "none" ELSE payload[x]]
  /\ UNCHANGED <<policy, subject, ripe, sweepVars, restored, faults>>

(* Repository.Purge.                                                       *)
PurgeUser(u) ==
  /\ user[u] = "deleted"
  /\ DeleteRows({u})
  /\ UNCHANGED listed

(* The retention window of a soft-deleted user passes.                     *)
Age(u) ==
  /\ user[u] = "deleted" /\ u \notin aged
  /\ aged' = aged \cup {u}
  /\ UNCHANGED <<user, data, sessions, policy, queueVars, sweepVars, miscVars>>

(* Update of the retention policy.                                         *)
SetPolicy(b) ==
  /\ policy # b
  /\ policy' = b
  /\ UNCHANGED <<userVars, queueVars, sweepVars, miscVars>>

(* sweep: ListEnabledRetentionPolicies, then PurgeTenant with what was     *)
(* listed, whether or not the policy is still enabled.                     *)
ListPolicies ==
  /\ policy /\ ~listed
  /\ listed' = TRUE
  /\ UNCHANGED <<userVars, policy, queueVars, sweepVars, restored, faults>>

(* The handler's run: it purges whether or not the policy is enabled.      *)
RunRetention ==
  /\ DeleteRows({u \in aged : user[u] = "deleted"})
  /\ UNCHANGED listed

PurgeTenant ==
  /\ listed
  /\ DeleteRows({u \in aged : user[u] = "deleted"})
  /\ listed' = FALSE

-----------------------------------------------------------------------------
(* Requests                                                                *)

(* INSERT of a pending row, for a user the foreign key finds.              *)
InsertPurgeRequest(q, u) ==
  /\ user[u] # "gone"
  /\ purge' = [purge EXCEPT ![q] = "pending"]
  /\ subject' = [subject EXCEPT ![q] = u]

InsertExportRequest(x, u) ==
  /\ user[u] # "gone"
  /\ export' = [export EXCEPT ![x] = "pending"]
  /\ subject' = [subject EXCEPT ![x] = u]

RequestPurge(q, u) ==
  /\ purge[q] = "none"
  /\ InsertPurgeRequest(q, u)
  /\ UNCHANGED <<userVars, policy, ripe, export, payload, sweepVars, miscVars>>

GraceEnds(q) ==
  /\ purge[q] = "pending" /\ q \notin ripe
  /\ ripe' = ripe \cup {q}
  /\ UNCHANGED <<userVars, policy, purge, subject, export, payload, sweepVars, miscVars>>

(* Cancel: one UPDATE of a pending row, confirmed when it hit one.         *)
Cancel(q) ==
  /\ purge[q] = "pending"
  /\ purge' = [purge EXCEPT ![q] = "cancelled"]
  /\ UNCHANGED <<userVars, policy, subject, ripe, export, payload, sweepVars, miscVars>>

RequestExport(x, u) ==
  /\ export[x] = "none"
  /\ InsertExportRequest(x, u)
  /\ UNCHANGED <<userVars, policy, purge, ripe, payload, sweepVars, miscVars>>

-----------------------------------------------------------------------------
(* The sweeper                                                             *)

(* Mutant: only requests whose user is not yet deleted are selected.       *)
SelectPurgesOfLive(w, B) ==
  LET due == {q \in ripe : purge[q] = "pending" /\ user[subject[q]] = "live"} IN
  /\ pc[w] = "idle"
  /\ B \subseteq due
  /\ due \ B \subseteq UNION {todo[v] : v \in Sweeper}
  /\ pc' = [pc EXCEPT ![w] = "purging"]
  /\ todo' = [todo EXCEPT ![w] = B]
  /\ UNCHANGED <<userVars, policy, queueVars, got, miscVars>>

GetPendingPurgeRequests == {q \in ripe : purge[q] = "pending"}

(* tick: rows another sweeper is at may be locked and skipped.             *)
SelectPurges(w, B) ==
  LET due == GetPendingPurgeRequests IN
  /\ pc[w] = "idle"
  /\ B \subseteq due
  /\ due \ B \subseteq UNION {todo[v] : v \in Sweeper}
  /\ pc' = [pc EXCEPT ![w] = "purging"]
  /\ todo' = [todo EXCEPT ![w] = B]
  /\ UNCHANGED <<userVars, policy, queueVars, got, miscVars>>

(* The kinds the purge's statements name: PurgeUserPII's SET list, and the *)
(* tables its DELETEs are for.                                             *)
Redacted == {"profile"}
Dropped == {"password"}

(* The row is redacted, and deleted if it was not.                         *)
PurgeUserPII(u) ==
  user' = [user EXCEPT ![u] = IF @ = "gone" THEN @ ELSE "deleted"]

(* purgeOne commits: it writes whatever the request's status is by now.    *)
PurgeOne(w, q) ==
  LET u == subject[q] IN
  /\ pc[w] = "purging" /\ q \in todo[w]
  /\ todo' = [todo EXCEPT ![w] = @ \ {q}]
  /\ PurgeUserPII(u)
  /\ data' = [data EXCEPT ![u] = @ \ (Redacted \cup Dropped)]
  /\ sessions' = sessions \ {u}
  /\ purge' = [purge EXCEPT ![q] = IF @ = "gone" THEN @ ELSE "completed"]
  /\ restored' = restored \ {u}
  /\ UNCHANGED <<aged, policy, subject, ripe, export, payload, pc, got, listed, faults>>

(* purgeOne fails and is rolled back; the next request is taken.           *)
PurgeOneFails(w, q) ==
  /\ pc[w] = "purging" /\ q \in todo[w]
  /\ faults < MaxFault /\ faults' = faults + 1
  /\ todo' = [todo EXCEPT ![w] = @ \ {q}]
  /\ UNCHANGED <<userVars, policy, queueVars, pc, got, listed, restored>>

(* Mutant: only exports of users who are not deleted are selected.         *)
SelectExportsOfLive(w, B) ==
  LET pending == {x \in Export : export[x] = "pending" /\ user[subject[x]] = "live"} IN
  /\ pc[w] = "purging" /\ todo[w] = {}
  /\ B \subseteq pending
  /\ pending \ B \subseteq UNION {todo[v] : v \in Sweeper}
  /\ pc' = [pc EXCEPT ![w] = "exporting"]
  /\ todo' = [todo EXCEPT ![w] = B]
  /\ UNCHANGED <<userVars, policy, queueVars, got, miscVars>>

GetPendingExportRequests == {x \in Export : export[x] = "pending"}

SelectExports(w, B) ==
  LET pending == GetPendingExportRequests IN
  /\ pc[w] = "purging" /\ todo[w] = {}
  /\ B \subseteq pending
  /\ pending \ B \subseteq UNION {todo[v] : v \in Sweeper}
  /\ pc' = [pc EXCEPT ![w] = "exporting"]
  /\ todo' = [todo EXCEPT ![w] = B]
  /\ UNCHANGED <<userVars, policy, queueVars, got, miscVars>>

(* The profile as it is now, or no row.                                    *)
GetUserProfileForExport(u) ==
  IF user[u] = "gone" THEN "error" ELSE IF "profile" \in data[u] THEN "personal" ELSE "redacted"

(* collectUserData: no row, or any other error, fails the export.          *)
Collect(w, x) ==
  /\ pc[w] = "exporting" /\ x \in todo[w]
  /\ pc' = [pc EXCEPT ![w] = "collected"]
  /\ todo' = [todo EXCEPT ![w] = @ \ {x}]
  /\ \/ /\ got' = [got EXCEPT ![w] =
                     [of |-> x, data |-> GetUserProfileForExport(subject[x])]]
        /\ UNCHANGED faults
     \/ /\ faults < MaxFault /\ faults' = faults + 1
        /\ got' = [got EXCEPT ![w] = [of |-> x, data |-> "error"]]
  /\ UNCHANGED <<userVars, policy, queueVars, listed, restored>>

NextExport(w) ==
  /\ pc[w] = "collected"
  /\ pc' = [pc EXCEPT ![w] = "exporting"]
  /\ got' = [got EXCEPT ![w] = None]
  /\ UNCHANGED <<userVars, policy, purge, subject, ripe, todo, miscVars>>

(* ReadyExportRequest, whatever the row says by now.                       *)
Ready(w) ==
  LET x == got[w].of IN
  /\ NextExport(w)
  /\ got[w].data # "error"
  /\ export' = [export EXCEPT ![x] = IF @ = "gone" THEN @ ELSE "ready"]
  /\ payload' = [payload EXCEPT ![x] = IF export[x] = "gone" THEN @ ELSE got[w].data]

(* FailExportRequest, also of a request another sweeper made ready.        *)
Fail(w) ==
  LET x == got[w].of IN
  /\ NextExport(w)
  /\ got[w].data = "error"
  /\ export' = [export EXCEPT ![x] = IF @ = "gone" THEN @ ELSE "failed"]
  /\ UNCHANGED payload

EndTick(w) ==
  /\ pc[w] = "exporting" /\ todo[w] = {}
  /\ pc' = [pc EXCEPT ![w] = "idle"]
  /\ UNCHANGED <<userVars, policy, queueVars, todo, got, miscVars>>

(* The replica restarts in the middle of a tick.                           *)
Restart(w) ==
  /\ pc[w] # "idle"
  /\ pc' = [pc EXCEPT ![w] = "idle"]
  /\ todo' = [todo EXCEPT ![w] = {}]
  /\ got' = [got EXCEPT ![w] = None]
  /\ faults < MaxFault /\ faults' = faults + 1
  /\ UNCHANGED <<userVars, policy, queueVars, listed, restored>>

-----------------------------------------------------------------------------
UserStep(u) ==
  \/ SignIn(u) \/ SoftDelete(u) \/ Restore(u) \/ PurgeUser(u) \/ Age(u)
  \/ \E k \in {"profile", "avatar"} : Update(u, k)
  \/ ConfirmPasswordReset(u)
  \/ \E q \in Purge : RequestPurge(q, u)
  \/ \E x \in Export : RequestExport(x, u)

SweepStep(w) ==
  \/ \E B \in SUBSET Purge : SelectPurges(w, B)
  \/ \E q \in Purge : PurgeOne(w, q)
  \/ \E B \in SUBSET Export : SelectExports(w, B)
  \/ \E x \in Export : Collect(w, x)
  \/ Ready(w) \/ Fail(w) \/ EndTick(w)

Next ==
  \/ \E u \in User : UserStep(u)
  \/ \E b \in BOOLEAN : SetPolicy(b)
  \/ ListPolicies \/ PurgeTenant \/ RunRetention
  \/ \E q \in Purge : GraceEnds(q) \/ Cancel(q)
  \/ \E w \in Sweeper : SweepStep(w) \/ Restart(w)
  \/ \E w \in Sweeper, q \in Purge : PurgeOneFails(w, q)

Spec == Init /\ [][Next]_vars

(* The sweepers' tickers fire for ever and a tick runs on to its end;      *)
(* failures come to an end (MaxFault).                                     *)
Fairness == \A w \in Sweeper : WF_vars(SweepStep(w))

FairSpec == Spec /\ Fairness

-----------------------------------------------------------------------------
(* Properties                                                              *)

(* A completed request means e-mail, phone, name and metadata are off the  *)
(* user's row, also when the user was deleted, restored and edited between *)
(* the request, its selection and the purge; only a restore afterwards     *)
(* lets any back in.  The other kinds of data stay.                        *)
CompletedIsRedacted ==
  \A q \in Purge :
    purge[q] = "completed" /\ subject[q] \in User \ restored =>
      data[subject[q]] \cap Redacted = {}

(* A ripe request that is not cancelled is carried out, although replicas  *)
(* share the queue, purges fail and workers restart; at most the user is   *)
(* deleted first.                                                          *)
EventuallyErased ==
  \A q \in Purge : (purge[q] = "pending" /\ q \in ripe) ~> (purge[q] # "pending")

(* An export request is answered, ready or failed.                         *)
ExportsSettle == \A x \in Export : (export[x] = "pending") ~> (export[x] # "pending")

(* "Cancel a pending purge request (e.g. the subject changed their mind)": *)
(* a request confirmed as cancelled is never carried out.                  *)
CancelHonoured ==
  [][\A q \in Purge : purge[q] = "cancelled" => purge'[q] # "completed"]_vars

=============================================================================
