------------------------------ MODULE ScimUsers ------------------------------
(***************************************************************************)
(* SCIM provisioning of users: what an identity provider's calls do to the *)
(* accounts, beside the administrators who delete and restore them.  A     *)
(* call is a few statements without a transaction, so calls of one user    *)
(* overlap and a call may stop half way; the provider repeats what it got  *)
(* no answer to.                                                           *)
(***************************************************************************)
EXTENDS Naturals, FiniteSets

CONSTANTS User, Addr,
          Tenant,     \* of the bearer tokens
          Request,
          MaxLives,   \* how often one row is restored, plus one
          None

VARIABLES
  row,     \* "user".users, None before the insert
  req,     \* what each call is doing
  lives,   \* history: how often each row was live
  ended,   \* history: how often a DELETE of it was answered 204
  told     \* history: the rows a POST was answered 201 with

vars == <<row, req, lives, ended, told>>

Row == [addr : Addr, home : Tenant, status : {"active", "suspended"}, live : BOOLEAN, scim : BOOLEAN]
Idle == [at |-> "idle"]

ScimInit ==
  /\ row = [u \in User |-> None]
  /\ req = [r \in Request |-> Idle]
  /\ lives = [u \in User |-> 0]
  /\ ended = [u \in User |-> 0]
  /\ told = {}

ScimTypeOK ==
  /\ row \in [User -> Row \cup {None}]
  /\ \A r \in Request : req[r].at \in {"idle", "tag", "suspend", "reload", "delete"}
  /\ lives \in [User -> 0 .. MaxLives]
  /\ ended \in [User -> Nat]
  /\ told \subseteq User

Live(u) == row[u] # None /\ row[u].live
Taken(a) == \E u \in User : Live(u) /\ row[u].addr = a
Becomes(r, w) == req' = [req EXCEPT ![r] = w]

(* The lookup of a user in the token's tenant, whoever provisioned it.     *)
GetProvisioned(t, u) == Live(u) /\ row[u].home = t

-----------------------------------------------------------------------------
(* POST /Users: the account, the mark that it is provisioned, its status   *)
(* (whose failure is ignored), and the row for the answer.                 *)
CreateWithCredential(r, t, u, a, active) ==
  /\ req[r] = Idle
  /\ row[u] = None /\ ~Taken(a)
  /\ row' = [row EXCEPT ![u] = [addr |-> a, home |-> t, status |-> "active", live |-> TRUE, scim |-> FALSE]]
  /\ lives' = [lives EXCEPT ![u] = 1]
  /\ Becomes(r, [at |-> "tag", user |-> u, tenant |-> t, active |-> active])
  /\ UNCHANGED <<ended, told>>

TagProvisioned(r) ==
  /\ req[r].at = "tag"
  /\ row' = [row EXCEPT ![req[r].user].scim = TRUE]
  /\ Becomes(r, [at |-> IF req[r].active THEN "reload" ELSE "suspend",
                 user |-> req[r].user, tenant |-> req[r].tenant, post |-> TRUE])
  /\ UNCHANGED <<lives, ended, told>>

CreateSuspended(r, works) ==
  /\ req[r].at = "suspend"
  /\ row' = IF works /\ Live(req[r].user)
            THEN [row EXCEPT ![req[r].user].status = "suspended"] ELSE row
  /\ Becomes(r, [req[r] EXCEPT !.at = "reload"])
  /\ UNCHANGED <<lives, ended, told>>

(* PUT and PATCH write the live row with the id first, then look it up in  *)
(* the tenant; without anything to set the write is a read.                *)
UpdateUser(r, t, u, status) ==
  /\ req[r] = Idle
  /\ Live(u)
  /\ row' = IF status = None THEN row ELSE [row EXCEPT ![u].status = status]
  /\ Becomes(r, [at |-> "reload", user |-> u, tenant |-> t, post |-> FALSE])
  /\ UNCHANGED <<lives, ended, told>>

Reload(r) ==
  /\ req[r].at = "reload"
  /\ GetProvisioned(req[r].tenant, req[r].user)
  /\ told' = IF req[r].post THEN told \cup {req[r].user} ELSE told
  /\ Becomes(r, Idle)
  /\ UNCHANGED <<row, lives, ended>>

(* DELETE /Users/{id}: looked up first, then marked deleted if it is not.  *)
StartDelete(r, t, u) ==
  /\ req[r] = Idle
  /\ GetProvisioned(t, u)
  /\ Becomes(r, [at |-> "delete", user |-> u])
  /\ UNCHANGED <<row, lives, ended, told>>

(* Mutant: the update does not ask whether the row is deleted.             *)
AnyRow(u) == row[u] # None
Deletable(u) == Live(u)

SoftDelete(r) ==
  /\ req[r].at = "delete" /\ Deletable(req[r].user)
  /\ row' = [row EXCEPT ![req[r].user].live = FALSE]
  /\ ended' = [ended EXCEPT ![req[r].user] = @ + 1]
  /\ Becomes(r, Idle)
  /\ UNCHANGED <<lives, told>>

(* A failed statement, a row that is gone, a client that gave up.          *)
Fails(r) ==
  /\ req[r] # Idle
  /\ Becomes(r, Idle)
  /\ UNCHANGED <<row, lives, ended, told>>

(* Administrators.                                                         *)
AdminDelete(u) ==
  /\ Live(u)
  /\ row' = [row EXCEPT ![u].live = FALSE]
  /\ UNCHANGED <<req, lives, ended, told>>

AdminRestore(u) ==
  /\ row[u] # None /\ ~row[u].live /\ ~Taken(row[u].addr)
  /\ lives[u] < MaxLives
  /\ row' = [row EXCEPT ![u].live = TRUE]
  /\ lives' = [lives EXCEPT ![u] = @ + 1]
  /\ UNCHANGED <<req, ended, told>>

ScimNext ==
  \/ \E r \in Request, t \in Tenant, u \in User :
       \/ \E a \in Addr, active \in BOOLEAN : CreateWithCredential(r, t, u, a, active)
       \/ \E status \in {"active", "suspended", None} : UpdateUser(r, t, u, status)
       \/ StartDelete(r, t, u)
  \/ \E r \in Request : TagProvisioned(r) \/ Reload(r) \/ SoftDelete(r) \/ Fails(r)
                        \/ \E works \in BOOLEAN : CreateSuspended(r, works)
  \/ \E u \in User : AdminDelete(u) \/ AdminRestore(u)

-----------------------------------------------------------------------------
(* scim.go: an identity provider repeats a call whose answer it lost.      *)
(* Whatever overlaps, an address has one live account, an account a POST   *)
(* was answered with carries the mark SCIM finds it by, and a DELETE is    *)
(* answered 204 once for each time the account was live.                   *)
RepeatedCallsAreSafe ==
  /\ \A u, w \in User : Live(u) /\ Live(w) /\ row[u].addr = row[w].addr => u = w
  /\ \A u \in told : row[u].scim
  /\ \A u \in User : ended[u] <= lives[u]
=============================================================================
