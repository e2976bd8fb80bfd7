------------------------------ MODULE Clients ------------------------------
(***************************************************************************)
(* The administration of OAuth clients and the check of their credentials  *)
(* (internal/federation/oidc/clients_admin.go, oidc.go).  The clients of   *)
(* one tenant; GrantTickets and OAuthTokens take theirs as given.          *)
(*                                                                         *)
(* Registering, patching, rotating the secret and deleting are             *)
(* transactions that end with the audit record.  The first statement takes *)
(* the row's lock (Begin), the commit writes row and record together, and  *)
(* the new secret is answered after it.  A review of a client with a       *)
(* machine grant is a statement of its own without a record.               *)
(***************************************************************************)
EXTENDS Naturals

CONSTANTS Client,  \* rows of auth.oidc_clients
          Secret,  \* secrets that may be drawn
          Request, \* handlers
          None     \* no row, no secret, nothing

VARIABLES
  client, \* the rows: None before, Gone after
  drawn,  \* secrets generated
  lock,   \* the transaction that holds a row's lock
  told,   \* the action of the last audit record of a client
  shown,  \* secrets answered to an administrator
  req     \* handlers at work

vars == <<client, drawn, lock, told, shown, req>>
rowVars == <<client, drawn, lock, told>>

(* machine: whether a machine grant (token exchange, client credentials)   *)
(* is among the grant types; uris stands for every other column.           *)
Row == [secret : Secret \cup {None}, machine : BOOLEAN, uris : BOOLEAN, reviewed : BOOLEAN]
Gone == [gone |-> TRUE]
Patch == [machine : BOOLEAN \cup {None}, uris : BOOLEAN \cup {None}]
Idle == [at |-> "idle"]

ClientsTypeOK ==
  /\ client \in [Client -> Row \cup {None, Gone}]
  /\ drawn \subseteq Secret
  /\ lock \in [Client -> Request \cup {None}]
  /\ told \in [Client -> {None, "registered", "updated", "rotated", "deleted"}]
  /\ shown \subseteq Secret
  /\ \A r \in Request : req[r].at \in {"idle", "write", "answer", "asked", "let in"}

ClientsInit ==
  /\ client = [c \in Client |-> None]
  /\ drawn = {}
  /\ lock = [c \in Client |-> None]
  /\ told = [c \in Client |-> None]
  /\ shown = {}
  /\ req = [r \in Request |-> Idle]

-----------------------------------------------------------------------------
Live(c) == client[c] \notin {None, Gone}
At(r, at) == req[r].at = at
Go(r, q) == req' = [req EXCEPT ![r] = q]

(* What a transaction will have made of the row and told the audit log.    *)
Write(c, row, action, secret) ==
  [at |-> "write", client |-> c, row |-> row, action |-> action, secret |-> secret]

(* The secret of a confidential client; a public one has none.             *)
NewSecret(confidential) ==
  IF confidential THEN Secret \ drawn ELSE {None}

(* RegisterClient: reviewed_at is NULL, whatever the grant types.          *)
RegisterClient(r, c, confidential, machine) ==
  \E s \in NewSecret(confidential) :
    /\ req[r] = Idle /\ client[c] = None /\ lock[c] = None
    /\ drawn' = drawn \cup ({s} \ {None})
    /\ lock' = [lock EXCEPT ![c] = r]
    /\ Go(r, Write(c, [secret |-> s, machine |-> machine, uris |-> FALSE,
                       reviewed |-> FALSE], "registered", s))
    /\ UNCHANGED <<client, told, shown>>

(* Mutant: the row's lock is not waited for, and the row is written whole. *)
LocksNothing(r, c) == req[r] = Idle /\ Live(c)

(* A statement for a row of the tenant, which waits for its lock.          *)
RowFree(r, c) == req[r] = Idle /\ Live(c) /\ lock[c] = None

(* COALESCE: what the patch leaves out stays, and so does reviewed_at.     *)
Coalesce(new, old) == IF new = None THEN old ELSE new

UpdateClient(r, c, patch) ==
  /\ RowFree(r, c)
  /\ lock' = [lock EXCEPT ![c] = r]
  /\ Go(r, Write(c, [client[c] EXCEPT !.machine = Coalesce(patch.machine, @),
                                      !.uris = Coalesce(patch.uris, @)], "updated", None))
  /\ UNCHANGED <<client, drawn, told, shown>>

DeleteClient(r, c) ==
  /\ RowFree(r, c)
  /\ lock' = [lock EXCEPT ![c] = r]
  /\ Go(r, Write(c, Gone, "deleted", None))
  /\ UNCHANGED <<client, drawn, told, shown>>

(* RotateClientSecret: of a confidential client.                           *)
RotateClientSecret(r, c) ==
  \E s \in NewSecret(TRUE) :
    /\ RowFree(r, c)
    /\ client[c].secret # None
    /\ drawn' = drawn \cup {s}
    /\ lock' = [lock EXCEPT ![c] = r]
    /\ Go(r, Write(c, [client[c] EXCEPT !.secret = s], "rotated", s))
    /\ UNCHANGED <<client, told, shown>>

Unlock(r) == lock' = [c \in Client |-> IF lock[c] = r THEN None ELSE lock[c]]

(* Mutant: the record is written in a transaction of its own.              *)
CommitUnrecorded(r) ==
  LET w == req[r] IN
  /\ At(r, "write")
  /\ client' = [client EXCEPT ![w.client] = w.row]
  /\ Unlock(r)
  /\ Go(r, Idle)
  /\ UNCHANGED <<drawn, told, shown>>

(* The audit record and the commit.                                        *)
Commit(r) ==
  LET w == req[r] IN
  /\ At(r, "write")
  /\ client' = [client EXCEPT ![w.client] = w.row]
  /\ told' = [told EXCEPT ![w.client] = w.action]
  /\ Unlock(r)
  /\ Go(r, IF w.secret = None THEN Idle ELSE [at |-> "answer", secret |-> w.secret])
  /\ UNCHANGED <<drawn, shown>>

(* The record cannot be written, or the commit fails: nothing happened.    *)
Rollback(r) ==
  /\ At(r, "write")
  /\ Unlock(r)
  /\ Go(r, Idle)
  /\ UNCHANGED <<client, drawn, told, shown>>

(* "secret shown once": the answer arrives or is lost.                     *)
Answer(r, arrives) ==
  /\ At(r, "answer")
  /\ shown' = IF arrives THEN shown \cup {req[r].secret} ELSE shown
  /\ Go(r, Idle)
  /\ UNCHANGED rowVars

(* ReviewShadowAIClient.                                                   *)
ReviewClient(c) ==
  /\ Live(c) /\ lock[c] = None
  /\ client' = [client EXCEPT ![c].reviewed = TRUE]
  /\ UNCHANGED <<drawn, lock, told, shown, req>>

-----------------------------------------------------------------------------
(* What authenticateClient asks of the row: a public client's secret is    *)
(* not looked at.                                                          *)
Accepts(c, s) == Live(c) /\ (client[c].secret = None \/ client[c].secret = s)

(* A request for the token endpoint's code, refresh and exchange grants,   *)
(* for revocation or introspection arrives; out: it came too late.         *)
Ask(r, c, s) ==
  /\ req[r] = Idle /\ client[c] # None
  /\ Go(r, [at |-> "asked", client |-> c, secret |-> s, out |-> ~Accepts(c, s)])
  /\ UNCHANGED <<rowVars, shown>>

(* authenticateClient: one read of the row and the comparison.             *)
AuthenticateClient(r) ==
  /\ At(r, "asked")
  /\ Go(r, IF Accepts(req[r].client, req[r].secret)
           THEN [req[r] EXCEPT !.at = "let in"] ELSE Idle)
  /\ UNCHANGED <<rowVars, shown>>

(* The grant is carried out.                                               *)
Serve(r) ==
  /\ At(r, "let in")
  /\ Go(r, Idle)
  /\ UNCHANGED <<rowVars, shown>>

-----------------------------------------------------------------------------
ClientsNext ==
  \E r \in Request, c \in Client :
    \/ \E conf, machine \in BOOLEAN : RegisterClient(r, c, conf, machine)
    \/ \E patch \in Patch : UpdateClient(r, c, patch)
    \/ DeleteClient(r, c) \/ RotateClientSecret(r, c)
    \/ Commit(r) \/ Rollback(r)
    \/ \E arrives \in BOOLEAN : Answer(r, arrives)
    \/ ReviewClient(c)
    \/ \E s \in shown \cup {None} : Ask(r, c, s)
    \/ AuthenticateClient(r) \/ Serve(r)

ClientsSpec == ClientsInit /\ [][ClientsNext]_vars

-----------------------------------------------------------------------------
(* Properties                                                              *)

(* A request that arrives after its client was deleted, or with a secret   *)
(* that was rotated away, is not let in, although patches of the client    *)
(* and further rotations may be under way.                                 *)
WithdrawnIsOut == \A r \in Request : At(r, "let in") => ~req[r].out

(* The audit log tells the state, whatever fails: a client is there if and *)
(* only if its last record is not of its deletion.                         *)
AuditTellsTheState ==
  \A c \in Client :
    /\ Live(c) <=> told[c] \notin {None, "deleted"}
    /\ client[c] = Gone <=> told[c] = "deleted"

=============================================================================
