---------------------------- MODULE SigningKeys ----------------------------
(***************************************************************************)
(* The keys access and ID tokens are signed with                           *)
(* (internal/platform/crypto/tokens/jwt.go) and their rotation while the   *)
(* processes run (rotateKey in internal/federation/oidc/clients_admin.go). *)
(*                                                                         *)
(* Every process has its own issuer: the active key and the map of keys it *)
(* verifies with.  No lock guards them: a rotation writes them one by one  *)
(* while other requests sign and verify.  The new private key exists in    *)
(* the memory of its process and in the answer to the operator, who has to *)
(* save it in the environment the processes start from.                    *)
(***************************************************************************)
EXTENDS Naturals

CONSTANTS Key,     \* signing keys; the kid is a digest of the public key
          Process, \* API processes
          Request  \* handlers

VARIABLES
  active,    \* Issuer.active of a process
  verifiers, \* Issuer.verifiers of a process: private or verify-only
  signing,   \* JWT_SIGNING_KEY, as the operator has saved it
  retired,   \* JWT_RETIRED_KEYS
  made,      \* keys generated
  answered,  \* keys answered to the operator and not saved yet
  saved,     \* history: keys that ever were in the environment
  lost,      \* history: keys of a process that stopped before they were saved
  token,     \* unexpired tokens
  req        \* handlers at work

vars == <<active, verifiers, signing, retired, made, answered, saved, lost, token, req>>
issuer == <<active, verifiers>>
env == <<signing, retired>>

(* A token names the key in its header and is signed with one; by: the     *)
(* process that signed it.                                                 *)
SignedToken == [kid : Key, signedWith : Key, by : Process]
Idle == [at |-> "idle"]

SigningTypeOK ==
  /\ active \in [Process -> Key]
  /\ verifiers \in [Process -> SUBSET Key]
  /\ signing \in Key
  /\ retired \cup made \cup answered \cup saved \cup lost \subseteq Key
  /\ token \subseteq SignedToken
  /\ req \in [Request ->
       {Idle} \cup [at : {"sign"}, process : Process, kid : Key]
         \cup [at : {"retire", "switch", "audit", "answer"}, process : Process,
               new : Key, old : Key]]

(* NewIssuer and AddRetiredKeysPEM, from the same environment everywhere.  *)
SigningInit ==
  \E k \in Key :
    /\ signing = k /\ retired = {}
    /\ active = [p \in Process |-> k]
    /\ verifiers = [p \in Process |-> {k}]
    /\ made = {k} /\ saved = {k} /\ answered = {} /\ lost = {} /\ token = {}
    /\ req = [r \in Request |-> Idle]

-----------------------------------------------------------------------------
At(r, at) == req[r].at = at
Go(r, q) == req' = [req EXCEPT ![r] = q]

(* Sign reads the active key for the header,                               *)
SignHeader(r, p) ==
  /\ req[r] = Idle
  /\ Go(r, [at |-> "sign", process |-> p, kid |-> active[p]])
  /\ UNCHANGED <<issuer, env, made, answered, saved, lost, token>>

(* ... and again for the signature.                                        *)
Sign(r) ==
  /\ At(r, "sign")
  /\ LET p == req[r].process IN
     token' = token \cup {[kid |-> req[r].kid, signedWith |-> active[p], by |-> p]}
  /\ Go(r, Idle)
  /\ UNCHANGED <<issuer, env, made, answered, saved, lost>>

Expire(x) ==
  /\ x \in token
  /\ token' = token \ {x}
  /\ UNCHANGED <<issuer, env, made, answered, saved, lost, req>>

(* VerifyAccess and VerifyVC: keyFunc finds the key the header names.      *)
Verifies(p, x) == x.kid \in verifiers[p] /\ x.kid = x.signedWith

(* Rotate: a new key, the old active key read,                             *)
GenerateKey(r, p) ==
  \E k \in Key \ made :
    /\ req[r] = Idle
    /\ made' = made \cup {k}
    /\ Go(r, [at |-> "retire", process |-> p, new |-> k, old |-> active[p]])
    /\ UNCHANGED <<issuer, env, answered, saved, lost, token>>

(* Mutant: the map is made anew.                                           *)
OnlyNew(known, old, new) == {new}

(* The old key stays to verify with.                                       *)
WithRetired(known, old, new) == known \cup {old, new}

(* ... then the entries of the map,                                        *)
RetireKey(r) ==
  LET q == req[r] IN
  /\ At(r, "retire")
  /\ verifiers' = [verifiers EXCEPT ![q.process] = WithRetired(@, q.old, q.new)]
  /\ Go(r, [q EXCEPT !.at = "switch"])
  /\ UNCHANGED <<active, env, made, answered, saved, lost, token>>

(* ... and the active key.                                                 *)
Rotate(r) ==
  LET q == req[r] IN
  /\ At(r, "switch")
  /\ active' = [active EXCEPT ![q.process] = q.new]
  /\ Go(r, [q EXCEPT !.at = "audit"])
  /\ UNCHANGED <<verifiers, env, made, answered, saved, lost, token>>

(* rotateKey: the audit record, and no answer without it, although the key *)
(* is in use.                                                              *)
RecordRotation(r, ok) ==
  /\ At(r, "audit")
  /\ Go(r, IF ok THEN [req[r] EXCEPT !.at = "answer"] ELSE Idle)
  /\ UNCHANGED <<issuer, env, made, answered, saved, lost, token>>

Answer(r, arrives) ==
  /\ At(r, "answer")
  /\ answered' = IF arrives THEN answered \cup {req[r].new} ELSE answered
  /\ Go(r, Idle)
  /\ UNCHANGED <<issuer, env, made, saved, lost, token>>

-----------------------------------------------------------------------------
(* The operator saves the key and retires the one before it,               *)
SaveKey(k) ==
  /\ k \in answered
  /\ answered' = answered \ {k}
  /\ signing' = k
  /\ retired' = retired \cup {signing}
  /\ saved' = saved \cup {k}
  /\ UNCHANGED <<issuer, made, lost, token, req>>

(* ... and drops it when its last token has expired and every process has  *)
(* started again.                                                          *)
DropRetired(k) ==
  /\ k \in retired
  /\ \A x \in token : x.kid # k
  /\ \A p \in Process : active[p] # k
  /\ \A r \in Request : At(r, "sign") => req[r].kid # k
  /\ retired' = retired \ {k}
  /\ UNCHANGED <<issuer, signing, made, answered, saved, lost, token, req>>

(* A process stops, at any time, and starts from the environment.          *)
Restart(p) ==
  /\ active' = [active EXCEPT ![p] = signing]
  /\ verifiers' = [verifiers EXCEPT ![p] = {signing} \cup retired]
  /\ lost' = lost \cup (verifiers[p] \ saved)
  /\ req' = [r \in Request |->
       IF req[r] # Idle /\ req[r].process = p THEN Idle ELSE req[r]]
  /\ UNCHANGED <<env, made, answered, saved, token>>

-----------------------------------------------------------------------------
SigningNext ==
  \/ \E p \in Process : Restart(p)
  \/ \E k \in Key : SaveKey(k) \/ DropRetired(k)
  \/ \E x \in token : Expire(x)
  \/ \E r \in Request :
       \/ \E p \in Process : SignHeader(r, p) \/ GenerateKey(r, p)
       \/ Sign(r) \/ RetireKey(r) \/ Rotate(r)
       \/ \E ok \in BOOLEAN : RecordRotation(r, ok) \/ Answer(r, ok)

SigningSpec == SigningInit /\ [][SigningNext]_vars

-----------------------------------------------------------------------------
(* Properties                                                              *)

(* "tokens it signed remain verifiable": a token that names the key it is  *)
(* signed with verifies where it was issued for as long as it lives,       *)
(* through overlapping rotations and restarts, if no process stopped with  *)
(* that key unsaved.  A token signed while the active key changed names    *)
(* another key, and verifies nowhere.                                      *)
RotationKeepsTokens ==
  \A x \in token :
    x.kid = x.signedWith /\ x.kid \notin lost => Verifies(x.by, x)

=============================================================================
