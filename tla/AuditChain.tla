----------------------------- MODULE AuditChain -----------------------------
(***************************************************************************)
(* The hash-chained audit log (internal/operations/audit) and the          *)
(* scheduler's integrity job (cmd/scheduler).                              *)
(*                                                                         *)
(* A business transaction calls Record before it commits.  Record takes an *)
(* advisory lock on the chain, held until the transaction ends, reads the  *)
(* hash at the tip and inserts a row linked to it; the row is visible to   *)
(* others from the commit on.  SHA-256 over the canonical row is taken to  *)
(* be injective, so a hash is the tuple of what was hashed.                *)
(*                                                                         *)
(* The caller's address is hashed as it was given, whatever X-Forwarded-For*)
(* says, and stored as an inet; Verify hashes what host() writes for it.   *)
(* created_at comes from the clock of the replica that records.            *)
(***************************************************************************)
EXTENDS Naturals, FiniteSets

CONSTANTS Tx,        \* business transactions that write audit rows
          Chain,     \* tenants with a chain, and the platform chain
          Platform,  \* the chain of the rows without a tenant
          Body,      \* the fields of a row that only matter by their value
          Spelling,  \* the ways one address is written
          Plain,     \* the way host(ip) writes it
          None,
          MaxRows,   \* how many rows are ever recorded
          MaxSkew,   \* how far an API replica's clock may run ahead
          MaxTamper  \* how many rows are altered behind the program's back

ASSUME AuditAssumption ==
  /\ Platform \in Chain
  /\ Plain \in Spelling
  /\ None \notin Tx \cup Chain
  /\ MaxRows \in Nat /\ MaxSkew \in Nat /\ MaxTamper \in Nat

VARIABLES
  rows,    \* the committed rows of each chain
  pend,    \* the rows a transaction inserted and has not committed
  holds,   \* the chain whose advisory lock a transaction holds
  clock,   \* real time, in round trips to the database
  tampers, \* history: alterations so far
  tamper,  \* history: what was done to a chain: "none", "interior", "tail"
  alarm    \* the scheduler logged an integrity failure

auditVars == <<rows, pend, holds, clock, tampers, tamper, alarm>>

(* chainSeed, and hashHex of canonicalize.                                 *)
Seed == <<>>
HashOf(id, at, body, spelling, prev) == <<id, at, body, spelling, prev>>

(* What a caller gave for the address of a row; only its hash tells.       *)
Spelled(r) == r.hash[4]

(* ORDER BY created_at, id.  An id is random in the code: here ids count   *)
(* the inserts, and the properties ask nothing of rows of one created_at.  *)
Before(a, b) == a.at < b.at \/ (a.at = b.at /\ a.id < b.id)
Earlier(R, r) == {x \in R : Before(x, r)}

(* GetAuditChainTip, with the seed when there is no row.                   *)
Tip(R) == CHOOSE r \in R : \A x \in R : x = r \/ Before(x, r)
TipHash(R) == IF R = {} THEN Seed ELSE Tip(R).hash

(* Verifier.Verify: no row of its ordered walk fails a check.              *)
Intact(R, r) ==
  /\ r.prev = TipHash(Earlier(R, r))
  /\ r.hash = HashOf(r.id, r.at, r.body, Plain, r.prev)

(* Mutant: only the links are compared, no hash is computed again.         *)
VerifyLinksOnly(c) ==
  \A r \in rows[c] : r.prev = TipHash(Earlier(rows[c], r))

Verify(c) == \A r \in rows[c] : Intact(rows[c], r)

(* A transaction writes one chain and sees its own rows.                   *)
Visible(t, c) == rows[c] \cup pend[t]

TypeOK ==
  /\ \A c \in Chain : \A r \in rows[c] : r.at \in Nat /\ r.id \in 1..MaxRows
  /\ \A t \in Tx : \A r \in pend[t] : r.at \in Nat /\ r.id \in 1..MaxRows
  /\ holds \in [Tx -> Chain \cup {None}]
  /\ clock \in 0..MaxRows
  /\ tampers \in 0..MaxTamper
  /\ tamper \in [Chain -> {"none", "interior", "tail"}]
  /\ alarm \in BOOLEAN

AuditInit ==
  /\ rows = [c \in Chain |-> {}]
  /\ pend = [t \in Tx |-> {}]
  /\ holds = [t \in Tx |-> None]
  /\ clock = 0
  /\ tampers = 0
  /\ tamper = [c \in Chain |-> "none"]
  /\ alarm = FALSE

(* Mutant: no advisory lock is waited for.                                 *)
LockChainWithoutWaiting(t, c) ==
  /\ holds[t] = None
  /\ holds' = [holds EXCEPT ![t] = c]
  /\ UNCHANGED <<rows, pend, clock, tampers, tamper, alarm>>

(* Record: pg_advisory_xact_lock.                                          *)
LockChain(t, c) ==
  /\ holds[t] = None
  /\ \A x \in Tx : holds[x] # c
  /\ holds' = [holds EXCEPT ![t] = c]
  /\ UNCHANGED <<rows, pend, clock, tampers, tamper, alarm>>

(* Record: the tip, the replica's clock, the insert.  A transaction may    *)
(* record several rows.  An address ::inet refuses fails the statement and *)
(* with it the transaction, which is a Rollback.                           *)
Record(t, c, body, spelling, skew) ==
  LET id == clock + 1
      at == id + skew
      prev == TipHash(Visible(t, c))
  IN /\ holds[t] = c
     /\ clock < MaxRows
     /\ clock' = id
     /\ pend' = [pend EXCEPT ![t] = @ \cup
          {[id |-> id, at |-> at, body |-> body, prev |-> prev,
            hash |-> HashOf(id, at, body, spelling, prev)]}]
     /\ UNCHANGED <<rows, holds, tampers, tamper, alarm>>

(* The business transaction ends; its advisory lock goes with it.          *)
Commit(t, c) ==
  /\ holds[t] = c
  /\ rows' = [rows EXCEPT ![c] = @ \cup pend[t]]
  /\ pend' = [pend EXCEPT ![t] = {}]
  /\ holds' = [holds EXCEPT ![t] = None]
  /\ UNCHANGED <<clock, tampers, tamper, alarm>>

Rollback(t, c) ==
  /\ holds[t] = c
  /\ pend' = [pend EXCEPT ![t] = {}]
  /\ holds' = [holds EXCEPT ![t] = None]
  /\ UNCHANGED <<rows, clock, tampers, tamper, alarm>>

(* Somebody writes to audit.events outside the program: an edited column,  *)
(* two rows whose created_at are exchanged, a deleted row.                 *)
Altered(c, R, how) ==
  /\ tampers < MaxTamper
  /\ tampers' = tampers + 1
  /\ rows' = [rows EXCEPT ![c] = R]
  /\ tamper' = [tamper EXCEPT ![c] = IF @ = "none" THEN how ELSE @]
  /\ UNCHANGED <<pend, holds, clock, alarm>>

EditRow(c, r, body) ==
  /\ r.body # body
  /\ Altered(c, (rows[c] \ {r}) \cup {[r EXCEPT !.body = body]}, "interior")

ReorderRows(c, a, b) ==
  /\ a.at # b.at
  /\ Altered(c, (rows[c] \ {a, b}) \cup {[a EXCEPT !.at = b.at], [b EXCEPT !.at = a.at]},
             "interior")

DeleteRow(c, r) ==
  Altered(c, rows[c] \ {r},
          IF \E x \in rows[c] : x.prev = r.hash THEN "interior" ELSE "tail")

(* The audit-chain-verify job: Verify(ctx, nil), under the job's lock.     *)
ScheduledVerify ==
  /\ alarm' = (alarm \/ ~Verify(Platform))
  /\ UNCHANGED <<rows, pend, holds, clock, tampers, tamper>>

AuditNext ==
  \/ \E t \in Tx, c \in Chain : LockChain(t, c)
  \/ \E t \in Tx, c \in Chain, b \in Body, s \in Spelling, skew \in 0..MaxSkew :
       Record(t, c, b, s, skew)
  \/ \E t \in Tx, c \in Chain : Commit(t, c)
  \/ \E t \in Tx, c \in Chain : Rollback(t, c)
  \/ \E c \in Chain : \E r \in rows[c], b \in Body : EditRow(c, r, b)
  \/ \E c \in Chain : \E a, b \in rows[c] : ReorderRows(c, a, b)
  \/ \E c \in Chain : \E r \in rows[c] : DeleteRow(c, r)
  \/ ScheduledVerify

AuditSpec == AuditInit /\ [][AuditNext]_auditVars

(* The scheduler's ticker fires for ever.                                  *)
AuditFairSpec == AuditSpec /\ WF_auditVars(ScheduledVerify)

-----------------------------------------------------------------------------
(* Properties                                                              *)

(* The rows were stamped in the order of their inserts ...                 *)
InOrder(R) == \A x, y \in R : x.id < y.id => x.at < y.at

(* ... and their addresses given the way host() writes them.               *)
AsGiven(R) == \A r \in R : Spelled(r) = Plain

(* A chain nobody altered verifies at every moment, whatever transactions  *)
(* record, commit and roll back side by side: the lock of Record is held   *)
(* from the reading of the tip to the commit.  It takes clocks that did    *)
(* not put a row before its predecessor, and addresses that host() leaves  *)
(* as they are.                                                            *)
UntouchedChainVerifies ==
  \A c \in Chain : tamper[c] = "none" /\ InOrder(rows[c]) /\ AsGiven(rows[c]) => Verify(c)

(* An edit, an exchange or the deletion of a row that another is linked to *)
(* is found by Verify, and rows recorded afterwards never hide it, however *)
(* the clocks differ.                                                      *)
InteriorTamperDetected ==
  tampers <= 1 => \A c \in Chain : tamper[c] = "interior" => ~Verify(c)

(* The comment at the job's call of Verify: it covers all tenants.         *)
TamperAlarms == \A c \in Chain : (tamper[c] = "interior") ~> alarm

=============================================================================
