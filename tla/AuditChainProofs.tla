--------------------------- MODULE AuditChainProofs ---------------------------
(***************************************************************************)
(* Proofs about AuditChain and SiemForwarder, for any number of            *)
(* transactions, chains, rows, sinks and replicas, and for replicas whose  *)
(* clocks differ by any MaxSkew.                                           *)
(***************************************************************************)
EXTENDS SiemForwarder, FiniteSetTheorems, WellFoundedInduction, TLAPS

Verified(R) == \A r \in R : Intact(R, r)
Distinct(R) == \A x, y \in R : x.id = y.id => x = y

(* The rows as they were inserted, each linked to the one before it.       *)
Below(R, r) == {x \in R : x.id < r.id}
Linked(R) ==
  \A r \in R : /\ r.prev = TipHash(Below(R, r))
               /\ r.hash = HashOf(r.id, r.at, r.body, Spelled(r), r.prev)

IsRow(r) == r = [id |-> r.id, at |-> r.at, body |-> r.body, prev |-> r.prev, hash |-> r.hash]

(* A hash still names the insert it was made for, even of an altered row.  *)
Named(r) == r.hash[1] = r.id /\ r.hash # Seed
Dated(r) == IsRow(r) /\ r.at \in Nat /\ r.id \in Nat /\ Named(r)

LEMMA HashParts ==
  ASSUME NEW id, NEW at, NEW body, NEW s, NEW prev
  PROVE  /\ HashOf(id, at, body, s, prev) # Seed
         /\ HashOf(id, at, body, s, prev)[1] = id
         /\ HashOf(id, at, body, s, prev)[2] = at
         /\ HashOf(id, at, body, s, prev)[3] = body
         /\ HashOf(id, at, body, s, prev)[4] = s
BY DEF HashOf, Seed

-----------------------------------------------------------------------------
(* Rows.                                                                   *)

LEMMA LeastNumber ==
  ASSUME NEW T, T \subseteq Nat, T # {}
  PROVE  \E n \in T : \A m \in T : n <= m
<1>1. PICK n \in T : \A m \in T : <<m, n>> \notin OpToRel(<, Nat)
  BY WFMin, NatLessThanWellFounded, Zenon
<1>2. ASSUME NEW m \in T PROVE n <= m
  <2>1. <<m, n>> \in Nat \X Nat
    OBVIOUS
  <2>2. ~(m < n)
    BY <1>1, <2>1, Zenon DEF OpToRel
  <2> QED BY <2>2
<1> QED BY <1>2

LEMMA GreatestNumber ==
  ASSUME NEW T, T \subseteq Nat, T # {}, NEW n \in Nat, \A k \in T : k <= n
  PROVE  \E m \in T : \A k \in T : k <= m
<1> DEFINE U == {n - k : k \in T}
<1>1. U \subseteq Nat /\ U # {}
  <2>1. ASSUME NEW k \in T PROVE n - k \in Nat
    OBVIOUS
  <2> QED BY <2>1
<1>2. PICK d \in U : \A u \in U : d <= u
  BY <1>1, LeastNumber
<1>3. PICK m \in T : d = n - m
  BY <1>2
<1>4. ASSUME NEW k \in T PROVE k <= m
  <2>1. n - m <= n - k
    BY <1>2, <1>3
  <2> QED BY <2>1
<1> QED BY <1>4

(* Of distinct rows the tip is the latest.                                 *)
LEMMA TipIsLast ==
  ASSUME NEW R, R # {}, NEW n \in Nat, NEW m \in Nat, Distinct(R),
         \A r \in R : r.at \in Nat /\ r.at <= n /\ r.id \in Nat /\ r.id <= m
  PROVE  Tip(R) \in R /\ \A x \in R : x = Tip(R) \/ Before(x, Tip(R))
<1> DEFINE T == {r.at : r \in R}
<1>1. PICK a \in T : \A k \in T : k <= a
  <2>1. T \subseteq Nat /\ T # {} /\ \A k \in T : k <= n
    OBVIOUS
  <2> QED BY <2>1, GreatestNumber
<1> DEFINE S == {r \in R : r.at = a}
           U == {r.id : r \in S}
<1>2. PICK i \in U : \A k \in U : k <= i
  <2>1. U \subseteq Nat /\ U # {} /\ \A k \in U : k <= m
    OBVIOUS
  <2> QED BY <2>1, GreatestNumber
<1>3. PICK r \in R : r.at = a /\ r.id = i
  BY <1>2
<1>4. \A x \in R : x.at <= a
  BY <1>1
<1>5. ASSUME NEW x \in R, x # r PROVE Before(x, r)
  <2>1. CASE x.at = a
    <3>1. x.id <= i /\ x.id # r.id
      BY <1>2, <1>3, <1>5, <2>1 DEF Distinct
    <3> QED BY <1>3, <2>1, <3>1 DEF Before
  <2>2. CASE x.at # a
    <3>1. x.at <= a /\ x.at \in Nat /\ a \in Nat
      BY <1>3, <1>4
    <3>2. x.at < a
      BY <2>2, <3>1
    <3> QED BY <1>3, <3>2 DEF Before
  <2> QED BY <2>1, <2>2
<1> QED BY <1>5 DEF Tip

(* Stamped in the order of their inserts, and as host() would write them,  *)
(* linked rows verify.                                                     *)
LEMMA InOrderVerifies ==
  ASSUME NEW R, Linked(R), InOrder(R), AsGiven(R), Distinct(R),
         \A r \in R : r.at \in Nat /\ r.id \in Nat
  PROVE  Verified(R)
<1>1. ASSUME NEW r \in R PROVE Earlier(R, r) = Below(R, r)
  <2>1. ASSUME NEW x \in R, Before(x, r) PROVE x.id < r.id
    <3>1. CASE x.id = r.id
      <4>1. x = r
        BY <3>1 DEF Distinct
      <4> QED BY <2>1, <4>1 DEF Before
    <3>2. CASE r.id < x.id
      <4>1. r.at < x.at
        BY <3>2 DEF InOrder
      <4> QED BY <2>1, <4>1 DEF Before
    <3> QED BY <3>1, <3>2
  <2>2. ASSUME NEW x \in R, x.id < r.id PROVE Before(x, r)
    BY <2>2 DEF InOrder, Before
  <2> QED BY <2>1, <2>2 DEF Earlier, Below
<1> QED BY <1>1 DEF Verified, Intact, Linked, AsGiven

(* A later insert linked to the tip keeps the rows linked.                 *)
LEMMA AppendLinked ==
  ASSUME NEW R, NEW n, Linked(R), n.id \in Nat, \A r \in R : r.id \in Nat /\ r.id < n.id,
         n.prev = TipHash(R),
         n.hash = HashOf(n.id, n.at, n.body, Spelled(n), n.prev)
  PROVE  Linked(R \cup {n})
<1>1. ASSUME NEW r \in R PROVE Below(R \cup {n}, r) = Below(R, r)
  BY DEF Below
<1>2. Below(R \cup {n}, n) = R
  BY DEF Below
<1> QED BY <1>1, <1>2 DEF Linked

(* A row whose body or time is no longer the hashed one.                   *)
Rewritten(r) == r.body # r.hash[3] \/ r.at # r.hash[2]

LEMMA RewrittenFails ==
  ASSUME NEW R, NEW r \in R, Rewritten(r)
  PROVE  ~Verified(R)
<1>1. r.hash # HashOf(r.id, r.at, r.body, Plain, r.prev)
  BY HashParts DEF Rewritten
<1> QED BY <1>1 DEF Verified, Intact

(* A row that is linked to an insert which is not in the chain.            *)
LEMMA OrphanFails ==
  ASSUME NEW R, NEW r \in R, NEW n \in Nat, NEW m \in Nat, Distinct(R),
         r.prev # Seed, \A x \in R : x.id # r.prev[1],
         \A x \in R : Dated(x) /\ x.at <= n /\ x.id <= m
  PROVE  ~Verified(R)
<1> DEFINE E == Earlier(R, r)
<1>1. E \subseteq R
  BY DEF Earlier
<1>2. TipHash(E) # r.prev
  <2>1. CASE E = {}
    BY <2>1 DEF TipHash
  <2>2. CASE E # {}
    <3>1. Distinct(E) /\ \A x \in E : x.at \in Nat /\ x.at <= n /\ x.id \in Nat /\ x.id <= m
      BY <1>1 DEF Distinct, Dated
    <3> HIDE DEF E
    <3>2. Tip(E) \in E
      BY <2>2, <3>1, TipIsLast
    <3>3. PICK y \in R : y = Tip(E)
      BY <1>1, <3>2
    <3>4. y.hash[1] = y.id /\ y.id # r.prev[1]
      BY DEF Dated, Named
    <3> QED BY <2>2, <3>3, <3>4 DEF TipHash
  <2> QED BY <2>1, <2>2
<1> QED BY <1>2 DEF Verified, Intact

-----------------------------------------------------------------------------
(* The chains.                                                             *)

FunctionInv ==
  /\ rows = [c \in Chain |-> rows[c]]
  /\ pend = [t \in Tx |-> pend[t]]
  /\ holds \in [Tx -> Chain \cup {None}]
  /\ tamper \in [Chain -> {"none", "interior", "tail"}]
  /\ clock \in Nat
  /\ tampers \in Nat

(* One transaction at a time holds a chain, and only a holder has rows     *)
(* waiting for its commit.                                                 *)
HolderInv ==
  /\ \A t, x \in Tx : holds[t] # None /\ holds[t] = holds[x] => t = x
  /\ \A t \in Tx : holds[t] = None => pend[t] = {}

(* An insert has been, and its row is not from further ahead than a clock  *)
(* can be.                                                                 *)
Inserted(r) == Dated(r) /\ r.id <= clock /\ r.at <= clock + MaxSkew

StampInv ==
  /\ \A c \in Chain : \A r \in rows[c] : Inserted(r)
  /\ \A t \in Tx : \A r \in pend[t] : Inserted(r)

(* One insert, one row; and the rows waiting for a commit were inserted    *)
(* after the committed ones ...                                            *)
OrderInv ==
  /\ \A c \in Chain : Distinct(rows[c])
  /\ \A t \in Tx : Distinct(pend[t])
  /\ \A t \in Tx, c \in Chain : holds[t] = c => \A r \in rows[c], p \in pend[t] : r.id < p.id

(* ... and the two together are a chain.                                   *)
ExtendInv ==
  \A t \in Tx, c \in Chain : holds[t] = c /\ tamper[c] = "none" => Linked(rows[c] \cup pend[t])

LinkedInv == \A c \in Chain : tamper[c] = "none" => Linked(rows[c])

TamperInv == tampers = 0 => \A c \in Chain : tamper[c] = "none"

IInv == /\ FunctionInv
        /\ HolderInv
        /\ StampInv
        /\ OrderInv
        /\ ExtendInv
        /\ LinkedInv
        /\ TamperInv

(* What an alteration leaves for ever: a row that no longer is what was    *)
(* hashed, or one linked to an insert that is gone and cannot come back.   *)
Orphan(c, r) ==
  /\ r.prev # Seed /\ r.prev[1] \in Nat /\ r.prev[1] <= clock
  /\ \A x \in rows[c] : x.id # r.prev[1]
  /\ \A t \in Tx : holds[t] = c => \A x \in pend[t] : x.id # r.prev[1]

BrokenInv ==
  tampers <= 1 => \A c \in Chain : tamper[c] = "interior" =>
    \E r \in rows[c] : Rewritten(r) \/ Orphan(c, r)

LEMMA LinkedIsVerified == IInv => UntouchedChainVerifies
<1> SUFFICES ASSUME IInv, NEW c \in Chain, tamper[c] = "none",
                    InOrder(rows[c]), AsGiven(rows[c])
             PROVE  Verify(c)
  BY DEF UntouchedChainVerifies
<1>1. Linked(rows[c]) /\ Distinct(rows[c]) /\ \A r \in rows[c] : r.at \in Nat /\ r.id \in Nat
  BY DEF IInv, LinkedInv, OrderInv, StampInv, Inserted, Dated
<1>2. Verified(rows[c])
  BY <1>1, InOrderVerifies
<1> QED BY <1>2 DEF Verified, Verify

LEMMA BrokenIsDetected == IInv /\ BrokenInv => InteriorTamperDetected
<1> SUFFICES ASSUME IInv, BrokenInv, tampers <= 1, NEW c \in Chain, tamper[c] = "interior"
             PROVE  ~Verify(c)
  BY DEF InteriorTamperDetected
<1>1. PICK r \in rows[c] : Rewritten(r) \/ Orphan(c, r)
  BY DEF BrokenInv
<1>2. ~Verified(rows[c])
  <2>1. CASE Rewritten(r)
    BY <2>1, RewrittenFails
  <2>2. CASE Orphan(c, r)
    <3>1. /\ clock \in Nat /\ clock + MaxSkew \in Nat
          /\ Distinct(rows[c])
          /\ \A x \in rows[c] : Dated(x) /\ x.at <= clock + MaxSkew /\ x.id <= clock
      BY AuditAssumption DEF IInv, FunctionInv, OrderInv, StampInv, Inserted
    <3>2. r.prev # Seed /\ \A x \in rows[c] : x.id # r.prev[1]
      BY <2>2 DEF Orphan
    <3> QED BY <3>1, <3>2, OrphanFails
  <2> QED BY <1>1, <2>1, <2>2
<1> QED BY <1>2 DEF Verified, Verify

-----------------------------------------------------------------------------
(* Steps of the program.                                                   *)

LEMMA InitIInv == AuditInit => IInv /\ BrokenInv
<1> SUFFICES ASSUME AuditInit PROVE IInv /\ BrokenInv
  OBVIOUS
<1>1. FunctionInv /\ HolderInv /\ StampInv /\ TamperInv
  BY AuditAssumption DEF AuditInit, FunctionInv, HolderInv, StampInv, TamperInv
<1>2. OrderInv /\ ExtendInv /\ LinkedInv /\ BrokenInv
  BY AuditAssumption DEF AuditInit, OrderInv, ExtendInv, LinkedInv, BrokenInv,
     Linked, Distinct
<1> QED BY <1>1, <1>2 DEF IInv

LEMMA QuietPreserves ==
  ASSUME IInv, UNCHANGED <<rows, pend, holds, clock, tampers, tamper>>
  PROVE  IInv' /\ (BrokenInv => BrokenInv')
<1>1. FunctionInv' /\ HolderInv' /\ TamperInv'
  BY DEF IInv, FunctionInv, HolderInv, TamperInv
<1>2. StampInv'
  BY DEF IInv, StampInv, Inserted, Dated, IsRow, Named
<1>3. OrderInv' /\ ExtendInv' /\ LinkedInv'
  BY DEF IInv, OrderInv, ExtendInv, LinkedInv, Linked, Distinct, Below
<1>4. BrokenInv => BrokenInv'
  BY DEF BrokenInv, Rewritten, Orphan
<1> QED BY <1>1, <1>2, <1>3, <1>4 DEF IInv

(* A broken row stays broken while the program goes on: its inserts have   *)
(* new numbers.                                                            *)
LEMMA BrokenStays ==
  ASSUME IInv, BrokenInv, UNCHANGED <<tampers, tamper>>, clock' \in Nat, clock <= clock',
         \A c \in Chain : rows[c] \subseteq rows'[c],
         \A c \in Chain : \A x \in rows'[c] :
           x \in rows[c] \/ \E t \in Tx : holds[t] = c /\ x \in pend[t],
         \A c \in Chain, t \in Tx : holds'[t] = c => \A x \in pend'[t] :
           (holds[t] = c /\ x \in pend[t]) \/ clock < x.id
  PROVE  BrokenInv'
<1> SUFFICES ASSUME tampers <= 1, NEW c \in Chain, tamper[c] = "interior"
             PROVE  \E r \in rows'[c] : Rewritten(r) \/ Orphan(c, r)'
  BY DEF BrokenInv, Rewritten
<1>1. PICK r \in rows[c] : Rewritten(r) \/ Orphan(c, r)
  BY DEF BrokenInv
<1>2. r \in rows'[c]
  BY <1>1
<1>3. ASSUME Orphan(c, r) PROVE Orphan(c, r)'
  <2>1. clock \in Nat /\ r.prev # Seed /\ r.prev[1] \in Nat /\ r.prev[1] <= clock
    BY <1>3 DEF Orphan, IInv, FunctionInv
  <2>2. \A x \in rows'[c] : x.id # r.prev[1]
    BY <1>3 DEF Orphan
  <2>3. ASSUME NEW t \in Tx, holds'[t] = c, NEW x \in pend'[t] PROVE x.id # r.prev[1]
    <3>1. CASE holds[t] = c /\ x \in pend[t]
      BY <1>3, <3>1 DEF Orphan
    <3>2. CASE clock < x.id
      BY <2>1, <3>2
    <3> QED BY <2>3, <3>1, <3>2
  <2>4. r.prev[1] <= clock'
    BY <2>1
  <2> QED BY <2>1, <2>2, <2>3, <2>4 DEF Orphan
<1> QED BY <1>1, <1>2, <1>3

LEMMA LockChainPreserves ==
  ASSUME IInv, NEW t \in Tx, NEW c \in Chain, LockChain(t, c)
  PROVE  IInv' /\ (BrokenInv => BrokenInv')
<1>1. /\ \A x \in Tx : holds[x] # c
      /\ holds[t] = None
      /\ holds'[t] = c /\ \A x \in Tx : x # t => holds'[x] = holds[x]
      /\ UNCHANGED <<rows, pend, clock, tampers, tamper>>
      /\ holds' \in [Tx -> Chain \cup {None}]
      /\ clock \in Nat
  BY AuditAssumption DEF IInv, FunctionInv, LockChain
<1>2. pend[t] = {}
  BY <1>1 DEF IInv, HolderInv
<1>3. FunctionInv' /\ HolderInv' /\ TamperInv'
  BY <1>1, <1>2, AuditAssumption DEF IInv, FunctionInv, HolderInv, TamperInv
<1>4. StampInv'
  BY <1>1 DEF IInv, StampInv, Inserted, Dated, IsRow, Named
<1>5. OrderInv'
  BY <1>1, <1>2 DEF IInv, OrderInv, Distinct
<1>6. ExtendInv'
  <2> SUFFICES ASSUME NEW x \in Tx, NEW d \in Chain, holds'[x] = d, tamper[d] = "none"
               PROVE  Linked(rows[d] \cup pend[x])
    BY <1>1 DEF ExtendInv, Linked, Below
  <2>1. CASE x = t
    <3>1. rows[d] \cup pend[x] = rows[d]
      BY <1>2, <2>1
    <3> QED BY <3>1 DEF IInv, LinkedInv
  <2>2. CASE x # t
    BY <1>1, <2>2 DEF IInv, ExtendInv
  <2> QED BY <2>1, <2>2
<1>7. LinkedInv'
  BY <1>1 DEF IInv, LinkedInv, Linked, Below
<1>8. BrokenInv => BrokenInv'
  BY <1>1, <1>2, BrokenStays, AuditAssumption
<1> QED BY <1>3, <1>4, <1>5, <1>6, <1>7, <1>8 DEF IInv

(* What Record adds: a row linked to what its transaction sees.            *)
LEMMA RecordAdds ==
  ASSUME IInv, NEW t \in Tx, NEW c \in Chain, NEW b \in Body, NEW s \in Spelling,
         NEW skew \in 0..MaxSkew, Record(t, c, b, s, skew)
  PROVE  /\ holds[t] = c
         /\ clock' = clock + 1
         /\ UNCHANGED <<rows, holds, tampers, tamper>>
         /\ \E n : /\ pend' = [pend EXCEPT ![t] = @ \cup {n}]
                   /\ Dated(n) /\ n.id = clock + 1 /\ n.at <= clock + 1 + MaxSkew
                   /\ n.prev = TipHash(rows[c] \cup pend[t])
                   /\ n.hash = HashOf(n.id, n.at, n.body, Spelled(n), n.prev)
<1> DEFINE prev == TipHash(Visible(t, c))
           id == clock + 1
           at == id + skew
<1>1. PICK n : n = [id |-> id, at |-> at, body |-> b, prev |-> prev,
                    hash |-> HashOf(id, at, b, s, prev)]
  OBVIOUS
<1>2. /\ holds[t] = c /\ clock' = id
      /\ pend' = [pend EXCEPT ![t] = @ \cup {n}]
      /\ UNCHANGED <<rows, holds, tampers, tamper>>
  BY <1>1 DEF Record
<1>3. id \in Nat /\ at \in Nat /\ at <= clock + 1 + MaxSkew
  BY AuditAssumption DEF IInv, FunctionInv
<1>4. n.at = at /\ n.id = id /\ n.prev = prev /\ n.body = b /\ n.hash = HashOf(id, at, b, s, prev)
  BY <1>1
<1>5. Spelled(n) = s /\ Named(n)
  BY <1>4, HashParts DEF Spelled, Named
<1>6. IsRow(n)
  BY <1>1 DEF IsRow
<1> QED BY <1>2, <1>3, <1>4, <1>5, <1>6 DEF Dated, Visible

LEMMA RecordPreserves ==
  ASSUME IInv, NEW t \in Tx, NEW c \in Chain, NEW b \in Body, NEW s \in Spelling,
         NEW skew \in 0..MaxSkew, Record(t, c, b, s, skew)
  PROVE  IInv' /\ (BrokenInv => BrokenInv')
<1>1. PICK n : /\ pend' = [pend EXCEPT ![t] = @ \cup {n}]
               /\ Dated(n) /\ n.id = clock + 1 /\ n.at <= clock + 1 + MaxSkew
               /\ n.prev = TipHash(rows[c] \cup pend[t])
               /\ n.hash = HashOf(n.id, n.at, n.body, Spelled(n), n.prev)
  BY RecordAdds
<1>2. /\ holds[t] = c /\ clock' = clock + 1
      /\ UNCHANGED <<rows, holds, tampers, tamper>>
  BY RecordAdds
<1>3. clock \in Nat /\ clock' \in Nat /\ clock < clock' /\ MaxSkew \in Nat
  BY <1>2, AuditAssumption DEF IInv, FunctionInv
<1>4. pend'[t] = pend[t] \cup {n} /\ \A x \in Tx : x # t => pend'[x] = pend[x]
  BY <1>1 DEF IInv, FunctionInv
<1>5. FunctionInv'
  BY <1>1, <1>2, <1>3 DEF IInv, FunctionInv
<1>6. HolderInv'
  BY <1>2, <1>4, AuditAssumption DEF IInv, HolderInv
<1>7. TamperInv' /\ LinkedInv'
  BY <1>2 DEF IInv, TamperInv, LinkedInv, Linked, Below
<1>8. StampInv'
  <2>1. ASSUME NEW r, Inserted(r) PROVE Dated(r) /\ r.id <= clock' /\ r.at <= clock' + MaxSkew
    BY <1>2, <1>3, <2>1 DEF Inserted, Dated
  <2>2. Dated(n) /\ n.id <= clock' /\ n.at <= clock' + MaxSkew
    BY <1>1, <1>2, <1>3
  <2>3. \A d \in Chain : \A r \in rows[d] : Inserted(r)
    BY DEF IInv, StampInv
  <2>4. \A x \in Tx : \A r \in pend'[x] : Inserted(r) \/ r = n
    BY <1>4 DEF IInv, StampInv
  <2> QED BY <1>2, <2>1, <2>2, <2>3, <2>4 DEF StampInv, Inserted, Dated, IsRow, Named
<1>9. OrderInv'
  <2>1. \A x \in Tx : Distinct(pend'[x])
    <3>1. \A r \in pend[t] : r.id \in Nat /\ r.id <= clock
      BY DEF IInv, StampInv, Inserted, Dated
    <3>2. Distinct(pend[t])
      BY DEF IInv, OrderInv
    <3>3. Distinct(pend'[t])
      BY <1>1, <1>3, <1>4, <3>1, <3>2 DEF Distinct
    <3> QED BY <1>4, <3>3 DEF IInv, OrderInv
  <2>2. ASSUME NEW x \in Tx, NEW d \in Chain, holds[x] = d, NEW r \in rows[d], NEW p \in pend'[x]
        PROVE  r.id < p.id
    <3>1. CASE p \in pend[x]
      BY <2>2, <3>1 DEF IInv, OrderInv
    <3>2. CASE p = n
      BY <1>1, <1>3, <3>2 DEF IInv, StampInv, Inserted, Dated
    <3> QED BY <1>4, <3>1, <3>2
  <2>3. \A d \in Chain : Distinct(rows[d])
    BY DEF IInv, OrderInv
  <2> QED BY <1>2, <2>1, <2>2, <2>3 DEF OrderInv, Distinct
<1>10. ExtendInv'
  <2> SUFFICES ASSUME NEW x \in Tx, NEW d \in Chain, holds[x] = d, tamper[d] = "none"
               PROVE  Linked(rows[d] \cup pend'[x])
    BY <1>2 DEF ExtendInv, Linked, Below
  <2>1. CASE x = t
    <3>1. d = c
      BY <1>2, <2>1
    <3>2. \A r \in rows[c] \cup pend[t] : r.id \in Nat /\ r.id < n.id
      BY <1>1, <1>3, <3>1 DEF IInv, StampInv, Inserted, Dated
    <3>3. Linked(rows[c] \cup pend[t])
      BY <1>2, <3>1 DEF IInv, ExtendInv
    <3>4. n.id \in Nat
      BY <1>1 DEF Dated
    <3>5. Linked((rows[c] \cup pend[t]) \cup {n})
      BY <1>1, <3>2, <3>3, <3>4, AppendLinked
    <3>6. rows[d] \cup pend'[x] = (rows[c] \cup pend[t]) \cup {n}
      BY <1>4, <2>1, <3>1
    <3> QED BY <3>5, <3>6
  <2>2. CASE x # t
    BY <1>4, <2>2 DEF IInv, ExtendInv
  <2> QED BY <2>1, <2>2
<1>11. BrokenInv => BrokenInv'
  <2>1. clock < n.id
    BY <1>1, <1>3
  <2> QED BY <1>2, <1>3, <1>4, <2>1, BrokenStays
<1> QED BY <1>5, <1>6, <1>7, <1>8, <1>9, <1>10, <1>11 DEF IInv

LEMMA CommitPreserves ==
  ASSUME IInv, NEW t \in Tx, NEW c \in Chain, Commit(t, c)
  PROVE  IInv' /\ (BrokenInv => BrokenInv')
<1>1. FunctionInv'
  BY AuditAssumption DEF IInv, Commit, FunctionInv
<1>2. /\ rows'[c] = rows[c] \cup pend[t] /\ \A d \in Chain : d # c => rows'[d] = rows[d]
      /\ pend'[t] = {} /\ \A x \in Tx : x # t => pend'[x] = pend[x]
      /\ holds[t] = c
      /\ holds'[t] = None /\ \A x \in Tx : x # t => holds'[x] = holds[x]
      /\ UNCHANGED <<clock, tampers, tamper>>
      /\ clock \in Nat
  BY DEF IInv, Commit, FunctionInv
<1>3. HolderInv'
  BY <1>2, AuditAssumption DEF IInv, HolderInv
<1>4. StampInv' /\ TamperInv'
  <2>1. /\ \A d \in Chain : \A r \in rows'[d] : Inserted(r)
        /\ \A x \in Tx : \A r \in pend'[x] : Inserted(r)
    BY <1>2 DEF IInv, StampInv
  <2>2. TamperInv'
    BY <1>2 DEF IInv, TamperInv
  <2> QED BY <1>2, <2>1, <2>2 DEF StampInv, Inserted, Dated, IsRow, Named
<1>5. \A x \in Tx : holds'[x] # c
  BY <1>2, AuditAssumption DEF IInv, HolderInv
<1>6. \A x \in Tx, d \in Chain : holds'[x] = d =>
        holds[x] = d /\ rows'[d] = rows[d] /\ pend'[x] = pend[x]
  BY <1>2, <1>5, AuditAssumption
<1>7. OrderInv'
  <2>1. Distinct(rows[c] \cup pend[t])
    <3>1. /\ Distinct(rows[c]) /\ Distinct(pend[t])
          /\ \A r \in rows[c], p \in pend[t] : r.id < p.id
      BY <1>2 DEF IInv, OrderInv
    <3>2. \A r \in rows[c] \cup pend[t] : r.id \in Nat
      BY DEF IInv, StampInv, Inserted, Dated
    <3> QED BY <3>1, <3>2 DEF Distinct
  <2>2. \A d \in Chain : Distinct(rows'[d])
    BY <1>2, <2>1 DEF IInv, OrderInv
  <2>3. \A x \in Tx : Distinct(pend'[x])
    BY <1>2 DEF IInv, OrderInv, Distinct
  <2>4. \A x \in Tx, d \in Chain : holds'[x] = d => \A r \in rows'[d], p \in pend'[x] : r.id < p.id
    BY <1>6 DEF IInv, OrderInv
  <2> QED BY <2>2, <2>3, <2>4 DEF OrderInv, Distinct
<1>8. ExtendInv'
  <2> SUFFICES ASSUME NEW x \in Tx, NEW d \in Chain, holds'[x] = d, tamper[d] = "none"
               PROVE  Linked(rows'[d] \cup pend'[x])
    BY <1>2 DEF ExtendInv, Linked, Below
  <2>1. holds[x] = d /\ rows'[d] = rows[d] /\ pend'[x] = pend[x]
    BY <1>2, <1>6
  <2> QED BY <2>1 DEF IInv, ExtendInv
<1>9. LinkedInv'
  <2> SUFFICES ASSUME NEW d \in Chain, tamper[d] = "none" PROVE Linked(rows'[d])
    BY <1>2 DEF LinkedInv, Linked, Below
  <2>1. CASE d = c
    BY <1>2, <2>1 DEF IInv, ExtendInv
  <2>2. CASE d # c
    BY <1>2, <2>2 DEF IInv, LinkedInv
  <2> QED BY <2>1, <2>2
<1>10. BrokenInv => BrokenInv'
  <2>1. /\ \A d \in Chain : rows[d] \subseteq rows'[d]
        /\ \A d \in Chain : \A x \in rows'[d] :
             x \in rows[d] \/ \E u \in Tx : holds[u] = d /\ x \in pend[u]
    BY <1>2
  <2> QED BY <1>2, <1>6, <2>1, BrokenStays
<1> QED BY <1>1, <1>3, <1>4, <1>7, <1>8, <1>9, <1>10 DEF IInv

LEMMA RollbackPreserves ==
  ASSUME IInv, NEW t \in Tx, NEW c \in Chain, Rollback(t, c)
  PROVE  IInv' /\ (BrokenInv => BrokenInv')
<1>1. FunctionInv'
  BY AuditAssumption DEF IInv, Rollback, FunctionInv
<1>2. /\ pend'[t] = {} /\ \A x \in Tx : x # t => pend'[x] = pend[x]
      /\ holds'[t] = None /\ \A x \in Tx : x # t => holds'[x] = holds[x]
      /\ UNCHANGED <<rows, clock, tampers, tamper>>
      /\ clock \in Nat
  BY DEF IInv, Rollback, FunctionInv
<1>3. HolderInv'
  BY <1>2, AuditAssumption DEF IInv, HolderInv
<1>4. StampInv' /\ TamperInv' /\ LinkedInv'
  <2>1. /\ \A d \in Chain : \A r \in rows[d] : Inserted(r)
        /\ \A x \in Tx : \A r \in pend'[x] : Inserted(r)
    BY <1>2 DEF IInv, StampInv
  <2>2. StampInv'
    BY <1>2, <2>1 DEF StampInv, Inserted, Dated, IsRow, Named
  <2> QED BY <1>2, <2>2 DEF IInv, TamperInv, LinkedInv, Linked, Below
<1>5. \A x \in Tx, d \in Chain : holds'[x] = d => holds[x] = d /\ pend'[x] = pend[x]
  BY <1>2, AuditAssumption
<1>6. OrderInv'
  <2>1. \A x \in Tx : Distinct(pend'[x])
    BY <1>2 DEF IInv, OrderInv, Distinct
  <2> QED BY <1>2, <1>5, <2>1 DEF IInv, OrderInv, Distinct
<1>7. ExtendInv'
  <2> SUFFICES ASSUME NEW x \in Tx, NEW d \in Chain, holds'[x] = d, tamper[d] = "none"
               PROVE  Linked(rows'[d] \cup pend'[x])
    BY <1>2 DEF ExtendInv, Linked, Below
  <2>1. holds[x] = d /\ rows'[d] = rows[d] /\ pend'[x] = pend[x]
    BY <1>2, <1>5
  <2> QED BY <2>1 DEF IInv, ExtendInv
<1>8. BrokenInv => BrokenInv'
  BY <1>2, <1>5, BrokenStays
<1> QED BY <1>1, <1>3, <1>4, <1>6, <1>7, <1>8 DEF IInv

-----------------------------------------------------------------------------
(* Tampering.                                                              *)

(* An altered chain is no longer the program's, but its rows keep their    *)
(* numbers.  The first alteration inside a chain breaks a row.             *)
LEMMA AlteredPreserves ==
  ASSUME IInv, NEW c \in Chain, NEW R, NEW how \in {"interior", "tail"},
         Altered(c, R, how), Distinct(R),
         \A r \in R : Inserted(r) /\ \E x \in rows[c] : r.id = x.id,
         tamper[c] = "none" /\ how = "interior" =>
           \E r \in R : \/ Rewritten(r)
                        \/ /\ r.prev # Seed /\ r.prev[1] \in Nat /\ r.prev[1] <= clock
                           /\ \A x \in R : x.id # r.prev[1]
                           /\ \E x \in rows[c] : x.id = r.prev[1]
  PROVE  IInv' /\ BrokenInv'
<1>1. FunctionInv'
  BY DEF IInv, Altered, FunctionInv
<1>2. /\ tamper'[c] # "none"
      /\ tamper[c] = "none" => tamper'[c] = how
      /\ rows'[c] = R
      /\ \A d \in Chain : d # c => rows'[d] = rows[d] /\ tamper'[d] = tamper[d]
      /\ UNCHANGED <<pend, holds, clock>>
      /\ tampers' = tampers + 1
  BY DEF IInv, Altered, FunctionInv
<1>3. HolderInv' /\ TamperInv'
  BY <1>2 DEF IInv, HolderInv, TamperInv, FunctionInv
<1>4. StampInv'
  <2>1. \A d \in Chain : \A r \in rows'[d] : Inserted(r)
    BY <1>2 DEF IInv, StampInv
  <2>2. \A x \in Tx : \A r \in pend[x] : Inserted(r)
    BY DEF IInv, StampInv
  <2> QED BY <1>2, <2>1, <2>2 DEF StampInv, Inserted, Dated, IsRow, Named
<1>5. OrderInv'
  <2>1. \A d \in Chain : Distinct(rows'[d])
    BY <1>2 DEF IInv, OrderInv
  <2>2. ASSUME NEW x \in Tx, NEW d \in Chain, holds[x] = d, NEW r \in rows'[d], NEW p \in pend[x]
        PROVE  r.id < p.id
    <3>1. CASE d = c
      BY <1>2, <2>2, <3>1 DEF IInv, OrderInv
    <3>2. CASE d # c
      BY <1>2, <2>2, <3>2 DEF IInv, OrderInv
    <3> QED BY <3>1, <3>2
  <2>3. \A x \in Tx : Distinct(pend[x])
    BY DEF IInv, OrderInv
  <2> QED BY <1>2, <2>1, <2>2, <2>3 DEF OrderInv, Distinct
<1>6. ExtendInv' /\ LinkedInv'
  <2>1. \A d \in Chain : tamper'[d] = "none" => tamper[d] = "none" /\ rows'[d] = rows[d]
    BY <1>2
  <2>2. ASSUME NEW d \in Chain, tamper'[d] = "none" PROVE Linked(rows'[d])
    BY <2>1, <2>2 DEF IInv, LinkedInv
  <2>3. ASSUME NEW x \in Tx, NEW d \in Chain, holds[x] = d, tamper'[d] = "none"
        PROVE  Linked(rows'[d] \cup pend[x])
    BY <2>1, <2>3 DEF IInv, ExtendInv
  <2> QED BY <1>2, <2>2, <2>3 DEF ExtendInv, LinkedInv, Linked, Below
<1>7. BrokenInv'
  <2> SUFFICES ASSUME tampers' <= 1, NEW d \in Chain, tamper'[d] = "interior"
               PROVE  \E r \in rows'[d] : Rewritten(r) \/ Orphan(d, r)'
    BY DEF BrokenInv, Rewritten
  <2>1. \A e \in Chain : tamper[e] = "none"
    BY <1>2 DEF IInv, FunctionInv, TamperInv
  <2>2. d = c /\ how = "interior" /\ tamper[c] = "none"
    BY <1>2, <2>1
  <2>3. PICK r \in R : \/ Rewritten(r)
                       \/ /\ r.prev # Seed /\ r.prev[1] \in Nat /\ r.prev[1] <= clock
                          /\ \A x \in R : x.id # r.prev[1]
                          /\ \E x \in rows[c] : x.id = r.prev[1]
    BY <2>2
  <2>4. ASSUME ~Rewritten(r) PROVE Orphan(c, r)'
    <3>1. PICK x \in rows[c] : x.id = r.prev[1]
      BY <2>3, <2>4
    <3>2. \A t \in Tx : holds[t] = c => \A y \in pend[t] : y.id # r.prev[1]
      <4>1. \A t \in Tx : holds[t] = c => \A y \in pend[t] : x.id < y.id /\ y.id \in Nat
        BY DEF IInv, OrderInv, StampInv, Inserted, Dated
      <4>2. x.id \in Nat
        BY DEF IInv, StampInv, Inserted, Dated
      <4> QED BY <3>1, <4>1, <4>2
    <3> QED BY <1>2, <2>3, <2>4, <3>2 DEF Orphan
  <2> QED BY <1>2, <2>2, <2>3, <2>4
<1> QED BY <1>1, <1>3, <1>4, <1>5, <1>6, <1>7 DEF IInv

(* A row nobody altered is what was hashed.                                *)
LEMMA AsHashed ==
  ASSUME IInv, NEW c \in Chain, tamper[c] = "none", NEW r \in rows[c]
  PROVE  r.hash[2] = r.at /\ r.hash[3] = r.body
<1>1. r.hash = HashOf(r.id, r.at, r.body, Spelled(r), r.prev)
  BY DEF IInv, LinkedInv, Linked
<1> QED BY <1>1, HashParts

LEMMA EditPreserves ==
  ASSUME IInv, NEW c \in Chain, NEW r \in rows[c], NEW b \in Body, EditRow(c, r, b)
  PROVE  IInv' /\ BrokenInv'
<1>1. PICK s : s = [r EXCEPT !.body = b]
  OBVIOUS
<1>2. PICK R : R = (rows[c] \ {r}) \cup {s}
  OBVIOUS
<1>3. b # r.body /\ Altered(c, R, "interior")
  BY <1>1, <1>2 DEF EditRow
<1>4. Inserted(r) /\ Distinct(rows[c])
  BY DEF IInv, StampInv, OrderInv
<1>5. s = [id |-> r.id, at |-> r.at, body |-> b, prev |-> r.prev, hash |-> r.hash]
  BY <1>1, <1>4 DEF Inserted, Dated, IsRow
<1>6. s.id = r.id /\ s.at = r.at /\ s.body = b /\ s.prev = r.prev /\ s.hash = r.hash
  BY <1>5
<1>7. IsRow(s)
  BY <1>5, <1>6 DEF IsRow
<1>8. Inserted(s)
  BY <1>4, <1>6, <1>7 DEF Inserted, Dated, Named
<1>9. \A x \in R : Inserted(x) /\ \E y \in rows[c] : x.id = y.id
  BY <1>2, <1>6, <1>8 DEF IInv, StampInv
<1>10. Distinct(R)
  BY <1>2, <1>4, <1>6 DEF Distinct
<1>11. ASSUME tamper[c] = "none" PROVE Rewritten(s)
  BY <1>3, <1>6, <1>11, AsHashed DEF Rewritten
<1>12. s \in R
  BY <1>2
<1> QED BY <1>3, <1>9, <1>10, <1>11, <1>12, AlteredPreserves

LEMMA ReorderPreserves ==
  ASSUME IInv, NEW c \in Chain, NEW a \in rows[c], NEW b \in rows[c], ReorderRows(c, a, b)
  PROVE  IInv' /\ BrokenInv'
<1>1. PICK s, z : s = [a EXCEPT !.at = b.at] /\ z = [b EXCEPT !.at = a.at]
  OBVIOUS
<1>2. PICK R : R = (rows[c] \ {a, b}) \cup {s, z}
  OBVIOUS
<1>3. a.at # b.at /\ Altered(c, R, "interior")
  BY <1>1, <1>2 DEF ReorderRows
<1>4. Inserted(a) /\ Inserted(b) /\ Distinct(rows[c])
  BY DEF IInv, StampInv, OrderInv
<1>5. /\ s = [id |-> a.id, at |-> b.at, body |-> a.body, prev |-> a.prev, hash |-> a.hash]
      /\ z = [id |-> b.id, at |-> a.at, body |-> b.body, prev |-> b.prev, hash |-> b.hash]
  BY <1>1, <1>4 DEF Inserted, Dated, IsRow
<1>6. /\ s.id = a.id /\ s.at = b.at /\ s.body = a.body /\ s.prev = a.prev /\ s.hash = a.hash
      /\ z.id = b.id /\ z.at = a.at /\ z.body = b.body /\ z.prev = b.prev /\ z.hash = b.hash
  BY <1>5
<1>7. IsRow(s) /\ IsRow(z)
  BY <1>5, <1>6 DEF IsRow
<1>8. Inserted(s) /\ Inserted(z)
  BY <1>4, <1>6, <1>7 DEF Inserted, Dated, Named
<1>9. \A x \in R : Inserted(x) /\ \E y \in rows[c] : x.id = y.id
  BY <1>2, <1>6, <1>8 DEF IInv, StampInv
<1>10. Distinct(R)
  <2>1. a.id # b.id
    BY <1>3, <1>4 DEF Distinct
  <2> QED BY <1>2, <1>4, <1>6, <2>1 DEF Distinct
<1>11. ASSUME tamper[c] = "none" PROVE Rewritten(s)
  BY <1>3, <1>6, <1>11, AsHashed DEF Rewritten
<1>12. s \in R
  BY <1>2
<1> QED BY <1>3, <1>9, <1>10, <1>11, <1>12, AlteredPreserves

LEMMA DeletePreserves ==
  ASSUME IInv, NEW c \in Chain, NEW r \in rows[c], DeleteRow(c, r)
  PROVE  IInv' /\ BrokenInv'
<1>1. PICK how : how = IF \E x \in rows[c] : x.prev = r.hash THEN "interior" ELSE "tail"
  OBVIOUS
<1>2. PICK R : R = rows[c] \ {r}
  OBVIOUS
<1>3. how \in {"interior", "tail"} /\ Altered(c, R, how)
  BY <1>1, <1>2 DEF DeleteRow
<1>4. \A x \in R : Inserted(x) /\ \E y \in rows[c] : x.id = y.id
  BY <1>2 DEF IInv, StampInv
<1>5. Distinct(rows[c]) /\ Distinct(R)
  BY <1>2 DEF IInv, OrderInv, Distinct
<1>6. ASSUME tamper[c] = "none", how = "interior"
      PROVE  \E x \in R : /\ x.prev # Seed /\ x.prev[1] \in Nat /\ x.prev[1] <= clock
                          /\ \A y \in R : y.id # x.prev[1]
                          /\ \E y \in rows[c] : y.id = x.prev[1]
  <2>1. PICK x \in rows[c] : x.prev = r.hash
    BY <1>1, <1>6
  <2>2. r.hash # Seed /\ r.hash[1] = r.id /\ r.id \in Nat /\ r.id <= clock
    BY DEF IInv, StampInv, Inserted, Dated, Named
  <2>3. x # r
    <3> SUFFICES ASSUME x = r PROVE FALSE
      OBVIOUS
    <3>1. r.hash = TipHash(Below(rows[c], r))
      BY <1>6, <2>1 DEF IInv, LinkedInv, Linked
    <3> DEFINE B == Below(rows[c], r)
    <3>2. B # {}
      BY <2>2, <3>1 DEF TipHash
    <3>3. B \subseteq rows[c] /\ \A y \in B : y.id < r.id
      BY DEF Below
    <3>4. /\ Distinct(B)
          /\ \A y \in B : y.at \in Nat /\ y.at <= clock + MaxSkew /\ y.id \in Nat /\ y.id <= clock
          /\ clock \in Nat /\ clock + MaxSkew \in Nat
      BY <1>5, <3>3, AuditAssumption
         DEF Distinct, IInv, StampInv, Inserted, Dated, FunctionInv
    <3> HIDE DEF B
    <3>5. Tip(B) \in B
      BY <3>2, <3>4, TipIsLast
    <3>6. PICK y \in rows[c] : y = Tip(B) /\ y.id < r.id
      BY <3>3, <3>5
    <3>7. y.hash[1] = y.id /\ y.id \in Nat
      BY DEF IInv, StampInv, Inserted, Dated, Named
    <3>8. r.hash = y.hash
      BY <3>1, <3>2, <3>6 DEF TipHash, B
    <3> QED BY <2>2, <3>6, <3>7, <3>8
  <2>4. \A y \in R : y.id # r.id
    BY <1>2, <1>5 DEF Distinct
  <2>5. x \in R
    BY <1>2, <2>1, <2>3
  <2> QED BY <2>1, <2>2, <2>4, <2>5
<1> QED BY <1>3, <1>4, <1>5, <1>6, AlteredPreserves

LEMMA NextIInv ==
  ASSUME IInv, [AuditNext]_auditVars
  PROVE  IInv' /\ (BrokenInv => BrokenInv')
<1>1. CASE UNCHANGED auditVars
  BY <1>1, QuietPreserves DEF auditVars
<1>2. ASSUME NEW t \in Tx, NEW c \in Chain, LockChain(t, c)
      PROVE  IInv' /\ (BrokenInv => BrokenInv')
  BY <1>2, LockChainPreserves
<1>3. ASSUME NEW t \in Tx, NEW c \in Chain, NEW b \in Body, NEW s \in Spelling,
             NEW skew \in 0..MaxSkew, Record(t, c, b, s, skew)
      PROVE  IInv' /\ (BrokenInv => BrokenInv')
  BY <1>3, RecordPreserves
<1>4. ASSUME NEW t \in Tx, NEW c \in Chain, Commit(t, c)
      PROVE  IInv' /\ (BrokenInv => BrokenInv')
  BY <1>4, CommitPreserves
<1>5. ASSUME NEW t \in Tx, NEW c \in Chain, Rollback(t, c)
      PROVE  IInv' /\ (BrokenInv => BrokenInv')
  BY <1>5, RollbackPreserves
<1>6. ASSUME NEW c \in Chain, NEW r \in rows[c], NEW b \in Body, EditRow(c, r, b)
      PROVE  IInv' /\ BrokenInv'
  BY <1>6, EditPreserves
<1>7. ASSUME NEW c \in Chain, NEW a \in rows[c], NEW b \in rows[c], ReorderRows(c, a, b)
      PROVE  IInv' /\ BrokenInv'
  BY <1>7, ReorderPreserves
<1>8. ASSUME NEW c \in Chain, NEW r \in rows[c], DeleteRow(c, r)
      PROVE  IInv' /\ BrokenInv'
  BY <1>8, DeletePreserves
<1>9. CASE ScheduledVerify
  BY <1>9, QuietPreserves DEF ScheduledVerify
<1> QED BY <1>1, <1>2, <1>3, <1>4, <1>5, <1>6, <1>7, <1>8, <1>9 DEF AuditNext

(* Whatever transactions record, commit and roll back side by side, a      *)
(* chain nobody altered, whose rows were stamped in order and whose        *)
(* addresses were given as host() writes them, verifies at every moment,   *)
(* for any number of chains, transactions and rows: Record holds the       *)
(* chain's advisory lock from the reading of the tip to the commit.        *)
THEOREM ChainNeverBreaksItself == AuditSpec => []UntouchedChainVerifies
<1>1. IInv /\ [AuditNext]_auditVars => IInv'
  BY NextIInv
<1> QED BY <1>1, LinkedIsVerified, InitIInv, PTL DEF AuditSpec

(* One edit, exchange of two rows or deletion of a row that another is     *)
(* linked to is found by Verify from then on, however much the clocks of   *)
(* the replicas differ: no row the program appends later makes the chain   *)
(* verify again.                                                           *)
THEOREM TamperingStaysDetected == AuditSpec => []InteriorTamperDetected
<1> DEFINE Inv == IInv /\ BrokenInv
<1>1. Inv /\ [AuditNext]_auditVars => Inv'
  BY NextIInv
<1> QED BY <1>1, BrokenIsDetected, InitIInv, PTL DEF AuditSpec

-----------------------------------------------------------------------------
(* The forwarder.                                                          *)

SinkFunctionInv ==
  /\ state \in [Sink -> {"none", "on", "off", "deleted"}]
  /\ tenant \in [Sink -> Chain \cup {None}]
  /\ start = [k \in Sink |-> start[k]]
  /\ cursor = [k \in Sink |-> cursor[k]]
  /\ delivered = [k \in Sink |-> delivered[k]]
  /\ \A k \in Sink : state[k] # "none" => tenant[k] \in Chain

WorkerFunctionInv ==
  /\ wpc \in [Worker -> {"idle", "listed", "fetched", "posted"}]
  /\ wsink = [w \in Worker |-> wsink[w]]
  /\ wcursor = [w \in Worker |-> wcursor[w]]
  /\ batch = [w \in Worker |-> batch[w]]

FiniteInv ==
  /\ \A t \in Tx : IsFiniteSet(pend[t])
  /\ \A c \in Chain : tamper[c] = "none" => IsFiniteSet(rows[c])

(* A cursor stands where the sink began or on a committed row, and up to   *)
(* it everything was acknowledged by the sink's collector.                 *)
Sent(k, p) ==
  /\ p = start[k] \/ \E z \in rows[tenant[k]] : p = Pos(z)
  /\ \A r \in rows[tenant[k]] : Before(start[k], r) /\ UpTo(r, p) => r \in delivered[k]

Watched(k) ==
  state[k] \in {"on", "off"} /\ tamper[tenant[k]] = "none" /\ InOrder(rows[tenant[k]])

SinkInv == \A k \in Sink : Watched(k) => Sent(k, cursor[k])

(* The batch a worker holds is without a gap after the cursor it listed.   *)
Gapless(R, p, B) ==
  /\ B # {} /\ B \subseteq R
  /\ \A r \in R : Before(p, r) /\ UpTo(r, Pos(Tip(B))) => r \in B

WorkerInv ==
  \A w \in Worker : wpc[w] # "idle" =>
    /\ wsink[w] \in Sink /\ state[wsink[w]] # "none"
    /\ Watched(wsink[w]) =>
         /\ Sent(wsink[w], wcursor[w])
         /\ wpc[w] \in {"fetched", "posted"} =>
              Gapless(rows[tenant[wsink[w]]], wcursor[w], batch[w])
         /\ wpc[w] = "posted" => batch[w] \subseteq delivered[wsink[w]]

SiemInv == /\ SinkFunctionInv
           /\ WorkerFunctionInv
           /\ FiniteInv
           /\ SinkInv
           /\ WorkerInv

LEMMA SinkImpliesNoneSkipped == SinkInv => NoneSkipped
BY DEF SinkInv, Watched, Sent, NoneSkipped

LEMMA InitSiemInv == Init => SiemInv
<1> SUFFICES ASSUME Init PROVE SiemInv
  OBVIOUS
<1>1. SinkFunctionInv
  BY DEF Init, SiemInit, SinkFunctionInv
<1>2. WorkerFunctionInv
  BY DEF Init, SiemInit, WorkerFunctionInv
<1>3. FiniteInv
  BY FS_EmptySet DEF Init, AuditInit, FiniteInv
<1>4. SinkInv /\ WorkerInv
  BY DEF Init, SiemInit, SinkInv, WorkerInv, Watched
<1> QED BY <1>1, <1>2, <1>3, <1>4 DEF SiemInv

(* A page is an initial piece of what follows the cursor.                  *)
LEMMA PageIsGapless ==
  ASSUME NEW R, IsFiniteSet(R), NEW p, NEW n \in Nat, Distinct(R),
         NEW m \in Nat,
         \A r \in R : r.at \in Nat /\ r.at <= n /\ r.id \in Nat /\ r.id <= m,
         Page(R, p) # {}
  PROVE  Gapless(R, p, Page(R, p))
<1> DEFINE After == {r \in R : Before(p, r)}
           B == Page(R, p)
<1>1. B = {r \in After : Cardinality(Earlier(After, r)) < Batch}
  BY DEF Page
<1>2. B # {} /\ B \subseteq After /\ After \subseteq R
  BY <1>1
<1>3. IsFiniteSet(After)
  BY <1>2, FS_Subset
<1>4. Distinct(B) /\ \A r \in B : r.at \in Nat /\ r.at <= n /\ r.id \in Nat /\ r.id <= m
  BY <1>2 DEF Distinct
<1> HIDE DEF B, After
<1>5. Tip(B) \in B
  BY <1>2, <1>4, TipIsLast
<1>6. ASSUME NEW r \in R, Before(p, r), UpTo(r, Pos(Tip(B))) PROVE r \in B
  <2>1. PICK z \in B : z = Tip(B)
    BY <1>5
  <2>2. z \in R /\ z.at \in Nat /\ z.id \in Nat
    BY <1>2, <1>4
  <2>3. Before(r, z) \/ r = z
    BY <1>6, <2>1, <2>2 DEF UpTo, Pos, Before, Distinct
  <2>4. r \in After
    BY <1>6 DEF After
  <2>5. Earlier(After, r) \subseteq Earlier(After, z)
    <3> SUFFICES ASSUME NEW x \in After, Before(x, r), Before(r, z) PROVE Before(x, z)
      BY <2>3 DEF Earlier
    <3>1. x.at \in Nat /\ x.id \in Nat
      BY <1>2
    <3> QED BY <2>2, <3>1 DEF Before
  <2>6. Earlier(After, z) \subseteq After
    BY DEF Earlier
  <2>7. IsFiniteSet(Earlier(After, z))
    BY <1>3, <2>6, FS_Subset
  <2>8. Cardinality(Earlier(After, r)) <= Cardinality(Earlier(After, z))
    BY <2>5, <2>7, FS_Subset
  <2>9. IsFiniteSet(Earlier(After, r))
    BY <2>5, <2>7, FS_Subset
  <2>10. Cardinality(Earlier(After, r)) \in Nat /\ Cardinality(Earlier(After, z)) \in Nat
    BY <2>7, <2>9, FS_CardinalityType
  <2>11. Cardinality(Earlier(After, z)) < Batch
    BY <1>1
  <2>12. Cardinality(Earlier(After, r)) < Batch
    BY <2>8, <2>10, <2>11, SiemAssumption
  <2> QED BY <1>1, <2>4, <2>12
<1>7. Gapless(R, p, B)
  BY <1>2, <1>6 DEF Gapless
<1> QED BY <1>7 DEF B

(* A step of the log takes no sink back.                                   *)
LEMMA LogFrame ==
  ASSUME SiemInv, UNCHANGED siemVars, FiniteInv',
         \A k \in Sink : Watched(k)' => Watched(k),
         \A k \in Sink : \A p : Watched(k) /\ Watched(k)' /\ Sent(k, p) => Sent(k, p)',
         \A k \in Sink : \A p, B : Watched(k) /\ Watched(k)' /\ Gapless(rows[tenant[k]], p, B) =>
                                 Gapless(rows'[tenant[k]], p, B)
  PROVE  SiemInv'
<1>1. /\ state' = state /\ tenant' = tenant /\ start' = start /\ cursor' = cursor
      /\ delivered' = delivered /\ wpc' = wpc /\ wsink' = wsink /\ wcursor' = wcursor
      /\ batch' = batch
  BY DEF siemVars, sinkVars, workerVars
<1>2. SinkFunctionInv'
  BY <1>1 DEF SiemInv, SinkFunctionInv
<1>3. WorkerFunctionInv'
  BY <1>1 DEF SiemInv, WorkerFunctionInv
<1>4. \A k \in Sink : Watched(k)' => Watched(k)
  OBVIOUS
<1>5. SinkInv'
  <2> SUFFICES ASSUME NEW k \in Sink, Watched(k)' PROVE Sent(k, cursor[k])'
    BY DEF SinkInv
  <2>1. Sent(k, cursor[k])
    BY <1>4 DEF SiemInv, SinkInv
  <2>2. PICK p : p = cursor[k]
    OBVIOUS
  <2>3. Sent(k, p)'
    BY <1>4, <2>1, <2>2
  <2> QED BY <1>1, <2>2, <2>3 DEF Sent
<1>6. WorkerInv'
  <2> SUFFICES ASSUME NEW w \in Worker, wpc[w] # "idle"
               PROVE  /\ wsink[w] \in Sink /\ state[wsink[w]] # "none"
                      /\ Watched(wsink[w])' =>
                           /\ Sent(wsink[w], wcursor[w])'
                           /\ wpc[w] \in {"fetched", "posted"} =>
                                Gapless(rows'[tenant[wsink[w]]], wcursor[w], batch[w])
                           /\ wpc[w] = "posted" => batch[w] \subseteq delivered[wsink[w]]
    BY <1>1 DEF WorkerInv, Gapless, Sent, Watched
  <2>1. wsink[w] \in Sink /\ state[wsink[w]] # "none"
    BY DEF SiemInv, WorkerInv
  <2>2. PICK k \in Sink : k = wsink[w]
    BY <2>1
  <2>3. PICK p : p = wcursor[w]
    OBVIOUS
  <2>4. ASSUME Watched(k)'
        PROVE  /\ Sent(k, p)'
               /\ wpc[w] \in {"fetched", "posted"} => Gapless(rows'[tenant[k]], p, batch[w])
               /\ wpc[w] = "posted" => batch[w] \subseteq delivered[k]
    <3>1. /\ Sent(k, p)
          /\ wpc[w] \in {"fetched", "posted"} => Gapless(rows[tenant[k]], p, batch[w])
          /\ wpc[w] = "posted" => batch[w] \subseteq delivered[k]
      BY <1>4, <2>2, <2>3, <2>4 DEF SiemInv, WorkerInv
    <3> QED BY <1>4, <2>4, <3>1
  <2> QED BY <1>1, <2>1, <2>2, <2>3, <2>4 DEF Sent, Watched
<1> QED BY <1>2, <1>3, <1>5, <1>6 DEF SiemInv

LEMMA LockChainForwards ==
  ASSUME IInv, SiemInv, NEW t \in Tx, NEW c \in Chain, LockChain(t, c), UNCHANGED siemVars
  PROVE  SiemInv'
<1>1. /\ pend[t] = {}
      /\ \A x \in Tx : x # t => holds'[x] = holds[x]
      /\ UNCHANGED <<rows, pend, clock, tamper>>
  BY DEF IInv, HolderInv, FunctionInv, LockChain
<1>2. FiniteInv'
  BY <1>1 DEF SiemInv, FiniteInv
<1>3. /\ UNCHANGED <<state, tenant, start, delivered>>
      /\ \A k \in Sink : Watched(k)' => Watched(k)
  BY <1>1 DEF siemVars, sinkVars, Watched, InOrder
<1>4. \A k \in Sink : \A p : Sent(k, p) => Sent(k, p)'
  BY <1>1, <1>3 DEF Sent
<1>5. \A k \in Sink : \A p, B : Gapless(rows[tenant[k]], p, B) => Gapless(rows'[tenant[k]], p, B)
  BY <1>1
<1> QED BY <1>1, <1>2, <1>3, <1>4, <1>5, LogFrame

LEMMA RecordForwards ==
  ASSUME IInv, SiemInv, NEW t \in Tx, NEW c \in Chain, NEW b \in Body, NEW s \in Spelling,
         NEW skew \in 0..MaxSkew, Record(t, c, b, s, skew), UNCHANGED siemVars
  PROVE  SiemInv'
<1>1. PICK n : pend' = [pend EXCEPT ![t] = @ \cup {n}]
  BY RecordAdds
<1>2. UNCHANGED <<rows, tamper>>
  BY RecordAdds
<1>3. pend'[t] = pend[t] \cup {n} /\ \A x \in Tx : x # t => pend'[x] = pend[x]
  BY <1>1 DEF IInv, FunctionInv
<1>4. FiniteInv'
  BY <1>2, <1>3, FS_AddElement DEF SiemInv, FiniteInv
<1>5. /\ UNCHANGED <<state, tenant, start, delivered>>
      /\ \A k \in Sink : Watched(k)' => Watched(k)
  BY <1>2 DEF siemVars, sinkVars, Watched, InOrder
<1>6. \A k \in Sink : \A p : Sent(k, p) => Sent(k, p)'
  BY <1>2, <1>5 DEF Sent
<1>7. \A k \in Sink : \A p, B : Gapless(rows[tenant[k]], p, B) => Gapless(rows'[tenant[k]], p, B)
  BY <1>2
<1> QED BY <1>2, <1>4, <1>5, <1>6, <1>7, LogFrame

(* The rows of a chain, and any of them, have a last one.                  *)
LEMMA TipOfBatch ==
  ASSUME IInv, NEW c \in Chain, NEW B, B # {}, B \subseteq rows[c]
  PROVE  Tip(B) \in B
<1>1. Distinct(B) /\ clock \in Nat /\ clock + MaxSkew \in Nat
  BY AuditAssumption DEF IInv, OrderInv, FunctionInv, Distinct
<1>2. \A r \in B : r.at \in Nat /\ r.at <= clock + MaxSkew /\ r.id \in Nat /\ r.id <= clock
  BY DEF IInv, StampInv, Inserted, Dated
<1> QED BY <1>1, <1>2, TipIsLast

(* What becomes visible at a commit comes after what was visible.          *)
LEMMA CommitForwards ==
  ASSUME IInv, SiemInv, NEW t \in Tx, NEW c \in Chain, Commit(t, c), UNCHANGED siemVars
  PROVE  SiemInv'
<1>1. /\ rows'[c] = rows[c] \cup pend[t] /\ \A d \in Chain : d # c => rows'[d] = rows[d]
      /\ pend'[t] = {} /\ \A x \in Tx : x # t => pend'[x] = pend[x]
      /\ holds[t] = c
      /\ \A x \in Tx : x # t => holds'[x] = holds[x]
      /\ UNCHANGED <<clock, tampers, tamper>>
  BY DEF IInv, Commit, FunctionInv
<1>2. FiniteInv'
  <2>1. \A x \in Tx : IsFiniteSet(pend'[x])
    BY <1>1, FS_EmptySet DEF SiemInv, FiniteInv
  <2>2. ASSUME NEW d \in Chain, tamper[d] = "none" PROVE IsFiniteSet(rows'[d])
    <3>1. IsFiniteSet(rows[d]) /\ IsFiniteSet(pend[t])
      BY <2>2 DEF SiemInv, FiniteInv
    <3>2. IsFiniteSet(rows[d] \cup pend[t])
      BY <3>1, FS_Union
    <3> QED BY <1>1, <3>1, <3>2
  <2> QED BY <1>1, <2>1, <2>2 DEF FiniteInv
<1>3. UNCHANGED <<state, tenant, start, delivered>>
  BY DEF siemVars, sinkVars
<1>4. \A d \in Chain : rows[d] \subseteq rows'[d]
  BY <1>1
<1>5. ASSUME NEW k \in Sink, Watched(k)' PROVE Watched(k) /\ tenant[k] \in Chain
  <2>1. tenant[k] \in Chain /\ tamper[tenant[k]] = "none" /\ state[k] \in {"on", "off"}
    BY <1>1, <1>3, <1>5 DEF Watched, SiemInv, SinkFunctionInv
  <2>2. InOrder(rows[tenant[k]])
    BY <1>3, <1>4, <1>5, <2>1 DEF Watched, InOrder
  <2> QED BY <2>1, <2>2 DEF Watched
<1>6. ASSUME NEW k \in Sink, Watched(k)', NEW z \in rows[tenant[k]], NEW r \in rows'[tenant[k]],
             r \notin rows[tenant[k]]
      PROVE  ~UpTo(r, Pos(z))
  <2>1. tenant[k] = c /\ r \in pend[t]
    BY <1>1, <1>5, <1>6
  <2>2. z.id < r.id /\ z \in rows'[tenant[k]]
    BY <1>1, <1>6, <2>1 DEF IInv, OrderInv
  <2>3. z.at < r.at
    BY <1>3, <1>6, <2>2 DEF Watched, InOrder
  <2> QED BY <2>3 DEF UpTo, Before, Pos
<1>7. ASSUME NEW k \in Sink, NEW p, Watched(k)', Sent(k, p) PROVE Sent(k, p)'
  <2>1. p = start[k] \/ \E z \in rows'[tenant[k]] : p = Pos(z)
    BY <1>4, <1>5, <1>7 DEF Sent
  <2>2. ASSUME NEW r \in rows'[tenant[k]], Before(start[k], r), UpTo(r, p)
        PROVE  r \in delivered[k]
    <3>1. CASE r \in rows[tenant[k]]
      BY <1>7, <2>2, <3>1 DEF Sent
    <3>2. CASE p = start[k]
      BY <2>2, <3>2 DEF UpTo
    <3>3. CASE r \notin rows[tenant[k]] /\ \E z \in rows[tenant[k]] : p = Pos(z)
      BY <1>6, <1>7, <2>2, <3>3
    <3> QED BY <1>7, <3>1, <3>2, <3>3 DEF Sent
  <2> QED BY <1>3, <2>1, <2>2 DEF Sent
<1>8. ASSUME NEW k \in Sink, NEW p, NEW B, Watched(k)', Gapless(rows[tenant[k]], p, B)
      PROVE  Gapless(rows'[tenant[k]], p, B)
  <2>1. B # {} /\ B \subseteq rows[tenant[k]] /\ B \subseteq rows'[tenant[k]]
    BY <1>4, <1>5, <1>8 DEF Gapless
  <2>2. Tip(B) \in B
    <3>1. PICK d \in Chain : d = tenant[k]
      BY <1>5, <1>8
    <3> QED BY <2>1, <3>1, TipOfBatch
  <2>3. ASSUME NEW r \in rows'[tenant[k]], Before(p, r), UpTo(r, Pos(Tip(B))) PROVE r \in B
    <3>1. r \in rows[tenant[k]]
      BY <1>6, <1>8, <2>1, <2>2, <2>3
    <3> QED BY <1>8, <2>3, <3>1 DEF Gapless
  <2> QED BY <2>1, <2>3 DEF Gapless
<1> QED BY <1>2, <1>5, <1>7, <1>8, LogFrame

LEMMA RollbackForwards ==
  ASSUME IInv, SiemInv, NEW t \in Tx, NEW c \in Chain, Rollback(t, c), UNCHANGED siemVars
  PROVE  SiemInv'
<1>1. /\ pend'[t] = {} /\ \A x \in Tx : x # t => pend'[x] = pend[x]
      /\ \A x \in Tx : x # t => holds'[x] = holds[x]
      /\ UNCHANGED <<rows, clock, tamper>>
  BY DEF IInv, Rollback, FunctionInv
<1>2. FiniteInv'
  BY <1>1, FS_EmptySet DEF SiemInv, FiniteInv
<1>3. /\ UNCHANGED <<state, tenant, start, delivered>>
      /\ \A k \in Sink : Watched(k)' => Watched(k)
  BY <1>1 DEF siemVars, sinkVars, Watched, InOrder
<1>4. \A k \in Sink : \A p : Sent(k, p) => Sent(k, p)'
  BY <1>1, <1>3 DEF Sent
<1>5. \A k \in Sink : \A p, B : Gapless(rows[tenant[k]], p, B) => Gapless(rows'[tenant[k]], p, B)
  BY <1>1
<1> QED BY <1>1, <1>2, <1>3, <1>4, <1>5, LogFrame

LEMMA AlteredForwards ==
  ASSUME IInv, SiemInv, NEW c \in Chain, NEW R, NEW how \in {"interior", "tail"},
         Altered(c, R, how), UNCHANGED siemVars
  PROVE  SiemInv'
<1>1. /\ tamper'[c] # "none"
      /\ \A d \in Chain : d # c => rows'[d] = rows[d] /\ tamper'[d] = tamper[d]
      /\ UNCHANGED <<pend, holds, clock>>
  BY DEF IInv, Altered, FunctionInv
<1>2. FiniteInv'
  BY <1>1 DEF SiemInv, FiniteInv
<1>3. UNCHANGED <<state, tenant, start, delivered>>
  BY DEF siemVars, sinkVars
<1>4. \A k \in Sink : Watched(k)' =>
        Watched(k) /\ tenant[k] \in Chain /\ rows'[tenant[k]] = rows[tenant[k]]
  BY <1>1, <1>3 DEF Watched, InOrder, SiemInv, SinkFunctionInv
<1>5. \A k \in Sink : \A p : Watched(k)' /\ Sent(k, p) => Sent(k, p)'
  BY <1>1, <1>3, <1>4 DEF Sent
<1>6. \A k \in Sink : \A p, B : Watched(k)' /\ Gapless(rows[tenant[k]], p, B) =>
                              Gapless(rows'[tenant[k]], p, B)
  BY <1>4
<1> QED BY <1>2, <1>4, <1>5, <1>6, LogFrame

LEMMA QuietForwards ==
  ASSUME SiemInv, UNCHANGED <<rows, pend, holds, clock, tamper>>, UNCHANGED siemVars
  PROVE  SiemInv'
<1>1. FiniteInv'
  BY DEF SiemInv, FiniteInv
<1>2. /\ UNCHANGED <<state, tenant, start, delivered>>
      /\ \A k \in Sink : Watched(k)' => Watched(k)
  BY DEF siemVars, sinkVars, Watched, InOrder
<1>3. \A k \in Sink : \A p : Sent(k, p) => Sent(k, p)'
  BY <1>2 DEF Sent
<1>4. \A k \in Sink : \A p, B : Gapless(rows[tenant[k]], p, B) => Gapless(rows'[tenant[k]], p, B)
  OBVIOUS
<1> QED BY <1>1, <1>2, <1>3, <1>4, LogFrame

LEMMA CreateSinkForwards ==
  ASSUME IInv, SiemInv, NEW k \in Sink, NEW c \in Chain, CreateSink(k, c), UNCHANGED auditVars
  PROVE  SiemInv'
<1>1. PICK now : now = [at |-> clock + 1, id |-> 0]
  OBVIOUS
<1>2. /\ state[k] = "none"
      /\ state' = [state EXCEPT ![k] = "on"]
      /\ tenant' = [tenant EXCEPT ![k] = c]
      /\ start' = [start EXCEPT ![k] = now]
      /\ cursor' = [cursor EXCEPT ![k] = now]
      /\ delivered' = delivered /\ wpc' = wpc /\ wsink' = wsink /\ wcursor' = wcursor
      /\ batch' = batch
  BY <1>1 DEF CreateSink, InsertLogSink, workerVars
<1>3. UNCHANGED <<rows, pend, holds, clock, tamper>>
  BY DEF auditVars
<1>4. /\ tenant'[k] = c /\ start'[k] = now /\ cursor'[k] = now
      /\ \A j \in Sink : j # k => /\ state'[j] = state[j] /\ tenant'[j] = tenant[j]
                                  /\ start'[j] = start[j] /\ cursor'[j] = cursor[j]
  BY <1>2 DEF SiemInv, SinkFunctionInv
<1>5. SinkFunctionInv'
  BY <1>2, <1>4 DEF SiemInv, SinkFunctionInv
<1>6. WorkerFunctionInv' /\ FiniteInv'
  BY <1>2, <1>3 DEF SiemInv, WorkerFunctionInv, FiniteInv
<1>7. \A j \in Sink : j # k => (Watched(j)' => Watched(j))
  BY <1>3, <1>4 DEF Watched, InOrder
<1>8. \A j \in Sink : \A p : j # k /\ Sent(j, p) => Sent(j, p)'
  BY <1>2, <1>3, <1>4 DEF Sent
<1>9. SinkInv'
  <2> SUFFICES ASSUME NEW j \in Sink, Watched(j)' PROVE Sent(j, cursor[j])'
    BY DEF SinkInv
  <2>1. CASE j = k
    BY <1>3, <1>4, <2>1 DEF Sent, UpTo
  <2>2. CASE j # k
    <3>1. Sent(j, cursor[j])
      BY <1>7, <2>2 DEF SiemInv, SinkInv
    <3> QED BY <1>4, <1>8, <2>2, <3>1 DEF Sent
  <2> QED BY <2>1, <2>2
<1>10. WorkerInv'
  <2> SUFFICES ASSUME NEW w \in Worker, wpc[w] # "idle"
               PROVE  /\ wsink[w] \in Sink /\ state'[wsink[w]] # "none"
                      /\ Watched(wsink[w])' =>
                           /\ Sent(wsink[w], wcursor[w])'
                           /\ wpc[w] \in {"fetched", "posted"} =>
                                Gapless(rows[tenant'[wsink[w]]], wcursor[w], batch[w])
                           /\ wpc[w] = "posted" => batch[w] \subseteq delivered[wsink[w]]
    BY <1>2, <1>3 DEF WorkerInv, Gapless, Sent, Watched
  <2>1. wsink[w] \in Sink /\ wsink[w] # k /\ state[wsink[w]] # "none"
    BY <1>2 DEF SiemInv, WorkerInv
  <2>2. PICK j \in Sink : j = wsink[w] /\ j # k
    BY <2>1
  <2>3. PICK p : p = wcursor[w]
    OBVIOUS
  <2>4. ASSUME Watched(j)'
        PROVE  /\ Sent(j, p)'
               /\ wpc[w] \in {"fetched", "posted"} => Gapless(rows[tenant[j]], p, batch[w])
               /\ wpc[w] = "posted" => batch[w] \subseteq delivered[j]
    <3>1. /\ Sent(j, p)
          /\ wpc[w] \in {"fetched", "posted"} => Gapless(rows[tenant[j]], p, batch[w])
          /\ wpc[w] = "posted" => batch[w] \subseteq delivered[j]
      BY <1>7, <2>2, <2>3, <2>4 DEF SiemInv, WorkerInv
    <3> QED BY <1>8, <2>2, <3>1
  <2> QED BY <1>2, <1>4, <2>1, <2>2, <2>3, <2>4 DEF Sent, Watched
<1> QED BY <1>5, <1>6, <1>9, <1>10 DEF SiemInv

(* A sink is switched on, off, or deleted: its cursor stays.               *)
LEMMA SwitchForwards ==
  ASSUME IInv, SiemInv, NEW k \in Sink, ToggleSink(k) \/ DeleteSink(k), UNCHANGED auditVars
  PROVE  SiemInv'
<1>1. /\ state[k] \in {"on", "off"}
      /\ \A j \in Sink : j # k => state'[j] = state[j]
      /\ state'[k] # "none"
      /\ state' \in [Sink -> {"none", "on", "off", "deleted"}]
      /\ tenant' = tenant /\ start' = start /\ cursor' = cursor
      /\ delivered' = delivered /\ wpc' = wpc /\ wsink' = wsink /\ wcursor' = wcursor
      /\ batch' = batch
  BY DEF SiemInv, SinkFunctionInv, ToggleSink, DeleteSink, workerVars
<1>2. UNCHANGED <<rows, pend, holds, clock, tamper>>
  BY DEF auditVars
<1>3. SinkFunctionInv'
  BY <1>1 DEF SiemInv, SinkFunctionInv
<1>4. WorkerFunctionInv' /\ FiniteInv'
  BY <1>1, <1>2 DEF SiemInv, WorkerFunctionInv, FiniteInv
<1>5. \A j \in Sink : Watched(j)' => Watched(j)
  BY <1>1, <1>2 DEF Watched, InOrder
<1>6. \A j \in Sink : \A p : Sent(j, p) => Sent(j, p)'
  BY <1>1, <1>2 DEF Sent
<1>7. SinkInv'
  BY <1>1, <1>5, <1>6 DEF SiemInv, SinkInv, Sent
<1>8. WorkerInv'
  <2> SUFFICES ASSUME NEW w \in Worker, wpc[w] # "idle"
               PROVE  /\ wsink[w] \in Sink /\ state'[wsink[w]] # "none"
                      /\ Watched(wsink[w])' =>
                           /\ Sent(wsink[w], wcursor[w])'
                           /\ wpc[w] \in {"fetched", "posted"} =>
                                Gapless(rows[tenant[wsink[w]]], wcursor[w], batch[w])
                           /\ wpc[w] = "posted" => batch[w] \subseteq delivered[wsink[w]]
    BY <1>1, <1>2 DEF WorkerInv, Gapless, Sent, Watched
  <2>1. wsink[w] \in Sink /\ state[wsink[w]] # "none"
    BY DEF SiemInv, WorkerInv
  <2>2. PICK j \in Sink : j = wsink[w]
    BY <2>1
  <2>3. PICK p : p = wcursor[w]
    OBVIOUS
  <2>4. Watched(j)' => /\ Sent(j, p)
                       /\ wpc[w] \in {"fetched", "posted"} =>
                            Gapless(rows[tenant[j]], p, batch[w])
                       /\ wpc[w] = "posted" => batch[w] \subseteq delivered[j]
    BY <1>5, <2>2, <2>3 DEF SiemInv, WorkerInv
  <2>5. Watched(j)' => Sent(j, p)'
    BY <1>6, <2>4
  <2> QED BY <1>1, <2>1, <2>2, <2>3, <2>4, <2>5 DEF Sent, Watched
<1> QED BY <1>3, <1>4, <1>7, <1>8 DEF SiemInv

(* A worker's step leaves the sinks, or moves one cursor.                  *)
LEMMA WorkerFrame ==
  ASSUME SiemInv, UNCHANGED auditVars, NEW w \in Worker,
         UNCHANGED <<state, tenant, start>>, SinkFunctionInv', WorkerFunctionInv', SinkInv',
         \A k \in Sink : delivered[k] \subseteq delivered'[k],
         \A x \in Worker : x # w => /\ wpc'[x] = wpc[x] /\ wsink'[x] = wsink[x]
                                    /\ wcursor'[x] = wcursor[x] /\ batch'[x] = batch[x],
         wpc'[w] # "idle" =>
           /\ wsink'[w] \in Sink /\ state[wsink'[w]] # "none"
           /\ Watched(wsink'[w]) =>
                /\ Sent(wsink'[w], wcursor'[w])
                /\ wpc'[w] \in {"fetched", "posted"} =>
                     Gapless(rows[tenant[wsink'[w]]], wcursor'[w], batch'[w])
                /\ wpc'[w] = "posted" => batch'[w] \subseteq delivered'[wsink'[w]]
  PROVE  SiemInv'
<1>1. UNCHANGED <<rows, pend, holds, clock, tamper>>
  BY DEF auditVars
<1>2. FiniteInv'
  BY <1>1 DEF SiemInv, FiniteInv
<1>3. \A j \in Sink : Watched(j)' <=> Watched(j)
  BY <1>1 DEF Watched, InOrder
<1>4. \A j \in Sink : \A p : Sent(j, p) => Sent(j, p)'
  BY <1>1 DEF Sent
<1>5. WorkerInv'
  <2> SUFFICES ASSUME NEW x \in Worker, wpc'[x] # "idle"
               PROVE  /\ wsink'[x] \in Sink /\ state[wsink'[x]] # "none"
                      /\ (Watched(wsink[x]))' =>
                           /\ (Sent(wsink[x], wcursor[x]))'
                           /\ wpc'[x] \in {"fetched", "posted"} =>
                                Gapless(rows[tenant[wsink'[x]]], wcursor'[x], batch'[x])
                           /\ wpc'[x] = "posted" => batch'[x] \subseteq delivered'[wsink'[x]]
    BY <1>1 DEF WorkerInv, Gapless, Sent, Watched
  <2>1. /\ wsink'[x] \in Sink /\ state[wsink'[x]] # "none"
        /\ Watched(wsink'[x]) =>
             /\ Sent(wsink'[x], wcursor'[x])
             /\ wpc'[x] \in {"fetched", "posted"} =>
                  Gapless(rows[tenant[wsink'[x]]], wcursor'[x], batch'[x])
             /\ wpc'[x] = "posted" => batch'[x] \subseteq delivered'[wsink'[x]]
    <3>1. CASE x = w
      BY <3>1
    <3>2. CASE x # w
      BY <3>2 DEF SiemInv, WorkerInv
    <3> QED BY <3>1, <3>2
  <2>2. PICK j \in Sink : j = wsink'[x]
    BY <2>1
  <2>3. PICK p : p = wcursor'[x]
    OBVIOUS
  <2>4. /\ Watched(j)' => Watched(j)
        /\ Sent(j, p) => Sent(j, p)'
    BY <1>3, <1>4
  <2> QED BY <2>1, <2>2, <2>3, <2>4 DEF Sent, Watched
<1> QED BY <1>2, <1>5 DEF SiemInv

LEMMA DoneForwards ==
  ASSUME SiemInv, UNCHANGED auditVars, NEW w \in Worker, Done(w),
         UNCHANGED <<state, tenant, start, delivered>>, SinkFunctionInv', SinkInv'
  PROVE  SiemInv'
<1>1. WorkerFunctionInv'
  BY DEF SiemInv, WorkerFunctionInv, Done
<1>2. /\ wpc'[w] = "idle"
      /\ \A x \in Worker : x # w => /\ wpc'[x] = wpc[x] /\ wsink'[x] = wsink[x]
                                    /\ wcursor'[x] = wcursor[x] /\ batch'[x] = batch[x]
  BY DEF SiemInv, WorkerFunctionInv, Done
<1> QED BY <1>1, <1>2, WorkerFrame

LEMMA SinksStay ==
  ASSUME SiemInv, UNCHANGED auditVars, UNCHANGED sinkVars,
         delivered' = [k \in Sink |-> delivered'[k]],
         \A k \in Sink : delivered[k] \subseteq delivered'[k]
  PROVE  SinkFunctionInv' /\ SinkInv' /\ UNCHANGED <<state, tenant, start>>
<1>1. /\ UNCHANGED <<state, tenant, start, cursor>>
      /\ UNCHANGED <<rows, pend, holds, clock, tamper>>
  BY DEF auditVars, sinkVars
<1>2. SinkFunctionInv'
  BY <1>1 DEF SiemInv, SinkFunctionInv
<1>3. SinkInv'
  <2> SUFFICES ASSUME NEW k \in Sink, Watched(k)' PROVE Sent(k, cursor[k])'
    BY DEF SinkInv
  <2>1. Sent(k, cursor[k])
    BY <1>1 DEF Watched, SiemInv, SinkInv
  <2> QED BY <1>1, <2>1 DEF Sent
<1> QED BY <1>1, <1>2, <1>3

LEMMA ListForwards ==
  ASSUME IInv, SiemInv, NEW w \in Worker, NEW k \in Sink, ListSink(w, k), UNCHANGED auditVars
  PROVE  SiemInv'
<1>1. /\ state[k] = "on" /\ UNCHANGED sinkVars /\ delivered' = delivered
      /\ wpc'[w] = "listed" /\ wsink'[w] = k /\ wcursor'[w] = cursor[k]
      /\ \A x \in Worker : x # w => /\ wpc'[x] = wpc[x] /\ wsink'[x] = wsink[x]
                                    /\ wcursor'[x] = wcursor[x] /\ batch'[x] = batch[x]
  BY DEF SiemInv, WorkerFunctionInv, ListSink, ListEnabledLogSinks
<1>2. WorkerFunctionInv'
  BY DEF SiemInv, WorkerFunctionInv, ListSink
<1>3. SinkFunctionInv' /\ SinkInv' /\ UNCHANGED <<state, tenant, start>>
  BY <1>1, SinksStay DEF SiemInv, SinkFunctionInv
<1>4. Watched(k) => Sent(k, cursor[k])
  BY DEF SiemInv, SinkInv
<1> QED BY <1>1, <1>2, <1>3, <1>4, WorkerFrame

LEMMA FetchForwards ==
  ASSUME IInv, SiemInv, NEW w \in Worker, Fetch(w), UNCHANGED auditVars
  PROVE  SiemInv'
<1>1. UNCHANGED sinkVars /\ delivered' = delivered /\ wpc[w] = "listed"
  BY DEF Fetch
<1>2. SinkFunctionInv' /\ SinkInv' /\ UNCHANGED <<state, tenant, start>>
  BY <1>1, SinksStay DEF SiemInv, SinkFunctionInv
<1>3. CASE Done(w)
  BY <1>1, <1>2, <1>3, DoneForwards
<1>4. PICK page : page = Page(rows[tenant[wsink[w]]], wcursor[w])
  OBVIOUS
<1>5. CASE ~Done(w)
  <2>1. /\ page # {} /\ batch' = [batch EXCEPT ![w] = page]
        /\ wpc' = [wpc EXCEPT ![w] = "fetched"]
        /\ wsink' = wsink /\ wcursor' = wcursor
    BY <1>4, <1>5 DEF Fetch
  <2>2. /\ wpc'[w] = "fetched" /\ batch'[w] = page
        /\ \A x \in Worker : x # w => /\ wpc'[x] = wpc[x] /\ wsink'[x] = wsink[x]
                                      /\ wcursor'[x] = wcursor[x] /\ batch'[x] = batch[x]
        /\ WorkerFunctionInv'
    BY <2>1 DEF SiemInv, WorkerFunctionInv
  <2>3. PICK k \in Sink : k = wsink[w]
    BY <1>1 DEF SiemInv, WorkerInv
  <2>4. state[k] # "none" /\ (Watched(k) => Sent(k, wcursor[w]))
    BY <1>1, <2>3 DEF SiemInv, WorkerInv
  <2>5. ASSUME Watched(k) PROVE Gapless(rows[tenant[k]], wcursor[w], page)
    <3>1. tenant[k] \in Chain /\ tamper[tenant[k]] = "none"
      BY <2>4, <2>5 DEF Watched, SiemInv, SinkFunctionInv
    <3>2. /\ IsFiniteSet(rows[tenant[k]]) /\ Distinct(rows[tenant[k]])
          /\ clock \in Nat /\ clock + MaxSkew \in Nat
      BY <3>1, AuditAssumption DEF SiemInv, FiniteInv, IInv, OrderInv, FunctionInv
    <3>3. \A r \in rows[tenant[k]] :
            r.at \in Nat /\ r.at <= clock + MaxSkew /\ r.id \in Nat /\ r.id <= clock
      BY <3>1 DEF IInv, StampInv, Inserted, Dated
    <3> QED BY <1>4, <2>1, <2>3, <3>2, <3>3, PageIsGapless
  <2> QED BY <1>1, <1>2, <2>1, <2>2, <2>3, <2>4, <2>5, WorkerFrame
<1> QED BY <1>3, <1>5

LEMMA PostForwards ==
  ASSUME IInv, SiemInv, NEW w \in Worker, Post(w), UNCHANGED auditVars
  PROVE  SiemInv'
<1>1. PICK k \in Sink : k = wsink[w]
  BY DEF Post, SiemInv, WorkerInv
<1>2. /\ UNCHANGED sinkVars /\ wpc[w] = "fetched"
      /\ delivered' = [delivered EXCEPT ![k] = @ \cup batch[w]]
      /\ wsink' = wsink /\ wcursor' = wcursor /\ batch' = batch
      /\ wpc' = [wpc EXCEPT ![w] = "posted"]
  BY <1>1 DEF Post
<1>3. /\ wpc'[w] = "posted" /\ \A x \in Worker : x # w => wpc'[x] = wpc[x]
      /\ WorkerFunctionInv'
  BY <1>2 DEF SiemInv, WorkerFunctionInv
<1>4. /\ delivered' = [j \in Sink |-> delivered'[j]]
      /\ \A j \in Sink : delivered[j] \subseteq delivered'[j]
      /\ batch[w] \subseteq delivered'[k]
  BY <1>2 DEF SiemInv, SinkFunctionInv
<1>5. SinkFunctionInv' /\ SinkInv' /\ UNCHANGED <<state, tenant, start>>
  BY <1>2, <1>4, SinksStay
<1>6. /\ state[k] # "none"
      /\ Watched(k) => /\ Sent(k, wcursor[w])
                       /\ Gapless(rows[tenant[k]], wcursor[w], batch[w])
  BY <1>1, <1>2 DEF SiemInv, WorkerInv
<1> QED BY <1>1, <1>2, <1>3, <1>4, <1>5, <1>6, WorkerFrame

(* The new cursor is the last row of a batch without a gap.                *)
LEMMA AdvanceForwards ==
  ASSUME IInv, SiemInv, NEW w \in Worker, Advance(w), UNCHANGED auditVars
  PROVE  SiemInv'
<1>1. PICK k \in Sink : k = wsink[w]
  BY DEF Advance, SiemInv, WorkerInv
<1>2. PICK p : p = Pos(Tip(batch[w]))
  OBVIOUS
<1>3. /\ UNCHANGED <<state, tenant, start, delivered>> /\ wpc[w] = "posted" /\ Done(w)
      /\ cursor' = IF state[k] = "deleted" THEN cursor ELSE [cursor EXCEPT ![k] = p]
  BY <1>1, <1>2 DEF Advance
<1>4. UNCHANGED <<rows, pend, holds, clock, tamper>>
  BY DEF auditVars
<1>5. SinkFunctionInv'
  BY <1>3 DEF SiemInv, SinkFunctionInv
<1>6. \A j \in Sink : Watched(j)' => Watched(j)
  BY <1>3, <1>4 DEF Watched, InOrder
<1>7. ASSUME Watched(k) PROVE Sent(k, p)
  <2>1. /\ Sent(k, wcursor[w])
        /\ Gapless(rows[tenant[k]], wcursor[w], batch[w])
        /\ batch[w] \subseteq delivered[k]
    BY <1>1, <1>3, <1>7 DEF SiemInv, WorkerInv
  <2>2. PICK c \in Chain : c = tenant[k] /\ tamper[c] = "none"
    BY <1>7 DEF Watched, SiemInv, SinkFunctionInv
  <2>3. batch[w] # {} /\ batch[w] \subseteq rows[c]
    BY <2>1, <2>2 DEF Gapless
  <2>4. PICK z \in rows[c] : p = Pos(z)
    BY <1>2, <2>3, TipOfBatch
  <2>8. ASSUME NEW r \in rows[c], Before(start[k], r), UpTo(r, p) PROVE r \in delivered[k]
    <3>1. CASE UpTo(r, wcursor[w])
      BY <2>1, <2>2, <2>8, <3>1 DEF Sent
    <3>2. CASE Before(wcursor[w], r)
      BY <1>2, <2>1, <2>2, <2>8, <3>2 DEF Gapless
    <3> QED BY <3>1, <3>2 DEF UpTo
  <2> QED BY <2>2, <2>4, <2>8 DEF Sent
<1>8. SinkInv'
  <2> SUFFICES ASSUME NEW j \in Sink, Watched(j)' PROVE Sent(j, cursor[j])'
    BY DEF SinkInv
  <2>1. PICK q : q = cursor'[j]
    OBVIOUS
  <2>2. q = cursor[j] \/ (j = k /\ q = p)
    BY <1>3, <2>1 DEF SiemInv, SinkFunctionInv
  <2>3. Sent(j, q)
    BY <1>6, <1>7, <2>2 DEF SiemInv, SinkInv
  <2> QED BY <1>3, <1>4, <2>1, <2>3 DEF Sent
<1> QED BY <1>3, <1>5, <1>8, DoneForwards

LEMMA ForwarderStep ==
  ASSUME IInv, SiemInv, SiemNext, UNCHANGED auditVars
  PROVE  SiemInv'
<1>1. ASSUME NEW k \in Sink, NEW c \in Chain, CreateSink(k, c) PROVE SiemInv'
  BY <1>1, CreateSinkForwards
<1>2. ASSUME NEW k \in Sink, ToggleSink(k) \/ DeleteSink(k) PROVE SiemInv'
  BY <1>2, SwitchForwards
<1>3. ASSUME NEW w \in Worker, NEW k \in Sink, ListSink(w, k) PROVE SiemInv'
  BY <1>3, ListForwards
<1>4. ASSUME NEW w \in Worker, WorkerStep(w) PROVE SiemInv'
  BY <1>4, FetchForwards, PostForwards, AdvanceForwards DEF WorkerStep
<1>5. ASSUME NEW w \in Worker, PostFails(w) \/ WorkerFails(w) PROVE SiemInv'
  <2>1. UNCHANGED sinkVars /\ delivered' = delivered /\ Done(w)
    BY <1>5 DEF PostFails, WorkerFails
  <2>2. SinkFunctionInv' /\ SinkInv' /\ UNCHANGED <<state, tenant, start>>
    BY <2>1, SinksStay DEF SiemInv, SinkFunctionInv
  <2> QED BY <2>1, <2>2, DoneForwards
<1> QED BY <1>1, <1>2, <1>3, <1>4, <1>5 DEF SiemNext

LEMMA LogStep ==
  ASSUME IInv, SiemInv, AuditNext, UNCHANGED siemVars
  PROVE  SiemInv'
<1>1. ASSUME NEW t \in Tx, NEW c \in Chain, LockChain(t, c) PROVE SiemInv'
  BY <1>1, LockChainForwards
<1>2. ASSUME NEW t \in Tx, NEW c \in Chain, NEW b \in Body, NEW s \in Spelling,
             NEW skew \in 0..MaxSkew, Record(t, c, b, s, skew)
      PROVE  SiemInv'
  BY <1>2, RecordForwards
<1>3. ASSUME NEW t \in Tx, NEW c \in Chain, Commit(t, c) PROVE SiemInv'
  BY <1>3, CommitForwards
<1>4. ASSUME NEW t \in Tx, NEW c \in Chain, Rollback(t, c) PROVE SiemInv'
  BY <1>4, RollbackForwards
<1>5. ASSUME NEW c \in Chain, NEW r \in rows[c], NEW b \in Body, EditRow(c, r, b)
      PROVE  SiemInv'
  BY <1>5, AlteredForwards DEF EditRow
<1>6. ASSUME NEW c \in Chain, NEW a \in rows[c], NEW b \in rows[c], ReorderRows(c, a, b)
      PROVE  SiemInv'
  BY <1>6, AlteredForwards DEF ReorderRows
<1>7. ASSUME NEW c \in Chain, NEW r \in rows[c], DeleteRow(c, r) PROVE SiemInv'
  BY <1>7, AlteredForwards DEF DeleteRow
<1>8. CASE ScheduledVerify
  BY <1>8, QuietForwards DEF ScheduledVerify
<1> QED BY <1>1, <1>2, <1>3, <1>4, <1>5, <1>6, <1>7, <1>8 DEF AuditNext

(* No committed row is skipped: whatever order replicas read, post and     *)
(* move a cursor in, and however late a transaction commits, a cursor of a *)
(* sink stands past a row only if the collector acknowledged it, for any   *)
(* number of sinks, replicas, transactions and rows, in every log whose    *)
(* rows were stamped in the order of their inserts.                        *)
THEOREM ForwarderSkipsNothing == Spec => []NoneSkipped
<1> DEFINE Inv == IInv /\ SiemInv
<1>1. Init => Inv
  BY InitIInv, InitSiemInv DEF Init
<1>2. Inv /\ [Next]_vars => Inv'
  <2> SUFFICES ASSUME IInv, SiemInv, [Next]_vars PROVE IInv' /\ SiemInv'
    OBVIOUS
  <2>1. CASE SiemNext /\ UNCHANGED auditVars
    BY <2>1, NextIInv, ForwarderStep
  <2>2. CASE AuditNext /\ UNCHANGED siemVars
    BY <2>2, NextIInv, LogStep
  <2>3. CASE UNCHANGED vars
    <3>1. UNCHANGED auditVars /\ UNCHANGED siemVars
      BY <2>3 DEF vars
    <3> QED BY <3>1, NextIInv, QuietForwards DEF auditVars
  <2> QED BY <2>1, <2>2, <2>3 DEF Next
<1>3. Inv => NoneSkipped
  BY SinkImpliesNoneSkipped DEF SiemInv
<1> QED BY <1>1, <1>2, <1>3, PTL DEF Spec

===============================================================================
