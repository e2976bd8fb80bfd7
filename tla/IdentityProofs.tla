---------------------------- MODULE IdentityProofs ----------------------------
(***************************************************************************)
(* Proofs about the limiter and the parts of MCIdentity, for every number  *)
(* of users, rows and requests and every set of conditions: first those    *)
(* that take what people present (accounts, ceremonies, factors, the token *)
(* vault, billing), then those that administrators, provisioning and       *)
(* machines drive (SCIM users, domains, directories, clients, single       *)
(* sign-on, machines, policies).  The theorems about the whole are at the  *)
(* end.                                                                    *)
(***************************************************************************)
EXTENDS MCIdentity, FiniteSetTheorems, WellFoundedInduction, TLAPS

-----------------------------------------------------------------------------
(* The budget of a token bucket.  With `last` going back and forth, what   *)
(* is kept is a balance: what was allowed and what is left never exceed    *)
(* the capacity and the rate up to `last`; and what is left, refilled up   *)
(* to the present, is no debt.                                             *)
Steady(k) == \A r \in Request :
  req[r] # None => (req[r].key = k => req[r].limit = LimitOf(k))

Balance(k) ==
  IF bucket[k] = None THEN allowed[k] = 0
  ELSE /\ allowed[k] + bucket[k].tokens <= LimitOf(k).cap + bucket[k].last * LimitOf(k).rate
       /\ bucket[k].tokens + (clock - bucket[k].last) * LimitOf(k).rate >= 0

LimiterInv ==
  /\ LimiterTypeOK
  /\ \A r \in Request : req[r] # None => (req[r].now # None => req[r].now <= clock)
  /\ \A k \in Key \ changed : Steady(k) /\ Balance(k)

-----------------------------------------------------------------------------
(* Limits are numbers, whether overridden or not.                          *)
LEMMA LimitOfType ==
  ASSUME LimiterTypeOK, NEW k \in Key
  PROVE  LimitOf(k) \in Limit /\ LimitOf(k).rate \in Nat /\ LimitOf(k).cap \in Nat
<1>1. LimitOf(k) \in Limit
  BY LimitAssumption DEF LimiterTypeOK, LimitOf
<1> QED
  BY <1>1, LimitAssumption

(* Passing time adds what the rate gives.                                  *)
LEMMA Span ==
  ASSUME NEW a \in Int, NEW b \in Int, NEW c \in Int, NEW rate \in Nat
  PROVE  (c - a) * rate = (b - a) * rate + (c - b) * rate
  OBVIOUS

LEMMA SpanIsNat ==
  ASSUME NEW a \in Int, NEW b \in Int, a <= b, NEW rate \in Nat
  PROVE  (b - a) * rate >= 0
<1>1. b - a \in Nat
  OBVIOUS
<1> QED
  BY <1>1

LEMMA FromZero ==
  ASSUME NEW a \in Int, NEW b \in Int, NEW rate \in Nat
  PROVE  b * rate = a * rate + (b - a) * rate
  OBVIOUS

-----------------------------------------------------------------------------
LEMMA InitLimiterInv == LimiterInit => LimiterInv
  BY DEF LimiterInit, LimiterInv, LimiterTypeOK, Steady, Balance

(* One key's balance over one Take.                                        *)
LEMMA TakeKeepsBalance ==
  ASSUME LimiterInv, NEW r \in Request, Take(r), NEW k \in Key \ changed, req[r].key = k
  PROVE  Balance(k)'
<1> DEFINE q == req[r]
           l == LimitOf(k)
           spent == IF Found(q) < 1 THEN 0 ELSE 1
<1>1. q # None /\ q \in [key : Key, limit : Limit, now : Nat \cup {None}] /\ q.now \in Nat /\ q.now <= clock
  BY DEF LimiterInv, LimiterTypeOK, Take
<1>2. q.limit = l /\ l \in Limit /\ l.rate \in Nat /\ l.cap \in Nat
  BY <1>1, LimitOfType DEF LimiterInv, Steady
<1>3. k \in Key /\ clock \in Nat /\ allowed[k] \in Nat /\ clock' = clock /\ LimitOf(k)' = l
  BY DEF LimiterInv, LimiterTypeOK, Take, LimitOf
<1>4. (clock - q.now) * l.rate \in Int /\ (clock - q.now) * l.rate >= 0
  BY <1>1, <1>2, <1>3, SpanIsNat
<1>5. /\ bucket'[k] = [tokens |-> Found(q) - spent, last |-> q.now]
      /\ allowed'[k] = allowed[k] + spent
  BY <1>1, <1>3 DEF Take, LimiterInv, LimiterTypeOK
<1>6. /\ Found(q) \in Int
      /\ allowed[k] + Found(q) <= l.cap + q.now * l.rate
      /\ Found(q) + (clock - q.now) * l.rate >= 0
  <2>1. CASE bucket[k] = None
    <3>1. Found(q) = l.cap /\ allowed[k] = 0
      BY <1>2, <2>1 DEF Found, LimiterInv, Balance
    <3>2. q.now * l.rate >= 0
      BY <1>1, <1>2
    <3> QED
      BY <1>1, <1>2, <1>4, <3>1, <3>2
  <2>2. CASE bucket[k] # None
    <3> DEFINE b == bucket[k]
               full == b.tokens + (q.now - b.last) * l.rate
    <3>1. b.tokens \in Int /\ b.last \in Int
      BY <2>2, <1>3 DEF LimiterInv, LimiterTypeOK
    <3>2. /\ allowed[k] + b.tokens <= l.cap + b.last * l.rate
          /\ b.tokens + (clock - b.last) * l.rate >= 0
      BY <2>2 DEF LimiterInv, Balance
    <3>3. Found(q) = IF full > l.cap THEN l.cap ELSE full
      BY <1>2, <2>2 DEF Found, Refilled
    <3>4. q.now * l.rate = b.last * l.rate + (q.now - b.last) * l.rate
      BY <1>1, <1>2, <3>1, FromZero
    <3>5. (clock - b.last) * l.rate = (q.now - b.last) * l.rate + (clock - q.now) * l.rate
      BY <1>1, <1>2, <1>3, <3>1, Span
    <3>6. /\ (q.now - b.last) * l.rate \in Int /\ b.last * l.rate \in Int
          /\ q.now * l.rate \in Int /\ (clock - b.last) * l.rate \in Int
      BY <1>1, <1>2, <1>3, <3>1
    <3> HIDE DEF full, b
    <3>7. full = b.tokens + (q.now - b.last) * l.rate
      BY DEF full
    <3>8. full \in Int /\ allowed[k] + full <= l.cap + q.now * l.rate /\ full + (clock - q.now) * l.rate >= 0
      BY <1>3, <1>4, <3>1, <3>2, <3>4, <3>5, <3>6, <3>7, <1>2
    <3> QED
      BY <1>2, <1>3, <1>4, <3>3, <3>6, <3>8
  <2> QED
    BY <2>1, <2>2
<1>7. spent \in {0, 1} /\ (spent = 1 => Found(q) >= 1)
  BY <1>6
<1>8. q.now * l.rate \in Int
  BY <1>1, <1>2
<1>9. bucket'[k] # None
  <2>1. bucket'[k] \in [tokens : Int, last : Int]
    BY <1>1, <1>5, <1>6, <1>7
  <2> QED
    BY <2>1, LimitAssumption
<1> HIDE DEF spent, l, q
<1>10. /\ allowed'[k] + bucket'[k].tokens <= l.cap + bucket'[k].last * l.rate
       /\ bucket'[k].tokens + (clock - bucket'[k].last) * l.rate >= 0
  BY <1>2, <1>3, <1>4, <1>5, <1>6, <1>7, <1>8
<1> QED
  BY <1>3, <1>9, <1>10 DEF Balance

(* Every step of the limiter, key by key.                                  *)
LEMMA NextLimiterInv ==
  ASSUME LimiterInv, [LimiterNext]_vars
  PROVE  LimiterInv'
<1> USE DEF LimiterInv
<1>1. CASE Tick
  <2>1. /\ LimiterTypeOK' /\ UNCHANGED <<mem, bucket, req, allowed, changed>>
        /\ clock \in Nat /\ clock' = clock + 1
    BY <1>1 DEF Tick, LimiterTypeOK
  <2>2. \A r \in Request : req'[r] # None => (req'[r].now # None => req'[r].now <= clock')
    BY <2>1 DEF LimiterTypeOK
  <2>3. ASSUME NEW k \in Key \ changed PROVE Steady(k)' /\ Balance(k)'
    <3>1. LimitOf(k)' = LimitOf(k) /\ LimitOf(k).rate \in Nat
      BY <2>1, LimitOfType DEF LimitOf
    <3>2. CASE bucket[k] = None
      BY <2>1, <2>3, <3>1, <3>2 DEF Steady, Balance
    <3>3. CASE bucket[k] # None
      <4> DEFINE b == bucket[k]
      <4>1. b.tokens \in Int /\ b.last \in Int
        BY <3>3 DEF LimiterTypeOK
      <4> DEFINE rate == LimitOf(k).rate
      <4> HIDE DEF b, rate
      <4>2. rate \in Nat
        BY <3>1 DEF rate
      <4>3. /\ (clock + 1 - b.last) * rate = (clock - b.last) * rate + rate
            /\ (clock - b.last) * rate \in Int
        BY <2>1, <4>1, <4>2
      <4>4. b.tokens + (clock - b.last) * rate >= 0
        BY <2>3, <3>3 DEF Balance, b, rate
      <4>5. b.tokens + (clock' - b.last) * rate >= 0
        BY <2>1, <4>1, <4>2, <4>3, <4>4
      <4> QED
        BY <2>1, <2>3, <3>1, <3>3, <4>5 DEF Steady, Balance, b, rate
    <3> QED
      BY <3>2, <3>3
  <2> QED
    BY <2>1, <2>2, <2>3
<1>2. CASE Restart
  BY <1>2 DEF Restart, LimiterTypeOK, Steady, Balance
<1>3. ASSUME NEW a \in Admin, CacheOverride(a)
      PROVE  LimiterInv'
  <2>1. LimiterTypeOK'
    BY <1>3 DEF CacheOverride, LimiterTypeOK
  <2>2. ASSUME NEW k \in Key \ changed' PROVE k \in Key \ changed /\ LimitOf(k)' = LimitOf(k)
    BY <1>3, <2>2 DEF CacheOverride, LimiterTypeOK, LimitOf
  <2> QED
    BY <1>3, <2>1, <2>2 DEF CacheOverride, Steady, Balance
<1>4. ASSUME NEW a \in Admin, NEW k \in Key, NEW l \in Limit \cup {None}, StoreOverride(a, k, l)
      PROVE  LimiterInv'
  <2>1. LimiterTypeOK'
    BY <1>4 DEF StoreOverride, LimiterTypeOK
  <2> QED
    BY <1>4, <2>1 DEF StoreOverride, Steady, Balance, LimitOf
<1>5. ASSUME NEW r \in Request, ReadClock(r)
      PROVE  LimiterInv'
  <2>1. LimiterTypeOK'
    BY <1>5 DEF ReadClock, LimiterTypeOK
  <2>2. \A s \in Request : req'[s] # None => req[s] # None /\ req'[s].key = req[s].key
                                             /\ req'[s].limit = req[s].limit
                                             /\ req'[s].now \in {req[s].now, clock}
    BY <1>5 DEF ReadClock, LimiterTypeOK
  <2>3. UNCHANGED <<clock, mem, bucket, allowed, changed>> /\ clock \in Nat
    BY <1>5 DEF ReadClock, LimiterTypeOK
  <2>4. \A k \in Key \ changed : Steady(k)' /\ Balance(k)'
    BY <2>2, <2>3 DEF Steady, Balance, LimitOf
  <2> QED
    BY <2>1, <2>2, <2>3, <2>4
<1>6. ASSUME NEW r \in Request, NEW k \in Key, RateFor(r, k)
      PROVE  LimiterInv'
  <2>1. LimitOf(k) \in Limit
    BY LimitOfType
  <2>2. /\ LimiterTypeOK'
        /\ UNCHANGED <<clock, mem, bucket, allowed, changed>>
        /\ \A s \in Request : IF s = r THEN req'[s] = [key |-> k, limit |-> LimitOf(k), now |-> None]
                              ELSE req'[s] = req[s]
    BY <1>6, <2>1 DEF RateFor, LimiterTypeOK
  <2>3. \A j \in Key \ changed : Steady(j)' /\ Balance(j)'
    BY <2>2 DEF Steady, Balance, LimitOf
  <2> QED
    BY <2>2, <2>3
<1>7. ASSUME NEW r \in Request, Take(r)
      PROVE  LimiterInv'
  <2> DEFINE q == req[r]
  <2>1. /\ q \in [key : Key, limit : Limit, now : Nat \cup {None}]
        /\ q.now \in Nat
        /\ q.limit.rate \in Nat /\ q.limit.cap \in Nat
    BY <1>7, LimitAssumption DEF Take, LimiterTypeOK
  <2>2. Found(q) \in Int
    <3>1. CASE bucket[q.key] = None
      BY <2>1, <3>1 DEF Found
    <3>2. CASE bucket[q.key] # None
      <4>1. bucket[q.key].tokens \in Int /\ bucket[q.key].last \in Int
        BY <2>1, <3>2 DEF LimiterTypeOK
      <4> QED
        BY <2>1, <3>2, <4>1 DEF Found, Refilled
    <3> QED
      BY <3>1, <3>2
  <2>3. LimiterTypeOK'
    BY <1>7, <2>1, <2>2 DEF Take, LimiterTypeOK
  <2>4. \A s \in Request : req'[s] # None => req'[s] = req[s]
    BY <1>7 DEF Take, LimiterTypeOK
  <2>5. UNCHANGED <<clock, mem, changed>>
    BY <1>7 DEF Take
  <2>6. ASSUME NEW k \in Key \ changed PROVE Balance(k)'
    <3>1. CASE q.key = k
      BY <1>7, <3>1, TakeKeepsBalance
    <3>2. CASE q.key # k
      <4>1. bucket'[k] = bucket[k] /\ allowed'[k] = allowed[k] /\ LimitOf(k)' = LimitOf(k)
        BY <1>7, <2>5, <3>2 DEF Take, LimiterTypeOK, LimitOf
      <4> QED
        BY <2>5, <4>1 DEF Balance
    <3> QED
      BY <3>1, <3>2
  <2> QED
    BY <2>3, <2>4, <2>5, <2>6 DEF Steady, LimitOf
<1>8. CASE UNCHANGED vars
  BY <1>8 DEF vars, LimiterTypeOK, Steady, Balance, LimitOf
<1> QED
  BY <1>1, <1>2, <1>3, <1>4, <1>5, <1>6, <1>7, <1>8 DEF LimiterNext

-----------------------------------------------------------------------------
(* A bucket that owes nothing at present has not been overspent.           *)
LEMMA BalanceIsBudget == LimiterInv => BudgetKept
<1> SUFFICES ASSUME LimiterInv, NEW k \in Key \ changed
             PROVE  allowed[k] <= LimitOf(k).cap + clock * LimitOf(k).rate
  BY DEF BudgetKept
<1> DEFINE l == LimitOf(k)
<1>1. l.rate \in Nat /\ l.cap \in Nat /\ clock \in Nat /\ allowed[k] \in Nat
  BY LimitOfType DEF LimiterInv, LimiterTypeOK
<1>2. CASE bucket[k] = None
  <2>1. clock * l.rate \in Nat
    BY <1>1
  <2> QED
    BY <1>1, <1>2, <2>1 DEF LimiterInv, Balance
<1>3. CASE bucket[k] # None
  <2> DEFINE b == bucket[k]
  <2>1. b.tokens \in Int /\ b.last \in Int
    BY <1>3 DEF LimiterInv, LimiterTypeOK
  <2>2. clock * l.rate = b.last * l.rate + (clock - b.last) * l.rate
    BY <1>1, <2>1, FromZero
  <2>3. b.last * l.rate \in Int /\ (clock - b.last) * l.rate \in Int
    BY <1>1, <2>1
  <2>4. /\ allowed[k] + b.tokens <= l.cap + b.last * l.rate
        /\ b.tokens + (clock - b.last) * l.rate >= 0
    BY <1>3 DEF LimiterInv, Balance
  <2> QED
    BY <1>1, <2>1, <2>2, <2>3, <2>4
<1> QED
  BY <1>2, <1>3

(* The types of the limiter's state.                                       *)
THEOREM LimiterTypeCorrect == LimiterSpec => []LimiterTypeOK
<1>1. LimiterInit => LimiterInv
  BY InitLimiterInv
<1>2. LimiterInv /\ [LimiterNext]_vars => LimiterInv'
  BY NextLimiterInv
<1>3. LimiterInv => LimiterTypeOK
  BY DEF LimiterInv
<1> QED
  BY <1>1, <1>2, <1>3, PTL DEF LimiterSpec

(* A key is never allowed more than its burst and its rate permit,         *)
(* whatever order requests reach the bucket in.                            *)
THEOREM BudgetAlwaysKept == LimiterSpec => []BudgetKept
<1>1. LimiterInit => LimiterInv
  BY InitLimiterInv
<1>2. LimiterInv /\ [LimiterNext]_vars => LimiterInv'
  BY NextLimiterInv
<1>3. LimiterInv => BudgetKept
  BY BalanceIsBudget
<1> QED
  BY <1>1, <1>2, <1>3, PTL DEF LimiterSpec

-----------------------------------------------------------------------------
(* TokenVault: a connection is of the user who began it.  Whatever         *)
(* descends from its state, in a grant, a request or an answer, is in the  *)
(* hands of that user; and its state is with one callback at most.         *)
ExchangeReq == [at : {"exchange"}, c : Thing, user : User]
StoreReq == [at : {"store"}, user : User, access : Thing, refresh : Thing \cup {None},
             answer : BOOLEAN]
RefreshReq == [at : {"refresh"}, user : User, refresh : Thing]
VaultReq == {V!Idle} \cup ExchangeReq \cup StoreReq \cup RefreshReq

VaultTypes ==
  /\ begun \in [Thing -> User \cup {None}]
  /\ drawn \subseteq Thing
  /\ grant \in [User -> V!Grant \cup {None}]
  /\ vreq \in [Request -> VaultReq]
  /\ exchanged \in [Thing -> Nat]
  /\ handed \subseteq User \X Thing

Own(of, u, c) == c \in drawn /\ of[c] = u

Tokens(of, u, access, refresh) == Own(of, u, access) /\ (refresh # None => Own(of, u, refresh))

Carries(of, q) ==
  /\ q.at = "exchange" => Own(of, q.user, q.c)
  /\ q.at = "store" => Tokens(of, q.user, q.access, q.refresh)
  /\ q.at = "refresh" => Own(of, q.user, q.refresh)

Fits(of) ==
  /\ \A c \in Thing : begun[c] # None => Own(of, begun[c], c)
  /\ \A u \in User : grant[u] # None => Tokens(of, u, grant[u].access, grant[u].refresh)
  /\ \A r \in Request : Carries(of, vreq[r])
  /\ \A h \in handed : Own(of, h[1], h[2])

TakenOnce ==
  /\ \A c \in Thing : /\ exchanged[c] <= 1
                      /\ c \notin drawn \/ begun[c] # None => exchanged[c] = 0
  /\ \A r \in Request : vreq[r].at = "exchange" =>
       /\ begun[vreq[r].c] = None /\ exchanged[vreq[r].c] = 0
       /\ \A s \in Request : s # r /\ vreq[s].at = "exchange" => vreq[s].c # vreq[r].c

VaultInv == VaultTypes /\ TakenOnce /\ \E of \in [Thing -> User \cup {None}] : Fits(of)

LEMMA VaultIdle == V!Idle \in VaultReq /\ V!Idle.at = "idle"
BY DEF VaultReq, V!Idle

LEMMA VaultReqAt ==
  ASSUME NEW q \in VaultReq
  PROVE  /\ q.at = "exchange" => q \in ExchangeReq
         /\ q.at = "store" => q \in StoreReq
         /\ q.at = "refresh" => q \in RefreshReq
<1>1. CASE q = V!Idle
  BY <1>1 DEF V!Idle
<1>2. CASE q \in ExchangeReq
  BY <1>2 DEF ExchangeReq
<1>3. CASE q \in StoreReq
  BY <1>3 DEF StoreReq
<1>4. CASE q \in RefreshReq
  BY <1>4 DEF RefreshReq
<1> QED BY <1>1, <1>2, <1>3, <1>4 DEF VaultReq

LEMMA FitsMoves ==
  ASSUME VaultTypes, NEW of, Fits(of), drawn \subseteq drawn',
         NEW of2, \A c \in drawn : of2[c] = of[c],
         \A c \in Thing : begun'[c] \in {begun[c], None} \/ Own(of2, begun[c], c)',
         \A u \in User : grant'[u] \in {grant[u], None}
                           \/ Tokens(of2, u, grant[u].access, grant[u].refresh)',
         \A r \in Request : vreq'[r] = vreq[r] \/ Carries(of2, vreq[r])',
         \A h \in handed' : h \in handed \/ Own(of2, h[1], h[2])'
  PROVE  Fits(of2)'
<1>1. \A u, c : Own(of, u, c) => Own(of2, u, c)'
  BY DEF Own
<1>2. \A u, a, f : Tokens(of, u, a, f) => Tokens(of2, u, a, f)'
  BY <1>1 DEF Tokens
<1>3. \A q : Carries(of, q) => Carries(of2, q)'
  BY <1>1, <1>2 DEF Carries
<1>4. ASSUME NEW r \in Request PROVE Carries(of2, vreq[r])'
  BY <1>3 DEF Fits
<1>5. ASSUME NEW c \in Thing, begun'[c] # None PROVE Own(of2, begun[c], c)'
  BY <1>1, <1>5 DEF Fits
<1>6. ASSUME NEW u \in User, grant'[u] # None
      PROVE  Tokens(of2, u, grant[u].access, grant[u].refresh)'
  BY <1>2, <1>6 DEF Fits
<1>7. ASSUME NEW h \in handed' PROVE Own(of2, h[1], h[2])'
  BY <1>1 DEF Fits
<1> QED BY <1>4, <1>5, <1>6, <1>7 DEF Fits

(* No request sets out to the provider.                                    *)
LEMMA NobodySetsOut ==
  ASSUME TakenOnce, UNCHANGED <<begun, drawn, exchanged>>,
         \A r \in Request : vreq'[r] = vreq[r] \/ vreq'[r].at # "exchange"
  PROVE  TakenOnce'
BY DEF TakenOnce

(* A step of a request that leaves states and grants alone.                *)
LEMMA VaultRequest ==
  ASSUME VaultInv, NEW r \in Request, NEW q \in VaultReq, vreq' = [vreq EXCEPT ![r] = q],
         q.at # "exchange", UNCHANGED <<begun, drawn, grant, exchanged>>,
         handed' \subseteq User \X Thing,
         \A of : Fits(of) => Carries(of, q) /\ \A h \in handed' : h \in handed \/ Own(of, h[1], h[2])
  PROVE  VaultInv'
<1>1. VaultTypes /\ TakenOnce
  BY DEF VaultInv
<1>2. PICK of \in [Thing -> User \cup {None}] : Fits(of)
  BY DEF VaultInv
<1>3. vreq'[r] = q /\ \A s \in Request : s # r => vreq'[s] = vreq[s]
  BY <1>1 DEF VaultTypes
<1>4. VaultTypes'
  BY <1>1 DEF VaultTypes
<1>5. TakenOnce'
  BY <1>1, <1>3, NobodySetsOut
<1>6. \A u, c : Own(of, u, c) => Own(of, u, c)'
  BY DEF Own
<1>7. Carries(of, q) => Carries(of, q)'
  BY <1>6 DEF Carries, Tokens
<1>8. Carries(of, vreq[r])'
  BY <1>2, <1>3, <1>7
<1>9. Fits(of)'
  BY <1>1, <1>2, <1>3, <1>6, <1>8, FitsMoves
<1> QED BY <1>2, <1>4, <1>5, <1>9 DEF VaultInv

LEMMA BeginConnectStep ==
  ASSUME VaultInv, NEW u \in User, NEW c \in Thing, V!BeginConnect(u, c)
  PROVE  VaultInv'
<1>1. /\ c \notin drawn
      /\ begun' = [begun EXCEPT ![c] = u] /\ drawn' = drawn \cup {c}
      /\ UNCHANGED <<grant, vreq, exchanged, handed>>
  BY DEF V!BeginConnect
<1>2. VaultTypes /\ TakenOnce
  BY DEF VaultInv
<1>3. PICK of \in [Thing -> User \cup {None}] : Fits(of)
  BY DEF VaultInv
<1>4. PICK of2 : of2 = [of EXCEPT ![c] = u]
  OBVIOUS
<1>5. of2 \in [Thing -> User \cup {None}] /\ of2[c] = u /\ \A d \in Thing : d # c => of2[d] = of[d]
  BY <1>4
<1>6. begun'[c] = u /\ \A d \in Thing : d # c => begun'[d] = begun[d]
  BY <1>1, <1>2 DEF VaultTypes
<1>7. VaultTypes'
  BY <1>1, <1>2 DEF VaultTypes
<1>8. ASSUME NEW r \in Request, vreq[r].at = "exchange" PROVE vreq[r].c # c /\ vreq[r].c \in Thing
  <2>1. Carries(of, vreq[r])
    BY <1>3 DEF Fits
  <2> QED BY <1>1, <1>2, <1>8, <2>1 DEF Carries, Own, VaultTypes
<1>9. TakenOnce'
  BY <1>1, <1>2, <1>6, <1>8 DEF TakenOnce
<1>10. Own(of2, begun[c], c)'
  BY <1>1, <1>5, <1>6 DEF Own
<1>11. \A d \in drawn : of2[d] = of[d]
  BY <1>1, <1>2, <1>5 DEF VaultTypes
<1>12. Fits(of2)'
  BY <1>1, <1>2, <1>3, <1>6, <1>10, <1>11, FitsMoves
<1> QED BY <1>5, <1>7, <1>9, <1>12 DEF VaultInv

LEMMA DeleteConnectStateStep ==
  ASSUME VaultInv, NEW r \in Request, NEW c \in Thing, V!DeleteConnectState(r, c)
  PROVE  VaultInv'
<1>1. PICK u, q : u = begun[c] /\ q = [at |-> "exchange", c |-> c, user |-> u]
  OBVIOUS
<1>2. /\ u # None /\ begun' = [begun EXCEPT ![c] = None]
      /\ vreq' = vreq \/ vreq' = [vreq EXCEPT ![r] = q]
      /\ UNCHANGED <<drawn, grant, exchanged, handed>>
  BY <1>1 DEF V!DeleteConnectState, V!StateTaken, V!Becomes
<1>3. VaultTypes /\ TakenOnce /\ u \in User
  BY <1>1, <1>2 DEF VaultInv, VaultTypes
<1>4. PICK of \in [Thing -> User \cup {None}] : Fits(of)
  BY DEF VaultInv
<1>5. q \in ExchangeReq /\ q.at = "exchange" /\ q.c = c /\ q.user = u
  BY <1>1, <1>3 DEF ExchangeReq
<1>6. VaultTypes'
  BY <1>2, <1>3, <1>5 DEF VaultTypes, VaultReq
<1>7. begun'[c] = None /\ \A d \in Thing : d # c => begun'[d] = begun[d]
  BY <1>2, <1>3 DEF VaultTypes
<1>8. /\ vreq'[r] \in {vreq[r], q} /\ \A s \in Request : s # r => vreq'[s] = vreq[s]
  BY <1>2, <1>3 DEF VaultTypes
<1>9. ASSUME NEW s \in Request, vreq[s].at = "exchange" PROVE vreq[s].c # c /\ vreq[s].c \in Thing
  <2>1. vreq[s].c \in Thing
    BY <1>3, <1>9, VaultReqAt DEF VaultTypes, ExchangeReq
  <2> QED BY <1>1, <1>2, <1>3, <1>9, <2>1 DEF TakenOnce
<1>10. exchanged[c] = 0
  BY <1>1, <1>2, <1>3 DEF TakenOnce
<1>11. TakenOnce'
  BY <1>2, <1>3, <1>5, <1>7, <1>8, <1>9, <1>10 DEF TakenOnce
<1>12. Own(of, u, c)'
  BY <1>1, <1>2, <1>4 DEF Fits, Own
<1>13. Carries(of, q)'
  BY <1>5, <1>12 DEF Carries
<1>14. vreq'[r] = vreq[r] \/ Carries(of, vreq[r])'
  BY <1>8, <1>13
<1>15. Fits(of)'
  BY <1>2, <1>3, <1>4, <1>7, <1>8, <1>14, FitsMoves
<1> QED BY <1>4, <1>6, <1>11, <1>15 DEF VaultInv


LEMMA FinishConnectStep ==
  ASSUME VaultInv, NEW r \in Request, NEW refreshable \in BOOLEAN,
         V!FinishConnect(r, refreshable)
  PROVE  VaultInv'
<1>1. PICK c, u, f : c = vreq[r].c /\ u = vreq[r].user
                     /\ f = IF refreshable THEN c ELSE None
  OBVIOUS
<1>2. PICK q : q = [at |-> "store", user |-> u, access |-> c, refresh |-> f, answer |-> FALSE]
  OBVIOUS
<1>3. /\ vreq[r].at = "exchange"
      /\ exchanged' = [exchanged EXCEPT ![c] = @ + 1]
      /\ vreq' = [vreq EXCEPT ![r] = q]
      /\ UNCHANGED <<begun, drawn, grant, handed>>
  BY <1>1, <1>2 DEF V!FinishConnect, V!Becomes
<1>4. VaultTypes /\ TakenOnce
  BY DEF VaultInv
<1>5. c \in Thing /\ u \in User
  BY <1>1, <1>3, <1>4, VaultReqAt DEF VaultTypes, ExchangeReq
<1>6. q \in StoreReq /\ q.at = "store" /\ q.user = u /\ q.access = c /\ q.refresh \in {c, None}
  BY <1>1, <1>2, <1>5 DEF StoreReq
<1>7. PICK of \in [Thing -> User \cup {None}] : Fits(of)
  BY DEF VaultInv
<1>8. /\ vreq'[r] = q /\ \A s \in Request : s # r => vreq'[s] = vreq[s]
      /\ exchanged'[c] = exchanged[c] + 1 /\ \A d \in Thing : d # c => exchanged'[d] = exchanged[d]
      /\ exchanged[c] + 1 \in Nat
  BY <1>3, <1>4, <1>5 DEF VaultTypes
<1>9. VaultTypes'
  BY <1>3, <1>4, <1>5, <1>6, <1>8 DEF VaultTypes, VaultReq
<1>10. exchanged[c] = 0 /\ begun[c] = None
       /\ \A s \in Request : s # r /\ vreq[s].at = "exchange" => vreq[s].c # c
  BY <1>1, <1>3, <1>4 DEF TakenOnce
<1>11. Own(of, u, c) /\ Own(of, u, c)'
  BY <1>1, <1>3, <1>7 DEF Fits, Carries, Own
<1>12. ASSUME NEW s \in Request, s # r, vreq[s].at = "exchange"
       PROVE vreq[s].c # c /\ vreq[s].c \in Thing
  BY <1>4, <1>10, <1>12, VaultReqAt DEF VaultTypes, ExchangeReq
<1>13. TakenOnce'
  <2>1. \A d \in Thing : /\ exchanged'[d] <= 1
                         /\ d \notin drawn \/ begun[d] # None => exchanged'[d] = 0
    BY <1>4, <1>8, <1>10, <1>11 DEF TakenOnce, Own
  <2>2. ASSUME NEW s \in Request, vreq'[s].at = "exchange"
        PROVE  /\ s # r /\ vreq'[s] = vreq[s]
               /\ begun[vreq[s].c] = None /\ exchanged'[vreq[s].c] = 0
    BY <1>4, <1>6, <1>8, <1>12, <2>2 DEF TakenOnce
  <2>3. ASSUME NEW s \in Request, vreq'[s].at = "exchange",
               NEW t \in Request, vreq'[t].at = "exchange", t # s
        PROVE  vreq'[t].c # vreq'[s].c
    BY <1>4, <2>2, <2>3 DEF TakenOnce
  <2> QED BY <1>3, <2>1, <2>2, <2>3 DEF TakenOnce
<1>14. Carries(of, q)'
  BY <1>6, <1>11 DEF Carries, Tokens
<1>15. Carries(of, vreq[r])'
  BY <1>8, <1>14
<1>16. Fits(of)'
  BY <1>3, <1>4, <1>7, <1>8, <1>15, FitsMoves
<1> QED BY <1>7, <1>9, <1>13, <1>16 DEF VaultInv

LEMMA StoreGrantStep ==
  ASSUME VaultInv, NEW r \in Request, V!StoreGrant(r)
  PROVE  VaultInv'
<1>1. PICK u, a, f : u = vreq[r].user /\ a = vreq[r].access /\ f = V!Kept(u, vreq[r].refresh)
  OBVIOUS
<1>2. PICK g : g = [access |-> a, refresh |-> f, expired |-> FALSE]
  OBVIOUS
<1>3. /\ vreq[r].at = "store"
      /\ grant' = [grant EXCEPT ![u] = g]
      /\ handed' \in {handed, handed \cup {<<u, a>>}}
      /\ vreq' = [vreq EXCEPT ![r] = V!Idle]
      /\ UNCHANGED <<begun, drawn, exchanged>>
  BY <1>1, <1>2 DEF V!StoreGrant, V!Becomes
<1>4. VaultTypes /\ TakenOnce
  BY DEF VaultInv
<1>5. vreq[r] \in StoreReq
  BY <1>3, <1>4, VaultReqAt DEF VaultTypes
<1>6. u \in User /\ a \in Thing /\ vreq[r].refresh \in Thing \cup {None}
  BY <1>1, <1>5 DEF StoreReq
<1>7. grant[u] # None => grant[u].refresh \in Thing \cup {None}
  BY <1>4, <1>6 DEF VaultTypes, V!Grant
<1>8. f \in Thing \cup {None}
  BY <1>1, <1>6, <1>7 DEF V!Kept
<1>9. g \in V!Grant /\ g.access = a /\ g.refresh = f
  BY <1>2, <1>6, <1>8 DEF V!Grant
<1>10. PICK of \in [Thing -> User \cup {None}] : Fits(of)
  BY DEF VaultInv
<1>11. Own(of, u, a) /\ (f # None => Own(of, u, f))
  <2>1. Tokens(of, u, a, vreq[r].refresh)
    BY <1>1, <1>3, <1>10 DEF Fits, Carries
  <2>2. grant[u] # None => Tokens(of, u, grant[u].access, grant[u].refresh)
    BY <1>6, <1>10 DEF Fits
  <2> QED BY <1>1, <2>1, <2>2 DEF Tokens, V!Kept
<1>12. Own(of, u, a)' /\ Tokens(of, u, a, f)'
  BY <1>3, <1>11 DEF Own, Tokens
<1>13. /\ vreq'[r] = V!Idle /\ \A s \in Request : s # r => vreq'[s] = vreq[s]
       /\ grant'[u] = g /\ \A w \in User : w # u => grant'[w] = grant[w]
  BY <1>3, <1>4, <1>6 DEF VaultTypes
<1>14. VaultTypes'
  BY <1>3, <1>4, <1>6, <1>9, VaultIdle DEF VaultTypes
<1>15. TakenOnce'
  BY <1>3, <1>4, <1>13, VaultIdle, NobodySetsOut
<1>16. Tokens(of, u, grant[u].access, grant[u].refresh)'
  BY <1>9, <1>12, <1>13 DEF Tokens, Own
<1>17. ASSUME NEW h \in handed', h \notin handed PROVE Own(of, h[1], h[2])'
  BY <1>3, <1>12, <1>17
<1>18. Carries(of, vreq[r])'
  BY <1>13, VaultIdle DEF Carries
<1>19. Fits(of)'
  BY <1>3, <1>4, <1>10, <1>13, <1>16, <1>17, <1>18, FitsMoves
<1> QED BY <1>10, <1>14, <1>15, <1>19 DEF VaultInv

LEMMA GetTokenGrantStep ==
  ASSUME VaultInv, NEW r \in Request, NEW u \in User, V!GetTokenGrant(r, u)
  PROVE  VaultInv'
<1>1. VaultTypes /\ grant[u] # None
  BY DEF VaultInv, V!GetTokenGrant
<1>2. grant[u].access \in Thing /\ grant[u].refresh \in Thing \cup {None}
  BY <1>1 DEF VaultTypes, V!Grant
<1>3. PICK of \in [Thing -> User \cup {None}] : Fits(of)
  BY DEF VaultInv
<1>4. \A o : Fits(o) => Tokens(o, u, grant[u].access, grant[u].refresh)
  BY <1>1 DEF Fits
<1>5. CASE ~grant[u].expired
  <2>1. /\ handed' = handed \cup {<<u, grant[u].access>>}
        /\ UNCHANGED <<begun, drawn, grant, vreq, exchanged>>
    BY <1>5 DEF V!GetTokenGrant
  <2>2. VaultTypes'
    BY <1>1, <1>2, <2>1 DEF VaultTypes
  <2>3. TakenOnce'
    BY <2>1, NobodySetsOut DEF VaultInv
  <2>4. ASSUME NEW h \in handed', h \notin handed PROVE Own(of, h[1], h[2])'
    BY <1>3, <1>4, <2>1, <2>4 DEF Tokens, Own
  <2>5. Fits(of)'
    BY <1>1, <1>3, <2>1, <2>4, FitsMoves
  <2> QED BY <1>3, <2>2, <2>3, <2>5 DEF VaultInv
<1>6. CASE grant[u].expired
  <2>1. PICK q : q = [at |-> "refresh", user |-> u, refresh |-> grant[u].refresh]
    OBVIOUS
  <2>2. /\ grant[u].refresh # None /\ vreq' = [vreq EXCEPT ![r] = q]
        /\ UNCHANGED <<begun, drawn, grant, exchanged, handed>>
    BY <1>6, <2>1 DEF V!GetTokenGrant, V!Becomes
  <2>3. q \in RefreshReq /\ q.at = "refresh" /\ q.user = u /\ q.refresh = grant[u].refresh
    BY <1>2, <2>1, <2>2 DEF RefreshReq
  <2>4. q \in VaultReq
    BY <2>3 DEF VaultReq
  <2>5. \A o : Fits(o) => Carries(o, q)
    BY <1>4, <2>2, <2>3 DEF Tokens, Carries
  <2>6. handed' = handed /\ handed \subseteq User \X Thing
    BY <1>1, <2>2 DEF VaultTypes
  <2> QED BY <2>2, <2>3, <2>4, <2>5, <2>6, VaultRequest
<1> QED BY <1>5, <1>6

LEMMA GetAccessTokenStep ==
  ASSUME VaultInv, NEW r \in Request, V!GetAccessToken(r)
  PROVE  VaultInv'
<1>1. PICK u, f : u = vreq[r].user /\ f = vreq[r].refresh
  OBVIOUS
<1>2. PICK q : q = [at |-> "store", user |-> u, access |-> f, refresh |-> f, answer |-> TRUE]
  OBVIOUS
<1>3. /\ vreq[r].at = "refresh" /\ vreq' = [vreq EXCEPT ![r] = q]
      /\ UNCHANGED <<begun, drawn, grant, exchanged, handed>>
  BY <1>1, <1>2 DEF V!GetAccessToken, V!Becomes
<1>4. VaultTypes /\ vreq[r] \in RefreshReq
  BY <1>3, VaultReqAt DEF VaultInv, VaultTypes
<1>5. q \in StoreReq /\ q.at = "store" /\ q.user = u /\ q.access = f /\ q.refresh = f
  BY <1>1, <1>2, <1>4 DEF StoreReq, RefreshReq
<1>6. q \in VaultReq
  BY <1>5 DEF VaultReq
<1>7. \A o : Fits(o) => Carries(o, q)
  BY <1>1, <1>3, <1>5 DEF Fits, Carries, Tokens
<1>8. handed' = handed /\ handed \subseteq User \X Thing
  BY <1>3, <1>4 DEF VaultTypes
<1> QED BY <1>3, <1>5, <1>6, <1>7, <1>8, VaultRequest

LEMMA VaultFailsStep ==
  ASSUME VaultInv, NEW r \in Request, V!Fails(r)
  PROVE  VaultInv'
<1>1. PICK q : q = V!Idle
  OBVIOUS
<1>2. /\ vreq' = [vreq EXCEPT ![r] = q]
      /\ UNCHANGED <<begun, drawn, grant, exchanged, handed>>
  BY <1>1 DEF V!Fails, V!Becomes
<1>3. q \in VaultReq /\ q.at = "idle"
  BY <1>1, VaultIdle
<1>4. \A o : Carries(o, q)
  BY <1>3 DEF Carries
<1>5. handed' = handed /\ handed \subseteq User \X Thing
  BY <1>2 DEF VaultInv, VaultTypes
<1> QED BY <1>2, <1>3, <1>4, <1>5, VaultRequest

(* A grant ends, or the provider stops to take its access token.           *)
LEMMA GrantStep ==
  ASSUME VaultInv, NEW u \in User, V!Expire(u) \/ V!Disconnect(u)
  PROVE  VaultInv'
<1>1. PICK g : g = [grant[u] EXCEPT !.expired = TRUE]
  OBVIOUS
<1>2. /\ grant[u] # None
      /\ grant' = [grant EXCEPT ![u] = g] \/ grant' = [grant EXCEPT ![u] = None]
      /\ UNCHANGED <<begun, drawn, vreq, exchanged, handed>>
  BY <1>1 DEF V!Expire, V!Disconnect
<1>3. VaultTypes /\ TakenOnce
  BY DEF VaultInv
<1>4. grant[u] \in V!Grant
  BY <1>2, <1>3 DEF VaultTypes
<1>5. g = [access |-> grant[u].access, refresh |-> grant[u].refresh, expired |-> TRUE]
  BY <1>1, <1>4 DEF V!Grant
<1>6. g \in V!Grant /\ g.access = grant[u].access /\ g.refresh = grant[u].refresh
  BY <1>4, <1>5 DEF V!Grant
<1>7. grant'[u] \in {g, None} /\ \A w \in User : w # u => grant'[w] = grant[w]
  BY <1>2, <1>3 DEF VaultTypes
<1>8. VaultTypes'
  BY <1>2, <1>3, <1>6 DEF VaultTypes
<1>9. TakenOnce'
  BY <1>2, <1>3, NobodySetsOut
<1>10. PICK of \in [Thing -> User \cup {None}] : Fits(of)
  BY DEF VaultInv
<1>11. Tokens(of, u, grant[u].access, grant[u].refresh)
  BY <1>2, <1>10 DEF Fits
<1>12. Tokens(of, u, g.access, g.refresh)'
  BY <1>2, <1>6, <1>11 DEF Tokens, Own
<1>13. grant'[u] = None \/ Tokens(of, u, grant[u].access, grant[u].refresh)'
  BY <1>7, <1>12 DEF Tokens, Own
<1>14. Fits(of)'
  BY <1>2, <1>3, <1>7, <1>10, <1>13, FitsMoves
<1> QED BY <1>8, <1>9, <1>10, <1>14 DEF VaultInv

LEMMA VaultInitInv == V!VaultInit => VaultInv
<1> SUFFICES ASSUME V!VaultInit PROVE VaultInv
  OBVIOUS
<1>1. /\ begun = [c \in Thing |-> None] /\ drawn = {} /\ grant = [u \in User |-> None]
      /\ vreq = [r \in Request |-> V!Idle] /\ exchanged = [c \in Thing |-> 0] /\ handed = {}
  BY DEF V!VaultInit
<1>2. VaultTypes
  BY <1>1, VaultIdle DEF VaultTypes
<1>3. PICK of : of = [c \in Thing |-> None]
  OBVIOUS
<1>4. of \in [Thing -> User \cup {None}]
  BY <1>3
<1>5. Fits(of)
  BY <1>1, VaultIdle DEF Fits, Carries
<1>6. TakenOnce
  BY <1>1, VaultIdle DEF TakenOnce
<1> QED BY <1>2, <1>4, <1>5, <1>6 DEF VaultInv

LEMMA VaultStep == VaultInv /\ (V!VaultNext \/ UNCHANGED vaultVars) => VaultInv'
<1> SUFFICES ASSUME VaultInv, V!VaultNext \/ UNCHANGED vaultVars PROVE VaultInv'
  OBVIOUS
<1>1. ASSUME UNCHANGED <<begun, drawn, grant, vreq, exchanged, handed>> PROVE VaultInv'
  BY <1>1 DEF VaultInv, VaultTypes, TakenOnce, Fits, Carries, Tokens, Own
<1>2. CASE \/ UNCHANGED vaultVars \/ V!RegisterProvider \/ V!DeleteProvider
           \/ \E c \in Thing : V!Lapse(c)
  BY <1>1, <1>2 DEF vaultVars, V!RegisterProvider, V!DeleteProvider, V!Lapse
<1>3. CASE V!VaultNext
  BY <1>2, <1>3, GrantStep, BeginConnectStep, DeleteConnectStateStep, GetTokenGrantStep,
     FinishConnectStep, StoreGrantStep, GetAccessTokenStep, VaultFailsStep DEF V!VaultNext
<1> QED BY <1>2, <1>3

LEMMA VaultSafe == VaultInv => V!ConnectedOnce
<1> SUFFICES ASSUME VaultInv PROVE V!ConnectedOnce
  OBVIOUS
<1>1. PICK of \in [Thing -> User \cup {None}] : Fits(of)
  BY DEF VaultInv
<1>2. \A h \in handed : of[h[2]] = h[1]
  BY <1>1 DEF Fits, Own
<1> QED BY <1>2 DEF VaultInv, TakenOnce, V!ConnectedOnce

-----------------------------------------------------------------------------
(* Billing: a delivery that has a checkout's row has it alone, and the row *)
(* stays pending and the payment paid until it commits or gives up.        *)
BillingTypes ==
  /\ price \in [Plan -> Amount]
  /\ checkout \in [Thing -> B!Row \cup {None}]
  /\ session \in [Thing -> {"none", "open", "known", "paid"}]
  /\ hook \in [User -> Thing \cup {None}]
  /\ activated \in [Thing -> Nat]

PaidFor(c) ==
  /\ activated[c] <= 1
  /\ activated[c] = 1 => session[c] = "paid"
  /\ session[c] # "none" => checkout[c] # None
  /\ checkout[c] # None => (checkout[c].status = "completed" <=> activated[c] = 1)

Completing(w) ==
  hook[w] # None =>
    /\ checkout[hook[w]] # None /\ checkout[hook[w]].status = "pending"
    /\ session[hook[w]] = "paid"
    /\ \A v \in User : v # w => hook[v] # hook[w]

BillingInv ==
  BillingTypes /\ (\A c \in Thing : PaidFor(c)) /\ \A w \in User : Completing(w)

(* A step that touches one checkout, which no delivery has afterwards.     *)
LEMMA CheckoutMoves ==
  ASSUME BillingInv, BillingTypes', NEW c \in Thing,
         \A d \in Thing : d # c => /\ checkout'[d] = checkout[d] /\ session'[d] = session[d]
                                   /\ activated'[d] = activated[d],
         \A w \in User : hook'[w] \in {hook[w], None},
         \A w \in User : hook'[w] # c,
         PaidFor(c)'
  PROVE  BillingInv'
<1>1. ASSUME NEW d \in Thing, d # c PROVE PaidFor(d)'
  BY <1>1 DEF BillingInv, PaidFor
<1>2. ASSUME NEW w \in User PROVE Completing(w)'
  <2>1. CASE hook'[w] = None
    BY <2>1 DEF Completing
  <2>2. CASE hook'[w] # None
    <3>1. PICK d : d = hook[w]
      OBVIOUS
    <3>2. d = hook'[w] /\ d # None /\ d # c /\ d \in Thing
      BY <2>2, <3>1 DEF BillingInv, BillingTypes
    <3>3. /\ checkout[d] # None /\ checkout[d].status = "pending" /\ session[d] = "paid"
          /\ \A v \in User : v # w => hook[v] # d
      BY <3>1, <3>2 DEF BillingInv, Completing
    <3>4. \A v \in User : v # w => hook'[v] # d
      BY <3>2, <3>3
    <3> QED BY <3>2, <3>3, <3>4 DEF Completing
  <2> QED BY <2>1, <2>2
<1> QED BY <1>1, <1>2 DEF BillingInv

LEMMA CheckoutPaidStep ==
  ASSUME BillingInv, NEW t \in Home, NEW p \in Plan, NEW c \in Thing, B!CheckoutPaid(t, p, c)
  PROVE  BillingInv'
<1>1. PICK x : x = [tenant |-> t, plan |-> p, amount |-> price[p], status |-> "pending"]
  OBVIOUS
<1>2. /\ checkout[c] = None /\ checkout' = [checkout EXCEPT ![c] = x]
      /\ UNCHANGED <<price, session, hook, activated>>
  BY <1>1 DEF B!CheckoutPaid
<1>3. BillingTypes /\ PaidFor(c)
  BY DEF BillingInv
<1>4. x \in B!Row /\ x.status = "pending"
  BY <1>1, <1>3 DEF BillingTypes, B!Row
<1>5. x # None
  BY <1>4, IdentityAssumption
<1>6. BillingTypes'
  BY <1>2, <1>3, <1>4 DEF BillingTypes
<1>7. checkout'[c] = x /\ \A d \in Thing : d # c => checkout'[d] = checkout[d]
  BY <1>2, <1>3 DEF BillingTypes
<1>8. \A w \in User : hook'[w] # c
  <2>1. c # None
    BY IdentityAssumption
  <2> QED BY <1>2, <2>1 DEF BillingInv, BillingTypes, Completing
<1>9. PaidFor(c)'
  BY <1>2, <1>3, <1>4, <1>5, <1>7 DEF PaidFor
<1> QED BY <1>2, <1>6, <1>7, <1>8, <1>9, CheckoutMoves

(* The provider's side of a checkout moves on.                             *)
LEMMA PaymentStep ==
  ASSUME BillingInv, NEW c \in Thing, B!Open(c) \/ B!Answered(c) \/ B!Pay(c)
  PROVE  BillingInv'
<1>1. PICK s \in {"open", "known", "paid"} :
        /\ session' = [session EXCEPT ![c] = s]
        /\ s = "open" => checkout[c] # None
        /\ s \in {"known", "paid"} => session[c] # "none"
        /\ UNCHANGED <<price, checkout, hook, activated>>
  BY DEF B!Open, B!Answered, B!Pay
<1>2. BillingTypes /\ PaidFor(c)
  BY DEF BillingInv
<1>3. BillingTypes'
  BY <1>1, <1>2 DEF BillingTypes
<1>4. session'[c] = s /\ \A d \in Thing : d # c => session'[d] = session[d]
  BY <1>1, <1>2 DEF BillingTypes
<1>5. session[c] # "paid"
  BY DEF B!Open, B!Answered, B!Pay
<1>6. \A w \in User : hook'[w] # c
  <2>1. c # None
    BY IdentityAssumption
  <2> QED BY <1>1, <1>2, <1>5, <2>1 DEF BillingInv, BillingTypes, Completing
<1>7. PaidFor(c)'
  BY <1>1, <1>2, <1>4, <1>5 DEF PaidFor
<1> QED BY <1>1, <1>3, <1>4, <1>6, <1>7, CheckoutMoves


LEMMA CheckoutFailsStep ==
  ASSUME BillingInv, NEW c \in Thing, B!CheckoutFails(c)
  PROVE  BillingInv'
<1>1. PICK y : y = [checkout[c] EXCEPT !.status = "failed"]
  OBVIOUS
<1>2. /\ checkout[c] # None /\ session[c] \in {"none", "open"}
      /\ checkout' = [checkout EXCEPT ![c] = y]
      /\ UNCHANGED <<price, session, hook, activated>>
  BY <1>1 DEF B!CheckoutFails
<1>3. BillingTypes /\ PaidFor(c) /\ checkout[c] \in B!Row
  BY <1>2 DEF BillingInv, BillingTypes
<1>4. y = [tenant |-> checkout[c].tenant, plan |-> checkout[c].plan,
           amount |-> checkout[c].amount, status |-> "failed"]
  BY <1>1, <1>3 DEF B!Row
<1>5. y \in B!Row /\ y.status = "failed"
  BY <1>3, <1>4 DEF B!Row
<1>6. y # None /\ c # None
  BY <1>5, IdentityAssumption
<1>7. BillingTypes'
  BY <1>2, <1>3, <1>5 DEF BillingTypes
<1>8. checkout'[c] = y /\ \A d \in Thing : d # c => checkout'[d] = checkout[d]
  BY <1>2, <1>3 DEF BillingTypes
<1>9. \A w \in User : hook'[w] # c
  BY <1>2, <1>6 DEF BillingInv, BillingTypes, Completing
<1>10. PaidFor(c)'
  BY <1>2, <1>3, <1>5, <1>6, <1>8 DEF PaidFor
<1> QED BY <1>2, <1>7, <1>8, <1>9, <1>10, CheckoutMoves

LEMMA HandleWebhookStep ==
  ASSUME BillingInv, NEW w \in User, NEW c \in Thing, B!HandleWebhook(w, c)
  PROVE  BillingInv'
<1>1. /\ session[c] = "paid" /\ checkout[c] # None /\ checkout[c].status = "pending"
      /\ \A v \in User : hook[v] # c
      /\ hook' = [hook EXCEPT ![w] = c] /\ UNCHANGED <<price, checkout, session, activated>>
  BY DEF B!HandleWebhook, B!Claimable
<1>2. BillingTypes /\ \A d \in Thing : PaidFor(d)
  BY DEF BillingInv
<1>3. hook'[w] = c /\ \A v \in User : v # w => hook'[v] = hook[v]
  BY <1>1, <1>2 DEF BillingTypes
<1>4. BillingTypes'
  BY <1>1, <1>2 DEF BillingTypes
<1>5. \A d \in Thing : PaidFor(d)'
  BY <1>1, <1>2 DEF PaidFor
<1>6. ASSUME NEW v \in User PROVE Completing(v)'
  <2>1. CASE v = w
    BY <1>1, <1>3, <2>1 DEF Completing
  <2>2. CASE v # w
    <3>1. Completing(v) /\ hook'[v] = hook[v] /\ hook[v] # c
      BY <1>1, <1>3, <2>2 DEF BillingInv
    <3> QED BY <1>1, <1>3, <2>2, <3>1 DEF Completing
  <2> QED BY <2>1, <2>2
<1> QED BY <1>4, <1>5, <1>6 DEF BillingInv

LEMMA CompleteCheckoutStep ==
  ASSUME BillingInv, NEW w \in User, B!CompleteCheckout(w)
  PROVE  BillingInv'
<1>1. PICK c : c = hook[w]
  OBVIOUS
<1>2. PICK y : y = [checkout[c] EXCEPT !.status = "completed"]
  OBVIOUS
<1>3. /\ c # None /\ checkout' = [checkout EXCEPT ![c] = y]
      /\ activated' = [activated EXCEPT ![c] = @ + 1]
      /\ hook' = [hook EXCEPT ![w] = None] /\ UNCHANGED <<price, session>>
  BY <1>1, <1>2 DEF B!CompleteCheckout
<1>4. BillingTypes /\ c \in Thing
  BY <1>1, <1>3 DEF BillingInv, BillingTypes
<1>5. /\ checkout[c] # None /\ checkout[c].status = "pending" /\ session[c] = "paid"
      /\ \A v \in User : v # w => hook[v] # c
  BY <1>1, <1>3 DEF BillingInv, Completing
<1>6. checkout[c] \in B!Row /\ PaidFor(c)
  BY <1>4, <1>5 DEF BillingInv, BillingTypes
<1>7. y = [tenant |-> checkout[c].tenant, plan |-> checkout[c].plan,
           amount |-> checkout[c].amount, status |-> "completed"]
  BY <1>2, <1>6 DEF B!Row
<1>8. y \in B!Row /\ y.status = "completed"
  BY <1>6, <1>7 DEF B!Row
<1>9. activated[c] = 0
  BY <1>4, <1>5, <1>6 DEF PaidFor, BillingTypes
<1>10. /\ checkout'[c] = y /\ \A d \in Thing : d # c => checkout'[d] = checkout[d]
       /\ activated'[c] = 1 /\ \A d \in Thing : d # c => activated'[d] = activated[d]
       /\ hook'[w] = None /\ \A v \in User : v # w => hook'[v] = hook[v]
  BY <1>3, <1>4, <1>9 DEF BillingTypes
<1>11. BillingTypes'
  BY <1>3, <1>4, <1>8 DEF BillingTypes
<1>12. \A v \in User : hook'[v] # c
  BY <1>3, <1>5, <1>10
<1>13. y # None
  BY <1>8, IdentityAssumption
<1>14. PaidFor(c)'
  BY <1>3, <1>5, <1>8, <1>10, <1>13 DEF PaidFor
<1> QED BY <1>3, <1>4, <1>10, <1>11, <1>12, <1>14, CheckoutMoves

LEMMA CompletionFailsStep ==
  ASSUME BillingInv, NEW w \in User, B!CompletionFails(w)
  PROVE  BillingInv'
<1>1. hook' = [hook EXCEPT ![w] = None] /\ UNCHANGED <<price, checkout, session, activated>>
  BY DEF B!CompletionFails
<1>2. BillingTypes /\ \A d \in Thing : PaidFor(d)
  BY DEF BillingInv
<1>3. hook'[w] = None /\ \A v \in User : v # w => hook'[v] = hook[v]
  BY <1>1, <1>2 DEF BillingTypes
<1>4. BillingTypes'
  BY <1>1, <1>2 DEF BillingTypes
<1>5. \A d \in Thing : PaidFor(d)'
  BY <1>1, <1>2 DEF PaidFor
<1>6. ASSUME NEW v \in User PROVE Completing(v)'
  <2>1. CASE v = w
    BY <1>3, <2>1 DEF Completing
  <2>2. CASE v # w
    <3>1. Completing(v) /\ hook'[v] = hook[v]
      BY <1>3, <2>2 DEF BillingInv
    <3> QED BY <1>1, <1>3, <2>2, <3>1 DEF Completing
  <2> QED BY <2>1, <2>2
<1> QED BY <1>4, <1>5, <1>6 DEF BillingInv

LEMMA BillingInitInv == B!BillingInit => BillingInv
<1> SUFFICES ASSUME B!BillingInit PROVE BillingInv
  OBVIOUS
<1>1. BillingTypes
  BY DEF B!BillingInit, BillingTypes
<1> QED BY <1>1 DEF B!BillingInit, BillingInv, PaidFor, Completing

LEMMA BillingStep == BillingInv /\ (B!BillingNext \/ UNCHANGED billingVars) => BillingInv'
<1> SUFFICES ASSUME BillingInv, B!BillingNext \/ UNCHANGED billingVars PROVE BillingInv'
  OBVIOUS
<1>1. ASSUME UNCHANGED <<checkout, session, hook, activated>>, price' \in [Plan -> Amount]
      PROVE  BillingInv'
  BY <1>1 DEF BillingInv, BillingTypes, PaidFor, Completing
<1>2. price \in [Plan -> Amount]
  BY DEF BillingInv, BillingTypes
<1>3. ASSUME NEW p \in Plan, NEW v \in Amount, B!SeedBuiltins(p, v) PROVE BillingInv'
  <2>1. UNCHANGED <<checkout, session, hook, activated>> /\ price' = [price EXCEPT ![p] = v]
    BY <1>3 DEF B!SeedBuiltins
  <2>2. price' \in [Plan -> Amount]
    BY <1>2, <2>1
  <2> QED BY <1>1, <2>1, <2>2
<1>4. CASE \/ UNCHANGED billingVars
           \/ \E t \in Home : \/ B!Cancel(t)
                              \/ \E p \in Plan : B!PutSubscription(t, p) \/ B!CheckoutFree(t, p)
  BY <1>1, <1>2, <1>4 DEF billingVars, B!Cancel, B!PutSubscription, B!CheckoutFree
<1>5. CASE B!BillingNext
  BY <1>3, <1>4, <1>5, CheckoutPaidStep, PaymentStep, CheckoutFailsStep, HandleWebhookStep,
     CompleteCheckoutStep, CompletionFailsStep DEF B!BillingNext
<1> QED BY <1>4, <1>5

LEMMA BillingSafe == BillingInv => B!PaidIsActivatedOnce
BY DEF BillingInv, PaidFor, B!PaidIsActivatedOnce

-----------------------------------------------------------------------------
(* Factors: a code that a request has locked is unused, with it alone and, *)
(* as a second factor's, of one that is verified; a code that is not used  *)
(* has not counted.  Proofs are made inside the window they open, and who  *)
(* made one never goes back to having made none.                           *)
CodeRow == [to : F!Target, used : BOOLEAN]
CookieRow == [kind : {"device", "session"}, user : Home]
LockReq == [at : {"code"}, code : Thing, for : {"enrol", "verify", "contact"}]
WindowReq == [at : {"stepup"}, user : Home, earned : BOOLEAN]
ProvedReq == [at : {"proved"}, user : Home]
FactorReq == {F!Idle} \cup LockReq \cup WindowReq \cup ProvedReq

FactorTypes ==
  /\ factor \in [Factor -> {"absent", "unverified", "verified"}]
  /\ code \in [Thing -> CodeRow \cup {None}]
  /\ proof \in [Home -> {"never", "recent", "old"}]
  /\ cookie \in [Cookie -> CookieRow \cup {None}]
  /\ freq \in [Request -> FactorReq]
  /\ DOMAIN counted = Thing

Stands(c, for) == for = "verify" => code[c].to \in Factor /\ factor[code[c].to] = "verified"

Locks(r) ==
  freq[r].at = "code" =>
    /\ code[freq[r].code] # None /\ ~code[freq[r].code].used
    /\ Stands(freq[r].code, freq[r].for)
    /\ \A s \in Request : s # r /\ freq[s].at = "code" => freq[s].code # freq[r].code

GoodCount(p) == ~p.again /\ (p.for = "verify" => p.factor = "verified")

CountsOnce(c) ==
  /\ code[c] = None \/ ~code[c].used => counted[c] = {}
  /\ counted[c] = {} \/ \E p : counted[c] = {p} /\ GoodCount(p)

Earned == \A u \in Home : proof[u] = "recent" => u \in earned

Standing(q) ==
  /\ q.at = "stepup" => q.earned
  /\ q.at = "proved" => proof[q.user] # "never"

Trusted(k) == cookie[k] # None /\ cookie[k].kind = "device" => proof[cookie[k].user] # "never"

FactorInv ==
  /\ FactorTypes
  /\ \A r \in Request : Locks(r) /\ Standing(freq[r])
  /\ \A c \in Thing : CountsOnce(c)
  /\ Earned
  /\ \A k \in Cookie : Trusted(k)

LEMMA FactorIdle == F!Idle \in FactorReq /\ F!Idle.at = "idle"
BY DEF FactorReq, F!Idle

LEMMA FactorReqAt ==
  ASSUME NEW q \in FactorReq
  PROVE  /\ q.at = "code" => q \in LockReq
         /\ q.at = "stepup" => q \in WindowReq
         /\ q.at = "proved" => q \in ProvedReq
<1>1. CASE q = F!Idle
  BY <1>1 DEF F!Idle
<1>2. CASE q \in LockReq
  BY <1>2 DEF LockReq
<1>3. CASE q \in WindowReq
  BY <1>3 DEF WindowReq
<1>4. CASE q \in ProvedReq
  BY <1>4 DEF ProvedReq
<1> QED BY <1>1, <1>2, <1>3, <1>4 DEF FactorReq

(* What the locked codes of the others may see of a step.                  *)
LEMMA LocksMove ==
  ASSUME FactorInv,
         \A s \in Request : freq'[s] = freq[s] \/ freq'[s].at # "code",
         \A s \in Request : freq'[s] = freq[s] /\ freq[s].at = "code" =>
           /\ code'[freq[s].code] = code[freq[s].code]
           /\ Stands(freq[s].code, freq[s].for)'
  PROVE  \A s \in Request : Locks(s)'
<1> SUFFICES ASSUME NEW s \in Request, freq'[s].at = "code" PROVE Locks(s)'
  BY DEF Locks
<1>1. freq'[s] = freq[s] /\ freq[s].at = "code"
  OBVIOUS
<1>2. PICK q : q = freq[s]
  OBVIOUS
<1>3. /\ code[q.code] # None /\ ~code[q.code].used
      /\ \A t \in Request : t # s /\ freq[t].at = "code" => freq[t].code # q.code
  BY <1>1, <1>2 DEF FactorInv, Locks
<1>4. code'[q.code] = code[q.code] /\ Stands(q.code, q.for)' /\ freq'[s] = q
  BY <1>1, <1>2 DEF Stands
<1>5. \A t \in Request : t # s /\ freq'[t].at = "code" => freq'[t].code # q.code
  BY <1>3
<1> QED BY <1>3, <1>4, <1>5 DEF Locks, Stands

(* What the proofs, the requests that rest on them and the devices may see.*)
ProofsStay ==
  /\ proof' \in [Home -> {"never", "recent", "old"}]
  /\ \A u \in Home : proof[u] # "never" => proof'[u] # "never"
  /\ Earned'

LEMMA ProofsMove ==
  ASSUME FactorInv, ProofsStay
  PROVE  /\ \A q \in FactorReq : Standing(q) => Standing(q)'
         /\ \A k \in Cookie : cookie'[k] = cookie[k] => Trusted(k)'
<1>1. ASSUME NEW q \in FactorReq, Standing(q) PROVE Standing(q)'
  <2>1. q.at = "proved" => q.user \in Home
    BY FactorReqAt DEF ProvedReq
  <2> QED BY <1>1, <2>1 DEF Standing, ProofsStay
<1>2. ASSUME NEW k \in Cookie, cookie'[k] = cookie[k] PROVE Trusted(k)'
  <2>1. Trusted(k) /\ (cookie[k] # None => cookie[k].user \in Home)
    BY DEF FactorInv, FactorTypes, CookieRow
  <2> QED BY <1>2, <2>1 DEF Trusted, ProofsStay
<1> QED BY <1>1, <1>2

(* A step that leaves codes and factors alone.                             *)
LEMMA ProofMoves ==
  ASSUME FactorInv, UNCHANGED <<factor, code, counted>>, ProofsStay,
         freq' \in [Request -> FactorReq],
         \A s \in Request : freq'[s] = freq[s] \/ (freq'[s].at # "code" /\ Standing(freq[s])'),
         cookie' \in [Cookie -> CookieRow \cup {None}],
         \A k \in Cookie : cookie'[k] = cookie[k] \/ Trusted(k)'
  PROVE  FactorInv'
<1>1. FactorTypes
  BY DEF FactorInv
<1>2. FactorTypes'
  BY <1>1 DEF FactorTypes, ProofsStay
<1>3. \A s \in Request : Locks(s)'
  <2>1. \A s \in Request : freq[s].at = "code" => Stands(freq[s].code, freq[s].for)
    BY DEF FactorInv, Locks
  <2>2. \A c, for : Stands(c, for) => Stands(c, for)'
    BY DEF Stands
  <2>3. ASSUME NEW s \in Request, freq'[s] = freq[s], freq[s].at = "code"
        PROVE  Stands(freq[s].code, freq[s].for)'
    BY <2>1, <2>2, <2>3
  <2> QED BY <2>3, LocksMove
<1>4. ASSUME NEW s \in Request PROVE Standing(freq[s])'
  <2>1. Standing(freq[s]) /\ freq[s] \in FactorReq
    BY <1>1 DEF FactorInv, FactorTypes
  <2>2. PICK q : q = freq[s]
    OBVIOUS
  <2>3. Standing(q)'
    BY <2>1, <2>2, ProofsMove
  <2> QED BY <2>2, <2>3
<1>5. \A c \in Thing : CountsOnce(c)'
  BY DEF FactorInv, CountsOnce
<1>6. \A k \in Cookie : Trusted(k)'
  BY ProofsMove
<1> QED BY <1>2, <1>3, <1>4, <1>5, <1>6 DEF FactorInv, ProofsStay

LEMMA NoProofs == ASSUME FactorInv, UNCHANGED <<proof, earned>> PROVE ProofsStay
BY DEF FactorInv, FactorTypes, ProofsStay, Earned

(* A request goes on to q, or ends.                                        *)
LEMMA FactorRequest ==
  ASSUME FactorInv, NEW r \in Request, NEW q \in FactorReq, freq' = [freq EXCEPT ![r] = q],
         q.at # "code", Standing(q)', ProofsStay, UNCHANGED <<factor, code, counted, cookie>>
  PROVE  FactorInv'
<1>1. FactorTypes
  BY DEF FactorInv
<1>2. /\ freq' \in [Request -> FactorReq] /\ freq'[r] = q
      /\ \A s \in Request : s # r => freq'[s] = freq[s]
  BY <1>1 DEF FactorTypes
<1>3. Standing(freq[r])'
  BY <1>2
<1>4. cookie' \in [Cookie -> CookieRow \cup {None}]
  BY <1>1 DEF FactorTypes
<1> QED BY <1>2, <1>3, <1>4, ProofMoves

(* A second factor is proved.                                              *)
LEMMA FactorRecorded ==
  ASSUME FactorInv, NEW u, F!RecordVerification(u, TRUE)
  PROVE  ProofsStay /\ (u \in Home => proof'[u] = "recent")
<1>1. proof' = [proof EXCEPT ![u] = "recent"] /\ earned' = earned \cup {u}
  BY DEF F!RecordVerification
<1>2. proof \in [Home -> {"never", "recent", "old"}] /\ Earned
  BY DEF FactorInv, FactorTypes
<1>3. /\ proof' \in [Home -> {"never", "recent", "old"}]
      /\ \A w \in Home : proof'[w] = IF w = u THEN "recent" ELSE proof[w]
  BY <1>1, <1>2
<1> QED BY <1>1, <1>2, <1>3 DEF ProofsStay, Earned


(* A code is sent; whoever has the factor's code locked, it is not this.   *)
LEMMA SendStep ==
  ASSUME FactorInv, NEW c \in Thing, NEW to \in F!Target, F!SendCode(c, to),
         factor' \in [Factor -> {"absent", "unverified", "verified"}],
         \A f \in Factor : factor'[f] = factor[f] \/ F!FactorFree(f),
         UNCHANGED <<proof, earned, cookie, freq, counted>>
  PROVE  FactorInv'
<1>1. PICK x : x = [to |-> to, used |-> FALSE]
  OBVIOUS
<1>2. code[c] = None /\ code' = [code EXCEPT ![c] = x]
  BY <1>1 DEF F!SendCode
<1>3. FactorTypes
  BY DEF FactorInv
<1>4. x \in CodeRow /\ ~x.used
  BY <1>1 DEF CodeRow
<1>5. FactorTypes'
  BY <1>2, <1>3, <1>4 DEF FactorTypes
<1>6. code'[c] = x /\ \A d \in Thing : d # c => code'[d] = code[d]
  BY <1>2, <1>3 DEF FactorTypes
<1>7. ASSUME NEW s \in Request, freq[s].at = "code"
      PROVE  code'[freq[s].code] = code[freq[s].code] /\ Stands(freq[s].code, freq[s].for)'
  <2>1. freq[s] \in LockReq
    BY <1>3, <1>7, FactorReqAt DEF FactorTypes
  <2>2. PICK d \in Thing : d = freq[s].code
    BY <2>1 DEF LockReq
  <2>3. code[d] # None /\ Stands(d, freq[s].for)
    BY <1>7, <2>2 DEF FactorInv, Locks
  <2>4. code'[d] = code[d]
    BY <1>2, <1>6, <2>3
  <2>5. code[d].to \in Factor => factor'[code[d].to] = factor[code[d].to]
    BY <1>7, <2>2 DEF F!FactorFree
  <2>6. Stands(d, freq[s].for)'
    BY <2>3, <2>4, <2>5 DEF Stands
  <2> QED BY <2>2, <2>4, <2>6
<1>8. \A s \in Request : Locks(s)'
  BY <1>7, LocksMove
<1>9. ASSUME NEW d \in Thing PROVE CountsOnce(d)'
  <2>1. CountsOnce(d)
    BY DEF FactorInv
  <2>2. d = c => counted[d] = {}
    BY <1>2, <2>1 DEF CountsOnce
  <2> QED BY <1>6, <2>1, <2>2 DEF CountsOnce
<1>10. \A s \in Request : Standing(freq[s])'
  BY DEF FactorInv, Standing
<1>11. Earned' /\ \A k \in Cookie : Trusted(k)'
  BY DEF FactorInv, Earned, Trusted
<1> QED BY <1>5, <1>8, <1>9, <1>10, <1>11 DEF FactorInv

(* A code is locked: nobody else has it.                                   *)
LEMMA LockStep ==
  ASSUME FactorInv, NEW r \in Request, NEW c \in Thing, NEW for \in {"enrol", "verify", "contact"},
         F!Usable(c), F!Unlocked(c), Stands(c, for),
         freq' = [freq EXCEPT ![r] = [at |-> "code", code |-> c, for |-> for]],
         freq[r] = F!Idle, UNCHANGED <<factor, code, proof, cookie, counted, earned>>
  PROVE  FactorInv'
<1>1. PICK q : q = [at |-> "code", code |-> c, for |-> for]
  OBVIOUS
<1>2. FactorTypes
  BY DEF FactorInv
<1>3. q \in LockReq /\ q \in FactorReq /\ q.at = "code" /\ q.code = c /\ q.for = for
  BY <1>1 DEF LockReq, FactorReq
<1>4. freq'[r] = q /\ \A s \in Request : s # r => freq'[s] = freq[s]
  BY <1>1, <1>2 DEF FactorTypes
<1>5. FactorTypes'
  BY <1>1, <1>2, <1>3 DEF FactorTypes
<1>6. code[c] # None /\ ~code[c].used
  BY DEF F!Usable
<1>7. \A s \in Request : freq[s].at = "code" => freq[s].code # c
  BY DEF F!Unlocked, F!Locking
<1>8. Locks(r)'
  <2>1. Stands(c, for)'
    BY DEF Stands
  <2> QED BY <1>3, <1>4, <1>6, <1>7, <2>1 DEF Locks, Stands
<1>9. ASSUME NEW s \in Request, s # r PROVE Locks(s)'
  <2>1. Locks(s)
    BY DEF FactorInv
  <2> QED BY <1>3, <1>4, <1>7, <1>9, <2>1 DEF Locks, Stands
<1>10. \A s \in Request : Standing(freq[s])'
  <2>1. \A s \in Request : Standing(freq[s])
    BY DEF FactorInv
  <2> QED BY <1>3, <1>4, <2>1 DEF Standing
<1>11. \A d \in Thing : CountsOnce(d)'
  BY DEF FactorInv, CountsOnce
<1>12. Earned' /\ \A k \in Cookie : Trusted(k)'
  BY DEF FactorInv, Earned, Trusted
<1> QED BY <1>5, <1>8, <1>9, <1>10, <1>11, <1>12 DEF FactorInv

(* The request that has a code locked uses it.                             *)
LEMMA UseCodeStep ==
  ASSUME FactorInv, NEW r \in Request, freq[r].at = "code", NEW u,
         F!UseCode(freq[r].code, freq[r].for, u), freq' = [freq EXCEPT ![r] = F!Idle],
         factor' \in [Factor -> {"absent", "unverified", "verified"}],
         \A f \in Factor : factor[f] = "verified" => factor'[f] = "verified",
         ProofsStay, UNCHANGED cookie
  PROVE  FactorInv'
<1>1. PICK c : c = freq[r].code
  OBVIOUS
<1>2. PICK y : y = [code[c] EXCEPT !.used = TRUE]
  OBVIOUS
<1>3. PICK p : p = [for |-> freq[r].for, user |-> u, again |-> code[c].used,
                    factor |-> IF code[c].to \in Factor THEN factor[code[c].to] ELSE "none"]
  OBVIOUS
<1>4. code' = [code EXCEPT ![c] = y] /\ counted' = [counted EXCEPT ![c] = @ \cup {p}]
  BY <1>1, <1>2, <1>3 DEF F!UseCode
<1>5. FactorTypes /\ c \in Thing
  <2>1. FactorTypes
    BY DEF FactorInv
  <2>2. freq[r] \in LockReq
    BY <2>1, FactorReqAt DEF FactorTypes
  <2> QED BY <1>1, <2>1, <2>2 DEF LockReq
<1>6. /\ code[c] # None /\ ~code[c].used /\ Stands(c, freq[r].for)
      /\ \A s \in Request : s # r /\ freq[s].at = "code" => freq[s].code # c
  BY <1>1 DEF FactorInv, Locks
<1>7. code[c] \in CodeRow /\ counted[c] = {}
  BY <1>5, <1>6 DEF FactorInv, FactorTypes, CountsOnce
<1>8. y = [to |-> code[c].to, used |-> TRUE]
  BY <1>2, <1>7 DEF CodeRow
<1>9. y \in CodeRow /\ y.used
  BY <1>7, <1>8 DEF CodeRow
<1>10. y # None
  BY <1>9, IdentityAssumption DEF CodeRow
<1>11. GoodCount(p)
  <2>1. p.for = freq[r].for /\ (p.again <=> code[c].used)
    BY <1>3
  <2>2. p.for = "verify" => p.factor = "verified"
    BY <1>3, <1>6, <2>1 DEF Stands
  <2> QED BY <1>6, <2>1, <2>2 DEF GoodCount
<1>12. /\ code'[c] = y /\ \A d \in Thing : d # c => code'[d] = code[d]
       /\ counted'[c] = {p} /\ \A d \in Thing : d # c => counted'[d] = counted[d]
       /\ freq'[r] = F!Idle /\ \A s \in Request : s # r => freq'[s] = freq[s]
  BY <1>4, <1>5, <1>7 DEF FactorTypes
<1>13. FactorTypes'
  BY <1>4, <1>5, <1>9, FactorIdle DEF FactorTypes, ProofsStay
<1>14. ASSUME NEW s \in Request, s # r, freq[s].at = "code"
       PROVE  code'[freq[s].code] = code[freq[s].code] /\ Stands(freq[s].code, freq[s].for)'
  <2>1. freq[s] \in LockReq
    BY <1>5, <1>14, FactorReqAt DEF FactorTypes
  <2>2. PICK d \in Thing : d = freq[s].code
    BY <2>1 DEF LockReq
  <2>3. code'[d] = code[d] /\ Stands(d, freq[s].for)
    BY <1>6, <1>12, <1>14, <2>2 DEF FactorInv, Locks
  <2>4. Stands(d, freq[s].for)'
    BY <1>12, <1>14, <2>3 DEF Stands
  <2> QED BY <1>12, <1>14, <2>2, <2>3, <2>4
<1>15. \A s \in Request : Locks(s)'
  BY <1>12, <1>14, FactorIdle, LocksMove
<1>16. ASSUME NEW d \in Thing PROVE CountsOnce(d)'
  <2>1. CASE d = c
    BY <1>9, <1>10, <1>11, <1>12, <2>1 DEF CountsOnce
  <2>2. CASE d # c
    BY <1>12, <2>2 DEF FactorInv, CountsOnce
  <2> QED BY <2>1, <2>2
<1>17. ASSUME NEW s \in Request PROVE Standing(freq[s])'
  <2>1. PICK q : q = freq'[s]
    OBVIOUS
  <2>2. q \in FactorReq /\ Standing(q)
    BY <1>5, <1>12, <2>1, FactorIdle DEF FactorInv, FactorTypes, Standing
  <2>3. Standing(q)'
    BY <2>2, ProofsMove
  <2> QED BY <2>1, <2>3
<1>18. Earned' /\ \A k \in Cookie : Trusted(k)'
  BY ProofsMove DEF ProofsStay
<1> QED BY <1>13, <1>15, <1>16, <1>17, <1>18 DEF FactorInv

(* Factors are dropped, and their codes used up, when none of them is      *)
(* locked.                                                                 *)
LEMMA DropStep ==
  ASSUME FactorInv, NEW G, F!DropFactors(G),
         UNCHANGED <<proof, cookie, freq, counted, earned>>
  PROVE  FactorInv'
<1>1. FactorTypes
  BY DEF FactorInv
<1>2. /\ \A f \in G : F!FactorFree(f)
      /\ factor' = [f \in Factor |-> IF f \in G THEN "absent" ELSE factor[f]]
      /\ code' = [c \in Thing |-> IF code[c] # None /\ code[c].to \in G
                                  THEN [code[c] EXCEPT !.used = TRUE] ELSE code[c]]
  BY DEF F!DropFactors
<1>3. ASSUME NEW c \in Thing
      PROVE  /\ code'[c] \in CodeRow \cup {None}
             /\ code'[c] = None \/ ~code'[c].used => code[c] = None \/ ~code[c].used
             /\ ~(code[c] # None /\ code[c].to \in G) => code'[c] = code[c]
  <2>1. CASE code[c] # None /\ code[c].to \in G
    <3>1. PICK y : y = [code[c] EXCEPT !.used = TRUE]
      OBVIOUS
    <3>2. code'[c] = y /\ code[c] \in CodeRow
      BY <1>1, <1>2, <2>1, <3>1 DEF FactorTypes
    <3>3. y = [to |-> code[c].to, used |-> TRUE]
      BY <3>1, <3>2 DEF CodeRow
    <3>4. y \in CodeRow /\ y.used
      BY <3>2, <3>3 DEF CodeRow
    <3>5. y # None
      BY <3>4, IdentityAssumption DEF CodeRow
    <3> QED BY <2>1, <3>2, <3>4, <3>5
  <2>2. CASE ~(code[c] # None /\ code[c].to \in G)
    <3>1. code'[c] = code[c]
      BY <1>2, <2>2
    <3> QED BY <1>1, <2>2, <3>1 DEF FactorTypes
  <2> QED BY <2>1, <2>2
<1>4. factor' \in [Factor -> {"absent", "unverified", "verified"}]
  BY <1>1, <1>2 DEF FactorTypes
<1>5. FactorTypes'
  <2>1. code' \in [Thing -> CodeRow \cup {None}]
    BY <1>2, <1>3
  <2> QED BY <1>1, <1>4, <2>1 DEF FactorTypes
<1>6. ASSUME NEW s \in Request, freq[s].at = "code"
      PROVE  code'[freq[s].code] = code[freq[s].code] /\ Stands(freq[s].code, freq[s].for)'
  <2>1. freq[s] \in LockReq
    BY <1>1, <1>6, FactorReqAt DEF FactorTypes
  <2>2. PICK d \in Thing : d = freq[s].code
    BY <2>1 DEF LockReq
  <2>3. code[d].to \notin G
    BY <1>2, <1>6, <2>2 DEF F!FactorFree
  <2>4. code'[d] = code[d] /\ Stands(d, freq[s].for)
    BY <1>3, <1>6, <2>2, <2>3 DEF FactorInv, Locks
  <2>5. Stands(d, freq[s].for)'
    BY <1>2, <2>3, <2>4 DEF Stands
  <2> QED BY <2>2, <2>4, <2>5
<1>7. \A s \in Request : Locks(s)'
  BY <1>6, LocksMove
<1>8. ASSUME NEW c \in Thing PROVE CountsOnce(c)'
  BY <1>3 DEF FactorInv, CountsOnce
<1>9. \A s \in Request : Standing(freq[s])'
  BY DEF FactorInv, Standing
<1>10. Earned' /\ \A k \in Cookie : Trusted(k)'
  BY DEF FactorInv, Earned, Trusted
<1> QED BY <1>5, <1>7, <1>8, <1>9, <1>10 DEF FactorInv


LEMMA GetOTPCodeStep ==
  ASSUME FactorInv, NEW r \in Request, NEW c \in Thing,
         \/ \E f \in Factor : F!GetOTPCodeForConfirm(r, f, c)
         \/ \E u \in Home : F!GetOTPCodeForVerify(r, u, c)
         \/ \E u \in Home, k \in F!Contact : F!GetLatestVerification(r, u, k, c)
  PROVE  FactorInv'
<1>1. \E for \in {"enrol", "verify", "contact"} :
        /\ freq[r] = F!Idle /\ F!Usable(c) /\ F!Unlocked(c) /\ Stands(c, for)
        /\ freq' = [freq EXCEPT ![r] = [at |-> "code", code |-> c, for |-> for]]
        /\ UNCHANGED <<factor, code, proof, cookie, counted, earned>>
  <2>1. CASE \E f \in Factor : F!GetOTPCodeForConfirm(r, f, c)
    BY <2>1 DEF F!GetOTPCodeForConfirm, F!Becomes, Stands
  <2>2. CASE \E u \in Home : F!GetOTPCodeForVerify(r, u, c)
    BY <2>2 DEF F!GetOTPCodeForVerify, F!Becomes, Stands
  <2>3. CASE \E u \in Home, k \in F!Contact : F!GetLatestVerification(r, u, k, c)
    BY <2>3 DEF F!GetLatestVerification, F!Becomes, Stands
  <2> QED BY <2>1, <2>2, <2>3
<1> QED BY <1>1, LockStep

LEMMA EnrollOTPConfirmStep ==
  ASSUME FactorInv, NEW r \in Request, F!EnrollOTPConfirm(r)
  PROVE  FactorInv'
<1>1. PICK f, u : /\ f = code[freq[r].code].to
                  /\ u = OwnerOf[f]
  OBVIOUS
<1>2. /\ freq[r].at = "code" /\ F!UseCode(freq[r].code, freq[r].for, u)
      /\ factor' = [factor EXCEPT ![f] = "verified"]
      /\ freq' = [freq EXCEPT ![r] = F!Idle]
      /\ UNCHANGED <<proof, cookie, earned>>
  BY <1>1 DEF F!EnrollOTPConfirm, F!Becomes
<1>3. /\ factor' \in [Factor -> {"absent", "unverified", "verified"}]
      /\ \A g \in Factor : factor[g] = "verified" => factor'[g] = "verified"
  BY <1>2 DEF FactorInv, FactorTypes
<1> QED BY <1>2, <1>3, NoProofs, UseCodeStep

LEMMA VerifyOTPStep ==
  ASSUME FactorInv, NEW r \in Request, F!VerifyOTP(r)
  PROVE  FactorInv'
<1>1. PICK c, u : c = freq[r].code /\ u = OwnerOf[code[c].to]
  OBVIOUS
<1>2. /\ freq[r].at = "code" /\ freq[r].for = "verify" /\ F!UseCode(c, freq[r].for, u)
      /\ F!RecordVerification(u, ~code[c].used /\ factor[code[c].to] = "verified")
      /\ freq' = [freq EXCEPT ![r] = F!Idle]
      /\ UNCHANGED <<factor, cookie>>
  BY <1>1 DEF F!VerifyOTP, F!Becomes
<1>3. ~code[c].used /\ factor[code[c].to] = "verified"
  BY <1>1, <1>2 DEF FactorInv, Locks, Stands
<1>4. F!RecordVerification(u, TRUE)
  BY <1>2, <1>3 DEF F!RecordVerification
<1>5. /\ factor' \in [Factor -> {"absent", "unverified", "verified"}]
      /\ \A g \in Factor : factor[g] = "verified" => factor'[g] = "verified"
  BY <1>2 DEF FactorInv, FactorTypes
<1> QED BY <1>1, <1>2, <1>4, <1>5, FactorRecorded, UseCodeStep

LEMMA ConfirmContactStep ==
  ASSUME FactorInv, NEW r \in Request, F!ConfirmContact(r)
  PROVE  FactorInv'
<1>1. PICK u : u = code[freq[r].code].to[1]
  OBVIOUS
<1>2. /\ freq[r].at = "code" /\ F!UseCode(freq[r].code, freq[r].for, u)
      /\ freq' = [freq EXCEPT ![r] = F!Idle]
      /\ UNCHANGED <<factor, proof, cookie, earned>>
  BY <1>1 DEF F!ConfirmContact, F!Becomes
<1>3. /\ factor' \in [Factor -> {"absent", "unverified", "verified"}]
      /\ \A g \in Factor : factor[g] = "verified" => factor'[g] = "verified"
  BY <1>2 DEF FactorInv, FactorTypes
<1> QED BY <1>2, <1>3, NoProofs, UseCodeStep

LEMMA SendNextStep ==
  ASSUME FactorInv, F!SendNext
  PROVE  FactorInv'
<1>1. factor \in [Factor -> {"absent", "unverified", "verified"}]
  BY DEF FactorInv, FactorTypes
<1>2. ASSUME NEW c \in Thing, NEW f \in Factor, F!EnrollOTPStart(f, c) PROVE FactorInv'
  <2>1. /\ F!FactorFree(f) /\ factor' = [factor EXCEPT ![f] = "unverified"]
        /\ F!SendCode(c, f) /\ UNCHANGED <<proof, earned, cookie, freq, counted>>
    BY <1>2 DEF F!EnrollOTPStart
  <2>2. /\ factor' \in [Factor -> {"absent", "unverified", "verified"}]
        /\ \A g \in Factor : factor'[g] = factor[g] \/ F!FactorFree(g)
    BY <1>1, <2>1
  <2>3. f \in F!Target
    BY DEF F!Target
  <2> QED BY <2>1, <2>2, <2>3, SendStep
<1>3. ASSUME NEW c \in Thing, NEW f \in Factor, F!ChallengeOTP(f, c) PROVE FactorInv'
  <2>1. F!SendCode(c, f) /\ UNCHANGED <<factor, proof, earned, cookie, freq, counted>>
    BY <1>3 DEF F!ChallengeOTP
  <2>2. f \in F!Target
    BY DEF F!Target
  <2> QED BY <1>1, <2>1, <2>2, SendStep
<1>4. ASSUME NEW c \in Thing, NEW u \in Home, F!StartEmail(u, c) \/ F!StartPhone(u, c)
      PROVE  FactorInv'
  <2>1. PICK to \in {<<u, "email">>, <<u, "phone">>} :
          F!SendCode(c, to) /\ UNCHANGED <<factor, proof, earned, cookie, freq, counted>>
    BY <1>4 DEF F!StartEmail, F!StartPhone
  <2>2. to \in F!Target
    BY DEF F!Target, F!Contact
  <2> QED BY <1>1, <2>1, <2>2, SendStep
<1> QED BY <1>2, <1>3, <1>4 DEF F!SendNext

(* Proofs and what rests on them.                                          *)
LEMMA StepUpNextStep ==
  ASSUME FactorInv, F!StepUpNext
  PROVE  FactorInv'
<1>1. FactorTypes
  BY DEF FactorInv
<1>2. ASSUME ProofsStay, UNCHANGED <<factor, code, counted, freq, cookie>> PROVE FactorInv'
  BY <1>1, <1>2, ProofMoves DEF FactorTypes
<1>3. ASSUME UNCHANGED <<factor, code, counted, freq, cookie, proof, earned>> PROVE FactorInv'
  BY <1>2, <1>3, NoProofs
<1>4. ASSUME NEW u \in Home, F!Verify(u) \/ F!WebauthnVerify(u) \/ F!ConfirmEnroll(u)
      PROVE  FactorInv'
  BY <1>2, <1>4, FactorRecorded DEF F!Verify, F!WebauthnVerify, F!ConfirmEnroll
<1>5. ASSUME NEW u \in Home, F!WindowCloses(u) PROVE FactorInv'
  <2>1. /\ proof' = [proof EXCEPT ![u] = "old"] /\ earned' = earned \ {u}
        /\ UNCHANGED <<factor, code, counted, freq, cookie>>
    BY <1>5 DEF F!WindowCloses
  <2>2. /\ proof' \in [Home -> {"never", "recent", "old"}]
        /\ \A w \in Home : proof'[w] = IF w = u THEN "old" ELSE proof[w]
    BY <1>1, <2>1 DEF FactorTypes
  <2>3. ProofsStay
    BY <2>1, <2>2 DEF FactorInv, Earned, ProofsStay
  <2> QED BY <1>2, <2>1, <2>3
<1>6. ASSUME NEW u \in Home, F!StartEnroll(u) PROVE FactorInv'
  BY <1>3, <1>6 DEF F!StartEnroll
<1>7. ASSUME NEW r \in Request, NEW u \in Home, F!RequireRecentMFA(r, u) PROVE FactorInv'
  <2>1. PICK e : e = (u \in earned)
    OBVIOUS
  <2>2. PICK q : q = [at |-> "stepup", user |-> u, earned |-> e]
    OBVIOUS
  <2>3. /\ proof[u] = "recent" /\ freq' = [freq EXCEPT ![r] = q]
        /\ UNCHANGED <<factor, code, counted, cookie, proof, earned>>
    BY <1>7, <2>1, <2>2 DEF F!RequireRecentMFA, F!RecentlyVerified, F!Becomes
  <2>4. e /\ e \in BOOLEAN
    BY <2>1, <2>3 DEF FactorInv, Earned
  <2>5. q \in WindowReq /\ q.at = "stepup" /\ q.earned
    BY <2>2, <2>4 DEF WindowReq
  <2>6. q \in FactorReq /\ q.at # "code" /\ Standing(q)'
    BY <2>5 DEF FactorReq, Standing
  <2> QED BY <2>3, <2>6, NoProofs, FactorRequest
<1>8. ASSUME NEW r \in Request, NEW u \in Home, F!CompleteMFALogin(r, u) PROVE FactorInv'
  <2>1. PICK q : q = [at |-> "proved", user |-> u]
    OBVIOUS
  <2>2. /\ F!RecordVerification(u, TRUE) /\ freq' = [freq EXCEPT ![r] = q]
        /\ UNCHANGED <<factor, code, counted, cookie>>
    BY <1>8, <2>1 DEF F!CompleteMFALogin, F!Becomes
  <2>3. q \in ProvedReq /\ q.at = "proved" /\ q.user = u
    BY <2>1 DEF ProvedReq
  <2>4. ProofsStay /\ proof'[u] = "recent"
    BY <2>2, FactorRecorded
  <2>5. q \in FactorReq /\ q.at # "code" /\ Standing(q)'
    BY <2>3, <2>4 DEF FactorReq, Standing
  <2> QED BY <2>2, <2>4, <2>5, FactorRequest
<1>9. ASSUME NEW r \in Request, F!Disable(r) \/ F!RegenerateRecovery(r) PROVE FactorInv'
  <2>1. /\ freq' = [freq EXCEPT ![r] = F!Idle]
        /\ UNCHANGED <<factor, code, counted, cookie, proof, earned>>
    BY <1>9 DEF F!Disable, F!RegenerateRecovery, F!Becomes
  <2>2. PICK q : q = F!Idle
    OBVIOUS
  <2>3. q \in FactorReq /\ q.at # "code" /\ Standing(q)'
    BY <2>2, FactorIdle DEF Standing
  <2> QED BY <2>1, <2>2, <2>3, NoProofs, FactorRequest
<1>10. ASSUME NEW k \in Cookie, NEW x \in CookieRow \cup {None}, cookie' = [cookie EXCEPT ![k] = x],
              x # None /\ x.kind = "device" => proof[x.user] # "never",
              freq' \in [Request -> FactorReq],
              \A s \in Request : freq'[s] = freq[s]
                                   \/ (freq'[s].at # "code" /\ Standing(freq[s])'),
              UNCHANGED <<factor, code, counted, proof, earned>>
       PROVE  FactorInv'
  <2>1. cookie' \in [Cookie -> CookieRow \cup {None}]
    BY <1>1, <1>10 DEF FactorTypes
  <2>2. cookie'[k] = x /\ \A j \in Cookie : j # k => cookie'[j] = cookie[j]
    BY <1>1, <1>10 DEF FactorTypes
  <2>3. Trusted(k)'
    BY <1>10, <2>2 DEF Trusted
  <2> QED BY <1>10, <2>1, <2>2, <2>3, NoProofs, ProofMoves
<1>11. ASSUME NEW r \in Request, NEW k \in Cookie, F!CreateTrustedDevice(r, k) PROVE FactorInv'
  <2>1. PICK x : x = [kind |-> "device", user |-> freq[r].user]
    OBVIOUS
  <2>2. /\ freq[r].at = "proved" /\ cookie' = [cookie EXCEPT ![k] = x]
        /\ freq' = [freq EXCEPT ![r] = F!Idle]
        /\ UNCHANGED <<factor, code, counted, proof, earned>>
    BY <1>11, <2>1 DEF F!CreateTrustedDevice, F!Becomes
  <2>3. freq[r].user \in Home /\ proof[freq[r].user] # "never"
    BY <1>1, <2>2, FactorReqAt DEF FactorInv, FactorTypes, Standing, ProvedReq
  <2>4. x \in CookieRow /\ x.user = freq[r].user
    BY <2>1, <2>3 DEF CookieRow
  <2>5. /\ freq' \in [Request -> FactorReq] /\ freq'[r] = F!Idle
        /\ \A s \in Request : s # r => freq'[s] = freq[s]
    BY <1>1, <2>2, FactorIdle DEF FactorTypes
  <2>6. freq'[r].at # "code" /\ Standing(freq[r])'
    BY <2>5, FactorIdle DEF Standing
  <2> QED BY <1>10, <2>2, <2>3, <2>4, <2>5, <2>6
<1>12. ASSUME NEW u \in Home, NEW k \in Cookie, F!CreateLoginSession(u, k) PROVE FactorInv'
  <2>1. PICK x : x = [kind |-> "session", user |-> u]
    OBVIOUS
  <2>2. /\ cookie' = [cookie EXCEPT ![k] = x]
        /\ UNCHANGED <<factor, code, counted, proof, earned, freq>>
    BY <1>12, <2>1 DEF F!CreateLoginSession
  <2>3. x \in CookieRow /\ x.kind = "session"
    BY <2>1 DEF CookieRow
  <2> QED BY <1>1, <1>10, <2>2, <2>3 DEF FactorTypes
<1>13. ASSUME NEW k \in Cookie, F!RevokeLoginSession(k) PROVE FactorInv'
  <2>1. /\ cookie' = [cookie EXCEPT ![k] = None]
        /\ UNCHANGED <<factor, code, counted, proof, earned, freq>>
    BY <1>13 DEF F!RevokeLoginSession
  <2> QED BY <1>1, <1>10, <2>1 DEF FactorTypes
<1> QED BY <1>4, <1>5, <1>6, <1>7, <1>8, <1>9, <1>11, <1>12, <1>13 DEF F!StepUpNext

LEMMA RollbackStep ==
  ASSUME FactorInv, NEW r \in Request, F!Rollback(r)
  PROVE  FactorInv'
<1>1. /\ freq' = [freq EXCEPT ![r] = F!Idle]
      /\ UNCHANGED <<factor, code, counted, cookie, proof, earned>>
  BY DEF F!Rollback, F!Becomes
<1>2. PICK q : q = F!Idle
  OBVIOUS
<1>3. q \in FactorReq /\ q.at # "code" /\ Standing(q)'
  BY <1>2, FactorIdle DEF Standing
<1> QED BY <1>1, <1>2, <1>3, NoProofs, FactorRequest

LEMMA FactorInitInv == F!FactorsInit => FactorInv
<1> SUFFICES ASSUME F!FactorsInit PROVE FactorInv
  OBVIOUS
<1>1. /\ factor = [f \in Factor |-> "absent"] /\ code = [c \in Thing |-> None]
      /\ proof = [u \in Home |-> "never"] /\ cookie = [k \in Cookie |-> None]
      /\ freq = [r \in Request |-> F!Idle] /\ counted = [c \in Thing |-> {}]
  BY DEF F!FactorsInit
<1>2. FactorTypes
  BY <1>1, FactorIdle DEF FactorTypes
<1> QED BY <1>1, <1>2, FactorIdle DEF FactorInv, Locks, Standing, CountsOnce, Earned,
   Trusted

LEMMA FactorStep == FactorInv /\ (F!FactorsNext \/ UNCHANGED factorVars) => FactorInv'
<1> SUFFICES ASSUME FactorInv, F!FactorsNext \/ UNCHANGED factorVars PROVE FactorInv'
  OBVIOUS
<1>1. ASSUME UNCHANGED <<factor, code, proof, cookie, freq, counted, earned>> PROVE FactorInv'
  BY <1>1 DEF FactorInv, FactorTypes, Locks, Stands, Standing, CountsOnce, Earned, Trusted
<1>2. CASE UNCHANGED factorVars \/ \E c \in Thing : F!Lapse(c)
  BY <1>1, <1>2 DEF factorVars, F!Lapse
<1>3. ASSUME NEW f \in Factor, F!DeleteOTPFactor(f) PROVE FactorInv'
  BY <1>3, DropStep DEF F!DeleteOTPFactor
<1>4. ASSUME NEW u \in Home, F!ResetForUser(u) PROVE FactorInv'
  <2>1. PICK G : G = {f \in Factor : OwnerOf[f] = u}
    OBVIOUS
  <2>2. F!DropFactors(G) /\ UNCHANGED <<proof, cookie, freq, counted, earned>>
    BY <1>4, <2>1 DEF F!ResetForUser
  <2> QED BY <2>2, DropStep
<1>5. CASE F!PresentNext
  BY <1>5, GetOTPCodeStep, EnrollOTPConfirmStep, VerifyOTPStep, ConfirmContactStep,
     RollbackStep
  DEF F!PresentNext
<1>6. CASE F!FactorsNext
  BY <1>2, <1>3, <1>4, <1>5, <1>6, SendNextStep, StepUpNextStep DEF F!FactorsNext
<1> QED BY <1>2, <1>6

LEMMA FactorSafe == FactorInv => F!ProofsCountOnce
<1> SUFFICES ASSUME FactorInv PROVE F!ProofsCountOnce
  OBVIOUS
<1>1. ASSUME NEW c \in Thing
      PROVE  /\ F!Cardinality(counted[c]) <= 1
             /\ \A p \in counted[c] : GoodCount(p)
  <2>1. CountsOnce(c)
    BY DEF FactorInv
  <2>2. F!Cardinality(counted[c]) = Cardinality(counted[c])
    BY DEF F!Cardinality, Cardinality
  <2>3. CASE counted[c] = {}
    BY <2>2, <2>3, FS_EmptySet
  <2>4. CASE \E p : counted[c] = {p} /\ GoodCount(p)
    BY <2>2, <2>4, FS_Singleton
  <2> QED BY <2>1, <2>3, <2>4 DEF CountsOnce
<1> QED BY <1>1 DEF FactorInv, GoodCount, Standing, Trusted, F!ProofsCountOnce

-----------------------------------------------------------------------------
(* Ceremonies: a row that was taken is with one request, which will honour *)
(* it; one whose code is locked is still there and with that request       *)
(* alone; an id that no row had yet is with nobody.                        *)
Session == [kind : C!Kind, user : User \cup {None}, addr : Home \cup {None},
            scope : Home \cup {None}]
BeginReq == [at : {"begin"}, addr : Home, scope : Home \cup {None}]
SecondReq == [at : {"verify", "callback"}, as : DOMAIN C!Purpose, x : Thing, sess : Session]
ExchangingReq == [at : {"locked", "issue"}, x : Thing, sess : Session]
CeremonyReq == {C!Idle} \cup BeginReq \cup SecondReq \cup ExchangingReq

CeremonyTypes ==
  /\ crow \in [Thing -> Session \cup {None}]
  /\ unborn \subseteq Thing
  /\ creq \in [Request -> CeremonyReq]
  /\ DOMAIN honoured = Thing

Having(q) == q.at \in {"verify", "callback", "locked", "issue"}

(* A state and a sign-up are nobody's yet.                                 *)
Nobodys(sess) == sess.kind \in {"state", "signup"} => sess.user = None

FairTo(h) == h.sess.kind \in C!Purpose[h.for] /\ h.sess.user \in {h.user, None}

RowOnce(x) ==
  /\ crow[x] # None => honoured[x] = {} /\ Nobodys(crow[x])
  /\ x \in unborn => crow[x] = None /\ honoured[x] = {}
  /\ honoured[x] = {} \/ \E h : honoured[x] = {h} /\ FairTo(h)

HasRow(q) ==
  Having(q) =>
    /\ q.x \notin unborn /\ honoured[q.x] = {} /\ Nobodys(q.sess)
    /\ IF q.at = "locked" THEN crow[q.x] # None /\ crow[q.x] = q.sess ELSE crow[q.x] = None
    /\ q.at \in {"locked", "issue"} => q.sess.kind = "code"
    /\ q.at = "callback" => q.as = "callback"
    /\ q.at \in {"verify", "callback"} => q.sess.kind \in C!Purpose[q.as]

OnlyOne(r) ==
  Having(creq[r]) => \A s \in Request : s # r /\ Having(creq[s]) => creq[s].x # creq[r].x

CeremonyInv ==
  /\ CeremonyTypes
  /\ \A x \in Thing : RowOnce(x)
  /\ \A r \in Request : HasRow(creq[r]) /\ OnlyOne(r)

LEMMA CeremonyIdle == C!Idle \in CeremonyReq /\ C!Idle.at = "idle"
BY DEF CeremonyReq, C!Idle

LEMMA CeremonyReqAt ==
  ASSUME NEW q \in CeremonyReq
  PROVE  /\ q.at = "begin" => q \in BeginReq
         /\ q.at \in {"verify", "callback"} => q \in SecondReq
         /\ q.at \in {"locked", "issue"} => q \in ExchangingReq
         /\ Having(q) => q.x \in Thing /\ q.sess \in Session
<1>1. CASE q = C!Idle
  BY <1>1 DEF C!Idle, Having
<1>2. CASE q \in BeginReq
  BY <1>2 DEF BeginReq, Having
<1>3. CASE q \in SecondReq
  BY <1>3 DEF SecondReq, Having
<1>4. CASE q \in ExchangingReq
  BY <1>4 DEF ExchangingReq, Having
<1> QED BY <1>1, <1>2, <1>3, <1>4 DEF CeremonyReq

(* A step of one request at most: nobody else has the rows it changes.     *)
LEMMA CeremonyMoves ==
  ASSUME CeremonyInv, CeremonyTypes', NEW R, \A s, t \in R : s = t,
         \A s \in Request : s \in R \/ creq'[s] = creq[s],
         \A x \in Thing :
           \/ crow'[x] = crow[x] /\ honoured'[x] = honoured[x]
           \/ /\ RowOnce(x)'
              /\ \A s \in Request : s \notin R /\ Having(creq[s]) => creq[s].x # x,
         \A s \in Request : s \in R /\ Having(creq'[s]) =>
           /\ HasRow(creq[s])'
           /\ \A t \in Request : t # s /\ Having(creq[t]) => creq[t].x # creq'[s].x,
         unborn' \subseteq unborn
  PROVE  CeremonyInv'
<1>1. ASSUME NEW x \in Thing PROVE RowOnce(x)'
  BY DEF CeremonyInv, RowOnce
<1>2. ASSUME NEW s \in Request PROVE HasRow(creq[s])'
  <2>1. CASE creq'[s] = creq[s] /\ s \notin R /\ Having(creq[s])
    <3>1. PICK q : q = creq[s]
      OBVIOUS
    <3>2. q \in CeremonyReq /\ HasRow(q) /\ creq'[s] = q
      BY <2>1, <3>1 DEF CeremonyInv, CeremonyTypes
    <3>3. q.x \in Thing
      BY <2>1, <3>1, <3>2, CeremonyReqAt
    <3>4. crow'[q.x] = crow[q.x] /\ honoured'[q.x] = honoured[q.x]
      BY <2>1, <3>1, <3>3
    <3>5. HasRow(q)'
      BY <3>2, <3>4 DEF HasRow
    <3> QED BY <3>2, <3>5
  <2>2. CASE s \in R \/ ~Having(creq'[s])
    BY <2>2 DEF HasRow
  <2> QED BY <2>1, <2>2
<1>3. ASSUME NEW s \in Request, Having(creq'[s]), NEW t \in Request, t # s, Having(creq'[t])
      PROVE  creq'[t].x # creq'[s].x
  <2>1. CASE s \in R
    BY <1>3, <2>1
  <2>2. CASE t \in R
    BY <1>3, <2>2
  <2>3. CASE s \notin R /\ t \notin R
    BY <1>3, <2>3 DEF CeremonyInv, OnlyOne
  <2> QED BY <2>1, <2>2, <2>3
<1> QED BY <1>1, <1>2, <1>3 DEF CeremonyInv, OnlyOne, Having

(* A request goes on to q, which it may; the rows stay as they are.        *)
LEMMA CeremonyRequest ==
  ASSUME CeremonyInv, NEW r \in Request, NEW q \in CeremonyReq, creq' = [creq EXCEPT ![r] = q],
         Having(q) => /\ HasRow(q)
                      /\ \A t \in Request : t # r /\ Having(creq[t]) => creq[t].x # q.x,
         UNCHANGED <<crow, unborn, honoured>>
  PROVE  CeremonyInv'
<1>1. CeremonyTypes
  BY DEF CeremonyInv
<1>2. CeremonyTypes'
  BY <1>1 DEF CeremonyTypes
<1>3. creq'[r] = q /\ \A s \in Request : s # r => creq'[s] = creq[s]
  BY <1>1 DEF CeremonyTypes
<1>4. HasRow(q) => HasRow(q)'
  BY DEF HasRow
<1>5. Having(creq'[r]) => /\ HasRow(creq[r])'
                          /\ \A t \in Request : t # r /\ Having(creq[t]) => creq[t].x # creq'[r].x
  BY <1>3, <1>4
<1>6. PICK R : R = {r}
  OBVIOUS
<1> QED BY <1>2, <1>3, <1>5, <1>6, CeremonyMoves

(* A row is stored under an id nobody had.                                 *)
LEMMA Stored ==
  ASSUME CeremonyInv, NEW x \in Thing, NEW kind \in C!Kind, NEW u \in User \cup {None},
         NEW a \in Home \cup {None}, NEW sc \in Home \cup {None}, C!Store(x, kind, u, a, sc),
         kind \in {"state", "signup"} => u = None, honoured'[x] = honoured[x]
  PROVE  /\ crow' \in [Thing -> Session \cup {None}]
         /\ \A z \in Thing : z # x => crow'[z] = crow[z]
         /\ unborn' \subseteq unborn
         /\ RowOnce(x)'
         /\ \A s \in Request : Having(creq[s]) => creq[s].x # x
<1>1. PICK y : y = [kind |-> kind, user |-> u, addr |-> a, scope |-> sc]
  OBVIOUS
<1>2. x \in unborn /\ crow' = [crow EXCEPT ![x] = y] /\ unborn' = unborn \ {x}
  BY <1>1 DEF C!Store
<1>3. CeremonyTypes /\ RowOnce(x)
  BY DEF CeremonyInv
<1>4. y \in Session /\ Nobodys(y)
  BY <1>1 DEF Session, Nobodys
<1>5. /\ crow' \in [Thing -> Session \cup {None}] /\ crow'[x] = y
      /\ \A z \in Thing : z # x => crow'[z] = crow[z]
  BY <1>2, <1>3, <1>4 DEF CeremonyTypes
<1>6. RowOnce(x)'
  BY <1>2, <1>3, <1>4, <1>5 DEF RowOnce
<1>7. \A s \in Request : Having(creq[s]) => creq[s].x # x
  BY <1>2 DEF CeremonyInv, HasRow
<1> QED BY <1>2, <1>5, <1>6, <1>7

(* First steps: a row is stored, and the request, if it is one, is done.   *)
LEMMA BeginStep ==
  ASSUME CeremonyInv, NEW x \in Thing, NEW kind \in C!Kind, NEW u \in User \cup {None},
         NEW a \in Home \cup {None}, NEW sc \in Home \cup {None}, C!Store(x, kind, u, a, sc),
         kind \in {"state", "signup"} => u = None,
         NEW R, \A s, t \in R : s = t,
         creq' \in [Request -> CeremonyReq],
         \A s \in Request : creq'[s] = IF s \in R THEN C!Idle ELSE creq[s],
         UNCHANGED honoured
  PROVE  CeremonyInv'
<1>1. /\ crow' \in [Thing -> Session \cup {None}]
      /\ \A z \in Thing : z # x => crow'[z] = crow[z]
      /\ unborn' \subseteq unborn
      /\ RowOnce(x)'
      /\ \A s \in Request : Having(creq[s]) => creq[s].x # x
  BY Stored
<1>2. CeremonyTypes'
  BY <1>1 DEF CeremonyInv, CeremonyTypes
<1>3. \A s \in Request : s \in R => ~Having(creq'[s])
  BY CeremonyIdle DEF Having
<1> QED BY <1>1, <1>2, <1>3, CeremonyMoves


(* A row that was taken is honoured by the request that has it.            *)
LEMMA Taken ==
  ASSUME CeremonyInv, NEW r \in Request, NEW x, x = creq[r].x,
         Having(creq[r]), creq[r].at # "locked",
         \E h : FairTo(h) /\ honoured' = [honoured EXCEPT ![x] = @ \cup {h}],
         crow'[x] = crow[x], unborn' \subseteq unborn
  PROVE  /\ x \in Thing /\ x \notin unborn
         /\ DOMAIN honoured' = Thing
         /\ \A z \in Thing : z # x => honoured'[z] = honoured[z]
         /\ RowOnce(x)'
         /\ \A s \in Request : s # r /\ Having(creq[s]) => creq[s].x # x
<1>1. CeremonyTypes /\ HasRow(creq[r]) /\ OnlyOne(r)
  BY DEF CeremonyInv
<1>2. x \in Thing
  BY <1>1, CeremonyReqAt DEF CeremonyTypes
<1>3. x \notin unborn /\ honoured[x] = {} /\ crow[x] = None
  BY <1>1 DEF HasRow
<1>4. PICK h : /\ FairTo(h) /\ DOMAIN honoured' = Thing /\ honoured'[x] = {h}
               /\ \A z \in Thing : z # x => honoured'[z] = honoured[z]
  BY <1>1, <1>2, <1>3 DEF CeremonyTypes
<1>5. RowOnce(x)'
  BY <1>3, <1>4 DEF RowOnce
<1> QED BY <1>1, <1>2, <1>3, <1>4, <1>5 DEF OnlyOne

(* A second step that ends with the row honoured.                          *)
LEMMA FinishStep ==
  ASSUME CeremonyInv, NEW r \in Request, NEW as, NEW u,
         Having(creq[r]), creq[r].at # "locked",
         creq[r].sess.kind \in C!Purpose[as], creq[r].sess.user \in {u, None},
         C!Honour(r, as, u), creq' = [creq EXCEPT ![r] = C!Idle], UNCHANGED <<crow, unborn>>
  PROVE  CeremonyInv'
<1>1. PICK x : x = creq[r].x
  OBVIOUS
<1>2. /\ x \in Thing /\ DOMAIN honoured' = Thing
      /\ \A z \in Thing : z # x => honoured'[z] = honoured[z]
      /\ RowOnce(x)'
      /\ \A s \in Request : s # r /\ Having(creq[s]) => creq[s].x # x
  <2>1. PICK h : h = [for |-> as, user |-> u, by |-> r, sess |-> creq[r].sess]
    OBVIOUS
  <2>2. honoured' = [honoured EXCEPT ![x] = @ \cup {h}] /\ FairTo(h)
    BY <1>1, <2>1 DEF C!Honour, FairTo
  <2>3. crow'[x] = crow[x] /\ unborn' \subseteq unborn
    OBVIOUS
  <2> QED BY <1>1, <2>2, <2>3, Taken
<1>3. CeremonyTypes
  BY DEF CeremonyInv
<1>4. CeremonyTypes'
  BY <1>2, <1>3, CeremonyIdle DEF CeremonyTypes
<1>5. creq'[r] = C!Idle /\ \A s \in Request : s # r => creq'[s] = creq[s]
  BY <1>3 DEF CeremonyTypes
<1>6. ~Having(creq'[r])
  BY <1>5, CeremonyIdle DEF Having
<1>7. PICK R : R = {r}
  OBVIOUS
<1> QED BY <1>2, <1>4, <1>5, <1>6, <1>7, CeremonyMoves

(* What a request that verifies has in hand.                               *)
LEMMA VerifyingHas ==
  ASSUME CeremonyInv, NEW r \in Request, NEW as, C!Verifying(r, as)
  PROVE  /\ Having(creq[r]) /\ creq[r].at # "locked"
         /\ creq[r].sess.kind \in C!Purpose[as] /\ Nobodys(creq[r].sess)
BY DEF CeremonyInv, HasRow, Having, C!Verifying

LEMMA FinishRegisterStep ==
  ASSUME CeremonyInv, NEW r \in Request, NEW u, NEW k,
         C!FinishRegister(r, u, k) \/ C!FinishMFA(r, u, k)
  PROVE  CeremonyInv'
<1>1. PICK as : /\ C!Verifying(r, as) /\ creq[r].sess.user = u /\ C!Honour(r, as, u)
                /\ creq' = [creq EXCEPT ![r] = C!Idle] /\ UNCHANGED <<crow, unborn>>
  BY DEF C!FinishRegister, C!FinishMFA, C!Becomes
<1> QED BY <1>1, VerifyingHas, FinishStep

LEMMA FinishLoginStep ==
  ASSUME CeremonyInv, NEW r \in Request, NEW k, C!FinishLogin(r, k)
  PROVE  CeremonyInv'
<1>1. PICK u : /\ C!Verifying(r, "login") /\ creq[r].sess.user \in {u, None}
               /\ C!Honour(r, "login", u)
               /\ creq' = [creq EXCEPT ![r] = C!Idle] /\ UNCHANGED <<crow, unborn>>
  BY DEF C!FinishLogin, C!Becomes
<1> QED BY <1>1, VerifyingHas, FinishStep

LEMMA FinishSignupStep ==
  ASSUME CeremonyInv, NEW r \in Request, NEW u, NEW k,
         C!FinishSignup(r, u, k) \/ C!FinishTenantSignup(r, u, k)
  PROVE  CeremonyInv'
<1>1. PICK as \in {"signup", "tenantsignup"} :
        /\ C!Verifying(r, as) /\ C!Honour(r, as, u)
        /\ creq' = [creq EXCEPT ![r] = C!Idle] /\ UNCHANGED <<crow, unborn>>
  BY DEF C!FinishSignup, C!FinishTenantSignup, C!Becomes
<1>2. C!Purpose[as] = {"signup"}
  <2>1. C!Purpose["signup"] = {"signup"} /\ C!Purpose["tenantsignup"] = {"signup"}
    BY DEF C!Purpose
  <2> QED BY <1>1, <2>1
<1>3. creq[r].sess.user = None
  BY <1>1, <1>2, VerifyingHas DEF Nobodys
<1> QED BY <1>1, <1>3, VerifyingHas, FinishStep

LEMMA ExchangeIssueStep ==
  ASSUME CeremonyInv, NEW r \in Request, C!ExchangeIssue(r)
  PROVE  CeremonyInv'
<1>1. PICK u : u = creq[r].sess.user
  OBVIOUS
<1>2. /\ creq[r].at = "issue" /\ C!Honour(r, "exchange", u)
      /\ creq' = [creq EXCEPT ![r] = C!Idle] /\ UNCHANGED <<crow, unborn>>
  BY <1>1 DEF C!ExchangeIssue, C!Becomes
<1>3. Having(creq[r]) /\ creq[r].sess.kind = "code"
  BY <1>2 DEF CeremonyInv, HasRow, Having
<1>4. "code" \in C!Purpose["exchange"]
  BY DEF C!Purpose
<1> QED BY <1>1, <1>2, <1>3, <1>4, FinishStep

LEMMA CompleteCallbackStep ==
  ASSUME CeremonyInv, NEW r \in Request, NEW u \in User, NEW x \in Thing,
         C!CompleteCallback(r, u, x)
  PROVE  CeremonyInv'
<1>1. /\ creq[r].at = "callback" /\ C!Store(x, "code", u, None, None)
      /\ C!Honour(r, "callback", u) /\ creq' = [creq EXCEPT ![r] = C!Idle]
  BY DEF C!CompleteCallback, C!InsertSocialLoginCode, C!Becomes
<1>2. PICK z : z = creq[r].x
  OBVIOUS
<1>3. CeremonyTypes /\ HasRow(creq[r]) /\ Having(creq[r])
  BY <1>1 DEF CeremonyInv, Having
<1>4. creq[r].sess.kind = "state" /\ creq[r].sess.user = None /\ creq[r].at # "locked"
  BY <1>1, <1>3 DEF HasRow, Nobodys, C!Purpose
<1>5. "state" \in C!Purpose["callback"] /\ "code" \in C!Kind
  BY DEF C!Purpose, C!Kind
<1>6. z # x /\ z \in Thing
  BY <1>1, <1>2, <1>3, CeremonyReqAt DEF CeremonyTypes, HasRow, C!Store
<1>7. crow'[z] = crow[z] /\ unborn' \subseteq unborn
  BY <1>1, <1>3, <1>6 DEF C!Store, CeremonyTypes
<1>8. PICK h : h = [for |-> "callback", user |-> u, by |-> r, sess |-> creq[r].sess]
  OBVIOUS
<1>9. honoured' = [honoured EXCEPT ![z] = @ \cup {h}] /\ FairTo(h)
  BY <1>1, <1>2, <1>4, <1>5, <1>8 DEF C!Honour, FairTo
<1>10. /\ z \in Thing /\ z \notin unborn /\ DOMAIN honoured' = Thing
       /\ \A y \in Thing : y # z => honoured'[y] = honoured[y]
       /\ RowOnce(z)'
       /\ \A s \in Request : s # r /\ Having(creq[s]) => creq[s].x # z
  <2>1. \E i : FairTo(i) /\ honoured' = [honoured EXCEPT ![z] = @ \cup {i}]
    BY <1>9
  <2>2. Having(creq[r]) /\ creq[r].at # "locked"
    BY <1>3, <1>4
  <2>3. z \in Thing
    BY <1>2, <1>7, <2>1, <2>2, Taken
  <2>4. z \notin unborn /\ DOMAIN honoured' = Thing
    BY <1>2, <1>7, <2>1, <2>2, Taken
  <2>5. \A y \in Thing : y # z => honoured'[y] = honoured[y]
    BY <1>2, <1>7, <2>1, <2>2, Taken
  <2>6. RowOnce(z)'
    BY <1>2, <1>7, <2>1, <2>2, Taken
  <2>7. \A s \in Request : s # r /\ Having(creq[s]) => creq[s].x # z
    BY <1>2, <1>7, <2>1, <2>2, Taken
  <2> QED BY <2>3, <2>4, <2>5, <2>6, <2>7
<1>11. /\ crow' \in [Thing -> Session \cup {None}]
       /\ \A y \in Thing : y # x => crow'[y] = crow[y]
       /\ RowOnce(x)'
       /\ \A s \in Request : Having(creq[s]) => creq[s].x # x
  BY <1>1, <1>5, <1>6, <1>10, Stored
<1>12. CeremonyTypes'
  BY <1>1, <1>3, <1>7, <1>10, <1>11, CeremonyIdle DEF CeremonyTypes
<1>13. creq'[r] = C!Idle /\ \A s \in Request : s # r => creq'[s] = creq[s]
  BY <1>1, <1>3 DEF CeremonyTypes
<1>14. ~Having(creq'[r])
  BY <1>13, CeremonyIdle DEF Having
<1>15. PICK R : R = {r}
  OBVIOUS
<1>16. ASSUME NEW y \in Thing
       PROVE  \/ crow'[y] = crow[y] /\ honoured'[y] = honoured[y]
              \/ /\ RowOnce(y)'
                 /\ \A s \in Request : s \notin R /\ Having(creq[s]) => creq[s].x # y
  BY <1>10, <1>11, <1>15
<1> QED BY <1>7, <1>12, <1>13, <1>14, <1>15, <1>16, CeremonyMoves

(* A row is taken, whether it is what was asked for or not.                *)
LEMMA TakeSessionStep ==
  ASSUME CeremonyInv, NEW r \in Request, NEW x \in Thing, NEW as \in DOMAIN C!Purpose,
         C!TakeSession(r, x, as)
  PROVE  CeremonyInv'
<1>1. PICK q : q = [at |-> IF as = "callback" THEN "callback" ELSE "verify",
                    as |-> as, x |-> x, sess |-> crow[x]]
  OBVIOUS
<1>2. /\ crow[x] # None /\ crow[x].kind # "code"
      /\ \/ crow[x].kind \in C!Purpose[as] /\ creq' = [creq EXCEPT ![r] = q]
         \/ creq' = [creq EXCEPT ![r] = C!Idle]
      /\ crow' = [crow EXCEPT ![x] = None] /\ UNCHANGED <<unborn, honoured>>
  BY <1>1 DEF C!TakeSession, C!Taken, C!Becomes
<1>3. CeremonyTypes /\ RowOnce(x) /\ crow[x] \in Session
  BY <1>2 DEF CeremonyInv, CeremonyTypes
<1>4. /\ q \in SecondReq /\ q \in CeremonyReq /\ q.x = x /\ q.as = as /\ q.sess = crow[x]
      /\ q.at \in {"callback", "verify"} /\ (q.at = "callback" => as = "callback")
  BY <1>1, <1>3 DEF SecondReq, CeremonyReq
<1>5. PICK w : w = creq'[r]
  OBVIOUS
<1>6. /\ w = C!Idle \/ (w = q /\ crow[x].kind \in C!Purpose[as])
      /\ \A s \in Request : s # r => creq'[s] = creq[s]
      /\ crow'[x] = None /\ \A z \in Thing : z # x => crow'[z] = crow[z]
  BY <1>2, <1>3, <1>5 DEF CeremonyTypes
<1>7. CeremonyTypes'
  BY <1>2, <1>3, <1>4, CeremonyIdle DEF CeremonyTypes
<1>8. ASSUME NEW s \in Request, Having(creq[s]) PROVE creq[s].x # x
  BY <1>2, <1>8 DEF CeremonyInv, HasRow
<1>9. RowOnce(x)'
  BY <1>2, <1>3, <1>6 DEF RowOnce
<1>10. crow[x].kind \in C!Purpose[as] => HasRow(q)'
  BY <1>2, <1>3, <1>4, <1>6 DEF HasRow, RowOnce
<1>11. Having(creq'[r]) =>
         HasRow(creq[r])' /\ \A t \in Request : t # r /\ Having(creq[t]) => creq[t].x # creq'[r].x
  <2>1. CASE w = C!Idle
    BY <1>5, <2>1, CeremonyIdle DEF Having
  <2>2. CASE w = q /\ crow[x].kind \in C!Purpose[as]
    BY <1>4, <1>5, <1>8, <1>10, <2>2
  <2> QED BY <1>6, <2>1, <2>2
<1>12. PICK R : R = {r}
  OBVIOUS
<1> QED BY <1>2, <1>6, <1>7, <1>8, <1>9, <1>11, <1>12, CeremonyMoves

LEMMA ExchangeLockStep ==
  ASSUME CeremonyInv, NEW r \in Request, NEW x \in Thing, C!ExchangeLock(r, x)
  PROVE  CeremonyInv'
<1>1. PICK q : q = [at |-> "locked", x |-> x, sess |-> crow[x]]
  OBVIOUS
<1>2. /\ crow[x] # None /\ crow[x].kind = "code" /\ C!CodeFree(x)
      /\ creq' = [creq EXCEPT ![r] = q] \/ creq' = [creq EXCEPT ![r] = C!Idle]
      /\ UNCHANGED <<crow, unborn, honoured>>
  BY <1>1 DEF C!ExchangeLock, C!Becomes
<1>3. CeremonyTypes /\ RowOnce(x) /\ crow[x] \in Session
  BY <1>2 DEF CeremonyInv, CeremonyTypes
<1>4. q \in ExchangingReq /\ q \in CeremonyReq /\ q.x = x /\ q.sess = crow[x] /\ q.at = "locked"
  BY <1>1, <1>3 DEF ExchangingReq, CeremonyReq
<1>5. HasRow(q)
  BY <1>2, <1>3, <1>4 DEF HasRow, RowOnce
<1>6. ASSUME NEW s \in Request, Having(creq[s]) PROVE creq[s].x # x
  <2>1. creq[s].at # "locked" => crow[creq[s].x] = None
    BY <1>6 DEF CeremonyInv, HasRow
  <2> QED BY <1>2, <2>1 DEF C!CodeFree
<1>7. CASE creq' = [creq EXCEPT ![r] = q]
  BY <1>2, <1>4, <1>5, <1>6, <1>7, CeremonyRequest
<1>8. CASE creq' = [creq EXCEPT ![r] = C!Idle]
  <2>1. PICK w : w = C!Idle
    OBVIOUS
  <2>2. w \in CeremonyReq /\ ~Having(w)
    BY <2>1, CeremonyIdle DEF Having
  <2> QED BY <1>2, <1>8, <2>1, <2>2, CeremonyRequest
<1> QED BY <1>2, <1>7, <1>8

LEMMA ExchangeMarkStep ==
  ASSUME CeremonyInv, NEW r \in Request, C!ExchangeMark(r)
  PROVE  CeremonyInv'
<1>1. PICK x, q : x = creq[r].x /\ q = [creq[r] EXCEPT !.at = "issue"]
  OBVIOUS
<1>2. /\ creq[r].at = "locked"
      /\ crow' = [crow EXCEPT ![x] = None] /\ creq' = [creq EXCEPT ![r] = q]
      /\ UNCHANGED <<unborn, honoured>>
  BY <1>1 DEF C!ExchangeMark, C!Becomes
<1>3. /\ CeremonyTypes /\ HasRow(creq[r]) /\ OnlyOne(r) /\ Having(creq[r])
      /\ creq[r] \in ExchangingReq
  BY <1>2, CeremonyReqAt DEF CeremonyInv, CeremonyTypes, Having
<1>4. q = [at |-> "issue", x |-> x, sess |-> creq[r].sess] /\ x \in Thing
  BY <1>1, <1>3 DEF ExchangingReq
<1>5. q \in ExchangingReq /\ q \in CeremonyReq /\ q.at = "issue" /\ q.x = x /\ q.sess = creq[r].sess
  BY <1>3, <1>4 DEF ExchangingReq, CeremonyReq
<1>6. /\ creq'[r] = q /\ \A s \in Request : s # r => creq'[s] = creq[s]
      /\ crow'[x] = None /\ \A z \in Thing : z # x => crow'[z] = crow[z]
  BY <1>2, <1>3, <1>4 DEF CeremonyTypes
<1>7. CeremonyTypes'
  BY <1>2, <1>3, <1>5 DEF CeremonyTypes
<1>8. x \notin unborn /\ honoured[x] = {} /\ Nobodys(creq[r].sess) /\ creq[r].sess.kind = "code"
  BY <1>1, <1>2, <1>3 DEF HasRow
<1>9. RowOnce(x)'
  BY <1>2, <1>6, <1>8 DEF RowOnce
<1>10. HasRow(q)'
  BY <1>2, <1>5, <1>6, <1>8 DEF HasRow
<1>11. \A s \in Request : s # r /\ Having(creq[s]) => creq[s].x # x
  BY <1>1, <1>3 DEF OnlyOne
<1>12. PICK R : R = {r}
  OBVIOUS
<1>13. HasRow(creq[r])' /\ creq'[r].x = x
  BY <1>5, <1>6, <1>10
<1> QED BY <1>2, <1>6, <1>7, <1>9, <1>11, <1>12, <1>13, CeremonyMoves

LEMMA RefuseStep ==
  ASSUME CeremonyInv, NEW r \in Request, C!Refuse(r)
  PROVE  CeremonyInv'
<1>1. PICK q : q = C!Idle
  OBVIOUS
<1>2. creq' = [creq EXCEPT ![r] = q] /\ UNCHANGED <<crow, unborn, honoured>>
  BY <1>1 DEF C!Refuse, C!Becomes
<1>3. q \in CeremonyReq /\ ~Having(q)
  BY <1>1, CeremonyIdle DEF Having
<1> QED BY <1>2, <1>3, CeremonyRequest


LEMMA CeremonyBeginStep ==
  ASSUME CeremonyInv, C!BeginNext
  PROVE  CeremonyInv'
<1>1. CeremonyTypes
  BY DEF CeremonyInv
<1>2. ASSUME NEW x \in Thing, NEW kind \in C!Kind, NEW u \in User \cup {None},
             C!Store(x, kind, u, None, None), kind \in {"state", "signup"} => u = None,
             UNCHANGED <<creq, honoured>>
      PROVE  CeremonyInv'
  <2>1. PICK R : R = {}
    OBVIOUS
  <2>2. creq' \in [Request -> CeremonyReq]
    BY <1>1, <1>2 DEF CeremonyTypes
  <2>3. /\ \A s, t \in R : s = t
        /\ \A s \in Request : creq'[s] = IF s \in R THEN C!Idle ELSE creq[s]
    BY <1>2, <2>1
  <2> QED BY <1>2, <2>2, <2>3, BeginStep
<1>3. ASSUME NEW x \in Thing, NEW u \in User \cup {None},
             \/ C!BeginRegister(u, x) \/ C!BeginMFA(u, x) \/ C!BeginLogin(u, x)
             \/ C!AssertionConsumed(u, x)
      PROVE  CeremonyInv'
  <2>1. PICK v \in {u, None}, kind \in {"register", "mfa", "login", "login_discoverable", "code"} :
          C!Store(x, kind, v, None, None) /\ UNCHANGED <<creq, honoured>>
    BY <1>3 DEF C!BeginRegister, C!BeginMFA, C!BeginLogin, C!AssertionConsumed,
                C!InsertSamlLoginCode
  <2>2. kind \in C!Kind
    BY DEF C!Kind
  <2> QED BY <1>2, <2>1, <2>2
<1>4. ASSUME NEW x \in Thing, C!BeginSocial(x) PROVE CeremonyInv'
  <2>1. C!Store(x, "state", None, None, None) /\ UNCHANGED <<creq, honoured>>
    BY <1>4 DEF C!BeginSocial, C!InsertSocialOAuthState
  <2>2. "state" \in C!Kind
    BY DEF C!Kind
  <2> QED BY <1>2, <2>1, <2>2
<1>5. ASSUME NEW r \in Request, NEW a \in Home, NEW sc \in Home \cup {None},
             C!CheckSignup(r, a, sc)
      PROVE  CeremonyInv'
  <2>1. PICK q : q = [at |-> "begin", addr |-> a, scope |-> sc]
    OBVIOUS
  <2>2. creq' = [creq EXCEPT ![r] = q] /\ UNCHANGED <<crow, unborn, honoured>>
    BY <1>5, <2>1 DEF C!CheckSignup, C!Becomes
  <2>3. q \in BeginReq /\ q.at = "begin"
    BY <2>1 DEF BeginReq
  <2>4. q \in CeremonyReq /\ ~Having(q)
    BY <2>3 DEF CeremonyReq, Having
  <2> QED BY <2>2, <2>4, CeremonyRequest
<1>6. ASSUME NEW r \in Request, NEW x \in Thing, C!BeginSignup(r, x) PROVE CeremonyInv'
  <2>1. PICK a, sc : a = creq[r].addr /\ sc = creq[r].scope
    OBVIOUS
  <2>2. /\ creq[r].at = "begin" /\ C!Store(x, "signup", None, a, sc)
        /\ creq' = [creq EXCEPT ![r] = C!Idle] /\ UNCHANGED honoured
    BY <1>6, <2>1 DEF C!BeginSignup, C!Becomes
  <2>3. a \in Home \cup {None} /\ sc \in Home \cup {None}
    BY <1>1, <2>1, <2>2, CeremonyReqAt DEF CeremonyTypes, BeginReq
  <2>4. PICK R : R = {r}
    OBVIOUS
  <2>5. /\ \A s, t \in R : s = t
        /\ creq' \in [Request -> CeremonyReq]
        /\ \A s \in Request : creq'[s] = IF s \in R THEN C!Idle ELSE creq[s]
    BY <1>1, <2>2, <2>4, CeremonyIdle DEF CeremonyTypes
  <2>6. "signup" \in C!Kind
    BY DEF C!Kind
  <2> QED BY <2>2, <2>3, <2>5, <2>6, BeginStep
<1> QED BY <1>3, <1>4, <1>5, <1>6 DEF C!BeginNext

LEMMA CeremonyInitInv == C!CeremoniesInit => CeremonyInv
<1> SUFFICES ASSUME C!CeremoniesInit PROVE CeremonyInv
  OBVIOUS
<1>1. /\ crow = [x \in Thing |-> None] /\ unborn = Thing
      /\ creq = [r \in Request |-> C!Idle] /\ honoured = [x \in Thing |-> {}]
  BY DEF C!CeremoniesInit
<1>2. CeremonyTypes
  BY <1>1, CeremonyIdle DEF CeremonyTypes
<1> QED BY <1>1, <1>2, CeremonyIdle DEF CeremonyInv, RowOnce, HasRow, OnlyOne, Having

LEMMA CeremonyStep == CeremonyInv /\ (C!CeremoniesNext \/ UNCHANGED ceremonyVars) => CeremonyInv'
<1> SUFFICES ASSUME CeremonyInv, C!CeremoniesNext \/ UNCHANGED ceremonyVars PROVE CeremonyInv'
  OBVIOUS
<1>1. ASSUME UNCHANGED <<crow, unborn, creq, honoured>> PROVE CeremonyInv'
  BY <1>1 DEF CeremonyInv, CeremonyTypes, RowOnce, HasRow, OnlyOne, Having
<1>2. CASE \/ UNCHANGED ceremonyVars
           \/ \E u \in User, k \in Passkey : C!DeletePasskey(u, k)
           \/ \E u \in User : C!SoftDelete(u)
           \/ \E x \in Thing : C!Expire(x)
  BY <1>1, <1>2 DEF ceremonyVars, C!DeletePasskey, C!SoftDelete, C!Expire
<1>3. CASE C!FinishNext
  BY <1>3, TakeSessionStep, FinishRegisterStep, FinishSignupStep, FinishLoginStep,
     CompleteCallbackStep, ExchangeLockStep, ExchangeMarkStep, ExchangeIssueStep, RefuseStep
  DEF C!FinishNext
<1>4. CASE C!CeremoniesNext
  BY <1>2, <1>3, <1>4, CeremonyBeginStep DEF C!CeremoniesNext
<1> QED BY <1>2, <1>4

LEMMA CeremonySafe == CeremonyInv => C!CeremonyHonouredOnce
<1> SUFFICES ASSUME CeremonyInv PROVE C!CeremonyHonouredOnce
  OBVIOUS
<1>1. ASSUME NEW x \in Thing
      PROVE  /\ C!Cardinality(honoured[x]) <= 1
             /\ crow[x] # None => honoured[x] = {}
             /\ \A h \in honoured[x] : FairTo(h)
  <2>1. RowOnce(x)
    BY DEF CeremonyInv
  <2>2. C!Cardinality(honoured[x]) = Cardinality(honoured[x])
    BY DEF C!Cardinality, Cardinality
  <2>3. CASE honoured[x] = {}
    BY <2>2, <2>3, FS_EmptySet
  <2>4. CASE \E h : honoured[x] = {h} /\ FairTo(h)
    <3>1. PICK h : honoured[x] = {h} /\ FairTo(h)
      BY <2>4
    <3>2. Cardinality(honoured[x]) = 1
      BY <3>1, FS_Singleton
    <3> QED BY <2>1, <2>2, <3>1, <3>2 DEF RowOnce
  <2> QED BY <2>1, <2>3, <2>4 DEF RowOnce
<1> QED BY <1>1 DEF FairTo, C!CeremonyHonouredOnce

-----------------------------------------------------------------------------
(* Accounts: whoever got into an account through an outside identity, and  *)
(* the account its link names, have one address among them, which is the   *)
(* one its first sign-ins on their way have, unless those disagreed once;  *)
(* and two live rows do not share an address.                              *)
LookingReq == [at : {"link"}, id : {s \in Subject : SubjectOf[s] \in Home},
               addr : Addr, user : Account \cup {None}]
SignedInReq == [at : {"signedin"}, id : Subject, user : Account]
ImportReq == [at : {"import"}, rows : Seq(Addr), tenant : Home]
AcceptReq == [at : {"accept"}, invite : Invite]
AccountReq == {A!Idle} \cup LookingReq \cup SignedInReq \cup ImportReq \cup AcceptReq

AccountTypes ==
  /\ auser \in [Account -> A!UserRow \cup {None}]
  /\ founded \subseteq Home
  /\ alink \in [Subject -> Account \cup {None}]
  /\ split \subseteq Subject
  /\ invite \in [Invite -> A!InviteRow \cup {None}]
  /\ areq \in [Request -> AccountReq]
  /\ made \subseteq Invite \X Account

Member(u, s) ==
  \/ u = alink[s] /\ u # None
  \/ \E r \in Request : areq[r].at = "signedin" /\ areq[r].id = s /\ areq[r].user = u

Wears(u, a) == auser[u] # None /\ auser[u].addr = a

OneAddress(s) == \A u, w \in Account : Member(u, s) /\ Member(w, s) =>
                   auser[u] # None /\ Wears(w, auser[u].addr)

Unlinked(s) == alink[s] = None =>
                 \A r \in Request : ~(areq[r].at = "signedin" /\ areq[r].id = s)

Waits(r) ==
  areq[r].at = "link" =>
    /\ areq[r].id \notin split =>
         \A u \in Account : Member(u, areq[r].id) => Wears(u, areq[r].addr)
    /\ areq[r].user # None => Wears(areq[r].user, areq[r].addr)

Agree(s) == \A r, t \in Request :
              /\ areq[r].at = "link" /\ areq[r].id = s
              /\ areq[t].at = "link" /\ areq[t].id = s
              => areq[r].addr = areq[t].addr

LiveOnce == \A u, w \in Account :
              A!Is(u, "live") /\ A!Is(w, "live") /\ auser[u].addr = auser[w].addr => u = w

LinksInv ==
  /\ \A s \in Subject : Unlinked(s)
  /\ \A s \in Subject \ split : OneAddress(s) /\ Agree(s)
  /\ \A r \in Request : Waits(r)
  /\ LiveOnce

(* Of an invitation that is being accepted nothing was made, and nobody    *)
(* else accepts it.                                                        *)
InvitesInv ==
  /\ \A m \in made : invite[m[1]] # None /\ invite[m[1]].status = "accepted"
  /\ \A m, n \in made : n[1] = m[1] => n = m
  /\ \A r \in Request : areq[r].at = "accept" =>
       invite[areq[r].invite] # None /\ invite[areq[r].invite].status = "pending"
  /\ \A r, t \in Request : areq[r].at = "accept" /\ areq[t].at = "accept"
                             /\ areq[r].invite = areq[t].invite => r = t

AccountInv == AccountTypes /\ LinksInv /\ InvitesInv

LEMMA AccountIdle == A!Idle \in AccountReq /\ A!Idle.at = "idle"
BY DEF AccountReq, A!Idle

LEMMA AccountReqAt ==
  ASSUME NEW q \in AccountReq
  PROVE  /\ q.at = "link" => q \in LookingReq
         /\ q.at = "signedin" => q \in SignedInReq
         /\ q.at = "import" => q \in ImportReq
         /\ q.at = "accept" => q \in AcceptReq
<1>1. CASE q = A!Idle
  BY <1>1 DEF A!Idle
<1>2. CASE q \in LookingReq
  BY <1>2 DEF LookingReq
<1>3. CASE q \in SignedInReq
  BY <1>3 DEF SignedInReq
<1>4. CASE q \in ImportReq
  BY <1>4 DEF ImportReq
<1>5. CASE q \in AcceptReq
  BY <1>5 DEF AcceptReq
<1> QED BY <1>1, <1>2, <1>3, <1>4, <1>5 DEF AccountReq

(* Rows keep their address and live ones stay apart; who joins an identity *)
(* wears the address of a first sign-in of it.                             *)
RowsHold == \A u \in Account : auser[u] # None =>
              auser'[u] # None /\ auser'[u].addr = auser[u].addr

Joins(u, s) == \E r \in Request :
                 /\ areq[r].at = "link" /\ areq[r].id = s
                 /\ auser'[u] # None /\ auser'[u].addr = areq[r].addr

(* r has set out on a first sign-in.                                       *)
SetsOut(r) ==
  /\ \A u \in Account : ~Member(u, areq'[r].id)
  /\ areq'[r].user # None => Wears(areq'[r].user, areq'[r].addr)
  /\ areq'[r].id \notin split' =>
       \A t \in Request : areq[t].at = "link" /\ areq[t].id = areq'[r].id =>
                           areq[t].addr = areq'[r].addr

LEMMA LinksMove ==
  ASSUME AccountInv, AccountTypes', RowsHold, LiveOnce', split \subseteq split',
         \A s \in Subject, u \in Account : Member(u, s)' => Member(u, s) \/ Joins(u, s),
         \A s \in Subject : Unlinked(s)',
         \A s \in Subject \ split' : Agree(s)',
         \A r \in Request : areq'[r].at = "link" => areq'[r] = areq[r] \/ SetsOut(r)
  PROVE  LinksInv'
<1>1. ASSUME NEW s \in Subject \ split', NEW u \in Account, NEW w \in Account,
             Member(u, s)', Member(w, s)'
      PROVE  auser'[u] # None /\ auser'[w] # None /\ auser'[w].addr = auser'[u].addr
  <2>1. ASSUME NEW v \in Account, Member(v, s)
        PROVE  /\ auser[v] # None /\ auser'[v] # None /\ auser'[v].addr = auser[v].addr
               /\ \A z \in Account : Joins(z, s) => auser[v].addr = auser'[z].addr
    <3>1. auser[v] # None
      BY <2>1 DEF AccountInv, LinksInv, OneAddress, Wears
    <3>2. ASSUME NEW z \in Account, Joins(z, s)
          PROVE  auser[v].addr = auser'[z].addr
      BY <2>1, <3>2 DEF Joins, AccountInv, LinksInv, Waits, Wears
    <3> QED BY <3>1, <3>2 DEF RowsHold
  <2>2. CASE Member(u, s) /\ Member(w, s)
    <3>1. auser[w].addr = auser[u].addr
      BY <2>2 DEF AccountInv, LinksInv, OneAddress, Wears
    <3> QED BY <2>1, <2>2, <3>1
  <2>3. CASE Member(u, s) /\ Joins(w, s)
    BY <2>1, <2>3 DEF Joins
  <2>4. CASE Joins(u, s) /\ Member(w, s)
    BY <2>1, <2>4 DEF Joins
  <2>5. CASE Joins(u, s) /\ Joins(w, s)
    BY <2>5 DEF Joins, AccountInv, LinksInv, Agree
  <2> QED BY <1>1, <2>2, <2>3, <2>4, <2>5
<1>2. ASSUME NEW r \in Request, areq'[r].at = "link"
      PROVE  Waits(r)'
  <2>1. PICK q, s : q = areq'[r] /\ s = q.id
    OBVIOUS
  <2>2. s \in Subject /\ q.user \in Account \cup {None} /\ q.at = "link"
    <3>1. q \in AccountReq
      BY <2>1 DEF AccountTypes
    <3>2. q \in LookingReq
      BY <1>2, <2>1, <3>1, AccountReqAt
    <3> QED BY <1>2, <2>1, <3>2 DEF LookingReq
  <2>3. /\ s \notin split' =>
             /\ \A u \in Account : Member(u, s) => Wears(u, q.addr)
             /\ \A t \in Request : areq[t].at = "link" /\ areq[t].id = s => areq[t].addr = q.addr
        /\ q.user # None => Wears(q.user, q.addr)
    <3>1. CASE q = areq[r]
      BY <1>2, <2>1, <2>2, <3>1 DEF AccountInv, LinksInv, Waits, Agree
    <3>2. CASE SetsOut(r)
      BY <2>1, <3>2 DEF SetsOut
    <3> QED BY <1>2, <2>1, <3>1, <3>2
  <2>4. ASSUME NEW u \in Account, Wears(u, q.addr)
        PROVE  auser'[u] # None /\ auser'[u].addr = q.addr
    BY <2>4 DEF RowsHold, Wears
  <2>5. ASSUME s \notin split', NEW u \in Account, Member(u, s)'
        PROVE  auser'[u] # None /\ auser'[u].addr = q.addr
    <3>1. Joins(u, s) => auser'[u] # None /\ auser'[u].addr = q.addr
      BY <2>3, <2>5 DEF Joins
    <3> QED BY <2>2, <2>3, <2>4, <2>5, <3>1
  <2>6. q.user # None => auser'[q.user] # None /\ auser'[q.user].addr = q.addr
    BY <2>2, <2>3, <2>4
  <2> QED BY <2>1, <2>5, <2>6 DEF Waits, Wears
<1>3. ASSUME NEW s \in Subject \ split' PROVE OneAddress(s)'
  BY <1>1 DEF OneAddress, Wears
<1>4. ASSUME NEW r \in Request PROVE Waits(r)'
  BY <1>2 DEF Waits
<1> QED BY <1>3, <1>4 DEF LinksInv

(* Requests end or do other things, and a link goes with those it signed   *)
(* in.                                                                     *)
LEMMA LinksLeft ==
  ASSUME AccountInv, AccountTypes', RowsHold, LiveOnce', UNCHANGED split,
         \A r \in Request : areq'[r] = areq[r] \/ areq'[r].at \notin {"link", "signedin"},
         \A s \in Subject :
           \/ alink'[s] = alink[s]
           \/ /\ alink'[s] = None
              /\ \A r \in Request : ~(areq'[r].at = "signedin" /\ areq'[r].id = s)
  PROVE  LinksInv'
<1>1. ASSUME NEW s \in Subject, NEW u \in Account, Member(u, s)'
      PROVE  Member(u, s)
  BY <1>1 DEF Member
<1>2. ASSUME NEW s \in Subject PROVE Unlinked(s)'
  BY DEF AccountInv, LinksInv, Unlinked
<1>3. ASSUME NEW s \in Subject \ split' PROVE Agree(s)'
  BY DEF AccountInv, LinksInv, Agree
<1> QED BY <1>1, <1>2, <1>3, LinksMove

(* No acceptance begins, and the invitations stay as they are.             *)
LEMMA InvitesStay ==
  ASSUME AccountInv, UNCHANGED <<invite, made>>,
         \A r \in Request : areq'[r] = areq[r] \/ areq'[r].at # "accept"
  PROVE  InvitesInv'
BY DEF AccountInv, InvitesInv


(* A row gets another value, which is live only if it was or no live row   *)
(* has its address.                                                        *)
LEMMA RowPut ==
  ASSUME AccountInv, NEW u \in Account, NEW y \in A!UserRow, auser' = [auser EXCEPT ![u] = y],
         auser[u] # None => y.addr = auser[u].addr,
         y.life = "live" => A!Is(u, "live") \/ ~A!Taken(y.addr)
  PROVE  /\ auser' \in [Account -> A!UserRow \cup {None}]
         /\ auser'[u] = y /\ y # None
         /\ RowsHold /\ LiveOnce'
<1>1. AccountTypes /\ y # None
  BY IdentityAssumption DEF AccountInv
<1>2. /\ auser' \in [Account -> A!UserRow \cup {None}] /\ auser'[u] = y
      /\ \A w \in Account : w # u => auser'[w] = auser[w]
  BY <1>1 DEF AccountTypes
<1>3. RowsHold
  BY <1>1, <1>2 DEF RowsHold
<1>4. ASSUME NEW w \in Account, auser'[w] # None, auser'[w].life = "live",
             y.life = "live", auser'[w].addr = y.addr
      PROVE  w = u
  <2>1. CASE w # u
    <3>1. A!Is(w, "live") /\ auser[w].addr = y.addr
      BY <1>2, <1>4, <2>1 DEF A!Is
    <3>2. w \in A!LiveWith(y.addr)
      BY <3>1 DEF A!LiveWith
    <3>3. A!Is(u, "live") /\ auser[u].addr = y.addr
      BY <1>4, <3>2 DEF A!Taken, A!Is
    <3> QED BY <3>1, <3>3 DEF AccountInv, LinksInv, LiveOnce
  <2> QED BY <2>1
<1>5. ASSUME NEW v \in Account, NEW w \in Account, auser'[v] # None, auser'[w] # None,
             auser'[v].life = "live", auser'[w].life = "live", auser'[v].addr = auser'[w].addr
      PROVE  v = w
  <2>1. CASE v # u /\ w # u
    <3>1. A!Is(v, "live") /\ A!Is(w, "live") /\ auser[v].addr = auser[w].addr
      BY <1>2, <1>5, <2>1 DEF A!Is
    <3> QED BY <3>1 DEF AccountInv, LinksInv, LiveOnce
  <2>2. CASE v = u
    BY <1>2, <1>4, <1>5, <2>2
  <2>3. CASE w = u
    BY <1>2, <1>4, <1>5, <2>3
  <2> QED BY <2>1, <2>2, <2>3
<1>6. LiveOnce'
  BY <1>5 DEF LiveOnce, A!Is
<1> QED BY <1>1, <1>2, <1>3, <1>6

LEMMA Inserted ==
  ASSUME AccountInv, NEW u \in Account, NEW a \in Addr, NEW t \in Home \cup {None},
         A!Insert(u, a, t)
  PROVE  /\ auser' \in [Account -> A!UserRow \cup {None}]
         /\ auser'[u] # None /\ auser'[u].addr = a
         /\ RowsHold /\ LiveOnce'
<1>1. PICK y : y = A!Row(a, t)
  OBVIOUS
<1>2. y = [addr |-> a, home |-> t, life |-> "live"]
  BY <1>1 DEF A!Row
<1>3. y \in A!UserRow /\ y.addr = a
  BY <1>2 DEF A!UserRow
<1>4. auser[u] = None /\ ~A!Taken(a) /\ auser' = [auser EXCEPT ![u] = y]
  BY <1>1 DEF A!Insert
<1> QED BY <1>3, <1>4, RowPut

LEMMA RowsSame ==
  ASSUME AccountInv, UNCHANGED auser
  PROVE  /\ auser' \in [Account -> A!UserRow \cup {None}]
         /\ RowsHold /\ LiveOnce'
BY DEF AccountInv, AccountTypes, LinksInv, LiveOnce, RowsHold, A!Is

(* A request goes on; identities and invitations are not touched.          *)
LEMMA ElsewhereStep ==
  ASSUME AccountInv, auser' \in [Account -> A!UserRow \cup {None}], RowsHold, LiveOnce',
         founded' \subseteq Home, areq' \in [Request -> AccountReq],
         \A r \in Request : areq'[r] = areq[r] \/ areq'[r].at \in {"idle", "import"},
         UNCHANGED <<alink, split, invite, made>>
  PROVE  AccountInv'
<1>1. AccountTypes'
  BY DEF AccountInv, AccountTypes
<1>2. LinksInv'
  BY <1>1, LinksLeft
<1>3. InvitesInv'
  BY InvitesStay
<1> QED BY <1>1, <1>2, <1>3 DEF AccountInv

LEMMA CreateStep ==
  ASSUME AccountInv, NEW u \in Account, NEW a \in Addr, NEW t \in Home \cup {None},
         A!Insert(u, a, t), UNCHANGED <<founded, alink, split, invite, areq, made>>
  PROVE  AccountInv'
<1>1. founded' \subseteq Home /\ areq' \in [Request -> AccountReq]
  BY DEF AccountInv, AccountTypes
<1> QED BY <1>1, Inserted, ElsewhereStep

LEMMA AccountLeaveStep ==
  ASSUME AccountInv, NEW r \in Request, A!Leave(r)
  PROVE  AccountInv'
<1>1. /\ areq' = [areq EXCEPT ![r] = A!Idle]
      /\ UNCHANGED <<auser, founded, alink, split, invite, made>>
  BY DEF A!Leave, A!Becomes
<1>2. /\ areq' \in [Request -> AccountReq] /\ founded' \subseteq Home
      /\ \A s \in Request : areq'[s] = areq[s] \/ areq'[s].at \in {"idle", "import"}
  BY <1>1, AccountIdle DEF AccountInv, AccountTypes
<1> QED BY <1>1, <1>2, RowsSame, ElsewhereStep

LEMMA BulkCreateStep ==
  ASSUME AccountInv, NEW r \in Request, NEW b \in File, NEW t \in Home, A!BulkCreate(r, b, t)
  PROVE  AccountInv'
<1>1. PICK q : q = [at |-> "import", rows |-> b, tenant |-> t]
  OBVIOUS
<1>2. /\ areq' = [areq EXCEPT ![r] = q]
      /\ UNCHANGED <<auser, founded, alink, split, invite, made>>
  BY <1>1 DEF A!BulkCreate, A!Becomes
<1>3. q \in ImportReq /\ q.at = "import"
  BY <1>1, IdentityAssumption DEF ImportReq
<1>4. /\ areq' \in [Request -> AccountReq] /\ founded' \subseteq Home
      /\ \A s \in Request : areq'[s] = areq[s] \/ areq'[s].at \in {"idle", "import"}
  BY <1>2, <1>3 DEF AccountInv, AccountTypes, AccountReq
<1> QED BY <1>2, <1>4, RowsSame, ElsewhereStep

LEMMA ImportRowStep ==
  ASSUME AccountInv, NEW r \in Request, A!ImportRow(r)
  PROVE  AccountInv'
<1>1. PICK q, w : q = areq[r] /\ w = IF Len(q.rows) = 1 THEN A!Idle ELSE [q EXCEPT !.rows = Tail(@)]
  OBVIOUS
<1>2. /\ q.at = "import" /\ q.rows # <<>>
      /\ \/ \E u \in Account : A!Insert(u, Head(q.rows), q.tenant)
         \/ UNCHANGED auser
      /\ areq' = [areq EXCEPT ![r] = w]
      /\ UNCHANGED <<founded, alink, split, invite, made>>
  BY <1>1 DEF A!ImportRow, A!Becomes
<1>3. q \in ImportReq
  BY <1>1, <1>2, AccountReqAt DEF AccountInv, AccountTypes
<1>4. Head(q.rows) \in Addr /\ Tail(q.rows) \in Seq(Addr) /\ q.tenant \in Home
  BY <1>2, <1>3 DEF ImportReq
<1>5. w = A!Idle \/ w = [at |-> "import", rows |-> Tail(q.rows), tenant |-> q.tenant]
  BY <1>1, <1>3 DEF ImportReq
<1>6. w \in AccountReq /\ w.at \in {"idle", "import"}
  BY <1>4, <1>5, AccountIdle DEF AccountReq, ImportReq
<1>7. /\ areq' \in [Request -> AccountReq] /\ founded' \subseteq Home
      /\ \A s \in Request : areq'[s] = areq[s] \/ areq'[s].at \in {"idle", "import"}
  BY <1>2, <1>6 DEF AccountInv, AccountTypes
<1>8. auser' \in [Account -> A!UserRow \cup {None}] /\ RowsHold /\ LiveOnce'
  BY <1>2, <1>4, RowsSame, Inserted
<1> QED BY <1>2, <1>7, <1>8, ElsewhereStep

(* A row that is there gets another life or home.                          *)
LEMMA RowStep ==
  ASSUME AccountInv, NEW u \in Account, A!Delete(u) \/ A!Restore(u) \/
         \E t \in Home : A!CreateWithOwner(u, t)
  PROVE  AccountInv'
<1>1. PICK y : /\ \/ y = [auser[u] EXCEPT !.life = "deleted"]
                  \/ y = [auser[u] EXCEPT !.life = "live"] /\ ~A!Taken(auser[u].addr)
                  \/ \E t \in Home : y = [auser[u] EXCEPT !.home = IF @ = None THEN t ELSE @]
               /\ auser[u] # None /\ auser' = [auser EXCEPT ![u] = y]
               /\ founded' = founded \/ \E t \in Home : founded' = founded \cup {t}
               /\ UNCHANGED <<alink, split, invite, areq, made>>
  BY DEF A!Delete, A!Restore, A!CreateWithOwner, A!Is
<1>2. auser[u] \in A!UserRow /\ founded' \subseteq Home /\ areq' \in [Request -> AccountReq]
  BY <1>1 DEF AccountInv, AccountTypes
<1>3. PICK h \in Home \cup {None}, l \in {"live", "deleted", "purged"} :
        /\ y = [addr |-> auser[u].addr, home |-> h, life |-> l]
        /\ l = "live" => auser[u].life = "live" \/ ~A!Taken(auser[u].addr)
  BY <1>1, <1>2 DEF A!UserRow
<1>4. /\ y \in A!UserRow /\ y.addr = auser[u].addr
      /\ y.life = "live" => A!Is(u, "live") \/ ~A!Taken(y.addr)
  BY <1>1, <1>2, <1>3 DEF A!UserRow, A!Is
<1>5. auser' \in [Account -> A!UserRow \cup {None}] /\ RowsHold /\ LiveOnce'
  BY <1>1, <1>4, RowPut
<1> QED BY <1>1, <1>2, <1>5, ElsewhereStep

LEMMA PurgeStep ==
  ASSUME AccountInv, NEW u \in Account, A!Purge(u)
  PROVE  AccountInv'
<1>1. PICK y : y = [auser[u] EXCEPT !.life = "purged"]
  OBVIOUS
<1>2. /\ auser[u] # None /\ auser' = [auser EXCEPT ![u] = y]
      /\ alink' = [s \in Subject |-> IF alink[s] = u THEN None ELSE alink[s]]
      /\ areq' = [r \in Request |->
                   IF \E s \in Subject : r \in A!SignedInBy(s) /\ u \in {alink[s], areq[r].user}
                   THEN A!Idle ELSE areq[r]]
      /\ UNCHANGED <<founded, split, invite, made>>
  BY <1>1 DEF A!Purge, A!Is
<1>3. AccountTypes /\ auser[u] \in A!UserRow
  BY <1>2 DEF AccountInv, AccountTypes
<1>4. y = [addr |-> auser[u].addr, home |-> auser[u].home, life |-> "purged"]
  BY <1>1, <1>3 DEF A!UserRow
<1>5. y \in A!UserRow /\ y.addr = auser[u].addr /\ y.life # "live"
  BY <1>3, <1>4 DEF A!UserRow
<1>6. auser' \in [Account -> A!UserRow \cup {None}] /\ RowsHold /\ LiveOnce'
  BY <1>2, <1>5, RowPut
<1>7. /\ areq' \in [Request -> AccountReq]
      /\ \A r \in Request : areq'[r] = areq[r] \/ areq'[r].at = "idle"
  BY <1>2, <1>3, AccountIdle DEF AccountTypes
<1>8. ASSUME NEW s \in Subject, alink'[s] # alink[s], NEW r \in Request,
             areq'[r].at = "signedin", areq'[r].id = s
      PROVE  FALSE
  <2>1. alink[s] = u
    BY <1>2, <1>8
  <2>2. areq'[r] = areq[r]
    BY <1>7, <1>8
  <2>3. r \in A!SignedInBy(s)
    BY <1>8, <2>2 DEF A!SignedInBy
  <2>4. areq'[r] = A!Idle
    BY <1>2, <2>1, <2>3
  <2> QED BY <1>8, <2>4, AccountIdle
<1>9. \A s \in Subject : alink'[s] \in {alink[s], None}
  BY <1>2
<1>10. AccountTypes'
  BY <1>2, <1>3, <1>6, <1>7 DEF AccountTypes
<1>11. LinksInv'
  BY <1>2, <1>6, <1>7, <1>8, <1>9, <1>10, LinksLeft
<1>12. InvitesInv'
  BY <1>2, <1>7, InvitesStay
<1> QED BY <1>10, <1>11, <1>12 DEF AccountInv

LEMMA UnlinkStep ==
  ASSUME AccountInv, NEW s \in Subject, A!Unlink(s)
  PROVE  AccountInv'
<1>1. /\ alink' = [alink EXCEPT ![s] = None]
      /\ areq' = [r \in Request |-> IF r \in A!SignedInBy(s) THEN A!Idle ELSE areq[r]]
      /\ UNCHANGED <<auser, founded, split, invite, made>>
  BY DEF A!Unlink
<1>2. AccountTypes
  BY DEF AccountInv
<1>3. /\ areq' \in [Request -> AccountReq]
      /\ \A r \in Request : areq'[r] = areq[r] \/ areq'[r].at = "idle"
  BY <1>1, <1>2, AccountIdle DEF AccountTypes
<1>4. AccountTypes'
  BY <1>1, <1>2, <1>3 DEF AccountTypes
<1>5. /\ alink'[s] = None
      /\ \A t \in Subject : t # s => alink'[t] = alink[t]
  BY <1>1, <1>2 DEF AccountTypes
<1>6. ASSUME NEW r \in Request, areq'[r].at = "signedin", areq'[r].id = s
      PROVE  FALSE
  <2>1. areq'[r] = areq[r]
    BY <1>3, <1>6
  <2>2. r \in A!SignedInBy(s)
    BY <1>6, <2>1 DEF A!SignedInBy
  <2> QED BY <1>1, <1>6, <2>2, AccountIdle
<1>7. LinksInv'
  BY <1>1, <1>3, <1>4, <1>5, <1>6, RowsSame, LinksLeft
<1>8. InvitesInv'
  BY <1>1, <1>3, InvitesStay
<1> QED BY <1>4, <1>7, <1>8 DEF AccountInv


(* An identity without a link has no members.                              *)
LEMMA NoMembers ==
  ASSUME AccountInv, NEW s \in Subject, alink[s] = None, NEW u
  PROVE  ~Member(u, s)
BY DEF AccountInv, LinksInv, Unlinked, Member

LEMMA LookIdentityStep ==
  ASSUME AccountInv, NEW r \in Request, NEW s \in Subject, NEW a \in Addr, A!LookIdentity(r, s, a)
  PROVE  AccountInv'
<1>1. AccountTypes /\ None \notin Account
  BY IdentityAssumption DEF AccountInv
<1>2. PICK u, q : /\ u \in IF A!Found(s, a) = {} THEN {None} ELSE A!Found(s, a)
                  /\ q = IF alink[s] # None THEN [at |-> "signedin", id |-> s, user |-> u]
                         ELSE [at |-> "link", id |-> s, addr |-> a, user |-> u]
                  /\ areq[r] = A!Idle /\ SubjectOf[s] \in founded
                  /\ areq' = [areq EXCEPT ![r] = q]
                  /\ split' = IF alink[s] = None /\ A!Disagreeing(s, a) # {}
                              THEN split \cup {s} ELSE split
                  /\ UNCHANGED <<auser, founded, alink, invite, made>>
  BY DEF A!LookIdentity, A!Becomes
<1>3. /\ alink[s] # None => u = alink[s] /\ u \in Account
      /\ alink[s] = None => u = None \/ (u \in Account /\ Wears(u, a))
  BY <1>1, <1>2 DEF A!Found, A!LiveWith, A!Is, Wears, AccountTypes
<1>4. /\ q.id = s /\ q.user = u /\ q.at = (IF alink[s] # None THEN "signedin" ELSE "link")
      /\ alink[s] = None => q.addr = a
  BY <1>2
<1>5. q \in AccountReq
  <2>1. CASE alink[s] # None
    BY <1>2, <1>3, <2>1 DEF AccountReq, SignedInReq
  <2>2. CASE alink[s] = None
    BY <1>1, <1>2, <1>3, <2>2 DEF AccountReq, LookingReq, AccountTypes
  <2> QED BY <2>1, <2>2
<1>6. AccountTypes'
  BY <1>1, <1>2, <1>5 DEF AccountTypes
<1>7. areq'[r] = q /\ \A t \in Request : t # r => areq'[t] = areq[t]
  BY <1>1, <1>2 DEF AccountTypes
<1>8. ASSUME NEW t \in Subject, NEW w \in Account, Member(w, t)'
      PROVE  Member(w, t)
  <2>1. CASE w = alink[t]
    BY <1>1, <2>1 DEF Member
  <2>2. CASE w # alink[t]
    <3>1. PICK i \in Request : areq'[i].at = "signedin" /\ areq'[i].id = t /\ areq'[i].user = w
      BY <1>2, <1>8, <2>2 DEF Member
    <3>2. i # r
      BY <1>3, <1>4, <1>7, <2>2, <3>1
    <3> QED BY <1>7, <3>1, <3>2 DEF Member
  <2> QED BY <2>1, <2>2
<1>9. ASSUME NEW t \in Subject PROVE Unlinked(t)'
  BY <1>2, <1>4, <1>7 DEF AccountInv, LinksInv, Unlinked
<1>10. ASSUME NEW i \in Request, areq'[i].at = "link", i # r
       PROVE  areq'[i] = areq[i]
  BY <1>7, <1>10
<1>11. ASSUME areq'[r].at = "link"
       PROVE  SetsOut(r)
  <2>1. alink[s] = None /\ areq'[r].id = s /\ areq'[r].user = u /\ areq'[r].addr = a
    BY <1>4, <1>7, <1>11
  <2>2. ASSUME s \notin split', NEW t \in Request, areq[t].at = "link", areq[t].id = s
        PROVE  areq[t].addr = a
    BY <1>2, <2>1, <2>2 DEF A!Disagreeing
  <2>3. \A w \in Account : ~Member(w, s)
    BY <2>1, NoMembers
  <2>4. u # None => Wears(u, a)
    BY <1>3, <2>1
  <2> QED BY <2>1, <2>2, <2>3, <2>4 DEF SetsOut
<1>12. ASSUME NEW t \in Subject \ split', NEW i \in Request, NEW k \in Request,
              areq'[i].at = "link", areq'[i].id = t, areq'[k].at = "link", areq'[k].id = t
       PROVE  areq'[i].addr = areq'[k].addr
  <2>1. t \in Subject \ split
    BY <1>2
  <2>2. areq[i].at = "link" /\ areq[k].at = "link" /\ i # r /\ k # r => areq[i].addr = areq[k].addr
    BY <1>7, <1>12, <2>1 DEF AccountInv, LinksInv, Agree
  <2>3. \A n \in Request : n # r /\ areq'[r].at = "link" /\ areq'[r].id = t
                           /\ areq[n].at = "link" /\ areq[n].id = t => areq[n].addr = areq'[r].addr
    BY <1>11, <1>12 DEF SetsOut
  <2> QED BY <1>7, <1>12, <2>2, <2>3
<1>13. \A t \in Subject \ split' : Agree(t)'
  BY <1>12 DEF Agree
<1>14. /\ split \subseteq split'
       /\ \A i \in Request : areq'[i].at = "link" => areq'[i] = areq[i] \/ SetsOut(i)
  BY <1>2, <1>10, <1>11
<1>15. LinksInv'
  BY <1>2, <1>6, <1>8, <1>9, <1>13, <1>14, RowsSame, LinksMove
<1>16. InvitesInv'
  BY <1>2, <1>4, <1>7, InvitesStay
<1> QED BY <1>6, <1>15, <1>16 DEF AccountInv

(* A first sign-in ends: u, who wears its address, is signed in and linked *)
(* if nobody was.                                                          *)
LEMMA LinkStep ==
  ASSUME AccountInv, NEW r \in Request, NEW s \in Subject, NEW u \in Account, NEW q,
         areq[r].at = "link", areq[r].id = s,
         auser' \in [Account -> A!UserRow \cup {None}], RowsHold, LiveOnce',
         auser'[u] # None, auser'[u].addr = areq[r].addr,
         A!LinkIdentity(s, u), q = [at |-> "signedin", id |-> s, user |-> u],
         areq' = [areq EXCEPT ![r] = q],
         UNCHANGED <<founded, split, invite, made>>
  PROVE  AccountInv'
<1>1. AccountTypes /\ None \notin Account
  BY IdentityAssumption DEF AccountInv
<1>2. q \in AccountReq /\ q.at = "signedin" /\ q.id = s /\ q.user = u
  BY DEF AccountReq, SignedInReq
<1>3. areq'[r] = q /\ \A t \in Request : t # r => areq'[t] = areq[t]
  BY <1>1 DEF AccountTypes
<1>4. /\ alink' \in [Subject -> Account \cup {None}]
      /\ alink'[s] \in {alink[s], u} /\ alink'[s] # None
      /\ \A t \in Subject : t # s => alink'[t] = alink[t]
  BY <1>1 DEF A!LinkIdentity, AccountTypes
<1>5. AccountTypes'
  BY <1>1, <1>2, <1>4 DEF AccountTypes
<1>6. Joins(u, s)
  BY DEF Joins
<1>7. ASSUME NEW t \in Subject, NEW w \in Account, Member(w, t)'
      PROVE  Member(w, t) \/ Joins(w, t)
  <2>1. CASE w = alink'[t]
    BY <1>1, <1>4, <1>6, <2>1 DEF Member
  <2>2. CASE w # alink'[t]
    <3>1. PICK i \in Request : areq'[i].at = "signedin" /\ areq'[i].id = t /\ areq'[i].user = w
      BY <1>7, <2>2 DEF Member
    <3>2. CASE i = r
      BY <1>2, <1>3, <1>6, <3>1, <3>2
    <3>3. CASE i # r
      BY <1>3, <3>1, <3>3 DEF Member
    <3> QED BY <3>2, <3>3
  <2> QED BY <2>1, <2>2
<1>8. ASSUME NEW t \in Subject PROVE Unlinked(t)'
  BY <1>2, <1>3, <1>4 DEF AccountInv, LinksInv, Unlinked
<1>9. \A i \in Request : areq'[i].at = "link" => areq'[i] = areq[i]
  BY <1>2, <1>3
<1>10. ASSUME NEW t \in Subject \ split' PROVE Agree(t)'
  BY <1>9, <1>10 DEF AccountInv, LinksInv, Agree
<1>11. LinksInv'
  BY <1>5, <1>7, <1>8, <1>9, <1>10, LinksMove
<1>12. InvitesInv'
  BY <1>2, <1>3, InvitesStay
<1> QED BY <1>5, <1>11, <1>12 DEF AccountInv

LEMMA LinkFoundStep ==
  ASSUME AccountInv, NEW r \in Request, A!LinkFound(r)
  PROVE  AccountInv'
<1>1. PICK s, u, q : /\ s = areq[r].id /\ u = areq[r].user
                     /\ q = [at |-> "signedin", id |-> s, user |-> u]
  OBVIOUS
<1>2. /\ areq[r].at = "link" /\ u # None /\ A!LinkIdentity(s, u)
      /\ areq' = [areq EXCEPT ![r] = q]
      /\ UNCHANGED <<auser, founded, split, invite, made>>
  BY <1>1 DEF A!LinkFound, A!Becomes
<1>3. areq[r] \in LookingReq
  BY <1>2, AccountReqAt DEF AccountInv, AccountTypes
<1>4. s \in Subject /\ u \in Account
  BY <1>1, <1>2, <1>3 DEF LookingReq
<1>5. auser'[u] # None /\ auser'[u].addr = areq[r].addr
  BY <1>1, <1>2 DEF AccountInv, LinksInv, Waits, Wears
<1>6. auser' \in [Account -> A!UserRow \cup {None}] /\ RowsHold /\ LiveOnce'
  BY <1>2, RowsSame
<1> QED BY <1>1, <1>2, <1>4, <1>5, <1>6, LinkStep

LEMMA LinkNewStep ==
  ASSUME AccountInv, NEW r \in Request, NEW u \in Account, A!LinkNew(r, u)
  PROVE  AccountInv'
<1>1. PICK s, q, a : /\ s = areq[r].id /\ a = areq[r].addr
                     /\ q = [at |-> "signedin", id |-> s, user |-> u]
  OBVIOUS
<1>2. /\ areq[r].at = "link" /\ A!LinkIdentity(s, u)
      /\ A!Insert(u, a, SubjectOf[s])
      /\ areq' = [areq EXCEPT ![r] = q]
      /\ UNCHANGED <<founded, split, invite, made>>
  BY <1>1 DEF A!LinkNew, A!Becomes
<1>3. areq[r] \in LookingReq
  BY <1>2, AccountReqAt DEF AccountInv, AccountTypes
<1>4. s \in Subject /\ SubjectOf[s] \in Home /\ a \in Addr
  BY <1>1, <1>2, <1>3 DEF LookingReq
<1>5. /\ auser' \in [Account -> A!UserRow \cup {None}]
      /\ auser'[u] # None /\ auser'[u].addr = a
      /\ RowsHold /\ LiveOnce'
  BY <1>2, <1>4, Inserted
<1> QED BY <1>1, <1>2, <1>4, <1>5, LinkStep

(* Invitations: accounts change by an insert at most and links not at all. *)
LEMMA InviteStep ==
  ASSUME AccountInv, auser' \in [Account -> A!UserRow \cup {None}], RowsHold, LiveOnce',
         invite' \in [Invite -> A!InviteRow \cup {None}], made' \subseteq Invite \X Account,
         areq' \in [Request -> AccountReq],
         \A r \in Request : areq'[r] = areq[r] \/ areq'[r].at \in {"idle", "accept"},
         UNCHANGED <<founded, alink, split>>, InvitesInv'
  PROVE  AccountInv'
<1>1. AccountTypes'
  BY DEF AccountInv, AccountTypes
<1>2. LinksInv'
  BY <1>1, LinksLeft
<1> QED BY <1>1, <1>2 DEF AccountInv

(* An invitation changes that is not accepted, and that nobody accepts     *)
(* unless it stays pending.                                                *)
LEMMA InviteMoves ==
  ASSUME AccountInv, NEW v \in Invite, NEW y \in A!InviteRow, invite' = [invite EXCEPT ![v] = y],
         \A m \in made : m[1] = v => y.status = "accepted",
         \A r \in Request : areq'[r] = areq[r] \/ areq'[r].at = "idle",
         \A r \in Request : areq'[r].at = "accept" /\ areq'[r].invite = v => y.status = "pending",
         UNCHANGED made
  PROVE  invite' \in [Invite -> A!InviteRow \cup {None}] /\ InvitesInv'
<1>1. AccountTypes /\ y # None /\ InvitesInv
  BY IdentityAssumption DEF AccountInv
<1>2. /\ invite' \in [Invite -> A!InviteRow \cup {None}] /\ invite'[v] = y
      /\ \A w \in Invite : w # v => invite'[w] = invite[w]
  BY <1>1 DEF AccountTypes
<1>3. ASSUME NEW m \in made PROVE invite'[m[1]] # None /\ invite'[m[1]].status = "accepted"
  <2>1. m[1] \in Invite
    BY <1>1 DEF AccountTypes
  <2> QED BY <1>1, <1>2, <2>1 DEF InvitesInv
<1>4. ASSUME NEW r \in Request, areq'[r].at = "accept"
      PROVE  invite'[areq'[r].invite] # None /\ invite'[areq'[r].invite].status = "pending"
  <2>1. areq'[r] = areq[r] /\ areq[r] \in AcceptReq
    BY <1>1, <1>4, AccountReqAt DEF AccountTypes
  <2>2. areq[r].invite \in Invite
    BY <2>1 DEF AcceptReq
  <2>3. invite[areq[r].invite] # None /\ invite[areq[r].invite].status = "pending"
    BY <1>1, <1>4, <2>1 DEF InvitesInv
  <2> QED BY <1>1, <1>2, <1>4, <2>1, <2>2, <2>3
<1>5. ASSUME NEW r \in Request, NEW t \in Request, areq'[r].at = "accept",
             areq'[t].at = "accept", areq'[r].invite = areq'[t].invite
      PROVE  r = t
  <2>1. areq'[r] = areq[r] /\ areq'[t] = areq[t]
    BY <1>5
  <2> QED BY <1>1, <1>5, <2>1 DEF InvitesInv
<1>6. \A m, n \in made : n[1] = m[1] => n = m
  BY <1>1 DEF InvitesInv
<1> QED BY <1>2, <1>3, <1>4, <1>5, <1>6 DEF InvitesInv

LEMMA ManageInviteStep ==
  ASSUME AccountInv, NEW v \in Invite, NEW a \in Addr,
         A!CreateInvite(v, a) \/ A!RevokeInvite(v) \/ A!Lapse(v)
  PROVE  AccountInv'
<1>1. AccountTypes /\ InvitesInv
  BY DEF AccountInv
<1>2. PICK y : /\ \/ /\ invite[v] = None
                     /\ y = [addr |-> a, due |-> FALSE, status |-> "pending"]
                  \/ /\ A!Pending(v) /\ A!Accepting(v) = {}
                     /\ y = [invite[v] EXCEPT !.status = "revoked"]
                  \/ invite[v] # None /\ y = [invite[v] EXCEPT !.due = TRUE]
               /\ invite' = [invite EXCEPT ![v] = y]
               /\ UNCHANGED <<auser, founded, alink, split, areq, made>>
  BY DEF A!CreateInvite, A!RevokeInvite, A!Lapse
<1>3. invite[v] # None => invite[v] \in A!InviteRow
  BY <1>1 DEF AccountTypes
<1>4. y \in A!InviteRow
  <2>1. CASE invite[v] = None
    <3>1. y = [addr |-> a, due |-> FALSE, status |-> "pending"]
      BY <1>2, <2>1 DEF A!Pending
    <3> QED BY <3>1 DEF A!InviteRow
  <2>2. CASE invite[v] # None
    <3>1. PICK d \in BOOLEAN, st \in {"pending", "accepted", "revoked", "expired"} :
            y = [addr |-> invite[v].addr, due |-> d, status |-> st]
      BY <1>2, <1>3, <2>2 DEF A!InviteRow
    <3>2. invite[v].addr \in Addr
      BY <1>3, <2>2 DEF A!InviteRow
    <3> QED BY <3>1, <3>2 DEF A!InviteRow
  <2> QED BY <2>1, <2>2
<1>5. /\ invite[v] = None => y.status = "pending"
      /\ invite[v] # None => \/ y.status = invite[v].status
                             \/ /\ invite[v].status = "pending" /\ A!Accepting(v) = {}
                                /\ y.status = "revoked"
  BY <1>2, <1>3 DEF A!InviteRow, A!Pending
<1>6. \A m \in made : m[1] = v => y.status = "accepted"
  BY <1>1, <1>5 DEF InvitesInv
<1>7. ASSUME NEW r \in Request, areq'[r].at = "accept" /\ areq'[r].invite = v
      PROVE  y.status = "pending"
  <2>1. r \in A!Accepting(v)
    BY <1>2, <1>7 DEF A!Accepting
  <2>2. invite[v] # None /\ invite[v].status = "pending"
    BY <1>1, <1>2, <1>7 DEF InvitesInv
  <2> QED BY <1>5, <2>1, <2>2
<1>8. \A r \in Request : areq'[r] = areq[r] \/ areq'[r].at = "idle"
  BY <1>2
<1>9. invite' \in [Invite -> A!InviteRow \cup {None}] /\ InvitesInv'
  <2>1. invite' = [invite EXCEPT ![v] = y] /\ made' = made
    BY <1>2
  <2> QED BY <1>4, <1>6, <1>7, <1>8, <2>1, InviteMoves
<1>10. made' \subseteq Invite \X Account /\ areq' \in [Request -> AccountReq]
  BY <1>1, <1>2 DEF AccountTypes
<1> QED BY <1>2, <1>8, <1>9, <1>10, RowsSame, InviteStep

LEMMA AcceptLockStep ==
  ASSUME AccountInv, NEW r \in Request, NEW v \in Invite, A!AcceptLock(r, v)
  PROVE  AccountInv'
<1>1. AccountTypes /\ InvitesInv
  BY DEF AccountInv
<1>2. PICK q : q = [at |-> "accept", invite |-> v]
  OBVIOUS
<1>3. /\ A!Pending(v) /\ A!Accepting(v) = {}
      /\ areq' = [areq EXCEPT ![r] = q]
      /\ UNCHANGED <<auser, founded, alink, split, invite, made>>
  BY <1>2 DEF A!AcceptLock, A!LockedByOther, A!Becomes
<1>4. q \in AccountReq /\ q.at = "accept" /\ q.invite = v
  BY <1>2 DEF AccountReq, AcceptReq
<1>5. /\ areq' \in [Request -> AccountReq] /\ areq'[r] = q
      /\ \A t \in Request : t # r => areq'[t] = areq[t]
  BY <1>1, <1>3, <1>4 DEF AccountTypes
<1>6. \A t \in Request : ~(areq[t].at = "accept" /\ areq[t].invite = v)
  BY <1>3 DEF A!Accepting
<1>7. invite[v] # None /\ invite[v].status = "pending"
  BY <1>3 DEF A!Pending
<1>8. ASSUME NEW t \in Request, areq'[t].at = "accept"
      PROVE  /\ invite[areq'[t].invite] # None /\ invite[areq'[t].invite].status = "pending"
             /\ t # r => areq'[t].invite # v
  BY <1>1, <1>4, <1>5, <1>6, <1>7, <1>8 DEF InvitesInv
<1>9. ASSUME NEW s \in Request, NEW t \in Request, areq'[s].at = "accept",
             areq'[t].at = "accept", areq'[s].invite = areq'[t].invite
      PROVE  s = t
  BY <1>1, <1>4, <1>5, <1>8, <1>9 DEF InvitesInv
<1>10. InvitesInv'
  BY <1>1, <1>3, <1>8, <1>9 DEF InvitesInv
<1>11. /\ made' \subseteq Invite \X Account
       /\ invite' \in [Invite -> A!InviteRow \cup {None}]
       /\ \A t \in Request : areq'[t] = areq[t] \/ areq'[t].at \in {"idle", "accept"}
  BY <1>1, <1>3, <1>4, <1>5 DEF AccountTypes
<1> QED BY <1>3, <1>5, <1>10, <1>11, RowsSame, InviteStep

LEMMA AcceptExpiredStep ==
  ASSUME AccountInv, NEW r \in Request, A!AcceptExpired(r)
  PROVE  AccountInv'
<1>1. AccountTypes /\ InvitesInv
  BY DEF AccountInv
<1>2. PICK v, y : v = areq[r].invite /\ y = [invite[v] EXCEPT !.status = "expired"]
  OBVIOUS
<1>3. /\ areq[r].at = "accept"
      /\ invite' = [invite EXCEPT ![v] = y] /\ areq' = [areq EXCEPT ![r] = A!Idle]
      /\ UNCHANGED <<auser, founded, alink, split, made>>
  BY <1>2 DEF A!AcceptExpired, A!Becomes
<1>4. areq[r] \in AcceptReq
  BY <1>1, <1>3, AccountReqAt DEF AccountTypes
<1>5. v \in Invite /\ invite[v] # None /\ invite[v].status = "pending"
  BY <1>1, <1>2, <1>3, <1>4 DEF AcceptReq, InvitesInv
<1>6. invite[v] \in A!InviteRow
  BY <1>1, <1>5 DEF AccountTypes
<1>7. y = [addr |-> invite[v].addr, due |-> invite[v].due, status |-> "expired"]
  BY <1>2, <1>6 DEF A!InviteRow
<1>8. y \in A!InviteRow
  BY <1>6, <1>7 DEF A!InviteRow
<1>9. /\ areq' \in [Request -> AccountReq] /\ areq'[r].at = "idle"
      /\ \A t \in Request : t # r => areq'[t] = areq[t]
  BY <1>1, <1>3, AccountIdle DEF AccountTypes
<1>10. \A m \in made : m[1] = v => y.status = "accepted"
  BY <1>1, <1>5 DEF InvitesInv
<1>11. \A t \in Request : areq'[t].at = "accept" /\ areq'[t].invite = v => y.status = "pending"
  BY <1>1, <1>2, <1>3, <1>9 DEF InvitesInv
<1>12. \A t \in Request : areq'[t] = areq[t] \/ areq'[t].at = "idle"
  BY <1>9
<1>13. invite' \in [Invite -> A!InviteRow \cup {None}] /\ InvitesInv'
  <2>1. invite' = [invite EXCEPT ![v] = y] /\ made' = made
    BY <1>3
  <2> QED BY <1>5, <1>8, <1>10, <1>11, <1>12, <2>1, InviteMoves
<1>14. made' \subseteq Invite \X Account
  BY <1>1, <1>3 DEF AccountTypes
<1> QED BY <1>3, <1>9, <1>12, <1>13, <1>14, RowsSame, InviteStep

LEMMA AcceptStep ==
  ASSUME AccountInv, NEW r \in Request, NEW u \in Account, NEW t \in founded, A!Accept(r, u, t)
  PROVE  AccountInv'
<1>1. AccountTypes /\ InvitesInv /\ t \in Home
  BY DEF AccountInv, AccountTypes
<1>2. PICK v, y : v = areq[r].invite /\ y = [invite[v] EXCEPT !.status = "accepted"]
  OBVIOUS
<1>3. /\ areq[r].at = "accept" /\ A!Insert(u, invite[v].addr, t)
      /\ invite' = [invite EXCEPT ![v] = y] /\ areq' = [areq EXCEPT ![r] = A!Idle]
      /\ made' = made \cup {<<v, u>>}
      /\ UNCHANGED <<founded, alink, split>>
  BY <1>2 DEF A!Accept, A!Becomes
<1>4. areq[r] \in AcceptReq
  BY <1>1, <1>3, AccountReqAt DEF AccountTypes
<1>5. v \in Invite /\ invite[v] # None /\ invite[v].status = "pending"
  BY <1>1, <1>2, <1>3, <1>4 DEF AcceptReq, InvitesInv
<1>6. invite[v] \in A!InviteRow
  BY <1>1, <1>5 DEF AccountTypes
<1>7. y = [addr |-> invite[v].addr, due |-> invite[v].due, status |-> "accepted"]
  BY <1>2, <1>6 DEF A!InviteRow
<1>8. y \in A!InviteRow /\ y # None /\ y.status = "accepted" /\ invite[v].addr \in Addr
  BY <1>6, <1>7, IdentityAssumption DEF A!InviteRow
<1>9. /\ areq' \in [Request -> AccountReq] /\ areq'[r].at = "idle"
      /\ \A s \in Request : s # r => areq'[s] = areq[s]
  BY <1>1, <1>3, AccountIdle DEF AccountTypes
<1>10. \A m \in made : m[1] # v
  BY <1>1, <1>5 DEF InvitesInv
<1>11. /\ invite' \in [Invite -> A!InviteRow \cup {None}] /\ invite'[v] = y
       /\ \A w \in Invite : w # v => invite'[w] = invite[w]
  BY <1>1, <1>3, <1>5, <1>8 DEF AccountTypes
<1>12. PICK n : n = <<v, u>>
  OBVIOUS
<1>13. /\ n[1] = v /\ n \in Invite \X Account
       /\ made' = made \cup {n} /\ made' \subseteq Invite \X Account
  BY <1>1, <1>3, <1>5, <1>12 DEF AccountTypes
<1>14. ASSUME NEW m \in made' PROVE invite'[m[1]] # None /\ invite'[m[1]].status = "accepted"
  <2>1. CASE m = n
    BY <1>8, <1>11, <1>13, <2>1
  <2>2. CASE m \in made
    <3>1. m[1] \in Invite
      BY <1>1, <2>2 DEF AccountTypes
    <3> QED BY <1>1, <1>10, <1>11, <2>2, <3>1 DEF InvitesInv
  <2> QED BY <1>13, <2>1, <2>2
<1>15. \A m, o \in made' : o[1] = m[1] => o = m
  BY <1>1, <1>10, <1>13 DEF InvitesInv
<1>16. ASSUME NEW s \in Request, areq'[s].at = "accept"
       PROVE  /\ areq'[s] = areq[s]
              /\ invite'[areq'[s].invite] # None /\ invite'[areq'[s].invite].status = "pending"
  <2>1. s # r /\ areq'[s] = areq[s] /\ areq[s] \in AcceptReq
    BY <1>1, <1>9, <1>16, AccountReqAt DEF AccountTypes
  <2>2. areq[s].invite \in Invite /\ areq[s].invite # v
    BY <1>1, <1>2, <1>3, <1>16, <2>1 DEF InvitesInv, AcceptReq
  <2> QED BY <1>1, <1>11, <1>16, <2>1, <2>2 DEF InvitesInv
<1>17. \A s, w \in Request : areq'[s].at = "accept" /\ areq'[w].at = "accept"
                               /\ areq'[s].invite = areq'[w].invite => s = w
  BY <1>1, <1>16 DEF InvitesInv
<1>18. InvitesInv'
  BY <1>14, <1>15, <1>16, <1>17 DEF InvitesInv
<1>19. auser' \in [Account -> A!UserRow \cup {None}] /\ RowsHold /\ LiveOnce'
  BY <1>1, <1>3, <1>8, Inserted
<1>20. \A s \in Request : areq'[s] = areq[s] \/ areq'[s].at \in {"idle", "accept"}
  BY <1>9
<1> QED BY <1>3, <1>9, <1>11, <1>13, <1>18, <1>19, <1>20, InviteStep


LEMMA AccountInitInv == A!AccountsInit => AccountInv
<1> SUFFICES ASSUME A!AccountsInit PROVE AccountInv
  OBVIOUS
<1>1. /\ auser = [u \in Account |-> None] /\ founded \subseteq Home
      /\ alink = [s \in Subject |-> None] /\ split = {}
      /\ invite = [v \in Invite |-> None] /\ areq = [r \in Request |-> A!Idle] /\ made = {}
  BY DEF A!AccountsInit
<1>2. AccountTypes
  BY <1>1, AccountIdle DEF AccountTypes
<1>3. \A r \in Request : areq[r].at = "idle"
  BY <1>1, AccountIdle
<1>4. \A s \in Subject, u \in Account : ~Member(u, s)
  BY <1>1, <1>3 DEF Member
<1>5. LinksInv
  BY <1>1, <1>3, <1>4 DEF LinksInv, OneAddress, Agree, Unlinked, Waits, LiveOnce, A!Is
<1>6. InvitesInv
  BY <1>1, <1>3 DEF InvitesInv
<1> QED BY <1>2, <1>5, <1>6 DEF AccountInv

LEMMA AccountSignInStep ==
  ASSUME AccountInv, A!SignInNext PROVE AccountInv'
BY LookIdentityStep, LinkFoundStep, LinkNewStep, AccountLeaveStep, UnlinkStep
   DEF A!SignInNext

LEMMA AccountCreateStep ==
  ASSUME AccountInv, A!CreateNext PROVE AccountInv'
<1>1. founded \subseteq Home
  BY DEF AccountInv, AccountTypes
<1>2. ASSUME NEW u \in Account, NEW a \in Addr,
             A!Signup(u, a) \/ \E t \in founded : A!RegisterInTenant(u, a, t) \/ A!CreateUser(u, a, t)
      PROVE  AccountInv'
  <2>1. PICK t \in Home \cup {None} :
          A!Insert(u, a, t) /\ UNCHANGED <<founded, alink, split, invite, areq, made>>
    BY <1>1, <1>2 DEF A!Signup, A!RegisterInTenant, A!CreateUser
  <2> QED BY <2>1, CreateStep
<1> QED BY <1>2, BulkCreateStep, ImportRowStep DEF A!CreateNext

LEMMA AccountInviteStep ==
  ASSUME AccountInv, A!InviteNext PROVE AccountInv'
<1>1. ASSUME NEW v \in Invite, A!RevokeInvite(v) \/ A!Lapse(v)
      PROVE  AccountInv'
  <2>1. CASE \E a \in Addr : TRUE
    BY <1>1, <2>1, ManageInviteStep
  <2>2. CASE Addr = {}
    <3>1. invite[v] \in A!InviteRow
      BY <1>1 DEF AccountInv, AccountTypes, A!RevokeInvite, A!Lapse, A!Pending
    <3> QED BY <2>2, <3>1 DEF A!InviteRow
  <2> QED BY <2>1, <2>2
<1> QED BY <1>1, ManageInviteStep, AcceptLockStep, AcceptExpiredStep, AcceptStep
   DEF A!InviteNext

LEMMA AccountStep == AccountInv /\ (A!AccountsNext \/ UNCHANGED accountVars) => AccountInv'
<1> SUFFICES ASSUME AccountInv, A!AccountsNext \/ UNCHANGED accountVars PROVE AccountInv'
  OBVIOUS
<1>1. CASE UNCHANGED accountVars
  <2>1. UNCHANGED <<auser, founded, alink, split, invite, areq, made>>
    BY <1>1 DEF accountVars
  <2>2. founded' \subseteq Home /\ areq' \in [Request -> AccountReq]
    BY <2>1 DEF AccountInv, AccountTypes
  <2> QED BY <2>1, <2>2, RowsSame, ElsewhereStep
<1>2. CASE A!AdminNext
  BY <1>2, RowStep, PurgeStep DEF A!AdminNext
<1>3. CASE A!AccountsNext
  BY <1>2, <1>3, AccountSignInStep, AccountCreateStep, AccountInviteStep DEF A!AccountsNext
<1> QED BY <1>1, <1>3

LEMMA AccountSafe == AccountInv => A!OneLiveAccountPerIdentity /\ A!InvitesHonouredOnce
<1> SUFFICES ASSUME AccountInv
             PROVE  A!OneLiveAccountPerIdentity /\ A!InvitesHonouredOnce
  OBVIOUS
<1>1. ASSUME NEW s \in Subject,
             NEW u \in A!IntoAccounts(s)
      PROVE  Member(u, s) /\ u \in Account
  <2>1. CASE u \in {alink[s]} \ {None}
    BY <2>1 DEF Member, AccountInv, AccountTypes
  <2>2. CASE u \in {areq[r].user : r \in A!SignedInBy(s)}
    <3>1. PICK r \in Request : areq[r].at = "signedin" /\ areq[r].id = s /\ u = areq[r].user
      BY <2>2 DEF A!SignedInBy
    <3>2. areq[r] \in SignedInReq
      BY <3>1, AccountReqAt DEF AccountInv, AccountTypes
    <3> QED BY <3>1, <3>2 DEF Member, SignedInReq
  <2> QED BY <1>1, <2>1, <2>2 DEF A!IntoAccounts
<1>2. ASSUME NEW s \in Subject \ split, NEW u \in A!IntoAccounts(s), NEW w \in A!IntoAccounts(s),
             A!Is(u, "live"), A!Is(w, "live")
      PROVE  u = w
  <2>1. Member(u, s) /\ Member(w, s) /\ u \in Account /\ w \in Account
    BY <1>1
  <2>2. auser[w].addr = auser[u].addr
    BY <2>1 DEF AccountInv, LinksInv, OneAddress, Wears
  <2> QED BY <1>2, <2>1, <2>2 DEF AccountInv, LinksInv, LiveOnce
<1>3. A!OneLiveAccountPerIdentity
  BY <1>2 DEF A!OneLiveAccountPerIdentity
<1>4. A!InvitesHonouredOnce
  BY DEF A!InvitesHonouredOnce, AccountInv, InvitesInv
<1> QED BY <1>3, <1>4

-----------------------------------------------------------------------------
(* ScimUsers: a row stays marked once a call has marked it, and lives once *)
(* more for each DELETE that is answered.                                  *)
ScimReq ==
  {[at |-> "idle"]}
    \cup [at : {"tag"}, user : User, tenant : Thing, active : BOOLEAN]
    \cup [at : {"suspend", "reload"}, user : User, tenant : Thing, post : BOOLEAN]
    \cup [at : {"delete"}, user : User]

LEMMA NoneIsNoUser == None \notin U!Row
BY IdentityAssumption

ScimTypes ==
  /\ urow \in [User -> U!Row \cup {None}]
  /\ lives \in [User -> Nat] /\ ended \in [User -> Nat]
  /\ ureq \in [Request -> ScimReq]
  /\ utold \subseteq User

Tagged(u) == urow[u] # None /\ urow[u].scim

Backed(r) ==
  /\ ureq[r].at \in {"tag", "suspend", "reload"} => urow[ureq[r].user] # None
  /\ ureq[r].at \in {"suspend", "reload"} /\ ureq[r].post => Tagged(ureq[r].user)

OneRowPerAddress ==
  \A u, w \in User : U!Live(u) /\ U!Live(w) /\ urow[u].addr = urow[w].addr => u = w

MarksStay ==
  /\ \A u \in utold : Tagged(u)
  /\ \A r \in Request : Backed(r)

Counted(u) ==
  /\ ended[u] <= lives[u]
  /\ U!Live(u) => ended[u] + 1 <= lives[u]
  /\ urow[u] = None => ended[u] = 0
EndsCounted == \A u \in User : Counted(u)

ScimInv == ScimTypes /\ OneRowPerAddress /\ MarksStay /\ EndsCounted

LEMMA ScimReqIs ==
  ASSUME NEW q \in ScimReq
  PROVE  /\ q.at \in {"idle", "tag", "suspend", "reload", "delete"}
         /\ q.at # "idle" => q.user \in User
         /\ q.at \in {"tag", "suspend", "reload"} => q.tenant \in Thing
         /\ q.at \in {"suspend", "reload"} =>
              /\ q.post \in BOOLEAN
              /\ q = [at |-> q.at, user |-> q.user, tenant |-> q.tenant, post |-> q.post]
BY DEF ScimReq

(* What a step does to one row: nothing, or a change that keeps address    *)
(* and mark; a row comes to life only where its address is free.           *)
Changed(u) ==
  /\ urow'[u] \in U!Row
  /\ urow[u] # None =>
       urow'[u].addr = urow[u].addr /\ (urow[u].scim => urow'[u].scim)
  /\ U!Live(u)' /\ ~U!Live(u) => \A w \in User : ~(U!Live(w) /\ urow[w].addr = urow'[u].addr)

LEMMA ScimMoves ==
  ASSUME ScimInv, ScimTypes',
         NEW u, \A w \in User : w # u => urow'[w] = urow[w],
         u \in User => Changed(u) \/ urow'[u] = urow[u],
         \A w \in User :
           (urow'[w] = urow[w] /\ lives'[w] = lives[w] /\ ended'[w] = ended[w]) \/ Counted(w)',
         \A r \in Request : ureq'[r] = ureq[r] \/ Backed(r)',
         \A x \in utold' : x \in utold \/ Tagged(x)'
  PROVE  ScimInv'
<1>1. OneRowPerAddress'
  <2>1. ASSUME u \in User, Changed(u), NEW w \in User, w # u, U!Live(w)', U!Live(u)'
        PROVE  urow'[w].addr # urow'[u].addr
    <3>1. U!Live(w) /\ urow'[w] = urow[w]
      BY <2>1 DEF U!Live
    <3>2. CASE U!Live(u)
      <4>1. urow[u].addr = urow'[u].addr
        BY <2>1, <3>2 DEF Changed, U!Live
      <4> QED BY <2>1, <3>1, <3>2, <4>1 DEF ScimInv, OneRowPerAddress
    <3>3. CASE ~U!Live(u)
      BY <2>1, <3>1, <3>3 DEF Changed
    <3> QED BY <3>2, <3>3
  <2>2. ASSUME NEW v \in User, NEW w \in User, urow'[v] = urow[v], urow'[w] = urow[w],
               U!Live(v)', U!Live(w)', urow'[v].addr = urow'[w].addr
        PROVE  v = w
    BY <2>2 DEF ScimInv, OneRowPerAddress, U!Live
  <2> QED BY <2>1, <2>2 DEF OneRowPerAddress
<1>2. \A w \in User : /\ urow[w] # None => urow'[w] # None
                      /\ Tagged(w) => Tagged(w)'
  BY NoneIsNoUser DEF Changed, Tagged
<1>3. \A x \in utold' : Tagged(x)'
  BY <1>2 DEF ScimInv, ScimTypes, MarksStay
<1>4. ASSUME NEW r \in Request, ureq'[r] = ureq[r] PROVE Backed(r)'
  <2>1. Backed(r) /\ ureq[r] \in ScimReq
    BY DEF ScimInv, MarksStay, ScimTypes
  <2>2. ureq[r].at # "idle" => ureq[r].user \in User
    BY <2>1, ScimReqIs
  <2>3. PICK q : q = ureq[r]
    OBVIOUS
  <2>4. ureq'[r] = q
    BY <1>4, <2>3
  <2>5. q.at \in {"tag", "suspend", "reload"} =>
          /\ q.user \in User /\ urow'[q.user] # None
          /\ q.at \in {"suspend", "reload"} /\ q.post => Tagged(q.user)'
    BY <1>2, <2>1, <2>2, <2>3 DEF Backed
  <2> QED BY <2>4, <2>5 DEF Backed, Tagged
<1>5. MarksStay'
  BY <1>3, <1>4 DEF MarksStay
<1>6. ASSUME NEW w \in User, urow'[w] = urow[w], lives'[w] = lives[w], ended'[w] = ended[w]
      PROVE  Counted(w)'
  BY <1>6 DEF ScimInv, EndsCounted, Counted, U!Live
<1>7. EndsCounted'
  BY <1>6 DEF EndsCounted
<1> QED BY <1>1, <1>5, <1>7 DEF ScimInv

LEMMA CreateWithCredentialStep ==
  ASSUME ScimInv, NEW r \in Request, NEW t \in Thing, NEW u \in User, NEW a \in Home,
         NEW active \in BOOLEAN, U!CreateWithCredential(r, t, u, a, active)
  PROVE  ScimInv'
<1>0. PICK new : new = [addr |-> a, home |-> t, status |-> "active", live |-> TRUE, scim |-> FALSE]
  OBVIOUS
<1>q. PICK q : q = [at |-> "tag", user |-> u, tenant |-> t, active |-> active]
  OBVIOUS
<1>1. /\ ureq[r] = [at |-> "idle"] /\ urow[u] = None
      /\ \A w \in User : ~(U!Live(w) /\ urow[w].addr = a)
      /\ urow' = [urow EXCEPT ![u] = new]
      /\ lives' = [lives EXCEPT ![u] = 1]
      /\ ureq' = [ureq EXCEPT ![r] = q]
      /\ ended' = ended /\ utold' = utold
  BY <1>0, <1>q DEF U!CreateWithCredential, U!Idle, U!Taken, U!Becomes
<1>2. ScimTypes /\ new.addr = a
  BY <1>0 DEF ScimInv
<1>n. new \in U!Row
  BY <1>0 DEF U!Row
<1>m. new # None
  BY <1>n, NoneIsNoUser
<1>r. q \in ScimReq /\ q.user = u /\ q.at = "tag"
  BY <1>q DEF ScimReq
<1>3. ScimTypes'
  BY <1>1, <1>2, <1>n, <1>r DEF ScimTypes
<1>4. /\ urow'[u] = new /\ \A w \in User : w # u => urow'[w] = urow[w]
      /\ lives'[u] = 1 /\ \A w \in User : w # u => lives'[w] = lives[w]
      /\ ureq'[r] = q /\ \A s \in Request : s # r => ureq'[s] = ureq[s]
  BY <1>1, <1>2 DEF ScimTypes
<1>5. Changed(u)
  BY <1>1, <1>2, <1>n, <1>4 DEF Changed
<1>6. Backed(r)'
  BY <1>r, <1>m, <1>4 DEF Backed
<1>7. Counted(u)'
  <2>1. ended[u] = 0
    BY <1>1 DEF ScimInv, EndsCounted, Counted
  <2> QED BY <1>1, <1>m, <1>4, <2>1 DEF Counted
<1> QED BY <1>1, <1>3, <1>4, <1>5, <1>6, <1>7, ScimMoves

(* A row that is there changes in its status, its mark or its life.        *)
LEMMA RowChanges ==
  ASSUME NEW x \in U!Row, NEW y,
         \/ \E st \in {"active", "suspended"} : y = [x EXCEPT !.status = st]
         \/ y = [x EXCEPT !.scim = TRUE]
         \/ y = [x EXCEPT !.live = TRUE]
         \/ y = [x EXCEPT !.live = FALSE]
  PROVE  /\ y \in U!Row /\ y # None /\ y.addr = x.addr /\ (x.scim => y.scim)
         /\ y = [x EXCEPT !.scim = TRUE] => y.scim
         /\ y = [x EXCEPT !.live = FALSE] => ~y.live
         /\ ~(y = [x EXCEPT !.live = TRUE] \/ y = [x EXCEPT !.live = FALSE]) => (y.live <=> x.live)
<1>1. CASE \E st \in {"active", "suspended"} : y = [x EXCEPT !.status = st]
  <2>1. PICK st \in {"active", "suspended"} : y = [x EXCEPT !.status = st]
    BY <1>1
  <2>2. y = [addr |-> x.addr, home |-> x.home, status |-> st, live |-> x.live, scim |-> x.scim]
    BY <2>1 DEF U!Row
  <2> QED BY <2>2, NoneIsNoUser DEF U!Row
<1>2. CASE y = [x EXCEPT !.scim = TRUE]
  <2>2. y = [addr |-> x.addr, home |-> x.home, status |-> x.status, live |-> x.live, scim |-> TRUE]
    BY <1>2 DEF U!Row
  <2> QED BY <2>2, NoneIsNoUser DEF U!Row
<1>3. CASE y = [x EXCEPT !.live = TRUE]
  <2>2. y = [addr |-> x.addr, home |-> x.home, status |-> x.status, live |-> TRUE, scim |-> x.scim]
    BY <1>3 DEF U!Row
  <2> QED BY <2>2, NoneIsNoUser DEF U!Row
<1>4. CASE y = [x EXCEPT !.live = FALSE]
  <2>2. y = [addr |-> x.addr, home |-> x.home, status |-> x.status, live |-> FALSE, scim |-> x.scim]
    BY <1>4 DEF U!Row
  <2> QED BY <2>2, NoneIsNoUser DEF U!Row
<1> QED BY <1>1, <1>2, <1>3, <1>4


(* A step of a request that leaves the rows alone.                         *)
LEMMA ScimRequest ==
  ASSUME ScimInv, NEW r \in Request, NEW q \in ScimReq, ureq' = [ureq EXCEPT ![r] = q],
         UNCHANGED <<urow, lives, ended>>, utold' \subseteq User,
         Backed(r)', \A x \in utold' : x \in utold \/ Tagged(x)'
  PROVE  ScimInv'
<1>1. ScimTypes
  BY DEF ScimInv
<1>2. ScimTypes'
  BY <1>1 DEF ScimTypes
<1>3. \A s \in Request : s # r => ureq'[s] = ureq[s]
  BY <1>1 DEF ScimTypes
<1> QED BY <1>2, <1>3, ScimMoves

LEMMA TagProvisionedStep ==
  ASSUME ScimInv, NEW r \in Request, U!TagProvisioned(r)
  PROVE  ScimInv'
<1>1. PICK u : u = ureq[r].user
  OBVIOUS
<1>2. PICK y : y = [urow[u] EXCEPT !.scim = TRUE]
  OBVIOUS
<1>3. PICK q : q = [at |-> IF ureq[r].active THEN "reload" ELSE "suspend",
                    user |-> u, tenant |-> ureq[r].tenant, post |-> TRUE]
  OBVIOUS
<1>4. /\ ureq[r].at = "tag"
      /\ urow' = [urow EXCEPT ![u] = y]
      /\ ureq' = [ureq EXCEPT ![r] = q]
      /\ UNCHANGED <<lives, ended, utold>>
  BY <1>1, <1>2, <1>3 DEF U!TagProvisioned, U!Becomes
<1>5. /\ ScimTypes /\ ureq[r] \in ScimReq /\ u \in User /\ ureq[r].tenant \in Thing
      /\ urow[u] # None /\ Counted(u)
  <2>1. ScimTypes /\ ureq[r] \in ScimReq /\ Backed(r)
    BY DEF ScimInv, ScimTypes, MarksStay
  <2>2. u \in User /\ ureq[r].tenant \in Thing
    BY <1>1, <1>4, <2>1, ScimReqIs
  <2> QED BY <1>1, <1>4, <2>1, <2>2 DEF Backed, ScimInv, EndsCounted
<1>6. urow[u] \in U!Row
  BY <1>5 DEF ScimTypes
<1>7. y \in U!Row /\ y # None /\ y.addr = urow[u].addr /\ y.scim /\ (y.live <=> urow[u].live)
  <2>1. /\ y \in U!Row /\ y # None /\ y.addr = urow[u].addr /\ y.scim
    BY <1>2, <1>6, RowChanges
  <2>2. y.live <=> urow[u].live
    BY <1>2, <1>6 DEF U!Row
  <2> QED BY <2>1, <2>2
<1>8. q \in ScimReq /\ q.user = u /\ q.at \in {"reload", "suspend"}
  BY <1>3, <1>5 DEF ScimReq
<1>9. ScimTypes'
  BY <1>4, <1>5, <1>7, <1>8 DEF ScimTypes
<1>10. /\ urow'[u] = y /\ \A w \in User : w # u => urow'[w] = urow[w]
       /\ ureq'[r] = q /\ \A s \in Request : s # r => ureq'[s] = ureq[s]
  BY <1>4, <1>5 DEF ScimTypes
<1>11. Changed(u)
  BY <1>5, <1>7, <1>10 DEF Changed, U!Live
<1>12. Backed(r)'
  BY <1>7, <1>8, <1>10 DEF Backed, Tagged
<1>13. Counted(u)'
  BY <1>4, <1>5, <1>7, <1>10 DEF Counted, U!Live
<1> QED BY <1>4, <1>9, <1>10, <1>11, <1>12, <1>13, ScimMoves

(* A step of a request, if it is one, that sets the status of a live row.  *)
LEMMA StatusStep ==
  ASSUME ScimInv, NEW u \in User, U!Live(u), NEW st \in {"active", "suspended"},
         urow' = [urow EXCEPT ![u].status = st],
         ureq' \in [Request -> ScimReq], \A r \in Request : ureq'[r] = ureq[r] \/ Backed(r)',
         UNCHANGED <<lives, ended, utold>>
  PROVE  ScimInv'
<1>1. PICK y : y = [urow[u] EXCEPT !.status = st]
  OBVIOUS
<1>2. urow' = [urow EXCEPT ![u] = y]
  BY <1>1
<1>3. ScimTypes /\ urow[u] # None /\ Counted(u)
  BY DEF U!Live, ScimInv, EndsCounted
<1>4. urow[u] \in U!Row
  BY <1>3 DEF ScimTypes
<1>5. /\ y \in U!Row /\ y # None /\ y.addr = urow[u].addr /\ (urow[u].scim => y.scim)
  BY <1>1, <1>4, RowChanges
<1>6. y.live <=> urow[u].live
  BY <1>1, <1>4 DEF U!Row
<1>7. ScimTypes'
  BY <1>2, <1>3, <1>5 DEF ScimTypes
<1>8. urow'[u] = y /\ \A w \in User : w # u => urow'[w] = urow[w]
  BY <1>2, <1>3 DEF ScimTypes
<1>9. Changed(u) /\ Counted(u)'
  BY <1>3, <1>5, <1>6, <1>8 DEF Changed, Counted, U!Live
<1> QED BY <1>7, <1>8, <1>9, ScimMoves

LEMMA CreateSuspendedStep ==
  ASSUME ScimInv, NEW r \in Request, NEW works, U!CreateSuspended(r, works)
  PROVE  ScimInv'
<1>1. PICK u : u = ureq[r].user
  OBVIOUS
<1>2. PICK q : q = [ureq[r] EXCEPT !.at = "reload"]
  OBVIOUS
<1>3. /\ ureq[r].at = "suspend"
      /\ urow' = IF works /\ U!Live(u) THEN [urow EXCEPT ![u].status = "suspended"] ELSE urow
      /\ ureq' = [ureq EXCEPT ![r] = q]
      /\ UNCHANGED <<lives, ended, utold>>
  BY <1>1, <1>2 DEF U!CreateSuspended, U!Becomes
<1>4. ScimTypes /\ Backed(r) /\ ureq[r] \in ScimReq
  BY DEF ScimInv, ScimTypes, MarksStay
<1>5. /\ u \in User /\ ureq[r].tenant \in Thing /\ ureq[r].post \in BOOLEAN
      /\ ureq[r] = [at |-> "suspend", user |-> u, tenant |-> ureq[r].tenant, post |-> ureq[r].post]
  BY <1>1, <1>3, <1>4, ScimReqIs
<1>6. q = [at |-> "reload", user |-> u, tenant |-> ureq[r].tenant, post |-> ureq[r].post]
  BY <1>2, <1>5
<1>7. q \in ScimReq /\ q.user = u /\ q.at = "reload" /\ (q.post <=> ureq[r].post)
  BY <1>5, <1>6 DEF ScimReq
<1>8. ureq' \in [Request -> ScimReq] /\ ureq'[r] = q /\ \A s \in Request : s # r => ureq'[s] = ureq[s]
  BY <1>3, <1>4, <1>7 DEF ScimTypes
<1>9. urow[u] # None /\ (q.post => Tagged(u))
  BY <1>1, <1>3, <1>4, <1>7 DEF Backed
<1>10. CASE works /\ U!Live(u)
  <2>1. urow' = [urow EXCEPT ![u].status = "suspended"]
    BY <1>3, <1>10
  <2>2. urow[u] \in U!Row
    BY <1>4, <1>5, <1>9 DEF ScimTypes
  <2>3. PICK y : y = [urow[u] EXCEPT !.status = "suspended"]
    OBVIOUS
  <2>4. y # None /\ (urow[u].scim => y.scim)
    BY <2>2, <2>3, RowChanges
  <2>5. urow'[u] = y
    BY <1>4, <1>5, <2>1, <2>3 DEF ScimTypes
  <2>6. Backed(r)'
    BY <1>7, <1>8, <1>9, <2>4, <2>5 DEF Backed, Tagged
  <2> QED BY <1>3, <1>5, <1>8, <1>10, <2>1, <2>6, StatusStep
<1>11. CASE ~(works /\ U!Live(u))
  <2>1. urow' = urow
    BY <1>3, <1>11
  <2>2. Backed(r)'
    BY <1>7, <1>8, <1>9, <2>1 DEF Backed, Tagged
  <2> QED BY <1>3, <1>4, <1>7, <2>1, <2>2, ScimRequest DEF ScimTypes
<1> QED BY <1>10, <1>11

LEMMA UpdateUserStep ==
  ASSUME ScimInv, NEW r \in Request, NEW t \in Thing, NEW u \in User,
         NEW st \in {"active", "suspended", None}, U!UpdateUser(r, t, u, st)
  PROVE  ScimInv'
<1>1. PICK q : q = [at |-> "reload", user |-> u, tenant |-> t, post |-> FALSE]
  OBVIOUS
<1>2. /\ U!Live(u)
      /\ urow' = IF st = None THEN urow ELSE [urow EXCEPT ![u].status = st]
      /\ ureq' = [ureq EXCEPT ![r] = q]
      /\ UNCHANGED <<lives, ended, utold>>
  BY <1>1 DEF U!UpdateUser, U!Becomes
<1>3. ScimTypes /\ urow[u] # None
  BY <1>2 DEF ScimInv, U!Live
<1>4. q \in ScimReq /\ q.user = u /\ q.at = "reload" /\ ~q.post
  BY <1>1 DEF ScimReq
<1>5. ureq' \in [Request -> ScimReq] /\ ureq'[r] = q /\ \A s \in Request : s # r => ureq'[s] = ureq[s]
  BY <1>2, <1>3, <1>4 DEF ScimTypes
<1>6. CASE st = None
  <2>1. urow' = urow
    BY <1>2, <1>6
  <2>2. Backed(r)'
    BY <1>3, <1>4, <1>5, <2>1 DEF Backed
  <2> QED BY <1>2, <1>3, <1>4, <2>1, <2>2, ScimRequest DEF ScimTypes
<1>7. CASE st # None
  <2>1. urow' = [urow EXCEPT ![u].status = st] /\ st \in {"active", "suspended"}
    BY <1>2, <1>7
  <2>2. urow[u] \in U!Row
    BY <1>3 DEF ScimTypes
  <2>3. PICK y : y = [urow[u] EXCEPT !.status = st]
    OBVIOUS
  <2>4. y # None
    BY <2>1, <2>2, <2>3, RowChanges
  <2>5. urow'[u] = y
    BY <1>3, <2>1, <2>3 DEF ScimTypes
  <2>6. Backed(r)'
    BY <1>4, <1>5, <2>4, <2>5 DEF Backed
  <2> QED BY <1>2, <1>5, <2>1, <2>6, StatusStep
<1> QED BY <1>6, <1>7

LEMMA ReloadStep ==
  ASSUME ScimInv, NEW r \in Request, U!Reload(r)
  PROVE  ScimInv'
<1>1. PICK u : u = ureq[r].user
  OBVIOUS
<1>2. PICK q : q = [at |-> "idle"]
  OBVIOUS
<1>3. /\ ureq[r].at = "reload"
      /\ utold' = IF ureq[r].post THEN utold \cup {u} ELSE utold
      /\ ureq' = [ureq EXCEPT ![r] = q]
      /\ UNCHANGED <<urow, lives, ended>>
  BY <1>1, <1>2 DEF U!Reload, U!Becomes, U!Idle
<1>4. ScimTypes /\ Backed(r) /\ ureq[r] \in ScimReq
  BY DEF ScimInv, ScimTypes, MarksStay
<1>5. u \in User /\ (ureq[r].post => Tagged(u))
  BY <1>1, <1>3, <1>4, ScimReqIs DEF Backed
<1>6. q \in ScimReq /\ q.at = "idle"
  BY <1>2 DEF ScimReq
<1>7. ureq'[r] = q
  BY <1>3, <1>4 DEF ScimTypes
<1>8. Backed(r)'
  BY <1>6, <1>7 DEF Backed
<1>9. utold' \subseteq User /\ \A x \in utold' : x \in utold \/ Tagged(x)'
  BY <1>3, <1>4, <1>5 DEF ScimTypes, Tagged
<1> QED BY <1>3, <1>6, <1>8, <1>9, ScimRequest

LEMMA StartOrFailStep ==
  ASSUME ScimInv, NEW r \in Request,
         U!Fails(r) \/ \E t \in Thing, u \in User : U!StartDelete(r, t, u)
  PROVE  ScimInv'
<1>1. PICK q \in ScimReq : q.at \in {"idle", "delete"} /\ ureq' = [ureq EXCEPT ![r] = q]
  <2>1. CASE U!Fails(r)
    <3>1. [at |-> "idle"] \in ScimReq /\ ureq' = [ureq EXCEPT ![r] = [at |-> "idle"]]
      BY <2>1 DEF U!Fails, U!Becomes, U!Idle, ScimReq
    <3> QED BY <3>1
  <2>2. ASSUME NEW t \in Thing, NEW u \in User, U!StartDelete(r, t, u)
        PROVE  \E q \in ScimReq : q.at \in {"idle", "delete"} /\ ureq' = [ureq EXCEPT ![r] = q]
    <3>1. /\ [at |-> "delete", user |-> u] \in ScimReq
          /\ ureq' = [ureq EXCEPT ![r] = [at |-> "delete", user |-> u]]
      BY <2>2 DEF U!StartDelete, U!Becomes, ScimReq
    <3> QED BY <3>1
  <2> QED BY <2>1, <2>2
<1>2. UNCHANGED <<urow, lives, ended, utold>>
  BY DEF U!Fails, U!StartDelete
<1>3. ScimTypes
  BY DEF ScimInv
<1>4. ureq'[r] = q
  BY <1>1, <1>3 DEF ScimTypes
<1>5. Backed(r)'
  BY <1>1, <1>4 DEF Backed
<1> QED BY <1>1, <1>2, <1>3, <1>5, ScimRequest DEF ScimTypes

(* A deletion, answered or not.                                            *)
LEMMA EndStep ==
  ASSUME ScimInv, NEW u \in User, U!Live(u), urow' = [urow EXCEPT ![u].live = FALSE],
         ended' \in {ended, [ended EXCEPT ![u] = @ + 1]},
         ureq' \in [Request -> ScimReq], \A r \in Request : ureq'[r] = ureq[r] \/ Backed(r)',
         UNCHANGED <<lives, utold>>
  PROVE  ScimInv'
<1>1. PICK y : y = [urow[u] EXCEPT !.live = FALSE]
  OBVIOUS
<1>2. urow' = [urow EXCEPT ![u] = y]
  BY <1>1
<1>3. ScimTypes /\ urow[u] # None /\ Counted(u)
  BY DEF U!Live, ScimInv, EndsCounted
<1>4. urow[u] \in U!Row
  BY <1>3 DEF ScimTypes
<1>5. y \in U!Row /\ y # None /\ y.addr = urow[u].addr /\ (urow[u].scim => y.scim) /\ ~y.live
  BY <1>1, <1>4, RowChanges
<1>6. PICK e \in Nat : e <= ended[u] + 1 /\ ended' \in {ended, [ended EXCEPT ![u] = e]}
  <2>1. ended[u] \in Nat
    BY <1>3 DEF ScimTypes
  <2> QED BY <2>1
<1>7. ScimTypes'
  BY <1>2, <1>3, <1>5, <1>6 DEF ScimTypes
<1>8. /\ urow'[u] = y /\ \A w \in User : w # u => urow'[w] = urow[w]
      /\ ended'[u] \in {ended[u], e} /\ \A w \in User : w # u => ended'[w] = ended[w]
  BY <1>2, <1>3, <1>6 DEF ScimTypes
<1>9. Changed(u)
  BY <1>5, <1>8 DEF Changed, U!Live
<1>10. ended[u] + 1 <= lives[u] /\ ended[u] \in Nat /\ lives[u] \in Nat /\ lives'[u] = lives[u]
  BY <1>3 DEF Counted, ScimTypes
<1>11. Counted(u)'
  <2>1. PICK n : n = ended'[u]
    OBVIOUS
  <2>2. n \in Nat /\ n <= lives[u]
    BY <1>6, <1>8, <1>10, <2>1
  <2>3. ended'[u] <= lives'[u]
    BY <1>10, <2>1, <2>2
  <2>4. ~U!Live(u)' /\ urow'[u] # None
    BY <1>5, <1>8 DEF U!Live
  <2> QED BY <2>3, <2>4 DEF Counted
<1> QED BY <1>7, <1>8, <1>9, <1>11, ScimMoves

LEMMA SoftDeleteStep ==
  ASSUME ScimInv, NEW r \in Request, U!SoftDelete(r)
  PROVE  ScimInv'
<1>1. PICK u : u = ureq[r].user
  OBVIOUS
<1>2. PICK q : q = [at |-> "idle"]
  OBVIOUS
<1>3. /\ ureq[r].at = "delete" /\ U!Live(u)
      /\ urow' = [urow EXCEPT ![u].live = FALSE]
      /\ ended' = [ended EXCEPT ![u] = @ + 1]
      /\ ureq' = [ureq EXCEPT ![r] = q]
      /\ UNCHANGED <<lives, utold>>
  BY <1>1, <1>2 DEF U!SoftDelete, U!Becomes, U!Idle, U!Deletable
<1>4. ScimTypes /\ ureq[r] \in ScimReq
  BY DEF ScimInv, ScimTypes
<1>5. u \in User
  BY <1>1, <1>3, <1>4, ScimReqIs
<1>6. q \in ScimReq /\ q.at = "idle"
  BY <1>2 DEF ScimReq
<1>7. ureq' \in [Request -> ScimReq] /\ ureq'[r] = q /\ \A s \in Request : s # r => ureq'[s] = ureq[s]
  BY <1>3, <1>4, <1>6 DEF ScimTypes
<1>8. Backed(r)'
  BY <1>6, <1>7 DEF Backed
<1> QED BY <1>3, <1>5, <1>7, <1>8, EndStep

LEMMA AdminDeleteStep ==
  ASSUME ScimInv, NEW u \in User, U!AdminDelete(u)
  PROVE  ScimInv'
<1>1. U!Live(u) /\ urow' = [urow EXCEPT ![u].live = FALSE] /\ UNCHANGED <<ureq, lives, ended, utold>>
  BY DEF U!AdminDelete
<1>2. ureq' \in [Request -> ScimReq]
  BY <1>1 DEF ScimInv, ScimTypes
<1> QED BY <1>1, <1>2, EndStep

LEMMA AdminRestoreStep ==
  ASSUME ScimInv, NEW u \in User, U!AdminRestore(u)
  PROVE  ScimInv'
<1>1. PICK y : y = [urow[u] EXCEPT !.live = TRUE]
  OBVIOUS
<1>2. /\ urow[u] # None /\ ~U!Live(u)
      /\ \A w \in User : ~(U!Live(w) /\ urow[w].addr = urow[u].addr)
      /\ urow' = [urow EXCEPT ![u] = y]
      /\ lives' = [lives EXCEPT ![u] = @ + 1]
      /\ UNCHANGED <<ureq, ended, utold>>
  BY <1>1 DEF U!AdminRestore, U!Taken, U!Live
<1>3. ScimTypes /\ Counted(u)
  BY DEF ScimInv, EndsCounted
<1>4. urow[u] \in U!Row
  BY <1>2, <1>3 DEF ScimTypes
<1>5. y \in U!Row /\ y # None /\ y.addr = urow[u].addr /\ (urow[u].scim => y.scim)
  BY <1>1, <1>4, RowChanges
<1>6. ended[u] \in Nat /\ lives[u] \in Nat /\ ended[u] <= lives[u]
  BY <1>3 DEF ScimTypes, Counted
<1>7. PICK l \in Nat : l = lives[u] + 1
  BY <1>6
<1>8. lives' = [lives EXCEPT ![u] = l]
  BY <1>2, <1>7
<1>9. ScimTypes'
  BY <1>2, <1>3, <1>5, <1>8 DEF ScimTypes
<1>10. /\ urow'[u] = y /\ \A w \in User : w # u => urow'[w] = urow[w]
       /\ lives'[u] = l /\ \A w \in User : w # u => lives'[w] = lives[w]
  BY <1>2, <1>3, <1>8 DEF ScimTypes
<1>11. Changed(u)
  BY <1>2, <1>5, <1>10 DEF Changed
<1>12. Counted(u)'
  BY <1>2, <1>5, <1>6, <1>7, <1>10 DEF Counted
<1> QED BY <1>2, <1>9, <1>10, <1>11, <1>12, ScimMoves

LEMMA ScimInitInv == U!ScimInit => ScimInv
<1> SUFFICES ASSUME U!ScimInit PROVE ScimInv
  OBVIOUS
<1>1. /\ urow = [u \in User |-> None] /\ ureq = [r \in Request |-> [at |-> "idle"]]
      /\ lives = [u \in User |-> 0] /\ ended = [u \in User |-> 0] /\ utold = {}
  BY DEF U!ScimInit, U!Idle
<1>2. ScimTypes
  BY <1>1 DEF ScimTypes, ScimReq
<1>3. \A u \in User : ~U!Live(u)
  BY <1>1 DEF U!Live
<1> QED BY <1>1, <1>2, <1>3 DEF ScimInv, OneRowPerAddress, MarksStay, EndsCounted,
   Counted, Backed

LEMMA ScimStep == ScimInv /\ (U!ScimNext \/ UNCHANGED scimVars) => ScimInv'
<1> SUFFICES ASSUME ScimInv, U!ScimNext \/ UNCHANGED scimVars PROVE ScimInv'
  OBVIOUS
<1>1. CASE UNCHANGED scimVars
  BY <1>1 DEF scimVars, ScimInv, ScimTypes, OneRowPerAddress, MarksStay, Backed, Tagged,
              EndsCounted, Counted, U!Live
<1>2. CASE U!ScimNext
  BY <1>2, CreateWithCredentialStep, UpdateUserStep, StartOrFailStep, TagProvisionedStep,
     ReloadStep, SoftDeleteStep, CreateSuspendedStep, AdminDeleteStep, AdminRestoreStep
     DEF U!ScimNext
<1> QED BY <1>1, <1>2

LEMMA ScimSafe == ScimInv => RepeatedCallsAreSafe
BY DEF ScimInv, OneRowPerAddress, MarksStay, Tagged, EndsCounted, Counted,
       RepeatedCallsAreSafe, U!RepeatedCallsAreSafe

-----------------------------------------------------------------------------
(* Domains: a Verify under way has its own row's domain in hand.           *)
DomainRow == [tenant : Thing, domain : Domain, verified : BOOLEAN]
DomainReq == [id : Claim, tenant : Thing, domain : Domain, found : BOOLEAN]

DomainTypes ==
  /\ drow \in [Claim -> DomainRow \cup {None}]
  /\ gone \subseteq Claim
  /\ txt \in [Domain -> SUBSET Claim]
  /\ dreq \in [Request -> DomainReq \cup {None}]

(* Its row is there, or was: no other row gets the id.                     *)
InHand(r) ==
  dreq[r] # None =>
    /\ drow[dreq[r].id] # None => drow[dreq[r].id].domain = dreq[r].domain
    /\ drow[dreq[r].id] # None \/ dreq[r].id \in gone
    /\ dreq[r].found => dreq[r].id \in shown

ClaimsProven ==
  \A i \in Claim : drow[i] # None /\ drow[i].verified =>
    /\ i \in shown
    /\ \A j \in Claim : drow[j] # None /\ j # i /\ drow[j].domain = drow[i].domain
                        => ~drow[j].verified

DomainInv == DomainTypes /\ (\A r \in Request : InHand(r)) /\ ClaimsProven

LEMMA AddDomainStep ==
  ASSUME DomainInv, NEW t \in Thing, NEW d \in Domain, NEW i \in Claim, D!Add(t, d, i)
  PROVE  DomainInv'
<1>1. PICK x : x = [tenant |-> t, domain |-> d, verified |-> FALSE]
  OBVIOUS
<1>2. /\ drow[i] = None /\ i \notin gone
      /\ drow' = [drow EXCEPT ![i] = x] /\ UNCHANGED <<gone, txt, dreq, shown>>
  BY <1>1 DEF D!Add, D!Rows
<1>3. DomainTypes
  BY DEF DomainInv
<1>4. x \in DomainRow /\ ~x.verified
  BY <1>1 DEF DomainRow
<1>5. DomainTypes'
  BY <1>2, <1>3, <1>4 DEF DomainTypes
<1>6. drow'[i] = x /\ \A j \in Claim : j # i => drow'[j] = drow[j]
  BY <1>2, <1>3 DEF DomainTypes
<1>7. ASSUME NEW r \in Request PROVE InHand(r)'
  <2>1. InHand(r) /\ dreq'[r] = dreq[r]
    BY <1>2 DEF DomainInv
  <2>2. CASE dreq[r] # None
    <3>1. dreq[r].id \in Claim /\ dreq[r].id # i
      BY <1>2, <1>3, <2>1, <2>2 DEF InHand, DomainTypes, DomainReq
    <3> QED BY <1>2, <1>6, <2>1, <3>1 DEF InHand
  <2>3. CASE dreq[r] = None
    BY <2>1, <2>3 DEF InHand
  <2> QED BY <2>2, <2>3
<1>8. ClaimsProven'
  BY <1>2, <1>4, <1>6 DEF DomainInv, ClaimsProven
<1> QED BY <1>5, <1>7, <1>8 DEF DomainInv

LEMMA RemoveDomainStep ==
  ASSUME DomainInv, NEW t \in Thing, NEW i \in Claim, D!Remove(t, i)
  PROVE  DomainInv'
<1>1. /\ drow' = [drow EXCEPT ![i] = None] /\ gone' = gone \cup {i}
      /\ UNCHANGED <<txt, dreq, shown>>
  BY DEF D!Remove
<1>2. DomainTypes
  BY DEF DomainInv
<1>3. DomainTypes'
  BY <1>1, <1>2 DEF DomainTypes
<1>4. drow'[i] = None /\ \A j \in Claim : j # i => drow'[j] = drow[j]
  BY <1>1, <1>2 DEF DomainTypes
<1>5. ASSUME NEW r \in Request PROVE InHand(r)'
  <2>1. InHand(r) /\ dreq'[r] = dreq[r]
    BY <1>1 DEF DomainInv
  <2>2. CASE dreq[r] # None
    <3>1. dreq[r].id \in Claim
      BY <1>2, <2>2 DEF DomainTypes, DomainReq
    <3> QED BY <1>1, <1>4, <2>1, <3>1 DEF InHand
  <2>3. CASE dreq[r] = None
    BY <2>1, <2>3 DEF InHand
  <2> QED BY <2>2, <2>3
<1>6. ClaimsProven'
  BY <1>1, <1>4 DEF DomainInv, ClaimsProven
<1> QED BY <1>3, <1>5, <1>6 DEF DomainInv

(* A step of one Verify that leaves the rows alone.                        *)
LEMMA VerifyMoves ==
  ASSUME DomainInv, NEW r \in Request, NEW q \in DomainReq \cup {None},
         dreq' = [dreq EXCEPT ![r] = q], InHand(r)',
         UNCHANGED <<drow, gone, txt>>, shown \subseteq shown'
  PROVE  DomainInv'
<1>1. DomainTypes
  BY DEF DomainInv
<1>2. DomainTypes'
  BY <1>1 DEF DomainTypes
<1>3. ASSUME NEW s \in Request, s # r PROVE InHand(s)'
  <2>1. InHand(s) /\ dreq'[s] = dreq[s]
    BY <1>1, <1>3 DEF DomainInv, DomainTypes
  <2> QED BY <2>1 DEF InHand
<1>4. ClaimsProven'
  BY DEF DomainInv, ClaimsProven
<1> QED BY <1>2, <1>3, <1>4 DEF DomainInv

LEMMA GetDomainForVerifyStep ==
  ASSUME DomainInv, NEW r \in Request, NEW t \in Thing, NEW i \in Claim,
         D!GetDomainForVerify(r, t, i)
  PROVE  DomainInv'
<1>1. PICK q : q = [id |-> i, tenant |-> t, domain |-> drow[i].domain, found |-> FALSE]
  OBVIOUS
<1>2. /\ drow[i] # None /\ dreq' = [dreq EXCEPT ![r] = q]
      /\ UNCHANGED <<drow, gone, txt, shown>>
  BY <1>1 DEF D!GetDomainForVerify, D!Rows
<1>3. DomainTypes /\ drow[i].domain \in Domain
  BY <1>2 DEF DomainInv, DomainTypes, DomainRow
<1>4. q \in DomainReq /\ q.id = i /\ q.domain = drow[i].domain /\ ~q.found
  BY <1>1, <1>3 DEF DomainReq
<1>5. dreq'[r] = q
  BY <1>2, <1>3 DEF DomainTypes
<1>6. InHand(r)'
  BY <1>2, <1>4, <1>5 DEF InHand
<1> QED BY <1>2, <1>4, <1>6, VerifyMoves

LEMMA LookupTXTStep ==
  ASSUME DomainInv, NEW r \in Request, D!LookupTXT(r)
  PROVE  DomainInv'
<1>1. PICK q : q = [dreq[r] EXCEPT !.found = TRUE]
  OBVIOUS
<1>2. /\ dreq[r] # None /\ dreq' = [dreq EXCEPT ![r] = q]
      /\ shown' = shown \cup {dreq[r].id} /\ UNCHANGED <<drow, gone, txt>>
  BY <1>1 DEF D!LookupTXT
<1>3. DomainTypes /\ dreq[r] \in DomainReq /\ InHand(r)
  BY <1>2 DEF DomainInv, DomainTypes
<1>4. q = [id |-> dreq[r].id, tenant |-> dreq[r].tenant, domain |-> dreq[r].domain, found |-> TRUE]
  BY <1>1, <1>3 DEF DomainReq
<1>5. q \in DomainReq /\ q.id = dreq[r].id /\ q.domain = dreq[r].domain
  BY <1>3, <1>4 DEF DomainReq
<1>6. dreq'[r] = q
  BY <1>2, <1>3 DEF DomainTypes
<1>7. InHand(r)'
  BY <1>2, <1>3, <1>5, <1>6 DEF InHand
<1> QED BY <1>2, <1>5, <1>7, VerifyMoves

LEMMA NotVerifiedStep ==
  ASSUME DomainInv, NEW r \in Request, D!NotVerified(r)
  PROVE  DomainInv'
<1>1. dreq' = [dreq EXCEPT ![r] = None] /\ UNCHANGED <<drow, gone, txt, shown>>
  BY DEF D!NotVerified
<1>2. dreq'[r] = None
  BY <1>1 DEF DomainInv, DomainTypes
<1>3. InHand(r)'
  BY <1>2 DEF InHand
<1> QED BY <1>1, <1>3, VerifyMoves

LEMMA MarkDomainVerifiedStep ==
  ASSUME DomainInv, NEW r \in Request, D!MarkDomainVerified(r)
  PROVE  DomainInv'
<1>1. DomainTypes /\ InHand(r)
  BY DEF DomainInv
<1>2. PICK i : i = dreq[r].id
  OBVIOUS
<1>3. /\ dreq[r] # None /\ dreq[r].found
      /\ D!Marked(dreq[r]) # {}
      /\ D!NobodyVerified(dreq[r].domain) \/ \A j \in D!Marked(dreq[r]) : drow[j].verified
      /\ drow' = [j \in Claim |-> IF j \in D!Marked(dreq[r])
                                  THEN [drow[j] EXCEPT !.verified = TRUE] ELSE drow[j]]
      /\ dreq' = [dreq EXCEPT ![r] = None] /\ UNCHANGED <<gone, txt, shown>>
  BY DEF D!MarkDomainVerified
<1>4. i \in Claim /\ drow[i] # None /\ D!Marked(dreq[r]) = {i}
  BY <1>2, <1>3 DEF D!Marked, D!Rows
<1>5. PICK y : y = [drow[i] EXCEPT !.verified = TRUE]
  OBVIOUS
<1>6. drow[i] \in DomainRow
  BY <1>1, <1>4 DEF DomainTypes
<1>7. y = [tenant |-> drow[i].tenant, domain |-> drow[i].domain, verified |-> TRUE]
  BY <1>5, <1>6 DEF DomainRow
<1>8. y \in DomainRow /\ y # None /\ y.domain = drow[i].domain /\ y.verified
  <2>1. drow[i].tenant \in Thing /\ drow[i].domain \in Domain
    BY <1>6 DEF DomainRow
  <2>2. y \in DomainRow /\ y.domain = drow[i].domain /\ y.verified
    BY <1>7, <2>1 DEF DomainRow
  <2>3. None \notin DomainRow
    BY IdentityAssumption DEF DomainRow
  <2> QED BY <2>2, <2>3
<1>9. drow'[i] = y /\ \A j \in Claim : j # i => drow'[j] = drow[j]
  BY <1>3, <1>4, <1>5
<1>10. DomainTypes'
  <2>1. drow' \in [Claim -> DomainRow \cup {None}]
    BY <1>1, <1>3, <1>8, <1>9 DEF DomainTypes
  <2> QED BY <1>1, <1>3, <2>1 DEF DomainTypes
<1>11. ASSUME NEW s \in Request PROVE InHand(s)'
  <2>1. CASE s = r
    BY <1>1, <1>3, <2>1 DEF InHand, DomainTypes
  <2>2. CASE s # r
    <3>1. InHand(s) /\ dreq'[s] = dreq[s]
      BY <1>1, <1>3, <2>2 DEF DomainInv, DomainTypes
    <3>2. CASE dreq[s] = None
      BY <3>1, <3>2 DEF InHand
    <3>3. CASE dreq[s] # None
      <4>1. dreq[s].id \in Claim
        BY <1>1, <3>3 DEF DomainTypes, DomainReq
      <4>2. PICK j \in Claim : j = dreq[s].id
        BY <4>1
      <4>3. /\ drow[j] # None => drow[j].domain = dreq[s].domain
            /\ drow[j] # None \/ j \in gone
            /\ dreq[s].found => j \in shown
        BY <3>1, <3>3, <4>2 DEF InHand
      <4>4. /\ drow'[j] # None => drow[j] # None /\ drow'[j].domain = drow[j].domain
            /\ drow[j] # None => drow'[j] # None
        BY <1>4, <1>8, <1>9
      <4>5. gone' = gone /\ shown' = shown
        BY <1>3
      <4> QED BY <3>1, <4>2, <4>3, <4>4, <4>5 DEF InHand
    <3> QED BY <3>2, <3>3
  <2> QED BY <2>1, <2>2
<1>12. drow[i].domain = dreq[r].domain /\ i \in shown
  BY <1>1, <1>2, <1>3, <1>4 DEF InHand
<1>13. \/ drow[i].verified
       \/ \A j \in Claim : drow[j] # None /\ drow[j].domain = drow[i].domain => ~drow[j].verified
  BY <1>3, <1>4, <1>12 DEF D!NobodyVerified, D!Rows
<1>14. ClaimsProven'
  <2>1. ASSUME NEW j \in Claim, j # i, drow[j] # None, drow[j].domain = drow[i].domain
        PROVE  ~drow[j].verified
    BY <1>4, <1>13, <2>1 DEF DomainInv, ClaimsProven
  <2>2. ASSUME NEW j \in Claim, NEW k \in Claim, drow'[j] # None, drow'[j].verified,
               drow'[k] # None, k # j, drow'[k].domain = drow'[j].domain
        PROVE  ~drow'[k].verified
    <3>1. CASE j = i
      BY <1>4, <1>8, <1>9, <2>1, <2>2, <3>1
    <3>2. CASE k = i
      <4>1. drow[j] # None /\ drow[j].verified /\ drow[j].domain = drow[i].domain
        BY <1>8, <1>9, <2>2, <3>2
      <4> QED BY <2>1, <2>2, <3>2, <4>1
    <3>3. CASE j # i /\ k # i
      BY <1>9, <2>2, <3>3 DEF DomainInv, ClaimsProven
    <3> QED BY <3>1, <3>2, <3>3
  <2>3. ASSUME NEW j \in Claim, drow'[j] # None, drow'[j].verified PROVE j \in shown'
    <3>1. CASE j = i
      BY <1>3, <1>12, <3>1
    <3>2. CASE j # i
      BY <1>3, <1>9, <2>3, <3>2 DEF DomainInv, ClaimsProven
    <3> QED BY <3>1, <3>2
  <2> QED BY <2>2, <2>3 DEF ClaimsProven
<1> QED BY <1>10, <1>11, <1>14 DEF DomainInv

LEMMA DomainInitInv == D!DomainsInit => DomainInv
<1> SUFFICES ASSUME D!DomainsInit PROVE DomainInv
  OBVIOUS
<1>1. DomainTypes
  BY DEF D!DomainsInit, DomainTypes
<1> QED BY <1>1 DEF D!DomainsInit, DomainInv, InHand, ClaimsProven

LEMMA DomainStep == DomainInv /\ (D!DomainsNext \/ UNCHANGED domainVars) => DomainInv'
<1> SUFFICES ASSUME DomainInv, D!DomainsNext \/ UNCHANGED domainVars PROVE DomainInv'
  OBVIOUS
<1>1. CASE UNCHANGED domainVars
  BY <1>1 DEF domainVars, DomainInv, DomainTypes, InHand, ClaimsProven
<1>2. ASSUME NEW d \in Domain, NEW i \in Claim, D!PublishOrWithdraw(d, i) PROVE DomainInv'
  <2>1. UNCHANGED <<drow, gone, dreq, shown>> /\ txt' \in [Domain -> SUBSET Claim]
    BY <1>2 DEF D!PublishOrWithdraw, DomainInv, DomainTypes
  <2> QED BY <2>1 DEF DomainInv, DomainTypes, InHand, ClaimsProven
<1>3. CASE D!DomainsNext
  BY <1>2, <1>3, AddDomainStep, RemoveDomainStep, GetDomainForVerifyStep, LookupTXTStep,
     NotVerifiedStep, MarkDomainVerifiedStep DEF D!DomainsNext
<1> QED BY <1>1, <1>3

LEMMA DomainSafe == DomainInv => D!VerifiedMeansProven
BY DEF DomainInv, ClaimsProven, D!VerifiedMeansProven, D!Rows

-----------------------------------------------------------------------------
(* Directory: what a sign-in has in hand at each of its steps.  From the   *)
(* moment its row was read it is one that may be let in, and from the bind *)
(* on the entry has had the password.                                      *)
Secret == Password \ {Empty}
WriteReq == [at : {"write"}, row : L!Row \cup {Deleted}, tells : L!Record]
AskedReq == [at : {"asked"}, name : Cookie, password : Password, out : BOOLEAN]
FindReq == [at : {"find"}, server : Home, name : Cookie, password : Secret, out : {FALSE}]
BindReq == [at : {"bind"}, server : Home, entry : User, password : Secret, out : {FALSE}]
LinkReq == [at : {"link"}, server : Home, entry : User, password : Secret, out : {FALSE}]
DirectoryReq == {L!Idle} \cup WriteReq \cup AskedReq \cup FindReq \cup BindReq \cup LinkReq

DirectoryTypes ==
  /\ lconn \in L!Row \cup {None, Deleted}
  /\ secret \in [Home \X User -> Secret \cup {None}]
  /\ lreq \in [Request -> DirectoryReq]

SecretsHad ==
  \A s \in Home, e \in User : secret[<<s, e>>] # None => <<s, e, secret[<<s, e>>]>> \in had

(* A sign-in not yet looked at is out while the connection is.             *)
SignsIn(r) ==
  /\ lreq[r].at = "asked" /\ L!Serves(lconn) => ~lreq[r].out
  /\ lreq[r].at = "link" => <<lreq[r].server, lreq[r].entry, lreq[r].password>> \in had

(* What a transaction will tell agrees with what it will write.            *)
WillAgree(q) == q.at = "write" => L!Agrees(q.tells, q.row)

DirectoryInv ==
  /\ DirectoryTypes /\ SecretsHad /\ (\A r \in Request : SignsIn(r))
  /\ (\A r \in Request : WillAgree(lreq[r]))
  /\ L!Agrees(ltold, lconn) /\ signed \subseteq had

LEMMA IdleIsReq == L!Idle \in DirectoryReq /\ L!Idle.at = "idle"
BY DEF DirectoryReq, L!Idle

(* Each kind of record is known by its step.                               *)
LEMMA DirectoryReqAt ==
  ASSUME NEW q \in DirectoryReq
  PROVE  /\ q.at = "write" => q \in WriteReq
         /\ q.at = "asked" => q \in AskedReq
         /\ q.at = "find" => q \in FindReq
         /\ q.at = "bind" => q \in BindReq
         /\ q.at = "link" => q \in LinkReq
<1>1. CASE q = L!Idle
  BY <1>1, IdleIsReq
<1>2. CASE q \in WriteReq
  BY <1>2 DEF WriteReq
<1>3. CASE q \in AskedReq
  BY <1>3 DEF AskedReq
<1>4. CASE q \in FindReq
  BY <1>4 DEF FindReq
<1>5. CASE q \in BindReq
  BY <1>5 DEF BindReq
<1>6. CASE q \in LinkReq
  BY <1>6 DEF LinkReq
<1> QED BY <1>1, <1>2, <1>3, <1>4, <1>5, <1>6 DEF DirectoryReq

LEMMA DirectoryMoves ==
  ASSUME DirectoryInv, NEW r \in Request, NEW q \in DirectoryReq,
         lreq' = [lreq EXCEPT ![r] = q], UNCHANGED <<lconn, ltold, secret, had>>,
         WillAgree(q), q.at = "asked" /\ L!Serves(lconn) => ~q.out,
         q.at = "link" => <<q.server, q.entry, q.password>> \in had,
         signed' \subseteq had
  PROVE  DirectoryInv'
<1>1. DirectoryTypes
  BY DEF DirectoryInv
<1>2. lreq' \in [Request -> DirectoryReq]
  BY <1>1 DEF DirectoryTypes
<1>3. DirectoryTypes'
  BY <1>1, <1>2 DEF DirectoryTypes
<1>4. lreq'[r] = q /\ \A s \in Request : s # r => lreq'[s] = lreq[s]
  BY <1>1 DEF DirectoryTypes
<1>5. L!Serves(lconn)' <=> L!Serves(lconn)
  BY DEF L!Serves
<1>6. ASSUME NEW s \in Request PROVE SignsIn(s)'
  <2>1. CASE s = r
    BY <1>4, <1>5, <2>1 DEF SignsIn
  <2>2. CASE s # r
    <3>1. SignsIn(s) /\ lreq'[s] = lreq[s]
      BY <1>4, <2>2 DEF DirectoryInv
    <3> QED BY <1>5, <3>1 DEF SignsIn
  <2> QED BY <2>1, <2>2
<1>7. SecretsHad' /\ L!Agrees(ltold, lconn)'
  BY DEF DirectoryInv, SecretsHad, L!Agrees
<1>8. ASSUME NEW s \in Request PROVE WillAgree(lreq[s])'
  <2>1. WillAgree(lreq'[s])
    BY <1>4 DEF DirectoryInv
  <2> QED BY <2>1 DEF WillAgree, L!Agrees
<1> QED BY <1>3, <1>6, <1>7, <1>8 DEF DirectoryInv

LEMMA DirectoryWriteStep ==
  ASSUME DirectoryInv, NEW r \in Request, NEW x \in L!Row \cup {Deleted},
         NEW y \in L!Record, L!Agrees(y, x), L!Write(r, x, y)
  PROVE  DirectoryInv'
<1>1. PICK q : q = [at |-> "write", row |-> x, tells |-> y]
  OBVIOUS
<1>2. /\ lreq' = [lreq EXCEPT ![r] = q] /\ UNCHANGED <<lconn, ltold, secret, had, signed>>
  BY <1>1 DEF L!Write, L!Go, L!directory
<1>3. q \in DirectoryReq /\ q.at = "write" /\ WillAgree(q)
  BY <1>1 DEF DirectoryReq, WriteReq, WillAgree
<1>4. signed' \subseteq had
  BY <1>2 DEF DirectoryInv
<1> QED BY <1>2, <1>3, <1>4, DirectoryMoves

LEMMA DirectoryRefuses ==
  ASSUME DirectoryInv, NEW r \in Request, L!Refuse(r),
         UNCHANGED <<lconn, ltold, secret, had>>, signed' \subseteq had
  PROVE  DirectoryInv'
<1>1. lreq' = [lreq EXCEPT ![r] = L!Idle]
  BY DEF L!Refuse, L!Go
<1>2. L!Idle \in DirectoryReq /\ L!Idle.at = "idle" /\ WillAgree(L!Idle)
  BY IdleIsReq DEF WillAgree
<1> QED BY <1>1, <1>2, DirectoryMoves

LEMMA DirectoryCommitStep ==
  ASSUME DirectoryInv, NEW r \in Request, L!Commit(r)
  PROVE  DirectoryInv'
<1>1. DirectoryTypes
  BY DEF DirectoryInv
<1>2. /\ lreq[r].at = "write" /\ lconn' = lreq[r].row /\ ltold' = lreq[r].tells
      /\ UNCHANGED <<secret, had, signed>>
      /\ lreq' = [q \in Request |->
           IF q = r THEN L!Idle
           ELSE IF L!Serves(lconn') /\ L!At(q, "asked") THEN [lreq[q] EXCEPT !.out = FALSE]
           ELSE lreq[q]]
  BY DEF L!Commit, L!At, L!directory
<1>3. lreq[r] \in WriteReq
  BY <1>1, <1>2, DirectoryReqAt DEF DirectoryTypes
<1>4. lconn' \in L!Row \cup {None, Deleted}
  BY <1>2, <1>3 DEF WriteReq
<1>5. ASSUME NEW s \in Request PROVE lreq'[s] \in DirectoryReq /\ SignsIn(s)'
  <2>1. CASE s = r
    BY <1>2, <2>1, IdleIsReq DEF SignsIn
  <2>2. CASE s # r /\ L!Serves(lconn') /\ lreq[s].at = "asked"
    <3>1. lreq[s] \in AskedReq
      BY <1>1, <2>2, DirectoryReqAt DEF DirectoryTypes
    <3>2. lreq'[s] = [lreq[s] EXCEPT !.out = FALSE]
      BY <1>2, <2>2 DEF L!At
    <3>3. lreq'[s] = [at |-> "asked", name |-> lreq[s].name, password |-> lreq[s].password,
                      out |-> FALSE]
      BY <3>1, <3>2 DEF AskedReq
    <3>4. lreq'[s] \in AskedReq
      BY <3>1, <3>3 DEF AskedReq
    <3> QED BY <3>3, <3>4 DEF DirectoryReq, SignsIn
  <2>3. CASE s # r /\ ~(L!Serves(lconn') /\ lreq[s].at = "asked")
    <3>1. lreq'[s] = lreq[s]
      BY <1>2, <2>3 DEF L!At
    <3>2. lreq[s] \in DirectoryReq /\ SignsIn(s)
      BY <1>1 DEF DirectoryInv, DirectoryTypes
    <3>3. L!Serves(lconn') <=> L!Serves(lconn)'
      BY DEF L!Serves
    <3> QED BY <1>2, <2>3, <3>1, <3>2, <3>3 DEF SignsIn
  <2> QED BY <2>1, <2>2, <2>3
<1>6. lreq' \in [Request -> DirectoryReq]
  BY <1>2, <1>5
<1>7. DirectoryTypes'
  BY <1>1, <1>2, <1>4, <1>6 DEF DirectoryTypes
<1>8. SecretsHad' /\ signed' \subseteq had'
  BY <1>2 DEF DirectoryInv, SecretsHad
<1>9. L!Agrees(ltold, lconn)'
  <2>1. L!Agrees(lreq[r].tells, lreq[r].row)
    BY <1>2 DEF DirectoryInv, WillAgree
  <2> QED BY <1>2, <2>1 DEF L!Agrees
<1>10. ASSUME NEW s \in Request PROVE WillAgree(lreq[s])'
  <2>1. CASE lreq'[s].at = "write"
    <3>1. lreq'[s] = lreq[s]
      BY <1>1, <1>2, <1>5, <2>1, IdleIsReq, DirectoryReqAt DEF DirectoryTypes, L!At, AskedReq
    <3>2. L!Agrees(lreq'[s].tells, lreq'[s].row)
      BY <2>1, <3>1 DEF DirectoryInv, WillAgree
    <3> QED BY <3>2 DEF WillAgree, L!Agrees
  <2>2. CASE lreq'[s].at # "write"
    BY <2>2 DEF WillAgree
  <2> QED BY <2>1, <2>2
<1> QED BY <1>5, <1>7, <1>8, <1>9, <1>10 DEF DirectoryInv

LEMMA ChangeEntryStep ==
  ASSUME DirectoryInv, NEW s \in Home, NEW e \in User, NEW p \in Secret \cup {None},
         L!ChangeEntry(s, e, p)
  PROVE  DirectoryInv'
<1>1. /\ secret' = [secret EXCEPT ![<<s, e>>] = p]
      /\ had' = IF p = None THEN had ELSE had \cup {<<s, e, p>>}
      /\ UNCHANGED <<lconn, ltold, signed, lreq>>
  BY DEF L!ChangeEntry, L!rowVars
<1>2. DirectoryTypes
  BY DEF DirectoryInv
<1>3. DirectoryTypes'
  BY <1>1, <1>2 DEF DirectoryTypes
<1>4. had \subseteq had' /\ (p # None => <<s, e, p>> \in had')
  BY <1>1
<1>5. SecretsHad'
  <2> SUFFICES ASSUME NEW t \in Home, NEW f \in User, secret'[<<t, f>>] # None
               PROVE  <<t, f, secret'[<<t, f>>]>> \in had'
    BY DEF SecretsHad
  <2>1. CASE <<t, f>> = <<s, e>>
    <3>1. secret'[<<s, e>>] = p
      BY <1>1, <1>2 DEF DirectoryTypes
    <3>2. t = s /\ f = e
      BY <2>1
    <3> QED BY <1>4, <2>1, <3>1, <3>2
  <2>2. CASE <<t, f>> # <<s, e>>
    <3>1. secret'[<<t, f>>] = secret[<<t, f>>]
      BY <1>1, <1>2, <2>2 DEF DirectoryTypes
    <3> QED BY <1>4, <3>1 DEF DirectoryInv, SecretsHad
  <2> QED BY <2>1, <2>2
<1>6. ASSUME NEW r \in Request PROVE SignsIn(r)'
  BY <1>1, <1>4 DEF DirectoryInv, SignsIn, L!Serves
<1>7. L!Agrees(ltold, lconn)' /\ signed' \subseteq had'
  BY <1>1, <1>4 DEF DirectoryInv, L!Agrees
<1>8. \A r \in Request : WillAgree(lreq[r])'
  BY <1>1 DEF DirectoryInv, WillAgree, L!Agrees
<1> QED BY <1>3, <1>5, <1>6, <1>7, <1>8 DEF DirectoryInv


LEMMA ArriveStep ==
  ASSUME DirectoryInv, NEW r \in Request, NEW n \in Cookie, NEW p \in Password,
         L!Arrive(r, n, p)
  PROVE  DirectoryInv'
<1>1. PICK q : q = [at |-> "asked", name |-> n, password |-> p, out |-> ~L!Serves(lconn)]
  OBVIOUS
<1>2. lreq' = [lreq EXCEPT ![r] = q] /\ UNCHANGED <<lconn, ltold, secret, had, signed>>
  BY <1>1 DEF L!Arrive, L!Go, L!rowVars, L!directory
<1>3. (~L!Serves(lconn)) \in BOOLEAN
  BY DEF L!Serves
<1>4. q \in AskedReq
  BY <1>1, <1>3 DEF AskedReq
<1>5. q \in DirectoryReq /\ q.at = "asked" /\ (L!Serves(lconn) => ~q.out)
  BY <1>1, <1>4 DEF DirectoryReq
<1>6. signed' \subseteq had
  BY <1>2 DEF DirectoryInv
<1> QED BY <1>2, <1>5, <1>6, DirectoryMoves DEF WillAgree

LEMMA getFullStep ==
  ASSUME DirectoryInv, NEW r \in Request, L!getFull(r)
  PROVE  DirectoryInv'
<1>1. /\ lreq[r].at = "asked" /\ UNCHANGED <<lconn, ltold, secret, had, signed>>
      /\ IF L!Serves(lconn) /\ L!Given(lreq[r])
         THEN L!Go(r, [at |-> "find", server |-> lconn.server, name |-> lreq[r].name,
                       password |-> lreq[r].password, out |-> lreq[r].out])
         ELSE L!Refuse(r)
  BY DEF L!getFull, L!At, L!rowVars, L!directory
<1>2. signed' \subseteq had
  BY <1>1 DEF DirectoryInv
<1>3. CASE L!Serves(lconn) /\ L!Given(lreq[r])
  <2>1. PICK q : q = [at |-> "find", server |-> lconn.server, name |-> lreq[r].name,
                      password |-> lreq[r].password, out |-> lreq[r].out]
    OBVIOUS
  <2>2. lreq' = [lreq EXCEPT ![r] = q]
    BY <1>1, <1>3, <2>1 DEF L!Go
  <2>3. DirectoryTypes /\ SignsIn(r)
    BY DEF DirectoryInv
  <2>4. lreq[r] \in AskedReq
    BY <1>1, <2>3, DirectoryReqAt DEF DirectoryTypes
  <2>5. lconn.server \in Home
    BY <1>3, <2>3 DEF DirectoryTypes, L!Serves, L!Row
  <2>6. lreq[r].password \in Secret /\ lreq[r].name \in Cookie /\ lreq[r].out = FALSE
    BY <1>1, <1>3, <2>3, <2>4 DEF AskedReq, L!Given, Secret, SignsIn
  <2>7. q \in FindReq
    BY <2>1, <2>5, <2>6 DEF FindReq
  <2>8. q \in DirectoryReq /\ q.at = "find"
    BY <2>7 DEF FindReq, DirectoryReq
  <2> QED BY <1>1, <1>2, <2>2, <2>8, DirectoryMoves DEF WillAgree
<1>4. CASE ~(L!Serves(lconn) /\ L!Given(lreq[r]))
  <2>1. L!Refuse(r)
    BY <1>1, <1>4
  <2> QED BY <1>1, <1>2, <2>1, DirectoryRefuses
<1> QED BY <1>3, <1>4

LEMMA SearchStep ==
  ASSUME DirectoryInv, NEW r \in Request, L!Search(r)
  PROVE  DirectoryInv'
<1>1. /\ lreq[r].at = "find" /\ UNCHANGED <<lconn, ltold, secret, had, signed>>
      /\ \/ L!Refuse(r)
         \/ \E e \in L!Found(lreq[r].server, lreq[r].name) :
              L!Go(r, [at |-> "bind", server |-> lreq[r].server, entry |-> e,
                       password |-> lreq[r].password, out |-> lreq[r].out])
  BY DEF L!Search, L!At, L!rowVars, L!directory
<1>2. signed' \subseteq had
  BY <1>1 DEF DirectoryInv
<1>3. CASE L!Refuse(r)
  BY <1>1, <1>2, <1>3, DirectoryRefuses
<1>4. CASE ~L!Refuse(r)
  <2>1. PICK e \in User : L!Go(r, [at |-> "bind", server |-> lreq[r].server, entry |-> e,
                                   password |-> lreq[r].password, out |-> lreq[r].out])
    BY <1>1, <1>4 DEF L!Found
  <2>2. PICK q : q = [at |-> "bind", server |-> lreq[r].server, entry |-> e,
                      password |-> lreq[r].password, out |-> lreq[r].out]
    OBVIOUS
  <2>3. lreq' = [lreq EXCEPT ![r] = q]
    BY <2>1, <2>2 DEF L!Go
  <2>4. lreq[r] \in FindReq
    BY <1>1, DirectoryReqAt DEF DirectoryInv, DirectoryTypes
  <2>5. q \in BindReq
    BY <2>2, <2>4 DEF FindReq, BindReq
  <2>6. q \in DirectoryReq /\ q.at = "bind"
    BY <2>5 DEF BindReq, DirectoryReq
  <2> QED BY <1>1, <1>2, <2>3, <2>6, DirectoryMoves DEF WillAgree
<1> QED BY <1>3, <1>4

LEMMA BindUserStep ==
  ASSUME DirectoryInv, NEW r \in Request, L!BindUser(r)
  PROVE  DirectoryInv'
<1>1. /\ lreq[r].at = "bind" /\ UNCHANGED <<lconn, ltold, secret, had, signed>>
      /\ IF lreq[r].server \in up /\ L!Binds(lreq[r].server, lreq[r].entry, lreq[r].password)
         THEN L!Go(r, [lreq[r] EXCEPT !.at = "link"]) ELSE L!Refuse(r)
  BY DEF L!BindUser, L!At, L!rowVars, L!directory
<1>2. signed' \subseteq had
  BY <1>1 DEF DirectoryInv
<1>3. CASE L!Binds(lreq[r].server, lreq[r].entry, lreq[r].password) /\ ~L!Refuse(r)
  <2>1. PICK q : q = [lreq[r] EXCEPT !.at = "link"]
    OBVIOUS
  <2>2. lreq' = [lreq EXCEPT ![r] = q]
    BY <1>1, <1>3, <2>1 DEF L!Go
  <2>3. lreq[r] \in BindReq
    BY <1>1, DirectoryReqAt DEF DirectoryInv, DirectoryTypes
  <2>4. q = [at |-> "link", server |-> lreq[r].server, entry |-> lreq[r].entry,
             password |-> lreq[r].password, out |-> lreq[r].out]
    BY <2>1, <2>3 DEF BindReq
  <2>5. q \in LinkReq
    BY <2>3, <2>4 DEF BindReq, LinkReq
  <2>6. q \in DirectoryReq /\ q.at = "link"
    BY <2>5 DEF LinkReq, DirectoryReq
  <2>7. /\ lreq[r].server \in Home /\ lreq[r].entry \in User
        /\ lreq[r].password \notin {Empty, None}
    BY <2>3, IdentityAssumption DEF BindReq, Secret
  <2>8. secret[<<lreq[r].server, lreq[r].entry>>] = lreq[r].password
    BY <1>3, <2>7 DEF L!Binds
  <2>9. <<lreq[r].server, lreq[r].entry, lreq[r].password>> \in had
    BY <2>7, <2>8 DEF DirectoryInv, SecretsHad
  <2>10. <<q.server, q.entry, q.password>> \in had
    BY <2>4, <2>9
  <2> QED BY <1>1, <1>2, <2>2, <2>6, <2>10, DirectoryMoves DEF WillAgree
<1>4. CASE L!Refuse(r)
  BY <1>1, <1>2, <1>4, DirectoryRefuses
<1> QED BY <1>1, <1>3, <1>4

LEMMA DirectoryLoginStep ==
  ASSUME DirectoryInv, NEW r \in Request, NEW ok \in BOOLEAN, L!Login(r, ok)
  PROVE  DirectoryInv'
<1>1. /\ lreq[r].at = "link" /\ UNCHANGED <<lconn, ltold, secret, had>> /\ L!Refuse(r)
      /\ signed' = IF ok THEN signed \cup {<<lreq[r].server, lreq[r].entry, lreq[r].password>>}
                   ELSE signed
  BY DEF L!Login, L!At, L!directory
<1>2. signed' \subseteq had
  BY <1>1 DEF DirectoryInv, SignsIn
<1> QED BY <1>1, <1>2, DirectoryRefuses

LEMMA DirectoryInitInv == L!DirectoryInit => DirectoryInv
<1> SUFFICES ASSUME L!DirectoryInit PROVE DirectoryInv
  OBVIOUS
<1>1. DirectoryTypes
  BY IdleIsReq DEF L!DirectoryInit, DirectoryTypes, Secret
<1>2. SecretsHad
  <2> SUFFICES ASSUME NEW s \in Home, NEW e \in User, secret[<<s, e>>] # None
               PROVE  <<s, e, secret[<<s, e>>]>> \in had
    BY DEF SecretsHad
  <2>1. PICK p \in Password : p = secret[<<s, e>>]
    BY <1>1 DEF DirectoryTypes, Secret
  <2>2. PICK x \in Home \X User \X Password : x = <<s, e, p>>
    OBVIOUS
  <2>3. x[1] = s /\ x[2] = e /\ x[3] = p
    BY <2>2
  <2> QED BY <2>1, <2>2, <2>3 DEF L!DirectoryInit
<1>3. \A r \in Request : lreq[r].at = "idle"
  BY IdleIsReq DEF L!DirectoryInit
<1>4. None # Deleted /\ lconn = None /\ ltold = None /\ signed = {}
  BY IdentityAssumption DEF L!DirectoryInit
<1>5. L!Agrees(ltold, lconn)
  BY <1>4 DEF L!Agrees
<1> QED BY <1>1, <1>2, <1>3, <1>4, <1>5 DEF DirectoryInv, SignsIn, WillAgree

LEMMA DirectoryStep ==
  DirectoryInv /\ (L!DirectoryNext \/ UNCHANGED directoryVars) => DirectoryInv'
<1> SUFFICES ASSUME DirectoryInv, L!DirectoryNext \/ UNCHANGED directoryVars
             PROVE  DirectoryInv'
  OBVIOUS
<1>1. CASE UNCHANGED directoryVars
  BY <1>1 DEF directoryVars, DirectoryInv, DirectoryTypes, SecretsHad, SignsIn, L!Serves,
     WillAgree, L!Agrees
<1>2. ASSUME NEW s \in Home, L!ServerStops(s) \/ L!ServerStarts(s) PROVE DirectoryInv'
  BY <1>2 DEF L!ServerStops, L!ServerStarts, L!rowVars, DirectoryInv, DirectoryTypes,
     SecretsHad, SignsIn, L!Serves, WillAgree, L!Agrees
<1>3. ASSUME NEW r \in Request, NEW s \in Home, NEW st \in {"draft", "active"},
             L!CreateConnection(r, st, s)
      PROVE  DirectoryInv'
  <2>1. PICK x \in L!Row : x = [status |-> st, server |-> s]
    BY DEF L!Row
  <2>2. PICK y \in L!Record : y = [action |-> "created", status |-> None, server |-> s]
    BY DEF L!Record
  <2>3. L!Write(r, x, y)
    BY <1>3, <2>1, <2>2 DEF L!CreateConnection, L!Tells
  <2>4. L!Agrees(y, x)
    BY <2>1, <2>2, IdentityAssumption DEF L!Agrees
  <2> QED BY <2>3, <2>4, DirectoryWriteStep
<1>4. ASSUME NEW r \in Request, NEW s \in Home \cup {None},
             NEW st \in {"draft", "active", "disabled", None},
             L!UpdateConnection(r, st, s)
      PROVE  DirectoryInv'
  <2>1. lconn \in L!Row
    BY <1>4 DEF L!UpdateConnection, L!Live, DirectoryInv, DirectoryTypes
  <2>2. PICK x \in L!Row : x = L!Patched(st, s)
    BY <2>1 DEF L!Patched, L!Row
  <2>3. PICK y \in L!Record : y = [action |-> "updated", status |-> x.status, server |-> None]
    BY <2>2 DEF L!Record, L!Row
  <2>4. L!Write(r, x, y)
    BY <1>4, <2>2, <2>3 DEF L!UpdateConnection, L!Tells
  <2>5. L!Agrees(y, x)
    BY <2>2, <2>3, IdentityAssumption DEF L!Agrees
  <2> QED BY <2>4, <2>5, DirectoryWriteStep
<1>5. ASSUME NEW r \in Request, L!DeleteConnection(r) PROVE DirectoryInv'
  <2>1. PICK y \in L!Record : y = [action |-> "deleted", status |-> None, server |-> None]
    BY DEF L!Record
  <2>2. L!Write(r, Deleted, y)
    BY <1>5, <2>1 DEF L!DeleteConnection, L!Tells
  <2>3. L!Agrees(y, Deleted)
    BY <2>1, IdentityAssumption DEF L!Agrees
  <2> QED BY <2>2, <2>3, DirectoryWriteStep
<1>6. ASSUME NEW r \in Request, L!Rollback(r) PROVE DirectoryInv'
  <2>1. L!Refuse(r) /\ UNCHANGED <<lconn, ltold, secret, had, signed>>
    BY <1>6 DEF L!Rollback, L!Refuse, L!directory
  <2>2. signed' \subseteq had
    BY <2>1 DEF DirectoryInv
  <2> QED BY <2>1, <2>2, DirectoryRefuses
<1>7. CASE L!DirectoryNext
  BY <1>2, <1>3, <1>4, <1>5, <1>6, <1>7, DirectoryCommitStep, ChangeEntryStep, ArriveStep,
     getFullStep, SearchStep, BindUserStep, DirectoryLoginStep
  DEF L!DirectoryNext, Secret
<1> QED BY <1>1, <1>7

LEMMA DirectorySafe ==
  DirectoryInv => L!SignedInWithPassword /\ L!WithdrawnIsOut /\ L!AuditTellsTheState
<1> SUFFICES ASSUME DirectoryInv
             PROVE  L!SignedInWithPassword /\ L!WithdrawnIsOut /\ L!AuditTellsTheState
  OBVIOUS
<1>1. ASSUME NEW r \in Request, lreq[r].at = "link" PROVE ~lreq[r].out
  <2>1. lreq[r] \in LinkReq
    BY <1>1, DirectoryReqAt DEF DirectoryInv, DirectoryTypes
  <2> QED BY <2>1 DEF LinkReq
<1> QED BY <1>1 DEF DirectoryInv, L!SignedInWithPassword, L!WithdrawnIsOut, L!At,
                    L!AuditTellsTheState

-----------------------------------------------------------------------------
(* Clients: a transaction holds its row's lock, so what it will write is   *)
(* still what the row calls for; the secret it drew is known to nobody     *)
(* until it is answered, so no request that was too late has it.           *)
RowWrite == [at : {"write"}, client : Home, row : K!Row,
             action : {"registered", "updated", "rotated"}, secret : Thing \cup {None}]
GoneWrite == [at : {"write"}, client : Home, row : {K!Gone}, action : {"deleted"},
              secret : {None}]
AnswerReq == [at : {"answer"}, secret : Thing]
AskReq == [at : {"asked", "let in"}, client : Home, secret : Thing \cup {None}, out : BOOLEAN]
ClientReq == {K!Idle} \cup RowWrite \cup GoneWrite \cup AnswerReq \cup AskReq

ClientTypes ==
  /\ client \in [Home -> K!Row \cup {None, K!Gone}]
  /\ cdrawn \subseteq Thing /\ cshown \subseteq cdrawn
  /\ crlock \in [Home -> Request \cup {None}]
  /\ ctold \in [Home -> {None, "registered", "updated", "rotated", "deleted"}]
  /\ clreq \in [Request -> ClientReq]

(* The secret a handler has and nobody was told.                           *)
Holding(q) == IF q.at \in {"write", "answer"} THEN {q.secret} \ {None} ELSE {}

Writing(r, q) ==
  q.at = "write" =>
    /\ crlock[q.client] = r
    /\ q.action = "registered" => client[q.client] = None
    /\ q.action = "updated" => /\ client[q.client] \in K!Row
                               /\ q.row.secret = client[q.client].secret
    /\ q.action = "rotated" => client[q.client] \in K!Row /\ client[q.client].secret # None
    /\ q.action \in {"registered", "rotated"} => q.row.secret = q.secret
    /\ q.action = "rotated" => q.secret # None

Asking(q) ==
  /\ q.at = "asked" => /\ client[q.client] # None
                       /\ q.secret \in cshown \cup {None}
                       /\ q.out => ~K!Accepts(q.client, q.secret)
  /\ q.at = "let in" => ~q.out

Fresh(r) ==
  /\ Holding(clreq[r]) \subseteq cdrawn \ cshown
  /\ \A s \in Request : s # r => Holding(clreq[r]) \cap Holding(clreq[s]) = {}

TellsOf(c) ==
  /\ client[c] \in K!Row <=> ctold[c] \in {"registered", "updated", "rotated"}
  /\ client[c] = K!Gone <=> ctold[c] = "deleted"
  /\ client[c] = None <=> ctold[c] = None

ClientInv ==
  /\ ClientTypes
  /\ \A r \in Request : Writing(r, clreq[r]) /\ Asking(clreq[r]) /\ Fresh(r)
  /\ \A c \in Home : TellsOf(c)

LEMMA ClientIdle == K!Idle \in ClientReq /\ K!Idle.at = "idle"
BY DEF ClientReq, K!Idle

LEMMA ClientReqAt ==
  ASSUME NEW q \in ClientReq
  PROVE  /\ q.at = "write" => q \in RowWrite \cup GoneWrite
         /\ q.at = "answer" => q \in AnswerReq
         /\ q.at \in {"asked", "let in"} => q \in AskReq
<1>1. CASE q = K!Idle
  BY <1>1, ClientIdle
<1>2. CASE q \in RowWrite
  BY <1>2 DEF RowWrite
<1>3. CASE q \in GoneWrite
  BY <1>3 DEF GoneWrite
<1>4. CASE q \in AnswerReq
  BY <1>4 DEF AnswerReq
<1>5. CASE q \in AskReq
  BY <1>5 DEF AskReq
<1> QED BY <1>1, <1>2, <1>3, <1>4, <1>5 DEF ClientReq

LEMMA RowIsNotGone == K!Gone \notin K!Row /\ None \notin K!Row /\ None # K!Gone /\ None \notin Thing
<1>1. DOMAIN K!Gone = {"gone"}
  BY DEF K!Gone
<1>2. \A x \in K!Row : "secret" \in DOMAIN x
  BY DEF K!Row
<1> QED BY <1>1, <1>2, IdentityAssumption

(* A step of one handler that leaves the clients alone.                    *)
LEMMA ClientMoves ==
  ASSUME ClientInv, NEW r \in Request, NEW q \in ClientReq,
         clreq' = [clreq EXCEPT ![r] = q], UNCHANGED <<client, ctold>>,
         cdrawn \subseteq cdrawn', cdrawn' \subseteq Thing,
         cshown \subseteq cshown', cshown' \subseteq cdrawn',
         crlock' \in [Home -> Request \cup {None}],
         \A c \in Home : crlock[c] \in Request \ {r} => crlock'[c] = crlock[c],
         Writing(r, q)', Asking(q)', Holding(q) \subseteq cdrawn' \ cshown',
         \A s \in Request : s # r =>
           Holding(clreq[s]) \cap cshown' = {} /\ Holding(clreq[s]) \cap Holding(q) = {}
  PROVE  ClientInv'
<1>1. ClientTypes
  BY DEF ClientInv
<1>2. clreq' \in [Request -> ClientReq]
  BY <1>1 DEF ClientTypes
<1>3. ClientTypes'
  BY <1>1, <1>2 DEF ClientTypes
<1>4. clreq'[r] = q /\ \A s \in Request : s # r => clreq'[s] = clreq[s]
  BY <1>1 DEF ClientTypes
<1>5. ASSUME NEW s \in Request PROVE Writing(s, clreq[s])' /\ Asking(clreq[s])'
  <2>1. CASE s = r
    BY <1>4, <2>1 DEF Writing, Asking, K!Accepts, K!Live
  <2>2. CASE s # r
    <3>1. Writing(s, clreq[s]) /\ Asking(clreq[s]) /\ clreq'[s] = clreq[s]
      BY <1>4, <2>2 DEF ClientInv
    <3>2. Asking(clreq[s])'
      BY <3>1 DEF Asking, K!Accepts, K!Live
    <3>3. CASE clreq[s].at = "write"
      <4>1. clreq[s].client \in Home /\ crlock[clreq[s].client] = s
        <5>1. clreq[s] \in RowWrite \cup GoneWrite
          BY <1>1, <3>3, ClientReqAt DEF ClientTypes
        <5>2. clreq[s].client \in Home
          BY <5>1 DEF RowWrite, GoneWrite
        <5> QED BY <3>1, <3>3, <5>2 DEF Writing
      <4>2. crlock'[clreq[s].client] = s
        BY <2>2, <4>1
      <4> QED BY <3>1, <3>2, <4>1, <4>2 DEF Writing
    <3>4. CASE clreq[s].at # "write"
      BY <3>1, <3>2, <3>4 DEF Writing
    <3> QED BY <3>3, <3>4
  <2> QED BY <2>1, <2>2
<1>6. ASSUME NEW s \in Request PROVE Fresh(s)'
  <2>1. \A u \in Request : Holding(clreq[u])' = Holding(clreq'[u])
    BY DEF Holding
  <2>2. CASE s = r
    BY <1>4, <2>1, <2>2 DEF Fresh
  <2>3. CASE s # r
    <3>1. Fresh(s) /\ clreq'[s] = clreq[s]
      BY <1>4, <2>3 DEF ClientInv
    <3>2. Holding(clreq'[s]) \subseteq cdrawn' \ cshown'
      BY <2>3, <3>1 DEF Fresh
    <3>3. ASSUME NEW u \in Request, u # s
          PROVE  Holding(clreq'[s]) \cap Holding(clreq'[u]) = {}
      BY <1>4, <2>3, <3>1, <3>3 DEF Fresh
    <3> QED BY <2>1, <3>2, <3>3 DEF Fresh
  <2> QED BY <2>2, <2>3
<1>7. ASSUME NEW c \in Home PROVE TellsOf(c)'
  BY DEF ClientInv, TellsOf
<1> QED BY <1>3, <1>5, <1>6, <1>7 DEF ClientInv

(* A transaction begins: it takes a free lock and draws a secret or none.  *)
LEMMA WriteBegins ==
  ASSUME ClientInv, NEW r \in Request, NEW q \in RowWrite \cup GoneWrite,
         clreq' = [clreq EXCEPT ![r] = q], UNCHANGED <<client, ctold, cshown>>,
         crlock[q.client] = None, crlock' = [crlock EXCEPT ![q.client] = r],
         {q.secret} \ {None} \subseteq Thing \ cdrawn,
         cdrawn' = cdrawn \cup ({q.secret} \ {None}),
         q.action = "registered" => client[q.client] = None,
         q.action = "updated" => /\ client[q.client] \in K!Row
                                 /\ q.row.secret = client[q.client].secret,
         q.action = "rotated" => client[q.client] \in K!Row /\ client[q.client].secret # None,
         q.action \in {"registered", "rotated"} => q.row.secret = q.secret,
         q.action = "rotated" => q.secret # None
  PROVE  ClientInv'
<1>1. ClientTypes
  BY DEF ClientInv
<1>2. q \in ClientReq /\ q.at = "write" /\ q.client \in Home
  BY DEF ClientReq, RowWrite, GoneWrite
<1>3. crlock' \in [Home -> Request \cup {None}] /\ crlock'[q.client] = r
  BY <1>1, <1>2 DEF ClientTypes
<1>4. \A c \in Home : crlock[c] \in Request \ {r} => crlock'[c] = crlock[c]
  <2>1. \A c \in Home : c # q.client => crlock'[c] = crlock[c]
    BY <1>1, <1>2 DEF ClientTypes
  <2>2. None \notin Request
    BY IdentityAssumption
  <2> QED BY <2>1, <2>2
<1>5. Writing(r, q)'
  BY <1>3 DEF Writing
<1>6. Asking(q)'
  BY <1>2 DEF Asking
<1>7. Holding(q) = {q.secret} \ {None}
  BY <1>2 DEF Holding
<1>8. \A s \in Request : Holding(clreq[s]) \subseteq cdrawn \ cshown
  BY DEF ClientInv, Fresh
<1>9. cdrawn \subseteq Thing /\ cshown \subseteq cdrawn
  BY <1>1 DEF ClientTypes
<1>10. /\ cdrawn \subseteq cdrawn' /\ cdrawn' \subseteq Thing
       /\ cshown \subseteq cshown' /\ cshown' \subseteq cdrawn'
       /\ Holding(q) \subseteq cdrawn' \ cshown'
  BY <1>7, <1>9
<1>11. \A s \in Request : Holding(clreq[s]) \cap cshown' = {}
                          /\ Holding(clreq[s]) \cap Holding(q) = {}
  BY <1>7, <1>8
<1>12. UNCHANGED <<client, ctold>>
  OBVIOUS
<1> QED BY <1>2, <1>3, <1>4, <1>5, <1>6, <1>10, <1>11, <1>12, ClientMoves


LEMMA RegisterClientStep ==
  ASSUME ClientInv, NEW r \in Request, NEW c \in Home, NEW conf \in BOOLEAN,
         NEW machine \in BOOLEAN, K!RegisterClient(r, c, conf, machine)
  PROVE  ClientInv'
<1>1. PICK s \in K!NewSecret(conf) :
        /\ client[c] = None /\ crlock[c] = None
        /\ cdrawn' = cdrawn \cup ({s} \ {None})
        /\ crlock' = [crlock EXCEPT ![c] = r]
        /\ clreq' = [clreq EXCEPT ![r] = K!Write(c, [secret |-> s, machine |-> machine,
             uris |-> FALSE, reviewed |-> FALSE], "registered", s)]
        /\ UNCHANGED <<client, ctold, cshown>>
  BY DEF K!RegisterClient, K!Go
<1>2. PICK x : x = [secret |-> s, machine |-> machine, uris |-> FALSE, reviewed |-> FALSE]
  OBVIOUS
<1>3. PICK q : q = [at |-> "write", client |-> c, row |-> x, action |-> "registered",
                    secret |-> s]
  OBVIOUS
<1>4. s \in Thing \cup {None} /\ {s} \ {None} \subseteq Thing \ cdrawn
  BY DEF K!NewSecret
<1>5. x \in K!Row
  BY <1>2, <1>4 DEF K!Row
<1>6. q \in RowWrite \cup GoneWrite
  BY <1>3, <1>4, <1>5 DEF RowWrite
<1>7. clreq' = [clreq EXCEPT ![r] = q]
  BY <1>1, <1>2, <1>3 DEF K!Write
<1>8. q.client = c /\ q.action = "registered" /\ q.secret = s /\ q.row.secret = s
  BY <1>2, <1>3
<1> QED BY <1>1, <1>4, <1>6, <1>7, <1>8, WriteBegins

LEMMA LiveIsRow == ASSUME ClientTypes, NEW c \in Home PROVE K!Live(c) <=> client[c] \in K!Row
BY RowIsNotGone DEF ClientTypes, K!Live

LEMMA UpdateClientStep ==
  ASSUME ClientInv, NEW r \in Request, NEW c \in Home, NEW patch \in K!Patch,
         K!UpdateClient(r, c, patch)
  PROVE  ClientInv'
<1>1. PICK x : x = [client[c] EXCEPT !.machine = K!Coalesce(patch.machine, @),
                                     !.uris = K!Coalesce(patch.uris, @)]
  OBVIOUS
<1>2. PICK q : q = [at |-> "write", client |-> c, row |-> x, action |-> "updated",
                    secret |-> None]
  OBVIOUS
<1>3. /\ K!Live(c) /\ crlock[c] = None /\ crlock' = [crlock EXCEPT ![c] = r]
      /\ clreq' = [clreq EXCEPT ![r] = q] /\ UNCHANGED <<client, cdrawn, ctold, cshown>>
  BY <1>1, <1>2 DEF K!UpdateClient, K!RowFree, K!Go, K!Write
<1>4. client[c] \in K!Row
  BY <1>3, LiveIsRow DEF ClientInv
<1>5. PICK m, u : m = K!Coalesce(patch.machine, client[c].machine)
                  /\ u = K!Coalesce(patch.uris, client[c].uris)
  OBVIOUS
<1>6. m \in BOOLEAN /\ u \in BOOLEAN
  <2>1. client[c].machine \in BOOLEAN /\ client[c].uris \in BOOLEAN
    BY <1>4 DEF K!Row
  <2>2. patch.machine \in BOOLEAN \cup {None} /\ patch.uris \in BOOLEAN \cup {None}
    BY DEF K!Patch
  <2> QED BY <1>5, <2>1, <2>2 DEF K!Coalesce
<1>7. x = [secret |-> client[c].secret, machine |-> m, uris |-> u,
           reviewed |-> client[c].reviewed]
  BY <1>1, <1>4, <1>5 DEF K!Row
<1>8. x \in K!Row /\ x.secret = client[c].secret
  BY <1>4, <1>6, <1>7 DEF K!Row
<1>9. q \in RowWrite \cup GoneWrite
  BY <1>2, <1>8 DEF RowWrite
<1>10. /\ q.client = c /\ q.action = "updated" /\ q.secret = None
       /\ q.row.secret = client[c].secret
  BY <1>2, <1>8
<1>11. {q.secret} \ {None} = {}
  BY <1>10
<1> QED BY <1>3, <1>4, <1>9, <1>10, <1>11, WriteBegins

LEMMA DeleteClientStep ==
  ASSUME ClientInv, NEW r \in Request, NEW c \in Home, K!DeleteClient(r, c)
  PROVE  ClientInv'
<1>1. PICK q : q = [at |-> "write", client |-> c, row |-> K!Gone, action |-> "deleted",
                    secret |-> None]
  OBVIOUS
<1>2. /\ crlock[c] = None /\ crlock' = [crlock EXCEPT ![c] = r]
      /\ clreq' = [clreq EXCEPT ![r] = q] /\ UNCHANGED <<client, cdrawn, ctold, cshown>>
  BY <1>1 DEF K!DeleteClient, K!RowFree, K!Go, K!Write
<1>3. q \in RowWrite \cup GoneWrite
  BY <1>1 DEF GoneWrite
<1>4. q.client = c /\ q.action = "deleted" /\ q.secret = None
  BY <1>1
<1>5. {q.secret} \ {None} = {}
  BY <1>4
<1> QED BY <1>2, <1>3, <1>4, <1>5, WriteBegins

LEMMA RotateClientSecretStep ==
  ASSUME ClientInv, NEW r \in Request, NEW c \in Home, K!RotateClientSecret(r, c)
  PROVE  ClientInv'
<1>1. PICK s \in K!NewSecret(TRUE) :
        /\ K!Live(c) /\ crlock[c] = None /\ client[c].secret # None
        /\ cdrawn' = cdrawn \cup {s}
        /\ crlock' = [crlock EXCEPT ![c] = r]
        /\ clreq' = [clreq EXCEPT ![r] =
             K!Write(c, [client[c] EXCEPT !.secret = s], "rotated", s)]
        /\ UNCHANGED <<client, ctold, cshown>>
  BY DEF K!RotateClientSecret, K!RowFree, K!Go
<1>2. PICK x : x = [client[c] EXCEPT !.secret = s]
  OBVIOUS
<1>3. PICK q : q = [at |-> "write", client |-> c, row |-> x, action |-> "rotated",
                    secret |-> s]
  OBVIOUS
<1>4. client[c] \in K!Row
  BY <1>1, LiveIsRow DEF ClientInv
<1>5. s \in Thing \ cdrawn /\ s # None
  BY RowIsNotGone DEF K!NewSecret
<1>6. x = [secret |-> s, machine |-> client[c].machine, uris |-> client[c].uris,
           reviewed |-> client[c].reviewed]
  BY <1>2, <1>4 DEF K!Row
<1>7. x \in K!Row /\ x.secret = s
  BY <1>4, <1>5, <1>6 DEF K!Row
<1>8. q \in RowWrite \cup GoneWrite
  BY <1>3, <1>5, <1>7 DEF RowWrite
<1>9. clreq' = [clreq EXCEPT ![r] = q]
  BY <1>1, <1>2, <1>3 DEF K!Write
<1>10. q.client = c /\ q.action = "rotated" /\ q.secret = s /\ q.row.secret = s
  BY <1>3, <1>7
<1>11. {q.secret} \ {None} \subseteq Thing \ cdrawn /\ {q.secret} \ {None} = {s}
  BY <1>5, <1>10
<1> QED BY <1>1, <1>4, <1>5, <1>8, <1>9, <1>10, <1>11, WriteBegins

(* A handler lets go of what it had, and of its lock.                      *)
LEMMA ClientEnds ==
  ASSUME ClientInv, NEW r \in Request, clreq' = [clreq EXCEPT ![r] = K!Idle],
         UNCHANGED <<client, ctold, cdrawn>>, cshown \subseteq cshown',
         cshown' \subseteq cshown \cup Holding(clreq[r]),
         crlock' \in [Home -> Request \cup {None}],
         \A c \in Home : crlock[c] \in Request \ {r} => crlock'[c] = crlock[c]
  PROVE  ClientInv'
<1>1. K!Idle \in ClientReq /\ K!Idle.at = "idle"
  BY ClientIdle
<1>2. cdrawn \subseteq Thing /\ cshown \subseteq cdrawn
  BY DEF ClientInv, ClientTypes
<1>3. Holding(clreq[r]) \subseteq cdrawn
  BY DEF ClientInv, Fresh
<1>4. Holding(K!Idle) = {}
  BY <1>1 DEF Holding
<1>5. Writing(r, K!Idle)' /\ Asking(K!Idle)'
  BY <1>1 DEF Writing, Asking
<1>6. ASSUME NEW s \in Request, s # r PROVE Holding(clreq[s]) \cap cshown' = {}
  <2>1. Holding(clreq[s]) \cap cshown = {} /\ Holding(clreq[s]) \cap Holding(clreq[r]) = {}
    BY <1>6 DEF ClientInv, Fresh
  <2> QED BY <2>1
<1> QED BY <1>1, <1>2, <1>3, <1>4, <1>5, <1>6, ClientMoves

LEMMA ClientRollbackStep ==
  ASSUME ClientInv, NEW r \in Request, K!Rollback(r)
  PROVE  ClientInv'
<1>1. /\ clreq' = [clreq EXCEPT ![r] = K!Idle] /\ UNCHANGED <<client, ctold, cdrawn, cshown>>
      /\ crlock' = [c \in Home |-> IF crlock[c] = r THEN None ELSE crlock[c]]
  BY DEF K!Rollback, K!Go, K!Unlock
<1>2. /\ crlock' \in [Home -> Request \cup {None}]
      /\ \A c \in Home : crlock[c] \in Request \ {r} => crlock'[c] = crlock[c]
  BY <1>1 DEF ClientInv, ClientTypes
<1> QED BY <1>1, <1>2, ClientEnds

LEMMA ClientAnswerStep ==
  ASSUME ClientInv, NEW r \in Request, NEW arrives \in BOOLEAN, K!Answer(r, arrives)
  PROVE  ClientInv'
<1>1. /\ clreq[r].at = "answer" /\ clreq' = [clreq EXCEPT ![r] = K!Idle]
      /\ UNCHANGED <<client, ctold, cdrawn, crlock>>
      /\ cshown' = IF arrives THEN cshown \cup {clreq[r].secret} ELSE cshown
  BY DEF K!Answer, K!Go, K!At, K!rowVars
<1>2. clreq[r].secret \in Thing
  <2>1. clreq[r] \in AnswerReq
    BY <1>1, ClientReqAt DEF ClientInv, ClientTypes
  <2> QED BY <2>1 DEF AnswerReq
<1>3. Holding(clreq[r]) = {clreq[r].secret}
  BY <1>1, <1>2, RowIsNotGone DEF Holding
<1>4. cshown \subseteq cshown' /\ cshown' \subseteq cshown \cup Holding(clreq[r])
  BY <1>1, <1>3
<1>5. crlock' \in [Home -> Request \cup {None}]
  BY <1>1 DEF ClientInv, ClientTypes
<1> QED BY <1>1, <1>4, <1>5, ClientEnds

LEMMA ServeStep ==
  ASSUME ClientInv, NEW r \in Request, K!Serve(r)
  PROVE  ClientInv'
<1>1. /\ clreq' = [clreq EXCEPT ![r] = K!Idle]
      /\ UNCHANGED <<client, ctold, cdrawn, crlock, cshown>>
  BY DEF K!Serve, K!Go, K!rowVars
<1>2. crlock' \in [Home -> Request \cup {None}]
  BY <1>1 DEF ClientInv, ClientTypes
<1> QED BY <1>1, <1>2, ClientEnds


(* A request that arrives, or was let in.                                  *)
LEMMA AskMoves ==
  ASSUME ClientInv, NEW r \in Request, NEW q \in AskReq,
         clreq' = [clreq EXCEPT ![r] = q],
         UNCHANGED <<client, cdrawn, crlock, ctold, cshown>>, Asking(q)
  PROVE  ClientInv'
<1>1. ClientTypes
  BY DEF ClientInv
<1>2. q \in ClientReq /\ q.at \in {"asked", "let in"}
  BY DEF ClientReq, AskReq
<1>3. Holding(q) = {}
  BY <1>2 DEF Holding
<1>4. Writing(r, q)'
  BY <1>2 DEF Writing
<1>5. Asking(q)'
  BY DEF Asking, K!Accepts, K!Live
<1>6. \A s \in Request : Holding(clreq[s]) \cap cshown = {}
  BY DEF ClientInv, Fresh
<1> QED BY <1>1, <1>2, <1>3, <1>4, <1>5, <1>6, ClientMoves DEF ClientTypes

LEMMA AskStep ==
  ASSUME ClientInv, NEW r \in Request, NEW c \in Home, NEW s \in cshown \cup {None},
         K!Ask(r, c, s)
  PROVE  ClientInv'
<1>1. PICK out : out = ~K!Accepts(c, s)
  OBVIOUS
<1>2. PICK q : q = [at |-> "asked", client |-> c, secret |-> s, out |-> out]
  OBVIOUS
<1>3. /\ client[c] # None /\ clreq' = [clreq EXCEPT ![r] = q]
      /\ UNCHANGED <<client, cdrawn, crlock, ctold, cshown>>
  BY <1>1, <1>2 DEF K!Ask, K!Go, K!rowVars
<1>4. out \in BOOLEAN
  BY <1>1 DEF K!Accepts, K!Live
<1>5. s \in Thing \cup {None}
  BY DEF ClientInv, ClientTypes
<1>6. q \in AskReq
  BY <1>2, <1>4, <1>5 DEF AskReq
<1>7. Asking(q)
  BY <1>1, <1>2, <1>3 DEF Asking
<1> QED BY <1>3, <1>6, <1>7, AskMoves

LEMMA AuthenticateClientStep ==
  ASSUME ClientInv, NEW r \in Request, K!AuthenticateClient(r)
  PROVE  ClientInv'
<1>1. /\ clreq[r].at = "asked" /\ UNCHANGED <<client, cdrawn, crlock, ctold, cshown>>
      /\ clreq' = [clreq EXCEPT ![r] =
           IF K!Accepts(clreq[r].client, clreq[r].secret)
           THEN [clreq[r] EXCEPT !.at = "let in"] ELSE K!Idle]
  BY DEF K!AuthenticateClient, K!At, K!Go, K!rowVars
<1>2. CASE K!Accepts(clreq[r].client, clreq[r].secret)
  <2>1. PICK q : q = [clreq[r] EXCEPT !.at = "let in"]
    OBVIOUS
  <2>2. clreq[r] \in AskReq
    BY <1>1, ClientReqAt DEF ClientInv, ClientTypes
  <2>3. q = [at |-> "let in", client |-> clreq[r].client, secret |-> clreq[r].secret,
             out |-> clreq[r].out]
    BY <2>1, <2>2 DEF AskReq
  <2>4. q \in AskReq /\ q.at = "let in" /\ q.out = clreq[r].out
    BY <2>2, <2>3 DEF AskReq
  <2>5. ~clreq[r].out
    BY <1>1, <1>2 DEF ClientInv, Asking
  <2>6. Asking(q)
    BY <2>4, <2>5 DEF Asking
  <2>7. clreq' = [clreq EXCEPT ![r] = q]
    BY <1>1, <1>2, <2>1
  <2> QED BY <1>1, <2>4, <2>6, <2>7, AskMoves
<1>3. CASE ~K!Accepts(clreq[r].client, clreq[r].secret)
  <2>1. clreq' = [clreq EXCEPT ![r] = K!Idle]
    BY <1>1, <1>3
  <2>2. crlock' \in [Home -> Request \cup {None}]
    BY <1>1 DEF ClientInv, ClientTypes
  <2> QED BY <1>1, <2>1, <2>2, ClientEnds
<1> QED BY <1>2, <1>3

LEMMA ReviewClientStep ==
  ASSUME ClientInv, NEW c \in Home, K!ReviewClient(c)
  PROVE  ClientInv'
<1>1. PICK x : x = [client[c] EXCEPT !.reviewed = TRUE]
  OBVIOUS
<1>2. /\ K!Live(c) /\ client' = [client EXCEPT ![c] = x]
      /\ UNCHANGED <<cdrawn, crlock, ctold, cshown, clreq>>
  BY <1>1 DEF K!ReviewClient
<1>3. ClientTypes /\ client[c] \in K!Row
  BY <1>2, LiveIsRow DEF ClientInv
<1>4. x = [secret |-> client[c].secret, machine |-> client[c].machine, uris |-> client[c].uris,
           reviewed |-> TRUE]
  BY <1>1, <1>3 DEF K!Row
<1>5. x \in K!Row /\ x.secret = client[c].secret
  BY <1>3, <1>4 DEF K!Row
<1>6. ClientTypes'
  BY <1>2, <1>3, <1>5 DEF ClientTypes
<1>7. client'[c] = x /\ \A d \in Home : d # c => client'[d] = client[d]
  BY <1>2, <1>3 DEF ClientTypes
<1>8. \A d \in Home :
        /\ client[d] # None => client'[d] # None
        /\ client[d] = None => client'[d] = None
        /\ client[d] \in K!Row => client'[d] \in K!Row /\ client'[d].secret = client[d].secret
        /\ client'[d] \in K!Row <=> client[d] \in K!Row
        /\ client'[d] = K!Gone <=> client[d] = K!Gone
  BY <1>3, <1>5, <1>7, RowIsNotGone
<1>9. \A d \in Home, s \in Thing \cup {None} : K!Accepts(d, s)' <=> K!Accepts(d, s)
  <2>1. \A d \in Home : K!Live(d) <=> client[d] \in K!Row
    BY <1>3, LiveIsRow
  <2>2. \A d \in Home : K!Live(d)' <=> client'[d] \in K!Row
    BY <1>6, RowIsNotGone DEF ClientTypes, K!Live
  <2> QED BY <1>8, <2>1, <2>2 DEF K!Accepts
<1>10. ASSUME NEW s \in Request PROVE Writing(s, clreq[s])' /\ Asking(clreq[s])' /\ Fresh(s)'
  <2>1. Writing(s, clreq[s]) /\ Asking(clreq[s]) /\ Fresh(s) /\ clreq'[s] = clreq[s]
    BY <1>2 DEF ClientInv
  <2>2. CASE clreq[s].at = "write"
    <3>1. clreq[s] \in RowWrite \cup GoneWrite
      BY <1>3, <2>2, ClientReqAt DEF ClientTypes
    <3>2. clreq[s].client \in Home
      BY <3>1 DEF RowWrite, GoneWrite
    <3>3. Writing(s, clreq[s])'
      BY <1>2, <1>8, <2>1, <3>2 DEF Writing
    <3> QED BY <1>2, <2>1, <2>2, <3>3 DEF Asking, Fresh, Holding
  <2>3. CASE clreq[s].at \in {"asked", "let in"}
    <3>1. clreq[s] \in AskReq
      BY <1>3, <2>3, ClientReqAt DEF ClientTypes
    <3>2. clreq[s].client \in Home /\ clreq[s].secret \in Thing \cup {None}
      BY <3>1 DEF AskReq
    <3>3. Asking(clreq[s])'
      BY <1>2, <1>8, <1>9, <2>1, <3>2 DEF Asking
    <3> QED BY <1>2, <2>1, <2>3, <3>3 DEF Writing, Fresh, Holding
  <2>4. CASE clreq[s].at \notin {"write", "asked", "let in"}
    BY <1>2, <2>1, <2>4 DEF Writing, Asking, Fresh, Holding
  <2> QED BY <2>2, <2>3, <2>4
<1>11. ASSUME NEW d \in Home PROVE TellsOf(d)'
  BY <1>2, <1>8 DEF ClientInv, TellsOf
<1> QED BY <1>6, <1>10, <1>11 DEF ClientInv


LEMMA ClientCommitStep ==
  ASSUME ClientInv, NEW r \in Request, K!Commit(r)
  PROVE  ClientInv'
<1>1. PICK w, q : w = clreq[r] /\ q = IF w.secret = None THEN K!Idle
                                      ELSE [at |-> "answer", secret |-> w.secret]
  OBVIOUS
<1>2. /\ w.at = "write" /\ client' = [client EXCEPT ![w.client] = w.row]
      /\ ctold' = [ctold EXCEPT ![w.client] = w.action]
      /\ crlock' = [c \in Home |-> IF crlock[c] = r THEN None ELSE crlock[c]]
      /\ clreq' = [clreq EXCEPT ![r] = q] /\ UNCHANGED <<cdrawn, cshown>>
  BY <1>1 DEF K!Commit, K!At, K!Go, K!Unlock
<1>3. ClientTypes /\ TellsOf(w.client) /\ Writing(r, w) /\ Asking(w) /\ Fresh(r)
  <2>1. w \in RowWrite \cup GoneWrite
    BY <1>1, <1>2, ClientReqAt DEF ClientInv, ClientTypes
  <2>2. w.client \in Home
    BY <2>1 DEF RowWrite, GoneWrite
  <2> QED BY <1>1, <2>2 DEF ClientInv
<1>4. /\ w.client \in Home /\ w.secret \in Thing \cup {None}
      /\ \/ w.row \in K!Row /\ w.action \in {"registered", "updated", "rotated"}
         \/ w.row = K!Gone /\ w.action = "deleted"
  <2>1. w \in RowWrite \cup GoneWrite
    BY <1>1, <1>2, <1>3, ClientReqAt DEF ClientTypes
  <2> QED BY <2>1 DEF RowWrite, GoneWrite
<1>5. q \in ClientReq /\ q.at \in {"idle", "answer"} /\ Holding(q) \subseteq Holding(w)
  <2>1. CASE w.secret = None
    BY <1>1, <2>1, ClientIdle DEF Holding
  <2>2. CASE w.secret # None
    <3>1. q = [at |-> "answer", secret |-> w.secret]
      BY <1>1, <2>2
    <3>2. q \in AnswerReq /\ q.at = "answer" /\ q.secret = w.secret
      BY <1>4, <2>2, <3>1 DEF AnswerReq
    <3> QED BY <1>2, <3>2 DEF ClientReq, Holding
  <2> QED BY <2>1, <2>2
<1>6. /\ clreq'[r] = q /\ \A s \in Request : s # r => clreq'[s] = clreq[s]
      /\ client'[w.client] = w.row /\ \A c \in Home : c # w.client => client'[c] = client[c]
      /\ ctold'[w.client] = w.action /\ \A c \in Home : c # w.client => ctold'[c] = ctold[c]
  <2>1. clreq'[r] = q /\ \A s \in Request : s # r => clreq'[s] = clreq[s]
    BY <1>2, <1>3 DEF ClientTypes
  <2>2. client'[w.client] = w.row /\ \A c \in Home : c # w.client => client'[c] = client[c]
    BY <1>2, <1>3, <1>4 DEF ClientTypes
  <2>3. ctold'[w.client] = w.action /\ \A c \in Home : c # w.client => ctold'[c] = ctold[c]
    BY <1>2, <1>3, <1>4 DEF ClientTypes
  <2> QED BY <2>1, <2>2, <2>3
<1>7. ClientTypes'
  <2>1. client' \in [Home -> K!Row \cup {None, K!Gone}]
    BY <1>2, <1>3, <1>4 DEF ClientTypes
  <2>2. crlock' \in [Home -> Request \cup {None}]
    BY <1>2, <1>3 DEF ClientTypes
  <2>3. clreq' \in [Request -> ClientReq]
    BY <1>2, <1>3, <1>5 DEF ClientTypes
  <2>4. ctold' \in [Home -> {None, "registered", "updated", "rotated", "deleted"}]
    BY <1>2, <1>3, <1>4 DEF ClientTypes
  <2> QED BY <1>2, <1>3, <2>1, <2>2, <2>3, <2>4 DEF ClientTypes
<1>8. crlock[w.client] = r
  BY <1>2, <1>3 DEF Writing
<1>9. ASSUME NEW s \in Request PROVE Writing(s, clreq[s])'
  <2>1. CASE s = r \/ clreq[s].at # "write"
    BY <1>5, <1>6, <2>1 DEF Writing
  <2>2. CASE s # r /\ clreq[s].at = "write"
    <3>1. clreq[s] \in RowWrite \cup GoneWrite
      BY <1>3, <2>2, ClientReqAt DEF ClientTypes
    <3>2. clreq[s].client \in Home /\ Writing(s, clreq[s])
      BY <3>1 DEF RowWrite, GoneWrite, ClientInv
    <3>3. crlock[clreq[s].client] = s
      BY <2>2, <3>2 DEF Writing
    <3>4. clreq[s].client # w.client /\ crlock'[clreq[s].client] = s
      BY <1>2, <1>8, <2>2, <3>2, <3>3
    <3>5. client'[clreq[s].client] = client[clreq[s].client] /\ clreq'[s] = clreq[s]
      BY <1>6, <2>2, <3>2, <3>4
    <3> QED BY <3>2, <3>4, <3>5 DEF Writing
  <2> QED BY <2>1, <2>2
<1>10. ASSUME NEW s \in Request PROVE Asking(clreq[s])'
  <2>1. CASE s = r
    BY <1>5, <1>6, <2>1 DEF Asking
  <2>2. CASE s # r /\ clreq[s].at # "asked"
    BY <1>6, <2>2 DEF ClientInv, Asking
  <2>3. CASE s # r /\ clreq[s].at = "asked"
    <3>1. PICK y : y = clreq[s]
      OBVIOUS
    <3>2. y \in AskReq
      BY <1>3, <2>3, <3>1, ClientReqAt DEF ClientTypes
    <3>3. y.client \in Home /\ y.secret \in Thing \cup {None}
      BY <3>2 DEF AskReq
    <3>4. /\ client[y.client] # None /\ y.secret \in cshown \cup {None}
          /\ y.out => ~K!Accepts(y.client, y.secret)
      BY <2>3, <3>1 DEF ClientInv, Asking
    <3>5. CASE y.client # w.client
      <4>1. client'[y.client] = client[y.client]
        BY <1>6, <3>3, <3>5
      <4> QED BY <1>2, <1>6, <2>3, <3>1, <3>4, <4>1 DEF Asking, K!Accepts, K!Live
    <3>6. CASE y.client = w.client
      <4>1. client'[y.client] = w.row /\ w.row # None
        BY <1>4, <1>6, <3>6, RowIsNotGone
      <4>2. ASSUME y.out PROVE ~K!Accepts(y.client, y.secret)'
        <5>1. CASE w.row = K!Gone
          BY <4>1, <5>1 DEF K!Accepts, K!Live
        <5>2. CASE w.row \in K!Row
          <6>1. w.action \in {"updated", "rotated"}
            BY <1>2, <1>3, <1>4, <3>4, <3>6, <5>2, RowIsNotGone DEF Writing
          <6>2. client[y.client] \in K!Row
            BY <1>2, <1>3, <3>6, <6>1 DEF Writing
          <6>3. client[y.client].secret # None /\ client[y.client].secret # y.secret
            BY <3>4, <4>2, <6>2, RowIsNotGone DEF K!Accepts, K!Live
          <6>4. CASE w.action = "updated"
            <7>1. w.row.secret = client[y.client].secret
              BY <1>2, <1>3, <3>6, <6>4 DEF Writing
            <7> QED BY <4>1, <6>3, <7>1 DEF K!Accepts
          <6>5. CASE w.action = "rotated"
            <7>1. w.row.secret = w.secret /\ w.secret # None
              BY <1>2, <1>3, <6>5 DEF Writing
            <7>2. w.secret \notin cshown
              BY <1>1, <1>2, <1>3, <7>1 DEF Fresh, Holding
            <7> QED BY <3>4, <4>1, <7>1, <7>2 DEF K!Accepts
          <6> QED BY <6>1, <6>4, <6>5
        <5> QED BY <1>4, <5>1, <5>2
      <4> QED BY <1>2, <1>6, <2>3, <3>1, <3>4, <4>1, <4>2 DEF Asking
    <3> QED BY <3>5, <3>6
  <2> QED BY <2>1, <2>2, <2>3
<1>11. ASSUME NEW s \in Request PROVE Fresh(s)'
  <2>1. \A u \in Request : Holding(clreq[u])' = Holding(clreq'[u])
    BY DEF Holding
  <2>2. \A u \in Request : Holding(clreq'[u]) \subseteq Holding(clreq[u])
    BY <1>1, <1>5, <1>6
  <2>3. Fresh(s)
    BY DEF ClientInv
  <2> QED BY <1>2, <2>1, <2>2, <2>3 DEF Fresh
<1>12. ASSUME NEW c \in Home PROVE TellsOf(c)'
  <2>1. CASE c = w.client
    BY <1>4, <1>6, <2>1, RowIsNotGone, IdentityAssumption DEF TellsOf
  <2>2. CASE c # w.client
    BY <1>6, <2>2 DEF ClientInv, TellsOf
  <2> QED BY <2>1, <2>2
<1> QED BY <1>7, <1>9, <1>10, <1>11, <1>12 DEF ClientInv

LEMMA ClientInitInv == K!ClientsInit => ClientInv
<1> SUFFICES ASSUME K!ClientsInit PROVE ClientInv
  OBVIOUS
<1>1. /\ client = [c \in Home |-> None] /\ ctold = [c \in Home |-> None]
      /\ crlock = [c \in Home |-> None] /\ cdrawn = {} /\ cshown = {}
      /\ clreq = [r \in Request |-> K!Idle]
  BY DEF K!ClientsInit
<1>2. ClientTypes
  BY <1>1, ClientIdle DEF ClientTypes
<1>3. \A r \in Request : clreq[r].at = "idle"
  BY <1>1, ClientIdle
<1>4. \A r \in Request : Writing(r, clreq[r]) /\ Asking(clreq[r]) /\ Fresh(r)
  BY <1>3 DEF Writing, Asking, Fresh, Holding
<1>5. \A c \in Home : TellsOf(c)
  BY <1>1, RowIsNotGone, IdentityAssumption DEF TellsOf
<1> QED BY <1>2, <1>4, <1>5 DEF ClientInv

LEMMA ClientStep == ClientInv /\ (K!ClientsNext \/ UNCHANGED clientVars) => ClientInv'
<1> SUFFICES ASSUME ClientInv, K!ClientsNext \/ UNCHANGED clientVars PROVE ClientInv'
  OBVIOUS
<1>1. CASE UNCHANGED clientVars
  BY <1>1 DEF clientVars, ClientInv, ClientTypes, Writing, Asking, Fresh, Holding, TellsOf,
     K!Accepts, K!Live
<1>2. CASE K!ClientsNext
  BY <1>2, RegisterClientStep, UpdateClientStep, DeleteClientStep, RotateClientSecretStep,
     ClientCommitStep, ClientRollbackStep, ClientAnswerStep, ReviewClientStep, AskStep,
     AuthenticateClientStep, ServeStep
  DEF K!ClientsNext
<1> QED BY <1>1, <1>2

LEMMA ClientSafe == ClientInv => K!WithdrawnIsOut /\ K!AuditTellsTheState
<1> SUFFICES ASSUME ClientInv PROVE K!WithdrawnIsOut /\ K!AuditTellsTheState
  OBVIOUS
<1>1. K!WithdrawnIsOut
  BY DEF ClientInv, Asking, K!WithdrawnIsOut, K!At
<1>2. ASSUME NEW c \in Home
      PROVE  /\ K!Live(c) <=> ctold[c] \notin {None, "deleted"}
             /\ client[c] = K!Gone <=> ctold[c] = "deleted"
  BY <1>2, RowIsNotGone, IdentityAssumption DEF ClientInv, ClientTypes, TellsOf, K!Live
<1> QED BY <1>1, <1>2 DEF K!AuditTellsTheState

-----------------------------------------------------------------------------
(* SsoAdmin: a row under change has one writer, so what its transaction    *)
(* was started for still holds when it ends.  The tenant and the           *)
(* capabilities of a link, and the tenant of a provider's id, never change.*)
SsoTenant == Home \cup Domain
SsoBy == [link : Link, tenant : SsoTenant] \cup {None}
PortalReq == [at : {"portal"}, cap : S!Capability, link : Link, tenant : SsoTenant]
SsoReq == [at : {"sso"}, id : Provider, tenant : SsoTenant]
ConnTx == [at : {"tx"}, kind : {"conn"}, id : Conn, new : S!Row \cup {None},
           tells : S!Record, by : SsoBy]
ProviderTx == [at : {"tx"}, kind : {"provider"}, id : Provider, new : S!Row \cup {None},
               tells : S!Record, by : {None}]
LinkTx == [at : {"tx"}, kind : {"link"}, id : Link, new : S!LinkRow,
           tells : S!Record, by : {None}]
TokenTx == [at : {"tx"}, kind : {"token"}, id : Home, new : {"set", None},
            tells : S!Record, by : SsoBy]
Tx == ConnTx \cup ProviderTx \cup LinkTx \cup TokenTx
AnySsoReq == {S!Idle} \cup PortalReq \cup SsoReq \cup Tx

SsoTold ==
  [conn : [Conn -> S!Record \cup {None}],
   provider : [Provider -> S!Record \cup {None}],
   link : [Link -> S!Record \cup {None}],
   token : [Home -> S!Record \cup {None}]]

SsoTypes ==
  /\ conn \in [Conn -> S!Row \cup {None}]
  /\ provider \in [Provider -> S!Row \cup {None}]
  /\ slink \in [Link -> S!LinkRow \cup {None}]
  /\ token \in [Home -> {None, "set"}]
  /\ stold \in SsoTold
  /\ sreq \in [Request -> AnySsoReq]
  /\ asserted \subseteq [user : Subject, to : Provider]

SsoTells ==
  /\ \A c \in Conn : S!Agrees("conn", stold.conn[c], conn[c])
  /\ \A p \in Provider : S!Agrees("provider", stold.provider[p], provider[p])
  /\ \A l \in Link : S!Agrees("link", stold.link[l], slink[l])
  /\ \A t \in Home : S!Agrees("token", stold.token[t], token[t])

(* What a transaction will tell agrees with what it will write.            *)
Announces(q) == q.at = "tx" => S!Agrees(q.kind, q.tells, q.new)

Allows(l, cap, t) == slink[l] # None /\ cap \in slink[l].caps /\ slink[l].tenant = t

(* Provider p is one of tenant t, or was, and is nobody else's.            *)
BelongsTo(p, t) ==
  stold.provider[p] # None /\ (provider[p] # None => provider[p].tenant = t)

Delegated(q) ==
  /\ q.at = "portal" => Allows(q.link, q.cap, q.tenant)
  /\ q.at = "sso" => BelongsTo(q.id, q.tenant)
  /\ q.at = "tx" /\ q.kind = "conn" /\ q.by # None =>
       /\ Allows(q.by.link, "saml", q.by.tenant)
       /\ q.new # None => q.new.tenant = q.by.tenant
       /\ conn[q.id] # None => conn[q.id].tenant = q.by.tenant
  /\ q.at = "tx" /\ q.kind = "token" /\ q.by # None =>
       Allows(q.by.link, "scim", q.by.tenant) /\ q.id = q.by.tenant
  /\ q.at = "tx" /\ q.kind = "link" /\ slink[q.id] # None =>
       q.new.caps = slink[q.id].caps /\ q.new.tenant = slink[q.id].tenant
  /\ q.at = "tx" /\ q.kind = "provider" /\ stold.provider[q.id] # None /\ q.new # None =>
       provider[q.id] # None /\ q.new.tenant = provider[q.id].tenant

SameRow(q, w) == q.at = "tx" /\ w.at = "tx" /\ q.kind = w.kind /\ q.id = w.id

SsoInv ==
  /\ SsoTypes /\ SsoTells
  /\ \A r \in Request : Delegated(sreq[r]) /\ Announces(sreq[r])
  /\ \A r, s \in Request : r # s => ~SameRow(sreq[r], sreq[s])
  /\ \A a \in asserted : BelongsTo(a.to, SubjectOf[a.user])

LEMMA SsoIdle == S!Idle \in AnySsoReq /\ S!Idle.at = "idle"
BY DEF AnySsoReq, S!Idle

LEMMA SsoReqAt ==
  ASSUME NEW q \in AnySsoReq
  PROVE  /\ q.at = "portal" => q \in PortalReq
         /\ q.at = "sso" => q \in SsoReq
         /\ q.at = "tx" => /\ q.kind \in S!Kinds
                           /\ q.kind = "conn" => q \in ConnTx
                           /\ q.kind = "provider" => q \in ProviderTx
                           /\ q.kind = "link" => q \in LinkTx
                           /\ q.kind = "token" => q \in TokenTx
<1>1. CASE q = S!Idle
  BY <1>1, SsoIdle
<1>2. CASE q \in PortalReq
  BY <1>2 DEF PortalReq
<1>3. CASE q \in SsoReq
  BY <1>3 DEF SsoReq
<1>4. CASE q \in ConnTx
  BY <1>4 DEF ConnTx, S!Kinds
<1>5. CASE q \in ProviderTx
  BY <1>5 DEF ProviderTx, S!Kinds
<1>6. CASE q \in LinkTx
  BY <1>6 DEF LinkTx, S!Kinds
<1>7. CASE q \in TokenTx
  BY <1>7 DEF TokenTx, S!Kinds
<1> QED BY <1>1, <1>2, <1>3, <1>4, <1>5, <1>6, <1>7 DEF AnySsoReq, Tx

(* A step of one handler that leaves the rows and the records alone.       *)
LEMMA SsoMoves ==
  ASSUME SsoInv, NEW r \in Request, NEW q \in AnySsoReq,
         sreq' = [sreq EXCEPT ![r] = q],
         UNCHANGED <<conn, provider, slink, token, stold>>, Delegated(q), Announces(q),
         \A s \in Request : s # r => ~SameRow(sreq[s], q),
         asserted' \subseteq [user : Subject, to : Provider],
         \A a \in asserted' : a \in asserted \/ BelongsTo(a.to, SubjectOf[a.user])
  PROVE  SsoInv'
<1>1. SsoTypes
  BY DEF SsoInv
<1>2. sreq' \in [Request -> AnySsoReq]
  BY <1>1 DEF SsoTypes
<1>3. SsoTypes'
  BY <1>1, <1>2 DEF SsoTypes
<1>4. sreq'[r] = q /\ \A s \in Request : s # r => sreq'[s] = sreq[s]
  BY <1>1 DEF SsoTypes
<1>5. SsoTells'
  BY DEF SsoInv, SsoTells, S!Agrees, S!Withdrawn
<1>6. ASSUME NEW s \in Request PROVE Delegated(sreq[s])' /\ Announces(sreq[s])'
  <2>1. Delegated(sreq'[s]) /\ Announces(sreq'[s])
    BY <1>4 DEF SsoInv
  <2> QED BY <2>1 DEF Delegated, Allows, BelongsTo, Announces, S!Agrees, S!Withdrawn
<1>7. ASSUME NEW s \in Request, NEW u \in Request, s # u PROVE ~SameRow(sreq'[s], sreq'[u])
  <2>1. CASE s = r
    BY <1>4, <1>7, <2>1 DEF SameRow
  <2>2. CASE u = r
    BY <1>4, <1>7, <2>2
  <2>3. CASE s # r /\ u # r
    BY <1>4, <1>7, <2>3 DEF SsoInv
  <2> QED BY <2>1, <2>2, <2>3
<1>8. \A s, u \in Request : s # u => ~SameRow(sreq[s], sreq[u])'
  BY <1>7 DEF SameRow
<1>9. ASSUME NEW a \in asserted' PROVE BelongsTo(a.to, SubjectOf[a.user])'
  BY <1>9 DEF SsoInv, BelongsTo
<1> QED BY <1>3, <1>5, <1>6, <1>8, <1>9 DEF SsoInv

(* ... that keeps what has been asserted.                                  *)
LEMMA SsoSteps ==
  ASSUME SsoInv, NEW r \in Request, NEW q \in AnySsoReq,
         sreq' = [sreq EXCEPT ![r] = q],
         UNCHANGED <<conn, provider, slink, token, stold, asserted>>,
         Delegated(q), Announces(q),
         \A s \in Request : s # r => ~SameRow(sreq[s], q)
  PROVE  SsoInv'
BY SsoMoves DEF SsoInv, SsoTypes

LEMMA StatementStep ==
  ASSUME SsoInv, NEW r \in Request, NEW k, NEW x, NEW v, NEW y, NEW by, NEW q \in Tx,
         S!Statement(r, k, x, v, y, by),
         q = [at |-> "tx", kind |-> k, id |-> x, new |-> v, tells |-> y, by |-> by],
         Delegated(q), S!Agrees(k, y, v)
  PROVE  SsoInv'
<1>1. /\ S!RowFree(k, x) /\ sreq' = [sreq EXCEPT ![r] = q]
      /\ UNCHANGED <<conn, provider, slink, token, stold, asserted>>
  BY DEF S!Statement, S!Becomes, S!rows
<1>2. q.kind = k /\ q.id = x
  OBVIOUS
<1>3. \A s \in Request : ~SameRow(sreq[s], q)
  BY <1>1, <1>2 DEF S!RowFree, SameRow
<1>4. q \in AnySsoReq /\ Announces(q)
  BY DEF AnySsoReq, Announces
<1> QED BY <1>1, <1>3, <1>4, SsoSteps


LEMMA NoneIsNoRow ==
  /\ None \notin S!Row \cup S!LinkRow \cup S!Record \cup {"set"}
BY IdentityAssumption

(* The records of the four kinds of statement.                             *)
LEMMA Records ==
  ASSUME NEW t \in SsoTenant, NEW st \in {"active", "disabled"},
         NEW caps \in SUBSET S!Capability
  PROVE  /\ S!Created(t, caps) \in S!Record /\ S!Created(t, caps).action = "created"
         /\ S!Created(t, caps).tenant = t /\ S!Created(t, caps).caps = caps
         /\ S!Updated(t, st) \in S!Record /\ S!Updated(t, st).action = "updated"
         /\ S!Updated(t, st).tenant = t /\ S!Updated(t, st).status = st
         /\ S!Removed(t) \in S!Record /\ S!Removed(t).action = "deleted"
         /\ S!Removed(t).tenant = t
BY DEF S!Record, S!Created, S!Updated, S!Removed, SsoTenant

LEMMA GenerateLinkStep ==
  ASSUME SsoInv, NEW r \in Request, NEW t \in SsoTenant, NEW l \in Link,
         NEW caps \in SUBSET S!Capability, S!GenerateLink(r, t, l, caps)
  PROVE  SsoInv'
<1>1. PICK x : x = [tenant |-> t, caps |-> caps, revoked |-> FALSE]
  OBVIOUS
<1>2. PICK y \in S!Record :
        y = S!Created(t, caps) /\ y.action = "created" /\ y.tenant = t /\ y.caps = caps
  BY Records
<1>3. PICK q : q = [at |-> "tx", kind |-> "link", id |-> l, new |-> x, tells |-> y, by |-> None]
  OBVIOUS
<1>4. stold.link[l] = None /\ S!Statement(r, "link", l, x, y, None)
  BY <1>1, <1>2 DEF S!GenerateLink
<1>5. slink[l] = None
  BY <1>4 DEF SsoInv, SsoTells, S!Agrees
<1>6. x \in S!LinkRow /\ x # None
  <2>1. x \in S!LinkRow
    BY <1>1 DEF S!LinkRow, SsoTenant
  <2> QED BY <2>1, NoneIsNoRow
<1>7. q \in Tx
  BY <1>3, <1>6 DEF Tx, LinkTx
<1>8. Delegated(q) /\ S!Agrees("link", y, x)
  BY <1>1, <1>2, <1>3, <1>5, <1>6, NoneIsNoRow DEF Delegated, S!Agrees, S!Withdrawn
<1> QED BY <1>3, <1>4, <1>7, <1>8, StatementStep

LEMMA RevokeLinkStep ==
  ASSUME SsoInv, NEW r \in Request, NEW t \in SsoTenant, NEW l \in Link, S!RevokeLink(r, t, l)
  PROVE  SsoInv'
<1>1. PICK x : x = [slink[l] EXCEPT !.revoked = TRUE]
  OBVIOUS
<1>2. PICK y \in S!Record : y = S!Removed(t) /\ y.action = "deleted" /\ y.tenant = t
  BY Records
<1>3. PICK q : q = [at |-> "tx", kind |-> "link", id |-> l, new |-> x, tells |-> y, by |-> None]
  OBVIOUS
<1>4. slink[l] # None /\ slink[l].tenant = t /\ S!Statement(r, "link", l, x, y, None)
  BY <1>1, <1>2 DEF S!RevokeLink
<1>5. slink[l] \in S!LinkRow
  BY <1>4 DEF SsoInv, SsoTypes
<1>6. x = [tenant |-> slink[l].tenant, caps |-> slink[l].caps, revoked |-> TRUE]
  BY <1>1, <1>5 DEF S!LinkRow
<1>7. /\ x \in S!LinkRow /\ x.caps = slink[l].caps /\ x.tenant = slink[l].tenant
      /\ x # None /\ x.revoked
  <2>1. x \in S!LinkRow
    BY <1>5, <1>6 DEF S!LinkRow
  <2> QED BY <1>6, <2>1, NoneIsNoRow
<1>8. q \in Tx
  BY <1>3, <1>7 DEF Tx, LinkTx
<1>9. Delegated(q) /\ S!Agrees("link", y, x)
  BY <1>2, <1>3, <1>4, <1>7, NoneIsNoRow DEF Delegated, S!Agrees, S!Withdrawn
<1> QED BY <1>3, <1>4, <1>8, <1>9, StatementStep

(* By whom a connection or a token is changed: an administrator, or the    *)
(* holder of a link of its tenant.                                         *)
MayChange(by, cap, t) ==
  /\ by \in SsoBy
  /\ by # None => by.tenant = t /\ Allows(by.link, cap, t)

LEMMA ConnChanges ==
  ASSUME SsoInv, NEW r \in Request, NEW t \in SsoTenant, NEW c \in Conn, NEW by,
         NEW x \in S!Row \cup {None}, NEW y \in S!Record, MayChange(by, "saml", t),
         S!Statement(r, "conn", c, x, y, by), S!Agrees("conn", y, x),
         x # None => x.tenant = t, conn[c] # None => conn[c].tenant = t
  PROVE  SsoInv'
<1>1. PICK q : q = [at |-> "tx", kind |-> "conn", id |-> c, new |-> x, tells |-> y, by |-> by]
  OBVIOUS
<1>2. q \in Tx
  BY <1>1 DEF Tx, ConnTx, MayChange
<1>3. Delegated(q)
  BY <1>1 DEF Delegated, MayChange
<1> QED BY <1>1, <1>2, <1>3, StatementStep

LEMMA CreateConnectionStep ==
  ASSUME SsoInv, NEW r \in Request, NEW t \in SsoTenant, NEW c \in Conn,
         NEW st \in {"active", "disabled"}, NEW by, MayChange(by, "saml", t),
         S!CreateConnection(r, t, c, st, by)
  PROVE  SsoInv'
<1>1. PICK x : x = [tenant |-> t, status |-> st]
  OBVIOUS
<1>2. PICK y \in S!Record : y = S!Created(t, {}) /\ y.action = "created" /\ y.tenant = t
  BY Records
<1>3. stold.conn[c] = None /\ S!Statement(r, "conn", c, x, y, by)
  BY <1>1, <1>2 DEF S!CreateConnection
<1>4. conn[c] = None
  BY <1>3 DEF SsoInv, SsoTells, S!Agrees
<1>5. x \in S!Row /\ x.tenant = t /\ x # None
  BY <1>1, NoneIsNoRow DEF S!Row, SsoTenant
<1>6. S!Agrees("conn", y, x)
  BY <1>2, <1>5, NoneIsNoRow DEF S!Agrees, S!Withdrawn
<1> QED BY <1>3, <1>4, <1>5, <1>6, ConnChanges

LEMMA ConnUpdateStep ==
  ASSUME SsoInv, NEW r \in Request, NEW t \in SsoTenant, NEW c \in Conn,
         NEW st \in {"active", "disabled"}, NEW by, MayChange(by, "saml", t),
         S!UpdateConnection(r, t, c, st, by)
  PROVE  SsoInv'
<1>1. PICK x : x = [conn[c] EXCEPT !.status = st]
  OBVIOUS
<1>2. PICK y \in S!Record :
        y = S!Updated(t, st) /\ y.action = "updated" /\ y.tenant = t /\ y.status = st
  BY Records
<1>3. conn[c] # None /\ conn[c].tenant = t /\ S!Statement(r, "conn", c, x, y, by)
  BY <1>1, <1>2 DEF S!UpdateConnection, S!OfTenant
<1>4. conn[c] \in S!Row
  BY <1>3 DEF SsoInv, SsoTypes
<1>5. x = [tenant |-> t, status |-> st]
  BY <1>1, <1>3, <1>4 DEF S!Row
<1>6. x \in S!Row /\ x.tenant = t /\ x.status = st /\ x # None
  BY <1>5, NoneIsNoRow DEF S!Row, SsoTenant
<1>7. S!Agrees("conn", y, x)
  BY <1>2, <1>6, NoneIsNoRow DEF S!Agrees, S!Withdrawn
<1> QED BY <1>3, <1>6, <1>7, ConnChanges

LEMMA ConnDeleteStep ==
  ASSUME SsoInv, NEW r \in Request, NEW t \in SsoTenant, NEW c \in Conn, NEW by,
         MayChange(by, "saml", t), S!DeleteConnection(r, t, c, by)
  PROVE  SsoInv'
<1>1. PICK y \in S!Record : y = S!Removed(t) /\ y.action = "deleted"
  BY Records
<1>2. conn[c].tenant = t /\ S!Statement(r, "conn", c, None, y, by)
  BY <1>1 DEF S!DeleteConnection, S!OfTenant
<1>3. S!Agrees("conn", y, None)
  BY <1>1, NoneIsNoRow DEF S!Agrees, S!Withdrawn
<1> QED BY <1>2, <1>3, ConnChanges

LEMMA TokenChanges ==
  ASSUME SsoInv, NEW r \in Request, NEW t \in SsoTenant, NEW by, MayChange(by, "scim", t),
         S!RotateToken(r, t, by) \/ S!RevokeToken(r, t, by)
  PROVE  SsoInv'
<1>1. PICK y \in S!Record, z \in S!Record :
        /\ y = S!Created(t, {}) /\ y.action = "created"
        /\ z = S!Removed(t) /\ z.action = "deleted"
  BY Records
<1>2. S!Agrees("token", y, "set") /\ S!Agrees("token", z, None)
  BY <1>1, NoneIsNoRow DEF S!Agrees, S!Withdrawn
<1>3. PICK x \in {"set", None}, u \in S!Record :
        t \in Home /\ S!Statement(r, "token", t, x, u, by) /\ S!Agrees("token", u, x)
  BY <1>1, <1>2 DEF S!RotateToken, S!RevokeToken
<1>4. PICK q : q = [at |-> "tx", kind |-> "token", id |-> t, new |-> x, tells |-> u, by |-> by]
  OBVIOUS
<1>5. q \in Tx
  BY <1>3, <1>4 DEF Tx, TokenTx, MayChange
<1>6. Delegated(q)
  BY <1>4 DEF Delegated, MayChange
<1> QED BY <1>3, <1>4, <1>5, <1>6, StatementStep

LEMMA ProviderChanges ==
  ASSUME SsoInv, NEW r \in Request, NEW p \in Provider, NEW x \in S!Row \cup {None},
         NEW y \in S!Record, S!Statement(r, "provider", p, x, y, None),
         S!Agrees("provider", y, x),
         stold.provider[p] # None /\ x # None =>
           provider[p] # None /\ x.tenant = provider[p].tenant
  PROVE  SsoInv'
<1>1. PICK q : q = [at |-> "tx", kind |-> "provider", id |-> p, new |-> x, tells |-> y,
                    by |-> None]
  OBVIOUS
<1>2. q \in Tx
  BY <1>1 DEF Tx, ProviderTx
<1>3. Delegated(q)
  BY <1>1 DEF Delegated
<1> QED BY <1>1, <1>2, <1>3, StatementStep

LEMMA ProviderSteps ==
  ASSUME SsoInv, NEW r \in Request, NEW t \in SsoTenant, NEW p \in Provider,
         \/ S!DeleteSP(r, t, p)
         \/ \E st \in {"active", "disabled"} : S!CreateSP(r, t, p, st) \/ S!UpdateSP(r, t, p, st)
  PROVE  SsoInv'
<1>1. CASE S!DeleteSP(r, t, p)
  <2>1. PICK y \in S!Record : y = S!Removed(t) /\ y.action = "deleted"
    BY Records
  <2>2. S!Statement(r, "provider", p, None, y, None)
    BY <1>1, <2>1 DEF S!DeleteSP
  <2>3. S!Agrees("provider", y, None)
    BY <2>1, NoneIsNoRow DEF S!Agrees, S!Withdrawn
  <2> QED BY <2>2, <2>3, ProviderChanges
<1>2. ASSUME NEW st \in {"active", "disabled"}, S!CreateSP(r, t, p, st) PROVE SsoInv'
  <2>1. PICK x : x = [tenant |-> t, status |-> st]
    OBVIOUS
  <2>2. PICK y \in S!Record : y = S!Created(t, {}) /\ y.action = "created" /\ y.tenant = t
    BY Records
  <2>3. stold.provider[p] = None /\ S!Statement(r, "provider", p, x, y, None)
    BY <1>2, <2>1, <2>2 DEF S!CreateSP, S!InsertSamlSP
  <2>4. x \in S!Row /\ x.tenant = t /\ x # None
    BY <2>1, NoneIsNoRow DEF S!Row, SsoTenant
  <2>5. S!Agrees("provider", y, x)
    BY <2>2, <2>4, NoneIsNoRow DEF S!Agrees, S!Withdrawn
  <2> QED BY <2>3, <2>4, <2>5, ProviderChanges
<1>3. ASSUME NEW st \in {"active", "disabled"}, S!UpdateSP(r, t, p, st) PROVE SsoInv'
  <2>1. PICK x : x = [provider[p] EXCEPT !.status = st]
    OBVIOUS
  <2>2. PICK y \in S!Record :
          y = S!Updated(t, st) /\ y.action = "updated" /\ y.tenant = t /\ y.status = st
    BY Records
  <2>3. /\ provider[p] # None /\ provider[p].tenant = t
        /\ S!Statement(r, "provider", p, x, y, None)
    BY <1>3, <2>1, <2>2 DEF S!UpdateSP, S!UpdateSamlSP, S!OfTenant
  <2>4. provider[p] \in S!Row
    BY <2>3 DEF SsoInv, SsoTypes
  <2>5. x = [tenant |-> t, status |-> st]
    BY <2>1, <2>3, <2>4 DEF S!Row
  <2>6. x \in S!Row /\ x.tenant = t /\ x.status = st /\ x # None
    BY <2>5, NoneIsNoRow DEF S!Row, SsoTenant
  <2>7. S!Agrees("provider", y, x)
    BY <2>2, <2>6, NoneIsNoRow DEF S!Agrees, S!Withdrawn
  <2> QED BY <2>3, <2>6, <2>7, ProviderChanges
<1> QED BY <1>1, <1>2, <1>3


(* A transaction ends: what others were started for stays as it is.        *)
LEMMA SsoEnds ==
  ASSUME SsoInv, NEW r \in Request, sreq' = [sreq EXCEPT ![r] = S!Idle],
         SsoTypes', SsoTells', asserted' = asserted,
         \A l \in Link : slink[l] # None => /\ slink'[l] # None
                                            /\ slink'[l].caps = slink[l].caps
                                            /\ slink'[l].tenant = slink[l].tenant,
         \A p \in Provider : \A t : BelongsTo(p, t) => BelongsTo(p, t)',
         \A s \in Request : s # r /\ sreq[s].at = "tx" =>
           /\ sreq[s].kind = "conn" => conn'[sreq[s].id] = conn[sreq[s].id]
           /\ sreq[s].kind = "link" => slink'[sreq[s].id] = slink[sreq[s].id]
           /\ sreq[s].kind = "provider" =>
                /\ provider'[sreq[s].id] = provider[sreq[s].id]
                /\ stold'.provider[sreq[s].id] = stold.provider[sreq[s].id]
  PROVE  SsoInv'
<1>1. SsoTypes
  BY DEF SsoInv
<1>2. sreq'[r] = S!Idle /\ \A s \in Request : s # r => sreq'[s] = sreq[s]
  BY <1>1 DEF SsoTypes
<1>3. \A l \in Link : \A cap, t : Allows(l, cap, t) => Allows(l, cap, t)'
  BY DEF Allows
<1>4. ASSUME NEW s \in Request PROVE Delegated(sreq[s])'
  <2>1. CASE s = r
    BY <1>2, <2>1, SsoIdle DEF Delegated
  <2>2. CASE s # r
    <3>1. PICK q \in AnySsoReq : q = sreq[s] /\ q = sreq'[s]
      BY <1>1, <1>2, <2>2 DEF SsoTypes
    <3>2. Delegated(q)
      BY <3>1 DEF SsoInv
    <3>3. q.at = "portal" => Allows(q.link, q.cap, q.tenant)'
      <4> SUFFICES ASSUME q.at = "portal" PROVE Allows(q.link, q.cap, q.tenant)'
        OBVIOUS
      <4>1. q \in PortalReq
        BY SsoReqAt
      <4>2. q.link \in Link
        BY <4>1 DEF PortalReq
      <4> QED BY <1>3, <3>2, <4>2 DEF Delegated
    <3>4. q.at = "sso" => BelongsTo(q.id, q.tenant)'
      <4> SUFFICES ASSUME q.at = "sso" PROVE BelongsTo(q.id, q.tenant)'
        OBVIOUS
      <4>1. q \in SsoReq
        BY SsoReqAt
      <4>2. q.id \in Provider
        BY <4>1 DEF SsoReq
      <4> QED BY <3>2, <4>2 DEF Delegated
    <3>5. q.at = "tx" /\ q.by # None /\ q.kind \in {"conn", "token"} => q.by.link \in Link
      <4> SUFFICES ASSUME q.at = "tx", q.by # None, q.kind \in {"conn", "token"}
                   PROVE  q.by.link \in Link
        OBVIOUS
      <4>1. q \in ConnTx \cup TokenTx
        BY SsoReqAt
      <4>2. q.by \in SsoBy
        BY <4>1 DEF ConnTx, TokenTx
      <4> QED BY <4>2 DEF SsoBy
    <3>6. q.at = "tx" /\ q.kind = "conn" => conn'[q.id] = conn[q.id]
      BY <2>2, <3>1
    <3>7. q.at = "tx" /\ q.kind = "link" => slink'[q.id] = slink[q.id]
      BY <2>2, <3>1
    <3>8. q.at = "tx" /\ q.kind = "provider" =>
            provider'[q.id] = provider[q.id] /\ stold'.provider[q.id] = stold.provider[q.id]
      BY <2>2, <3>1
    <3>9. /\ q.at = "tx" /\ q.kind = "conn" /\ q.by # None =>
               /\ Allows(q.by.link, "saml", q.by.tenant)'
               /\ q.new # None => q.new.tenant = q.by.tenant
               /\ conn'[q.id] # None => conn'[q.id].tenant = q.by.tenant
          /\ q.at = "tx" /\ q.kind = "token" /\ q.by # None =>
               Allows(q.by.link, "scim", q.by.tenant)' /\ q.id = q.by.tenant
      BY <1>3, <3>2, <3>5, <3>6 DEF Delegated
    <3>10. /\ q.at = "tx" /\ q.kind = "link" /\ slink'[q.id] # None =>
                q.new.caps = slink'[q.id].caps /\ q.new.tenant = slink'[q.id].tenant
           /\ q.at = "tx" /\ q.kind = "provider" /\ stold'.provider[q.id] # None
              /\ q.new # None =>
                provider'[q.id] # None /\ q.new.tenant = provider'[q.id].tenant
      BY <3>2, <3>7, <3>8 DEF Delegated
    <3> QED BY <3>1, <3>3, <3>4, <3>9, <3>10 DEF Delegated
  <2> QED BY <2>1, <2>2
<1>7. ASSUME NEW s \in Request PROVE Announces(sreq[s])'
  <2>1. CASE s = r
    BY <1>2, <2>1, SsoIdle DEF Announces
  <2>2. CASE s # r
    <3>1. Announces(sreq'[s])
      BY <1>2, <2>2 DEF SsoInv
    <3> QED BY <3>1 DEF Announces, S!Agrees, S!Withdrawn
  <2> QED BY <2>1, <2>2
<1>5. ASSUME NEW s \in Request, NEW u \in Request, s # u PROVE ~SameRow(sreq[s], sreq[u])'
  <2>1. CASE s = r \/ u = r
    BY <1>2, <2>1, SsoIdle DEF SameRow
  <2>2. CASE s # r /\ u # r
    BY <1>2, <1>5, <2>2 DEF SsoInv, SameRow
  <2> QED BY <2>1, <2>2
<1>6. ASSUME NEW a \in asserted PROVE BelongsTo(a.to, SubjectOf[a.user])'
  <2>1. a.to \in Provider /\ BelongsTo(a.to, SubjectOf[a.user])
    BY <1>1, <1>6 DEF SsoInv, SsoTypes
  <2> QED BY <2>1
<1> QED BY <1>4, <1>5, <1>6, <1>7 DEF SsoInv

LEMMA SsoCommits ==
  ASSUME SsoInv, NEW r \in Request, S!RecordAudit(r), NEW q \in Tx, q = sreq[r]
  PROVE  /\ sreq' = [sreq EXCEPT ![r] = S!Idle] /\ asserted' = asserted
         /\ q.kind = "conn" =>
              /\ conn' = [conn EXCEPT ![q.id] = q.new] /\ UNCHANGED <<provider, slink, token>>
              /\ stold' = [conn |-> [stold.conn EXCEPT ![q.id] = q.tells],
                   provider |-> stold.provider, link |-> stold.link, token |-> stold.token]
         /\ q.kind = "provider" =>
              /\ provider' = [provider EXCEPT ![q.id] = q.new]
              /\ UNCHANGED <<conn, slink, token>>
              /\ stold' = [conn |-> stold.conn,
                   provider |-> [stold.provider EXCEPT ![q.id] = q.tells],
                   link |-> stold.link, token |-> stold.token]
         /\ q.kind = "link" =>
              /\ slink' = [slink EXCEPT ![q.id] = q.new] /\ UNCHANGED <<conn, provider, token>>
              /\ stold' = [conn |-> stold.conn, provider |-> stold.provider,
                   link |-> [stold.link EXCEPT ![q.id] = q.tells],
                   token |-> stold.token]
         /\ q.kind = "token" =>
              /\ token' = [token EXCEPT ![q.id] = q.new] /\ UNCHANGED <<conn, provider, slink>>
              /\ stold' = [conn |-> stold.conn, provider |-> stold.provider,
                   link |-> stold.link,
                   token |-> [stold.token EXCEPT ![q.id] = q.tells]]
<1>1. stold = [conn |-> stold.conn, provider |-> stold.provider, link |-> stold.link,
               token |-> stold.token]
  BY DEF SsoInv, SsoTypes, SsoTold
<1>2. /\ S!Write(q.kind, q.id, q.new) /\ sreq' = [sreq EXCEPT ![r] = S!Idle]
      /\ asserted' = asserted
      /\ stold' = [stold EXCEPT ![q.kind] = [stold[q.kind] EXCEPT ![q.id] = q.tells]]
  BY DEF S!RecordAudit, S!Becomes
<1>3. CASE q.kind = "conn"
  BY <1>1, <1>2, <1>3 DEF S!Write
<1>4. CASE q.kind = "provider"
  BY <1>1, <1>2, <1>4 DEF S!Write
<1>5. CASE q.kind = "link"
  BY <1>1, <1>2, <1>5 DEF S!Write
<1>6. CASE q.kind = "token"
  BY <1>1, <1>2, <1>6 DEF S!Write
<1>7. q.kind \in {"conn", "provider", "link", "token"}
  BY DEF Tx, ConnTx, ProviderTx, LinkTx, TokenTx
<1> QED BY <1>2, <1>3, <1>4, <1>5, <1>6, <1>7

(* Another transaction of the same kind is on another row.                 *)
LEMMA OthersElsewhere ==
  ASSUME SsoInv, NEW r \in Request, NEW q \in Tx, q = sreq[r], NEW s \in Request, s # r,
         sreq[s].at = "tx", sreq[s].kind = q.kind
  PROVE  sreq[s].id # q.id
<1>1. q.at = "tx"
  BY DEF Tx, ConnTx, ProviderTx, LinkTx, TokenTx
<1> QED BY <1>1 DEF SsoInv, SameRow


LEMMA ConnCommit ==
  ASSUME SsoInv, NEW r \in Request, S!RecordAudit(r), NEW q \in ConnTx, q = sreq[r]
  PROVE  SsoInv'
<1>1. q \in Tx /\ q.kind = "conn" /\ q.id \in Conn /\ q.new \in S!Row \cup {None}
  BY DEF Tx, ConnTx
<1>2. /\ conn' = [conn EXCEPT ![q.id] = q.new] /\ UNCHANGED <<provider, slink, token>>
      /\ stold' = [conn |-> [stold.conn EXCEPT ![q.id] = q.tells],
           provider |-> stold.provider, link |-> stold.link, token |-> stold.token]
      /\ sreq' = [sreq EXCEPT ![r] = S!Idle] /\ asserted' = asserted
  BY <1>1, SsoCommits
<1>3. SsoTypes /\ SsoTells
  BY DEF SsoInv
<1>4. PICK f : f = [stold.conn EXCEPT ![q.id] = q.tells]
  OBVIOUS
<1>5. /\ stold'.conn = f /\ stold'.provider = stold.provider
      /\ stold'.link = stold.link /\ stold'.token = stold.token
  BY <1>2, <1>4
<1>6. q.tells \in S!Record /\ S!Agrees("conn", q.tells, q.new)
  BY DEF ConnTx, SsoInv, Announces
<1>7. /\ f \in [Conn -> S!Record \cup {None}] /\ f[q.id] = q.tells
      /\ \A c \in Conn : c # q.id => f[c] = stold.conn[c]
  <2>1. stold.conn \in [Conn -> S!Record \cup {None}]
    BY <1>3 DEF SsoTypes, SsoTold
  <2> QED BY <1>1, <1>4, <1>6, <2>1
<1>8. conn'[q.id] = q.new /\ \A c \in Conn : c # q.id => conn'[c] = conn[c]
  BY <1>1, <1>2, <1>3 DEF SsoTypes
<1>9. stold' \in SsoTold
  BY <1>2, <1>3, <1>4, <1>7 DEF SsoTypes, SsoTold
<1>10. sreq' \in [Request -> AnySsoReq] /\ conn' \in [Conn -> S!Row \cup {None}]
  BY <1>1, <1>2, <1>3, SsoIdle DEF SsoTypes
<1>11. SsoTypes'
  BY <1>2, <1>3, <1>9, <1>10 DEF SsoTypes
<1>12. SsoTells'
  BY <1>2, <1>3, <1>5, <1>6, <1>7, <1>8 DEF SsoTells, S!Agrees, S!Withdrawn
<1>13. \A p \in Provider : \A t : BelongsTo(p, t) => BelongsTo(p, t)'
  BY <1>2, <1>5 DEF BelongsTo
<1>14. ASSUME NEW s \in Request, s # r, sreq[s].at = "tx", sreq[s].kind = "conn"
       PROVE  conn'[sreq[s].id] = conn[sreq[s].id]
  <2>1. sreq[s].id # q.id
    BY <1>1, <1>14, OthersElsewhere
  <2>2. sreq[s] \in ConnTx
    BY <1>3, <1>14, SsoReqAt DEF SsoTypes
  <2>3. sreq[s].id \in Conn
    BY <2>2 DEF ConnTx
  <2> QED BY <1>8, <2>1, <2>3
<1> QED BY <1>2, <1>5, <1>11, <1>12, <1>13, <1>14, SsoEnds

LEMMA TokenCommit ==
  ASSUME SsoInv, NEW r \in Request, S!RecordAudit(r), NEW q \in TokenTx, q = sreq[r]
  PROVE  SsoInv'
<1>1. q \in Tx /\ q.kind = "token" /\ q.id \in Home /\ q.new \in {"set", None}
  BY DEF Tx, TokenTx
<1>2. /\ token' = [token EXCEPT ![q.id] = q.new] /\ UNCHANGED <<conn, provider, slink>>
      /\ stold' = [conn |-> stold.conn, provider |-> stold.provider, link |-> stold.link,
           token |-> [stold.token EXCEPT ![q.id] = q.tells]]
      /\ sreq' = [sreq EXCEPT ![r] = S!Idle] /\ asserted' = asserted
  BY <1>1, SsoCommits
<1>3. SsoTypes /\ SsoTells
  BY DEF SsoInv
<1>4. PICK f : f = [stold.token EXCEPT ![q.id] = q.tells]
  OBVIOUS
<1>5. /\ stold'.conn = stold.conn /\ stold'.provider = stold.provider
      /\ stold'.link = stold.link /\ stold'.token = f
  BY <1>2, <1>4
<1>6. q.tells \in S!Record /\ S!Agrees("token", q.tells, q.new)
  BY DEF TokenTx, SsoInv, Announces
<1>7. /\ f \in [Home -> S!Record \cup {None}] /\ f[q.id] = q.tells
      /\ \A t \in Home : t # q.id => f[t] = stold.token[t]
  <2>1. stold.token \in [Home -> S!Record \cup {None}]
    BY <1>3 DEF SsoTypes, SsoTold
  <2> QED BY <1>1, <1>4, <1>6, <2>1
<1>8. token'[q.id] = q.new /\ \A t \in Home : t # q.id => token'[t] = token[t]
  BY <1>1, <1>2, <1>3 DEF SsoTypes
<1>9. stold' \in SsoTold
  BY <1>2, <1>3, <1>4, <1>7 DEF SsoTypes, SsoTold
<1>10. sreq' \in [Request -> AnySsoReq] /\ token' \in [Home -> {None, "set"}]
  BY <1>1, <1>2, <1>3, SsoIdle DEF SsoTypes
<1>11. SsoTypes'
  BY <1>2, <1>3, <1>9, <1>10 DEF SsoTypes
<1>12. SsoTells'
  BY <1>2, <1>3, <1>5, <1>6, <1>7, <1>8 DEF SsoTells, S!Agrees, S!Withdrawn
<1>13. \A p \in Provider : \A t : BelongsTo(p, t) => BelongsTo(p, t)'
  BY <1>2, <1>5 DEF BelongsTo
<1> QED BY <1>2, <1>5, <1>11, <1>12, <1>13, SsoEnds

LEMMA LinkCommit ==
  ASSUME SsoInv, NEW r \in Request, S!RecordAudit(r), NEW q \in LinkTx, q = sreq[r]
  PROVE  SsoInv'
<1>1. q \in Tx /\ q.at = "tx" /\ q.kind = "link" /\ q.id \in Link /\ q.new \in S!LinkRow
  BY DEF Tx, LinkTx
<1>2. /\ slink' = [slink EXCEPT ![q.id] = q.new] /\ UNCHANGED <<conn, provider, token>>
      /\ stold' = [conn |-> stold.conn, provider |-> stold.provider,
           link |-> [stold.link EXCEPT ![q.id] = q.tells], token |-> stold.token]
      /\ sreq' = [sreq EXCEPT ![r] = S!Idle] /\ asserted' = asserted
  BY <1>1, SsoCommits
<1>3. SsoTypes /\ SsoTells /\ Delegated(q)
  BY DEF SsoInv
<1>4. PICK f : f = [stold.link EXCEPT ![q.id] = q.tells]
  OBVIOUS
<1>5. /\ stold'.conn = stold.conn /\ stold'.provider = stold.provider
      /\ stold'.link = f /\ stold'.token = stold.token
  BY <1>2, <1>4
<1>6. /\ q.tells \in S!Record /\ S!Agrees("link", q.tells, q.new)
      /\ q.new # None
  BY <1>1, NoneIsNoRow DEF LinkTx, SsoInv, Announces
<1>7. /\ f \in [Link -> S!Record \cup {None}] /\ f[q.id] = q.tells
      /\ \A l \in Link : l # q.id => f[l] = stold.link[l]
  <2>1. stold.link \in [Link -> S!Record \cup {None}]
    BY <1>3 DEF SsoTypes, SsoTold
  <2> QED BY <1>1, <1>4, <1>6, <2>1
<1>8. slink'[q.id] = q.new /\ \A l \in Link : l # q.id => slink'[l] = slink[l]
  BY <1>1, <1>2, <1>3 DEF SsoTypes
<1>9. stold' \in SsoTold
  BY <1>2, <1>3, <1>4, <1>7 DEF SsoTypes, SsoTold
<1>10. sreq' \in [Request -> AnySsoReq] /\ slink' \in [Link -> S!LinkRow \cup {None}]
  BY <1>1, <1>2, <1>3, SsoIdle DEF SsoTypes
<1>11. SsoTypes'
  BY <1>2, <1>3, <1>9, <1>10 DEF SsoTypes
<1>12. SsoTells'
  BY <1>2, <1>3, <1>5, <1>6, <1>7, <1>8 DEF SsoTells, S!Agrees, S!Withdrawn
<1>13. \A p \in Provider : \A t : BelongsTo(p, t) => BelongsTo(p, t)'
  BY <1>2, <1>5 DEF BelongsTo
<1>14. ASSUME NEW l \in Link, slink[l] # None
       PROVE  /\ slink'[l] # None
              /\ slink'[l].caps = slink[l].caps /\ slink'[l].tenant = slink[l].tenant
  BY <1>1, <1>3, <1>6, <1>8, <1>14 DEF Delegated
<1>15. ASSUME NEW s \in Request, s # r, sreq[s].at = "tx", sreq[s].kind = "link"
       PROVE  slink'[sreq[s].id] = slink[sreq[s].id]
  <2>1. sreq[s].id # q.id
    BY <1>1, <1>15, OthersElsewhere
  <2>2. sreq[s] \in LinkTx
    BY <1>3, <1>15, SsoReqAt DEF SsoTypes
  <2>3. sreq[s].id \in Link
    BY <2>2 DEF LinkTx
  <2> QED BY <1>8, <2>1, <2>3
<1> QED BY <1>2, <1>5, <1>11, <1>12, <1>13, <1>14, <1>15, SsoEnds

LEMMA ProviderCommit ==
  ASSUME SsoInv, NEW r \in Request, S!RecordAudit(r), NEW q \in ProviderTx, q = sreq[r]
  PROVE  SsoInv'
<1>1. /\ q \in Tx /\ q.at = "tx" /\ q.kind = "provider" /\ q.id \in Provider
      /\ q.new \in S!Row \cup {None}
  BY DEF Tx, ProviderTx
<1>2. /\ provider' = [provider EXCEPT ![q.id] = q.new] /\ UNCHANGED <<conn, slink, token>>
      /\ stold' = [conn |-> stold.conn,
           provider |-> [stold.provider EXCEPT ![q.id] = q.tells],
           link |-> stold.link, token |-> stold.token]
      /\ sreq' = [sreq EXCEPT ![r] = S!Idle] /\ asserted' = asserted
  BY <1>1, SsoCommits
<1>3. SsoTypes /\ SsoTells /\ Delegated(q)
  BY DEF SsoInv
<1>4. PICK f : f = [stold.provider EXCEPT ![q.id] = q.tells]
  OBVIOUS
<1>5. /\ stold'.conn = stold.conn /\ stold'.provider = f
      /\ stold'.link = stold.link /\ stold'.token = stold.token
  BY <1>2, <1>4
<1>6. /\ q.tells \in S!Record /\ S!Agrees("provider", q.tells, q.new)
      /\ q.tells # None
  BY NoneIsNoRow DEF ProviderTx, SsoInv, Announces
<1>7. /\ f \in [Provider -> S!Record \cup {None}] /\ f[q.id] = q.tells
      /\ \A p \in Provider : p # q.id => f[p] = stold.provider[p]
  <2>1. stold.provider \in [Provider -> S!Record \cup {None}]
    BY <1>3 DEF SsoTypes, SsoTold
  <2> QED BY <1>1, <1>4, <1>6, <2>1
<1>8. provider'[q.id] = q.new /\ \A p \in Provider : p # q.id => provider'[p] = provider[p]
  BY <1>1, <1>2, <1>3 DEF SsoTypes
<1>9. stold' \in SsoTold
  BY <1>2, <1>3, <1>4, <1>7 DEF SsoTypes, SsoTold
<1>10. sreq' \in [Request -> AnySsoReq] /\ provider' \in [Provider -> S!Row \cup {None}]
  BY <1>1, <1>2, <1>3, SsoIdle DEF SsoTypes
<1>11. SsoTypes'
  BY <1>2, <1>3, <1>9, <1>10 DEF SsoTypes
<1>12. SsoTells'
  BY <1>2, <1>3, <1>5, <1>6, <1>7, <1>8 DEF SsoTells, S!Agrees, S!Withdrawn
<1>13. ASSUME NEW p \in Provider, NEW t, BelongsTo(p, t) PROVE BelongsTo(p, t)'
  <2>1. CASE p = q.id
    <3>1. q.new # None => provider[p] # None /\ q.new.tenant = provider[p].tenant
      BY <1>1, <1>3, <1>13, <2>1 DEF Delegated, BelongsTo
    <3> QED BY <1>5, <1>6, <1>7, <1>8, <1>13, <2>1, <3>1 DEF BelongsTo
  <2>2. CASE p # q.id
    BY <1>5, <1>7, <1>8, <1>13, <2>2 DEF BelongsTo
  <2> QED BY <2>1, <2>2
<1>14. ASSUME NEW s \in Request, s # r, sreq[s].at = "tx", sreq[s].kind = "provider"
       PROVE  /\ provider'[sreq[s].id] = provider[sreq[s].id]
              /\ stold'.provider[sreq[s].id] = stold.provider[sreq[s].id]
  <2>1. sreq[s].id # q.id
    BY <1>1, <1>14, OthersElsewhere
  <2>2. sreq[s] \in ProviderTx
    BY <1>3, <1>14, SsoReqAt DEF SsoTypes
  <2>3. sreq[s].id \in Provider
    BY <2>2 DEF ProviderTx
  <2> QED BY <1>5, <1>7, <1>8, <2>1, <2>3
<1> QED BY <1>2, <1>5, <1>11, <1>12, <1>13, <1>14, SsoEnds


LEMMA RecordAuditStep ==
  ASSUME SsoInv, NEW r \in Request, S!RecordAudit(r)
  PROVE  SsoInv'
<1>1. sreq[r].at = "tx" /\ sreq[r] \in AnySsoReq
  BY DEF S!RecordAudit, SsoInv, SsoTypes
<1>2. sreq[r] \in ConnTx \cup ProviderTx \cup LinkTx \cup TokenTx
  BY <1>1, SsoReqAt DEF S!Kinds
<1> QED BY <1>2, ConnCommit, ProviderCommit, LinkCommit, TokenCommit

LEMMA SsoRollbackStep ==
  ASSUME SsoInv, NEW r \in Request, S!Rollback(r)
  PROVE  SsoInv'
<1>1. /\ sreq' = [sreq EXCEPT ![r] = S!Idle]
      /\ UNCHANGED <<conn, provider, slink, token, stold, asserted>>
  BY DEF S!Rollback, S!Becomes, S!rows
<1>2. /\ Delegated(S!Idle) /\ Announces(S!Idle)
      /\ \A s \in Request : ~SameRow(sreq[s], S!Idle)
  BY SsoIdle DEF Delegated, Announces, SameRow
<1> QED BY <1>1, <1>2, SsoIdle, SsoSteps

LEMMA ResolveStep ==
  ASSUME SsoInv, NEW r \in Request, NEW l \in Link, NEW cap \in S!Capability,
         S!Resolve(r, l, cap)
  PROVE  SsoInv'
<1>1. PICK q : q = [at |-> "portal", cap |-> cap, link |-> l, tenant |-> slink[l].tenant]
  OBVIOUS
<1>2. /\ slink[l] # None /\ cap \in slink[l].caps /\ sreq' = [sreq EXCEPT ![r] = q]
      /\ UNCHANGED <<conn, provider, slink, token, stold, asserted>>
  BY <1>1 DEF S!Resolve, S!Has, S!Becomes, S!rows
<1>3. slink[l].tenant \in SsoTenant
  BY <1>2 DEF SsoInv, SsoTypes, S!LinkRow, SsoTenant
<1>4. q \in AnySsoReq
  BY <1>1, <1>3 DEF AnySsoReq, PortalReq
<1>5. Delegated(q) /\ Announces(q) /\ \A s \in Request : ~SameRow(sreq[s], q)
  BY <1>1, <1>2 DEF Delegated, Announces, Allows, SameRow
<1> QED BY <1>2, <1>4, <1>5, SsoSteps

LEMMA PortalHolder ==
  ASSUME SsoInv, NEW r \in Request, NEW cap, S!By(r, cap)
  PROVE  sreq[r].tenant \in SsoTenant /\ MayChange(S!Me(r), cap, sreq[r].tenant)
<1>1. sreq[r].at = "portal" /\ sreq[r].cap = cap
  BY DEF S!By
<1>2. sreq[r] \in PortalReq
  BY <1>1, SsoReqAt DEF SsoInv, SsoTypes
<1>3. sreq[r].link \in Link /\ sreq[r].tenant \in SsoTenant
  BY <1>2 DEF PortalReq
<1>4. PICK m : m = [link |-> sreq[r].link, tenant |-> sreq[r].tenant]
  OBVIOUS
<1>5. m \in SsoBy /\ m.link = sreq[r].link /\ m.tenant = sreq[r].tenant
  BY <1>3, <1>4 DEF SsoBy
<1>6. Allows(m.link, cap, m.tenant)
  BY <1>1, <1>5 DEF SsoInv, Delegated
<1>7. S!Me(r) = m
  BY <1>4 DEF S!Me
<1> QED BY <1>3, <1>5, <1>6, <1>7 DEF MayChange

LEMMA AdminMayChange == \A cap, t : MayChange(None, cap, t)
BY DEF MayChange, SsoBy

LEMMA LookupSPStep ==
  ASSUME SsoInv, NEW r \in Request, NEW p \in Provider, S!LookupSP(r, p)
  PROVE  SsoInv'
<1>1. PICK q : q = [at |-> "sso", id |-> p, tenant |-> provider[p].tenant]
  OBVIOUS
<1>2. /\ provider[p] # None /\ sreq' = [sreq EXCEPT ![r] = q]
      /\ UNCHANGED <<conn, provider, slink, token, stold, asserted>>
  BY <1>1 DEF S!LookupSP, S!GetSamlSPByEntityID, S!Becomes, S!rows
<1>3. provider[p].tenant \in SsoTenant
  BY <1>2 DEF SsoInv, SsoTypes, S!Row, SsoTenant
<1>4. q \in AnySsoReq
  BY <1>1, <1>3 DEF AnySsoReq, SsoReq
<1>5. stold.provider[p] # None
  BY <1>2 DEF SsoInv, SsoTells, S!Agrees
<1>6. Delegated(q) /\ Announces(q) /\ \A s \in Request : ~SameRow(sreq[s], q)
  BY <1>1, <1>5 DEF Delegated, Announces, BelongsTo, SameRow
<1> QED BY <1>2, <1>4, <1>6, SsoSteps

LEMMA IdpSSOStep ==
  ASSUME SsoInv, NEW r \in Request, NEW u \in Subject, S!IdpSSO(r, u)
  PROVE  SsoInv'
<1>1. PICK a : a = [user |-> u, to |-> sreq[r].id]
  OBVIOUS
<1>2. /\ sreq[r].at = "sso" /\ SubjectOf[u] = sreq[r].tenant
      /\ asserted' = asserted \cup {a} /\ sreq' = [sreq EXCEPT ![r] = S!Idle]
      /\ UNCHANGED <<conn, provider, slink, token, stold>>
  BY <1>1 DEF S!IdpSSO, S!Becomes, S!rows
<1>3. sreq[r] \in SsoReq
  BY <1>2, SsoReqAt DEF SsoInv, SsoTypes
<1>4. sreq[r].id \in Provider
  BY <1>3 DEF SsoReq
<1>5. a \in [user : Subject, to : Provider] /\ a.to = sreq[r].id /\ a.user = u
  BY <1>1, <1>4
<1>6. BelongsTo(a.to, SubjectOf[a.user])
  BY <1>2, <1>5 DEF SsoInv, Delegated
<1>7. asserted' \subseteq [user : Subject, to : Provider]
  BY <1>2, <1>5 DEF SsoInv, SsoTypes
<1>8. \A b \in asserted' : b \in asserted \/ BelongsTo(b.to, SubjectOf[b.user])
  BY <1>2, <1>6
<1>9. /\ Delegated(S!Idle) /\ Announces(S!Idle)
      /\ \A s \in Request : ~SameRow(sreq[s], S!Idle)
  BY SsoIdle DEF Delegated, Announces, SameRow
<1> QED BY <1>2, <1>7, <1>8, <1>9, SsoIdle, SsoMoves

LEMMA SsoInitInv == S!SsoInit => SsoInv
<1> SUFFICES ASSUME S!SsoInit PROVE SsoInv
  OBVIOUS
<1>1. /\ conn = [c \in Conn |-> None] /\ provider = [p \in Provider |-> None]
      /\ slink = [l \in Link |-> None] /\ token = [t \in Home |-> None]
      /\ sreq = [r \in Request |-> S!Idle] /\ asserted = {}
      /\ stold = [k \in S!Kinds |-> CASE k = "conn" -> [c \in Conn |-> None]
                                     [] k = "provider" -> [p \in Provider |-> None]
                                     [] k = "link" -> [l \in Link |-> None]
                                     [] k = "token" -> [t \in Home |-> None]]
  BY DEF S!SsoInit
<1>2. stold = [conn |-> [c \in Conn |-> None], provider |-> [p \in Provider |-> None],
               link |-> [l \in Link |-> None], token |-> [t \in Home |-> None]]
  BY <1>1 DEF S!Kinds
<1>3. stold \in SsoTold
  BY <1>2 DEF SsoTold
<1>4. SsoTypes
  BY <1>1, <1>3, SsoIdle DEF SsoTypes
<1>5. SsoTells
  BY <1>1, <1>2 DEF SsoTells, S!Agrees
<1>6. \A r \in Request : sreq[r] = S!Idle
  BY <1>1
<1> QED BY <1>1, <1>4, <1>5, <1>6, SsoIdle DEF SsoInv, Delegated, Announces, SameRow

LEMMA SsoStep == SsoInv /\ (S!SsoNext \/ UNCHANGED ssoVars) => SsoInv'
<1> SUFFICES ASSUME SsoInv, S!SsoNext \/ UNCHANGED ssoVars PROVE SsoInv'
  OBVIOUS
<1>1. ASSUME UNCHANGED <<conn, provider, slink, token, stold, sreq, asserted>> PROVE SsoInv'
  BY <1>1 DEF SsoInv, SsoTypes, SsoTells, Delegated, Allows, BelongsTo, SameRow,
     Announces, S!Agrees, S!Withdrawn
<1>2. CASE UNCHANGED ssoVars
  BY <1>1, <1>2 DEF ssoVars
<1>3. ASSUME NEW l \in Link, S!Lapse(l) PROVE SsoInv'
  BY <1>1, <1>3 DEF S!Lapse, S!rows
<1>4. CASE S!AdminNext
  <2>1. PICK r \in Request, t \in SsoTenant :
          \/ \E l \in Link : S!RevokeLink(r, t, l)
               \/ \E caps \in SUBSET S!Capability : S!GenerateLink(r, t, l, caps)
          \/ \E c \in Conn :
               \/ \E st \in {"active", "disabled"} :
                    S!CreateConnection(r, t, c, st, None) \/ S!UpdateConnection(r, t, c, st, None)
               \/ S!DeleteConnection(r, t, c, None)
          \/ \E p \in Provider : S!DeleteSP(r, t, p)
               \/ \E st \in {"active", "disabled"} : S!CreateSP(r, t, p, st) \/ S!UpdateSP(r, t, p, st)
          \/ S!RotateToken(r, t, None) \/ S!RevokeToken(r, t, None)
    BY <1>4 DEF S!AdminNext, SsoTenant
  <2>2. MayChange(None, "saml", t) /\ MayChange(None, "scim", t)
    BY AdminMayChange
  <2> QED BY <2>1, <2>2, GenerateLinkStep, RevokeLinkStep, CreateConnectionStep,
             ConnUpdateStep, ConnDeleteStep, TokenChanges, ProviderSteps
<1>5. CASE S!PortalNext
  <2>1. PICK r \in Request :
          \/ \E l \in Link, cap \in S!Capability : S!Resolve(r, l, cap)
          \/ \E c \in Conn : S!PortalDelete(r, c)
               \/ \E st \in {"active", "disabled"} :
                    S!PortalCreate(r, c, st) \/ S!PortalUpdate(r, c, st)
          \/ S!PortalRotate(r) \/ S!PortalRevoke(r)
    BY <1>5 DEF S!PortalNext
  <2>2. ASSUME NEW c \in Conn, NEW st \in {"active", "disabled"},
               S!PortalCreate(r, c, st) \/ S!PortalUpdate(r, c, st) \/ S!PortalDelete(r, c)
        PROVE  SsoInv'
    <3>1. S!By(r, "saml")
      BY <2>2 DEF S!PortalCreate, S!PortalUpdate, S!PortalDelete
    <3>2. sreq[r].tenant \in SsoTenant /\ MayChange(S!Me(r), "saml", sreq[r].tenant)
      BY <3>1, PortalHolder
    <3> QED BY <2>2, <3>2, CreateConnectionStep, ConnUpdateStep, ConnDeleteStep
            DEF S!PortalCreate, S!PortalUpdate, S!PortalDelete
  <2>3. ASSUME S!PortalRotate(r) \/ S!PortalRevoke(r) PROVE SsoInv'
    <3>1. S!By(r, "scim")
      BY <2>3 DEF S!PortalRotate, S!PortalRevoke
    <3>2. sreq[r].tenant \in SsoTenant /\ MayChange(S!Me(r), "scim", sreq[r].tenant)
      BY <3>1, PortalHolder
    <3> QED BY <2>3, <3>2, TokenChanges DEF S!PortalRotate, S!PortalRevoke
  <2> QED BY <2>1, <2>2, <2>3, ResolveStep
<1>6. CASE S!SsoNext
  BY <1>3, <1>4, <1>5, <1>6, RecordAuditStep, SsoRollbackStep, LookupSPStep, IdpSSOStep
  DEF S!SsoNext
<1> QED BY <1>2, <1>6

LEMMA SsoSafe == SsoInv => S!AuditTellsTheState /\ S!DelegatesStayHome
<1> SUFFICES ASSUME SsoInv PROVE S!AuditTellsTheState /\ S!DelegatesStayHome
  OBVIOUS
<1>1. SsoTypes /\ SsoTells
  BY DEF SsoInv
<1>2. S!AuditTellsTheState
  <2> SUFFICES ASSUME NEW k \in S!Kinds, NEW x \in DOMAIN stold[k]
               PROVE  S!Agrees(k, stold[k][x], S!Stored[k][x])
    BY DEF S!AuditTellsTheState
  <2>1. /\ DOMAIN stold["conn"] = Conn /\ DOMAIN stold["provider"] = Provider
        /\ DOMAIN stold["link"] = Link /\ DOMAIN stold["token"] = Home
    BY <1>1 DEF SsoTypes, SsoTold
  <2>2. CASE k = "conn"
    BY <1>1, <2>1, <2>2 DEF SsoTells, S!Stored
  <2>3. CASE k = "provider"
    BY <1>1, <2>1, <2>3 DEF SsoTells, S!Stored
  <2>4. CASE k = "link"
    BY <1>1, <2>1, <2>4 DEF SsoTells, S!Stored
  <2>5. CASE k = "token"
    BY <1>1, <2>1, <2>5 DEF SsoTells, S!Stored
  <2> QED BY <2>2, <2>3, <2>4, <2>5 DEF S!Kinds
<1>3. ASSUME NEW r \in Request, sreq[r].at = "tx", sreq[r].by # None
      PROVE  \/ /\ sreq[r].kind = "conn" /\ "saml" \in slink[sreq[r].by.link].caps
                /\ \A row \in {conn[sreq[r].id], sreq[r].new} \ {None} :
                     row.tenant = slink[sreq[r].by.link].tenant
             \/ /\ sreq[r].kind = "token" /\ "scim" \in slink[sreq[r].by.link].caps
                /\ sreq[r].id = slink[sreq[r].by.link].tenant
  <2>1. sreq[r] \in ConnTx \cup ProviderTx \cup LinkTx \cup TokenTx
    BY <1>1, <1>3, SsoReqAt DEF SsoTypes, S!Kinds
  <2>2. sreq[r].kind \in {"conn", "token"}
    BY <1>3, <2>1 DEF ConnTx, ProviderTx, LinkTx, TokenTx
  <2>3. Delegated(sreq[r])
    BY DEF SsoInv
  <2> QED BY <1>3, <2>2, <2>3 DEF Delegated, Allows
<1>4. \A a \in asserted : provider[a.to] # None => provider[a.to].tenant = SubjectOf[a.user]
  BY DEF SsoInv, BelongsTo
<1> QED BY <1>2, <1>3, <1>4 DEF S!DelegatesStayHome

-----------------------------------------------------------------------------
(* Machines: the credential of a request that came too late is still no    *)
(* good, whatever else happened, and nobody is on the way to change the    *)
(* status of an agent that is decommissioned for good.                     *)
MoveReq == [at : {"move"}, agent : Link, target : {"suspended", "active", "decommissioned"}]
TokenReq == [at : {"asked", "issue"}, of : Link \cup Conn, out : BOOLEAN]
CallReq == [at : {"called", "let in"}, of : M!Bearer, by : M!Token \cup {None}, out : BOOLEAN]
OtherReq == {M!Idle} \cup [at : {"create"}, to : User]
                     \cup [at : {"transfer"}, from : User, to : User]
MachineReq == OtherReq \cup MoveReq \cup TokenReq \cup CallReq

MachineTypes ==
  /\ status \in [Link -> {None, "active", "suspended", "decommissioned", "deleted"}]
  /\ key \in [Cookie -> {None, "live", "revoked"}]
  /\ service \in [Conn -> {None, "enabled", "disabled"}]
  /\ mtoken \subseteq M!Token
  /\ mreq \in [Request -> MachineReq]
  /\ final \subseteq Link

Presented(q) ==
  /\ q.at \in {"asked", "called"} => M!Exists(q.of) /\ (q.out => ~M!Good(q.of))
  /\ q.at \in {"called", "let in"} =>
       IF q.of \in Cookie THEN q.by = None ELSE q.by \in M!Token /\ q.by.of = q.of
  /\ q.at = "issue" => ~q.out
  /\ q.at = "let in" /\ (q.of \in Cookie \/ (q.of \in Link /\ ~q.by.exchanged)) => ~q.out

Ended(a) == status[a] \in {"decommissioned", "deleted"}

MachineInv ==
  /\ MachineTypes
  /\ \A r \in Request : Presented(mreq[r])
  /\ \A a \in final : Ended(a) /\ \A r \in Request : mreq[r].at = "move" => mreq[r].agent # a

LEMMA MachineReqAt ==
  ASSUME NEW q \in MachineReq
  PROVE  /\ q.at = "move" => q \in MoveReq
         /\ q.at \in {"asked", "issue"} => q \in TokenReq
         /\ q.at \in {"called", "let in"} => q \in CallReq
         /\ q.at \in {"idle", "create", "transfer"} => q \in OtherReq
<1>1. CASE q = M!Idle
  BY <1>1 DEF OtherReq, M!Idle
<1>2. CASE q \in [at : {"create"}, to : User]
  BY <1>2 DEF OtherReq
<1>3. CASE q \in [at : {"transfer"}, from : User, to : User]
  BY <1>3 DEF OtherReq
<1>4. CASE q \in MoveReq
  BY <1>4 DEF MoveReq
<1>5. CASE q \in TokenReq
  BY <1>5 DEF TokenReq
<1>6. CASE q \in CallReq
  BY <1>6 DEF CallReq
<1> QED BY <1>1, <1>2, <1>3, <1>4, <1>5, <1>6 DEF MachineReq, OtherReq

LEMMA OtherAt ==
  ASSUME NEW q \in OtherReq
  PROVE  q \in MachineReq /\ q.at \in {"idle", "create", "transfer"}
<1>1. CASE q = M!Idle
  BY <1>1 DEF M!Idle, MachineReq
<1>2. CASE q # M!Idle
  BY <1>2 DEF OtherReq, MachineReq
<1> QED BY <1>1, <1>2

(* What is said of a request at another time, when it was not let in again.*)
LEMMA StillPresented ==
  ASSUME MachineTypes, NEW q \in MachineReq, Presented(q),
         \A b \in M!Bearer : /\ M!Exists(b) => M!Exists(b)'
                             /\ M!Exists(b) /\ ~M!Good(b) => ~M!Good(b)'
  PROVE  Presented(q)'
<1>1. q.at \in {"asked", "called"} => q.of \in M!Bearer
  <2>1. CASE q.at = "asked"
    BY <2>1, MachineReqAt DEF TokenReq, M!Bearer
  <2>2. CASE q.at = "called"
    BY <2>2, MachineReqAt DEF CallReq
  <2> QED BY <2>1, <2>2
<1> QED BY <1>1 DEF Presented

(* A step that starts, moves on or ends one request and decommissions none.*)
LEMMA MachineMoves ==
  ASSUME MachineInv, NEW r \in Request, NEW q \in MachineReq,
         mreq' = [mreq EXCEPT ![r] = q], UNCHANGED <<key, service, final>>,
         status' \in [Link -> {None, "active", "suspended", "decommissioned", "deleted"}],
         mtoken' \subseteq M!Token,
         \A b \in M!Bearer : /\ M!Exists(b) => M!Exists(b)'
                             /\ M!Exists(b) /\ ~M!Good(b) => ~M!Good(b)',
         \A a \in Link : Ended(a) => Ended(a)',
         Presented(q)', q.at = "move" => q.agent \notin final
  PROVE  MachineInv'
<1>1. MachineTypes
  BY DEF MachineInv
<1>2. mreq' \in [Request -> MachineReq]
  BY <1>1 DEF MachineTypes
<1>3. MachineTypes'
  BY <1>1, <1>2 DEF MachineTypes
<1>4. mreq'[r] = q /\ \A s \in Request : s # r => mreq'[s] = mreq[s]
  BY <1>1 DEF MachineTypes
<1>5. ASSUME NEW s \in Request PROVE Presented(mreq[s])'
  <2>1. CASE s = r
    BY <1>4, <2>1 DEF Presented
  <2>2. CASE s # r
    <3>1. PICK p \in MachineReq : p = mreq[s] /\ p = mreq'[s]
      BY <1>1, <1>4, <2>2 DEF MachineTypes
    <3>2. Presented(p)
      BY <3>1 DEF MachineInv
    <3>3. Presented(p)'
      BY <1>1, <3>2, StillPresented
    <3> QED BY <3>1, <3>3 DEF Presented
  <2> QED BY <2>1, <2>2
<1>6. ASSUME NEW a \in final', NEW s \in Request
      PROVE  Ended(a)' /\ (mreq'[s].at = "move" => mreq'[s].agent # a)
  <2>1. a \in Link /\ Ended(a) /\ (mreq[s].at = "move" => mreq[s].agent # a)
    BY <1>1, <1>6 DEF MachineInv, MachineTypes
  <2> QED BY <1>4, <1>6, <2>1
<1>7. \A a \in final' : Ended(a)'
  BY <1>1 DEF MachineInv, MachineTypes
<1> QED BY <1>3, <1>5, <1>6, <1>7 DEF MachineInv

(* A step that nobody's request has a part in.                             *)
LEMMA MachineStays ==
  ASSUME MachineInv, UNCHANGED <<mreq, final>>,
         status' \in [Link -> {None, "active", "suspended", "decommissioned", "deleted"}],
         key' \in [Cookie -> {None, "live", "revoked"}],
         service' \in [Conn -> {None, "enabled", "disabled"}],
         mtoken' \subseteq M!Token,
         \A b \in M!Bearer : /\ M!Exists(b) => M!Exists(b)'
                             /\ M!Exists(b) /\ ~M!Good(b) => ~M!Good(b)',
         \A a \in Link : Ended(a) => Ended(a)'
  PROVE  MachineInv'
<1>1. MachineTypes
  BY DEF MachineInv
<1>2. MachineTypes'
  BY <1>1 DEF MachineTypes
<1>3. ASSUME NEW s \in Request PROVE Presented(mreq[s])'
  <2>1. PICK p \in MachineReq : p = mreq[s] /\ p = mreq'[s]
    BY <1>1 DEF MachineTypes
  <2>2. Presented(p)
    BY <2>1 DEF MachineInv
  <2>3. Presented(p)'
    BY <1>1, <2>2, StillPresented
  <2> QED BY <2>1, <2>3 DEF Presented
<1>4. \A a \in final' : Ended(a)'
  BY <1>1 DEF MachineInv, MachineTypes
<1> QED BY <1>2, <1>3, <1>4 DEF MachineInv

(* The rows of all three tables stay as they are.                          *)
LEMMA RowsStay ==
  ASSUME UNCHANGED <<status, key, service>>
  PROVE  /\ \A b \in M!Bearer : (M!Exists(b)' <=> M!Exists(b)) /\ (M!Good(b)' <=> M!Good(b))
         /\ \A a \in Link : Ended(a)' <=> Ended(a)
BY DEF M!Exists, M!Good, M!AgentStatus, M!NotRevoked, M!GetServicePrincipalForAuth, Ended

LEMMA RequestMoves ==
  ASSUME MachineInv, NEW r \in Request, NEW q \in MachineReq,
         mreq' = [mreq EXCEPT ![r] = q], UNCHANGED <<status, key, service, final>>,
         mtoken' \subseteq M!Token, Presented(q), q.at = "move" => q.agent \notin final
  PROVE  MachineInv'
<1>1. MachineTypes
  BY DEF MachineInv
<1>2. status' \in [Link -> {None, "active", "suspended", "decommissioned", "deleted"}]
  BY <1>1 DEF MachineTypes
<1>3. \A b \in M!Bearer : (M!Exists(b)' <=> M!Exists(b)) /\ (M!Good(b)' <=> M!Good(b))
  BY RowsStay
<1>4. \A a \in Link : Ended(a) => Ended(a)'
  BY RowsStay
<1>5. Presented(q)'
  BY <1>1, <1>3, StillPresented
<1> QED BY <1>2, <1>3, <1>4, <1>5, MachineMoves


(* A request with nothing in hand that a withdrawal could concern.         *)
LEMMA OtherMoves ==
  ASSUME MachineInv, NEW r \in Request, NEW q \in OtherReq, mreq' = [mreq EXCEPT ![r] = q],
         UNCHANGED <<status, key, service, final>>, mtoken' \subseteq M!Token
  PROVE  MachineInv'
<1>1. q \in MachineReq /\ q.at \in {"idle", "create", "transfer"}
  BY OtherAt
<1>2. Presented(q)
  BY <1>1 DEF Presented
<1> QED BY <1>1, <1>2, RequestMoves

LEMMA TokensAre == MachineInv => mtoken \subseteq M!Token
BY DEF MachineInv, MachineTypes

LEMMA SponsorStep ==
  ASSUME MachineInv, NEW r \in Request, NEW u, NEW q \in OtherReq,
         M!SponsorBelongsToTenant(r, u, q)
  PROVE  MachineInv'
<1>1. mreq' = [mreq EXCEPT ![r] = q] /\ UNCHANGED <<status, key, service, final, mtoken>>
  BY DEF M!SponsorBelongsToTenant, M!Begin, M!agentVars, M!keyVars
<1>2. mtoken' \subseteq M!Token
  BY <1>1, TokensAre
<1> QED BY <1>1, <1>2, OtherMoves

LEMMA ReturnStep ==
  ASSUME MachineInv, NEW r \in Request, M!Return(r),
         UNCHANGED <<status, key, service, final>>, mtoken' \subseteq M!Token
  PROVE  MachineInv'
<1>1. mreq' = [mreq EXCEPT ![r] = M!Idle] /\ M!Idle \in OtherReq
  BY DEF M!Return, OtherReq
<1> QED BY <1>1, OtherMoves

LEMMA NoneIsNoStatus ==
  None \notin {"active", "suspended", "decommissioned", "deleted", "live", "revoked",
               "enabled", "disabled"}
BY IdentityAssumption

LEMMA OneKind ==
  /\ Link \cap Cookie = {} /\ Link \cap Conn = {} /\ Cookie \cap Conn = {}
  /\ None \notin M!Token
BY IdentityAssumption

LEMMA CreateAgentStep ==
  ASSUME MachineInv, NEW r \in Request, NEW a \in Link, M!CreateAgent(r, a)
  PROVE  MachineInv'
<1>1. /\ status[a] = None /\ status' = [status EXCEPT ![a] = "active"]
      /\ mreq' = [mreq EXCEPT ![r] = M!Idle] /\ UNCHANGED <<key, service, mtoken, final>>
  BY DEF M!CreateAgent, M!Return, M!keyVars
<1>2. MachineTypes
  BY DEF MachineInv
<1>3. /\ status' \in [Link -> {None, "active", "suspended", "decommissioned", "deleted"}]
      /\ status'[a] = "active" /\ \A b \in Link : b # a => status'[b] = status[b]
  BY <1>1, <1>2 DEF MachineTypes
<1>4. ASSUME NEW b \in M!Bearer
      PROVE  /\ M!Exists(b) => M!Exists(b)'
             /\ M!Exists(b) /\ ~M!Good(b) => ~M!Good(b)'
  <2>1. CASE b = a
    <3>1. ~M!Exists(b)
      BY <1>1, <2>1, OneKind DEF M!Exists
    <3> QED BY <3>1
  <2>2. CASE b # a
    BY <1>1, <1>3, <2>2 DEF M!Exists, M!Good, M!AgentStatus, M!NotRevoked,
       M!GetServicePrincipalForAuth
  <2> QED BY <2>1, <2>2
<1>5. \A b \in Link : Ended(b) => Ended(b)'
  BY <1>1, <1>3, NoneIsNoStatus DEF Ended
<1>6. M!Idle \in MachineReq /\ M!Idle.at = "idle"
  BY DEF MachineReq, OtherReq, M!Idle
<1>7. Presented(M!Idle)'
  BY <1>6 DEF Presented
<1>8. mtoken' \subseteq M!Token
  BY <1>1, TokensAre
<1> QED BY <1>1, <1>3, <1>4, <1>5, <1>6, <1>7, <1>8, MachineMoves

LEMMA GetAgentStatusStep ==
  ASSUME MachineInv, NEW r \in Request, NEW a \in Link, NEW target \in DOMAIN M!Transitions,
         M!GetAgentStatus(r, a, target)
  PROVE  MachineInv'
<1>1. PICK q : q = [at |-> "move", agent |-> a, target |-> target]
  OBVIOUS
<1>2. /\ status[a] \in M!Transitions[target] /\ mreq' = [mreq EXCEPT ![r] = q]
      /\ UNCHANGED <<status, key, service, final, mtoken>>
  BY <1>1 DEF M!GetAgentStatus, M!ValidateTransition, M!Begin, M!agentVars, M!keyVars
<1>3. target \in {"suspended", "active", "decommissioned"}
  BY DEF M!Transitions
<1>4. status[a] \in {"active", "suspended"}
  BY <1>2, <1>3 DEF M!Transitions
<1>5. a \notin final
  BY <1>4 DEF MachineInv, Ended
<1>6. q \in MachineReq /\ q.at = "move" /\ q.agent = a
  BY <1>1, <1>3 DEF MachineReq, MoveReq
<1>7. Presented(q)
  BY <1>6 DEF Presented
<1>8. mtoken' \subseteq M!Token
  BY <1>2, TokensAre
<1> QED BY <1>2, <1>5, <1>6, <1>7, <1>8, RequestMoves

LEMMA CallReqIs ==
  ASSUME NEW at \in {"called", "let in"}, NEW of \in M!Bearer, NEW by \in M!Token \cup {None},
         NEW out \in BOOLEAN
  PROVE  [at |-> at, of |-> of, by |-> by, out |-> out] \in CallReq
BY DEF CallReq

LEMMA TransitionStep ==
  ASSUME MachineInv, NEW r \in Request, M!Transition(r)
  PROVE  MachineInv'
<1>1. PICK a, Q : a = mreq[r].agent /\ Q = [mreq EXCEPT ![r] = M!Idle]
  OBVIOUS
<1>2. /\ mreq[r].at = "move"
      /\ status' = [status EXCEPT ![a] = IF status[a] = "deleted" THEN status[a]
                                         ELSE mreq[r].target]
      /\ mreq' = [s \in Request |->
           IF "of" \in DOMAIN Q[s] /\ Q[s].of \in Link /\ status'[Q[s].of] = "active"
           THEN [Q[s] EXCEPT !.out = FALSE] ELSE Q[s]]
      /\ final' = final \cup {b \in Link : M!Settled(b)'}
      /\ UNCHANGED <<key, service, mtoken>>
  BY <1>1 DEF M!Transition, M!At, M!LetIn, M!keyVars
<1>3. MachineTypes
  BY DEF MachineInv
<1>4. a \in Link /\ mreq[r].target \in {"suspended", "active", "decommissioned"}
  <2>1. mreq[r] \in MoveReq
    BY <1>2, <1>3, MachineReqAt DEF MachineTypes
  <2> QED BY <1>1, <2>1 DEF MoveReq
<1>5. /\ status' \in [Link -> {None, "active", "suspended", "decommissioned", "deleted"}]
      /\ status'[a] = (IF status[a] = "deleted" THEN status[a] ELSE mreq[r].target)
      /\ \A b \in Link : b # a => status'[b] = status[b]
  BY <1>2, <1>3, <1>4 DEF MachineTypes
<1>6. M!Idle \in MachineReq /\ M!Idle.at = "idle" /\ Presented(M!Idle) /\ Presented(M!Idle)'
  <2>1. M!Idle \in MachineReq /\ M!Idle.at = "idle"
    BY DEF MachineReq, OtherReq, M!Idle
  <2> QED BY <2>1 DEF Presented
<1>7. \A s \in Request : Q[s] \in MachineReq /\ Presented(Q[s])
  <2>1. Q[r] = M!Idle /\ \A s \in Request : s # r => Q[s] = mreq[s]
    BY <1>1, <1>3 DEF MachineTypes
  <2> QED BY <1>3, <1>6, <2>1 DEF MachineInv, MachineTypes
<1>8. ASSUME NEW b \in Link, status'[b] # "active", M!Exists(b)
      PROVE  M!Exists(b)' /\ ~M!Good(b)'
  BY <1>3, <1>4, <1>5, <1>8, NoneIsNoStatus, OneKind DEF MachineTypes, M!Exists, M!Good,
     M!AgentStatus
<1>9. \A b \in M!Bearer \ Link : (M!Exists(b)' <=> M!Exists(b)) /\ (M!Good(b)' <=> M!Good(b))
  BY <1>2 DEF M!Exists, M!Good, M!NotRevoked, M!GetServicePrincipalForAuth
<1>10. ASSUME NEW s \in Request
       PROVE  /\ mreq'[s] \in MachineReq /\ Presented(mreq[s])'
              /\ mreq'[s].at = Q[s].at
              /\ Q[s].at = "move" => mreq'[s] = Q[s]
  <2>1. PICK p \in MachineReq : p = Q[s] /\ Presented(p)
    BY <1>7
  <2> SUFFICES ASSUME NEW w, w = mreq'[s]
               PROVE  w \in MachineReq /\ Presented(w)' /\ w.at = p.at
                      /\ (p.at = "move" => w = p)
    BY <2>1 DEF Presented
  <2>0. ASSUME NEW b \in M!Bearer, ~(b \in Link /\ status'[b] = "active"), M!Exists(b)
        PROVE  M!Exists(b)' /\ (~M!Good(b) => ~M!Good(b)')
    BY <1>8, <1>9, <2>0
  <2>2. CASE p.at \in {"asked", "issue"}
    <3>1. p \in TokenReq
      BY <2>2, MachineReqAt
    <3>2. CASE p.of \in Link /\ status'[p.of] = "active"
      <4>1. w = [p EXCEPT !.out = FALSE]
        BY <1>2, <2>1, <3>1, <3>2 DEF TokenReq
      <4>2. w = [at |-> p.at, of |-> p.of, out |-> FALSE]
        BY <3>1, <4>1 DEF TokenReq
      <4>3. w \in TokenReq
        BY <3>1, <4>2 DEF TokenReq
      <4>4. M!Exists(p.of)'
        BY <3>2, NoneIsNoStatus DEF M!Exists
      <4>5. w \in MachineReq /\ w.at = p.at /\ w.of = p.of /\ w.out = FALSE
        BY <4>2, <4>3 DEF MachineReq
      <4> QED BY <2>2, <4>4, <4>5 DEF Presented
    <3>3. CASE ~(p.of \in Link /\ status'[p.of] = "active")
      <4>1. w = p
        BY <1>2, <2>1, <3>3
      <4>2. p.of \in M!Bearer
        BY <3>1 DEF TokenReq, M!Bearer
      <4>3. p.at = "asked" => M!Exists(p.of)' /\ (p.out => ~M!Good(p.of)')
        BY <2>0, <2>1, <3>3, <4>2 DEF Presented
      <4> QED BY <2>1, <2>2, <4>1, <4>3 DEF Presented
    <3> QED BY <3>2, <3>3
  <2>3. CASE p.at \in {"called", "let in"}
    <3>1. p \in CallReq
      BY <2>3, MachineReqAt
    <3>2. CASE p.of \in Link /\ status'[p.of] = "active"
      <4>1. w = [p EXCEPT !.out = FALSE]
        BY <1>2, <2>1, <3>1, <3>2 DEF CallReq
      <4>2. w = [at |-> p.at, of |-> p.of, by |-> p.by, out |-> FALSE]
        BY <3>1, <4>1 DEF CallReq
      <4>3. w \in CallReq
        <5>1. /\ p.at \in {"called", "let in"} /\ p.of \in M!Bearer
              /\ p.by \in M!Token \cup {None}
          BY <3>1 DEF CallReq
        <5> QED BY <4>2, <5>1, CallReqIs
      <4>4. M!Exists(p.of)'
        BY <3>2, NoneIsNoStatus DEF M!Exists
      <4>5. /\ w \in MachineReq /\ w.at = p.at /\ w.of = p.of /\ w.by = p.by
            /\ w.out = FALSE
        BY <4>2, <4>3 DEF MachineReq
      <4> QED BY <2>1, <2>3, <4>4, <4>5 DEF Presented
    <3>3. CASE ~(p.of \in Link /\ status'[p.of] = "active")
      <4>1. w = p
        BY <1>2, <2>1, <3>3
      <4>2. p.of \in M!Bearer
        BY <3>1 DEF CallReq
      <4>3. p.at = "called" => M!Exists(p.of)' /\ (p.out => ~M!Good(p.of)')
        BY <2>0, <2>1, <3>3, <4>2 DEF Presented
      <4> QED BY <2>1, <2>3, <4>1, <4>3 DEF Presented
    <3> QED BY <3>2, <3>3
  <2>4. CASE p.at \notin {"asked", "issue", "called", "let in"}
    <3>1. "of" \notin DOMAIN p
      <4>1. p \in OtherReq \cup MoveReq
        BY <2>4 DEF MachineReq, TokenReq, CallReq
      <4> QED BY <4>1 DEF OtherReq, M!Idle, MoveReq
    <3>2. w = p
      BY <1>2, <2>1, <3>1
    <3> QED BY <2>1, <2>4, <3>2 DEF Presented
  <2> QED BY <2>2, <2>3, <2>4
<1>11. mreq' \in [Request -> MachineReq]
  BY <1>2, <1>10
<1>12. MachineTypes'
  BY <1>2, <1>3, <1>5, <1>11 DEF MachineTypes
<1>13. \A s \in Request : Presented(mreq[s])'
  BY <1>10
<1>14. ASSUME NEW b \in final'
       PROVE  Ended(b)' /\ \A s \in Request : mreq'[s].at = "move" => mreq'[s].agent # b
  <2>1. CASE b \in final
    <3>1. b \in Link /\ Ended(b) /\ \A s \in Request : mreq[s].at = "move" => mreq[s].agent # b
      BY <1>3, <2>1 DEF MachineInv, MachineTypes
    <3>2. b # a
      BY <1>1, <1>2, <3>1
    <3>3. Ended(b)'
      BY <1>5, <3>1, <3>2 DEF Ended
    <3>4. ASSUME NEW s \in Request, mreq'[s].at = "move" PROVE mreq'[s].agent # b
      <4>1. mreq'[s] = Q[s] /\ Q[s].at = "move"
        BY <1>10, <3>4
      <4>2. s # r /\ Q[s] = mreq[s]
        BY <1>1, <1>3, <1>6, <4>1 DEF MachineTypes
      <4> QED BY <3>1, <4>1, <4>2
    <3> QED BY <3>3, <3>4
  <2>2. CASE b \notin final
    BY <1>2, <1>14, <2>2 DEF M!Settled, M!At, Ended
  <2> QED BY <2>1, <2>2
<1> QED BY <1>12, <1>13, <1>14 DEF MachineInv


LEMMA DeleteAgentStep ==
  ASSUME MachineInv, NEW a \in Link, M!DeleteAgent(a)
  PROVE  MachineInv'
<1>1. /\ status[a] # None /\ status' = [status EXCEPT ![a] = "deleted"]
      /\ UNCHANGED <<key, service, mtoken, mreq, final>>
  BY DEF M!DeleteAgent, M!keyVars
<1>2. MachineTypes
  BY DEF MachineInv
<1>3. /\ status' \in [Link -> {None, "active", "suspended", "decommissioned", "deleted"}]
      /\ status'[a] = "deleted" /\ \A b \in Link : b # a => status'[b] = status[b]
  BY <1>1, <1>2 DEF MachineTypes
<1>4. ASSUME NEW b \in M!Bearer
      PROVE  /\ M!Exists(b) => M!Exists(b)'
             /\ M!Exists(b) /\ ~M!Good(b) => ~M!Good(b)'
  BY <1>1, <1>3, NoneIsNoStatus DEF M!Exists, M!Good, M!AgentStatus, M!NotRevoked,
     M!GetServicePrincipalForAuth
<1>5. \A b \in Link : Ended(b) => Ended(b)'
  BY <1>3 DEF Ended
<1> QED BY <1>1, <1>2, <1>3, <1>4, <1>5, MachineStays DEF MachineTypes

LEMMA KillAllAgentsStep ==
  ASSUME MachineInv, M!KillAllAgents
  PROVE  MachineInv'
<1>1. /\ status' = [a \in Link |-> IF status[a] = "active" THEN "suspended" ELSE status[a]]
      /\ UNCHANGED <<key, service, mtoken, mreq, final>>
  BY DEF M!KillAllAgents, M!keyVars
<1>2. MachineTypes
  BY DEF MachineInv
<1>3. status' \in [Link -> {None, "active", "suspended", "decommissioned", "deleted"}]
  BY <1>1, <1>2 DEF MachineTypes
<1>4. ASSUME NEW b \in M!Bearer
      PROVE  /\ M!Exists(b) => M!Exists(b)'
             /\ M!Exists(b) /\ ~M!Good(b) => ~M!Good(b)'
  BY <1>1, NoneIsNoStatus DEF M!Exists, M!Good, M!AgentStatus, M!NotRevoked,
     M!GetServicePrincipalForAuth
<1>5. \A b \in Link : Ended(b) => Ended(b)'
  BY <1>1 DEF Ended
<1> QED BY <1>1, <1>2, <1>3, <1>4, <1>5, MachineStays DEF MachineTypes

LEMMA KeyStep ==
  ASSUME MachineInv, NEW k \in Cookie, M!CreateAPIKey(k) \/ M!RevokeAPIKey(k)
  PROVE  MachineInv'
<1>1. PICK v \in {"live", "revoked"} :
        /\ key[k] = IF v = "live" THEN None ELSE "live"
        /\ key' = [key EXCEPT ![k] = v] /\ UNCHANGED <<status, service, mtoken, mreq, final>>
  BY DEF M!CreateAPIKey, M!RevokeAPIKey, M!agentVars
<1>2. MachineTypes
  BY DEF MachineInv
<1>3. /\ key' \in [Cookie -> {None, "live", "revoked"}]
      /\ key'[k] = v /\ \A j \in Cookie : j # k => key'[j] = key[j]
  BY <1>1, <1>2 DEF MachineTypes
<1>4. ASSUME NEW b \in M!Bearer
      PROVE  /\ M!Exists(b) => M!Exists(b)'
             /\ M!Exists(b) /\ ~M!Good(b) => ~M!Good(b)'
  BY <1>1, <1>3, NoneIsNoStatus, OneKind DEF M!Exists, M!Good, M!AgentStatus, M!NotRevoked,
     M!GetServicePrincipalForAuth
<1>5. \A b \in Link : Ended(b) => Ended(b)'
  BY <1>1 DEF Ended
<1> QED BY <1>1, <1>2, <1>3, <1>4, <1>5, MachineStays DEF MachineTypes

LEMMA ServiceStep ==
  ASSUME MachineInv, NEW s \in Conn,
         M!CreateServicePrincipal(s) \/ M!DisableServicePrincipal(s)
  PROVE  MachineInv'
<1>1. PICK v \in {"enabled", "disabled"} :
        /\ service[s] = IF v = "enabled" THEN None ELSE "enabled"
        /\ service' = [service EXCEPT ![s] = v]
        /\ UNCHANGED <<status, key, mtoken, mreq, final>>
  BY DEF M!CreateServicePrincipal, M!DisableServicePrincipal, M!agentVars, M!keyVars
<1>2. MachineTypes
  BY DEF MachineInv
<1>3. /\ service' \in [Conn -> {None, "enabled", "disabled"}]
      /\ service'[s] = v /\ \A j \in Conn : j # s => service'[j] = service[j]
  BY <1>1, <1>2 DEF MachineTypes
<1>4. ASSUME NEW b \in M!Bearer
      PROVE  /\ M!Exists(b) => M!Exists(b)'
             /\ M!Exists(b) /\ ~M!Good(b) => ~M!Good(b)'
  BY <1>1, <1>3, NoneIsNoStatus, OneKind DEF M!Exists, M!Good, M!AgentStatus, M!NotRevoked,
     M!GetServicePrincipalForAuth
<1>5. \A b \in Link : Ended(b) => Ended(b)'
  BY <1>1 DEF Ended
<1> QED BY <1>1, <1>2, <1>3, <1>4, <1>5, MachineStays DEF MachineTypes

(* A step that changes no row and no request: members, marks, tokens.      *)
LEMMA TokensStep ==
  ASSUME MachineInv, UNCHANGED <<status, key, service, mreq, final>>, mtoken' \subseteq M!Token
  PROVE  MachineInv'
<1>1. MachineTypes
  BY DEF MachineInv
<1>2. \A b \in M!Bearer : (M!Exists(b)' <=> M!Exists(b)) /\ (M!Good(b)' <=> M!Good(b))
  BY RowsStay
<1>3. \A b \in Link : Ended(b) => Ended(b)'
  BY RowsStay
<1> QED BY <1>1, <1>2, <1>3, MachineStays DEF MachineTypes

LEMMA TokenExchangeStep ==
  ASSUME MachineInv, NEW x \in mtoken, M!TokenExchange(x) \/ M!Expire(x)
  PROVE  MachineInv'
<1>1. PICK y : y = [x EXCEPT !.exchanged = TRUE]
  OBVIOUS
<1>2. UNCHANGED <<status, key, service, mreq, final>> /\ mtoken' \subseteq mtoken \cup {y}
  BY <1>1 DEF M!TokenExchange, M!Expire, M!agentVars, M!keyVars
<1>3. x \in M!Token
  BY TokensAre
<1>4. y = [of |-> x.of, exchanged |-> TRUE]
  BY <1>1, <1>3 DEF M!Token
<1>5. y \in M!Token
  BY <1>3, <1>4 DEF M!Token
<1>6. mtoken' \subseteq M!Token
  BY <1>2, <1>5, TokensAre
<1> QED BY <1>2, <1>6, TokensStep

LEMMA AskTokenStep ==
  ASSUME MachineInv, NEW r \in Request, NEW b \in M!Bearer, M!AskToken(r, b)
  PROVE  MachineInv'
<1>1. PICK out : out = ~M!Good(b)
  OBVIOUS
<1>2. PICK q : q = [at |-> "asked", of |-> b, out |-> out]
  OBVIOUS
<1>3. /\ b \in Link \cup Conn /\ M!Exists(b) /\ mreq' = [mreq EXCEPT ![r] = q]
      /\ UNCHANGED <<status, key, service, mtoken, final>>
  BY <1>1, <1>2 DEF M!AskToken, M!Begin, M!agentVars, M!keyVars
<1>4. out \in BOOLEAN
  BY <1>1 DEF M!Good
<1>5. q \in TokenReq
  BY <1>2, <1>3, <1>4 DEF TokenReq
<1>6. q \in MachineReq /\ q.at = "asked" /\ q.of = b /\ (q.out => ~M!Good(b))
  BY <1>1, <1>2, <1>5 DEF MachineReq
<1>7. Presented(q)
  BY <1>3, <1>6 DEF Presented
<1>8. mtoken' \subseteq M!Token
  BY <1>3, TokensAre
<1> QED BY <1>3, <1>6, <1>7, <1>8, RequestMoves

LEMMA GetForTokenStep ==
  ASSUME MachineInv, NEW r \in Request, M!GetForToken(r)
  PROVE  MachineInv'
<1>1. PICK q : q = [mreq[r] EXCEPT !.at = "issue"]
  OBVIOUS
<1>2. /\ mreq[r].at = "asked" /\ UNCHANGED <<status, key, service, mtoken, final>>
      /\ \/ M!Good(mreq[r].of) /\ mreq' = [mreq EXCEPT ![r] = q]
         \/ mreq' = [mreq EXCEPT ![r] = M!Idle]
  BY <1>1 DEF M!GetForToken, M!At, M!agentVars, M!keyVars
<1>3. mtoken' \subseteq M!Token
  BY <1>2, TokensAre
<1>4. CASE M!Good(mreq[r].of) /\ mreq' = [mreq EXCEPT ![r] = q]
  <2>1. mreq[r] \in TokenReq
    BY <1>2, MachineReqAt DEF MachineInv, MachineTypes
  <2>2. q = [at |-> "issue", of |-> mreq[r].of, out |-> mreq[r].out]
    BY <1>1, <2>1 DEF TokenReq
  <2>3. q \in TokenReq
    BY <2>1, <2>2 DEF TokenReq
  <2>4. ~mreq[r].out
    BY <1>2, <1>4 DEF MachineInv, Presented
  <2>5. q \in MachineReq /\ q.at = "issue" /\ ~q.out
    BY <2>2, <2>3, <2>4 DEF MachineReq
  <2>6. Presented(q)
    BY <2>5 DEF Presented
  <2> QED BY <1>2, <1>3, <1>4, <2>5, <2>6, RequestMoves
<1>5. CASE mreq' = [mreq EXCEPT ![r] = M!Idle]
  BY <1>2, <1>3, <1>5, ReturnStep DEF M!Return
<1> QED BY <1>2, <1>4, <1>5

LEMMA MachineIssueStep ==
  ASSUME MachineInv, NEW r \in Request, M!IssueToken(r)
  PROVE  MachineInv'
<1>1. PICK x : x = [of |-> mreq[r].of, exchanged |-> FALSE]
  OBVIOUS
<1>2. /\ mreq[r].at = "issue" /\ mtoken' = mtoken \cup {x} /\ M!Return(r)
      /\ UNCHANGED <<status, key, service, final>>
  BY <1>1 DEF M!IssueToken, M!At, M!agentVars, M!keyVars
<1>3. mreq[r] \in TokenReq
  BY <1>2, MachineReqAt DEF MachineInv, MachineTypes
<1>4. mreq[r].of \in Link \cup Conn
  BY <1>3 DEF TokenReq
<1>5. x \in M!Token
  BY <1>1, <1>4 DEF M!Token
<1>6. mtoken' \subseteq M!Token
  BY <1>2, <1>5, TokensAre
<1> QED BY <1>2, <1>6, ReturnStep

LEMMA CallStep ==
  ASSUME MachineInv, NEW r \in Request, NEW b \in M!Bearer, NEW x \in mtoken \cup {None},
         M!Call(r, b, x)
  PROVE  MachineInv'
<1>1. PICK out : out = ~M!Good(b)
  OBVIOUS
<1>2. PICK q : q = [at |-> "called", of |-> b, by |-> x, out |-> out]
  OBVIOUS
<1>3. /\ M!Exists(b) /\ IF b \in Cookie THEN x = None ELSE x \in mtoken /\ x.of = b
      /\ mreq' = [mreq EXCEPT ![r] = q] /\ UNCHANGED <<status, key, service, mtoken, final>>
  BY <1>1, <1>2 DEF M!Call, M!Begin, M!agentVars, M!keyVars
<1>4. out \in BOOLEAN
  BY <1>1 DEF M!Good
<1>5. x \in M!Token \cup {None} /\ (b \notin Cookie => x \in M!Token)
  BY <1>3, TokensAre
<1>6. q \in CallReq
  BY <1>2, <1>4, <1>5 DEF CallReq
<1>7. /\ q \in MachineReq /\ q.at = "called" /\ q.of = b /\ q.by = x
      /\ (q.out => ~M!Good(b))
  BY <1>1, <1>2, <1>6 DEF MachineReq
<1>8. Presented(q)
  BY <1>3, <1>5, <1>7 DEF Presented
<1>9. mtoken' \subseteq M!Token
  BY <1>3, TokensAre
<1> QED BY <1>3, <1>7, <1>8, <1>9, RequestMoves

(* A request that was looked at and is let in.                             *)
LEMMA LetsIn ==
  ASSUME MachineInv, NEW r \in Request, mreq[r].at = "called",
         mreq' = [mreq EXCEPT ![r] = [mreq[r] EXCEPT !.at = "let in"]],
         UNCHANGED <<status, key, service, mtoken, final>>,
         mreq[r].of \in Cookie \/ (mreq[r].of \in Link /\ ~mreq[r].by.exchanged)
           => M!Good(mreq[r].of)
  PROVE  MachineInv'
<1>1. PICK p, q : p = mreq[r] /\ q = [mreq[r] EXCEPT !.at = "let in"]
  OBVIOUS
<1>2. p \in CallReq /\ Presented(p)
  BY <1>1, MachineReqAt DEF MachineInv, MachineTypes
<1>3. q = [at |-> "let in", of |-> p.of, by |-> p.by, out |-> p.out]
  BY <1>1, <1>2 DEF CallReq
<1>4. q \in CallReq
  <2>1. p.of \in M!Bearer /\ p.by \in M!Token \cup {None} /\ p.out \in BOOLEAN
    BY <1>2 DEF CallReq
  <2> QED BY <1>3, <2>1 DEF CallReq
<1>5. /\ q \in MachineReq /\ q.at = "let in" /\ q.of = p.of /\ q.by = p.by
      /\ (q.out <=> p.out)
  BY <1>3, <1>4 DEF MachineReq
<1>6. Presented(q)
  BY <1>1, <1>2, <1>5 DEF Presented
<1>7. mtoken' \subseteq M!Token
  BY TokensAre
<1> QED BY <1>1, <1>5, <1>6, <1>7, RequestMoves

LEMMA VerifyAPIKeyStep ==
  ASSUME MachineInv, NEW r \in Request, M!VerifyAPIKey(r)
  PROVE  MachineInv'
<1>1. /\ mreq[r].at = "called" /\ UNCHANGED <<status, key, service, mtoken, final>>
      /\ \/ /\ M!Good(mreq[r].of)
            /\ mreq' = [mreq EXCEPT ![r] = [mreq[r] EXCEPT !.at = "let in"]]
         \/ M!Return(r)
  BY DEF M!VerifyAPIKey, M!At, M!agentVars
<1>2. mtoken' \subseteq M!Token
  BY <1>1, TokensAre
<1> QED BY <1>1, <1>2, LetsIn, ReturnStep

LEMMA RequireAuthStep ==
  ASSUME MachineInv, NEW r \in Request, M!RequireAuth(r)
  PROVE  MachineInv'
<1>1. /\ mreq[r].at = "called" /\ mreq[r].by # None
      /\ UNCHANGED <<status, key, service, mtoken, final>>
      /\ \/ /\ M!AsksStatus(mreq[r].by) => M!Good(mreq[r].by.of)
            /\ mreq' = [mreq EXCEPT ![r] = [mreq[r] EXCEPT !.at = "let in"]]
         \/ M!Return(r)
  BY DEF M!RequireAuth, M!At, M!agentVars, M!keyVars
<1>2. mtoken' \subseteq M!Token
  BY <1>1, TokensAre
<1>3. mreq[r].of \notin Cookie /\ mreq[r].by.of = mreq[r].of
  BY <1>1 DEF MachineInv, Presented
<1> QED BY <1>1, <1>2, <1>3, LetsIn, ReturnStep DEF M!AsksStatus

LEMMA MachineInitInv == M!MachinesInit => MachineInv
<1> SUFFICES ASSUME M!MachinesInit PROVE MachineInv
  OBVIOUS
<1>1. M!Idle \in MachineReq /\ M!Idle.at = "idle"
  BY DEF MachineReq, OtherReq, M!Idle
<1>2. MachineTypes /\ final = {} /\ \A r \in Request : mreq[r] = M!Idle
  BY <1>1 DEF M!MachinesInit, MachineTypes
<1> QED BY <1>1, <1>2 DEF MachineInv, Presented

LEMMA MachineStep == MachineInv /\ (MachinesNext \/ UNCHANGED machineVars) => MachineInv'
<1> SUFFICES ASSUME MachineInv, MachinesNext \/ UNCHANGED machineVars PROVE MachineInv'
  OBVIOUS
<1>1. CASE UNCHANGED machineVars
  BY <1>1, TokensAre, TokensStep DEF machineVars
<1>2. ASSUME UNCHANGED <<status, key, service, mreq, final, mtoken>> PROVE MachineInv'
  BY <1>2, TokensAre, TokensStep
<1>3. ASSUME NEW u \in User, M!ChangeMembership(u) PROVE MachineInv'
  BY <1>2, <1>3 DEF M!ChangeMembership, M!agentVars, M!keyVars
<1>4. ASSUME NEW k \in Cookie, NEW done \in BOOLEAN,
             M!KeyExpires(k) \/ M!TouchAPIKeyLastUsed(k, done)
      PROVE  MachineInv'
  BY <1>2, <1>4 DEF M!KeyExpires, M!TouchAPIKeyLastUsed, M!agentVars
<1>5. ASSUME NEW r \in Request,
             \/ \E u \in User : M!SponsorBelongsToTenant(r, u, [at |-> "create", to |-> u])
             \/ \E u, v \in User :
                  M!SponsorBelongsToTenant(r, v, [at |-> "transfer", from |-> u, to |-> v])
      PROVE  MachineInv'
  <2>1. \A u, v \in User : /\ [at |-> "create", to |-> u] \in OtherReq
                              /\ [at |-> "transfer", from |-> u, to |-> v] \in OtherReq
    BY DEF OtherReq
  <2> QED BY <1>5, <2>1, SponsorStep
<1>6. ASSUME NEW r \in Request, M!TransferAgentSponsor(r) \/ M!Serve(r) PROVE MachineInv'
  <2>1. M!Return(r) /\ UNCHANGED <<status, key, service, mtoken, final>>
    BY <1>6 DEF M!TransferAgentSponsor, M!Serve, M!agentVars, M!keyVars
  <2>2. mtoken' \subseteq M!Token
    BY <2>1, TokensAre
  <2> QED BY <2>1, <2>2, ReturnStep
<1>7. ASSUME NEW r \in Request, NEW b \in M!Bearer,
             M!AskToken(r, b) \/ \E x \in mtoken \cup {None} : M!Call(r, b, x)
      PROVE  MachineInv'
  BY <1>7, AskTokenStep, CallStep
<1>8. ASSUME NEW r \in Request, NEW a \in Link,
             \/ M!CreateAgent(r, a)
             \/ \E target \in DOMAIN M!Transitions : M!GetAgentStatus(r, a, target)
      PROVE  MachineInv'
  BY <1>8, CreateAgentStep, GetAgentStatusStep
<1>9. ASSUME NEW r \in Request,
             \/ M!Transition(r) \/ M!GetForToken(r) \/ M!IssueToken(r)
             \/ M!VerifyAPIKey(r) \/ M!RequireAuth(r)
      PROVE  MachineInv'
  BY <1>9, TransitionStep, GetForTokenStep, MachineIssueStep, VerifyAPIKeyStep,
     RequireAuthStep
<1>10. CASE \/ M!KillAllAgents
            \/ \E a \in Link : M!DeleteAgent(a)
            \/ \E k \in Cookie : M!CreateAPIKey(k) \/ M!RevokeAPIKey(k) \/ M!KeyExpires(k)
            \/ \E s \in Conn : M!CreateServicePrincipal(s) \/ M!DisableServicePrincipal(s)
            \/ \E x \in mtoken : M!TokenExchange(x) \/ M!Expire(x)
  BY <1>4, <1>10, KillAllAgentsStep, DeleteAgentStep, KeyStep, ServiceStep,
     TokenExchangeStep
<1>11. CASE MachinesNext
  <2>1. CASE \E r \in Request :
               \/ \E u \in User :
                    M!SponsorBelongsToTenant(r, u, [at |-> "create", to |-> u])
               \/ \E u, v \in User :
                    M!SponsorBelongsToTenant(r, v, [at |-> "transfer", from |-> u, to |-> v])
               \/ \E a \in Link :
                    \/ M!CreateAgent(r, a)
                    \/ \E target \in DOMAIN M!Transitions : M!GetAgentStatus(r, a, target)
               \/ \E b \in M!Bearer :
                    M!AskToken(r, b) \/ \E x \in mtoken \cup {None} : M!Call(r, b, x)
               \/ M!TransferAgentSponsor(r) \/ M!Transition(r) \/ M!GetForToken(r)
               \/ M!IssueToken(r) \/ M!VerifyAPIKey(r) \/ M!RequireAuth(r) \/ M!Serve(r)
    BY <2>1, <1>5, <1>6, <1>7, <1>8, <1>9
  <2>2. CASE \/ \E u \in User : M!ChangeMembership(u)
             \/ \E k \in Cookie, done \in BOOLEAN : M!TouchAPIKeyLastUsed(k, done)
    BY <2>2, <1>3, <1>4
  <2>3. M!MachinesNext
    BY <1>11 DEF MachinesNext
  <2> QED BY <1>10, <2>1, <2>2, <2>3, ZenonT(60) DEF M!MachinesNext
<1> QED BY <1>1, <1>11

LEMMA MachineSafe == MachineInv => M!WithdrawnIsOut /\ M!DecommissionIsFinal
BY DEF MachineInv, Presented, Ended, M!WithdrawnIsOut, M!DecommissionIsFinal, M!At, M!Known

-----------------------------------------------------------------------------
(* Policies: conditions are trees, so what is said of each from its parts  *)
(* is said of one thing only, and what holds of each if it holds of its    *)
(* parts holds of all.                                                     *)
LEMMA LeastNumber ==
  ASSUME NEW N \in SUBSET Nat, N # {}
  PROVE  \E n \in N : \A m \in N : n <= m
<1>1. PICK n \in N : \A m \in N : ~(<<m, n>> \in OpToRel(<, Nat))
  BY WFMin, NatLessThanWellFounded, Zenon
<1>2. \A m \in N : ~(m < n)
  BY <1>1 DEF OpToRel
<1> QED BY <1>2

Below(f, g, c) == \A d \in Condition : Height[d] < Height[c] => f[d] = g[d]

LEMMA Recursion ==
  ASSUME NEW Result, Result # {}, NEW step \in [[Condition -> Result] -> [Condition -> Result]],
         \A c \in Condition, f, g \in [Condition -> Result] : Below(f, g, c) => step[f][c] = step[g][c]
  PROVE  \E f \in [Condition -> Result] : step[f] = f
<1> DEFINE Function == [Condition -> Result]
           Good(f, n) == \A c \in Condition : Height[c] < n => step[f][c] = f[c]
<1>1. \A c \in Condition : Height[c] \in Nat
  BY PoliciesAssumption
<1>2. \A f \in Function : step[f] \in Function
  OBVIOUS
<1>3. ASSUME NEW n \in Nat PROVE \E f \in Function : Good(f, n)
  <2> DEFINE Bad == {k \in Nat : ~ \E f \in Function : Good(f, k)}
  <2>1. SUFFICES ASSUME Bad # {} PROVE FALSE
    OBVIOUS
  <2>2. PICK k \in Bad : \A j \in Bad : k <= j
    BY <2>1, LeastNumber
  <2>3. CASE k = 0
    <3>1. PICK v \in Result : TRUE
      OBVIOUS
    <3>2. PICK f \in Function : f = [c \in Condition |-> v]
      BY <3>1
    <3>3. Good(f, 0)
      BY <1>1
    <3> QED BY <2>2, <2>3, <3>3
  <2>4. CASE k # 0
    <3>1. k - 1 \in Nat /\ ~(k <= k - 1)
      BY <2>2, <2>4
    <3>2. PICK f \in Function : Good(f, k - 1)
      <4>1. k - 1 \notin Bad
        <5> HIDE DEF Bad
        <5> QED BY <2>2, <3>1
      <4> QED BY <3>1, <4>1
    <3>3. PICK g \in Function : g = step[f]
      BY <1>2
    <3>4. ASSUME NEW c \in Condition, Height[c] < k PROVE step[g][c] = g[c]
      <4>1. ASSUME NEW d \in Condition, Height[d] < Height[c] PROVE g[d] = f[d]
        <5>1. Height[d] < k - 1
          BY <1>1, <2>2, <3>4, <4>1
        <5> QED BY <3>2, <3>3, <5>1
      <4> QED BY <3>3, <4>1 DEF Below
    <3> QED BY <2>2, <3>4
  <2> QED BY <2>3, <2>4
<1>4. ASSUME NEW n \in Nat, NEW f \in Function, NEW g \in Function, Good(f, n), Good(g, n),
             NEW c \in Condition, Height[c] < n
      PROVE  f[c] = g[c]
  <2> DEFINE Bad == {Height[d] : d \in {e \in Condition : Height[e] < n /\ f[e] # g[e]}}
  <2>1. SUFFICES ASSUME f[c] # g[c] PROVE FALSE
    OBVIOUS
  <2>2. Bad \in SUBSET Nat /\ Bad # {}
    BY <1>1, <1>4, <2>1
  <2>3. PICK k \in Bad : \A j \in Bad : k <= j
    BY <2>2, LeastNumber
  <2>4. PICK d \in Condition : Height[d] < n /\ f[d] # g[d] /\ k = Height[d]
    BY <2>3
  <2>5. ASSUME NEW e \in Condition, Height[e] < Height[d] PROVE f[e] = g[e]
    <3>1. Height[e] \in Nat /\ Height[e] < n /\ ~(k <= Height[e])
      BY <1>1, <2>4, <2>5
    <3>2. Height[e] \notin Bad
      <4> HIDE DEF Bad
      <4> QED BY <2>3, <3>1
    <3> QED BY <3>1, <3>2
  <2>6. step[f][d] = step[g][d]
    BY <2>5 DEF Below
  <2> QED BY <1>4, <2>4, <2>6
<1> DEFINE Upto(c) == CHOOSE f \in Function : Good(f, Height[c] + 1)
           whole == [c \in Condition |-> Upto(c)[c]]
<1>5. ASSUME NEW c \in Condition PROVE Upto(c) \in Function /\ Good(Upto(c), Height[c] + 1)
  <2>1. \E f \in Function : Good(f, Height[c] + 1)
    BY <1>1, <1>3
  <2> QED BY <2>1
<1> HIDE DEF Upto
<1>6. whole \in Function
  BY <1>5
<1>7. ASSUME NEW c \in Condition PROVE step[whole][c] = whole[c]
  <2>1. ASSUME NEW d \in Condition, Height[d] < Height[c] PROVE whole[d] = Upto(c)[d]
    <3>1. Good(Upto(c), Height[d] + 1)
      BY <1>1, <1>5, <2>1
    <3>2. Height[d] + 1 \in Nat /\ Height[d] < Height[d] + 1
      BY <1>1
    <3> HIDE DEF Good, Function
    <3>3. Upto(d)[d] = Upto(c)[d]
      BY <1>4, <1>5, <3>1, <3>2
    <3> QED BY <3>3
  <2>2. step[whole][c] = step[Upto(c)][c]
    BY <1>5, <1>6, <2>1 DEF Below
  <2>3. step[Upto(c)][c] = Upto(c)[c]
    BY <1>1, <1>5
  <2> QED BY <2>2, <2>3
<1>8. step[whole] = whole
  <2> HIDE DEF whole
  <2> QED BY <1>2, <1>6, <1>7
<1> QED BY <1>6, <1>8

-----------------------------------------------------------------------------
Outcome == {"yes", "no", "error", "panic"}

(* The first other element, or the last word when there is none.           *)
LEMMA FirstOtherIs ==
  ASSUME NEW s, DOMAIN s \subseteq Nat, NEW go, NEW last
  PROVE  \/ \E i \in DOMAIN s : s[i] # go /\ P!FirstOther(s, go, last) = s[i]
         \/ (\A i \in DOMAIN s : s[i] = go) /\ P!FirstOther(s, go, last) = last
<1> DEFINE other == {i \in DOMAIN s : s[i] # go}
<1>1. CASE other = {}
  BY <1>1 DEF P!FirstOther
<1>2. CASE other # {}
  <2>1. \E i \in other : \A j \in other : i <= j
    <3>1. other \in SUBSET Nat
      OBVIOUS
    <3> HIDE DEF other
    <3> QED BY <1>2, <3>1, LeastNumber
  <2>2. PICK i : i = CHOOSE k \in other : \A j \in other : k <= j
    OBVIOUS
  <2>3. i \in other
    <3> HIDE DEF other
    <3> QED BY <2>1, <2>2
  <2>4. P!FirstOther(s, go, last) = s[i]
    BY <1>2, <2>2 DEF P!FirstOther
  <2> QED BY <2>3, <2>4
<1> QED BY <1>1, <1>2

LEMMA LeafOutcome ==
  ASSUME NEW c \in Condition, c.kind = "leaf", NEW bag \in P!Bags
  PROVE  P!EvalLeaf(c, bag) \in Outcome
<1>1. c.attr \in Attr /\ DOMAIN c.value.of \subseteq Nat
  BY PoliciesAssumption
<1>2. CASE c.op = "exists" \/ bag[c.attr] = None
  BY <1>2 DEF P!EvalLeaf, P!YesNo, Outcome
<1>3. CASE c.op # "exists" /\ bag[c.attr] # None
  <2>1. PICK a, b : a = bag[c.attr] /\ b = c.value
    OBVIOUS
  <2>2. DOMAIN a.of \subseteq Nat /\ DOMAIN b.of \subseteq Nat
    BY <1>1, <1>3, <2>1, PoliciesAssumption DEF P!Bags
  <2>3. \A x, y : P!Equal(x, y) \in Outcome
    BY DEF P!Equal, P!YesNo, Outcome
  <2>4. P!Member(a, b.of) \in Outcome
    <3> DEFINE s == [i \in DOMAIN b.of |-> P!Equal(a, b.of[i])]
    <3>1. DOMAIN s \subseteq Nat /\ \A i \in DOMAIN s : s[i] \in Outcome
      BY <2>2, <2>3
    <3> HIDE DEF s
    <3>2. P!FirstOther(s, "no", "no") \in Outcome
      BY <3>1, FirstOtherIs DEF Outcome
    <3> QED BY <3>2 DEF P!Member, s
  <2>5. P!ArrayHas(b, a.of) \in Outcome
    <3> DEFINE s == [i \in DOMAIN a.of |-> P!Equal(a.of[i], b)]
    <3>1. DOMAIN s \subseteq Nat /\ \A i \in DOMAIN s : s[i] \in Outcome
      BY <2>2, <2>3
    <3> HIDE DEF s
    <3>2. P!FirstOther(s, "no", "no") \in Outcome
      BY <3>1, FirstOtherIs DEF Outcome
    <3> QED BY <3>2 DEF P!ArrayHas, s
  <2>6. \A x \in Outcome : P!Opposite(x) \in Outcome
    BY DEF P!Opposite, Outcome
  <2>7. \A x : P!YesNo(x) \in Outcome
    BY DEF P!YesNo, Outcome
  <2>8. "error" \in Outcome
    BY DEF Outcome
  <2>9. P!Compare(c.op, a, b) \in Outcome
    BY <2>3, <2>4, <2>5, <2>6, <2>7, <2>8 DEF P!Compare
  <2> QED BY <1>3, <2>1, <2>9 DEF P!EvalLeaf
<1> QED BY <1>2, <1>3

(* The two recursions of Policies, one part deeper.                        *)
EvaluateStep(out, bag) ==
  [c \in Condition |->
     CASE c.kind = "empty" -> "yes"
       [] c.kind = "leaf" -> P!EvalLeaf(c, bag)
       [] c.kind = "not" -> P!Opposite(out[c.of[1]])
       [] c.kind = "all" -> P!FirstOther([i \in DOMAIN c.of |-> out[c.of[i]]], "yes", "yes")
       [] OTHER -> P!FirstOther([i \in DOMAIN c.of |-> out[c.of[i]]], "no", "no")]

HoldsStep(yes, bag, guess) ==
  [c \in Condition |->
     CASE c.kind = "empty" -> TRUE
       [] c.kind = "leaf" -> P!EvalLeaf(c, bag) = "yes" \/ c \in guess
       [] c.kind = "not" -> ~yes[c.of[1]]
       [] c.kind = "all" -> \A i \in DOMAIN c.of : yes[c.of[i]]
       [] OTHER -> \E i \in DOMAIN c.of : yes[c.of[i]]]

LEMMA EvaluateIs ==
  ASSUME NEW bag
  PROVE  \A c : P!EvaluateNode(c, bag) = (CHOOSE out : out = EvaluateStep(out, bag))[c]
BY Zenon DEF P!EvaluateNode, EvaluateStep

LEMMA HoldsIs ==
  ASSUME NEW bag, NEW guess
  PROVE  \A c : P!Holds(c, bag, guess) = (CHOOSE yes : yes = HoldsStep(yes, bag, guess))[c]
BY Zenon DEF P!Holds, HoldsStep

(* A condition has one of five shapes, and parts that are less deep.       *)
LEMMA Shapes ==
  ASSUME NEW c \in Condition
  PROVE  /\ Height[c] \in Nat
         /\ c.kind \in {"empty", "leaf", "not", "all", "any"}
         /\ c.kind = "not" => 1 \in DOMAIN c.of
         /\ c.kind \in {"not", "all", "any"} =>
              /\ DOMAIN c.of \subseteq Nat
              /\ \A i \in DOMAIN c.of : c.of[i] \in Condition /\ Height[c.of[i]] < Height[c]
BY PoliciesAssumption

LEMMA StepOutcome ==
  ASSUME NEW bag \in P!Bags, NEW out, NEW c \in Condition,
         \A d \in Condition : Height[d] < Height[c] => out[d] \in Outcome
  PROVE  EvaluateStep(out, bag)[c] \in Outcome
<1>1. CASE c.kind \in {"empty", "leaf"}
  BY <1>1, LeafOutcome DEF EvaluateStep, Outcome
<1>2. CASE c.kind = "not"
  <2>1. out[c.of[1]] \in Outcome
    BY <1>2, Shapes
  <2> QED BY <1>2, <2>1 DEF EvaluateStep, P!Opposite, Outcome
<1>3. CASE c.kind \in {"all", "any"}
  <2> DEFINE s == [i \in DOMAIN c.of |-> out[c.of[i]]]
  <2>1. DOMAIN s \subseteq Nat /\ \A i \in DOMAIN s : s[i] \in Outcome
    BY <1>3, Shapes
  <2>2. EvaluateStep(out, bag)[c] \in {P!FirstOther(s, "yes", "yes"), P!FirstOther(s, "no", "no")}
    BY <1>3 DEF EvaluateStep
  <2> HIDE DEF s
  <2>3. P!FirstOther(s, "yes", "yes") \in Outcome /\ P!FirstOther(s, "no", "no") \in Outcome
    BY <2>1, FirstOtherIs DEF Outcome
  <2> QED BY <2>2, <2>3
<1> QED BY <1>1, <1>2, <1>3, Shapes

LEMMA EvaluateUnfolds ==
  ASSUME NEW bag \in P!Bags
  PROVE  \E out : out = EvaluateStep(out, bag) /\ \A c : P!EvaluateNode(c, bag) = out[c]
<1> DEFINE Function == [Condition -> Outcome]
           step == [f \in Function |-> EvaluateStep(f, bag)]
<1>1. ASSUME NEW f \in Function PROVE EvaluateStep(f, bag) \in Function
  <2>1. \A c \in Condition : EvaluateStep(f, bag)[c] \in Outcome
    BY StepOutcome
  <2>2. EvaluateStep(f, bag) = [c \in Condition |-> EvaluateStep(f, bag)[c]]
    BY DEF EvaluateStep
  <2> QED BY <2>1, <2>2
<1>2. step \in [Function -> Function]
  BY <1>1
<1>3. ASSUME NEW c \in Condition, NEW f \in Function, NEW g \in Function, Below(f, g, c)
      PROVE  EvaluateStep(f, bag)[c] = EvaluateStep(g, bag)[c]
  <2>1. CASE c.kind \in {"empty", "leaf"}
    BY <2>1 DEF EvaluateStep
  <2>2. CASE c.kind = "not"
    <3>1. f[c.of[1]] = g[c.of[1]]
      BY <1>3, <2>2, Shapes DEF Below
    <3> QED BY <2>2, <3>1 DEF EvaluateStep
  <2>3. CASE c.kind \in {"all", "any"}
    <3>1. \A i \in DOMAIN c.of : f[c.of[i]] = g[c.of[i]]
      BY <1>3, <2>3, Shapes DEF Below
    <3>2. [i \in DOMAIN c.of |-> f[c.of[i]]] = [i \in DOMAIN c.of |-> g[c.of[i]]]
      BY <3>1
    <3> QED BY <2>3, <3>2 DEF EvaluateStep
  <2> QED BY <2>1, <2>2, <2>3, Shapes
<1>4. \A c \in Condition, f, g \in Function : Below(f, g, c) => step[f][c] = step[g][c]
  BY <1>3
<1>5. Outcome # {}
  BY DEF Outcome
<1>6. \E f \in Function : step[f] = f
  <2> HIDE DEF step
  <2> QED BY <1>2, <1>4, <1>5, Recursion
<1>7. \E out : out = EvaluateStep(out, bag)
  BY <1>6
<1>8. PICK out : out = CHOOSE f : f = EvaluateStep(f, bag)
  OBVIOUS
<1>9. out = EvaluateStep(out, bag)
  BY <1>7, <1>8
<1> QED BY <1>8, <1>9, EvaluateIs

LEMMA HoldsUnfolds ==
  ASSUME NEW bag, NEW guess
  PROVE  \E yes : yes = HoldsStep(yes, bag, guess) /\ \A c : P!Holds(c, bag, guess) = yes[c]
<1> DEFINE Function == [Condition -> BOOLEAN]
           step == [f \in Function |-> HoldsStep(f, bag, guess)]
<1>1. ASSUME NEW f \in Function PROVE HoldsStep(f, bag, guess) \in Function
  <2>1. ASSUME NEW c \in Condition PROVE HoldsStep(f, bag, guess)[c] \in BOOLEAN
    BY Shapes DEF HoldsStep
  <2>2. HoldsStep(f, bag, guess) = [c \in Condition |-> HoldsStep(f, bag, guess)[c]]
    BY DEF HoldsStep
  <2> QED BY <2>1, <2>2
<1>2. step \in [Function -> Function]
  BY <1>1
<1>3. ASSUME NEW c \in Condition, NEW f \in Function, NEW g \in Function, Below(f, g, c)
      PROVE  HoldsStep(f, bag, guess)[c] = HoldsStep(g, bag, guess)[c]
  <2>1. CASE c.kind \in {"empty", "leaf"}
    BY <2>1 DEF HoldsStep
  <2>2. CASE c.kind = "not"
    <3>1. f[c.of[1]] = g[c.of[1]]
      BY <1>3, <2>2, Shapes DEF Below
    <3> QED BY <2>2, <3>1 DEF HoldsStep
  <2>3. CASE c.kind \in {"all", "any"}
    <3>1. \A i \in DOMAIN c.of : f[c.of[i]] = g[c.of[i]]
      BY <1>3, <2>3, Shapes DEF Below
    <3> QED BY <2>3, <3>1 DEF HoldsStep
  <2> QED BY <2>1, <2>2, <2>3, Shapes
<1>4. \A c \in Condition, f, g \in Function : Below(f, g, c) => step[f][c] = step[g][c]
  BY <1>3
<1>6. \E f \in Function : step[f] = f
  <2> HIDE DEF step
  <2> QED BY <1>2, <1>4, Recursion
<1>7. \E yes : yes = HoldsStep(yes, bag, guess)
  BY <1>6
<1>8. PICK yes : yes = CHOOSE f : f = HoldsStep(f, bag, guess)
  OBVIOUS
<1>9. yes = HoldsStep(yes, bag, guess)
  BY <1>7, <1>8
<1> QED BY <1>8, <1>9, HoldsIs

-----------------------------------------------------------------------------
(* What a condition comes out as when evaluation stops early is what the   *)
(* whole tree says, whatever its broken leaves are taken for: a part that  *)
(* comes out "yes" holds, one that comes out "no" does not.                *)
Answers(c, out, yes) ==
  /\ out[c] \in Outcome
  /\ out[c] = "yes" => yes[c]
  /\ out[c] = "no" => ~yes[c]

LEMMA PartsAnswer ==
  ASSUME NEW bag \in P!Bags, NEW guess,
         \A l \in guess : P!EvalLeaf(l, bag) \in {"error", "panic"},
         NEW out, out = EvaluateStep(out, bag), NEW yes, yes = HoldsStep(yes, bag, guess),
         NEW c \in Condition,
         \A d \in Condition : Height[d] < Height[c] => Answers(d, out, yes)
  PROVE  Answers(c, out, yes)
<1>1. EvaluateStep(out, bag)[c] \in Outcome
  BY StepOutcome DEF Answers
<1>2. out[c] = EvaluateStep(out, bag)[c] /\ yes[c] = HoldsStep(yes, bag, guess)[c]
  OBVIOUS
<1>3. CASE c.kind \in {"empty", "leaf"}
  BY <1>1, <1>2, <1>3 DEF Answers, EvaluateStep, HoldsStep
<1>4. CASE c.kind = "not"
  <2>1. Answers(c.of[1], out, yes)
    BY <1>4, Shapes
  <2>2. out[c] = P!Opposite(out[c.of[1]]) /\ yes[c] = ~yes[c.of[1]]
    BY <1>2, <1>4 DEF EvaluateStep, HoldsStep
  <2> QED BY <1>1, <1>2, <2>1, <2>2 DEF Answers, P!Opposite
<1>5. CASE c.kind \in {"all", "any"}
  <2> DEFINE s == [i \in DOMAIN c.of |-> out[c.of[i]]]
  <2>1. /\ DOMAIN s = DOMAIN c.of /\ DOMAIN s \subseteq Nat
        /\ \A i \in DOMAIN s : s[i] = out[c.of[i]] /\ Answers(c.of[i], out, yes)
    BY <1>5, Shapes
  <2>2. /\ c.kind = "all" => /\ out[c] = P!FirstOther(s, "yes", "yes")
                             /\ yes[c] = \A i \in DOMAIN c.of : yes[c.of[i]]
        /\ c.kind = "any" => /\ out[c] = P!FirstOther(s, "no", "no")
                             /\ yes[c] = \E i \in DOMAIN c.of : yes[c.of[i]]
    BY <1>2, <1>5 DEF EvaluateStep, HoldsStep
  <2> HIDE DEF s
  <2>3. CASE c.kind = "all"
    <3>1. \/ \E i \in DOMAIN s : s[i] # "yes" /\ out[c] = s[i]
          \/ (\A i \in DOMAIN s : s[i] = "yes") /\ out[c] = "yes"
      BY <2>1, <2>2, <2>3, FirstOtherIs
    <3>2. CASE (\A i \in DOMAIN s : s[i] = "yes") /\ out[c] = "yes"
      <4>1. \A i \in DOMAIN c.of : yes[c.of[i]]
        BY <2>1, <3>2 DEF Answers
      <4>2. yes[c]
        BY <2>2, <2>3, <4>1
      <4> QED BY <1>1, <1>2, <3>2, <4>2 DEF Answers
    <3>3. ASSUME NEW i \in DOMAIN s, s[i] # "yes", out[c] = s[i] PROVE Answers(c, out, yes)
      <4>1. i \in DOMAIN c.of /\ (out[c] = "no" => ~yes[c.of[i]])
        BY <2>1, <3>3 DEF Answers
      <4>2. out[c] = "no" => ~yes[c]
        BY <2>2, <2>3, <4>1
      <4> QED BY <1>1, <1>2, <3>3, <4>2 DEF Answers
    <3> QED BY <3>1, <3>2, <3>3
  <2>4. CASE c.kind = "any"
    <3>1. \/ \E i \in DOMAIN s : s[i] # "no" /\ out[c] = s[i]
          \/ (\A i \in DOMAIN s : s[i] = "no") /\ out[c] = "no"
      BY <2>1, <2>2, <2>4, FirstOtherIs
    <3>2. CASE (\A i \in DOMAIN s : s[i] = "no") /\ out[c] = "no"
      <4>1. \A i \in DOMAIN c.of : ~yes[c.of[i]]
        BY <2>1, <3>2 DEF Answers
      <4>2. ~yes[c]
        BY <2>2, <2>4, <4>1
      <4> QED BY <1>1, <1>2, <3>2, <4>2 DEF Answers
    <3>3. ASSUME NEW i \in DOMAIN s, s[i] # "no", out[c] = s[i] PROVE Answers(c, out, yes)
      <4>1. i \in DOMAIN c.of /\ (out[c] = "yes" => yes[c.of[i]])
        BY <2>1, <3>3 DEF Answers
      <4>2. out[c] = "yes" => yes[c]
        BY <2>2, <2>4, <4>1
      <4> QED BY <1>1, <1>2, <3>3, <4>2 DEF Answers
    <3> QED BY <3>1, <3>2, <3>3
  <2> QED BY <1>5, <2>3, <2>4
<1> QED BY <1>3, <1>4, <1>5, Shapes

LEMMA TreesAnswer ==
  ASSUME NEW bag \in P!Bags, NEW guess,
         \A l \in guess : P!EvalLeaf(l, bag) \in {"error", "panic"},
         NEW out, out = EvaluateStep(out, bag), NEW yes, yes = HoldsStep(yes, bag, guess)
  PROVE  \A c \in Condition : Answers(c, out, yes)
<1> DEFINE Bad == {Height[d] : d \in {e \in Condition : ~Answers(e, out, yes)}}
<1>1. SUFFICES ASSUME NEW c \in Condition, ~Answers(c, out, yes) PROVE FALSE
  OBVIOUS
<1>2. Bad \in SUBSET Nat /\ Bad # {}
  BY <1>1, Shapes
<1>3. PICK k \in Bad : \A j \in Bad : k <= j
  BY <1>2, LeastNumber
<1>4. PICK d \in Condition : ~Answers(d, out, yes) /\ k = Height[d]
  BY <1>3
<1>5. ASSUME NEW e \in Condition, Height[e] < Height[d] PROVE Answers(e, out, yes)
  <2>1. Height[e] \in Nat /\ ~(k <= Height[e])
    BY <1>4, <1>5, Shapes
  <2>2. Height[e] \notin Bad
    <3> HIDE DEF Bad
    <3> QED BY <1>3, <2>1
  <2> QED BY <2>2
<1> QED BY <1>4, <1>5, PartsAnswer

(* So a request that is allowed has a policy for it and none against it.   *)
PolicyInv == policy \in [Policy -> P!Row \cup {None}]

LEMMA ConditionAnswers ==
  ASSUME NEW bag \in P!Bags, NEW c \in Condition, NEW guess \in SUBSET P!Broken(bag)
  PROVE  /\ P!EvaluateNode(c, bag) \in Outcome
         /\ P!EvaluateNode(c, bag) = "yes" => P!Holds(c, bag, guess)
         /\ P!EvaluateNode(c, bag) = "no" => ~P!Holds(c, bag, guess)
<1>1. \A l \in guess : P!EvalLeaf(l, bag) \in {"error", "panic"}
  BY DEF P!Broken
<1>2. PICK out : out = EvaluateStep(out, bag) /\ \A d : P!EvaluateNode(d, bag) = out[d]
  BY EvaluateUnfolds
<1>3. PICK yes : yes = HoldsStep(yes, bag, guess) /\ \A d : P!Holds(d, bag, guess) = yes[d]
  BY HoldsUnfolds
<1>4. Answers(c, out, yes)
  BY <1>1, <1>2, <1>3, TreesAnswer
<1> QED BY <1>2, <1>3, <1>4 DEF Answers

LEMMA PolicySafe == PolicyInv => P!AllowIsCertain
<1> SUFFICES ASSUME PolicyInv, NEW bag \in P!Bags, NEW target \in ResourceType,
                    P!Evaluate(target, bag) = "allow", NEW guess \in SUBSET P!Broken(bag)
             PROVE  /\ \E p \in P!Candidates(target) :
                         policy[p].effect = "allow" /\ P!Holds(policy[p].cond, bag, guess)
                    /\ \A p \in P!Candidates(target) :
                         policy[p].effect = "deny" => ~P!Holds(policy[p].cond, bag, guess)
  BY DEF P!AllowIsCertain
<1>1. ASSUME NEW p \in P!Candidates(target)
      PROVE  policy[p].effect \in {"allow", "deny"} /\ policy[p].cond \in Condition
  BY DEF P!Candidates, PolicyInv, P!Row
<1>2. /\ \E p \in P!Candidates(target) : P!Vote(p, bag) = "allow"
      /\ \A p \in P!Candidates(target) : P!Vote(p, bag) \notin {"deny", "panic"}
  <2> DEFINE votes == {P!Vote(p, bag) : p \in P!Candidates(target)}
  <2>1. "panic" \notin votes /\ "deny" \notin votes /\ "allow" \in votes
    BY DEF P!Evaluate
  <2> QED BY <2>1
<1>3. PICK p \in P!Candidates(target) : P!Vote(p, bag) = "allow"
  BY <1>2
<1>4. policy[p].effect = "allow" /\ P!Holds(policy[p].cond, bag, guess)
  BY <1>1, <1>3, ConditionAnswers DEF P!Vote
<1>5. ASSUME NEW q \in P!Candidates(target), policy[q].effect = "deny"
      PROVE  ~P!Holds(policy[q].cond, bag, guess)
  BY <1>1, <1>2, <1>5, ConditionAnswers DEF P!Vote, Outcome
<1> QED BY <1>4, <1>5

LEMMA PolicyInitInv == P!PoliciesInit => PolicyInv
BY DEF P!PoliciesInit, PolicyInv

LEMMA PolicyStep == PolicyInv /\ (PoliciesNext \/ UNCHANGED policy) => PolicyInv'
<1> SUFFICES ASSUME PolicyInv, PoliciesNext PROVE PolicyInv'
  BY DEF PolicyInv
<1>1. PICK p \in Policy :
        \/ P!Delete(p)
        \/ policy[p] # None /\ P!Update(p, [policy[p] EXCEPT !.enabled = ~@])
        \/ \E row \in P!Row : P!Create(p, row)
  BY DEF PoliciesNext
<1>2. CASE P!Delete(p)
  BY <1>2 DEF P!Delete, PolicyInv
<1>3. CASE policy[p] # None /\ P!Update(p, [policy[p] EXCEPT !.enabled = ~@])
  <2>1. policy[p] \in P!Row
    BY <1>3 DEF PolicyInv
  <2>2. [policy[p] EXCEPT !.enabled = ~@] \in P!Row
    BY <2>1 DEF P!Row
  <2> QED BY <1>3, <2>2 DEF P!Update, PolicyInv
<1>4. CASE \E row \in P!Row : P!Create(p, row)
  BY <1>4 DEF P!Create, PolicyInv
<1> QED BY <1>1, <1>2, <1>3, <1>4

-----------------------------------------------------------------------------
(* One part runs at a time: every other keeps its variables.               *)
LEMMA PartsRun ==
  ASSUME [IdentityNext]_allVars
  PROVE  /\ A!AccountsNext \/ UNCHANGED accountVars
         /\ C!CeremoniesNext \/ UNCHANGED ceremonyVars
         /\ F!FactorsNext \/ UNCHANGED factorVars
         /\ V!VaultNext \/ UNCHANGED vaultVars
         /\ B!BillingNext \/ UNCHANGED billingVars
         /\ S!SsoNext \/ UNCHANGED ssoVars
         /\ D!DomainsNext \/ UNCHANGED domainVars
         /\ PoliciesNext \/ UNCHANGED policy
         /\ U!ScimNext \/ UNCHANGED scimVars
         /\ MachinesNext \/ UNCHANGED machineVars
         /\ K!ClientsNext \/ UNCHANGED clientVars
         /\ L!DirectoryNext \/ UNCHANGED directoryVars
<1>1. CASE UNCHANGED allVars
  BY <1>1 DEF allVars, upperVars, lowerVars, actorVars
<1>2. CASE IdentityNext
  BY <1>2 DEF IdentityNext, upperVars, lowerVars, actorVars
<1> QED BY <1>1, <1>2

LEMMA PartsBegin ==
  ASSUME IdentityInit
  PROVE  /\ AccountInv /\ CeremonyInv /\ FactorInv /\ VaultInv /\ BillingInv
         /\ SsoInv /\ DomainInv /\ PolicyInv /\ ScimInv /\ MachineInv /\ ClientInv
         /\ DirectoryInv
BY AccountInitInv, CeremonyInitInv, FactorInitInv, VaultInitInv, BillingInitInv,
   SsoInitInv, DomainInitInv, PolicyInitInv, ScimInitInv, MachineInitInv, ClientInitInv,
   DirectoryInitInv
   DEF IdentityInit

(* However first sign-ins through an outside identity, deletions, restores,*)
(* new addresses and other people's sign-ups interleave, an identity never *)
(* gets into two accounts that are both live (social.go:352, saml.go:316), *)
(* except one of which two first sign-ins overlapped while the provider    *)
(* gave them different addresses.                                          *)
THEOREM OneLiveAccountAlways == IdentitySpec => []OneLiveAccountPerIdentity
<1>1. IdentityInit => AccountInv
  BY PartsBegin
<1>2. AccountInv /\ [IdentityNext]_allVars => AccountInv'
  BY PartsRun, AccountStep
<1>3. AccountInv => OneLiveAccountPerIdentity
  BY AccountSafe DEF OneLiveAccountPerIdentity
<1> QED BY <1>1, <1>2, <1>3, PTL DEF IdentitySpec

(* An invitation, the session of a ceremony, a one-time code, the state of *)
(* a connection and a payment take effect once at most, for any number of  *)
(* requests that present them and any order of their steps.                *)
THEOREM HonouredOnceAlways == IdentitySpec => []HonouredOnce
<1> DEFINE Inv == AccountInv /\ CeremonyInv /\ FactorInv /\ VaultInv /\ BillingInv
<1>1. IdentityInit => Inv
  BY PartsBegin
<1>2. Inv /\ [IdentityNext]_allVars => Inv'
  BY PartsRun, AccountStep, CeremonyStep, FactorStep, VaultStep, BillingStep
<1>3. Inv => HonouredOnce
  BY AccountSafe, CeremonySafe, FactorSafe, VaultSafe, BillingSafe DEF HonouredOnce
<1> HIDE DEF Inv
<1> QED BY <1>1, <1>2, <1>3, PTL DEF IdentitySpec

(* Whatever order administrators and link holders change a row in, and     *)
(* whichever of their statements fails, what its last audit record says of *)
(* it is so: connections, providers, links, tokens, clients, directories.  *)
THEOREM AuditAlwaysTells == IdentitySpec => []AuditTellsTheState
<1> DEFINE Inv == SsoInv /\ ClientInv /\ DirectoryInv
<1>1. IdentityInit => Inv
  BY PartsBegin
<1>2. Inv /\ [IdentityNext]_allVars => Inv'
  BY PartsRun, SsoStep, ClientStep, DirectoryStep
<1>3. Inv => AuditTellsTheState
  BY SsoSafe, ClientSafe, DirectorySafe DEF AuditTellsTheState
<1> HIDE DEF Inv
<1> QED BY <1>1, <1>2, <1>3, PTL DEF IdentitySpec

(* A portal link changes its own tenant's connections or token only, with  *)
(* the capability for it; users are asserted to their own tenant's         *)
(* providers only.                                                         *)
THEOREM DelegatesAlwaysHome == IdentitySpec => []DelegatesStayHome
<1>1. IdentityInit => SsoInv
  BY PartsBegin
<1>2. SsoInv /\ [IdentityNext]_allVars => SsoInv'
  BY PartsRun, SsoStep
<1>3. SsoInv => DelegatesStayHome
  BY SsoSafe DEF DelegatesStayHome
<1> QED BY <1>1, <1>2, <1>3, PTL DEF IdentitySpec

(* A verified claim is the only one of its domain and its own token was    *)
(* published; who is signed in through a directory gave a password that    *)
(* the server took.                                                        *)
THEOREM VerifiedAlwaysProven == IdentitySpec => []VerifiedMeansProven
<1> DEFINE Inv == DomainInv /\ DirectoryInv
<1>1. IdentityInit => Inv
  BY PartsBegin
<1>2. Inv /\ [IdentityNext]_allVars => Inv'
  BY PartsRun, DomainStep, DirectoryStep
<1>3. Inv => VerifiedMeansProven
  BY DomainSafe, DirectorySafe DEF VerifiedMeansProven
<1> HIDE DEF Inv
<1> QED BY <1>1, <1>2, <1>3, PTL DEF IdentitySpec

(* What was withdrawn before a request arrived does not let it in: a key,  *)
(* an agent, a client's secret, a person's entry; and an agent that is     *)
(* decommissioned stays so.                                                *)
THEOREM OutAlwaysOut == IdentitySpec => []OutStaysOut
<1> DEFINE Inv == MachineInv /\ ClientInv /\ DirectoryInv
<1>1. IdentityInit => Inv
  BY PartsBegin
<1>2. Inv /\ [IdentityNext]_allVars => Inv'
  BY PartsRun, MachineStep, ClientStep, DirectoryStep
<1>3. Inv => OutStaysOut
  BY MachineSafe, ClientSafe, DirectorySafe DEF OutStaysOut
<1> HIDE DEF Inv
<1> QED BY <1>1, <1>2, <1>3, PTL DEF IdentitySpec

(* However repeated SCIM calls overlap, an address has one live account,   *)
(* one that was answered for carries its mark, and a life ends once.       *)
THEOREM RepeatedAlwaysSafe == IdentitySpec => []RepeatedCallsAreSafe
<1>1. IdentityInit => ScimInv
  BY PartsBegin
<1>2. ScimInv /\ [IdentityNext]_allVars => ScimInv'
  BY PartsRun, ScimStep
<1>3. ScimInv => RepeatedCallsAreSafe
  BY ScimSafe DEF RepeatedCallsAreSafe
<1> QED BY <1>1, <1>2, <1>3, PTL DEF IdentitySpec

(* A request is allowed only by a policy that applies whatever is assumed  *)
(* of the comparisons that could not be made, and against no policy that   *)
(* would then deny it, however deep the conditions are.                    *)
THEOREM AllowIsAlwaysCertain == IdentitySpec => []AllowIsCertain
<1>1. IdentityInit => PolicyInv
  BY PartsBegin
<1>2. PolicyInv /\ [IdentityNext]_allVars => PolicyInv'
  BY PartsRun, PolicyStep
<1>3. PolicyInv => AllowIsCertain
  BY PolicySafe DEF AllowIsCertain
<1> QED BY <1>1, <1>2, <1>3, PTL DEF IdentitySpec

===============================================================================
