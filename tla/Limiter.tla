------------------------------- MODULE Limiter -------------------------------
(***************************************************************************)
(* The token buckets of one API process and the tenants' overrides of      *)
(* their rate and capacity.  A request looks its limit up, reads the clock *)
(* and only then takes the store's lock, so requests reach a bucket out of *)
(* the order of their clocks and its `last` may go back.  An override is   *)
(* written to the database and afterwards, without a common lock, to       *)
(* memory.  Time is counted in seconds from the start of the process.      *)
(***************************************************************************)
EXTENDS Integers

CONSTANTS
  Key,       \* buckets: the tenants, users or API keys limited
  Limit,     \* the limits overrides may set
  Default,   \* the limit of a key without an override
  Request, Admin,
  MaxTime,   \* bound: how long a process is looked at
  None

ASSUME LimitAssumption ==
  /\ Default \in Limit
  /\ \A l \in Limit : l \in [rate : Nat, cap : Nat]
  /\ None \notin Limit \cup Nat \cup [tokens : Int, last : Int]
  /\ None \notin [key : Key, limit : Limit, now : Nat \cup {None}]

VARIABLES
  clock,     \* time.Now(), which the requests read
  db,        \* platform.rate_limit_overrides: a limit, or None
  mem,       \* TenantLimiter.overrides
  bucket,    \* memStore.buckets: [tokens, last], None before the first Take
  req,       \* requests on their way through the middleware
  admin,     \* PUT and DELETE between their two writes
  allowed,   \* history: the requests a key was allowed
  changed    \* history: keys whose limit was changed in this process

vars == <<clock, db, mem, bucket, req, admin, allowed, changed>>

LimiterTypeOK ==
  /\ clock \in Nat
  /\ db \in [Key -> Limit \cup {None}] /\ mem \in [Key -> Limit \cup {None}]
  /\ bucket \in [Key -> [tokens : Int, last : Int] \cup {None}]
  /\ req \in [Request -> [key : Key, limit : Limit, now : Nat \cup {None}] \cup {None}]
  /\ admin \in [Admin -> [key : Key, to : Limit \cup {None}] \cup {None}]
  /\ allowed \in [Key -> Nat]
  /\ changed \subseteq Key

(* A process starts with what the database holds (LoadOverrides).          *)
LimiterInit ==
  /\ db \in [Key -> Limit \cup {None}]
  /\ clock = 0
  /\ mem = db
  /\ bucket = [k \in Key |-> None]
  /\ req = [r \in Request |-> None]
  /\ admin = [a \in Admin |-> None]
  /\ allowed = [k \in Key |-> 0]
  /\ changed = {}

-----------------------------------------------------------------------------
Tick ==
  /\ clock < MaxTime
  /\ clock' = clock + 1
  /\ UNCHANGED <<db, mem, bucket, req, admin, allowed, changed>>

(* SetOverride (to a limit) and DeleteOverride (to None): first the row.   *)
StoreOverride(a, k, l) ==
  /\ admin[a] = None
  /\ db' = [db EXCEPT ![k] = l]
  /\ admin' = [admin EXCEPT ![a] = [key |-> k, to |-> l]]
  /\ UNCHANGED <<clock, mem, bucket, req, allowed, changed>>

CacheOverride(a) ==
  /\ admin[a] # None
  /\ mem' = [mem EXCEPT ![admin[a].key] = admin[a].to]
  /\ changed' = changed \cup {admin[a].key}
  /\ admin' = [admin EXCEPT ![a] = None]
  /\ UNCHANGED <<clock, db, bucket, req, allowed>>

LimitOf(k) == IF mem[k] # None THEN mem[k] ELSE Default

RateFor(r, k) ==
  /\ req[r] = None
  /\ req' = [req EXCEPT ![r] = [key |-> k, limit |-> LimitOf(k), now |-> None]]
  /\ UNCHANGED <<clock, db, mem, bucket, admin, allowed, changed>>

ReadClock(r) ==
  /\ req[r] # None /\ req[r].now = None
  /\ req' = [req EXCEPT ![r].now = clock]
  /\ UNCHANGED <<clock, db, mem, bucket, admin, allowed, changed>>

(* Mutant: the script of redis.go, which clamps the time that passed at    *)
(* zero and still sets the bucket's time to that of the request.           *)
RefilledInRedis(b, l, now) ==
  LET passed == IF now > b.last THEN now - b.last ELSE 0
      full == b.tokens + passed * l.rate
  IN  IF full > l.cap THEN l.cap ELSE full

Refilled(b, l, now) ==
  LET full == b.tokens + (now - b.last) * l.rate
  IN  IF full > l.cap THEN l.cap ELSE full

(* The tokens the request finds.                                           *)
Found(q) ==
  IF bucket[q.key] = None THEN q.limit.cap
  ELSE Refilled(bucket[q.key], q.limit, q.now)

Take(r) ==
  /\ req[r] # None /\ req[r].now # None
  /\ LET k == req[r].key
         spent == IF Found(req[r]) < 1 THEN 0 ELSE 1
     IN  /\ bucket' = [bucket EXCEPT ![k] = [tokens |-> Found(req[r]) - spent, last |-> req[r].now]]
         /\ allowed' = [allowed EXCEPT ![k] = @ + spent]
  /\ req' = [req EXCEPT ![r] = None]
  /\ UNCHANGED <<clock, db, mem, admin, changed>>

(* The process stops and another one starts; the buckets are not kept.     *)
Restart ==
  /\ clock' = 0
  /\ mem' = db
  /\ bucket' = [k \in Key |-> None]
  /\ req' = [r \in Request |-> None]
  /\ admin' = [a \in Admin |-> None]
  /\ allowed' = [k \in Key |-> 0]
  /\ changed' = {}
  /\ UNCHANGED db

LimiterNext ==
  \/ Tick \/ Restart
  \/ \E a \in Admin : CacheOverride(a) \/ \E k \in Key, l \in Limit \cup {None} : StoreOverride(a, k, l)
  \/ \E r \in Request : ReadClock(r) \/ Take(r) \/ \E k \in Key : RateFor(r, k)

LimiterSpec == LimiterInit /\ [][LimiterNext]_vars

-----------------------------------------------------------------------------
(* limiter.go, "rate tokens/sec, burst capacity": as long as its limit is  *)
(* not changed, a key is allowed no more than the capacity and what the    *)
(* rate adds in the time the process runs, in whatever order its requests  *)
(* reach the bucket after reading the clock.                               *)
BudgetKept ==
  \A k \in Key \ changed : allowed[k] <= LimitOf(k).cap + clock * LimitOf(k).rate
=============================================================================
