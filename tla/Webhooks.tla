------------------------------ MODULE Webhooks ------------------------------
(***************************************************************************)
(* Webhook subscriptions and deliveries (internal/developer/webhooks).     *)
(* An emission inserts one delivery per subscription it listed, statement  *)
(* by statement; every worker replica selects due deliveries FOR UPDATE    *)
(* SKIP LOCKED in a statement of its own, posts them one by one and then   *)
(* updates the row by id, whatever happened to it meanwhile.               *)
(***************************************************************************)
EXTENDS Naturals, FiniteSets

CONSTANTS Subscription,
          Emission,     \* calls of Enqueue for events all subscriptions match
          Dispatcher,   \* worker replicas
          None,
          MaxAttempts,  \* maxDeliveryAttempts
          MaxRetry,     \* how often an operator retries a delivery
          MaxFault      \* how many statements fail or replicas stop

Delivery == Emission \X Subscription

VARIABLES
  sub,       \* subscriptions: "none", "on", "off"
  emit,      \* emissions: "none", "running", "ended"
  left,      \* the subscriptions an emission listed and has not served
  there,     \* deliveries that have a row
  delivered, \* rows with delivered_at
  dead,      \* rows with dead_at
  resting,   \* rows whose next_attempt_at is ahead
  attempt,   \* the attempt column
  posts,     \* history: requests sent for a delivery
  accepted,  \* history: deliveries the endpoint answered 2xx
  retries,   \* history: operator retries
  faults,    \* history: faults so far
  pc,        \* a dispatcher: "idle", "batch", "ok" or "failed" (a post just ended)
  batch,     \* the deliveries it has still to post
  seen,      \* the attempt it read with each delivery
  cur        \* the delivery whose post just ended

rowVars == <<there, delivered, dead, resting, attempt>>
histVars == <<posts, accepted, retries, faults>>
dispatcherVars == <<pc, batch, seen, cur>>
emitVars == <<emit, left>>
vars == <<sub, emitVars, rowVars, histVars, dispatcherVars>>

TypeOK ==
  /\ sub \in [Subscription -> {"none", "on", "off"}]
  /\ emit \in [Emission -> {"none", "running", "ended"}]
  /\ left \in [Emission -> SUBSET Subscription]
  /\ there \subseteq Delivery /\ delivered \subseteq there /\ dead \subseteq there
  /\ resting \subseteq there
  /\ attempt \in [Delivery -> Nat]
  /\ posts \in [Delivery -> Nat]
  /\ accepted \subseteq Delivery
  /\ retries \in 0..MaxRetry /\ faults \in 0..MaxFault
  /\ pc \in [Dispatcher -> {"idle", "batch", "ok", "failed"}]
  /\ batch \in [Dispatcher -> SUBSET Delivery]
  /\ seen \in [Dispatcher -> [Delivery -> Nat]]
  /\ cur \in [Dispatcher -> Delivery \cup {None}]

Init ==
  /\ sub = [s \in Subscription |-> "none"]
  /\ emit = [m \in Emission |-> "none"]
  /\ left = [m \in Emission |-> {}]
  /\ there = {} /\ delivered = {} /\ dead = {} /\ resting = {}
  /\ attempt = [d \in Delivery |-> 0]
  /\ posts = [d \in Delivery |-> 0]
  /\ accepted = {} /\ retries = 0 /\ faults = 0
  /\ pc = [w \in Dispatcher |-> "idle"]
  /\ batch = [w \in Dispatcher |-> {}]
  /\ seen = [w \in Dispatcher |-> [d \in Delivery |-> 0]]
  /\ cur = [w \in Dispatcher |-> None]

-----------------------------------------------------------------------------
(* Subscriptions and emissions                                             *)

CreateWebhookSubscription(s) == sub' = [sub EXCEPT ![s] = "on"]

Create(s) ==
  /\ sub[s] = "none"
  /\ CreateWebhookSubscription(s)
  /\ UNCHANGED <<emitVars, rowVars, histVars, dispatcherVars>>

Disable(s) ==
  /\ sub[s] = "on"
  /\ sub' = [sub EXCEPT ![s] = "off"]
  /\ UNCHANGED <<emitVars, rowVars, histVars, dispatcherVars>>

GetSubscriptionsForEvent == {s \in Subscription : sub[s] = "on"}

(* Enqueue lists them ...                                                  *)
ListSubscriptions(m) ==
  /\ emit[m] = "none"
  /\ emit' = [emit EXCEPT ![m] = "running"]
  /\ left' = [left EXCEPT ![m] = GetSubscriptionsForEvent]
  /\ UNCHANGED <<sub, rowVars, histVars, dispatcherVars>>

(* ... an InsertDelivery for each ...                                      *)
InsertDelivery(m, s) ==
  /\ emit[m] = "running" /\ s \in left[m]
  /\ left' = [left EXCEPT ![m] = @ \ {s}]
  /\ there' = there \cup {<<m, s>>}
  /\ UNCHANGED <<sub, emit, delivered, dead, resting, attempt, histVars, dispatcherVars>>

(* ... until all are served, or one fails and the others are not tried.    *)
EmissionEnds(m) ==
  /\ emit[m] = "running"
  /\ emit' = [emit EXCEPT ![m] = "ended"]
  /\ left' = [left EXCEPT ![m] = {}]
  /\ UNCHANGED <<sub, rowVars, histVars, dispatcherVars>>

(* RetryDelivery: attempt keeps its value.                                 *)
RetryDelivery(d) ==
  /\ retries < MaxRetry
  /\ retries' = retries + 1
  /\ d \in there
  /\ delivered' = delivered \ {d} /\ dead' = dead \ {d} /\ resting' = resting \ {d}
  /\ UNCHANGED <<sub, emitVars, there, attempt, posts, accepted, faults, dispatcherVars>>

(* next_attempt_at is reached.                                             *)
BackoffElapses(d) ==
  /\ d \in resting
  /\ resting' = resting \ {d}
  /\ UNCHANGED <<sub, emitVars, there, delivered, dead, attempt, histVars, dispatcherVars>>

-----------------------------------------------------------------------------
(* The dispatcher                                                          *)

(* Mutant: rows at the cap are not selected, an operator's retry or not.   *)
DueBelowCap ==
  {d \in there \ (delivered \cup dead \cup resting) :
     sub[d[2]] = "on" /\ attempt[d] < MaxAttempts}

Due == {d \in there \ (delivered \cup dead \cup resting) : sub[d[2]] = "on"}

(* GetDueDeliveries; rows that another select is just locking are skipped. *)
Select(w, B) ==
  /\ pc[w] = "idle"
  /\ B # {} /\ B \subseteq Due
  /\ pc' = [pc EXCEPT ![w] = "batch"]
  /\ batch' = [batch EXCEPT ![w] = B]
  /\ seen' = [seen EXCEPT ![w] = [d \in Delivery |-> IF d \in B THEN attempt[d] ELSE 0]]
  /\ UNCHANGED <<sub, emitVars, rowVars, histVars, cur>>

(* deliver: the endpoint answers 2xx ...                                   *)
PostOK(w, d) ==
  /\ pc[w] = "batch" /\ d \in batch[w]
  /\ pc' = [pc EXCEPT ![w] = "ok"]
  /\ cur' = [cur EXCEPT ![w] = d]
  /\ batch' = [batch EXCEPT ![w] = @ \ {d}]
  /\ posts' = [posts EXCEPT ![d] = @ + 1]
  /\ accepted' = accepted \cup {d}
  /\ UNCHANGED <<sub, emitVars, rowVars, retries, faults, seen>>

(* ... or something else, or nothing.                                      *)
PostFails(w, d) ==
  /\ pc[w] = "batch" /\ d \in batch[w]
  /\ pc' = [pc EXCEPT ![w] = "failed"]
  /\ cur' = [cur EXCEPT ![w] = d]
  /\ batch' = [batch EXCEPT ![w] = @ \ {d}]
  /\ posts' = [posts EXCEPT ![d] = @ + 1]
  /\ UNCHANGED <<sub, emitVars, rowVars, accepted, retries, faults, seen>>

(* On to the next delivery of the batch, or the end of the tick.           *)
NextOfBatch(w) ==
  /\ cur' = [cur EXCEPT ![w] = None]
  /\ pc' = [pc EXCEPT ![w] = IF batch[w] = {} THEN "idle" ELSE "batch"]
  /\ seen' = [seen EXCEPT ![w] = [@ EXCEPT ![cur[w]] = 0]]
  /\ UNCHANGED <<sub, emitVars, there, posts, accepted, retries, batch>>

(* The UPDATEs count the attempt in the row, not from what was read.       *)
CountAttempt(d) == attempt' = [attempt EXCEPT ![d] = @ + 1]

(* MarkDeliverySucceeded.                                                  *)
MarkSucceeded(w) ==
  /\ pc[w] = "ok"
  /\ delivered' = delivered \cup {cur[w]}
  /\ CountAttempt(cur[w])
  /\ NextOfBatch(w)
  /\ UNCHANGED <<dead, resting, faults>>

(* Mutant: the cap is met one post too early.                              *)
DeadLetterEarly(w) ==
  /\ pc[w] = "failed"
  /\ seen[w][cur[w]] + 2 >= MaxAttempts
  /\ dead' = dead \cup {cur[w]}
  /\ CountAttempt(cur[w])
  /\ NextOfBatch(w)
  /\ UNCHANGED <<delivered, resting, faults>>

DeadLetterDelivery(d) == dead' = dead \cup {d} /\ CountAttempt(d)
ScheduleDeliveryRetry(d) == resting' = resting \cup {d} /\ CountAttempt(d)

(* Given up at the cap, by the attempt read with the batch.                *)
DeadLetter(w) ==
  /\ pc[w] = "failed"
  /\ seen[w][cur[w]] + 1 >= MaxAttempts
  /\ DeadLetterDelivery(cur[w])
  /\ NextOfBatch(w)
  /\ UNCHANGED <<delivered, resting, faults>>

ScheduleRetry(w) ==
  /\ pc[w] = "failed"
  /\ seen[w][cur[w]] + 1 < MaxAttempts
  /\ ScheduleDeliveryRetry(cur[w])
  /\ NextOfBatch(w)
  /\ UNCHANGED <<delivered, dead, faults>>

(* The UPDATE after a post fails, which is ignored; the batch goes on.     *)
StatementFails(w) ==
  /\ faults < MaxFault
  /\ faults' = faults + 1
  /\ pc[w] \in {"ok", "failed"}
  /\ NextOfBatch(w)
  /\ UNCHANGED <<delivered, dead, resting, attempt>>

(* The worker process stops and starts again.                              *)
Restart(w) ==
  /\ faults < MaxFault
  /\ faults' = faults + 1
  /\ pc[w] # "idle"
  /\ pc' = [pc EXCEPT ![w] = "idle"]
  /\ batch' = [batch EXCEPT ![w] = {}]
  /\ seen' = [seen EXCEPT ![w] = [d \in Delivery |-> 0]]
  /\ cur' = [cur EXCEPT ![w] = None]
  /\ UNCHANGED <<sub, emitVars, rowVars, posts, accepted, retries>>

Dispatch(w) ==
  \/ \E B \in SUBSET Delivery : Select(w, B)
  \/ \E d \in Delivery : PostOK(w, d) \/ PostFails(w, d)
  \/ MarkSucceeded(w) \/ DeadLetter(w) \/ ScheduleRetry(w)

Next ==
  \/ \E s \in Subscription : Create(s) \/ Disable(s)
  \/ \E m \in Emission : ListSubscriptions(m) \/ EmissionEnds(m)
  \/ \E m \in Emission, s \in Subscription : InsertDelivery(m, s)
  \/ \E d \in Delivery : RetryDelivery(d) \/ BackoffElapses(d)
  \/ \E w \in Dispatcher : Dispatch(w) \/ StatementFails(w) \/ Restart(w)

Spec == Init /\ [][Next]_vars

(* The ticker fires for ever, a tick that is not cut short runs to its     *)
(* end, time passes.                                                       *)
Fairness ==
  /\ \A w \in Dispatcher : WF_vars(Dispatch(w))
  /\ \A d \in Delivery : WF_vars(BackoffElapses(d))

FairSpec == Spec /\ Fairness

-----------------------------------------------------------------------------
(* Properties                                                              *)

(* A delivery shown as delivered was answered 2xx by the endpoint, to      *)
(* whichever replica, and whatever an operator re-queued in between.       *)
DeliveredWasAccepted == delivered \subseteq accepted

(* No delivery is given up before MaxAttempts requests were sent for it,   *)
(* although replicas that hold it together decide from a count read        *)
(* earlier and operators retry it.                                         *)
GivenUpAfterMaxAttempts == \A d \in dead : posts[d] >= MaxAttempts

(* A delivery to a subscription that stays enabled is delivered or given   *)
(* up in the end.                                                          *)
EventuallySettled ==
  \A d \in Delivery :
    (d \in there /\ sub[d[2]] = "on") ~> (d \in delivered \cup dead \/ sub[d[2]] = "off")

-----------------------------------------------------------------------------
(* What the module promises: the deliveries are an at-least-once queue     *)
(* that an operator can reopen.                                            *)
Queue == INSTANCE DeliveryQueue WITH
  Message <- Delivery,
  Cap <- MaxAttempts,
  Reopens <- TRUE,
  known <- there,
  tries <- posts,
  done <- delivered

(* Every behaviour of the deliveries is one of that queue.                 *)
ImplementsQueue == Queue!Spec

=============================================================================
