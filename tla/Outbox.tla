------------------------------- MODULE Outbox -------------------------------
(***************************************************************************)
(* The transactional outbox (internal/platform/events/outbox) as several   *)
(* worker replicas drain it, and the scheduler's dead-letter cleanup.      *)
(*                                                                         *)
(* The dispatcher's SELECT ... FOR UPDATE SKIP LOCKED is a statement of    *)
(* its own, not part of a transaction: its locks are gone when it returns, *)
(* so two replicas may hold the same event, and each goes on from the      *)
(* number of attempts it read.                                             *)
(***************************************************************************)
EXTENDS Naturals, FiniteSets

CONSTANTS Event,       \* domain events
          Dispatcher,  \* worker replicas
          None,
          MaxAttempts, \* DefaultMaxAttempts
          BatchSize,   \* LIMIT of the SELECT
          MaxFault     \* how many statements fail or processes stop

ASSUME OutboxAssumption ==
  /\ None \notin Event
  /\ MaxAttempts \in Nat \ {0}
  /\ BatchSize \in Nat \ {0}
  /\ MaxFault \in Nat

VARIABLES
  row,      \* "none", "queued", "published" (published_at set), "dead", "purged"
  attempts, \* the attempts column
  resting,  \* events whose backoff has not elapsed
  acked,    \* history: events the publisher accepted
  failures, \* history: refused publishes of each event, up to MaxAttempts
  pc,       \* a dispatcher: "idle", "batch", "ok" or "failed" (a publish just ended)
  batch,    \* the events it has still to publish
  seen,     \* the attempts it read with each event
  cur,      \* the event whose publish just ended
  faults    \* history: faults so far

tableVars == <<row, attempts, resting>>
dispatcherVars == <<pc, batch, seen, cur>>
vars == <<tableVars, acked, failures, dispatcherVars, faults>>

TypeOK ==
  /\ row \in [Event -> {"none", "queued", "published", "dead", "purged"}]
  /\ attempts \in [Event -> Nat]
  /\ resting \subseteq Event
  /\ acked \subseteq Event
  /\ failures \in [Event -> Nat]
  /\ pc \in [Dispatcher -> {"idle", "batch", "ok", "failed"}]
  /\ batch \in [Dispatcher -> SUBSET Event]
  /\ seen \in [Dispatcher -> [Event -> Nat]]
  /\ cur \in [Dispatcher -> Event \cup {None}]
  /\ faults \in 0..MaxFault

Init ==
  /\ row = [e \in Event |-> "none"]
  /\ attempts = [e \in Event |-> 0]
  /\ resting = {}
  /\ acked = {}
  /\ failures = [e \in Event |-> 0]
  /\ pc = [d \in Dispatcher |-> "idle"]
  /\ batch = [d \in Dispatcher |-> {}]
  /\ seen = [d \in Dispatcher |-> [e \in Event |-> 0]]
  /\ cur = [d \in Dispatcher |-> None]
  /\ faults = 0

(* Enqueue, at the commit of the caller's transaction.                     *)
Enqueue(e) ==
  /\ row[e] = "none"
  /\ row' = [row EXCEPT ![e] = "queued"]
  /\ UNCHANGED <<attempts, resting, acked, failures, dispatcherVars, faults>>

(* The backoff since last_attempt_at elapses.                              *)
BackoffElapses(e) ==
  /\ e \in resting
  /\ resting' = resting \ {e}
  /\ UNCHANGED <<row, attempts, acked, failures, dispatcherVars, faults>>

Due == {e \in Event : row[e] = "queued" /\ e \notin resting}

(* tick: some due rows (rows another SELECT is just locking are skipped).  *)
Select(d, B) ==
  /\ pc[d] = "idle"
  /\ B # {}
  /\ B \subseteq Due
  /\ Cardinality(B) <= BatchSize
  /\ pc' = [pc EXCEPT ![d] = "batch"]
  /\ batch' = [batch EXCEPT ![d] = B]
  /\ seen' = [seen EXCEPT ![d] = [e \in Event |-> IF e \in B THEN attempts[e] ELSE 0]]
  /\ UNCHANGED <<tableVars, acked, failures, cur, faults>>

(* Publish of the next event of the batch returned nil ...                 *)
PublishOK(d, e) ==
  /\ pc[d] = "batch"
  /\ e \in batch[d]
  /\ acked' = acked \cup {e}
  /\ pc' = [pc EXCEPT ![d] = "ok"]
  /\ cur' = [cur EXCEPT ![d] = e]
  /\ batch' = [batch EXCEPT ![d] = @ \ {e}]
  /\ UNCHANGED <<tableVars, failures, seen, faults>>

(* ... or an error.                                                        *)
PublishFails(d, e) ==
  /\ pc[d] = "batch"
  /\ e \in batch[d]
  /\ failures' = [failures EXCEPT ![e] = IF @ < MaxAttempts THEN @ + 1 ELSE @]
  /\ pc' = [pc EXCEPT ![d] = "failed"]
  /\ cur' = [cur EXCEPT ![d] = e]
  /\ batch' = [batch EXCEPT ![d] = @ \ {e}]
  /\ UNCHANGED <<tableVars, acked, seen, faults>>

(* On to the next event of the batch, or the end of the tick.              *)
NextOfBatch(d) ==
  /\ cur' = [cur EXCEPT ![d] = None]
  /\ pc' = [pc EXCEPT ![d] = IF batch[d] = {} THEN "idle" ELSE "batch"]
  /\ seen' = [seen EXCEPT ![d] = IF batch[d] = {} THEN [e \in Event |-> 0]
                                 ELSE [@ EXCEPT ![cur[d]] = 0]]
  /\ UNCHANGED <<batch, acked, failures>>

(* Mutant: the error of Publish is logged and the row marked all the same. *)
MarkPublishedOnError(d) ==
  /\ pc[d] \in {"ok", "failed"}
  /\ row' = [row EXCEPT ![cur[d]] = IF @ = "queued" THEN "published" ELSE @]
  /\ NextOfBatch(d)
  /\ UNCHANGED <<attempts, resting, faults>>

(* Mutant: the row is written back although another replica moved it.      *)
MarkPublishedAnyway(d) ==
  /\ pc[d] = "ok"
  /\ row' = [row EXCEPT ![cur[d]] = "published"]
  /\ NextOfBatch(d)
  /\ UNCHANGED <<attempts, resting, faults>>

(* UPDATE ... SET published_at; no row is hit once the event was moved.    *)
MarkPublished(d) ==
  /\ pc[d] = "ok"
  /\ row' = [row EXCEPT ![cur[d]] = IF @ = "queued" THEN "published" ELSE @]
  /\ NextOfBatch(d)
  /\ UNCHANGED <<attempts, resting, faults>>

(* Mutant: the refusal is noted, the attempt is not counted.               *)
BumpWithoutCounting(d) ==
  LET e == cur[d]
  IN /\ pc[d] = "failed"
     /\ seen[d][e] + 1 < MaxAttempts
     /\ resting' = IF row[e] \in {"queued", "published"} THEN resting \cup {e} ELSE resting
     /\ NextOfBatch(d)
     /\ UNCHANGED <<row, attempts, faults>>

(* recordFailure below the cap: attempts is set from the value read with   *)
(* the batch, on a row that is still there, published or not.              *)
BumpAttempts(d) ==
  LET e == cur[d]
      there == row[e] \in {"queued", "published"}
  IN /\ pc[d] = "failed"
     /\ seen[d][e] + 1 < MaxAttempts
     /\ attempts' = IF there THEN [attempts EXCEPT ![e] = seen[d][e] + 1] ELSE attempts
     /\ resting' = IF there THEN resting \cup {e} ELSE resting
     /\ NextOfBatch(d)
     /\ UNCHANGED <<row, faults>>

(* Mutant: the cap is met one refusal too early.                           *)
DeadLetterEarly(d) ==
  LET e == cur[d]
  IN /\ pc[d] = "failed"
     /\ seen[d][e] + 2 >= MaxAttempts
     /\ row' = [row EXCEPT ![e] = IF @ \in {"queued", "published"} THEN "dead" ELSE @]
     /\ resting' = resting \ {e}
     /\ NextOfBatch(d)
     /\ UNCHANGED <<attempts, faults>>

(* recordFailure at the cap: INSERT ... SELECT into the dead-letter table  *)
(* and DELETE, in one transaction; nothing when the row has already moved. *)
DeadLetter(d) ==
  LET e == cur[d]
  IN /\ pc[d] = "failed"
     /\ seen[d][e] + 1 >= MaxAttempts
     /\ row' = [row EXCEPT ![e] = IF @ \in {"queued", "published"} THEN "dead" ELSE @]
     /\ resting' = resting \ {e}
     /\ NextOfBatch(d)
     /\ UNCHANGED <<attempts, faults>>

(* The statement after a publish fails: it is logged, the batch goes on.   *)
StatementFails(d) ==
  /\ faults < MaxFault
  /\ faults' = faults + 1
  /\ pc[d] \in {"ok", "failed"}
  /\ NextOfBatch(d)
  /\ UNCHANGED tableVars

(* The worker process stops and starts again.                              *)
Restart(d) ==
  /\ faults < MaxFault
  /\ faults' = faults + 1
  /\ pc[d] # "idle"
  /\ pc' = [pc EXCEPT ![d] = "idle"]
  /\ batch' = [batch EXCEPT ![d] = {}]
  /\ seen' = [seen EXCEPT ![d] = [e \in Event |-> 0]]
  /\ cur' = [cur EXCEPT ![d] = None]
  /\ UNCHANGED <<tableVars, acked, failures>>

(* outbox-dlq-cleanup: thirty days later.                                  *)
CleanDeadLetter(e) ==
  /\ row[e] = "dead"
  /\ row' = [row EXCEPT ![e] = "purged"]
  /\ UNCHANGED <<attempts, resting, acked, failures, dispatcherVars, faults>>

Dispatch(d) ==
  \/ \E B \in SUBSET Event : Select(d, B)
  \/ \E e \in Event : PublishOK(d, e) \/ PublishFails(d, e)
  \/ MarkPublished(d)
  \/ BumpAttempts(d)
  \/ DeadLetter(d)

Next ==
  \/ \E e \in Event : Enqueue(e) \/ BackoffElapses(e) \/ CleanDeadLetter(e)
  \/ \E d \in Dispatcher : Dispatch(d) \/ StatementFails(d) \/ Restart(d)

Spec == Init /\ [][Next]_vars

(* The ticker fires for ever, a tick runs to its end, time passes.         *)
Fairness ==
  /\ \A d \in Dispatcher : WF_vars(Dispatch(d))
  /\ \A e \in Event : WF_vars(BackoffElapses(e))

FairSpec == Spec /\ Fairness

-----------------------------------------------------------------------------
(* Properties                                                              *)

(* A row is marked published only for an event the publisher accepted, by  *)
(* whichever replica: at-least-once is owned by the outbox.                *)
PublishedWasAccepted == \A e \in Event : row[e] = "published" => e \in acked

(* Replicas that hold the same event overwrite each other's count, but the *)
(* count never runs ahead of the refused publishes: an event is given up   *)
(* only after MaxAttempts of them.                                         *)
GivenUpAfterMaxAttempts ==
  \A e \in Event : row[e] \in {"dead", "purged"} => failures[e] >= MaxAttempts

(* Both: what a row says of its event is so, whichever replica wrote it.   *)
EventMarksAreTrue == PublishedWasAccepted /\ GivenUpAfterMaxAttempts

(* Every committed event leaves the queue, published or dead-lettered,     *)
(* although a slow replica may set the count of attempts back.             *)
EventuallySettled == \A e \in Event : (row[e] = "queued") ~> (row[e] # "queued")

-----------------------------------------------------------------------------
(* What the module promises: the outbox is an at-least-once queue that     *)
(* nobody reopens.                                                         *)
Queue == INSTANCE DeliveryQueue WITH
  Message <- Event,
  Cap <- MaxAttempts,
  Reopens <- FALSE,
  known <- {e \in Event : row[e] # "none"},
  accepted <- acked,
  tries <- failures,
  done <- {e \in Event : row[e] = "published"},
  dead <- {e \in Event : row[e] \in {"dead", "purged"}}

(* Every behaviour of the outbox is one of that queue: an event that was   *)
(* dead-lettered is never shown as published afterwards, nor is a settled  *)
(* one sent back to the queue, whatever a slower replica still does to it. *)
ImplementsQueue == Queue!Spec

=============================================================================
