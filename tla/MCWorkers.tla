----------------------------- MODULE MCWorkers -----------------------------
(* Small instances of Outbox, Webhooks and Erasure for TLC.  The three     *)
(* share no state, so a behaviour of all of them is one of each: one run   *)
(* covers what the periodic jobs owe, and lets each job run while the      *)
(* others stand still.                                                     *)
EXTENDS Outbox, TLC

CONSTANTS Subscription, Emission, MaxPosts, MaxRetry,
          User, Purge, Export, Sweeper, MaxFailure

ASSUME WorkersAssumption ==
  /\ IsFiniteSet(Dispatcher)
  /\ Purge \cap Export = {}
  /\ MaxPosts \in Nat \ {0}

VARIABLES
  job, \* the job that runs: "outbox", "webhooks" or "erasure"
  sub, emit, left, there, delivered, dead, waiting, attempt, posts, accepted,
  retries, wfaults, wpc, wbatch, wseen, wcur,
  user, data, sessions, aged, policy, purge, subject, ripe, export,
  payload, epc, todo, got, listed, restored, efaults

W == INSTANCE Webhooks WITH
  MaxAttempts <- MaxPosts, resting <- waiting, faults <- wfaults,
  pc <- wpc, batch <- wbatch, seen <- wseen, cur <- wcur

E == INSTANCE Erasure WITH MaxFault <- MaxFailure, pc <- epc, faults <- efaults

hookVars == <<sub, emit, left, there, delivered, dead, waiting, attempt, posts,
              accepted, retries, wfaults, wpc, wbatch, wseen, wcur>>
eraseVars == <<user, data, sessions, aged, policy, purge, subject, ripe,
               export, payload, epc, todo, got, listed, restored, efaults>>
allVars == <<job, vars, hookVars, eraseVars>>

(* A step of one job.                                                      *)
OutboxStep(A) == job = "outbox" /\ A /\ UNCHANGED <<job, hookVars, eraseVars>>
HookStep(A) == job = "webhooks" /\ A /\ UNCHANGED <<job, vars, eraseVars>>
EraseStep(A) == job = "erasure" /\ A /\ UNCHANGED <<job, vars, hookVars>>

WorkersInit ==
  /\ Init /\ W!Init /\ E!Init
  /\ job \in {"outbox", "webhooks", "erasure"}

WorkersNext == OutboxStep(Next) \/ HookStep(W!Next) \/ EraseStep(E!Next)

(* The fairness of the three modules.                                      *)
WorkersSpec ==
  /\ WorkersInit
  /\ [][WorkersNext]_allVars
  /\ \A d \in Dispatcher :
       /\ WF_allVars(OutboxStep(Dispatch(d)))
       /\ WF_allVars(HookStep(W!Dispatch(d)))
  /\ \A e \in Event : WF_allVars(OutboxStep(BackoffElapses(e)))
  /\ \A d \in W!Delivery : WF_allVars(HookStep(W!BackoffElapses(d)))
  /\ \A w \in Sweeper : WF_allVars(EraseStep(E!SweepStep(w)))

(* Webhooks: a row with delivered_at was answered 2xx, and one with        *)
(* dead_at was posted MaxPosts times.                                      *)
MarksAreTrue == W!DeliveredWasAccepted /\ W!GivenUpAfterMaxAttempts

(* Webhooks: a delivery to a live subscription is settled in the end.      *)
DeliveriesSettle == W!EventuallySettled

(* The outbox and the deliveries are at-least-once queues: DeliveryQueue.  *)
QueuesImplemented == ImplementsQueue /\ W!ImplementsQueue

(* Erasure: a completed request means the profile is off the user's row.   *)
CompletedIsRedacted == E!CompletedIsRedacted

(* Erasure: a ripe request ends in an erasure, and a pending export is     *)
(* answered.                                                               *)
RequestsSettle == E!EventuallyErased /\ E!ExportsSettle

=============================================================================
