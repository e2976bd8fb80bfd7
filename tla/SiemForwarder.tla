--------------------------- MODULE SiemForwarder ---------------------------
(***************************************************************************)
(* The log-sink forwarder (internal/operations/siem/siem.go) over the      *)
(* audit log it reads.  Every worker replica ticks on its own: it lists    *)
(* the enabled sinks with their cursors, fetches a batch of a sink's       *)
(* tenant past the cursor it listed, posts it and moves the cursor; each   *)
(* is a statement or a call of its own and nothing is locked in between.   *)
(***************************************************************************)
EXTENDS AuditChain

CONSTANTS Sink,    \* rows of tenant.log_sinks
          Worker,  \* replicas running the forwarder
          Batch,   \* forwardBatch
          MaxWatched \* bound of SiemSpec: rows of a log with a sink

ASSUME SiemAssumption == Batch \in Nat \ {0} /\ MaxWatched \in Nat

VARIABLES
  state,     \* a sink: "none", "on", "off", "deleted"
  tenant,    \* tenant_id of a sink
  start,     \* history: the cursor a sink was created with
  cursor,    \* cursor_created_at, cursor_id
  delivered, \* history: rows the collector acknowledged
  wpc,       \* where a worker is: "idle", "listed", "fetched", "posted"
  wsink,     \* the sink it works on
  wcursor,   \* the cursor it listed
  batch      \* the rows it fetched

sinkVars == <<state, tenant, start, cursor>>
workerVars == <<wpc, wsink, wcursor, batch>>
siemVars == <<sinkVars, delivered, workerVars>>

(* A position in the log: created_at and id.                               *)
Pos(r) == [at |-> r.at, id |-> r.id]
UpTo(r, p) == ~Before(p, r)

SiemTypeOK ==
  /\ state \in [Sink -> {"none", "on", "off", "deleted"}]
  /\ tenant \in [Sink -> Chain \cup {None}]
  /\ \A k \in Sink : start[k].at \in Nat /\ start[k].id \in Nat
  /\ \A k \in Sink : cursor[k].at \in Nat /\ cursor[k].id \in Nat
  /\ wpc \in [Worker -> {"idle", "listed", "fetched", "posted"}]
  /\ wsink \in [Worker -> Sink \cup {None}]
  /\ \A w \in Worker : wcursor[w].at \in Nat /\ wcursor[w].id \in Nat

Zero == [at |-> 0, id |-> 0]

SiemInit ==
  /\ state = [k \in Sink |-> "none"]
  /\ tenant = [k \in Sink |-> None]
  /\ start = [k \in Sink |-> Zero]
  /\ cursor = [k \in Sink |-> Zero]
  /\ delivered = [k \in Sink |-> {}]
  /\ wpc = [w \in Worker |-> "idle"]
  /\ wsink = [w \in Worker |-> None]
  /\ wcursor = [w \in Worker |-> Zero]
  /\ batch = [w \in Worker |-> {}]

(* The cursor begins at NOW() and the zero id, so history is not sent.     *)
InsertLogSink(k, c) ==
  LET now == [at |-> clock + 1, id |-> 0] IN
  /\ state' = [state EXCEPT ![k] = "on"]
  /\ tenant' = [tenant EXCEPT ![k] = c]
  /\ start' = [start EXCEPT ![k] = now]
  /\ cursor' = [cursor EXCEPT ![k] = now]

CreateSink(k, c) ==
  /\ state[k] = "none"
  /\ c # Platform
  /\ InsertLogSink(k, c)
  /\ UNCHANGED <<delivered, workerVars>>

(* SetEnabled.                                                             *)
ToggleSink(k) ==
  /\ state[k] \in {"on", "off"}
  /\ state' = [state EXCEPT ![k] = IF @ = "on" THEN "off" ELSE "on"]
  /\ UNCHANGED <<tenant, start, cursor, delivered, workerVars>>

DeleteSink(k) ==
  /\ state[k] \in {"on", "off"}
  /\ state' = [state EXCEPT ![k] = "deleted"]
  /\ UNCHANGED <<tenant, start, cursor, delivered, workerVars>>

ListEnabledLogSinks == {k \in Sink : state[k] = "on"}

(* A tick lists the sinks; the loop's turn to sink k.                      *)
ListSink(w, k) ==
  /\ wpc[w] = "idle"
  /\ k \in ListEnabledLogSinks
  /\ wpc' = [wpc EXCEPT ![w] = "listed"]
  /\ wsink' = [wsink EXCEPT ![w] = k]
  /\ wcursor' = [wcursor EXCEPT ![w] = cursor[k]]
  /\ UNCHANGED <<sinkVars, delivered, batch>>

Done(w) ==
  /\ wpc' = [wpc EXCEPT ![w] = "idle"]
  /\ wsink' = [wsink EXCEPT ![w] = None]
  /\ wcursor' = [wcursor EXCEPT ![w] = Zero]
  /\ batch' = [batch EXCEPT ![w] = {}]

(* The first Batch rows, in order, past the cursor.                        *)
Page(R, p) ==
  LET after == {r \in R : Before(p, r)} IN
  {r \in after : Cardinality(Earlier(after, r)) < Batch}

(* fetchEvents; an empty page ends the sink's turn.                        *)
Fetch(w) ==
  LET page == Page(rows[tenant[wsink[w]]], wcursor[w]) IN
  /\ wpc[w] = "listed"
  /\ \/ /\ page = {}
        /\ Done(w)
     \/ /\ page # {}
        /\ batch' = [batch EXCEPT ![w] = page]
        /\ wpc' = [wpc EXCEPT ![w] = "fetched"]
        /\ UNCHANGED <<wsink, wcursor>>
  /\ UNCHANGED <<sinkVars, delivered>>

(* post: the collector answers 2xx ...                                     *)
Post(w) ==
  /\ wpc[w] = "fetched"
  /\ delivered' = [delivered EXCEPT ![wsink[w]] = @ \cup batch[w]]
  /\ wpc' = [wpc EXCEPT ![w] = "posted"]
  /\ UNCHANGED <<sinkVars, wsink, wcursor, batch>>

(* Mutant: the cursor moves on whatever the collector answers.             *)
PostFailsUnnoticed(w) ==
  /\ wpc[w] = "fetched"
  /\ wpc' = [wpc EXCEPT ![w] = "posted"]
  /\ UNCHANGED <<sinkVars, delivered, wsink, wcursor, batch>>

(* ... or not: recordError, and the rows are fetched again at a later tick.*)
PostFails(w) ==
  /\ wpc[w] = "fetched"
  /\ Done(w)
  /\ UNCHANGED <<sinkVars, delivered>>

(* Mutant: the new cursor is never stored.                                 *)
AdvanceUnsaved(w) ==
  /\ wpc[w] = "posted"
  /\ Done(w)
  /\ UNCHANGED <<sinkVars, delivered>>

(* AdvanceLogSinkCursor, to the last row of the batch; it writes whatever  *)
(* another worker left there, and nothing when the sink is gone.           *)
Advance(w) ==
  /\ wpc[w] = "posted"
  /\ cursor' = IF state[wsink[w]] = "deleted" THEN cursor
               ELSE [cursor EXCEPT ![wsink[w]] = Pos(Tip(batch[w]))]
  /\ Done(w)
  /\ UNCHANGED <<state, tenant, start, delivered>>

(* The process stops, or the UPDATE of the cursor fails, which is ignored. *)
WorkerFails(w) ==
  /\ wpc[w] # "idle"
  /\ Done(w)
  /\ UNCHANGED <<sinkVars, delivered>>

WorkerStep(w) == Fetch(w) \/ Post(w) \/ Advance(w)

SiemNext ==
  \/ \E k \in Sink, c \in Chain : CreateSink(k, c)
  \/ \E k \in Sink : ToggleSink(k) \/ DeleteSink(k)
  \/ \E w \in Worker, k \in Sink : ListSink(w, k)
  \/ \E w \in Worker : WorkerStep(w) \/ PostFails(w) \/ WorkerFails(w)

vars == <<auditVars, siemVars>>

Next == (SiemNext /\ UNCHANGED auditVars) \/ (AuditNext /\ UNCHANGED siemVars)

Init == AuditInit /\ SiemInit

Spec == Init /\ [][Next]_vars

(* The ticker fires for ever and the collector does not refuse for ever:   *)
(* a step that is possible again and again is taken.                       *)
Fairness ==
  \A w \in Worker :
    /\ \A k \in Sink : SF_vars(ListSink(w, k) /\ UNCHANGED auditVars)
    /\ SF_vars(Fetch(w) /\ UNCHANGED auditVars)
    /\ SF_vars(Post(w) /\ UNCHANGED auditVars)
    /\ SF_vars(Advance(w) /\ UNCHANGED auditVars)

FairSpec == Spec /\ Fairness

-----------------------------------------------------------------------------
(* Properties                                                              *)

(* At-least-once: a cursor never stands past a committed row, later than   *)
(* the sink's creation, that the collector has not acknowledged, although  *)
(* rows become visible only at their commit and replicas move the cursor   *)
(* forth and back.  It rests on Record stamping a row under the chain's    *)
(* lock, so it is asked of chains whose rows were stamped in the order of  *)
(* their inserts.  A row that was altered is not the one that was sent, so *)
(* it is asked of untouched chains.                                        *)
NoneSkipped ==
  \A k \in Sink :
    LET c == tenant[k] IN
    state[k] \in {"on", "off"} /\ tamper[c] = "none" /\ InOrder(rows[c]) =>
      \A r \in rows[c] : Before(start[k], r) /\ UpTo(r, cursor[k]) => r \in delivered[k]

(* A committed row reaches every sink of its tenant that stays enabled,    *)
(* unless somebody alters the chain or a clock puts a row behind another.  *)
EventuallyDelivered ==
  \A k \in Sink, n \in 1..MaxRows :
    (state[k] = "on" /\ \E r \in rows[tenant[k]] : r.id = n /\ Before(start[k], r))
      ~> \/ state[k] # "on" \/ tamper[tenant[k]] # "none" \/ ~InOrder(rows[tenant[k]])
         \/ \E r \in delivered[k] : r.id = n

-----------------------------------------------------------------------------
(* The instance the run checks: either rows are altered or sinks are       *)
(* created, whose tenant is then the only one to record; the platform's    *)
(* rows differ in how an address is written, a tenant's in whether the     *)
(* clock was ahead.                                                        *)

OneKind(t, b) ==
  \A r \in pend[t] :
    /\ r.body = b
    /\ IF holds[t] = Platform THEN r.at = r.id
       ELSE Spelled(r) = Plain /\ r.at \in {r.id, r.id + MaxSkew}

Bounded ==
  /\ \A t \in Tx : OneKind(t, CHOOSE b \in Body : TRUE)
  /\ (\E k \in Sink : state[k] # "none") =>
       /\ tampers = 0 /\ clock <= MaxWatched
       /\ rows[Platform] = {} /\ \A t \in Tx : holds[t] # Platform

SiemSpec == Init /\ [][Next /\ Bounded']_vars /\ Fairness

============================================================================
