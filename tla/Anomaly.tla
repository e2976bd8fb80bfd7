------------------------------ MODULE Anomaly ------------------------------
(***************************************************************************)
(* The audit log's anomaly detection (internal/operations/audit/anomaly):  *)
(* every minute a worker lists the events not scored yet and, one          *)
(* transaction per event, compares the event with its actor's baseline,    *)
(* flags it, folds it into the baseline and marks it scored.  The API      *)
(* processes and cmd/worker all run one.  One tenant, whose administrators *)
(* resolve what is flagged and change the settings.                        *)
(*                                                                         *)
(* The row locks of ListUnscored end with that statement, so two workers   *)
(* may hold one event; the baseline's lock is taken only if its row is     *)
(* there.                                                                  *)
(***************************************************************************)
EXTENDS Integers, FiniteSets, FiniteSetsExt

CONSTANTS Event,    \* audit events
          Of,       \* Of[e]: its actor (None: an agent or the system), action, hour, ip
          Worker,   \* sweep loops
          Settings, \* what the administrators may choose
          MaxFault, \* bound: failures
          None      \* no actor, no address, no row

VARIABLES
  logged,   \* events that are committed
  scored,   \* events with scored_at
  baseline, \* of an actor: how often each event was folded in, None: no row
  lock,     \* the worker whose transaction holds an actor's baseline row
  anomaly,  \* of an event: None, "open" or "resolved"
  settings,
  work,     \* of a worker: its batch, the event at hand and what was read
  compared, \* events that were scored while detection was enabled
  clashed,  \* actors two workers found without a baseline at one time
  closed,   \* events whose anomaly was resolved
  faults

vars == <<logged, scored, baseline, lock, anomaly, settings, work,
          compared, clashed, closed, faults>>
rowVars == <<scored, baseline, lock, anomaly>>
histVars == <<compared, clashed, closed>>

Actor == {Of[e].actor : e \in Event} \ {None}
Resting == [at |-> "rest", batch |-> {}]

(* enabled, score_threshold in tenths, min_baseline_events.                *)
defaults == [enabled |-> TRUE, threshold |-> 6, min |-> 20]

AnomalyTypeOK ==
  /\ scored \subseteq logged /\ logged \subseteq Event
  /\ \A a \in Actor : baseline[a] # None => baseline[a] \in [Event -> Nat]
  /\ lock \in [Actor -> Worker \cup {None}]
  /\ anomaly \in [Event -> {None, "open", "resolved"}]
  /\ settings \in Settings \cup {defaults}
  /\ \A w \in Worker :
       /\ work[w].at \in {"rest", "next", "load", "save", "mark"}
       /\ work[w].batch \subseteq logged
  /\ faults \in 0..MaxFault

AnomalyInit ==
  /\ logged = {} /\ scored = {}
  /\ baseline = [a \in Actor |-> None]
  /\ lock = [a \in Actor |-> None]
  /\ anomaly = [e \in Event |-> None]
  /\ settings \in Settings \cup {defaults}
  /\ work = [w \in Worker |-> Resting]
  /\ compared = {} /\ clashed = {} /\ closed = {}
  /\ faults = 0

-----------------------------------------------------------------------------
At(w, at) == work[w].at = at
Go(w, q) == work' = [work EXCEPT ![w] = q]

(* AuditChain commits an event.                                            *)
Record(e) ==
  /\ e \notin logged
  /\ logged' = logged \cup {e}
  /\ UNCHANGED <<rowVars, settings, work, histVars, faults>>

(* A batch of events not scored yet, of any size here.  Without a          *)
(* transaction FOR UPDATE SKIP LOCKED is a listing.                        *)
ListUnscoredAuditEvents(w) ==
  /\ At(w, "rest")
  /\ logged \ scored # {}
  /\ Go(w, [at |-> "next", batch |-> logged \ scored])
  /\ UNCHANGED <<logged, rowVars, settings, histVars, faults>>

Next(w) ==
  LET left == work[w].batch \ {work[w].event} IN
  Go(w, IF left = {} THEN Resting ELSE [at |-> "next", batch |-> left])

(* scoreOne: an event without a person is marked only; so is any event     *)
(* while detection is off.                                                 *)
settingsFor(w, e) ==
  /\ At(w, "next") /\ e \in work[w].batch
  /\ Go(w, [at |-> IF Of[e].actor # None /\ settings.enabled THEN "load" ELSE "mark",
            batch |-> work[w].batch, event |-> e, by |-> settings, base |-> None])
  /\ UNCHANGED <<logged, rowVars, settings, histVars, faults>>

Empty == [e \in Event |-> 0]

(* Mutant: the row is read without its lock.                               *)
GetBaselineUnlocked(w, a) == UNCHANGED lock

(* SELECT ... FOR UPDATE: waits for the row, if there is one.              *)
GetActorBaseline(w, a) ==
  /\ baseline[a] # None => lock[a] = None
  /\ lock' = IF baseline[a] = None THEN lock ELSE [lock EXCEPT ![a] = w]

loadBaseline(w) ==
  LET q == work[w]
      a == Of[q.event].actor
  IN
  /\ At(w, "load")
  /\ GetActorBaseline(w, a)
  /\ Go(w, [at |-> "save", batch |-> q.batch, event |-> q.event, by |-> q.by,
            base |-> IF baseline[a] = None THEN Empty ELSE baseline[a]])
  /\ clashed' = IF /\ baseline[a] = None
                   /\ \E v \in Worker \ {w} :
                        work[v].at \in {"save", "mark"} /\ Of[work[v].event].actor = a
                THEN clashed \cup {a} ELSE clashed
  /\ UNCHANGED <<logged, scored, baseline, anomaly, settings, compared, closed, faults>>

-----------------------------------------------------------------------------
(* The counters of a baseline.                                             *)
Folded(b, E) == MapThenSumSet(LAMBDA e : b[e], E)
Alike(e, key) == {d \in Event : Of[d][key] = Of[e][key]}

(* Whether the score, in tenths, reaches the threshold: five for a new     *)
(* action, two for a new address, three for an hour never seen, less the   *)
(* more often it was, by n * score to stay among the integers.             *)
score(b, e, threshold) ==
  LET n == Folded(b, Event)
      new(key, weight) == IF Folded(b, Alike(e, key)) = 0 THEN weight ELSE 0
      hour == n - 8 * Folded(b, Alike(e, "hour"))
      ip == IF Of[e].ip = None THEN 0 ELSE new("ip", 2)
  IN IF n = 0 THEN threshold <= new("action", 5) + 3 + ip
     ELSE n * threshold <= n * (new("action", 5) + ip) + 3 * (IF hour < 0 THEN 0 ELSE hour)

(* Nothing is flagged before the baseline has min events.                  *)
Flagged(b, e, st) == Folded(b, Event) >= st.min /\ score(b, e, st.threshold)

fold(b, e) == [b EXCEPT ![e] = @ + 1]

(* Mutant: ON CONFLICT DO UPDATE SET status = 'open'.                      *)
Reopened(e) == [anomaly EXCEPT ![e] = "open"]

(* ON CONFLICT (event_id) DO NOTHING.                                      *)
InsertAnomaly(e) == [anomaly EXCEPT ![e] = IF @ = None THEN "open" ELSE @]

(* The upsert waits for whoever holds the row; another worker that made    *)
(* the row meanwhile is overwritten.                                       *)
UpsertActorBaseline(w, a) == lock[a] \in {None, w} /\ lock' = [lock EXCEPT ![a] = w]

(* The flag and the fold.                                                  *)
saveBaseline(w) ==
  LET q == work[w]
      a == Of[q.event].actor
  IN
  /\ At(w, "save")
  /\ UpsertActorBaseline(w, a)
  /\ Go(w, [at |-> "mark", batch |-> q.batch, event |-> q.event, by |-> q.by,
            base |-> fold(q.base, q.event), flag |-> Flagged(q.base, q.event, q.by)])
  /\ UNCHANGED <<logged, scored, baseline, anomaly, settings, histVars, faults>>

Held(w) == {a \in Actor : lock[a] = w}
Release(w) == lock' = [a \in Actor |-> IF a \in Held(w) THEN None ELSE lock[a]]

(* MarkAuditEventScored, which asks nothing of the row, and the commit.    *)
MarkAuditEventScored(w) ==
  LET q == work[w] IN
  /\ At(w, "mark")
  /\ scored' = scored \cup {q.event}
  /\ baseline' = [a \in Actor |-> IF a \in Held(w) THEN q.base ELSE baseline[a]]
  /\ anomaly' = IF Held(w) # {} /\ q.flag THEN InsertAnomaly(q.event) ELSE anomaly
  /\ compared' = IF Held(w) # {} THEN compared \cup {q.event} ELSE compared
  /\ Release(w)
  /\ Next(w)
  /\ UNCHANGED <<logged, settings, clashed, closed, faults>>

(* A statement fails: the transaction is rolled back and the next event's  *)
(* turn comes.                                                             *)
Rollback(w) ==
  /\ work[w].at \in {"load", "save", "mark"}
  /\ faults < MaxFault
  /\ faults' = faults + 1
  /\ Release(w)
  /\ Next(w)
  /\ UNCHANGED <<logged, scored, baseline, anomaly, settings, histVars>>

(* The process stops.                                                      *)
Crash(w) ==
  /\ ~At(w, "rest")
  /\ faults < MaxFault
  /\ faults' = faults + 1
  /\ Release(w)
  /\ Go(w, Resting)
  /\ UNCHANGED <<logged, scored, baseline, anomaly, settings, histVars>>

-----------------------------------------------------------------------------
(* Resolve: WHERE status = 'open', or not found.                           *)
ResolveAnomaly(e) ==
  /\ anomaly[e] = "open"
  /\ anomaly' = [anomaly EXCEPT ![e] = "resolved"]
  /\ closed' = closed \cup {e}
  /\ UNCHANGED <<logged, scored, baseline, lock, settings, work, compared, clashed, faults>>

UpsertAnomalySettings(st) == settings' = st

UpdateSettings(st) ==
  /\ st # settings
  /\ st.threshold \in 0..10 /\ st.min >= 0
  /\ UpsertAnomalySettings(st)
  /\ UNCHANGED <<logged, rowVars, work, histVars, faults>>

AnomalyNext ==
  \/ \E e \in Event : Record(e) \/ ResolveAnomaly(e)
  \/ \E st \in Settings : UpdateSettings(st)
  \/ \E w \in Worker :
       \/ ListUnscoredAuditEvents(w) \/ loadBaseline(w) \/ saveBaseline(w)
       \/ MarkAuditEventScored(w) \/ Rollback(w) \/ Crash(w)
       \/ \E e \in Event : settingsFor(w, e)

AnomalySpec == AnomalyInit /\ [][AnomalyNext]_vars

-----------------------------------------------------------------------------
(* Properties                                                              *)

(* An event that is marked scored with detection on is in its actor's      *)
(* baseline, although workers overlap, fail and crash, unless two of them  *)
(* began that baseline at one time.  It may be there twice.                *)
ScoredIsCounted ==
  \A e \in compared : Of[e].actor \in clashed \/ baseline[Of[e].actor][e] >= 1

(* "a sweep retry can never create duplicate anomaly rows": an anomaly     *)
(* that was resolved is not open again when its event is scored again.     *)
ResolvedStaysResolved == \A e \in closed : anomaly[e] = "resolved"

=============================================================================
