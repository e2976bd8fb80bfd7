---------------------------- MODULE WorkersProofs -----------------------------
(***************************************************************************)
(* Proofs about Outbox, Webhooks and Erasure, for every number of events,  *)
(* deliveries, accounts, requests, replicas and faults and every cap on    *)
(* the attempts.                                                           *)
(***************************************************************************)
EXTENDS MCWorkers, FiniteSetTheorems, TLAPS

-----------------------------------------------------------------------------
(* The outbox.                                                              *)

(* The column, and every copy of it in a batch, is below the cap and never *)
(* ahead of the refusals.                                                  *)
CountInv ==
  /\ \A e \in Event : attempts[e] < MaxAttempts /\ attempts[e] <= failures[e]
  /\ \A d \in Dispatcher, e \in Event :
       seen[d][e] < MaxAttempts /\ seen[d][e] <= failures[e]

(* A dispatcher past a publish stands at an event, accepted or refused     *)
(* once more than it had read.                                             *)
CurInv ==
  \A d \in Dispatcher :
    /\ pc[d] = "ok" => cur[d] \in acked
    /\ pc[d] = "failed" => cur[d] \in Event /\ seen[d][cur[d]] + 1 <= failures[cur[d]]

IInv == /\ TypeOK
        /\ CountInv
        /\ CurInv
        /\ PublishedWasAccepted
        /\ GivenUpAfterMaxAttempts

LEMMA InitIInv == Init => IInv
BY OutboxAssumption
   DEF Init, IInv, TypeOK, CountInv, CurInv, PublishedWasAccepted, GivenUpAfterMaxAttempts

LEMMA EnqueuePreserves ==
  ASSUME IInv, NEW e \in Event, Enqueue(e)
  PROVE  IInv'
<1> USE OutboxAssumption DEF IInv, Enqueue, dispatcherVars
<1>1. TypeOK'
  BY DEF TypeOK, CurInv
<1>2. CountInv'
  BY DEF TypeOK, CountInv, CurInv
<1>3. CurInv'
  BY DEF TypeOK, CountInv, CurInv
<1>4. PublishedWasAccepted' /\ GivenUpAfterMaxAttempts'
  BY DEF TypeOK, CountInv, CurInv, PublishedWasAccepted, GivenUpAfterMaxAttempts
<1> QED BY <1>1, <1>2, <1>3, <1>4

LEMMA BackoffElapsesPreserves ==
  ASSUME IInv, NEW e \in Event, BackoffElapses(e)
  PROVE  IInv'
<1> USE OutboxAssumption DEF IInv, BackoffElapses, dispatcherVars
<1>1. TypeOK'
  BY DEF TypeOK, CurInv
<1>2. CountInv'
  BY DEF TypeOK, CountInv, CurInv
<1>3. CurInv'
  BY DEF TypeOK, CountInv, CurInv
<1>4. PublishedWasAccepted' /\ GivenUpAfterMaxAttempts'
  BY DEF TypeOK, CountInv, CurInv, PublishedWasAccepted, GivenUpAfterMaxAttempts
<1> QED BY <1>1, <1>2, <1>3, <1>4

LEMMA CleanDeadLetterPreserves ==
  ASSUME IInv, NEW e \in Event, CleanDeadLetter(e)
  PROVE  IInv'
<1> USE OutboxAssumption DEF IInv, CleanDeadLetter, dispatcherVars
<1>1. TypeOK'
  BY DEF TypeOK, CurInv
<1>2. CountInv'
  BY DEF TypeOK, CountInv, CurInv
<1>3. CurInv'
  BY DEF TypeOK, CountInv, CurInv
<1>4. PublishedWasAccepted' /\ GivenUpAfterMaxAttempts'
  BY DEF TypeOK, CountInv, CurInv, PublishedWasAccepted, GivenUpAfterMaxAttempts
<1> QED BY <1>1, <1>2, <1>3, <1>4

LEMMA SelectPreserves ==
  ASSUME IInv, NEW d \in Dispatcher, NEW B \in SUBSET Event, Select(d, B)
  PROVE  IInv'
<1> USE OutboxAssumption DEF IInv, Select, tableVars
<1>1. TypeOK'
  BY DEF TypeOK, CurInv
<1>2. CountInv'
  BY DEF TypeOK, CountInv, CurInv
<1>3. CurInv'
  BY DEF TypeOK, CountInv, CurInv
<1>4. PublishedWasAccepted' /\ GivenUpAfterMaxAttempts'
  BY DEF TypeOK, CountInv, CurInv, PublishedWasAccepted, GivenUpAfterMaxAttempts
<1> QED BY <1>1, <1>2, <1>3, <1>4

LEMMA PublishOKPreserves ==
  ASSUME IInv, NEW d \in Dispatcher, NEW e \in Event, PublishOK(d, e)
  PROVE  IInv'
<1> USE OutboxAssumption DEF IInv, PublishOK, tableVars
<1>1. TypeOK'
  BY DEF TypeOK, CurInv
<1>2. CountInv'
  BY DEF TypeOK, CountInv, CurInv
<1>3. CurInv'
  BY DEF TypeOK, CountInv, CurInv
<1>4. PublishedWasAccepted' /\ GivenUpAfterMaxAttempts'
  BY DEF TypeOK, CountInv, CurInv, PublishedWasAccepted, GivenUpAfterMaxAttempts
<1> QED BY <1>1, <1>2, <1>3, <1>4

LEMMA PublishFailsPreserves ==
  ASSUME IInv, NEW d \in Dispatcher, NEW e \in Event, PublishFails(d, e)
  PROVE  IInv'
<1> USE OutboxAssumption DEF IInv, PublishFails, tableVars
<1>1. TypeOK'
  BY DEF TypeOK, CurInv
<1>2. CountInv'
  BY DEF TypeOK, CountInv, CurInv
<1>3. CurInv'
  BY DEF TypeOK, CountInv, CurInv
<1>4. PublishedWasAccepted' /\ GivenUpAfterMaxAttempts'
  BY DEF TypeOK, CountInv, CurInv, PublishedWasAccepted, GivenUpAfterMaxAttempts
<1> QED BY <1>1, <1>2, <1>3, <1>4

LEMMA MarkPublishedPreserves ==
  ASSUME IInv, NEW d \in Dispatcher, MarkPublished(d)
  PROVE  IInv'
<1> USE OutboxAssumption DEF IInv, MarkPublished, NextOfBatch
<1>1. TypeOK'
  BY DEF TypeOK, CurInv
<1>2. CountInv'
  BY DEF TypeOK, CountInv, CurInv
<1>3. CurInv'
  BY DEF TypeOK, CountInv, CurInv
<1>4. PublishedWasAccepted' /\ GivenUpAfterMaxAttempts'
  BY DEF TypeOK, CountInv, CurInv, PublishedWasAccepted, GivenUpAfterMaxAttempts
<1> QED BY <1>1, <1>2, <1>3, <1>4

LEMMA BumpAttemptsPreserves ==
  ASSUME IInv, NEW d \in Dispatcher, BumpAttempts(d)
  PROVE  IInv'
<1> USE OutboxAssumption DEF IInv, BumpAttempts, NextOfBatch
<1>1. TypeOK'
  BY DEF TypeOK, CurInv
<1>2. CountInv'
  BY DEF TypeOK, CountInv, CurInv
<1>3. CurInv'
  BY DEF TypeOK, CountInv, CurInv
<1>4. PublishedWasAccepted' /\ GivenUpAfterMaxAttempts'
  BY DEF TypeOK, CountInv, CurInv, PublishedWasAccepted, GivenUpAfterMaxAttempts
<1> QED BY <1>1, <1>2, <1>3, <1>4

LEMMA DeadLetterPreserves ==
  ASSUME IInv, NEW d \in Dispatcher, DeadLetter(d)
  PROVE  IInv'
<1> USE OutboxAssumption DEF IInv, DeadLetter, NextOfBatch
<1>1. TypeOK'
  BY DEF TypeOK, CurInv
<1>2. CountInv'
  BY DEF TypeOK, CountInv, CurInv
<1>3. CurInv'
  BY DEF TypeOK, CountInv, CurInv
<1>4. PublishedWasAccepted' /\ GivenUpAfterMaxAttempts'
  BY DEF TypeOK, CountInv, CurInv, PublishedWasAccepted, GivenUpAfterMaxAttempts
<1> QED BY <1>1, <1>2, <1>3, <1>4

LEMMA StatementFailsPreserves ==
  ASSUME IInv, NEW d \in Dispatcher, StatementFails(d)
  PROVE  IInv'
<1> USE OutboxAssumption DEF IInv, StatementFails, NextOfBatch, tableVars
<1>1. TypeOK'
  BY DEF TypeOK, CurInv
<1>2. CountInv'
  BY DEF TypeOK, CountInv, CurInv
<1>3. CurInv'
  BY DEF TypeOK, CountInv, CurInv
<1>4. PublishedWasAccepted' /\ GivenUpAfterMaxAttempts'
  BY DEF TypeOK, CountInv, CurInv, PublishedWasAccepted, GivenUpAfterMaxAttempts
<1> QED BY <1>1, <1>2, <1>3, <1>4

LEMMA RestartPreserves ==
  ASSUME IInv, NEW d \in Dispatcher, Restart(d)
  PROVE  IInv'
<1> USE OutboxAssumption DEF IInv, Restart, tableVars
<1>1. TypeOK'
  BY DEF TypeOK, CurInv
<1>2. CountInv'
  BY DEF TypeOK, CountInv, CurInv
<1>3. CurInv'
  BY DEF TypeOK, CountInv, CurInv
<1>4. PublishedWasAccepted' /\ GivenUpAfterMaxAttempts'
  BY DEF TypeOK, CountInv, CurInv, PublishedWasAccepted, GivenUpAfterMaxAttempts
<1> QED BY <1>1, <1>2, <1>3, <1>4

LEMMA NextIInv == IInv /\ [Next]_vars => IInv'
<1> SUFFICES ASSUME IInv, [Next]_vars PROVE IInv'
  OBVIOUS
<1>1. CASE UNCHANGED vars
  BY <1>1 DEF vars, tableVars, dispatcherVars, IInv, TypeOK, CountInv, CurInv,
              PublishedWasAccepted, GivenUpAfterMaxAttempts
<1>2. CASE Next
  BY <1>2, EnqueuePreserves,
     BackoffElapsesPreserves,
     CleanDeadLetterPreserves,
     SelectPreserves,
     PublishOKPreserves,
     PublishFailsPreserves,
     MarkPublishedPreserves,
     BumpAttemptsPreserves,
     DeadLetterPreserves,
     StatementFailsPreserves,
     RestartPreserves
     DEF Next, Dispatch
<1> QED BY <1>1, <1>2

LEMMA SpecIInv == Spec => []IInv
<1> QED BY InitIInv, NextIInv, PTL DEF Spec

(* Every variable keeps its type.                                          *)
THEOREM OutboxTypeCorrect == Spec => []TypeOK
<1>1. IInv => TypeOK
  BY DEF IInv
<1> QED BY <1>1, SpecIInv, PTL

(* Whichever replica marks a row published, the publisher had accepted the *)
(* event.                                                                  *)
THEOREM MarkedOnlyIfAccepted == Spec => []PublishedWasAccepted
<1>1. IInv => PublishedWasAccepted
  BY DEF IInv
<1> QED BY <1>1, SpecIInv, PTL

(* However replicas overwrite each other's count of attempts, no event is  *)
(* dead-lettered before MaxAttempts refused publishes.                     *)
THEOREM NeverGivenUpEarly == Spec => []GivenUpAfterMaxAttempts
<1>1. IInv => GivenUpAfterMaxAttempts
  BY DEF IInv
<1> QED BY <1>1, SpecIInv, PTL

(* Both, as the run checks them: what a row says of its event is so.       *)
THEOREM EventsAreMarkedTruly == Spec => []EventMarksAreTrue
<1>1. IInv => EventMarksAreTrue
  BY DEF IInv, EventMarksAreTrue
<1> QED BY <1>1, SpecIInv, PTL

-----------------------------------------------------------------------------
(* Webhooks.                                                               *)

HookTypes ==
  /\ attempt \in [W!Delivery -> Nat]
  /\ posts \in [W!Delivery -> Nat]
  /\ dead \subseteq W!Delivery
  /\ wpc \in [Dispatcher -> {"idle", "batch", "ok", "failed"}]
  /\ wbatch \in [Dispatcher -> SUBSET W!Delivery]
  /\ wseen \in [Dispatcher -> [W!Delivery -> Nat]]
  /\ wcur \in [Dispatcher -> W!Delivery \cup {None}]

(* The replicas that posted d and have not updated its row.                *)
Standing(d) == {w \in Dispatcher : wpc[w] \in {"ok", "failed"} /\ wcur[w] = d}

(* Each of them owes the row one attempt: the column is never ahead of the *)
(* requests.                                                               *)
OwedInv == \A d \in W!Delivery : attempt[d] + Cardinality(Standing(d)) <= posts[d]

(* What a replica read is behind the requests, by one after its post.      *)
ReadInv ==
  /\ \A w \in Dispatcher, d \in W!Delivery : wseen[w][d] <= posts[d]
  /\ \A w \in Dispatcher : wpc[w] = "failed" => wseen[w][wcur[w]] + 1 <= posts[wcur[w]]

StandingInv ==
  \A w \in Dispatcher :
    /\ wpc[w] \in {"ok", "failed"} => wcur[w] \in W!Delivery
    /\ wpc[w] = "ok" => wcur[w] \in accepted

HookInv == HookTypes /\ OwedInv /\ ReadInv /\ StandingInv /\ MarksAreTrue

LEMMA StandingIsFinite ==
  \A d : IsFiniteSet(Standing(d)) /\ Cardinality(Standing(d)) \in Nat
<1> SUFFICES ASSUME NEW d PROVE IsFiniteSet(Standing(d)) /\ Cardinality(Standing(d)) \in Nat
  OBVIOUS
<1>1. Standing(d) \subseteq Dispatcher
  BY DEF Standing
<1>2. IsFiniteSet(Standing(d))
  BY <1>1, WorkersAssumption, FS_Subset
<1> QED BY <1>2, FS_CardinalityType

LEMMA InitHookInv == W!Init => HookInv
<1> SUFFICES ASSUME W!Init PROVE HookInv
  OBVIOUS
<1>1. /\ HookTypes /\ ReadInv /\ StandingInv
  BY DEF W!Init, HookTypes, ReadInv, StandingInv
<1>2. MarksAreTrue
  BY DEF W!Init, MarksAreTrue, W!DeliveredWasAccepted, W!GivenUpAfterMaxAttempts
<1>3. ASSUME NEW d \in W!Delivery PROVE attempt[d] + Cardinality(Standing(d)) <= posts[d]
  <2>1. Standing(d) = {}
    BY DEF W!Init, Standing
  <2>2. Cardinality(Standing(d)) = 0
    BY <2>1, FS_EmptySet
  <2> QED BY <2>2 DEF W!Init
<1> QED BY <1>1, <1>2, <1>3 DEF HookInv, OwedInv

(* Whoever is switched, listed, inserted or retried: no dispatcher moves.  *)
LEMMA RowsForwards ==
  ASSUME HookInv, UNCHANGED <<attempt, posts, accepted, wpc, wbatch, wseen, wcur>>,
         delivered' \subseteq delivered, dead' \subseteq dead
  PROVE  HookInv'
<1>1. HookTypes' /\ ReadInv' /\ StandingInv'
  BY DEF HookInv, HookTypes, ReadInv, StandingInv
<1>2. OwedInv'
  BY DEF HookInv, OwedInv, Standing
<1>3. MarksAreTrue'
  BY DEF HookInv, MarksAreTrue, W!DeliveredWasAccepted, W!GivenUpAfterMaxAttempts
<1> QED BY <1>1, <1>2, <1>3 DEF HookInv

LEMMA SelectHook ==
  ASSUME HookInv, NEW w \in Dispatcher, NEW B \in SUBSET W!Delivery, W!Select(w, B)
  PROVE  HookInv'
<1>1. /\ wpc[w] = "idle"
      /\ wpc' = [wpc EXCEPT ![w] = "batch"]
      /\ wbatch' = [wbatch EXCEPT ![w] = B]
      /\ wseen' = [wseen EXCEPT ![w] = [d \in W!Delivery |-> IF d \in B THEN attempt[d] ELSE 0]]
      /\ UNCHANGED <<attempt, posts, accepted, delivered, dead, wcur>>
  BY DEF W!Select, W!rowVars, W!histVars
<1>2. /\ wpc'[w] = "batch" /\ \A x \in Dispatcher : x # w => wpc'[x] = wpc[x]
      /\ \A d \in W!Delivery : wseen'[w][d] = IF d \in B THEN attempt[d] ELSE 0
      /\ \A x \in Dispatcher : x # w => wseen'[x] = wseen[x]
  BY <1>1 DEF HookInv, HookTypes
<1>3. HookTypes'
  <2>1. [d \in W!Delivery |-> IF d \in B THEN attempt[d] ELSE 0] \in [W!Delivery -> Nat]
    BY DEF HookInv, HookTypes
  <2> QED BY <1>1, <2>1 DEF HookInv, HookTypes
<1>4. StandingInv'
  BY <1>1, <1>2 DEF HookInv, StandingInv
<1>5. \A d \in W!Delivery : attempt[d] <= posts[d]
  BY StandingIsFinite DEF HookInv, OwedInv, HookTypes
<1>6. ReadInv'
  <2>1. ASSUME NEW x \in Dispatcher, NEW d \in W!Delivery PROVE wseen'[x][d] <= posts[d]
    BY <1>2, <1>5 DEF HookInv, ReadInv, HookTypes
  <2>2. ASSUME NEW x \in Dispatcher, wpc'[x] = "failed"
        PROVE  wseen'[x][wcur[x]] + 1 <= posts[wcur[x]]
    BY <1>2, <2>2 DEF HookInv, ReadInv
  <2> QED BY <1>1, <2>1, <2>2 DEF ReadInv
<1>7. OwedInv'
  <2> SUFFICES ASSUME NEW d \in W!Delivery PROVE (attempt[d] + Cardinality(Standing(d)) <= posts[d])'
    BY DEF OwedInv
  <2>1. Standing(d)' = Standing(d)
    BY <1>1, <1>2 DEF Standing
  <2> QED BY <1>1, <2>1 DEF HookInv, OwedInv
<1>8. MarksAreTrue'
  BY <1>1 DEF HookInv, MarksAreTrue, W!DeliveredWasAccepted, W!GivenUpAfterMaxAttempts
<1> QED BY <1>3, <1>4, <1>6, <1>7, <1>8 DEF HookInv

(* A post: a request more, and a replica more that owes an attempt.        *)
LEMMA PostHook ==
  ASSUME HookInv, NEW w \in Dispatcher, NEW d \in W!Delivery,
         W!PostOK(w, d) \/ W!PostFails(w, d)
  PROVE  HookInv'
<1>1. /\ wpc[w] = "batch" /\ d \in wbatch[w]
      /\ wcur' = [wcur EXCEPT ![w] = d]
      /\ wbatch' = [wbatch EXCEPT ![w] = @ \ {d}]
      /\ posts' = [posts EXCEPT ![d] = @ + 1]
      /\ UNCHANGED <<attempt, delivered, dead, wseen>>
  BY DEF W!PostOK, W!PostFails, W!rowVars
<1>2. \/ wpc' = [wpc EXCEPT ![w] = "ok"] /\ accepted' = accepted \cup {d}
      \/ wpc' = [wpc EXCEPT ![w] = "failed"] /\ accepted' = accepted
  BY DEF W!PostOK, W!PostFails
<1>3. /\ wpc'[w] \in {"ok", "failed"} /\ (wpc'[w] = "ok" => d \in accepted')
      /\ accepted \subseteq accepted'
      /\ \A x \in Dispatcher : x # w => wpc'[x] = wpc[x]
      /\ wcur'[w] = d /\ \A x \in Dispatcher : x # w => wcur'[x] = wcur[x]
      /\ posts'[d] = posts[d] + 1 /\ \A e \in W!Delivery : e # d => posts'[e] = posts[e]
  BY <1>1, <1>2 DEF HookInv, HookTypes
<1>4. HookTypes'
  <2>1. wpc' \in [Dispatcher -> {"idle", "batch", "ok", "failed"}]
    BY <1>2 DEF HookInv, HookTypes
  <2>2. posts' \in [W!Delivery -> Nat]
    BY <1>1 DEF HookInv, HookTypes
  <2> QED BY <1>1, <2>1, <2>2 DEF HookInv, HookTypes
<1>5. StandingInv'
  BY <1>3 DEF HookInv, StandingInv
<1>6. \A e \in W!Delivery : posts[e] \in Nat /\ posts'[e] \in Nat /\ posts[e] <= posts'[e]
  BY <1>3 DEF HookInv, HookTypes
<1>7. ReadInv'
  <2>1. ASSUME NEW x \in Dispatcher, NEW e \in W!Delivery PROVE wseen'[x][e] <= posts'[e]
    <3>1. wseen[x][e] \in Nat /\ wseen[x][e] <= posts[e] /\ wseen'[x][e] = wseen[x][e]
      BY <1>1 DEF HookInv, ReadInv, HookTypes
    <3> QED BY <1>6, <3>1
  <2>2. ASSUME NEW x \in Dispatcher, wpc'[x] = "failed"
        PROVE  wseen'[x][wcur'[x]] + 1 <= posts'[wcur'[x]]
    <3>1. CASE x = w
      <4>1. wseen[w][d] \in Nat /\ wseen[w][d] <= posts[d] /\ wseen'[w][d] = wseen[w][d]
        BY <1>1 DEF HookInv, ReadInv, HookTypes
      <4> QED BY <1>3, <1>6, <3>1, <4>1
    <3>2. CASE x # w
      <4>1. PICK e \in W!Delivery : e = wcur[x] /\ wcur'[x] = e
        BY <1>3, <2>2, <3>2 DEF HookInv, StandingInv
      <4>2. wseen[x][e] \in Nat /\ wseen[x][e] + 1 <= posts[e] /\ wseen'[x][e] = wseen[x][e]
        BY <1>1, <1>3, <2>2, <3>2, <4>1 DEF HookInv, ReadInv, HookTypes
      <4> QED BY <1>6, <4>1, <4>2
    <3> QED BY <3>1, <3>2
  <2> QED BY <2>1, <2>2 DEF ReadInv
<1>8. OwedInv'
  <2> SUFFICES ASSUME NEW e \in W!Delivery PROVE (attempt[e] + Cardinality(Standing(e)) <= posts[e])'
    BY DEF OwedInv
  <2>1. attempt[e] + Cardinality(Standing(e)) <= posts[e] /\ attempt'[e] = attempt[e]
        /\ attempt[e] \in Nat
    BY <1>1 DEF HookInv, OwedInv, HookTypes
  <2>2. CASE e = d
    <3>1. Standing(e)' = Standing(e) \cup {w} /\ w \notin Standing(e)
      BY <1>1, <1>3, <2>2 DEF Standing
    <3>2. Cardinality(Standing(e) \cup {w}) = Cardinality(Standing(e)) + 1
      BY <3>1, StandingIsFinite, FS_AddElement
    <3> QED BY <1>3, <1>6, <2>1, <2>2, <3>1, <3>2, StandingIsFinite
  <2>3. CASE e # d
    <3>1. Standing(e)' = Standing(e)
      BY <1>1, <1>3, <2>3 DEF Standing
    <3> QED BY <1>3, <2>1, <2>3, <3>1
  <2> QED BY <2>2, <2>3
<1>9. MarksAreTrue'
  <2>1. delivered' \subseteq accepted'
    BY <1>1, <1>3 DEF HookInv, MarksAreTrue, W!DeliveredWasAccepted
  <2>2. ASSUME NEW e \in dead PROVE posts'[e] >= MaxPosts
    <3>1. e \in W!Delivery /\ posts[e] >= MaxPosts
      BY DEF HookInv, HookTypes, MarksAreTrue, W!GivenUpAfterMaxAttempts
    <3> QED BY <1>6, <3>1, WorkersAssumption
  <2> QED BY <1>1, <2>1, <2>2 DEF MarksAreTrue, W!DeliveredWasAccepted,
     W!GivenUpAfterMaxAttempts
<1> QED BY <1>4, <1>5, <1>7, <1>8, <1>9 DEF HookInv

(* A replica leaves its delivery; it pays at most what it owes.            *)
LEMMA LeaveHook ==
  ASSUME HookInv, NEW w \in Dispatcher,
         UNCHANGED <<posts, accepted>>,
         wpc' \in [Dispatcher -> {"idle", "batch", "ok", "failed"}],
         wpc'[w] \in {"idle", "batch"},
         \A x \in Dispatcher : x # w => wpc'[x] = wpc[x] /\ wcur'[x] = wcur[x]
                                        /\ wseen'[x] = wseen[x],
         wbatch' \in [Dispatcher -> SUBSET W!Delivery],
         wseen' \in [Dispatcher -> [W!Delivery -> Nat]],
         \A d \in W!Delivery : wseen'[w][d] <= wseen[w][d],
         wcur' \in [Dispatcher -> W!Delivery \cup {None}],
         attempt' \in [W!Delivery -> Nat],
         \A d \in W!Delivery :
           \/ attempt'[d] = attempt[d]
           \/ attempt'[d] = attempt[d] + 1 /\ wpc[w] \in {"ok", "failed"} /\ wcur[w] = d,
         \A d \in delivered' : d \in delivered \/ d \in accepted,
         dead' \subseteq W!Delivery,
         \A d \in dead' : d \in dead \/ posts[d] >= MaxPosts
  PROVE  HookInv'
<1>1. HookTypes'
  BY DEF HookInv, HookTypes
<1>2. StandingInv'
  BY DEF HookInv, StandingInv
<1>3. ReadInv'
  <2>1. ASSUME NEW x \in Dispatcher, NEW d \in W!Delivery PROVE wseen'[x][d] <= posts[d]
    <3>1. wseen[x][d] \in Nat /\ wseen'[x][d] \in Nat /\ posts[d] \in Nat
      BY DEF HookInv, HookTypes
    <3>2. wseen'[x][d] <= wseen[x][d]
      BY <3>1
    <3>3. wseen[x][d] <= posts[d]
      BY DEF HookInv, ReadInv
    <3> QED BY <3>1, <3>2, <3>3
  <2>2. ASSUME NEW x \in Dispatcher, wpc'[x] = "failed"
        PROVE  wseen'[x][wcur'[x]] + 1 <= posts[wcur'[x]]
    BY <2>2 DEF HookInv, ReadInv
  <2> QED BY <2>1, <2>2 DEF ReadInv
<1>4. OwedInv'
  <2> SUFFICES ASSUME NEW d \in W!Delivery PROVE (attempt[d] + Cardinality(Standing(d)) <= posts[d])'
    BY DEF OwedInv
  <2>1. attempt[d] + Cardinality(Standing(d)) <= posts[d] /\ attempt[d] \in Nat /\ posts[d] \in Nat
    BY DEF HookInv, OwedInv, HookTypes
  <2>2. Standing(d)' = Standing(d) \ {w}
    BY DEF Standing
  <2>3. Cardinality(Standing(d) \ {w}) =
          IF w \in Standing(d) THEN Cardinality(Standing(d)) - 1 ELSE Cardinality(Standing(d))
    BY StandingIsFinite, FS_RemoveElement
  <2>4. attempt'[d] = attempt[d] \/ (attempt'[d] = attempt[d] + 1 /\ w \in Standing(d))
    BY DEF Standing
  <2>5. Cardinality(Standing(d)) \in Nat
    BY StandingIsFinite
  <2>6. attempt'[d] + Cardinality(Standing(d) \ {w}) <= posts[d]
    BY <2>1, <2>3, <2>4, <2>5
  <2> QED BY <2>2, <2>6
<1>5. MarksAreTrue'
  BY DEF HookInv, MarksAreTrue, W!DeliveredWasAccepted, W!GivenUpAfterMaxAttempts
<1> QED BY <1>1, <1>2, <1>3, <1>4, <1>5 DEF HookInv

LEMMA NextOfBatchHook ==
  ASSUME HookInv, NEW w \in Dispatcher, wpc[w] \in {"ok", "failed"}, W!NextOfBatch(w)
  PROVE  /\ UNCHANGED <<posts, accepted>>
         /\ wpc' \in [Dispatcher -> {"idle", "batch", "ok", "failed"}]
         /\ wpc'[w] \in {"idle", "batch"}
         /\ \A x \in Dispatcher : x # w => wpc'[x] = wpc[x] /\ wcur'[x] = wcur[x]
                                           /\ wseen'[x] = wseen[x]
         /\ wbatch' \in [Dispatcher -> SUBSET W!Delivery]
         /\ wseen' \in [Dispatcher -> [W!Delivery -> Nat]]
         /\ \A d \in W!Delivery : wseen'[w][d] <= wseen[w][d]
         /\ wcur' \in [Dispatcher -> W!Delivery \cup {None}]
<1>1. /\ wcur' = [wcur EXCEPT ![w] = None]
      /\ wpc' = [wpc EXCEPT ![w] = IF wbatch[w] = {} THEN "idle" ELSE "batch"]
      /\ wseen' = [wseen EXCEPT ![w] = [@ EXCEPT ![wcur[w]] = 0]]
      /\ UNCHANGED <<posts, accepted, wbatch>>
  BY DEF W!NextOfBatch
<1>2. PICK f : f = [wseen[w] EXCEPT ![wcur[w]] = 0]
  OBVIOUS
<1>3. wseen[w] \in [W!Delivery -> Nat] /\ f \in [W!Delivery -> Nat]
  BY <1>2 DEF HookInv, HookTypes
<1>4. \A d \in W!Delivery : f[d] <= wseen[w][d]
  BY <1>2, <1>3
<1>5. wseen' = [wseen EXCEPT ![w] = f]
  BY <1>1, <1>2
<1>6. /\ wseen' \in [Dispatcher -> [W!Delivery -> Nat]] /\ wseen'[w] = f
      /\ \A x \in Dispatcher : x # w => wseen'[x] = wseen[x]
  BY <1>3, <1>5 DEF HookInv, HookTypes
<1>7. /\ wpc' \in [Dispatcher -> {"idle", "batch", "ok", "failed"}]
      /\ wpc'[w] \in {"idle", "batch"}
      /\ \A x \in Dispatcher : x # w => wpc'[x] = wpc[x] /\ wcur'[x] = wcur[x]
      /\ wcur' \in [Dispatcher -> W!Delivery \cup {None}]
      /\ wbatch' \in [Dispatcher -> SUBSET W!Delivery]
  BY <1>1 DEF HookInv, HookTypes
<1> QED BY <1>1, <1>4, <1>6, <1>7

(* The three updates after a post, the one that fails, and a restart.      *)
LEMMA MarkHook ==
  ASSUME HookInv, NEW w \in Dispatcher,
         W!MarkSucceeded(w) \/ W!DeadLetter(w) \/ W!ScheduleRetry(w)
  PROVE  HookInv'
<1>1. /\ wpc[w] \in {"ok", "failed"}
      /\ W!NextOfBatch(w)
      /\ attempt' = [attempt EXCEPT ![wcur[w]] = @ + 1]
  BY DEF W!MarkSucceeded, W!DeadLetter, W!ScheduleRetry, W!CountAttempt,
     W!DeadLetterDelivery,
         W!ScheduleDeliveryRetry
<1>2. PICK e \in W!Delivery : e = wcur[w]
  BY <1>1 DEF HookInv, StandingInv
<1>3. /\ attempt' \in [W!Delivery -> Nat]
      /\ attempt'[e] = attempt[e] + 1
      /\ \A d \in W!Delivery : d # e => attempt'[d] = attempt[d]
  BY <1>1, <1>2 DEF HookInv, HookTypes
<1>4. \A d \in delivered' : d \in delivered \/ d \in accepted
  <2>1. CASE W!MarkSucceeded(w)
    BY <2>1 DEF W!MarkSucceeded, HookInv, StandingInv
  <2>2. CASE W!DeadLetter(w) \/ W!ScheduleRetry(w)
    BY <2>2 DEF W!DeadLetter, W!ScheduleRetry
  <2> QED BY <2>1, <2>2
<1>5. dead' \subseteq W!Delivery /\ \A d \in dead' : d \in dead \/ posts[d] >= MaxPosts
  <2>1. CASE W!DeadLetter(w)
    <3>1. wpc[w] = "failed" /\ wseen[w][e] + 1 >= MaxPosts /\ dead' = dead \cup {e}
      BY <1>2, <2>1 DEF W!DeadLetter, W!DeadLetterDelivery
    <3>2. wseen[w][e] + 1 <= posts[e] /\ wseen[w][e] \in Nat /\ posts[e] \in Nat
      BY <1>2, <3>1 DEF HookInv, ReadInv, HookTypes
    <3>3. posts[e] >= MaxPosts
      BY <3>1, <3>2, WorkersAssumption
    <3> QED BY <3>1, <3>3 DEF HookInv, HookTypes
  <2>2. CASE W!MarkSucceeded(w) \/ W!ScheduleRetry(w)
    BY <2>2 DEF W!MarkSucceeded, W!ScheduleRetry, HookInv, HookTypes
  <2> QED BY <2>1, <2>2
<1> QED BY <1>1, <1>2, <1>3, <1>4, <1>5, NextOfBatchHook, LeaveHook

LEMMA StatementFailsHook ==
  ASSUME HookInv, NEW w \in Dispatcher, W!StatementFails(w)
  PROVE  HookInv'
<1>1. /\ wpc[w] \in {"ok", "failed"}
      /\ W!NextOfBatch(w)
      /\ UNCHANGED <<delivered, dead, attempt>>
  BY DEF W!StatementFails
<1>2. attempt \in [W!Delivery -> Nat] /\ dead \subseteq W!Delivery
  BY DEF HookInv, HookTypes
<1> QED BY <1>1, <1>2, NextOfBatchHook, LeaveHook

LEMMA RestartHook ==
  ASSUME HookInv, NEW w \in Dispatcher, W!Restart(w)
  PROVE  HookInv'
<1>1. /\ wpc' = [wpc EXCEPT ![w] = "idle"]
      /\ wbatch' = [wbatch EXCEPT ![w] = {}]
      /\ wseen' = [wseen EXCEPT ![w] = [d \in W!Delivery |-> 0]]
      /\ wcur' = [wcur EXCEPT ![w] = None]
      /\ UNCHANGED <<attempt, posts, accepted, delivered, dead>>
  BY DEF W!Restart, W!rowVars
<1>2. [d \in W!Delivery |-> 0] \in [W!Delivery -> Nat]
  OBVIOUS
<1>3. /\ wseen' \in [Dispatcher -> [W!Delivery -> Nat]]
      /\ \A d \in W!Delivery : wseen'[w][d] <= wseen[w][d]
      /\ \A x \in Dispatcher : x # w => wpc'[x] = wpc[x] /\ wcur'[x] = wcur[x]
                                        /\ wseen'[x] = wseen[x]
  BY <1>1, <1>2 DEF HookInv, HookTypes
<1>4. /\ wpc' \in [Dispatcher -> {"idle", "batch", "ok", "failed"}]
      /\ wpc'[w] \in {"idle", "batch"}
      /\ wcur' \in [Dispatcher -> W!Delivery \cup {None}]
      /\ wbatch' \in [Dispatcher -> SUBSET W!Delivery]
      /\ attempt' \in [W!Delivery -> Nat] /\ dead' \subseteq W!Delivery
  BY <1>1 DEF HookInv, HookTypes
<1> QED BY <1>1, <1>3, <1>4, LeaveHook

LEMMA NextHookInv ==
  ASSUME HookInv, W!Next
  PROVE  HookInv'
<1>1. CASE \E s \in Subscription : W!Create(s) \/ W!Disable(s)
  BY <1>1, RowsForwards DEF W!Create, W!Disable, W!rowVars, W!histVars, W!dispatcherVars
<1>2. CASE \E m \in Emission : W!ListSubscriptions(m) \/ W!EmissionEnds(m)
  BY <1>2, RowsForwards
     DEF W!ListSubscriptions, W!EmissionEnds, W!rowVars, W!histVars, W!dispatcherVars
<1>3. CASE \E m \in Emission, s \in Subscription : W!InsertDelivery(m, s)
  BY <1>3, RowsForwards DEF W!InsertDelivery, W!histVars, W!dispatcherVars
<1>4. CASE \E d \in W!Delivery : W!RetryDelivery(d) \/ W!BackoffElapses(d)
  <2>1. PICK d \in W!Delivery : W!RetryDelivery(d) \/ W!BackoffElapses(d)
    BY <1>4
  <2>2. /\ UNCHANGED <<attempt, posts, accepted, wpc, wbatch, wseen, wcur>>
        /\ delivered' \subseteq delivered /\ dead' \subseteq dead
    BY <2>1 DEF W!RetryDelivery, W!BackoffElapses, W!histVars, W!dispatcherVars
  <2> QED BY <2>2, RowsForwards
<1>5. ASSUME NEW w \in Dispatcher, W!Dispatch(w) \/ W!StatementFails(w) \/ W!Restart(w)
      PROVE  HookInv'
  BY <1>5, SelectHook, PostHook, MarkHook, StatementFailsHook, RestartHook DEF W!Dispatch
<1> QED BY <1>1, <1>2, <1>3, <1>4, <1>5 DEF W!Next

-----------------------------------------------------------------------------
(* Erasure.                                                                *)

EraseTypes ==
  /\ user \in [User -> {"live", "deleted", "gone"}]
  /\ data \in [User -> SUBSET E!Kind]
  /\ purge \in [Purge -> {"none", "pending", "cancelled", "completed", "gone"}]
  /\ subject = [q \in Purge \cup Export |-> subject[q]]

(* An erased account is not live until it is restored: only a live one can *)
(* be edited.                                                              *)
ErasedInv ==
  \A q \in Purge : purge[q] = "completed" /\ subject[q] \in User \ restored =>
    "profile" \notin data[subject[q]] /\ user[subject[q]] # "live"

EInv == EraseTypes /\ ErasedInv

LEMMA ErasedIsRedacted == EInv => CompletedIsRedacted
BY DEF EInv, EraseTypes, ErasedInv, CompletedIsRedacted, E!CompletedIsRedacted, E!Redacted

LEMMA InitEInv == E!Init => EInv
BY DEF E!Init, EInv, EraseTypes, ErasedInv

LEMMA EraseQuiet ==
  ASSUME EInv, UNCHANGED <<user, data, purge, subject, restored>>
  PROVE  EInv'
BY DEF EInv, EraseTypes, ErasedInv

LEMMA UpdateErases ==
  ASSUME EInv, NEW u \in User, NEW k \in E!Kind, E!Update(u, k)
  PROVE  EInv'
<1>1. /\ user[u] = "live" /\ data' = [data EXCEPT ![u] = @ \cup {k}]
      /\ UNCHANGED <<user, purge, subject, restored>>
  BY DEF E!Update, E!queueVars, E!miscVars
<1> QED BY <1>1 DEF EInv, EraseTypes, ErasedInv

(* A reset token brings a password back, and nothing of the profile.       *)
LEMMA ResetErases ==
  ASSUME EInv, NEW u \in User, E!ConfirmPasswordReset(u)
  PROVE  EInv'
<1>1. /\ data' = [data EXCEPT ![u] = @ \cup {"password"}]
      /\ UNCHANGED <<user, purge, subject, restored>>
  BY DEF E!ConfirmPasswordReset, E!queueVars, E!miscVars
<1>2. EraseTypes'
  BY <1>1 DEF EInv, EraseTypes, E!Kind
<1> QED BY <1>1, <1>2 DEF EInv, EraseTypes, ErasedInv

LEMMA SoftDeleteErases ==
  ASSUME EInv, NEW u \in User, E!SoftDelete(u)
  PROVE  EInv'
<1>1. /\ user' = [user EXCEPT ![u] = "deleted"]
      /\ UNCHANGED <<data, purge, subject, restored>>
  BY DEF E!SoftDelete, E!queueVars, E!miscVars
<1> QED BY <1>1 DEF EInv, EraseTypes, ErasedInv

LEMMA RestoreErases ==
  ASSUME EInv, NEW u \in User, E!Restore(u)
  PROVE  EInv'
<1>1. /\ user' = [user EXCEPT ![u] = "live"]
      /\ restored' = restored \cup {u}
      /\ UNCHANGED <<data, purge, subject>>
  BY DEF E!Restore, E!queueVars
<1> QED BY <1>1 DEF EInv, EraseTypes, ErasedInv

LEMMA DeleteRowsErases ==
  ASSUME EInv, NEW U, E!DeleteRows(U)
  PROVE  EInv'
<1>1. /\ user' = [u \in User |-> IF u \in U THEN "gone" ELSE user[u]]
      /\ data' = [u \in User |-> IF u \in U THEN {} ELSE data[u]]
      /\ purge' = [q \in Purge |-> IF subject[q] \in U THEN "gone" ELSE purge[q]]
      /\ UNCHANGED <<subject, restored>>
  BY DEF E!DeleteRows
<1>2. EraseTypes'
  BY <1>1 DEF EInv, EraseTypes
<1>3. ErasedInv'
  BY <1>1 DEF EInv, EraseTypes, ErasedInv
<1> QED BY <1>2, <1>3 DEF EInv

LEMMA RequestErases ==
  ASSUME EInv, NEW u \in User,
         (\E q \in Purge : E!RequestPurge(q, u)) \/ (\E x \in Export : E!RequestExport(x, u))
  PROVE  EInv'
<1>1. CASE \E q \in Purge : E!RequestPurge(q, u)
  <2>1. PICK q \in Purge : E!RequestPurge(q, u)
    BY <1>1
  <2>2. /\ purge' = [purge EXCEPT ![q] = "pending"]
        /\ subject' = [subject EXCEPT ![q] = u]
        /\ UNCHANGED <<user, data, restored>>
    BY <2>1 DEF E!RequestPurge, E!InsertPurgeRequest, E!userVars, E!miscVars
  <2> QED BY <2>2 DEF EInv, EraseTypes, ErasedInv
<1>2. CASE \E x \in Export : E!RequestExport(x, u)
  <2>1. PICK x \in Export : E!RequestExport(x, u)
    BY <1>2
  <2>2. /\ subject' = [subject EXCEPT ![x] = u]
        /\ UNCHANGED <<user, data, purge, restored>>
    BY <2>1 DEF E!RequestExport, E!InsertExportRequest, E!userVars, E!miscVars
  <2>3. \A q \in Purge : subject'[q] = subject[q]
    BY <2>2, WorkersAssumption DEF EInv, EraseTypes
  <2> QED BY <2>2, <2>3 DEF EInv, EraseTypes, ErasedInv
<1> QED BY <1>1, <1>2

LEMMA CancelErases ==
  ASSUME EInv, NEW q \in Purge, E!Cancel(q)
  PROVE  EInv'
<1>1. /\ purge' = [purge EXCEPT ![q] = "cancelled"]
      /\ UNCHANGED <<user, data, subject, restored>>
  BY DEF E!Cancel, E!userVars, E!miscVars
<1> QED BY <1>1 DEF EInv, EraseTypes, ErasedInv

(* The purge itself: whatever happened since the request was selected, it  *)
(* leaves the account deleted and its profile redacted.                    *)
LEMMA PurgeOneErases ==
  ASSUME EInv, NEW w \in Sweeper, NEW q \in Purge, E!PurgeOne(w, q)
  PROVE  EInv'
<1>1. PICK u : u = subject[q]
  OBVIOUS
<1>2. /\ user' = [user EXCEPT ![u] = IF @ = "gone" THEN @ ELSE "deleted"]
      /\ data' = [data EXCEPT ![u] = @ \ (E!Redacted \cup E!Dropped)]
      /\ purge' = [purge EXCEPT ![q] = IF @ = "gone" THEN @ ELSE "completed"]
      /\ restored' = restored \ {u}
      /\ subject' = subject
  BY <1>1 DEF E!PurgeOne, E!PurgeUserPII
<1>3. EraseTypes'
  BY <1>2 DEF EInv, EraseTypes
<1>4. ASSUME NEW p \in Purge, purge'[p] = "completed", subject[p] \in User \ restored'
      PROVE  "profile" \notin data'[subject[p]] /\ user'[subject[p]] # "live"
  <2>1. CASE subject[p] = u
    BY <1>2, <1>4, <2>1 DEF EInv, EraseTypes, E!Redacted
  <2>2. CASE subject[p] # u
    <3>1. p # q /\ purge[p] = "completed" /\ subject[p] \in User \ restored
      BY <1>1, <1>2, <1>4, <2>2 DEF EInv, EraseTypes
    <3> QED BY <1>2, <2>2, <3>1 DEF EInv, EraseTypes, ErasedInv
  <2> QED BY <2>1, <2>2
<1>5. ErasedInv'
  BY <1>2, <1>4 DEF ErasedInv
<1> QED BY <1>3, <1>5 DEF EInv

LEMMA SweepErases ==
  ASSUME EInv, NEW w \in Sweeper, E!SweepStep(w)
  PROVE  EInv'
<1>1. CASE \E q \in Purge : E!PurgeOne(w, q)
  BY <1>1, PurgeOneErases
<1>2. CASE UNCHANGED <<user, data, purge, subject, restored>>
  BY <1>2, EraseQuiet
<1>3. (\E B \in SUBSET Purge : E!SelectPurges(w, B)) =>
        UNCHANGED <<user, data, purge, subject, restored>>
  BY DEF E!SelectPurges, E!userVars, E!queueVars, E!miscVars
<1>4. (\E B \in SUBSET Export : E!SelectExports(w, B)) \/ (\E x \in Export : E!Collect(w, x)) =>
        UNCHANGED <<user, data, purge, subject, restored>>
  BY DEF E!SelectExports, E!Collect, E!userVars, E!queueVars, E!miscVars
<1>5. E!Ready(w) \/ E!Fail(w) \/ E!EndTick(w) =>
        UNCHANGED <<user, data, purge, subject, restored>>
  BY DEF E!Ready, E!Fail, E!EndTick, E!NextExport, E!userVars, E!queueVars, E!miscVars
<1> QED BY <1>1, <1>2, <1>3, <1>4, <1>5 DEF E!SweepStep

LEMMA NextEInv ==
  ASSUME EInv, E!Next
  PROVE  EInv'
<1>1. ASSUME NEW u \in User, E!UserStep(u) PROVE EInv'
  <2>1. E!SignIn(u) \/ E!Age(u) => UNCHANGED <<user, data, purge, subject, restored>>
    BY DEF E!SignIn, E!Age, E!queueVars, E!miscVars
  <2>2. CASE E!PurgeUser(u)
    BY <2>2, DeleteRowsErases DEF E!PurgeUser
  <2>3. CASE \E k \in {"profile", "avatar"} : E!Update(u, k)
    BY <2>3, UpdateErases DEF E!Kind
  <2> QED BY <1>1, <2>1, <2>2, <2>3, EraseQuiet, ResetErases, SoftDeleteErases, RestoreErases,
             RequestErases DEF E!UserStep
<1>2. CASE (\E b \in BOOLEAN : E!SetPolicy(b)) \/ E!ListPolicies
  <2>1. UNCHANGED <<user, data, purge, subject, restored>>
    BY <1>2 DEF E!SetPolicy, E!ListPolicies, E!userVars, E!queueVars, E!miscVars
  <2> QED BY <2>1, EraseQuiet
<1>3. CASE E!PurgeTenant \/ E!RunRetention
  <2>1. E!DeleteRows({u \in aged : user[u] = "deleted"})
    BY <1>3 DEF E!PurgeTenant, E!RunRetention
  <2> QED BY <2>1, DeleteRowsErases
<1>4. ASSUME NEW q \in Purge, E!GraceEnds(q) \/ E!Cancel(q) PROVE EInv'
  <2>1. E!GraceEnds(q) => UNCHANGED <<user, data, purge, subject, restored>>
    BY DEF E!GraceEnds, E!userVars, E!miscVars
  <2> QED BY <1>4, <2>1, EraseQuiet, CancelErases
<1>5. ASSUME NEW w \in Sweeper, E!SweepStep(w) \/ E!Restart(w) PROVE EInv'
  <2>1. E!Restart(w) => UNCHANGED <<user, data, purge, subject, restored>>
    BY DEF E!Restart, E!userVars, E!queueVars
  <2> QED BY <1>5, <2>1, EraseQuiet, SweepErases
<1>6. ASSUME NEW w \in Sweeper, NEW q \in Purge, E!PurgeOneFails(w, q) PROVE EInv'
  <2>1. UNCHANGED <<user, data, purge, subject, restored>>
    BY <1>6 DEF E!PurgeOneFails, E!userVars, E!queueVars
  <2> QED BY <2>1, EraseQuiet
<1> QED BY <1>1, <1>2, <1>3, <1>4, <1>5, <1>6 DEF E!Next

-----------------------------------------------------------------------------
(* The jobs together.                                                      *)

LEMMA HookSpecInv == WorkersSpec => []HookInv
<1>1. WorkersInit => HookInv
  BY InitHookInv DEF WorkersInit
<1>2. HookInv /\ [WorkersNext]_allVars => HookInv'
  <2> SUFFICES ASSUME HookInv, [WorkersNext]_allVars PROVE HookInv'
    OBVIOUS
  <2>1. CASE W!Next
    BY <2>1, NextHookInv
  <2>2. CASE UNCHANGED hookVars
    BY <2>2, RowsForwards DEF hookVars
  <2> QED BY <2>1, <2>2
          DEF WorkersNext, OutboxStep, HookStep, EraseStep, allVars
<1> QED BY <1>1, <1>2, PTL DEF WorkersSpec

(* A webhook delivery shown as delivered was answered 2xx, and one given   *)
(* up was posted as often as the cap says, for any number of replicas,     *)
(* operator retries and failed updates: a replica decides from a count it  *)
(* read with the batch, and the column is never ahead of the requests.     *)
THEOREM DeliveryMarksAreTrue == WorkersSpec => []MarksAreTrue
<1>1. HookInv => MarksAreTrue
  BY DEF HookInv
<1> QED BY <1>1, HookSpecInv, PTL

LEMMA EraseSpecInv == WorkersSpec => []EInv
<1>1. WorkersInit => EInv
  BY InitEInv DEF WorkersInit
<1>2. EInv /\ [WorkersNext]_allVars => EInv'
  <2> SUFFICES ASSUME EInv, [WorkersNext]_allVars PROVE EInv'
    OBVIOUS
  <2>1. CASE E!Next
    BY <2>1, NextEInv
  <2>2. CASE UNCHANGED eraseVars
    BY <2>2, EraseQuiet DEF eraseVars
  <2> QED BY <2>1, <2>2
          DEF WorkersNext, OutboxStep, HookStep, EraseStep, allVars
<1> QED BY <1>1, <1>2, PTL DEF WorkersSpec

(* A completed erasure left no e-mail, phone, name or metadata on the      *)
(* account's row unless the account was restored afterwards, for any       *)
(* number of accounts, requests and sweepers, whatever was edited, deleted *)
(* or restored between the request, its selection and the purge.           *)
THEOREM CompletedMeansRedacted == WorkersSpec => []CompletedIsRedacted
<1>1. EInv => CompletedIsRedacted
  BY ErasedIsRedacted
<1> QED BY <1>1, EraseSpecInv, PTL

-----------------------------------------------------------------------------
(* The outbox implements an at-least-once queue.                           *)

(* What a replica holds was enqueued, and no row is forgotten.             *)
BatchInv == \A d \in Dispatcher : \A e \in batch[d] : row[e] # "none"

LEMMA BatchStep == IInv /\ BatchInv /\ [Next]_vars => BatchInv'
<1> SUFFICES ASSUME IInv, BatchInv, [Next]_vars PROVE BatchInv'
  OBVIOUS
<1>1. \A e \in Event : row[e] # "none" => row'[e] # "none"
  <2>1. CASE UNCHANGED row
    BY <2>1
  <2>2. CASE \E e \in Event : Enqueue(e) \/ CleanDeadLetter(e)
    BY <2>2 DEF Enqueue, CleanDeadLetter, IInv, TypeOK
  <2>3. CASE \E d \in Dispatcher : MarkPublished(d) \/ DeadLetter(d)
    BY <2>3 DEF MarkPublished, DeadLetter, IInv, TypeOK
  <2>4. UNCHANGED vars => UNCHANGED row
    BY DEF vars, tableVars
  <2>5. \A e \in Event : BackoffElapses(e) => UNCHANGED row
    BY DEF BackoffElapses
  <2>6. \A d \in Dispatcher : BumpAttempts(d) \/ StatementFails(d) \/ Restart(d) => UNCHANGED row
    BY DEF BumpAttempts, StatementFails, Restart, tableVars
  <2>7. ASSUME NEW d \in Dispatcher,
               (\E B \in SUBSET Event : Select(d, B))
                 \/ \E e \in Event : PublishOK(d, e) \/ PublishFails(d, e)
        PROVE  UNCHANGED row
    BY <2>7 DEF Select, PublishOK, PublishFails, tableVars
  <2> QED BY <2>1, <2>2, <2>3, <2>4, <2>5, <2>6, <2>7 DEF Next, Dispatch
<1>2. ASSUME NEW d \in Dispatcher, NEW e \in batch'[d]
      PROVE  e \in batch[d] \/ (e \in Event /\ row[e] = "queued")
  <2>1. CASE UNCHANGED batch
    BY <1>2, <2>1
  <2>2. CASE \E x \in Dispatcher, B \in SUBSET Event : Select(x, B)
    BY <1>2, <2>2 DEF Select, Due, IInv, TypeOK
  <2>3. CASE \E x \in Dispatcher, y \in Event : PublishOK(x, y) \/ PublishFails(x, y)
    <3>1. PICK x \in Dispatcher, y \in Event : batch' = [batch EXCEPT ![x] = @ \ {y}]
      BY <2>3 DEF PublishOK, PublishFails
    <3>2. batch'[d] \subseteq batch[d]
      BY <3>1 DEF IInv, TypeOK
    <3> QED BY <1>2, <3>2
  <2>4. CASE \E x \in Dispatcher : Restart(x)
    BY <1>2, <2>4 DEF Restart, IInv, TypeOK
  <2>5. UNCHANGED vars => UNCHANGED batch
    BY DEF vars, dispatcherVars
  <2>6. \A x \in Event : Enqueue(x) \/ BackoffElapses(x) \/ CleanDeadLetter(x) => UNCHANGED batch
    BY DEF Enqueue, BackoffElapses, CleanDeadLetter, dispatcherVars
  <2>7. \A x \in Dispatcher :
          MarkPublished(x) \/ BumpAttempts(x) \/ DeadLetter(x) \/ StatementFails(x)
            => UNCHANGED batch
    BY DEF MarkPublished, BumpAttempts, DeadLetter, StatementFails, NextOfBatch
  <2> QED BY <2>1, <2>2, <2>3, <2>4, <2>5, <2>6, <2>7 DEF Next, Dispatch
<1> QED BY <1>1, <1>2 DEF BatchInv, IInv, TypeOK

knownBar == {e \in Event : row[e] # "none"}
doneBar == {e \in Event : row[e] = "published"}
deadBar == {e \in Event : row[e] \in {"dead", "purged"}}

LEMMA QueueInit == Init => Queue!Init
BY DEF Init, Queue!Init

LEMMA QueueQuiet ==
  ASSUME UNCHANGED <<row, acked, failures>>
  PROVE  UNCHANGED Queue!vars
BY DEF Queue!vars

LEMMA EnqueuePuts ==
  ASSUME IInv, NEW e \in Event, Enqueue(e)
  PROVE  Queue!Next
<1>1. /\ row[e] = "none" /\ row' = [row EXCEPT ![e] = "queued"]
      /\ UNCHANGED <<acked, failures>>
      /\ row \in [Event -> {"none", "queued", "published", "dead", "purged"}]
  BY DEF Enqueue, IInv, TypeOK
<1>2. /\ knownBar' = knownBar \cup {e} /\ e \notin knownBar
      /\ UNCHANGED <<doneBar, deadBar>>
  BY <1>1 DEF knownBar, doneBar, deadBar
<1>3. Queue!Put(e)
  BY <1>1, <1>2 DEF Queue!Put, knownBar, doneBar, deadBar
<1> QED BY <1>3 DEF Queue!Next

LEMMA PublishAccepts ==
  ASSUME IInv, BatchInv, NEW d \in Dispatcher, NEW e \in Event, PublishOK(d, e)
  PROVE  Queue!Next
<1>1. /\ acked' = acked \cup {e} /\ UNCHANGED <<row, failures>> /\ row[e] # "none"
  BY DEF PublishOK, tableVars, BatchInv
<1>2. Queue!Accept(e)
  BY <1>1 DEF Queue!Accept
<1> QED BY <1>2 DEF Queue!Next

(* A refusal beyond the cap is not counted.                                *)
LEMMA PublishRefuses ==
  ASSUME IInv, BatchInv, NEW d \in Dispatcher, NEW e \in Event, PublishFails(d, e)
  PROVE  Queue!Next \/ UNCHANGED Queue!vars
<1>1. /\ UNCHANGED <<row, acked>> /\ row[e] # "none"
      /\ failures' = [failures EXCEPT ![e] = IF @ < MaxAttempts THEN @ + 1 ELSE @]
      /\ failures \in [Event -> Nat]
  BY DEF PublishFails, tableVars, BatchInv, IInv, TypeOK
<1>2. CASE failures[e] < MaxAttempts
  <2>1. failures' = [failures EXCEPT ![e] = @ + 1]
    BY <1>1, <1>2
  <2>2. Queue!Refuse(e)
    BY <1>1, <2>1 DEF Queue!Refuse, Queue!Tried
  <2> QED BY <2>2 DEF Queue!Next
<1>3. CASE ~(failures[e] < MaxAttempts)
  <2>1. failures' = failures
    BY <1>1, <1>3
  <2> QED BY <1>1, <2>1, QueueQuiet
<1> QED BY <1>2, <1>3

(* An update that hits no row, the event being moved, is a stutter.        *)
LEMMA MarkPublishedMarks ==
  ASSUME IInv, NEW d \in Dispatcher, MarkPublished(d)
  PROVE  Queue!Next \/ UNCHANGED Queue!vars
<1>1. PICK e \in Event : e = cur[d] /\ e \in acked
  BY DEF MarkPublished, IInv, CurInv, TypeOK
<1>2. /\ row' = [row EXCEPT ![e] = IF @ = "queued" THEN "published" ELSE @]
      /\ UNCHANGED <<acked, failures>>
      /\ row \in [Event -> {"none", "queued", "published", "dead", "purged"}]
  BY <1>1 DEF MarkPublished, NextOfBatch, IInv, TypeOK
<1>3. CASE row[e] = "queued"
  <2>1. /\ e \in knownBar /\ e \notin deadBar /\ doneBar' = doneBar \cup {e}
        /\ UNCHANGED <<knownBar, deadBar>>
    BY <1>2, <1>3 DEF knownBar, doneBar, deadBar
  <2>2. Queue!MarkDone(e)
    BY <1>1, <1>2, <2>1 DEF Queue!MarkDone, knownBar, doneBar, deadBar
  <2> QED BY <2>2 DEF Queue!Next
<1>4. CASE row[e] # "queued"
  <2>1. row' = row
    BY <1>2, <1>4
  <2> QED BY <1>2, <2>1, QueueQuiet
<1> QED BY <1>3, <1>4

(* A row that another replica published is moved all the same.             *)
LEMMA DeadLetterGivesUp ==
  ASSUME IInv, NEW d \in Dispatcher, DeadLetter(d)
  PROVE  Queue!Next \/ UNCHANGED Queue!vars
<1>1. PICK e \in Event : e = cur[d] /\ seen[d][e] + 1 <= failures[e]
                         /\ seen[d][e] + 1 >= MaxAttempts
  BY DEF DeadLetter, IInv, CurInv, TypeOK
<1>2. /\ row' = [row EXCEPT ![e] = IF @ \in {"queued", "published"} THEN "dead" ELSE @]
      /\ UNCHANGED <<acked, failures>>
      /\ row \in [Event -> {"none", "queued", "published", "dead", "purged"}]
  BY <1>1 DEF DeadLetter, NextOfBatch, IInv, TypeOK
<1>3. failures[e] >= MaxAttempts
  BY <1>1, OutboxAssumption DEF IInv, TypeOK
<1>4. CASE row[e] \in {"queued", "published"}
  <2>1. /\ e \in knownBar /\ deadBar' = deadBar \cup {e} /\ doneBar' = doneBar \ {e}
        /\ UNCHANGED knownBar
    BY <1>2, <1>4 DEF knownBar, doneBar, deadBar
  <2>2. Queue!GiveUp(e)
    BY <1>2, <1>3, <2>1 DEF Queue!GiveUp, knownBar, doneBar, deadBar
  <2> QED BY <2>2 DEF Queue!Next
<1>5. CASE row[e] \notin {"queued", "published"}
  <2>1. row' = row
    BY <1>2, <1>5
  <2> QED BY <1>2, <2>1, QueueQuiet
<1> QED BY <1>4, <1>5

LEMMA QueueNext == IInv /\ BatchInv /\ [Next]_vars => [Queue!Next]_(Queue!vars)
<1> SUFFICES ASSUME IInv, BatchInv, [Next]_vars
             PROVE  Queue!Next \/ UNCHANGED Queue!vars
  OBVIOUS
<1>1. CASE UNCHANGED vars
  BY <1>1, QueueQuiet DEF vars, tableVars
<1>2. ASSUME NEW e \in Event, BackoffElapses(e) PROVE UNCHANGED Queue!vars
  BY <1>2, QueueQuiet DEF BackoffElapses
<1>3. ASSUME NEW e \in Event, CleanDeadLetter(e) PROVE UNCHANGED Queue!vars
  <2>1. row[e] = "dead" /\ row' = [row EXCEPT ![e] = "purged"] /\ UNCHANGED <<acked, failures>>
    BY <1>3 DEF CleanDeadLetter
  <2>2. UNCHANGED <<knownBar, doneBar, deadBar>>
    BY <2>1 DEF knownBar, doneBar, deadBar, IInv, TypeOK
  <2> QED BY <2>1, <2>2 DEF Queue!vars, knownBar, doneBar, deadBar
<1>4. ASSUME NEW d \in Dispatcher,
             (\E B \in SUBSET Event : Select(d, B))
               \/ BumpAttempts(d) \/ StatementFails(d) \/ Restart(d)
      PROVE  UNCHANGED Queue!vars
  <2>1. UNCHANGED <<row, acked, failures>>
    BY <1>4 DEF Select, BumpAttempts, StatementFails, Restart, NextOfBatch, tableVars
  <2> QED BY <2>1, QueueQuiet
<1> QED BY <1>1, <1>2, <1>3, <1>4, EnqueuePuts, PublishAccepts, PublishRefuses,
           MarkPublishedMarks, DeadLetterGivesUp DEF Next, Dispatch

-----------------------------------------------------------------------------
(* So do the webhook deliveries, which an operator can reopen.             *)

(* What a replica holds has a row, and no row is forgotten.                *)
HeldInv ==
  \A w \in Dispatcher :
    /\ \A d \in wbatch[w] : d \in there
    /\ wpc[w] \in {"ok", "failed"} => wcur[w] \in there

LEMMA HookQuietHeld ==
  ASSUME HeldInv, there \subseteq there', UNCHANGED <<wpc, wbatch, wcur>>
  PROVE  HeldInv'
BY DEF HeldInv

LEMMA SelectHeld ==
  ASSUME HookInv, HeldInv, NEW w \in Dispatcher, NEW B \in SUBSET W!Delivery, W!Select(w, B)
  PROVE  HeldInv'
<1>1. /\ wpc' = [wpc EXCEPT ![w] = "batch"] /\ wbatch' = [wbatch EXCEPT ![w] = B]
      /\ B \subseteq there /\ UNCHANGED <<there, wcur>>
  BY DEF W!Select, W!Due, W!rowVars
<1> QED BY <1>1 DEF HeldInv, HookInv, HookTypes

LEMMA PostHeld ==
  ASSUME HookInv, HeldInv, NEW w \in Dispatcher, NEW d \in W!Delivery,
         W!PostOK(w, d) \/ W!PostFails(w, d)
  PROVE  HeldInv' /\ d \in there
<1>1. /\ d \in wbatch[w] /\ UNCHANGED there
      /\ wcur' = [wcur EXCEPT ![w] = d] /\ wbatch' = [wbatch EXCEPT ![w] = @ \ {d}]
  BY DEF W!PostOK, W!PostFails, W!rowVars
<1>2. \A x \in Dispatcher : x # w => wpc'[x] = wpc[x]
  BY DEF W!PostOK, W!PostFails, HookInv, HookTypes
<1>3. /\ wcur'[w] = d /\ \A x \in Dispatcher : x # w => wcur'[x] = wcur[x]
      /\ \A x \in Dispatcher : wbatch'[x] \subseteq wbatch[x]
  BY <1>1 DEF HookInv, HookTypes
<1>4. d \in there
  BY <1>1 DEF HeldInv
<1> QED BY <1>1, <1>2, <1>3, <1>4 DEF HeldInv

LEMMA LeaveHeld ==
  ASSUME HookInv, HeldInv, NEW w \in Dispatcher,
         \/ W!MarkSucceeded(w) \/ W!DeadLetter(w) \/ W!ScheduleRetry(w)
         \/ W!StatementFails(w) \/ W!Restart(w)
  PROVE  HeldInv'
<1>1. CASE W!Restart(w)
  <2>1. /\ wpc' = [wpc EXCEPT ![w] = "idle"] /\ wbatch' = [wbatch EXCEPT ![w] = {}]
        /\ wcur' = [wcur EXCEPT ![w] = None] /\ UNCHANGED there
    BY <1>1 DEF W!Restart, W!rowVars
  <2> QED BY <2>1 DEF HeldInv, HookInv, HookTypes
<1>2. CASE W!MarkSucceeded(w) \/ W!DeadLetter(w) \/ W!ScheduleRetry(w) \/ W!StatementFails(w)
  <2>1. wpc[w] \in {"ok", "failed"} /\ W!NextOfBatch(w)
    BY <1>2 DEF W!MarkSucceeded, W!DeadLetter, W!ScheduleRetry, W!StatementFails
  <2>2. UNCHANGED <<there, wbatch>>
    BY <2>1 DEF W!NextOfBatch
  <2>3. /\ wpc'[w] \in {"idle", "batch"}
        /\ \A x \in Dispatcher : x # w => wpc'[x] = wpc[x] /\ wcur'[x] = wcur[x]
    BY <2>1, NextOfBatchHook
  <2> QED BY <2>2, <2>3 DEF HeldInv
<1> QED BY <1>1, <1>2

LEMMA HeldStep == HookInv /\ HeldInv /\ [W!Next]_hookVars => HeldInv'
<1> SUFFICES ASSUME HookInv, HeldInv, [W!Next]_hookVars PROVE HeldInv'
  OBVIOUS
<1>1. CASE UNCHANGED hookVars
  BY <1>1, HookQuietHeld DEF hookVars
<1>2. ASSUME NEW s \in Subscription, W!Create(s) \/ W!Disable(s) PROVE HeldInv'
  BY <1>2, HookQuietHeld DEF W!Create, W!Disable, W!rowVars, W!dispatcherVars
<1>3. ASSUME NEW m \in Emission, W!ListSubscriptions(m) \/ W!EmissionEnds(m) PROVE HeldInv'
  BY <1>3, HookQuietHeld DEF W!ListSubscriptions, W!EmissionEnds, W!rowVars, W!dispatcherVars
<1>4. ASSUME NEW m \in Emission, NEW s \in Subscription, W!InsertDelivery(m, s) PROVE HeldInv'
  BY <1>4, HookQuietHeld DEF W!InsertDelivery, W!dispatcherVars
<1>5. ASSUME NEW d \in W!Delivery, W!RetryDelivery(d) \/ W!BackoffElapses(d) PROVE HeldInv'
  BY <1>5, HookQuietHeld DEF W!RetryDelivery, W!BackoffElapses, W!dispatcherVars
<1> QED BY <1>1, <1>2, <1>3, <1>4, <1>5, SelectHeld, PostHeld, LeaveHeld DEF W!Next, W!Dispatch

LEMMA HookQueueInit == W!Init => W!Queue!Init
BY DEF W!Init, W!Queue!Init

LEMMA HookQueueQuiet ==
  ASSUME UNCHANGED <<there, accepted, posts, delivered, dead>>
  PROVE  UNCHANGED W!Queue!vars
BY DEF W!Queue!vars

LEMMA InsertPuts ==
  ASSUME NEW m \in Emission, NEW s \in Subscription, W!InsertDelivery(m, s)
  PROVE  W!Queue!Next \/ UNCHANGED W!Queue!vars
<1>1. /\ there' = there \cup {<<m, s>>} /\ UNCHANGED <<accepted, posts, delivered, dead>>
      /\ <<m, s>> \in W!Delivery
  BY DEF W!InsertDelivery, W!histVars, W!Delivery
<1>2. CASE <<m, s>> \in there
  <2>1. there' = there
    BY <1>1, <1>2
  <2> QED BY <1>1, <2>1, HookQueueQuiet
<1>3. CASE <<m, s>> \notin there
  BY <1>1, <1>3 DEF W!Queue!Next, W!Queue!Put
<1> QED BY <1>2, <1>3

LEMMA RetryReopens ==
  ASSUME NEW d \in W!Delivery, W!RetryDelivery(d)
  PROVE  W!Queue!Next
<1>1. W!Queue!Reopen(d)
  BY DEF W!RetryDelivery, W!Queue!Reopen
<1> QED BY <1>1 DEF W!Queue!Next

LEMMA PostTries ==
  ASSUME HookInv, HeldInv, NEW w \in Dispatcher, NEW d \in W!Delivery,
         W!PostOK(w, d) \/ W!PostFails(w, d)
  PROVE  W!Queue!Next
<1>1. d \in there
  BY PostHeld
<1>2. posts' = [posts EXCEPT ![d] = @ + 1] /\ UNCHANGED <<there, delivered, dead>>
  BY DEF W!PostOK, W!PostFails, W!rowVars
<1>3. W!PostOK(w, d) => W!Queue!Accept(d)
  BY <1>1, <1>2 DEF W!PostOK, W!Queue!Accept, W!Queue!Tried
<1>4. W!PostFails(w, d) => W!Queue!Refuse(d)
  BY <1>1, <1>2 DEF W!PostFails, W!Queue!Refuse, W!Queue!Tried
<1> QED BY <1>3, <1>4 DEF W!Queue!Next

LEMMA MarkSucceededMarks ==
  ASSUME HookInv, HeldInv, NEW w \in Dispatcher, W!MarkSucceeded(w)
  PROVE  W!Queue!Next
<1>1. /\ wpc[w] = "ok" /\ delivered' = delivered \cup {wcur[w]}
      /\ UNCHANGED <<there, accepted, posts, dead>>
  BY DEF W!MarkSucceeded, W!NextOfBatch
<1>2. wcur[w] \in W!Delivery /\ wcur[w] \in accepted /\ wcur[w] \in there
  BY <1>1 DEF HookInv, StandingInv, HeldInv
<1>3. W!Queue!MarkDone(wcur[w])
  BY <1>1, <1>2 DEF W!Queue!MarkDone
<1> QED BY <1>2, <1>3 DEF W!Queue!Next

LEMMA HookGivesUp ==
  ASSUME HookInv, HeldInv, NEW w \in Dispatcher, W!DeadLetter(w)
  PROVE  W!Queue!Next
<1>1. PICK d \in W!Delivery : d = wcur[w] /\ d \in there
  BY DEF W!DeadLetter, HookInv, StandingInv, HeldInv
<1>2. /\ wpc[w] = "failed" /\ wseen[w][d] + 1 >= MaxPosts /\ dead' = dead \cup {d}
      /\ UNCHANGED <<there, accepted, posts, delivered>>
  BY <1>1 DEF W!DeadLetter, W!DeadLetterDelivery, W!NextOfBatch
<1>3. posts[d] >= MaxPosts
  <2>1. wseen[w][d] + 1 <= posts[d] /\ wseen[w][d] \in Nat /\ posts[d] \in Nat
    BY <1>1, <1>2 DEF HookInv, ReadInv, HookTypes
  <2> QED BY <1>2, <2>1, WorkersAssumption
<1>4. W!Queue!GiveUp(d)
  BY <1>1, <1>2, <1>3 DEF W!Queue!GiveUp
<1> QED BY <1>4 DEF W!Queue!Next

LEMMA HookQueueNext ==
  HookInv /\ HeldInv /\ [W!Next]_hookVars => [W!Queue!Next]_(W!Queue!vars)
<1> SUFFICES ASSUME HookInv, HeldInv, [W!Next]_hookVars
             PROVE  W!Queue!Next \/ UNCHANGED W!Queue!vars
  OBVIOUS
<1>1. CASE UNCHANGED hookVars
  BY <1>1, HookQueueQuiet DEF hookVars
<1>2. ASSUME NEW s \in Subscription, W!Create(s) \/ W!Disable(s)
      PROVE  UNCHANGED W!Queue!vars
  BY <1>2, HookQueueQuiet DEF W!Create, W!Disable, W!rowVars, W!histVars
<1>3. ASSUME NEW m \in Emission, W!ListSubscriptions(m) \/ W!EmissionEnds(m)
      PROVE  UNCHANGED W!Queue!vars
  BY <1>3, HookQueueQuiet DEF W!ListSubscriptions, W!EmissionEnds, W!rowVars, W!histVars
<1>4. ASSUME NEW d \in W!Delivery, W!BackoffElapses(d) PROVE UNCHANGED W!Queue!vars
  BY <1>4, HookQueueQuiet DEF W!BackoffElapses, W!histVars
<1>5. ASSUME NEW w \in Dispatcher,
             (\E B \in SUBSET W!Delivery : W!Select(w, B)) \/ W!ScheduleRetry(w)
               \/ W!StatementFails(w) \/ W!Restart(w)
      PROVE  UNCHANGED W!Queue!vars
  <2>1. UNCHANGED <<there, accepted, posts, delivered, dead>>
    BY <1>5 DEF W!Select, W!ScheduleRetry, W!StatementFails, W!Restart, W!NextOfBatch,
       W!rowVars, W!histVars
  <2> QED BY <2>1, HookQueueQuiet
<1> QED BY <1>1, <1>2, <1>3, <1>4, <1>5, InsertPuts, RetryReopens, PostTries,
           MarkSucceededMarks, HookGivesUp DEF W!Next, W!Dispatch

-----------------------------------------------------------------------------
(* A behaviour of the jobs is one of each.                                 *)

LEMMA JobsStep ==
  [WorkersNext]_allVars => [Next]_vars /\ [W!Next]_hookVars
BY DEF WorkersNext, OutboxStep, HookStep, EraseStep, allVars

(* The outbox and the webhook deliveries are at-least-once queues, for any *)
(* number of messages and replicas: a message is marked only when it was   *)
(* accepted and given up only after the cap; and although replicas hold    *)
(* the same message and update its row late, the outbox never shows as     *)
(* published what was dead-lettered, nor takes back what was settled.      *)
THEOREM QueuesAreAtLeastOnce == WorkersSpec => QueuesImplemented
<1>1. WorkersInit => IInv /\ BatchInv /\ HookInv /\ HeldInv
  <2>1. Init => IInv
    BY InitIInv
  <2>2. Init => BatchInv
    BY DEF Init, BatchInv
  <2>3. W!Init => HookInv
    BY InitHookInv
  <2>4. W!Init => HeldInv
    BY DEF W!Init, HeldInv
  <2> QED BY <2>1, <2>2, <2>3, <2>4 DEF WorkersInit
<1>2. WorkersSpec => [](IInv /\ BatchInv)
  <2>1. IInv /\ BatchInv /\ [WorkersNext]_allVars => (IInv /\ BatchInv)'
    BY JobsStep, NextIInv, BatchStep
  <2> QED BY <1>1, <2>1, PTL DEF WorkersSpec
<1>3. WorkersSpec => []HeldInv
  <2>1. HookInv /\ HeldInv /\ [WorkersNext]_allVars => HeldInv'
    BY JobsStep, HeldStep
  <2> QED BY <1>1, <2>1, HookSpecInv, PTL DEF WorkersSpec
<1>4. WorkersSpec => ImplementsQueue
  <2>1. WorkersInit => Queue!Init
    BY QueueInit DEF WorkersInit
  <2>2. IInv /\ BatchInv /\ [WorkersNext]_allVars => [Queue!Next]_(Queue!vars)
    BY JobsStep, QueueNext
  <2> QED BY <1>2, <2>1, <2>2, PTL DEF WorkersSpec, ImplementsQueue, Queue!Spec
<1>5. WorkersSpec => W!ImplementsQueue
  <2>1. WorkersInit => W!Queue!Init
    BY HookQueueInit DEF WorkersInit
  <2>2. HookInv /\ HeldInv /\ [WorkersNext]_allVars => [W!Queue!Next]_(W!Queue!vars)
    BY JobsStep, HookQueueNext
  <2> QED BY <1>3, <2>1, <2>2, HookSpecInv, PTL
          DEF WorkersSpec, W!ImplementsQueue, W!Queue!Spec
<1> QED BY <1>4, <1>5 DEF QueuesImplemented

===============================================================================
