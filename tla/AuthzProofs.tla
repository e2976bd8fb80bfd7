----------------------------- MODULE AuthzProofs ------------------------------
(***************************************************************************)
(* Proofs about Relations, Roles and ScimGroups, for every set of nodes,   *)
(* persons, walkers, tenants, users, roles, groups, permissions and        *)
(* requests.                                                               *)
(***************************************************************************)
EXTENDS MCAuthz, FiniteSetTheorems, SequenceTheorems, WellFoundedInduction, TLAPS

-----------------------------------------------------------------------------
(* Relations: what a walk knows, on the values of its variables: the stack *)
(* st, the visited nodes vis, the root rt, the person p, the edges ed, and *)
(* the tuples stored all the time, sb, or at some time, ev.                *)

Found(vis, rt, ev) == rt \in vis /\ vis \subseteq Node /\ vis \subseteq R!Reach(ev, rt)

(* Every call is at a node of its own ...                                  *)
Framed(st, vis, ev) ==
  /\ st \in Seq(R!Frame) /\ st # <<>> /\ Len(st) <= Cardinality(vis)
  /\ \A k \in 1..Len(st) :
       st[k].node \in vis /\ \A s \in st[k].todo : <<st[k].node, s>> \in ev

(* ... and what a visited node led to all the time is still to be looked   *)
(* at, was somebody else, or was visited.                                  *)
Pending(st, n, s) == \E k \in 1..Len(st) : st[k].node = n /\ s \in st[k].todo
Settled(st, vis, p, sb) ==
  \A n \in vis, s \in R!Subject : <<n, s>> \in sb =>
    Pending(st, n, s) \/ (s \in Person /\ s # p) \/ s \in vis

Drawn(vis, ed, sb, ev) ==
  /\ \A n \in vis, s \in R!Subject : <<n, s>> \in sb => <<n, s>> \in ed
  /\ \A e \in ed : e \in ev /\ e[1] \in vis

Walks(st, vis, rt, p, ed, sb, ev) ==
  /\ Found(vis, rt, ev)
  /\ Framed(st, vis, ev)
  /\ R!WithinCap => Settled(st, vis, p, sb)
  /\ p = None => Drawn(vis, ed, sb, ev)

LEMMA ReachRoot == ASSUME NEW T, NEW r \in Node PROVE r \in R!Reach(T, r)
BY DEF R!Reach

LEMMA ReachStep ==
  ASSUME NEW T, NEW r, NEW n \in R!Reach(T, r), NEW m \in Node, <<n, m>> \in T
  PROVE  m \in R!Reach(T, r)
BY DEF R!Reach, R!Closed

LEMMA ReachGrows ==
  ASSUME NEW T, NEW T2, T \subseteq T2, NEW r
  PROVE  R!Reach(T, r) \subseteq R!Reach(T2, r)
BY DEF R!Reach, R!Closed

(* What is closed is all that is reached.                                  *)
LEMMA ReachWithin ==
  ASSUME NEW T, NEW r, NEW N, N \subseteq Node, r \in N, R!Closed(T, N)
  PROVE  R!Reach(T, r) \subseteq N
BY DEF R!Reach

LEMMA NodesFinite ==
  ASSUME NEW vis, vis \subseteq Node
  PROVE  /\ IsFiniteSet(vis) /\ Cardinality(vis) \in Nat
         /\ Cardinality(vis) <= Cardinality(Node)
         /\ Cardinality(vis) = Cardinality(Node) => vis = Node
<1>1. IsFiniteSet(vis)
  BY AuthzAssumption, FS_Subset
<1>2. /\ Cardinality(vis) <= Cardinality(Node)
      /\ Cardinality(vis) = Cardinality(Node) => vis = Node
  BY AuthzAssumption, FS_Subset
<1> QED BY <1>1, <1>2, FS_CardinalityType

LEMMA WithinCapIs == R!WithinCap <=> Cardinality(Node) <= MaxDepth + 1
BY DEF R!WithinCap, R!Cardinality, Cardinality

(* Taking a subject off the innermost call.                                *)
Took(st, s) == [st EXCEPT ![Len(st)].todo = @ \ {s}]

LEMMA TakenIs ==
  ASSUME NEW st \in Seq(R!Frame), st # <<>>, NEW s,
         NEW t, t = Took(st, s)
  PROVE  /\ t \in Seq(R!Frame) /\ Len(t) = Len(st) /\ t # <<>>
         /\ Len(st) \in 1..Len(st)
         /\ \A k \in 1..Len(st) : k # Len(st) => t[k] = st[k]
         /\ t[Len(st)].node = st[Len(st)].node
         /\ t[Len(st)].todo = st[Len(st)].todo \ {s}
<1>1. Len(st) \in 1..Len(st) /\ Len(st) \in Nat
  BY LenProperties
<1>2. PICK f : f = [st[Len(st)] EXCEPT !.todo = @ \ {s}]
  OBVIOUS
<1>3. st[Len(st)] \in R!Frame
  BY <1>1
<1>4. f \in R!Frame /\ f.node = st[Len(st)].node /\ f.todo = st[Len(st)].todo \ {s}
  BY <1>2, <1>3 DEF R!Frame
<1>5. t = [st EXCEPT ![Len(st)] = f]
  BY <1>1, <1>2 DEF Took
<1>6. PICK m : m = Len(st)
  OBVIOUS
<1>7. m \in 1..Len(st) /\ f \in R!Frame /\ t = [st EXCEPT ![m] = f]
  BY <1>1, <1>4, <1>5, <1>6
<1>8. /\ [st EXCEPT ![m] = f] \in Seq(R!Frame)
      /\ Len([st EXCEPT ![m] = f]) = Len(st)
      /\ \A j \in 1..Len(st) : [st EXCEPT ![m] = f][j] = IF j = m THEN f ELSE st[j]
  BY <1>7, ExceptSeq
<1>9. t \in Seq(R!Frame) /\ Len(t) = Len(st)
  BY <1>7, <1>8
<1>10. \A j \in 1..Len(st) : t[j] = IF j = m THEN f ELSE st[j]
  BY <1>7, <1>8
<1>11. t # <<>>
  BY <1>1, <1>9, EmptySeq
<1> QED BY <1>1, <1>4, <1>6, <1>9, <1>10, <1>11

LEMMA TakenPends ==
  ASSUME NEW st \in Seq(R!Frame), st # <<>>, NEW s,
         NEW t, t = Took(st, s),
         NEW n, NEW x, x # s, Pending(st, n, x)
  PROVE  Pending(t, n, x)
<1>1. PICK k \in 1..Len(st) : st[k].node = n /\ x \in st[k].todo
  BY DEF Pending
<1>2. t[k].node = n /\ x \in t[k].todo
  BY <1>1, TakenIs
<1>3. k \in 1..Len(t)
  BY TakenIs
<1> QED BY <1>2, <1>3 DEF Pending

(* What a graph draws of the subjects F of s, and the call for s.          *)
Drew(p, s, F) == IF p = None THEN {s} \X F ELSE {}
Call(s, F) == [node |-> s, todo |-> F]
Given(T, s) == {x \in R!Subject : <<s, x>> \in T}

(* A walk begins.                                                          *)
LEMMA AskWalks ==
  ASSUME NEW n \in Node, NEW p \in Person \cup {None}, NEW T, T \subseteq R!Tuple,
         NEW F, F = {s \in R!Subject : <<n, s>> \in T},
         NEW f, f = [node |-> n, todo |-> F],
         NEW ed, ed = IF p = None THEN {n} \X F ELSE {}
  PROVE  Walks(<<f>>, {n}, n, p, ed, T, T)
<1>1. Found({n}, n, T)
  BY ReachRoot DEF Found
<1>2. f \in R!Frame
  BY DEF R!Frame
<1>3. Cardinality({n}) = 1
  BY FS_Singleton
<1>4. Framed(<<f>>, {n}, T)
  <2>1. <<f>> \in Seq(R!Frame) /\ Len(<<f>>) = 1 /\ <<f>> # <<>> /\ <<f>>[1] = f
    BY <1>2
  <2> QED BY <1>3, <2>1 DEF Framed
<1>5. Settled(<<f>>, {n}, p, T)
  <2>1. Len(<<f>>) = 1 /\ <<f>>[1] = f
    OBVIOUS
  <2> QED BY <2>1 DEF Settled, Pending
<1>6. p = None => Drawn({n}, ed, T, T)
  BY DEF Drawn
<1> QED BY <1>1, <1>4, <1>5, <1>6 DEF Walks

(* A person who is not the one, or a node that need not be entered.        *)
LEMMA SkipWalks ==
  ASSUME NEW st, NEW vis, NEW rt, NEW p, NEW ed, NEW sb, NEW ev,
         Walks(st, vis, rt, p, ed, sb, ev),
         NEW s, R!WithinCap => (s \in Person /\ s # p) \/ s \in vis,
         NEW t, t = Took(st, s)
  PROVE  Walks(t, vis, rt, p, ed, sb, ev)
<1>1. st \in Seq(R!Frame) /\ st # <<>>
  BY DEF Walks, Framed
<1>2. Framed(t, vis, ev)
  <2>1. /\ t \in Seq(R!Frame) /\ Len(t) = Len(st) /\ t # <<>>
        /\ \A k \in 1..Len(st) : k # Len(st) => t[k] = st[k]
        /\ t[Len(st)].node = st[Len(st)].node
        /\ t[Len(st)].todo = st[Len(st)].todo \ {s}
    BY <1>1, TakenIs
  <2>2. ASSUME NEW k \in 1..Len(st)
        PROVE  t[k].node = st[k].node /\ t[k].todo \subseteq st[k].todo
    BY <2>1
  <2> QED BY <2>1, <2>2 DEF Walks, Framed
<1>3. ASSUME R!WithinCap PROVE Settled(t, vis, p, sb)
  <2> SUFFICES ASSUME NEW n \in vis, NEW x \in R!Subject, <<n, x>> \in sb,
                      ~((x \in Person /\ x # p) \/ x \in vis)
               PROVE  Pending(t, n, x)
    BY DEF Settled
  <2>1. Pending(st, n, x) /\ x # s
    BY <1>3 DEF Walks, Settled
  <2> QED BY <1>1, <2>1, TakenPends
<1> QED BY <1>2, <1>3 DEF Walks

(* The cap never cuts anything off that was not visited.                   *)
LEMMA CapIsNoCut ==
  ASSUME NEW st, NEW vis, NEW rt, NEW p, NEW ed, NEW sb, NEW ev,
         Walks(st, vis, rt, p, ed, sb, ev), R!WithinCap, Len(st) > MaxDepth
  PROVE  vis = Node
<1>1. vis \subseteq Node /\ Len(st) \in Nat /\ Len(st) <= Cardinality(vis)
  BY DEF Walks, Found, Framed
<1>2. /\ Cardinality(vis) \in Nat /\ Cardinality(vis) <= Cardinality(Node)
      /\ Cardinality(vis) = Cardinality(Node) => vis = Node
  BY <1>1, NodesFinite
<1>3. Cardinality(Node) <= MaxDepth + 1 /\ Cardinality(Node) \in Nat
  <2>1. Node \subseteq Node
    OBVIOUS
  <2>2. Cardinality(Node) \in Nat
    BY <2>1, NodesFinite
  <2> QED BY <2>2, WithinCapIs
<1> QED BY <1>1, <1>2, <1>3, AuthzAssumption

(* A node is entered.                                                      *)
LEMMA EnterWalks ==
  ASSUME NEW st, NEW vis, NEW rt, NEW p, NEW ed, NEW sb, NEW ev, NEW T,
         Walks(st, vis, rt, p, ed, sb, ev), sb \subseteq T, T \subseteq ev,
         NEW s \in Node, s \in st[Len(st)].todo, s \notin vis,
         NEW F, F = Given(T, s),
         NEW f, f = Call(s, F),
         NEW t, t = Took(st, s),
         NEW ed2, ed2 = ed \cup Drew(p, s, F)
  PROVE  Walks(Append(t, f), vis \cup {s}, rt, p, ed2, sb, ev)
<1>1. st \in Seq(R!Frame) /\ st # <<>> /\ Len(st) \in 1..Len(st) /\ Len(st) \in Nat
  <2>1. st \in Seq(R!Frame) /\ st # <<>>
    BY DEF Walks, Framed
  <2> QED BY <2>1, LenProperties
<1>2. /\ t \in Seq(R!Frame) /\ Len(t) = Len(st) /\ t # <<>>
      /\ \A k \in 1..Len(st) : k # Len(st) => t[k] = st[k]
      /\ t[Len(st)].node = st[Len(st)].node
      /\ t[Len(st)].todo = st[Len(st)].todo \ {s}
  BY <1>1, TakenIs
<1>3. f \in R!Frame
  BY DEF R!Frame, Call, Given
<1>4. PICK u : u = Append(t, f)
  OBVIOUS
<1>5. /\ u \in Seq(R!Frame) /\ Len(u) = Len(st) + 1 /\ u # <<>>
      /\ u[Len(st) + 1] = f
      /\ \A k \in 1..Len(st) : u[k] = t[k]
  BY <1>1, <1>2, <1>3, <1>4, AppendProperties, LenProperties
<1>6. Found(vis \cup {s}, rt, ev)
  <2>1. st[Len(st)].node \in vis /\ <<st[Len(st)].node, s>> \in ev
    BY <1>1 DEF Walks, Framed
  <2>2. s \in R!Reach(ev, rt)
    BY <2>1, ReachStep DEF Walks, Found
  <2> QED BY <2>2 DEF Walks, Found
<1>7. Framed(u, vis \cup {s}, ev)
  <2>1. Cardinality(vis \cup {s}) = Cardinality(vis) + 1
    BY NodesFinite, FS_AddElement DEF Walks, Found
  <2>2. Len(st) <= Cardinality(vis) /\ Cardinality(vis) \in Nat /\ Len(st) \in Nat
    BY <1>1, NodesFinite DEF Walks, Found, Framed
  <2>3. Len(u) <= Cardinality(vis \cup {s})
    BY <1>5, <2>1, <2>2
  <2>4. ASSUME NEW k \in 1..Len(u)
        PROVE  u[k].node \in vis \cup {s} /\ \A x \in u[k].todo : <<u[k].node, x>> \in ev
    <3>1. CASE k = Len(st) + 1
      BY <1>5, <3>1 DEF Call, Given
    <3>2. CASE k # Len(st) + 1
      <4>1. k \in 1..Len(st)
        BY <1>1, <1>5, <3>2
      <4>2. u[k].node = st[k].node /\ u[k].todo \subseteq st[k].todo
        BY <1>2, <1>5, <4>1
      <4> QED BY <4>1, <4>2 DEF Walks, Framed
    <3> QED BY <3>1, <3>2
  <2> QED BY <1>5, <2>3, <2>4 DEF Framed
<1>8. ASSUME R!WithinCap PROVE Settled(u, vis \cup {s}, p, sb)
  <2> SUFFICES ASSUME NEW n \in vis \cup {s}, NEW x \in R!Subject, <<n, x>> \in sb,
                      ~((x \in Person /\ x # p) \/ x \in vis \cup {s})
               PROVE  Pending(u, n, x)
    BY DEF Settled
  <2>1. CASE n = s
    <3>1. x \in f.todo /\ f.node = s
      BY <2>1 DEF Call, Given
    <3>2. Len(st) + 1 \in 1..Len(u)
      BY <1>1, <1>5
    <3> QED BY <1>5, <2>1, <3>1, <3>2 DEF Pending
  <2>2. CASE n # s
    <3>1. Pending(st, n, x) /\ x # s
      BY <1>8, <2>2 DEF Walks, Settled
    <3>2. Pending(t, n, x)
      BY <1>1, <3>1, TakenPends
    <3>3. PICK k \in 1..Len(st) : t[k].node = n /\ x \in t[k].todo
      BY <1>2, <3>2 DEF Pending
    <3>4. k \in 1..Len(u) /\ u[k] = t[k]
      BY <1>1, <1>5, <3>3
    <3> QED BY <3>3, <3>4 DEF Pending
  <2> QED BY <2>1, <2>2
<1>9. ASSUME p = None PROVE Drawn(vis \cup {s}, ed2, sb, ev)
  BY <1>9 DEF Walks, Drawn, Drew, Given
<1> QED BY <1>4, <1>6, <1>7, <1>8, <1>9 DEF Walks

(* The innermost call comes back.                                          *)
LEMMA ReturnWalks ==
  ASSUME NEW st, NEW vis, NEW rt, NEW p, NEW ed, NEW sb, NEW ev,
         Walks(st, vis, rt, p, ed, sb, ev),
         st[Len(st)].todo = {}, Len(st) # 1,
         NEW t, t = SubSeq(st, 1, Len(st) - 1)
  PROVE  Walks(t, vis, rt, p, ed, sb, ev)
<1>0. st \in Seq(R!Frame) /\ st # <<>>
  BY DEF Walks, Framed
<1>1. st \in Seq(R!Frame) /\ Len(st) \in Nat /\ Len(st) > 1
  <2>1. Len(st) \in Nat \ {0}
    BY <1>0, EmptySeq
  <2>2. Len(st) \in Nat /\ Len(st) # 0
    BY <2>1
  <2>3. \A l \in Nat : l # 0 /\ l # 1 => l > 1
    OBVIOUS
  <2>4. Len(st) > 1
    BY <2>2, <2>3
  <2> QED BY <1>0, <2>2, <2>4
<1>2. t \in Seq(R!Frame) /\ Len(t) = Len(st) - 1 /\ \A k \in 1..Len(t) : t[k] = st[k]
  <2>0. PICK m : m = Len(st) - 1
    OBVIOUS
  <2>1. m \in Int /\ m = Len(st) - 1 /\ 1 <= m
    BY <1>1, <2>0
  <2>2. \A i \in 1..m : st[i] \in R!Frame
    BY <1>1, <2>1, ElementOfSeq
  <2>3. /\ SubSeq(st, 1, m) \in Seq(R!Frame)
        /\ Len(SubSeq(st, 1, m)) = IF 1 <= m THEN m - 1 + 1 ELSE 0
        /\ \A i \in 1..(m - 1 + 1) : SubSeq(st, 1, m)[i] = st[1 + i - 1]
    BY <2>1, <2>2, SubSeqProperties
  <2>4. t = SubSeq(st, 1, m)
    BY <2>1
  <2>5. m - 1 + 1 = m /\ \A i \in 1..m : 1 + i - 1 = i
    BY <2>1
  <2>6. t \in Seq(R!Frame) /\ Len(t) = m
    BY <2>1, <2>3, <2>4, <2>5
  <2>7. \A i \in 1..m : t[i] = st[i]
    BY <2>3, <2>4, <2>5
  <2> QED BY <2>1, <2>6, <2>7
<1>3. t # <<>> /\ \A k \in 1..Len(t) : k \in 1..Len(st)
  <2>1. Len(t) # 0 /\ \A k \in 1..Len(t) : k \in 1..Len(st)
    BY <1>1, <1>2
  <2> QED BY <2>1, EmptySeq
<1>4. Framed(t, vis, ev)
  <2>1. Cardinality(vis) \in Nat
    BY NodesFinite DEF Walks, Found
  <2>2. Len(t) <= Cardinality(vis)
    BY <1>1, <1>2, <2>1 DEF Walks, Framed
  <2> QED BY <1>2, <1>3, <2>2 DEF Walks, Framed
<1>5. ASSUME NEW n, NEW x, Pending(st, n, x) PROVE Pending(t, n, x)
  <2>1. PICK k \in 1..Len(st) : st[k].node = n /\ x \in st[k].todo
    BY <1>5 DEF Pending
  <2>2. k # Len(st)
    BY <2>1
  <2>3. k \in 1..Len(t)
    BY <1>1, <1>2, <2>2
  <2> QED BY <1>2, <2>1, <2>3 DEF Pending
<1>6. ASSUME R!WithinCap PROVE Settled(t, vis, p, sb)
  BY <1>5, <1>6 DEF Walks, Settled
<1> QED BY <1>4, <1>6 DEF Walks

(* Writes while it walks only widen the bracket.                           *)
LEMMA WritesWalk ==
  ASSUME NEW st, NEW vis, NEW rt, NEW p, NEW ed, NEW sb, NEW ev,
         Walks(st, vis, rt, p, ed, sb, ev),
         NEW sb2, sb2 \subseteq sb, NEW ev2, ev \subseteq ev2
  PROVE  Walks(st, vis, rt, p, ed, sb2, ev2)
<1>1. R!Reach(ev, rt) \subseteq R!Reach(ev2, rt)
  BY ReachGrows
<1>2. Found(vis, rt, ev2)
  BY <1>1 DEF Walks, Found
<1>3. Framed(st, vis, ev2)
  BY DEF Walks, Framed
<1>4. R!WithinCap => Settled(st, vis, p, sb2)
  BY DEF Walks, Settled
<1>5. p = None => Drawn(vis, ed, sb2, ev2)
  BY DEF Walks, Drawn
<1> QED BY <1>2, <1>3, <1>4, <1>5 DEF Walks


-----------------------------------------------------------------------------
(* ... and on an answer.                                                   *)
Bracketed(a, rt, p, ed, sb, ev) ==
  /\ a = "allowed" => R!Holds(ev, rt, p)
  /\ a = "denied" /\ p # None => ~R!Holds(sb, rt, p)
  /\ a = "denied" /\ p = None =>
       R!GraphOf(sb, rt) \subseteq ed /\ ed \subseteq R!GraphOf(ev, rt)

LEMMA AllowedHolds ==
  ASSUME NEW st, NEW vis, NEW rt, NEW p \in Person, NEW ed, NEW sb, NEW ev,
         Walks(st, vis, rt, p, ed, sb, ev), p \in st[Len(st)].todo
  PROVE  Bracketed("allowed", rt, p, ed, sb, ev)
<1>1. st \in Seq(R!Frame) /\ st # <<>>
  BY DEF Walks, Framed
<1>2. Len(st) \in 1..Len(st)
  BY <1>1, TakenIs
<1>3. st[Len(st)].node \in vis /\ <<st[Len(st)].node, p>> \in ev
  BY <1>2 DEF Walks, Framed
<1>4. vis \subseteq R!Reach(ev, rt)
  BY DEF Walks, Found
<1>5. R!Holds(ev, rt, p)
  BY <1>3, <1>4 DEF R!Holds
<1> QED BY <1>5 DEF Bracketed

LEMMA DeniedLacks ==
  ASSUME NEW st, NEW vis, NEW rt, NEW p \in Person \cup {None}, NEW ed,
         NEW sb, sb \subseteq R!Tuple, NEW ev,
         Walks(st, vis, rt, p, ed, sb, ev), R!WithinCap,
         Len(st) = 1, st[Len(st)].todo = {}
  PROVE  Bracketed("denied", rt, p, ed, sb, ev)
<1>1. rt \in vis /\ vis \subseteq Node /\ vis \subseteq R!Reach(ev, rt)
  BY DEF Walks, Found
<1>2. ASSUME NEW n, NEW s PROVE ~Pending(st, n, s)
  <2>1. \A k \in 1..Len(st) : k = Len(st)
    OBVIOUS
  <2> QED BY <2>1 DEF Pending
<1>3. ASSUME NEW n \in vis, NEW s \in R!Subject, <<n, s>> \in sb
      PROVE  (s \in Person /\ s # p) \/ s \in vis
  BY <1>2, <1>3 DEF Walks, Settled
<1>4. R!Closed(sb, vis)
  <2> SUFFICES ASSUME NEW n \in vis, NEW m \in Node, <<n, m>> \in sb PROVE m \in vis
    BY DEF R!Closed
  <2>1. m \in R!Subject /\ m \notin Person
    BY AuthzAssumption DEF R!Subject
  <2> QED BY <1>3, <2>1
<1>5. R!Reach(sb, rt) \subseteq vis
  BY <1>1, <1>4, ReachWithin
<1>6. ASSUME p # None PROVE ~R!Holds(sb, rt, p)
  <2> SUFFICES ASSUME NEW n \in R!Reach(sb, rt), <<n, p>> \in sb PROVE FALSE
    BY DEF R!Holds
  <2>1. p \in Person /\ p \in R!Subject
    BY <1>6 DEF R!Subject
  <2>2. p \in vis
    BY <1>3, <1>5, <2>1
  <2> QED BY <1>1, <2>1, <2>2, AuthzAssumption
<1>7. ASSUME p = None
      PROVE  R!GraphOf(sb, rt) \subseteq ed /\ ed \subseteq R!GraphOf(ev, rt)
  <2>1. /\ \A n \in vis, s \in R!Subject : <<n, s>> \in sb => <<n, s>> \in ed
        /\ \A e \in ed : e \in ev /\ e[1] \in vis
    BY <1>7 DEF Walks, Drawn
  <2>2. ASSUME NEW t \in sb, t[1] \in R!Reach(sb, rt) PROVE t \in ed
    <3>1. PICK n \in Node, s \in R!Subject : t = <<n, s>>
      BY DEF R!Tuple
    <3>2. n \in vis
      BY <1>5, <2>2, <3>1
    <3> QED BY <2>1, <3>1, <3>2
  <2>3. ASSUME NEW e \in ed PROVE e \in ev /\ e[1] \in R!Reach(ev, rt)
    BY <1>1, <2>1
  <2> QED BY <2>2, <2>3 DEF R!GraphOf
<1> QED BY <1>6, <1>7 DEF Bracketed

-----------------------------------------------------------------------------
(* The inductive invariant: of every walker, while it walks and after.     *)
WalkTypes ==
  /\ tuples \subseteq R!Tuple
  /\ pc \in [Walker -> {"idle", "walk", "allowed", "denied"}]
  /\ root \in [Walker -> Node \cup {None}]
  /\ person \in [Walker -> Person \cup {None}]
  /\ stack \in [Walker -> Seq(R!Frame)]
  /\ visited \in [Walker -> SUBSET Node]
  /\ edges \in [Walker -> SUBSET R!Tuple]
  /\ stable \in [Walker -> SUBSET R!Tuple]
  /\ ever \in [Walker -> SUBSET R!Tuple]

Knows(w) ==
  /\ pc[w] = "walk" =>
       /\ Walks(stack[w], visited[w], root[w], person[w], edges[w], stable[w], ever[w])
       /\ stable[w] \subseteq tuples /\ tuples \subseteq ever[w]
  /\ R!WithinCap => Bracketed(pc[w], root[w], person[w], edges[w], stable[w], ever[w])

RelationsInv == WalkTypes /\ \A w \in Walker : Knows(w)

Same(x) ==
  /\ pc'[x] = pc[x] /\ root'[x] = root[x] /\ person'[x] = person[x]
  /\ stack'[x] = stack[x] /\ visited'[x] = visited[x] /\ edges'[x] = edges[x]
  /\ stable'[x] = stable[x] /\ ever'[x] = ever[x]

(* A step of w is nobody else's.                                           *)
LEMMA OneMoves ==
  ASSUME RelationsInv, NEW w \in Walker, tuples' = tuples, WalkTypes', Knows(w)',
         \A x \in Walker : x # w => Same(x)
  PROVE  RelationsInv'
<1>1. ASSUME NEW x \in Walker, x # w PROVE Knows(x)'
  <2>1. Knows(x) /\ Same(x)
    BY <1>1 DEF RelationsInv
  <2>2. R!WithinCap' <=> R!WithinCap
    BY DEF R!WithinCap
  <2> QED BY <2>1, <2>2 DEF Knows, Same
<1> QED BY <1>1 DEF RelationsInv

(* What is neither walking nor an answer is known to be nothing.           *)
LEMMA IdleKnows == ASSUME NEW w, pc[w] = "idle" PROVE Knows(w)
BY DEF Knows, Bracketed


-----------------------------------------------------------------------------
LEMMA AskStep ==
  ASSUME RelationsInv, NEW w \in Walker, NEW n \in Node,
         NEW p \in Person \cup {None}, R!Ask(w, n, p)
  PROVE  RelationsInv'
<1> DEFINE ed == IF p = None THEN {n} \X R!Fetch(n) ELSE {}
<1>1. /\ pc' = [pc EXCEPT ![w] = "walk"]
      /\ root' = [root EXCEPT ![w] = n]
      /\ person' = [person EXCEPT ![w] = p]
      /\ stack' = [stack EXCEPT ![w] = <<R!Fetched(n)>>]
      /\ visited' = [visited EXCEPT ![w] = {n}]
      /\ edges' = [edges EXCEPT ![w] = ed]
      /\ stable' = [stable EXCEPT ![w] = tuples]
      /\ ever' = [ever EXCEPT ![w] = tuples]
      /\ tuples' = tuples
  BY DEF R!Ask
<1>2. WalkTypes
  BY DEF RelationsInv
<1>3. PICK F : F = R!Fetch(n)
  OBVIOUS
<1>4. F = {s \in R!Subject : <<n, s>> \in tuples} /\ R!Fetched(n) = [node |-> n, todo |-> F]
  BY <1>3 DEF R!Fetch, R!Fetched
<1>5. PICK f : f = R!Fetched(n)
  OBVIOUS
<1>6. PICK e : e = ed
  OBVIOUS
<1>7. Walks(<<f>>, {n}, n, p, e, tuples, tuples)
  BY <1>2, <1>3, <1>4, <1>5, <1>6, AskWalks DEF WalkTypes
<1>8. <<f>> \in Seq(R!Frame)
  BY <1>7 DEF Walks, Framed
<1>9. e \subseteq R!Tuple
  BY <1>3, <1>4, <1>6 DEF R!Tuple
<1>10. WalkTypes'
  BY <1>1, <1>2, <1>5, <1>6, <1>8, <1>9 DEF WalkTypes
<1>11. /\ pc'[w] = "walk" /\ root'[w] = n /\ person'[w] = p /\ stack'[w] = <<f>>
       /\ visited'[w] = {n} /\ edges'[w] = e /\ stable'[w] = tuples /\ ever'[w] = tuples
  BY <1>1, <1>2, <1>5, <1>6 DEF WalkTypes
<1>12. Knows(w)'
  BY <1>1, <1>7, <1>11 DEF Knows, Bracketed
<1>13. \A x \in Walker : x # w => Same(x)
  BY <1>1, <1>2 DEF WalkTypes, Same
<1> QED BY <1>1, <1>10, <1>12, <1>13, OneMoves

(* A step of w that looks at a subject, its calls becoming t.              *)
LEMMA SkipStep ==
  ASSUME RelationsInv, NEW w \in Walker, pc[w] = "walk", stack[w] # <<>>,
         NEW s, R!WithinCap => (s \in Person /\ s # person[w]) \/ s \in visited[w],
         stack' = [stack EXCEPT ![w] = R!Taken(w, s)],
         UNCHANGED <<tuples, pc, root, person, visited, edges, stable, ever>>
  PROVE  RelationsInv'
<1>1. WalkTypes /\ Knows(w)
  BY DEF RelationsInv
<1>2. PICK t : t = R!Taken(w, s)
  OBVIOUS
<1>3. t = Took(stack[w], s)
  BY <1>2 DEF R!Taken, Took
<1>4. Walks(t, visited[w], root[w], person[w], edges[w], stable[w], ever[w])
  BY <1>1, <1>3, SkipWalks DEF Knows
<1>5. t \in Seq(R!Frame)
  BY <1>4 DEF Walks, Framed
<1>6. WalkTypes'
  BY <1>1, <1>2, <1>5 DEF WalkTypes
<1>7. stack'[w] = t
  BY <1>1, <1>2 DEF WalkTypes
<1>8. Knows(w)'
  BY <1>1, <1>4, <1>7 DEF Knows, Bracketed
<1>9. \A x \in Walker : x # w => Same(x)
  BY <1>1 DEF WalkTypes, Same
<1> QED BY <1>6, <1>8, <1>9, OneMoves

LEMMA LookAtPersonStep ==
  ASSUME RelationsInv, NEW w \in Walker, NEW s \in Person, R!LookAtPerson(w, s)
  PROVE  RelationsInv'
<1>1. /\ pc[w] = "walk" /\ stack[w] # <<>> /\ s \in stack[w][Len(stack[w])].todo
      /\ UNCHANGED <<tuples, root, person, visited, edges, stable, ever>>
  BY DEF R!LookAtPerson, R!Top
<1>2. WalkTypes /\ Knows(w)
  BY DEF RelationsInv
<1>3. CASE s = person[w]
  <2>1. pc' = [pc EXCEPT ![w] = "allowed"] /\ UNCHANGED stack
    BY <1>3 DEF R!LookAtPerson
  <2>2. Bracketed("allowed", root[w], person[w], edges[w], stable[w], ever[w])
    BY <1>1, <1>2, <1>3, AllowedHolds DEF Knows
  <2>3. WalkTypes' /\ pc'[w] = "allowed"
    BY <1>1, <1>2, <2>1 DEF WalkTypes
  <2>4. Knows(w)'
    BY <1>1, <2>1, <2>2, <2>3 DEF Knows
  <2>5. \A x \in Walker : x # w => Same(x)
    BY <1>1, <1>2, <2>1 DEF WalkTypes, Same
  <2> QED BY <1>1, <2>3, <2>4, <2>5, OneMoves
<1>4. CASE s # person[w]
  <2>1. stack' = [stack EXCEPT ![w] = R!Taken(w, s)] /\ UNCHANGED pc
    BY <1>4 DEF R!LookAtPerson
  <2> QED BY <1>1, <1>4, <2>1, SkipStep
<1> QED BY <1>3, <1>4

LEMMA DescendStep ==
  ASSUME RelationsInv, NEW w \in Walker, NEW s \in Node, R!Descend(w, s)
  PROVE  RelationsInv'
<1>1. /\ pc[w] = "walk" /\ stack[w] # <<>> /\ s \in stack[w][Len(stack[w])].todo
      /\ UNCHANGED <<tuples, pc, root, person, stable, ever>>
  BY DEF R!Descend, R!Top
<1>2. /\ WalkTypes /\ Knows(w)
      /\ Walks(stack[w], visited[w], root[w], person[w], edges[w], stable[w], ever[w])
      /\ stable[w] \subseteq tuples /\ tuples \subseteq ever[w]
  BY <1>1 DEF RelationsInv, Knows
<1>3. CASE R!CutOff(w, s)
  <2>1. stack' = [stack EXCEPT ![w] = R!Taken(w, s)] /\ UNCHANGED <<visited, edges>>
    BY <1>3 DEF R!Descend
  <2>2. R!WithinCap => s \in visited[w]
    <3>1. CASE s \in visited[w]
      BY <3>1
    <3>2. CASE Len(stack[w]) > MaxDepth
      BY <1>2, <3>2, CapIsNoCut
    <3> QED BY <1>3, <3>1, <3>2 DEF R!CutOff
  <2> QED BY <1>1, <2>1, <2>2, SkipStep
<1>4. CASE ~R!CutOff(w, s)
  <2> DEFINE E == IF person[w] = None THEN {s} \X R!Fetch(s) ELSE {}
  <2>1. /\ stack' = [stack EXCEPT ![w] = Append(R!Taken(w, s), R!Fetched(s))]
        /\ visited' = [visited EXCEPT ![w] = @ \cup {s}]
        /\ edges' = [edges EXCEPT ![w] = @ \cup E]
    BY <1>4 DEF R!Descend
  <2>2. s \notin visited[w]
    BY <1>4 DEF R!CutOff
  <2>3. PICK F : F = R!Fetch(s)
    OBVIOUS
  <2>4. PICK f : f = R!Fetched(s)
    OBVIOUS
  <2>5. F = Given(tuples, s) /\ f = Call(s, F)
    BY <2>3, <2>4 DEF R!Fetch, R!Fetched, Given, Call
  <2>6. PICK t : t = R!Taken(w, s)
    OBVIOUS
  <2>7. t = Took(stack[w], s)
    BY <2>6 DEF R!Taken, Took
  <2>8. PICK e : e = edges[w] \cup E
    OBVIOUS
  <2>9. e = edges[w] \cup Drew(person[w], s, F)
    BY <2>3, <2>8 DEF Drew
  <2>10. PICK u : u = Append(t, f)
    OBVIOUS
  <2>11. Walks(u, visited[w] \cup {s}, root[w], person[w], e, stable[w], ever[w])
    BY <1>1, <1>2, <2>2, <2>5, <2>7, <2>9, <2>10, EnterWalks
  <2>12. u \in Seq(R!Frame)
    BY <2>11 DEF Walks, Framed
  <2>13. e \subseteq R!Tuple
    BY <1>2, <2>5, <2>9 DEF R!Tuple, WalkTypes, Drew, Given
  <2>0. PICK v : v = visited[w] \cup {s}
    OBVIOUS
  <2>14. /\ stack' = [stack EXCEPT ![w] = u]
         /\ edges' = [edges EXCEPT ![w] = e]
         /\ visited' = [visited EXCEPT ![w] = v]
         /\ v \in SUBSET Node
    BY <1>2, <2>0, <2>1, <2>4, <2>6, <2>8, <2>10 DEF WalkTypes
  <2>15. WalkTypes'
    BY <1>1, <1>2, <2>12, <2>13, <2>14 DEF WalkTypes
  <2>16. stack'[w] = u /\ edges'[w] = e /\ visited'[w] = visited[w] \cup {s}
    BY <1>2, <2>0, <2>14 DEF WalkTypes
  <2>17. Knows(w)'
    BY <1>1, <1>2, <2>11, <2>16 DEF Knows, Bracketed
  <2>18. \A x \in Walker : x # w => Same(x)
    BY <1>1, <1>2, <2>14 DEF WalkTypes, Same
  <2> QED BY <1>1, <2>15, <2>17, <2>18, OneMoves
<1> QED BY <1>3, <1>4

LEMMA ReturnStep ==
  ASSUME RelationsInv, NEW w \in Walker, R!Return(w)
  PROVE  RelationsInv'
<1>1. /\ pc[w] = "walk" /\ stack[w] # <<>> /\ stack[w][Len(stack[w])].todo = {}
      /\ stack' = [stack EXCEPT ![w] = SubSeq(@, 1, Len(@) - 1)]
      /\ pc' = [pc EXCEPT ![w] = IF Len(stack[w]) = 1 THEN "denied" ELSE @]
      /\ UNCHANGED <<tuples, root, person, visited, edges, stable, ever>>
  BY DEF R!Return, R!Top
<1>2. /\ WalkTypes /\ Knows(w)
      /\ Walks(stack[w], visited[w], root[w], person[w], edges[w], stable[w], ever[w])
      /\ stable[w] \subseteq tuples /\ tuples \subseteq ever[w]
  BY <1>1 DEF RelationsInv, Knows
<1>3. PICK t : t = SubSeq(stack[w], 1, Len(stack[w]) - 1)
  OBVIOUS
<1>4. stack' = [stack EXCEPT ![w] = t]
  BY <1>1, <1>3
<1>5. \A x \in Walker : x # w => Same(x)
  BY <1>1, <1>2, <1>4 DEF WalkTypes, Same
<1>6. CASE Len(stack[w]) = 1
  <2>1. t = <<>>
    BY <1>3, <1>6, SubSeqEmpty
  <2>2. t \in Seq(R!Frame)
    BY <2>1, EmptySeq
  <2>3. WalkTypes' /\ pc'[w] = "denied"
    BY <1>1, <1>2, <1>4, <1>6, <2>2 DEF WalkTypes
  <2>4. person[w] \in Person \cup {None} /\ stable[w] \subseteq R!Tuple
    BY <1>2 DEF WalkTypes
  <2>5. R!WithinCap => Bracketed("denied", root[w], person[w], edges[w], stable[w], ever[w])
    BY <1>1, <1>2, <1>6, <2>4, DeniedLacks
  <2>6. R!WithinCap' <=> R!WithinCap
    BY DEF R!WithinCap
  <2>7. Knows(w)'
    BY <1>1, <2>3, <2>5, <2>6 DEF Knows
  <2> QED BY <1>1, <1>5, <2>3, <2>7, OneMoves
<1>7. CASE Len(stack[w]) # 1
  <2>1. Walks(t, visited[w], root[w], person[w], edges[w], stable[w], ever[w])
    BY <1>1, <1>2, <1>3, <1>7, ReturnWalks
  <2>2. t \in Seq(R!Frame)
    BY <2>1 DEF Walks, Framed
  <2>3. WalkTypes' /\ pc'[w] = "walk" /\ stack'[w] = t
    BY <1>1, <1>2, <1>4, <1>7, <2>2 DEF WalkTypes
  <2>4. Knows(w)'
    BY <1>1, <1>2, <2>1, <2>3 DEF Knows, Bracketed
  <2> QED BY <1>1, <1>5, <2>3, <2>4, OneMoves
<1> QED BY <1>6, <1>7

LEMMA FetchFailsStep ==
  ASSUME RelationsInv, NEW w \in Walker, R!FetchFails(w)
  PROVE  RelationsInv'
<1>1. /\ pc' = [pc EXCEPT ![w] = "idle"]
      /\ root' = [root EXCEPT ![w] = None]
      /\ person' = [person EXCEPT ![w] = None]
      /\ stack' = [stack EXCEPT ![w] = <<>>]
      /\ visited' = [visited EXCEPT ![w] = {}]
      /\ edges' = [edges EXCEPT ![w] = {}]
      /\ stable' = [stable EXCEPT ![w] = {}]
      /\ ever' = [ever EXCEPT ![w] = {}]
      /\ tuples' = tuples
  BY DEF R!FetchFails
<1>2. WalkTypes
  BY DEF RelationsInv
<1>3. <<>> \in Seq(R!Frame)
  BY EmptySeq
<1>4. WalkTypes' /\ pc'[w] = "idle"
  BY <1>1, <1>2, <1>3 DEF WalkTypes
<1>5. Knows(w)'
  BY <1>4 DEF Knows, Bracketed
<1>6. \A x \in Walker : x # w => Same(x)
  BY <1>1, <1>2 DEF WalkTypes, Same
<1> QED BY <1>1, <1>4, <1>5, <1>6, OneMoves

(* A write reaches every walk under way, and no answer.                    *)
LEMMA WriteStep ==
  ASSUME RelationsInv, NEW t \in R!Tuple, R!Write(t) \/ R!Delete(t)
  PROVE  RelationsInv'
<1> DEFINE Under == {w \in Walker : pc[w] = "walk"}
<1>1. UNCHANGED <<pc, root, person, stack, visited, edges>>
  BY DEF R!Write, R!Delete, R!walkVars
<1>2. WalkTypes
  BY DEF RelationsInv
<1>3. /\ ever' \in [Walker -> SUBSET R!Tuple] /\ stable' \in [Walker -> SUBSET R!Tuple]
      /\ tuples' \subseteq R!Tuple
      /\ \A w \in Walker :
           /\ pc[w] # "walk" => ever'[w] = ever[w] /\ stable'[w] = stable[w]
           /\ pc[w] = "walk" /\ stable[w] \subseteq tuples /\ tuples \subseteq ever[w] =>
                /\ ever[w] \subseteq ever'[w] /\ stable'[w] \subseteq stable[w]
                /\ stable'[w] \subseteq tuples' /\ tuples' \subseteq ever'[w]
  <2>1. CASE R!Write(t)
    <3>1. /\ tuples' = tuples \cup {t} /\ stable' = stable
          /\ ever' = [w \in Walker |-> IF w \in Under THEN ever[w] \cup {t} ELSE ever[w]]
      BY <2>1 DEF R!Write, R!Walking
    <3> QED BY <1>2, <3>1 DEF WalkTypes
  <2>2. CASE R!Delete(t)
    <3>1. /\ tuples' = tuples \ {t} /\ ever' = ever
          /\ stable' = [w \in Walker |-> IF w \in Under THEN stable[w] \ {t} ELSE stable[w]]
      BY <2>2 DEF R!Delete, R!Walking
    <3> QED BY <1>2, <3>1 DEF WalkTypes
  <2> QED BY <2>1, <2>2
<1>4. WalkTypes'
  BY <1>1, <1>2, <1>3 DEF WalkTypes
<1>5. ASSUME NEW w \in Walker PROVE Knows(w)'
  <2>1. Knows(w)
    BY DEF RelationsInv
  <2>2. CASE pc[w] = "walk"
    <3>1. /\ Walks(stack[w], visited[w], root[w], person[w], edges[w], stable[w], ever[w])
          /\ ever[w] \subseteq ever'[w] /\ stable'[w] \subseteq stable[w]
          /\ stable'[w] \subseteq tuples' /\ tuples' \subseteq ever'[w]
      BY <1>3, <2>1, <2>2 DEF Knows
    <3>2. Walks(stack[w], visited[w], root[w], person[w], edges[w], stable'[w], ever'[w])
      BY <3>1, WritesWalk
    <3> QED BY <1>1, <2>2, <3>1, <3>2 DEF Knows, Bracketed
  <2>3. CASE pc[w] # "walk"
    <3>1. R!WithinCap' <=> R!WithinCap
      BY DEF R!WithinCap
    <3> QED BY <1>1, <1>3, <2>1, <2>3, <3>1 DEF Knows
  <2> QED BY <2>2, <2>3
<1> QED BY <1>4, <1>5 DEF RelationsInv

LEMMA RelationsInitInv == R!Init => RelationsInv
<1> SUFFICES ASSUME R!Init PROVE RelationsInv
  OBVIOUS
<1>1. <<>> \in Seq(R!Frame)
  BY EmptySeq
<1>2. WalkTypes
  BY <1>1 DEF WalkTypes, R!Init
<1>3. \A w \in Walker : pc[w] = "idle"
  BY DEF R!Init
<1> QED BY <1>2, <1>3, IdleKnows DEF RelationsInv

LEMMA RelationsStep == RelationsInv /\ R!Next => RelationsInv'
<1> SUFFICES ASSUME RelationsInv, R!Next PROVE RelationsInv'
  OBVIOUS
<1>1. ASSUME NEW w \in Walker, NEW n \in Node, NEW p \in Person \cup {None}, R!Ask(w, n, p)
      PROVE  RelationsInv'
  BY <1>1, AskStep
<1>2. ASSUME NEW w \in Walker, NEW s \in Person, R!LookAtPerson(w, s) PROVE RelationsInv'
  BY <1>2, LookAtPersonStep
<1>3. ASSUME NEW w \in Walker, NEW s \in Node, R!Descend(w, s) PROVE RelationsInv'
  BY <1>3, DescendStep
<1>4. ASSUME NEW w \in Walker, R!Return(w) \/ R!FetchFails(w) PROVE RelationsInv'
  BY <1>4, ReturnStep, FetchFailsStep
<1>5. ASSUME NEW t \in R!Tuple, R!Write(t) \/ R!Delete(t) PROVE RelationsInv'
  BY <1>5, WriteStep
<1> QED BY <1>1, <1>2, <1>3, <1>4, <1>5 DEF R!Next

LEMMA RelationsIdle == RelationsInv /\ UNCHANGED relationVars => RelationsInv'
BY DEF RelationsInv, WalkTypes, Knows, R!WithinCap, relationVars

(* With what is known of its answers a walker's answer is bracketed.       *)
LEMMA KnownIsBracketed == RelationsInv => AnswerIsBracketed
BY DEF RelationsInv, Knows, Bracketed, AnswerIsBracketed, R!AnswerIsBracketed

-----------------------------------------------------------------------------
(* A check or an expansion of relationship tuples answers with what was    *)
(* granted all the while, and with nothing that was never granted,         *)
(* whatever is written between two of its SELECTs, as long as no chain of  *)
(* nodes is longer than its cap on the depth.                              *)
THEOREM AnswersStayBracketed == AuthzSpec => []AnswerIsBracketed
<1>1. AuthzInit => RelationsInv
  BY RelationsInitInv DEF AuthzInit, RelationsInit
<1>2. RelationsInv /\ [AuthzNext]_allVars => RelationsInv'
  <2> SUFFICES ASSUME RelationsInv, [AuthzNext]_allVars PROVE RelationsInv'
    OBVIOUS
  <2>1. CASE R!Next
    BY <2>1, RelationsStep
  <2>2. CASE UNCHANGED relationVars
    BY <2>2, RelationsIdle
  <2> QED BY <2>1, <2>2 DEF AuthzNext, RelationsNext, allVars
<1>3. RelationsInv => AnswerIsBracketed
  BY KnownIsBracketed
<1> QED BY <1>1, <1>2, <1>3, PTL DEF AuthzSpec

-----------------------------------------------------------------------------
(* Roles: the tenants of roles, groups and their rows in step.             *)

(* The tenant written in a row is the one of its group and of its role,    *)
(* and a row of a role refers to one that exists.                          *)
RowsAreHome ==
  /\ \A g \in Group, u \in User, t \in Tenant :
       <<g, u, t>> \in members => groupTenant[g] = t
  /\ \A g \in Group, r \in Role, t \in Tenant :
       <<g, r, t>> \in groupRoles => groupTenant[g] = t /\ roleTenant[r] = t
  /\ \A r \in Role, p \in Permission : <<r, p>> \in permissions => r \in Roles
  /\ \A u \in User, t \in Tenant, r \in Role : <<u, t, r>> \in userRoles => r \in Roles

IInv == TypeOK /\ RowsAreHome

USE RolesAssumption

LEMMA InitIInv == Init => IInv
<1> SUFFICES ASSUME Init PROVE IInv
  OBVIOUS
<1>1. TypeOK
  BY DEF Init, TypeOK
<1>2. RowsAreHome
  BY DEF Init, RowsAreHome
<1> QED
  BY <1>1, <1>2 DEF IInv

(* Actions on roles leave the groups' rows alone.                          *)
LEMMA CreateRolePreserves ==
  ASSUME IInv, NEW t \in Tenant, NEW r \in Role, CreateRole(t, r)
  PROVE  IInv'
<1>1. TypeOK'
  BY DEF IInv, TypeOK, CreateRole, groupVars
<1>2. \A q \in Role : q \in Roles => q # r /\ roleTenant'[q] = roleTenant[q]
  BY DEF IInv, TypeOK, CreateRole, Roles
<1>3. \A g \in Group, q \in Role, x \in Tenant : <<g, q, x>> \in groupRoles => q \in Roles
  BY DEF IInv, RowsAreHome, Roles
<1>4. RowsAreHome'
  BY <1>2, <1>3 DEF IInv, RowsAreHome, CreateRole, groupVars, Roles
<1> QED
  BY <1>1, <1>4 DEF IInv

LEMMA PermissionPreserves ==
  ASSUME IInv, NEW t \in Tenant, NEW r \in Role, NEW p \in Permission,
         GrantPermission(t, r, p) \/ RevokePermission(t, r, p)
  PROVE  IInv'
<1>1. TypeOK'
  BY DEF IInv, TypeOK, GrantPermission, RevokePermission, groupVars
<1>2. /\ roleTenant[r] = t
      /\ UNCHANGED <<roleTenant, userRoles, groupTenant, members, groupRoles>>
  BY DEF GrantPermission, RevokePermission, groupVars
<1>3. permissions' \subseteq permissions \cup {<<r, p>>}
  BY DEF GrantPermission, RevokePermission
<1>4. r \in Roles
  BY <1>2 DEF Roles
<1>5. RowsAreHome'
  BY <1>2, <1>3, <1>4 DEF IInv, RowsAreHome, Roles
<1> QED
  BY <1>1, <1>5 DEF IInv

LEMMA UserRolePreserves ==
  ASSUME IInv, NEW t \in Tenant, NEW u \in User, NEW r \in Role,
         AssignRole(t, u, r) \/ UnassignRole(t, u, r)
  PROVE  IInv'
<1>1. TypeOK'
  BY DEF IInv, TypeOK, AssignRole, UnassignRole, groupVars
<1>2. UNCHANGED <<roleTenant, permissions, groupTenant, members, groupRoles>>
  BY DEF AssignRole, UnassignRole, groupVars
<1>3. \A v \in User, x \in Tenant, q \in Role :
        <<v, x, q>> \in userRoles' => <<v, x, q>> \in userRoles \/ q \in Roles
  BY DEF AssignRole, UnassignRole
<1>4. RowsAreHome'
  BY <1>2, <1>3 DEF IInv, RowsAreHome, Roles
<1> QED
  BY <1>1, <1>4 DEF IInv

LEMMA CreateGroupPreserves ==
  ASSUME IInv, NEW t \in Tenant, NEW g \in Group, NEW q \in Group \cup {None},
         CreateGroup(t, g, q)
  PROVE  IInv'
<1>1. TypeOK'
  BY DEF IInv, TypeOK, CreateGroup, roleVars
<1>2. \A h \in Group : h \in Groups => groupTenant'[h] = groupTenant[h]
  BY DEF IInv, TypeOK, CreateGroup, Groups
<1>3. RowsAreHome'
  BY <1>2 DEF IInv, RowsAreHome, CreateGroup, roleVars, Groups, Roles
<1> QED
  BY <1>1, <1>3 DEF IInv

LEMMA UpdateGroupPreserves ==
  ASSUME IInv, NEW t \in Tenant, NEW g \in Group, NEW q \in Group \cup {None},
         UpdateGroup(t, g, q)
  PROVE  IInv'
<1>1. TypeOK'
  BY DEF IInv, TypeOK, UpdateGroup, roleVars
<1>2. RowsAreHome'
  BY DEF IInv, RowsAreHome, UpdateGroup, roleVars, Roles
<1> QED
  BY <1>1, <1>2 DEF IInv

LEMMA DeleteGroupPreserves ==
  ASSUME IInv, NEW t \in Tenant, NEW g \in Group, DeleteGroup(t, g)
  PROVE  IInv'
<1> DEFINE D == Cascade(g)
<1>1. TypeOK'
  BY DEF IInv, TypeOK, DeleteGroup, roleVars
<1>2. \A h \in Group : h \notin D => groupTenant'[h] = groupTenant[h]
  BY DEF DeleteGroup
<1>3. \A h \in Group, u \in User, x \in Tenant :
        <<h, u, x>> \in members' => <<h, u, x>> \in members /\ h \notin D
  BY DEF DeleteGroup
<1>4. \A h \in Group, r \in Role, x \in Tenant :
        <<h, r, x>> \in groupRoles' => <<h, r, x>> \in groupRoles /\ h \notin D
  BY DEF DeleteGroup
<1>5. UNCHANGED roleVars
  BY DEF DeleteGroup
<1> HIDE DEF D
<1>6. RowsAreHome'
  BY <1>2, <1>3, <1>4, <1>5 DEF IInv, RowsAreHome, roleVars, Roles
<1> QED
  BY <1>1, <1>6 DEF IInv

LEMMA MemberPreserves ==
  ASSUME IInv, NEW t \in Tenant, NEW g \in Group, NEW u \in User,
         AddMember(t, g, u) \/ RemoveMember(t, g, u)
  PROVE  IInv'
<1>1. TypeOK'
  <2>1. members' \subseteq members \cup {<<g, u, t>>}
    BY DEF AddMember, RemoveMember
  <2>2. members' \subseteq Group \X User \X Tenant
    BY <2>1 DEF IInv, TypeOK
  <2> QED
    BY <2>2 DEF IInv, TypeOK, AddMember, RemoveMember, roleVars
<1>2. UNCHANGED <<roleVars, groupTenant, groupRoles>>
  BY DEF AddMember, RemoveMember
<1>3. \A h \in Group, v \in User, x \in Tenant :
        <<h, v, x>> \in members' => <<h, v, x>> \in members \/ groupTenant[h] = x
  BY DEF AddMember, RemoveMember
<1>4. RowsAreHome'
  BY <1>2, <1>3 DEF IInv, RowsAreHome, roleVars, Roles
<1> QED
  BY <1>1, <1>4 DEF IInv

LEMMA GroupRolePreserves ==
  ASSUME IInv, NEW t \in Tenant, NEW g \in Group, NEW r \in Role,
         AssignRoleToGroup(t, g, r) \/ RemoveRoleFromGroup(t, g, r)
  PROVE  IInv'
<1>1. TypeOK'
  <2>1. groupRoles' \subseteq groupRoles \cup {<<g, r, t>>}
    BY DEF AssignRoleToGroup, RemoveRoleFromGroup
  <2>2. groupRoles' \subseteq Group \X Role \X Tenant
    BY <2>1 DEF IInv, TypeOK
  <2> QED
    BY <2>2 DEF IInv, TypeOK, AssignRoleToGroup, RemoveRoleFromGroup, roleVars
<1>2. UNCHANGED <<roleVars, groupTenant, members>>
  BY DEF AssignRoleToGroup, RemoveRoleFromGroup
<1>3. \A h \in Group, q \in Role, x \in Tenant :
        <<h, q, x>> \in groupRoles' =>
          <<h, q, x>> \in groupRoles \/ (groupTenant[h] = x /\ roleTenant[q] = x)
  BY DEF AssignRoleToGroup, RemoveRoleFromGroup
<1>4. RowsAreHome'
  BY <1>2, <1>3 DEF IInv, RowsAreHome, roleVars, Roles
<1> QED
  BY <1>1, <1>4 DEF IInv

LEMMA NextIInv == IInv /\ [Next]_vars => IInv'
<1> SUFFICES ASSUME IInv, [Next]_vars PROVE IInv'
  OBVIOUS
<1>1. CASE Next
  <2>1. PICK t \in Tenant : Administer(t)
    BY <1>1 DEF Next
  <2> QED
    BY <2>1, CreateRolePreserves, PermissionPreserves, UserRolePreserves,
       CreateGroupPreserves, UpdateGroupPreserves, DeleteGroupPreserves,
       MemberPreserves, GroupRolePreserves DEF Administer
<1>2. CASE UNCHANGED vars
  BY <1>2 DEF vars, roleVars, groupVars, IInv, TypeOK, RowsAreHome, Roles
<1> QED
  BY <1>1, <1>2

(* Every variable keeps its type.                                          *)
THEOREM RolesTypeCorrect == Spec => []TypeOK
<1>1. IInv => TypeOK
  BY DEF IInv
<1> QED
  BY InitIInv, NextIInv, <1>1, PTL DEF Spec

-----------------------------------------------------------------------------
LEMMA DecisionsAgreeInv == IInv => DecisionsAgree
<1> SUFFICES ASSUME IInv, NEW u \in User, NEW t \in Tenant, NEW p \in Permission
             PROVE  Check(u, t, p) <=> Explain(u, t, p) # {}
  BY DEF DecisionsAgree
<1>1. ASSUME ByRole(u, t, p) PROVE Explain(u, t, p) # {}
  <2>1. PICK r \in Role : <<u, t, r>> \in userRoles /\ <<r, p>> \in permissions
    BY <1>1 DEF ByRole
  <2>2. r \in Roles
    BY <2>1 DEF IInv, RowsAreHome
  <2>3. <<None, r>> \in Explain(u, t, p)
    BY <2>1, <2>2 DEF Explain
  <2> QED
    BY <2>3
<1>2. ASSUME ByGroup(u, t, p) PROVE Explain(u, t, p) # {}
  <2>1. PICK g \in Group, r \in Role :
          <<g, u, t>> \in members /\ <<g, r, t>> \in groupRoles /\ <<r, p>> \in permissions
    BY <1>2 DEF ByGroup
  <2>2. r \in Roles /\ groupTenant[g] = t
    BY <2>1 DEF IInv, RowsAreHome
  <2>3. g \in Groups /\ g # None
    BY <2>2 DEF Groups
  <2>4. <<g, r>> \in Explain(u, t, p)
    BY <2>1, <2>2, <2>3 DEF Explain
  <2> QED
    BY <2>4
<1>3. ASSUME NEW s \in Explain(u, t, p) PROVE Check(u, t, p)
  <2>1. s[1] \in Group \cup {None} /\ s[2] \in Role /\ <<s[2], p>> \in permissions
    BY <1>3 DEF Explain, Groups, Roles
  <2>2. CASE s[1] = None
    BY <1>3, <2>1, <2>2 DEF Explain, Check, ByRole
  <2>3. CASE s[1] # None
    BY <1>3, <2>1, <2>3 DEF Explain, Check, ByGroup
  <2> QED
    BY <2>2, <2>3
<1> QED
  BY <1>1, <1>2, <1>3 DEF Check

(* Check and Explain agree, CheckPermission and ExplainGrants.             *)
THEOREM CheckIsExplained == Spec => []DecisionsAgree
BY InitIInv, NextIInv, DecisionsAgreeInv, PTL DEF Spec

-----------------------------------------------------------------------------
(* An administrator of t gives nothing by way of a group elsewhere.        *)
LEMMA GivesAtHome ==
  ASSUME IInv, NEW t \in Tenant, Administer(t),
         NEW v \in User, NEW x \in Tenant, NEW p \in Permission,
         x # t, ByGroup(v, x, p)'
  PROVE  ByGroup(v, x, p)
<1>1. PICK g \in Group, r \in Role :
        <<g, v, x>> \in members' /\ <<g, r, x>> \in groupRoles' /\ <<r, p>> \in permissions'
  BY DEF ByGroup
<1>2. <<g, v, x>> \in members
  BY <1>1 DEF Administer, CreateRole, GrantPermission, RevokePermission, AssignRole,
              UnassignRole, CreateGroup, UpdateGroup, DeleteGroup, AddMember, RemoveMember,
              AssignRoleToGroup, RemoveRoleFromGroup, groupVars
<1>3. <<g, r, x>> \in groupRoles
  BY <1>1 DEF Administer, CreateRole, GrantPermission, RevokePermission, AssignRole,
              UnassignRole, CreateGroup, UpdateGroup, DeleteGroup, AddMember, RemoveMember,
              AssignRoleToGroup, RemoveRoleFromGroup, groupVars
<1>4. roleTenant[r] = x
  BY <1>3 DEF IInv, RowsAreHome
<1>5. <<r, p>> \in permissions
  BY <1>1, <1>4 DEF Administer, CreateRole, GrantPermission, RevokePermission, AssignRole,
              UnassignRole, CreateGroup, UpdateGroup, DeleteGroup, AddMember, RemoveMember,
              AssignRoleToGroup, RemoveRoleFromGroup, roleVars
<1> QED
  BY <1>2, <1>3, <1>5 DEF ByGroup

LEMMA ActsInOwnName ==
  ASSUME NEW t \in Tenant, Administer(t) PROVE by' = t
BY DEF Administer, CreateRole, GrantPermission, RevokePermission, AssignRole,
       UnassignRole, CreateGroup, UpdateGroup, DeleteGroup, AddMember, RemoveMember,
       AssignRoleToGroup, RemoveRoleFromGroup

(* What the members of a group may do in a tenant is given by the tenant's *)
(* own administrators only, AssignRoleToGroup and scopedRole.              *)
THEOREM GroupGrantsStayHome == Spec => GroupGrantsAreHomeMade
<1>1. ASSUME IInv, [Next]_vars
      PROVE  [\A u \in User, t \in Tenant, p \in Permission :
                ByGroup(u, t, p)' /\ ~ByGroup(u, t, p) => by' = t]_vars
  <2>1. CASE Next
    <3>1. PICK t \in Tenant : Administer(t)
      BY <2>1 DEF Next
    <3> QED
      BY <1>1, <3>1, GivesAtHome, ActsInOwnName
  <2>2. CASE UNCHANGED vars
    BY <2>2 DEF vars, roleVars, groupVars, ByGroup
  <2> QED
    BY <1>1, <2>1, <2>2
<1> QED
  BY <1>1, InitIInv, NextIInv, PTL DEF Spec, GroupGrantsAreHomeMade

-----------------------------------------------------------------------------
(* ScimGroups: what a request's operations come to one after the other.    *)
LEMMA LeastNumber ==
  ASSUME NEW N \in SUBSET Nat, N # {}
  PROVE  \E n \in N : \A m \in N : n <= m
<1>1. PICK n \in N : \A m \in N : ~(<<m, n>> \in OpToRel(<, Nat))
  BY WFMin, NatLessThanWellFounded, Zenon
<1>2. \A m \in N : ~(m < n)
  BY <1>1 DEF OpToRel
<1> QED BY <1>2

Applying(f, request, T, m) ==
  f = [n \in 0..m |-> IF n = 0 THEN T ELSE S!Apply(request[n], f[n - 1])]

LEMMA ApplyingIs ==
  ASSUME NEW request, NEW T
  PROVE  S!Applied(request, T) =
           (CHOOSE f : Applying(f, request, T, Len(request)))[Len(request)]
BY Zenon DEF S!Applied, Applying

LEMMA AppliedUnfolds ==
  ASSUME NEW request \in Seq(S!Op), NEW T
  PROVE  \E f : Applying(f, request, T, Len(request))
                /\ S!Applied(request, T) = f[Len(request)]
<1> DEFINE Bad == {m \in Nat : ~ \E f : Applying(f, request, T, m)}
<1>1. ASSUME Bad # {} PROVE FALSE
  <2>1. PICK m \in Bad : \A k \in Bad : m <= k
    BY <1>1, LeastNumber
  <2>2. CASE m = 0
    <3>1. PICK f : f = [n \in 0..0 |-> T]
      OBVIOUS
    <3>2. \A n \in 0..0 : n = 0
      OBVIOUS
    <3>3. [n \in 0..0 |-> IF n = 0 THEN T ELSE S!Apply(request[n], f[n - 1])] = [n \in 0..0 |-> T]
      BY <3>2
    <3>4. Applying(f, request, T, 0)
      BY <3>1, <3>3 DEF Applying
    <3> QED BY <2>1, <2>2, <3>4
  <2>3. CASE m # 0
    <3>1. m - 1 \in Nat /\ ~(m <= m - 1)
      BY <2>1, <2>3
    <3>2. m - 1 \notin Bad
      <4> HIDE DEF Bad
      <4> QED BY <2>1, <3>1
    <3>3. PICK g : Applying(g, request, T, m - 1)
      BY <3>1, <3>2
    <3>4. PICK f : f = [n \in 0..m |-> IF n < m THEN g[n] ELSE S!Apply(request[m], g[m - 1])]
      OBVIOUS
    <3>5. ASSUME NEW n \in 0..m
          PROVE  f[n] = IF n = 0 THEN T ELSE S!Apply(request[n], f[n - 1])
      <4>1. CASE n < m
        <5>1. n \in 0..(m - 1) /\ f[n] = g[n] /\ (n # 0 => f[n - 1] = g[n - 1])
          BY <2>1, <3>4, <4>1
        <5>2. g[n] = IF n = 0 THEN T ELSE S!Apply(request[n], g[n - 1])
          BY <3>3, <5>1 DEF Applying
        <5> QED BY <5>1, <5>2
      <4>2. CASE n = m
        <5>1. f[n] = S!Apply(request[m], g[m - 1]) /\ f[m - 1] = g[m - 1]
          BY <2>1, <2>3, <3>1, <3>4, <4>2
        <5> QED BY <2>3, <4>2, <5>1
      <4> QED BY <2>1, <4>1, <4>2
    <3>6. Applying(f, request, T, m)
      BY <3>4, <3>5 DEF Applying
    <3> QED BY <2>1, <3>6
  <2> QED BY <2>2, <2>3
<1>2. Len(request) \in Nat
  OBVIOUS
<1>3. \E f : Applying(f, request, T, Len(request))
  <2>1. Bad = {}
    BY <1>1, Zenon
  <2> QED BY <1>2, <2>1
<1>4. PICK f : f = CHOOSE g : Applying(g, request, T, Len(request))
  OBVIOUS
<1>5. Applying(f, request, T, Len(request))
  BY <1>3, <1>4
<1> QED BY <1>4, <1>5, ApplyingIs

(* What the operations up to the n-th say of u, in any order.              *)
Says(request, n, u, kinds) == \E i \in 1..n : request[i].kind \in kinds /\ u \in request[i].who
Replaces(request, n) == \E i \in 1..n : request[i].kind \in {"replace", "drop"}
ComesTo(request, n, u, T) ==
  /\ ~Says(request, n, u, {"remove"})
  /\ Says(request, n, u, {"replace", "drop", "add"}) \/ (~Replaces(request, n) /\ u \in T)

LEMMA OneMore ==
  ASSUME NEW request \in Seq(S!Op), S!OrderDoesNotMatter(request),
         S!ReadAsNamed(request), NEW T, NEW u,
         NEW n \in 1..Len(request), NEW V, u \in V <=> ComesTo(request, n - 1, u, T)
  PROVE  u \in S!Apply(request[n], V) <=> ComesTo(request, n, u, T)
<1>1. /\ request[n] \in S!Op /\ n \in DOMAIN request
      /\ 1..(n - 1) \subseteq 1..n /\ 1..n = 1..(n - 1) \cup {n}
      /\ \A i \in 1..(n - 1) : i \in DOMAIN request /\ i < n /\ request[i] \in S!Op
  OBVIOUS
<1>2. \A kinds : Says(request, n, u, kinds) <=>
        \/ Says(request, n - 1, u, kinds)
        \/ request[n].kind \in kinds /\ u \in request[n].who
  BY <1>1 DEF Says
<1>3. Replaces(request, n) <=>
        Replaces(request, n - 1) \/ request[n].kind \in {"replace", "drop"}
  BY <1>1 DEF Replaces
<1>4. request[n].kind \in {"replace", "add", "remove"}
  BY <1>1 DEF S!ReadAsNamed
<1>5. CASE request[n].kind = "replace"
  <2>1. n - 1 = 0
    BY <1>1, <1>5 DEF S!OrderDoesNotMatter
  <2>2. \A kinds : ~Says(request, n - 1, u, kinds)
    BY <2>1 DEF Says
  <2>3. Replaces(request, n) /\ ~Says(request, n, u, {"remove"})
    BY <1>2, <1>3, <1>5, <2>2
  <2>4. Says(request, n, u, {"replace", "drop", "add"}) <=> u \in request[n].who
    BY <1>2, <1>5, <2>2
  <2>5. u \in S!Apply(request[n], V) <=> u \in request[n].who
    BY <1>5 DEF S!Apply
  <2> QED BY <2>3, <2>4, <2>5 DEF ComesTo
<1>6. CASE request[n].kind = "add"
  <2>1. u \in request[n].who => ~Says(request, n - 1, u, {"remove"})
    <3> SUFFICES ASSUME u \in request[n].who, NEW i \in 1..(n - 1),
                        request[i].kind = "remove", u \in request[i].who
                 PROVE  FALSE
      BY DEF Says
    <3>1. request[i].who = {u} /\ request[n].who = {u}
      BY <1>1, <1>6 DEF S!Op
    <3>2. i \in DOMAIN request /\ n \in DOMAIN request /\ i < n
      BY <1>1
    <3> QED BY <1>6, <3>1, <3>2 DEF S!OrderDoesNotMatter
  <2>2. u \in S!Apply(request[n], V) <=> u \in V \/ u \in request[n].who
    BY <1>6 DEF S!Apply
  <2>3. /\ Says(request, n, u, {"remove"}) <=> Says(request, n - 1, u, {"remove"})
        /\ Says(request, n, u, {"replace", "drop", "add"}) <=>
             Says(request, n - 1, u, {"replace", "drop", "add"}) \/ u \in request[n].who
        /\ Replaces(request, n) <=> Replaces(request, n - 1)
    BY <1>2, <1>3, <1>6
  <2> QED BY <2>1, <2>2, <2>3 DEF ComesTo
<1>7. CASE request[n].kind = "remove"
  BY <1>2, <1>3, <1>7 DEF ComesTo, S!Apply
<1> QED BY <1>4, <1>5, <1>6, <1>7

LEMMA AppliedComesTo ==
  ASSUME NEW request \in Seq(S!Op), S!OrderDoesNotMatter(request),
         S!ReadAsNamed(request), NEW T, NEW u
  PROVE  u \in S!Applied(request, T) <=> ComesTo(request, Len(request), u, T)
<1>1. PICK f : Applying(f, request, T, Len(request)) /\ S!Applied(request, T) = f[Len(request)]
  BY AppliedUnfolds
<1> DEFINE Bad == {n \in 0..Len(request) : ~(u \in f[n] <=> ComesTo(request, n, u, T))}
<1>2. ASSUME Bad # {} PROVE FALSE
  <2>1. PICK n \in Bad : \A k \in Bad : n <= k
    <3>1. Bad \in SUBSET Nat
      OBVIOUS
    <3> HIDE DEF Bad
    <3> QED BY <1>2, <3>1, LeastNumber
  <2>2. n \in 0..Len(request) /\ ~(u \in f[n] <=> ComesTo(request, n, u, T))
    BY <2>1
  <2>3. f[n] = IF n = 0 THEN T ELSE S!Apply(request[n], f[n - 1])
    BY <1>1, <2>2 DEF Applying
  <2>4. CASE n = 0
    <3>1. ComesTo(request, 0, u, T) <=> u \in T
      BY DEF ComesTo, Says, Replaces
    <3> QED BY <2>2, <2>3, <2>4, <3>1
  <2>5. CASE n # 0
    <3>1. n \in 1..Len(request) /\ n - 1 \in 0..Len(request) /\ ~(n <= n - 1)
      BY <2>2, <2>5
    <3>2. n - 1 \notin Bad
      <4> HIDE DEF Bad
      <4> QED BY <2>1, <3>1
    <3>3. u \in f[n - 1] <=> ComesTo(request, n - 1, u, T)
      BY <3>1, <3>2
    <3> QED BY <2>2, <2>3, <2>5, <3>1, <3>3, OneMore
  <2> QED BY <2>4, <2>5
<1> QED BY <1>1, <1>2

-----------------------------------------------------------------------------
(* What a transaction still has to do, and what it has done: of the users  *)
(* nobody else changed meanwhile and that it did not pass over, those it   *)
(* has removed are out, those it has added are in, those a replacement     *)
(* does not name are out or about to be deleted, and without a replacement *)
(* it has touched no other.                                                *)
Stage == {"idle", "touch", "clear", "members", "committed", "failed"}
Parsed == [touch : BOOLEAN, clear : BOOLEAN, add : SUBSET Member, remove : SUBSET Member]
GroupTypes ==
  /\ smembers \subseteq Member
  /\ spc \in [S!Tx -> Stage] /\ ops \in [S!Tx -> Seq(S!Op)] /\ want \in [S!Tx -> Parsed]
  /\ rows \in [S!Tx -> SUBSET Member] /\ ins \in [S!Tx -> SUBSET Member]
  /\ del \in [S!Tx -> SUBSET Member] /\ skipped \in [S!Tx -> SUBSET Member]
  /\ mates \in [S!Tx -> SUBSET Member]

Adds(x) == S!Named(ops[x], {"replace", "drop", "add"})
Drops(x) == S!Named(ops[x], {"remove"})
Wipes(x) == \E i \in DOMAIN ops[x] : ops[x][i].kind \in {"replace", "drop"}
AddsLeft(x) == want[x].add
DropsLeft(x) == want[x].remove

(* What a PUT asks for.                                                    *)
Alone(request) == Len(request) = 1 /\ S!ReadAsNamed(request)

Fresh(x) ==
  /\ rows[x] = {} /\ ins[x] = {} /\ del[x] = {}
  /\ AddsLeft(x) = Adds(x) /\ DropsLeft(x) = Drops(x)

Ordered(x) ==
  /\ AddsLeft(x) \subseteq Adds(x) /\ DropsLeft(x) \subseteq Drops(x)
  /\ DropsLeft(x) # Drops(x) => AddsLeft(x) = {}
  /\ rows[x] # {} => /\ Wipes(x) /\ ins[x] = {}
                     /\ AddsLeft(x) = Adds(x) /\ DropsLeft(x) = Drops(x)

Fits(x, u) ==
  \/ u \in mates[x] \cup skipped[x]
  \/ /\ u \in Drops(x) \ DropsLeft(x) => u \notin S!Seen(x)
     /\ u \in Adds(x) \ AddsLeft(x) /\ u \notin Drops(x) \ DropsLeft(x) => u \in S!Seen(x)
     /\ Wipes(x) /\ u \notin Adds(x) \ AddsLeft(x) => u \notin S!Seen(x) \/ u \in rows[x]
     /\ ~Wipes(x) /\ u \notin (Adds(x) \ AddsLeft(x)) \cup (Drops(x) \ DropsLeft(x)) =>
          u \notin ins[x] \cup del[x]

Doing(x) ==
  /\ spc[x] \in {"idle", "committed", "failed"} => rows[x] = {} /\ ins[x] = {} /\ del[x] = {}
  /\ spc[x] \in {"touch", "clear"} => Fresh(x)
  /\ spc[x] \in {"touch", "clear", "members"} =>
       (want[x].clear <=> Wipes(x)) /\ (x \in Put => Alone(ops[x]))
  /\ spc[x] = "clear" => Wipes(x)
  /\ spc[x] = "members" => Ordered(x) /\ \A u \in Member : Fits(x, u)
  /\ spc[x] \in {"clear", "members"} /\ x \in Put => lock = x

GroupInv == GroupTypes /\ \A x \in S!Tx : Doing(x)

LEMMA NamesAreMembers ==
  ASSUME NEW request \in Seq(S!Op), NEW kinds
  PROVE  S!Named(request, kinds) \subseteq Member
<1>1. \A i \in DOMAIN request : request[i] \in S!Op
  OBVIOUS
<1>2. \A op \in S!Op : op.who \subseteq Member
  BY DEF S!Op
<1> QED BY <1>1, <1>2 DEF S!Named

(* A step of another transaction, or of none.                              *)
SameAt(x) ==
  /\ spc'[x] = spc[x] /\ ops'[x] = ops[x] /\ want'[x] = want[x]
  /\ ins'[x] = ins[x] /\ del'[x] = del[x] /\ skipped'[x] = skipped[x]

LEMMA Undisturbed ==
  ASSUME NEW x \in S!Tx, Doing(x), SameAt(x), rows'[x] \subseteq rows[x],
         spc[x] = "members" =>
           /\ mates[x] \subseteq mates'[x]
           /\ \A u \in Member \ mates'[x] :
                (u \in smembers' <=> u \in smembers) /\ (u \in rows'[x] <=> u \in rows[x]),
         lock = x => lock' = x
  PROVE  Doing(x)'
<1>1. /\ Adds(x)' = Adds(x) /\ Drops(x)' = Drops(x) /\ (Wipes(x)' <=> Wipes(x))
      /\ AddsLeft(x)' = AddsLeft(x) /\ DropsLeft(x)' = DropsLeft(x)
  BY DEF SameAt, Adds, Drops, Wipes, AddsLeft, DropsLeft, S!Named
<1>2. ASSUME spc[x] = "members" PROVE Ordered(x)'
  BY <1>1, <1>2 DEF Doing, Ordered, SameAt
<1>3. ASSUME spc[x] = "members", NEW u \in Member PROVE Fits(x, u)'
  <2>1. CASE u \in mates'[x]
    BY <2>1 DEF Fits
  <2>2. CASE u \notin mates'[x]
    <3>1. Fits(x, u) /\ mates[x] \subseteq mates'[x]
      BY <1>3 DEF Doing
    <3>2. (u \in S!Seen(x)' <=> u \in S!Seen(x)) /\ (u \in rows'[x] <=> u \in rows[x])
      BY <1>3, <2>2 DEF SameAt, S!Seen
    <3> QED BY <1>1, <3>1, <3>2 DEF Fits, SameAt
  <2> QED BY <2>1, <2>2
<1>4. Fresh(x) => Fresh(x)'
  BY <1>1 DEF Fresh, SameAt
<1> QED BY <1>1, <1>2, <1>3, <1>4 DEF Doing, SameAt

(* A step of x: the others have what they had.                             *)
LEMMA OwnStep ==
  ASSUME GroupInv, NEW x \in S!Tx, GroupTypes', Doing(x)', UNCHANGED smembers,
         \A y \in S!Tx \ {x} : SameAt(y) /\ rows'[y] = rows[y] /\ mates'[y] = mates[y],
         lock' = lock \/ lock \in {x, None}
  PROVE  GroupInv'
<1>1. ASSUME NEW y \in S!Tx \ {x} PROVE Doing(y)'
  <2>1. Doing(y) /\ y # None
    BY AuthzAssumption DEF GroupInv, S!Tx
  <2> QED BY <2>1, Undisturbed
<1> QED BY <1>1 DEF GroupInv

(* A statement that commits by itself.                                     *)
LEMMA AloneStep ==
  ASSUME GroupInv, NEW added, added \subseteq Member, NEW gone, gone \subseteq Member,
         S!CommitAlone(added, gone), UNCHANGED <<lock, spc, ops, want, ins, del, skipped>>
  PROVE  GroupInv'
<1>1. GroupTypes
  BY DEF GroupInv
<1>2. /\ smembers' = (smembers \ gone) \cup added
      /\ mates' = [y \in S!Tx |-> S!Noticed(added \cup gone, None, y)]
      /\ rows' = [y \in S!Tx |-> rows[y] \ gone]
  BY DEF S!CommitAlone
<1>3. ASSUME NEW y \in S!Tx
      PROVE  /\ mates'[y] = IF spc[y] \in {"touch", "clear", "members"}
                            THEN mates[y] \cup added \cup gone ELSE mates[y]
             /\ rows'[y] = rows[y] \ gone
  <2>1. y # None /\ None \notin Put
    BY AuthzAssumption DEF S!Tx
  <2>2. y \in S!Running <=> spc[y] \in {"touch", "clear", "members"}
    BY <1>1 DEF S!Running, GroupTypes, Stage
  <2> QED BY <1>2, <2>1, <2>2 DEF S!Noticed
<1>4. GroupTypes'
  <2>1. \A y \in S!Tx : mates'[y] \in SUBSET Member /\ rows'[y] \in SUBSET Member
    BY <1>1, <1>3 DEF GroupTypes
  <2>2. mates' \in [S!Tx -> SUBSET Member] /\ rows' \in [S!Tx -> SUBSET Member]
    BY <1>2, <2>1
  <2> QED BY <1>1, <1>2, <2>2 DEF GroupTypes
<1>5. ASSUME NEW y \in S!Tx PROVE Doing(y)'
  BY <1>2, <1>3, <1>5, Undisturbed DEF GroupInv, SameAt
<1> QED BY <1>4, <1>5 DEF GroupInv

-----------------------------------------------------------------------------
(* A request that begins, and the statements of its transaction.          *)
LEMMA BeginStep ==
  ASSUME GroupInv, NEW x \in S!Tx, spc[x] = "idle", NEW request \in Seq(S!Op), NEW touch \in BOOLEAN,
         x \in Put => Alone(request) /\ touch,
         ops' = [ops EXCEPT ![x] = request],
         want' = [want EXCEPT ![x] = S!ParseGroupPatch(request, touch)],
         spc' = [spc EXCEPT ![x] = IF touch THEN "touch" ELSE S!AfterTouch(want'[x])],
         UNCHANGED <<smembers, lock, rows, ins, del, skipped, mates>>
  PROVE  GroupInv'
<1>1. GroupTypes /\ Doing(x)
  BY DEF GroupInv
<1>2. /\ ops'[x] = request /\ want'[x] = S!ParseGroupPatch(request, touch)
      /\ spc'[x] = IF touch THEN "touch" ELSE S!AfterTouch(want'[x])
  BY <1>1 DEF GroupTypes
<1>3. /\ Adds(x)' = want'[x].add /\ Drops(x)' = want'[x].remove
      /\ Wipes(x)' <=> want'[x].clear
  BY <1>2 DEF Adds, Drops, Wipes, S!ParseGroupPatch
<1>4. /\ rows'[x] = {} /\ ins'[x] = {} /\ del'[x] = {}
      /\ AddsLeft(x)' = Adds(x)' /\ DropsLeft(x)' = Drops(x)'
  BY <1>1, <1>3 DEF Doing, AddsLeft, DropsLeft
<1>5. S!ParseGroupPatch(request, touch) \in Parsed
  <2>1. (\E i \in DOMAIN request : request[i].kind \in {"replace", "drop"}) \in BOOLEAN
    OBVIOUS
  <2> QED BY <2>1, NamesAreMembers DEF S!ParseGroupPatch, Parsed
<1>6. spc'[x] \in {"touch", "clear", "members"}
  BY <1>2 DEF S!AfterTouch
<1>7. GroupTypes'
  BY <1>1, <1>2, <1>5, <1>6 DEF GroupTypes, Stage
<1>8. spc'[x] = "members" => Ordered(x)' /\ \A u \in Member : Fits(x, u)'
  <2> SUFFICES ASSUME spc'[x] = "members" PROVE Ordered(x)' /\ \A u \in Member : Fits(x, u)'
    OBVIOUS
  <2>1. ~Wipes(x)'
    BY <1>2, <1>3 DEF S!AfterTouch
  <2> QED BY <1>4, <2>1 DEF Ordered, Fits
<1>9. spc'[x] = "clear" => Wipes(x)'
  BY <1>2, <1>3 DEF S!AfterTouch
<1>10. x \in Put => Alone(ops'[x]) /\ spc'[x] = "touch"
  BY <1>2
<1>11. Doing(x)'
  BY <1>3, <1>4, <1>6, <1>8, <1>9, <1>10 DEF Doing, Fresh
<1>12. \A y \in S!Tx \ {x} : SameAt(y) /\ rows'[y] = rows[y] /\ mates'[y] = mates[y]
  BY <1>1 DEF SameAt, GroupTypes
<1> QED BY <1>7, <1>11, <1>12, OwnStep

LEMMA BeginPutStep ==
  ASSUME GroupInv, NEW x \in Put, NEW T \in SUBSET Member, S!BeginPut(x, T)
  PROVE  GroupInv'
<1>1. PICK request : request = <<[kind |-> "replace", who |-> T]>>
  OBVIOUS
<1>2. request \in Seq(S!Op) /\ Len(request) = 1
  BY <1>1 DEF S!Op
<1>3. /\ DOMAIN request = {1} /\ request[1].kind = "replace" /\ request[1].who = T
  BY <1>1
<1>7. Alone(request)
  BY <1>2, <1>3 DEF Alone, S!ReadAsNamed
<1>4. S!Named(request, {"replace", "drop", "add"}) = T /\ S!Named(request, {"remove"}) = {}
  BY <1>3 DEF S!Named
<1>5. S!ParseGroupPatch(request, TRUE) = [touch |-> TRUE, clear |-> TRUE, add |-> T, remove |-> {}]
  BY <1>3, <1>4 DEF S!ParseGroupPatch
<1>6. /\ spc[x] = "idle" /\ ops' = [ops EXCEPT ![x] = request]
      /\ want' = [want EXCEPT ![x] = S!ParseGroupPatch(request, TRUE)]
      /\ spc' = [spc EXCEPT ![x] = "touch"]
      /\ UNCHANGED <<smembers, lock, rows, ins, del, skipped, mates>>
  BY <1>1, <1>5 DEF S!BeginPut, S!Goto, S!dbVars
<1> QED BY <1>2, <1>6, <1>7, BeginStep DEF S!Tx

LEMMA BeginPatchStep ==
  ASSUME GroupInv, NEW x \in Patch, NEW request \in S!Request, NEW touch \in BOOLEAN,
         S!BeginPatch(x, request, touch)
  PROVE  GroupInv'
<1>1. request \in Seq(S!Op)
  BY DEF S!Request
<1>2. /\ spc[x] = "idle" /\ ops' = [ops EXCEPT ![x] = request]
      /\ want' = [want EXCEPT ![x] = S!ParseGroupPatch(request, touch)]
      /\ spc' = [spc EXCEPT ![x] = IF touch THEN "touch" ELSE S!AfterTouch(want'[x])]
      /\ UNCHANGED <<smembers, lock, rows, ins, del, skipped, mates>>
  BY DEF S!BeginPatch, S!Goto, S!dbVars
<1>3. x \notin Put
  BY AuthzAssumption
<1> QED BY <1>1, <1>2, <1>3, BeginStep DEF S!Tx

LEMMA TouchStep ==
  ASSUME GroupInv, NEW x \in S!Tx, S!Touch(x)
  PROVE  GroupInv'
<1>1. GroupTypes /\ Doing(x)
  BY DEF GroupInv
<1>2. /\ spc[x] = "touch" /\ lock = None /\ lock' = x
      /\ spc' = [spc EXCEPT ![x] = S!AfterTouch(want[x])]
      /\ UNCHANGED <<smembers, ops, want, rows, ins, del, skipped, mates>>
  BY DEF S!Touch, S!Goto, S!dbVars
<1>3. /\ spc'[x] = S!AfterTouch(want[x]) /\ spc'[x] \in {"clear", "members"}
      /\ spc' \in [S!Tx -> Stage]
  BY <1>1, <1>2 DEF GroupTypes, Stage, S!AfterTouch
<1>4. GroupTypes'
  BY <1>1, <1>2, <1>3 DEF GroupTypes
<1>5. /\ Fresh(x) /\ Fresh(x)' /\ (want[x].clear <=> Wipes(x)) /\ (Wipes(x)' <=> Wipes(x))
      /\ x \in Put => Alone(ops[x])
  BY <1>1, <1>2 DEF Doing, Fresh, Wipes, Adds, Drops, AddsLeft, DropsLeft
<1>6. spc'[x] = "members" => Ordered(x)' /\ \A u \in Member : Fits(x, u)'
  <2> SUFFICES ASSUME spc'[x] = "members" PROVE Ordered(x)' /\ \A u \in Member : Fits(x, u)'
    OBVIOUS
  <2>1. ~Wipes(x)'
    BY <1>3, <1>5 DEF S!AfterTouch
  <2> QED BY <1>5, <2>1 DEF Ordered, Fits, Fresh
<1>7. spc'[x] = "clear" => Wipes(x)'
  BY <1>3, <1>5 DEF S!AfterTouch
<1>8. Doing(x)'
  BY <1>2, <1>3, <1>5, <1>6, <1>7 DEF Doing
<1>9. \A y \in S!Tx \ {x} : SameAt(y) /\ rows'[y] = rows[y] /\ mates'[y] = mates[y]
  BY <1>1, <1>2 DEF SameAt, GroupTypes
<1> QED BY <1>2, <1>4, <1>8, <1>9, OwnStep

LEMMA ClearStep ==
  ASSUME GroupInv, NEW x \in S!Tx, S!Clear(x)
  PROVE  GroupInv'
<1>1. GroupTypes /\ Doing(x)
  BY DEF GroupInv
<1>2. /\ spc[x] = "clear" /\ rows' = [rows EXCEPT ![x] = S!Seen(x)]
      /\ spc' = [spc EXCEPT ![x] = "members"]
      /\ UNCHANGED <<smembers, lock, ops, want, ins, del, skipped, mates>>
  BY DEF S!Clear, S!Goto, S!dbVars
<1>3. S!Seen(x) \subseteq Member
  BY <1>1 DEF GroupTypes, S!Seen
<1>4. GroupTypes' /\ rows'[x] = S!Seen(x) /\ spc'[x] = "members"
  BY <1>1, <1>2, <1>3 DEF GroupTypes, Stage
<1>5. /\ Fresh(x) /\ Wipes(x) /\ (Wipes(x)' <=> Wipes(x)) /\ (want[x].clear <=> Wipes(x))
      /\ Adds(x)' = Adds(x) /\ Drops(x)' = Drops(x) /\ S!Seen(x)' = S!Seen(x)
      /\ x \in Put => Alone(ops[x]) /\ lock = x
  BY <1>1, <1>2 DEF Doing, Wipes, Adds, Drops, S!Seen
<1>6. Ordered(x)' /\ \A u \in Member : Fits(x, u)'
  BY <1>2, <1>4, <1>5 DEF Ordered, Fits, Fresh, AddsLeft, DropsLeft
<1>7. Doing(x)'
  BY <1>2, <1>4, <1>5, <1>6 DEF Doing
<1>8. \A y \in S!Tx \ {x} : SameAt(y) /\ rows'[y] = rows[y] /\ mates'[y] = mates[y]
  BY <1>1, <1>2 DEF SameAt, GroupTypes
<1> QED BY <1>2, <1>4, <1>7, <1>8, OwnStep

LEMMA ClearRowStep ==
  ASSUME GroupInv, NEW x \in S!Tx, NEW w \in Member, S!ClearRow(x, w)
  PROVE  GroupInv'
<1>1. GroupTypes /\ Doing(x)
  BY DEF GroupInv
<1>2. /\ w \in rows[x] /\ rows' = [rows EXCEPT ![x] = @ \ {w}] /\ del' = [del EXCEPT ![x] = @ \cup {w}]
      /\ UNCHANGED <<smembers, lock, spc, ops, want, ins, skipped, mates>>
  BY DEF S!ClearRow, S!dbVars
<1>3. GroupTypes' /\ rows'[x] = rows[x] \ {w} /\ del'[x] = del[x] \cup {w}
  BY <1>1, <1>2 DEF GroupTypes
<1>4. spc[x] = "members" /\ Ordered(x) /\ Wipes(x) /\ \A u \in Member : Fits(x, u)
  BY <1>1, <1>2 DEF Doing, Fresh, Ordered, GroupTypes, Stage
<1>5. /\ ins[x] = {} /\ AddsLeft(x) = Adds(x) /\ DropsLeft(x) = Drops(x)
      /\ AddsLeft(x)' = AddsLeft(x) /\ DropsLeft(x)' = DropsLeft(x)
      /\ Adds(x)' = Adds(x) /\ Drops(x)' = Drops(x) /\ (Wipes(x)' <=> Wipes(x))
  BY <1>2, <1>4 DEF Ordered, AddsLeft, DropsLeft, Adds, Drops, Wipes
<1>6. Ordered(x)'
  BY <1>2, <1>4, <1>5 DEF Ordered
<1>7. ASSUME NEW u \in Member PROVE Fits(x, u)'
  <2>1. Fits(x, u)
    BY <1>4
  <2>2. u \in S!Seen(x)' <=> u \in S!Seen(x) /\ u # w
    BY <1>2, <1>3, <1>5 DEF S!Seen
  <2> QED BY <1>2, <1>3, <1>4, <1>5, <2>1, <2>2 DEF Fits
<1>8. Doing(x)'
  BY <1>1, <1>2, <1>4, <1>5, <1>6, <1>7 DEF Doing
<1>9. \A y \in S!Tx \ {x} : SameAt(y) /\ rows'[y] = rows[y] /\ mates'[y] = mates[y]
  BY <1>1, <1>2 DEF SameAt, GroupTypes
<1> QED BY <1>2, <1>3, <1>8, <1>9, OwnStep

LEMMA AddMemberTxStep ==
  ASSUME GroupInv, NEW x \in S!Tx, NEW w \in Member, S!AddMemberTx(x, w)
  PROVE  GroupInv'
<1>1. GroupTypes /\ Doing(x)
  BY DEF GroupInv
<1>2. /\ spc[x] = "members" /\ rows[x] = {} /\ w \in AddsLeft(x)
      /\ want' = [want EXCEPT ![x].add = @ \ {w}]
      /\ \/ skipped' = [skipped EXCEPT ![x] = @ \cup {w}] /\ ins' = ins
         \/ /\ ins' = [ins EXCEPT ![x] = IF w \in S!Seen(x) THEN @ ELSE @ \cup {w}]
            /\ skipped' = skipped
      /\ UNCHANGED <<smembers, lock, spc, ops, rows, del, mates>>
  BY DEF S!AddMemberTx, S!Cleared, S!dbVars, AddsLeft
<1>3. /\ want'[x] = [touch |-> want[x].touch, clear |-> want[x].clear,
                     add |-> AddsLeft(x) \ {w}, remove |-> DropsLeft(x)]
      /\ want' \in [S!Tx -> Parsed] /\ \A y \in S!Tx \ {x} : want'[y] = want[y]
  <2>1. want[x] \in Parsed
    BY <1>1 DEF GroupTypes
  <2>2. want'[x] = [want[x] EXCEPT !.add = @ \ {w}]
    BY <1>1, <1>2 DEF GroupTypes
  <2>3. /\ want'[x] = [touch |-> want[x].touch, clear |-> want[x].clear,
                       add |-> AddsLeft(x) \ {w}, remove |-> DropsLeft(x)]
        /\ want'[x] \in Parsed
    BY <2>1, <2>2 DEF Parsed, AddsLeft, DropsLeft
  <2> QED BY <1>1, <1>2, <2>3 DEF GroupTypes
<1>4. /\ GroupTypes'
      /\ \/ w \in skipped'[x] /\ ins'[x] = ins[x]
         \/ ins'[x] = IF w \in S!Seen(x) THEN ins[x] ELSE ins[x] \cup {w}
      /\ skipped[x] \subseteq skipped'[x]
  <2>1. w \in Member /\ x \in S!Tx
    OBVIOUS
  <2>2. CASE skipped' = [skipped EXCEPT ![x] = @ \cup {w}] /\ ins' = ins
    BY <1>1, <1>2, <1>3, <2>2 DEF GroupTypes
  <2>3. CASE /\ ins' = [ins EXCEPT ![x] = IF w \in S!Seen(x) THEN @ ELSE @ \cup {w}]
             /\ skipped' = skipped
    <3>1. (IF w \in S!Seen(x) THEN ins[x] ELSE ins[x] \cup {w}) \in SUBSET Member
      BY <1>1 DEF GroupTypes
    <3> QED BY <1>1, <1>2, <1>3, <2>3, <3>1 DEF GroupTypes
  <2> QED BY <1>2, <2>2, <2>3
<1>5. Ordered(x) /\ \A u \in Member : Fits(x, u)
  BY <1>1, <1>2 DEF Doing
<1>6. /\ AddsLeft(x)' = AddsLeft(x) \ {w} /\ DropsLeft(x)' = DropsLeft(x)
      /\ DropsLeft(x) = Drops(x) /\ w \in Adds(x)
      /\ Adds(x)' = Adds(x) /\ Drops(x)' = Drops(x) /\ (Wipes(x)' <=> Wipes(x))
  BY <1>2, <1>3, <1>5 DEF Ordered, AddsLeft, DropsLeft, Adds, Drops, Wipes
<1>7. Ordered(x)'
  BY <1>2, <1>5, <1>6 DEF Ordered
<1>8. ASSUME NEW u \in Member PROVE Fits(x, u)'
  <2>1. Fits(x, u)
    BY <1>5
  <2>2. CASE u # w
    <3>1. (u \in ins'[x] <=> u \in ins[x]) /\ (u \in S!Seen(x)' <=> u \in S!Seen(x))
      BY <1>2, <1>4, <2>2 DEF S!Seen
    <3> QED BY <1>2, <1>4, <1>6, <2>1, <2>2, <3>1 DEF Fits
  <2>3. CASE u = w /\ u \notin skipped'[x]
    <3>1. u \in S!Seen(x)'
      BY <1>2, <1>4, <2>3 DEF S!Seen
    <3> QED BY <1>2, <1>6, <2>3, <3>1 DEF Fits
  <2>4. CASE u = w /\ u \in skipped'[x]
    BY <2>4 DEF Fits
  <2> QED BY <2>2, <2>3, <2>4
<1>9. Doing(x)'
  BY <1>1, <1>2, <1>3, <1>6, <1>7, <1>8 DEF Doing
<1>10. \A y \in S!Tx \ {x} : SameAt(y) /\ rows'[y] = rows[y] /\ mates'[y] = mates[y]
  BY <1>1, <1>2, <1>3 DEF SameAt, GroupTypes
<1> QED BY <1>2, <1>4, <1>9, <1>10, OwnStep

LEMMA RemoveMemberTxStep ==
  ASSUME GroupInv, NEW x \in S!Tx, NEW w \in Member, S!RemoveMemberTx(x, w)
  PROVE  GroupInv'
<1>1. GroupTypes /\ Doing(x)
  BY DEF GroupInv
<1>2. /\ spc[x] = "members" /\ rows[x] = {} /\ AddsLeft(x) = {} /\ w \in DropsLeft(x)
      /\ want' = [want EXCEPT ![x].remove = @ \ {w}]
      /\ del' = [del EXCEPT ![x] = IF w \in smembers THEN @ \cup {w} ELSE @]
      /\ ins' = [ins EXCEPT ![x] = @ \ {w}]
      /\ UNCHANGED <<smembers, lock, spc, ops, rows, skipped, mates>>
  BY DEF S!RemoveMemberTx, S!Added, S!Cleared, S!dbVars, AddsLeft, DropsLeft
<1>3. /\ want'[x] = [touch |-> want[x].touch, clear |-> want[x].clear,
                     add |-> AddsLeft(x), remove |-> DropsLeft(x) \ {w}]
      /\ want' \in [S!Tx -> Parsed] /\ \A y \in S!Tx \ {x} : want'[y] = want[y]
  <2>1. want[x] \in Parsed
    BY <1>1 DEF GroupTypes
  <2>2. want'[x] = [want[x] EXCEPT !.remove = @ \ {w}]
    BY <1>1, <1>2 DEF GroupTypes
  <2>3. /\ want'[x] = [touch |-> want[x].touch, clear |-> want[x].clear,
                       add |-> AddsLeft(x), remove |-> DropsLeft(x) \ {w}]
        /\ want'[x] \in Parsed
    BY <2>1, <2>2 DEF Parsed, AddsLeft, DropsLeft
  <2> QED BY <1>1, <1>2, <2>3 DEF GroupTypes
<1>4. /\ GroupTypes' /\ ins'[x] = ins[x] \ {w}
      /\ del'[x] = IF w \in smembers THEN del[x] \cup {w} ELSE del[x]
  BY <1>1, <1>2, <1>3 DEF GroupTypes
<1>5. Ordered(x) /\ \A u \in Member : Fits(x, u)
  BY <1>1, <1>2 DEF Doing
<1>6. /\ AddsLeft(x)' = {} /\ DropsLeft(x)' = DropsLeft(x) \ {w} /\ w \in Drops(x)
      /\ Adds(x)' = Adds(x) /\ Drops(x)' = Drops(x) /\ (Wipes(x)' <=> Wipes(x))
  BY <1>2, <1>3, <1>5 DEF Ordered, AddsLeft, DropsLeft, Adds, Drops, Wipes
<1>7. Ordered(x)'
  BY <1>2, <1>5, <1>6 DEF Ordered
<1>8. ASSUME NEW u \in Member PROVE Fits(x, u)'
  <2>1. Fits(x, u)
    BY <1>5
  <2>2. CASE u # w
    <3>1. /\ u \in ins'[x] <=> u \in ins[x]
          /\ u \in del'[x] <=> u \in del[x]
          /\ u \in S!Seen(x)' <=> u \in S!Seen(x)
      BY <1>2, <1>4, <2>2 DEF S!Seen
    <3> QED BY <1>2, <1>6, <2>1, <2>2, <3>1 DEF Fits
  <2>3. CASE u = w
    <3>1. u \notin S!Seen(x)'
      BY <1>2, <1>4, <2>3 DEF S!Seen
    <3> QED BY <1>2, <1>6, <2>3, <3>1 DEF Fits
  <2> QED BY <2>2, <2>3
<1>9. Doing(x)'
  BY <1>1, <1>2, <1>3, <1>6, <1>7, <1>8 DEF Doing
<1>10. \A y \in S!Tx \ {x} : SameAt(y) /\ rows'[y] = rows[y] /\ mates'[y] = mates[y]
  BY <1>1, <1>2, <1>3 DEF SameAt, GroupTypes
<1> QED BY <1>2, <1>4, <1>9, <1>10, OwnStep

(* What others had in hand is theirs alone; x has nothing any more.        *)
LEMMA EndIs ==
  ASSUME GroupInv, NEW x \in S!Tx, NEW how \in {"committed", "failed"}, S!End(x, how)
  PROVE  /\ spc' \in [S!Tx -> Stage] /\ ops' \in [S!Tx -> Seq(S!Op)] /\ want' \in [S!Tx -> Parsed]
         /\ ins' \in [S!Tx -> SUBSET Member] /\ del' \in [S!Tx -> SUBSET Member]
         /\ skipped' \in [S!Tx -> SUBSET Member]
         /\ spc'[x] = how /\ ins'[x] = {} /\ del'[x] = {}
         /\ \A y \in S!Tx \ {x} : SameAt(y) /\ (lock = y => lock' = y)
<1>1. GroupTypes
  BY DEF GroupInv
<1>2. S!Nothing \in Parsed /\ <<>> \in Seq(S!Op)
  BY DEF S!Nothing, Parsed
<1> QED BY <1>1, <1>2 DEF S!End, S!Goto, GroupTypes, Stage, SameAt

LEMMA RollbackStep ==
  ASSUME GroupInv, NEW x \in S!Tx, S!Rollback(x)
  PROVE  GroupInv'
<1>1. GroupTypes
  BY DEF GroupInv
<1>2. /\ S!End(x, "failed") /\ mates' = [mates EXCEPT ![x] = {}] /\ rows' = [rows EXCEPT ![x] = {}]
      /\ smembers' = smembers
  BY DEF S!Rollback
<1>3. /\ rows'[x] = {} /\ rows' \in [S!Tx -> SUBSET Member] /\ mates' \in [S!Tx -> SUBSET Member]
      /\ \A y \in S!Tx \ {x} : rows'[y] = rows[y] /\ mates'[y] = mates[y]
  BY <1>1, <1>2 DEF GroupTypes
<1>4. GroupTypes'
  BY <1>1, <1>2, <1>3, EndIs DEF GroupTypes
<1>5. Doing(x)'
  BY <1>2, <1>3, EndIs DEF Doing
<1>6. \A y \in S!Tx \ {x} : SameAt(y)
  BY <1>2, EndIs
<1>7. lock' = lock \/ lock = x
  BY <1>2 DEF S!End
<1> QED BY <1>2, <1>3, <1>4, <1>5, <1>6, <1>7, OwnStep

(* What a commit changes the others have been told of, but for PUTs, which *)
(* wait for the group's row with nothing in hand.                          *)
LEMMA GroupCommitStep ==
  ASSUME GroupInv, NEW x \in S!Tx, S!Commit(x)
  PROVE  GroupInv'
<1>1. GroupTypes
  BY DEF GroupInv
<1>2. /\ S!End(x, "committed") /\ spc[x] = "members" /\ rows[x] = {}
      /\ smembers' = S!Seen(x)
      /\ mates' = [y \in S!Tx |-> IF y = x THEN {} ELSE S!Noticed(ins[x] \cup del[x], x, y)]
      /\ rows' = [y \in S!Tx |-> rows[y] \ del[x]]
  BY DEF S!Commit, S!Added, S!Cleared
<1>3. /\ S!Seen(x) \subseteq Member
      /\ \A u \in Member \ (ins[x] \cup del[x]) : u \in S!Seen(x) <=> u \in smembers
  BY <1>1 DEF GroupTypes, S!Seen
<1>4. ASSUME NEW y \in S!Tx
      PROVE  /\ rows'[y] \in SUBSET rows[y] /\ rows'[y] = rows[y] \ del[x]
             /\ mates'[y] \in SUBSET Member
             /\ y # x => /\ mates[y] \subseteq mates'[y]
                         /\ spc[y] = "members" => ins[x] \cup del[x] \subseteq mates'[y]
  <2>1. ins[x] \cup del[x] \subseteq Member /\ mates[y] \subseteq Member
    BY <1>1 DEF GroupTypes
  <2>2. CASE y = x
    BY <1>2, <2>2
  <2>3. CASE y # x
    <3>1. mates'[y] = S!Noticed(ins[x] \cup del[x], x, y)
      BY <1>2, <2>3
    <3>2. ASSUME spc[y] = "members" PROVE y \in S!Running /\ ~(x \in Put /\ y \in Put)
      <4>1. y \in S!Running
        BY <3>2 DEF S!Running
      <4>2. ~(x \in Put /\ y \in Put)
        BY <1>2, <2>3, <3>2 DEF GroupInv, Doing
      <4> QED BY <4>1, <4>2
    <3> QED BY <1>2, <2>1, <2>3, <3>1, <3>2 DEF S!Noticed
  <2> QED BY <2>2, <2>3
<1>5. GroupTypes'
  <2>1. rows' \in [S!Tx -> SUBSET Member]
    BY <1>1, <1>2 DEF GroupTypes
  <2>2. mates' \in [S!Tx -> SUBSET Member]
    BY <1>2, <1>4
  <2> QED BY <1>2, <1>3, <2>1, <2>2, EndIs DEF GroupTypes
<1>6. Doing(x)'
  BY <1>2, <1>4, EndIs DEF Doing
<1>7. ASSUME NEW y \in S!Tx \ {x} PROVE Doing(y)'
  <2>1. Doing(y) /\ SameAt(y) /\ (lock = y => lock' = y)
    BY <1>2, EndIs DEF GroupInv
  <2>2. ASSUME spc[y] = "members", NEW u \in Member \ mates'[y]
        PROVE  (u \in smembers' <=> u \in smembers) /\ (u \in rows'[y] <=> u \in rows[y])
    BY <1>2, <1>3, <1>4, <2>2
  <2> QED BY <1>4, <2>1, <2>2, Undisturbed
<1> QED BY <1>5, <1>6, <1>7 DEF GroupInv

-----------------------------------------------------------------------------
(* Nothing is asked of a group that is not there yet.                      *)
NotYet == group = "none" => \A x \in S!Tx : spc[x] = "idle"

LEMMA GroupInitInv == S!Init => GroupInv /\ NotYet
<1> SUFFICES ASSUME S!Init PROVE GroupInv /\ NotYet
  OBVIOUS
<1>1. S!Nothing \in Parsed /\ <<>> \in Seq(S!Op)
  BY DEF S!Nothing, Parsed
<1>2. GroupTypes
  BY <1>1 DEF S!Init, GroupTypes, Stage
<1> QED BY <1>2 DEF S!Init, GroupInv, Doing, NotYet

LEMMA NotYetStep ==
  ASSUME NotYet, S!Next PROVE NotYet'
<1> SUFFICES ASSUME group' = "none", NEW y \in S!Tx PROVE spc'[y] = "idle"
  BY DEF NotYet
<1>1. CASE group = "none" /\ spc' = spc
  BY <1>1 DEF NotYet
<1>2. ASSUME NEW T, S!CreateGroup(T) PROVE FALSE
  BY <1>2 DEF S!CreateGroup
<1>3. CASE S!DeleteGroup
  BY <1>3 DEF S!DeleteGroup
<1>4. ASSUME NEW u \in Member, S!AddMember(u) \/ S!RemoveMember(u) \/ S!DeleteUser(u)
      PROVE  group = "none" /\ spc' = spc
  BY <1>4 DEF S!AddMember, S!RemoveMember, S!DeleteUser, S!txVars
<1>5. ASSUME NEW x \in Put, NEW T, S!BeginPut(x, T) PROVE FALSE
  BY <1>5 DEF S!BeginPut, S!dbVars
<1>6. ASSUME NEW x \in Patch, NEW request, NEW touch, S!BeginPatch(x, request, touch) PROVE FALSE
  BY <1>6 DEF S!BeginPatch, S!dbVars
<1>7. ASSUME NEW x \in S!Tx, S!Touch(x) \/ S!Clear(x) \/ S!Commit(x) \/ S!Rollback(x) PROVE FALSE
  BY <1>7 DEF NotYet, S!Touch, S!Clear, S!Commit, S!Added, S!Cleared, S!Rollback, S!Running,
              S!End, S!dbVars
<1>8. ASSUME NEW x \in S!Tx, NEW u \in Member,
             S!ClearRow(x, u) \/ S!AddMemberTx(x, u) \/ S!RemoveMemberTx(x, u)
      PROVE  group = "none" /\ spc' = spc
  BY <1>8 DEF S!ClearRow, S!AddMemberTx, S!RemoveMemberTx, S!dbVars
<1> QED BY <1>1, <1>2, <1>3, <1>4, <1>5, <1>6, <1>7, <1>8 DEF S!Next

LEMMA CreateGroupStep ==
  ASSUME GroupInv, NotYet, NEW T \in SUBSET Member, S!CreateGroup(T)
  PROVE  GroupInv'
<1>1. /\ group = "none" /\ smembers' = T \cap live
      /\ UNCHANGED <<lock, spc, ops, want, rows, ins, del, skipped, mates>>
  BY DEF S!CreateGroup, S!txVars
<1>2. GroupTypes'
  BY <1>1 DEF GroupInv, GroupTypes
<1>3. ASSUME NEW x \in S!Tx PROVE Doing(x)'
  <2>1. Doing(x) /\ SameAt(x) /\ spc[x] # "members"
    BY <1>1 DEF GroupInv, NotYet, SameAt
  <2> QED BY <1>1, <2>1, Undisturbed
<1> QED BY <1>2, <1>3 DEF GroupInv

LEMMA GroupStands ==
  ASSUME GroupInv, UNCHANGED <<smembers, lock, spc, ops, want, rows, ins, del, skipped, mates>>
  PROVE  GroupInv'
<1>1. GroupTypes'
  BY DEF GroupInv, GroupTypes
<1>2. ASSUME NEW x \in S!Tx PROVE Doing(x)'
  BY Undisturbed DEF GroupInv, SameAt
<1> QED BY <1>1, <1>2 DEF GroupInv

LEMMA GroupStep ==
  GroupInv /\ NotYet /\ (S!Next \/ UNCHANGED scimVars) => GroupInv' /\ NotYet'
<1> SUFFICES ASSUME GroupInv, NotYet, S!Next \/ UNCHANGED scimVars PROVE GroupInv' /\ NotYet'
  OBVIOUS
<1>1. CASE UNCHANGED scimVars
  BY <1>1, GroupStands DEF scimVars, NotYet
<1>2. CASE S!DeleteGroup
  <2>1. {} \subseteq Member /\ smembers \subseteq Member
    BY DEF GroupInv, GroupTypes
  <2> QED BY <1>2, <2>1, AloneStep, NotYetStep DEF S!DeleteGroup, S!Next
<1>3. ASSUME NEW u \in Member, S!AddMember(u) \/ S!RemoveMember(u) PROVE GroupInv'
  <2>1. {} \subseteq Member /\ {u} \subseteq Member
    OBVIOUS
  <2> QED BY <1>3, <2>1, AloneStep DEF S!AddMember, S!RemoveMember
<1>4. ASSUME NEW u \in Member, S!DeleteUser(u) PROVE GroupInv'
  BY <1>4, GroupStands DEF S!DeleteUser, S!txVars
<1>5. CASE S!Next
  BY <1>2, <1>3, <1>4, <1>5, NotYetStep, CreateGroupStep, BeginPutStep, BeginPatchStep, TouchStep,
     ClearStep, ClearRowStep, AddMemberTxStep, RemoveMemberTxStep, GroupCommitStep, RollbackStep
  DEF S!Next
<1> QED BY <1>1, <1>5

-----------------------------------------------------------------------------
(* What a transaction has done when it commits is what its operations say. *)
LEMMA CommitIsAsked ==
  ASSUME GroupInv, NEW x \in S!Tx, S!Commit(x), S!OrderDoesNotMatter(ops[x]), S!ReadAsNamed(ops[x]),
         NEW u \in Member \ (mates[x] \cup skipped[x])
  PROVE  u \in smembers' <=> u \in S!Applied(ops[x], smembers)
<1>1. /\ ops[x] \in Seq(S!Op) /\ spc[x] = "members" /\ rows[x] = {}
      /\ AddsLeft(x) = {} /\ DropsLeft(x) = {} /\ smembers' = S!Seen(x)
  BY DEF GroupInv, GroupTypes, S!Commit, S!Added, S!Cleared, AddsLeft, DropsLeft
<1>2. Fits(x, u)
  BY <1>1 DEF GroupInv, Doing
<1>3. \A kinds : Says(ops[x], Len(ops[x]), u, kinds) <=> u \in S!Named(ops[x], kinds)
  <2>1. DOMAIN ops[x] = 1..Len(ops[x])
    BY <1>1
  <2> QED BY <2>1 DEF Says, S!Named
<1>4. Replaces(ops[x], Len(ops[x])) <=> Wipes(x)
  <2>1. DOMAIN ops[x] = 1..Len(ops[x])
    BY <1>1
  <2> QED BY <2>1 DEF Replaces, Wipes
<1>5. u \in S!Applied(ops[x], smembers) <=>
        /\ u \notin Drops(x)
        /\ u \in Adds(x) \/ (~Wipes(x) /\ u \in smembers)
  <2>1. u \in S!Applied(ops[x], smembers) <=> ComesTo(ops[x], Len(ops[x]), u, smembers)
    BY <1>1, AppliedComesTo
  <2> QED BY <1>3, <1>4, <2>1 DEF ComesTo, Adds, Drops
<1>6. u \in S!Seen(x) <=> (u \in smembers /\ u \notin del[x]) \/ u \in ins[x]
  BY DEF S!Seen
<1> QED BY <1>1, <1>2, <1>5, <1>6 DEF Fits

LEMMA CommitsByCommit ==
  ASSUME GroupInv, S!Next, NEW x \in S!Tx, spc[x] # "committed", spc'[x] = "committed"
  PROVE  S!Commit(x)
<1>1. ASSUME NEW y \in S!Tx, NEW where \in {"touch", "clear", "members", "failed"}
      PROVE  spc' # [spc EXCEPT ![y] = where]
  BY DEF GroupInv, GroupTypes
<1>2. spc' # spc
  OBVIOUS
<1>3. ASSUME NEW y \in S!Tx, spc' = [spc EXCEPT ![y] = "committed"] PROVE y = x
  BY <1>3 DEF GroupInv, GroupTypes
<1>4. ASSUME NEW y \in Put, NEW T, S!BeginPut(y, T) PROVE FALSE
  BY <1>1, <1>4 DEF S!BeginPut, S!Goto, S!Tx
<1>5. ASSUME NEW y \in Patch, NEW request, NEW touch, S!BeginPatch(y, request, touch) PROVE FALSE
  <2>1. PICK where \in {"touch", "clear", "members"} : spc' = [spc EXCEPT ![y] = where]
    BY <1>5 DEF S!BeginPatch, S!Goto, S!AfterTouch
  <2> QED BY <1>1, <2>1 DEF S!Tx
<1>6. ASSUME NEW y \in S!Tx, S!Touch(y) \/ S!Clear(y) \/ S!Rollback(y) PROVE FALSE
  BY <1>1, <1>6 DEF S!Touch, S!Clear, S!Rollback, S!End, S!Goto, S!AfterTouch
<1>7. ASSUME NEW y \in S!Tx, S!Commit(y) PROVE S!Commit(x)
  BY <1>3, <1>7 DEF S!Commit, S!End, S!Goto
<1>8. ASSUME NEW y \in S!Tx, NEW u \in Member,
             S!ClearRow(y, u) \/ S!AddMemberTx(y, u) \/ S!RemoveMemberTx(y, u)
      PROVE  FALSE
  BY <1>2, <1>8 DEF S!ClearRow, S!AddMemberTx, S!RemoveMemberTx
<1>9. ASSUME NEW u \in Member, S!AddMember(u) \/ S!RemoveMember(u) \/ S!DeleteUser(u) PROVE FALSE
  BY <1>2, <1>9 DEF S!AddMember, S!RemoveMember, S!DeleteUser, S!txVars
<1>10. ASSUME NEW T, S!CreateGroup(T) PROVE FALSE
  BY <1>2, <1>10 DEF S!CreateGroup, S!txVars
<1>11. ~S!DeleteGroup
  BY <1>2 DEF S!DeleteGroup
<1> QED BY <1>4, <1>5, <1>6, <1>7, <1>8, <1>9, <1>10, <1>11 DEF S!Next

LEMMA EndsAsAsked ==
  ASSUME GroupInv, S!Next \/ UNCHANGED scimVars
  PROVE  S!PutIsExact /\ S!PatchIsAsWritten
<1>1. ASSUME NEW x \in S!Tx, S!OrderDoesNotMatter(ops[x]), S!ReadAsNamed(ops[x])
      PROVE  S!Effective(x)
  <2> SUFFICES ASSUME spc[x] # "committed", spc'[x] = "committed",
                      NEW u \in Member \ (mates[x] \cup skipped[x])
               PROVE  u \in smembers' <=> u \in S!Applied(ops[x], smembers)
    BY DEF S!Effective
  <2>1. S!Next
    BY DEF scimVars
  <2> QED BY <1>1, <2>1, CommitsByCommit, CommitIsAsked
<1>2. ASSUME NEW x \in Put PROVE S!Effective(x)
  <2>1. CASE spc[x] # "committed" /\ spc'[x] = "committed"
    <3>1. S!Next
      BY <2>1 DEF scimVars
    <3>2. spc[x] = "members"
      BY <2>1, <3>1, CommitsByCommit DEF S!Tx, S!Commit, S!Added, S!Cleared
    <3>3. Alone(ops[x]) /\ ops[x] \in Seq(S!Op)
      BY <3>2 DEF GroupInv, GroupTypes, Doing, S!Tx
    <3>4. DOMAIN ops[x] = {1} /\ S!ReadAsNamed(ops[x])
      BY <3>3 DEF Alone
    <3>5. S!OrderDoesNotMatter(ops[x])
      BY <3>4 DEF S!OrderDoesNotMatter
    <3> QED BY <1>1, <3>4, <3>5 DEF S!Tx
  <2>2. CASE ~(spc[x] # "committed" /\ spc'[x] = "committed")
    BY <2>2 DEF S!Effective
  <2> QED BY <2>1, <2>2
<1> QED BY <1>1, <1>2 DEF S!PutIsExact, S!PatchIsAsWritten, S!Tx

(* Whatever other transactions and administrators do meanwhile, a PUT that *)
(* commits leaves the members it names, replaceGroup, and a PATCH does     *)
(* what its operations do one after the other, patchGroup.                 *)
THEOREM GroupsAlwaysEndAsAsked == AuthzSpec => GroupsEndAsAsked
<1>1. AuthzInit => GroupInv /\ NotYet
  BY GroupInitInv DEF AuthzInit
<1>2. ASSUME [AuthzNext]_allVars PROVE S!Next \/ UNCHANGED scimVars
  BY <1>2 DEF AuthzNext, ScimNext, allVars
<1>3. GroupInv /\ NotYet /\ [AuthzNext]_allVars => (GroupInv /\ NotYet)'
  BY <1>2, GroupStep
<1>4. GroupInv /\ [AuthzNext]_allVars =>
        [S!PutIsExact /\ S!PatchIsAsWritten]_(S!vars)
  BY <1>2, EndsAsAsked
<1> QED BY <1>1, <1>3, <1>4, PTL DEF AuthzSpec, GroupsEndAsAsked, S!GroupsEndAsAsked

===============================================================================
