----------------------------- MODULE Relations -----------------------------
(***************************************************************************)
(* Relationship tuples and the questions asked of them                     *)
(* (internal/access/authorization/rebac/rebac.go), for one tenant.         *)
(*                                                                         *)
(* A node is an object with a relation, "document:readme#viewer".  A tuple *)
(* gives the relation to a person or to a userset, which is again a node.  *)
(* Check and Expand walk the tuples depth first, one SELECT per node, each *)
(* in a statement of its own: tuples are written and deleted between two   *)
(* of them.  The SELECT has no ORDER BY, so the subjects of a node come in *)
(* any order.                                                              *)
(***************************************************************************)
EXTENDS Naturals, Sequences, FiniteSets

CONSTANTS Node,      \* objects with a relation
          Person,    \* direct subjects
          Walker,    \* handlers of check and graph requests
          None,
          MaxDepth,  \* maxDepth and maxExpandDepth
          MaxWrites  \* how many tuples are written or deleted

Subject == Person \cup Node
Tuple == Node \X Subject

VARIABLES
  tuples,   \* rows of auth.relation_tuples
  pc,       \* a walker: "idle", "walk", "allowed", "denied" (or the graph is complete)
  root,     \* the node it was asked about
  person,   \* the person it was asked about, None for a graph
  stack,    \* the calls of resolve or expand under way, the innermost last
  visited,  \* the visited map
  edges,    \* the tuples of a graph
  stable,   \* history: tuples stored ever since the walk began
  ever,     \* history: tuples stored at some time since the walk began
  writes    \* history: writes so far

walkVars == <<pc, root, person, stack, visited, edges>>
vars == <<tuples, walkVars, stable, ever, writes>>

(* A call of resolve: its node and the subjects it has yet to look at, or  *)
(* the one it is looking at below.                                         *)
Frame == [node : Node, todo : SUBSET Subject]

TypeOK ==
  /\ tuples \subseteq Tuple
  /\ pc \in [Walker -> {"idle", "walk", "allowed", "denied"}]
  /\ root \in [Walker -> Node \cup {None}]
  /\ person \in [Walker -> Person \cup {None}]
  /\ stack \in [Walker -> Seq(Frame)]
  /\ visited \in [Walker -> SUBSET Node]
  /\ edges \in [Walker -> SUBSET Tuple]
  /\ stable \in [Walker -> SUBSET Tuple]
  /\ ever \in [Walker -> SUBSET Tuple]
  /\ writes \in 0..MaxWrites

Init ==
  /\ tuples \in SUBSET Tuple
  /\ pc = [w \in Walker |-> "idle"]
  /\ root = [w \in Walker |-> None]
  /\ person = [w \in Walker |-> None]
  /\ stack = [w \in Walker |-> <<>>]
  /\ visited = [w \in Walker |-> {}]
  /\ edges = [w \in Walker |-> {}]
  /\ stable = [w \in Walker |-> {}]
  /\ ever = [w \in Walker |-> {}]
  /\ writes = 0

-----------------------------------------------------------------------------
(* tupleFetcher, FetchSubjects.                                            *)
Fetch(n) == {s \in Subject : <<n, s>> \in tuples}
Fetched(n) == [node |-> n, todo |-> Fetch(n)]

Walking == {w \in Walker : pc[w] = "walk"}

(* Check and CheckExplain (p is a person), Expand (p is None): the first   *)
(* call, at depth 0.  Walks share nothing, so a walker is asked once.      *)
Ask(w, n, p) ==
  /\ pc[w] = "idle"
  /\ pc' = [pc EXCEPT ![w] = "walk"]
  /\ root' = [root EXCEPT ![w] = n]
  /\ person' = [person EXCEPT ![w] = p]
  /\ stack' = [stack EXCEPT ![w] = <<Fetched(n)>>]
  /\ visited' = [visited EXCEPT ![w] = {n}]
  /\ edges' = [edges EXCEPT ![w] = IF p = None THEN {n} \X Fetch(n) ELSE {}]
  /\ stable' = [stable EXCEPT ![w] = tuples]
  /\ ever' = [ever EXCEPT ![w] = tuples]
  /\ UNCHANGED <<tuples, writes>>

Top(w) == stack[w][Len(stack[w])]

(* The calls with s taken off the innermost list.                          *)
Taken(w, s) == [stack[w] EXCEPT ![Len(stack[w])].todo = @ \ {s}]

(* A call for s one level down would come back empty-handed at once.       *)
(* Mutant: the deepest level is not entered.                               *)
CutOffEarly(w, s) == Len(stack[w]) >= MaxDepth \/ s \in visited[w]

CutOff(w, s) == Len(stack[w]) > MaxDepth \/ s \in visited[w]

(* A direct subject: the person asked about, or nobody of interest.        *)
LookAtPerson(w, s) ==
  /\ pc[w] = "walk" /\ stack[w] # <<>> /\ s \in Person \cap Top(w).todo
  /\ IF s = person[w]
       THEN pc' = [pc EXCEPT ![w] = "allowed"] /\ UNCHANGED stack
       ELSE stack' = [stack EXCEPT ![w] = Taken(w, s)] /\ UNCHANGED pc
  /\ UNCHANGED <<tuples, root, person, visited, edges, stable, ever, writes>>

(* A userset: one level down, unless it was visited or is too deep.        *)
Descend(w, s) ==
  /\ pc[w] = "walk" /\ stack[w] # <<>> /\ s \in Node \cap Top(w).todo
  /\ IF CutOff(w, s)
       THEN stack' = [stack EXCEPT ![w] = Taken(w, s)] /\ UNCHANGED <<visited, edges>>
       ELSE /\ stack' = [stack EXCEPT ![w] = Append(Taken(w, s), Fetched(s))]
            /\ visited' = [visited EXCEPT ![w] = @ \cup {s}]
            /\ edges' = [edges EXCEPT ![w] = @ \cup
                 (IF person[w] = None THEN {s} \X Fetch(s) ELSE {})]
  /\ UNCHANGED <<tuples, pc, root, person, stable, ever, writes>>

(* The innermost call has no subject left.                                 *)
Return(w) ==
  /\ pc[w] = "walk" /\ stack[w] # <<>> /\ Top(w).todo = {}
  /\ stack' = [stack EXCEPT ![w] = SubSeq(@, 1, Len(@) - 1)]
  /\ pc' = [pc EXCEPT ![w] = IF Len(stack[w]) = 1 THEN "denied" ELSE @]
  /\ UNCHANGED <<tuples, root, person, visited, edges, stable, ever, writes>>

(* The SELECT of a call fails and the request is answered with an error.   *)
FetchFails(w) ==
  /\ pc[w] = "walk" /\ stack[w] # <<>>
  /\ \E s \in Node \cap Top(w).todo : ~CutOff(w, s)
  /\ pc' = [pc EXCEPT ![w] = "idle"]
  /\ root' = [root EXCEPT ![w] = None]
  /\ person' = [person EXCEPT ![w] = None]
  /\ stack' = [stack EXCEPT ![w] = <<>>]
  /\ visited' = [visited EXCEPT ![w] = {}]
  /\ edges' = [edges EXCEPT ![w] = {}]
  /\ stable' = [stable EXCEPT ![w] = {}]
  /\ ever' = [ever EXCEPT ![w] = {}]
  /\ UNCHANGED <<tuples, writes>>

(* Write: an upsert of the tuple.                                          *)
Write(t) ==
  /\ writes < MaxWrites
  /\ tuples' = tuples \cup {t}
  /\ ever' = [w \in Walker |-> IF w \in Walking THEN ever[w] \cup {t} ELSE ever[w]]
  /\ writes' = writes + 1
  /\ UNCHANGED <<walkVars, stable>>

(* Delete, of a tuple that is stored.                                      *)
Delete(t) ==
  /\ writes < MaxWrites
  /\ t \in tuples
  /\ tuples' = tuples \ {t}
  /\ stable' = [w \in Walker |-> IF w \in Walking THEN stable[w] \ {t} ELSE stable[w]]
  /\ writes' = writes + 1
  /\ UNCHANGED <<walkVars, ever>>

Next ==
  \/ \E w \in Walker :
       \/ \E n \in Node, p \in Person \cup {None} : Ask(w, n, p)
       \/ \E s \in Person : LookAtPerson(w, s)
       \/ \E s \in Node : Descend(w, s)
       \/ Return(w) \/ FetchFails(w)
  \/ \E t \in Tuple : Write(t) \/ Delete(t)

Spec == Init /\ [][Next]_vars

-----------------------------------------------------------------------------
(* What the package says a tuple means: n is reached from r when every set *)
(* of nodes that holds r and the usersets of its nodes holds n.            *)
Closed(T, S) == \A n \in S, m \in Node : <<n, m>> \in T => m \in S
Reach(T, r) == {n \in Node : \A S \in SUBSET Node : r \in S /\ Closed(T, S) => n \in S}
Holds(T, r, p) == \E n \in Reach(T, r) : <<n, p>> \in T
GraphOf(T, r) == {t \in T : t[1] \in Reach(T, r)}

(* No chain of usersets is longer than the cap, maxDepth.                  *)
WithinCap == Cardinality(Node) <= MaxDepth + 1

(* Whatever is written while a check or an expansion walks from SELECT to  *)
(* SELECT, its answer lies between two tables: it has what was granted by  *)
(* tuples that were there all the time, and nothing that the tuples seen   *)
(* at any time would not grant.  With no write in between the answer is    *)
(* exact.  resolve and expand, rebac.go:97 and rebac.go:325.               *)
AnswerIsBracketed ==
  WithinCap => \A w \in Walker :
    /\ pc[w] = "allowed" => Holds(ever[w], root[w], person[w])
    /\ pc[w] = "denied" /\ person[w] # None => ~Holds(stable[w], root[w], person[w])
    /\ pc[w] = "denied" /\ person[w] = None =>
         /\ GraphOf(stable[w], root[w]) \subseteq edges[w]
         /\ edges[w] \subseteq GraphOf(ever[w], root[w])

=============================================================================
