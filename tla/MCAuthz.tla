------------------------------ MODULE MCAuthz ------------------------------
(* Small instances of Relations, ScimGroups and Roles for TLC.  The three  *)
(* share no state, so a behaviour of all of them is one of each: one run   *)
(* covers who may do what, and lets each part run while the others stand   *)
(* still.                                                                  *)
EXTENDS Roles, TLC

CONSTANTS Node, Person, Walker, MaxDepth, MaxWrites,
          Member, Put, Patch, MaxOps, MaxEdit

ASSUME AuthzAssumption ==
  /\ IsFiniteSet(Node)
  /\ Person \cap Node = {}
  /\ None \notin Person
  /\ MaxDepth \in Nat
  /\ None \notin Put \cup Patch /\ Put \cap Patch = {}

VARIABLES
  part, \* what runs: "relations", "scim" or "roles"
  tuples, pc, root, person, stack, visited, edges, stable, ever, writes,
  group, live, smembers, edits, lock, spc, ops, want, rows, ins, del, skipped, mates

R == INSTANCE Relations

S == INSTANCE ScimGroups WITH User <- Member, members <- smembers, pc <- spc

relationVars == <<tuples, pc, root, person, stack, visited, edges, stable, ever, writes>>
scimVars == <<group, live, smembers, edits, lock, spc, ops, want, rows, ins,
              del, skipped, mates>>
allVars == <<part, vars, relationVars, scimVars>>

(* Nobody is given a relation to itself at first, and nothing is written   *)
(* before the first walk.                                                  *)
RelationsInit ==
  /\ R!Init
  /\ \A n \in Node : <<n, n>> \notin tuples
  /\ part # "relations" => tuples = {}
RelationsNext == R!Next /\ (writes' # writes => R!Walking # {})

(* Two transactions at a time, two PUTs or a PUT and a PATCH; the PATCHes  *)
(* are those PatchIsAsWritten speaks of, and those of one operation that   *)
(* is read as something else.                                              *)
ScimNext ==
  /\ S!Next
  /\ Cardinality({x \in S!Tx : spc'[x] # "idle"}) <= 2
  /\ \A x \in Patch :
       /\ S!OrderDoesNotMatter(ops'[x])
       /\ S!ReadAsNamed(ops'[x]) \/ DOMAIN ops'[x] = {1}

(* What changes no table is left out.                                      *)
tables == <<roleTenant, permissions, userRoles, groupTenant, parent, members, groupRoles>>
RolesNext == Next /\ tables' # tables

AuthzInit ==
  /\ part \in {"relations", "scim", "roles"}
  /\ RelationsInit /\ S!Init /\ Init

AuthzNext ==
  /\ UNCHANGED part
  /\ \/ part = "relations" /\ RelationsNext /\ UNCHANGED <<scimVars, vars>>
     \/ part = "scim" /\ ScimNext /\ UNCHANGED <<vars, relationVars>>
     \/ part = "roles" /\ RolesNext /\ UNCHANGED <<relationVars, scimVars>>

AuthzSpec == AuthzInit /\ [][AuthzNext]_allVars

(* Nodes, members and requests are interchangeable, and so are roles and   *)
(* groups, which borrow the names of members and requests.                 *)
Symmetry == Permutations(Node) \cup Permutations(Member) \cup Permutations(Put)

(* Relations: an answer lies between the tables it was made from.          *)
AnswerIsBracketed == R!AnswerIsBracketed

(* ScimGroups: a PUT leaves exactly the members it names, and a PATCH does *)
(* what its operations do one after the other.                             *)
GroupsEndAsAsked == S!GroupsEndAsAsked

=============================================================================
