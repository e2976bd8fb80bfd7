------------------------------- MODULE Policies -------------------------------
(***************************************************************************)
(* Attribute based access control: a tenant's policies, each an effect, a  *)
(* target and a tree of conditions over the request's attributes, and the  *)
(* decision made from those that are enabled when the request comes in.    *)
(*                                                                         *)
(* A condition comes out "yes" or "no", as an "error" when an operator is  *)
(* given what it cannot work with, or as a "panic" when two arrays are     *)
(* compared with ==, which ends the request without a decision.            *)
(***************************************************************************)
EXTENDS Naturals, FiniteSets, SequencesExt

CONSTANTS Policy,      \* names of policies, unique in the tenant
          Attr, Value, \* attribute paths, and what they may be compared with
          Pattern,     \* texts that are regular expressions
          Condition,   \* the condition trees of the create and update requests,
                       \* and their parts
          ResourceType, Star, \* resource types of requests, and "*"
          Absent, None

VARIABLE policy        \* auth.abac_policies, None when there is no row

(* A JSON value is a number, a string (a sequence) or an array of those.   *)
Num(n) == [t |-> "num", v |-> <<n>>, of |-> <<>>]
Str(s) == [t |-> "str", v |-> s, of |-> <<>>]
Arr(s) == [t |-> "arr", v |-> <<>>, of |-> s]

(* The shapes a condition may have.                                        *)
Always == [kind |-> "empty"]
Leaf(a, op, v) == [kind |-> "leaf", attr |-> a, op |-> op, value |-> v]
All(s) == [kind |-> "all", of |-> s]
AnyOf(s) == [kind |-> "any", of |-> s]
Not(c) == [kind |-> "not", of |-> <<c>>]

-----------------------------------------------------------------------------
(* Operators of leaves.                                                    *)
YesNo(b) == IF b THEN "yes" ELSE "no"

(* ==, then as numbers, then as texts: the number 1 equals the string "1". *)
Equal(a, b) ==
  IF a.t = "arr" /\ b.t = "arr" THEN "panic" ELSE YesNo(a.t # "arr" /\ b.t # "arr" /\ a.v = b.v)

(* The first element of a sequence of outcomes that is not go on, or last. *)
FirstOther(s, go, last) ==
  LET other == {i \in DOMAIN s : s[i] # go} IN
  IF other = {} THEN last ELSE s[CHOOSE i \in other : \A j \in other : i <= j]

Opposite(x) == IF x = "yes" THEN "no" ELSE IF x = "no" THEN "yes" ELSE x
Member(a, s) == FirstOther([i \in DOMAIN s |-> Equal(a, s[i])], "no", "no")
ArrayHas(a, s) == FirstOther([i \in DOMAIN s |-> Equal(s[i], a)], "no", "no")
Text(a) == IF a.t = "str" THEN a.v ELSE <<>>   \* the zero value of a failed assertion
Numbers(a, b) == a.t = "num" /\ b.t = "num"

Operators == {"eq", "ne", "in", "nin", "contains", "gt", "gte", "lt", "lte",
              "exists", "prefix", "suffix", "regex"}

(* A text that is no regular expression matches nothing, and nobody is     *)
(* told: that is an answer, not an error.  One that is stands for itself.  *)
Matches(pattern, text) == pattern \in Pattern /\ pattern \in SubSeqs(text)

Compare(op, a, b) ==
  CASE op = "eq" -> Equal(a, b)
    [] op = "ne" -> Opposite(Equal(a, b))
    [] op = "in" -> IF b.t = "arr" THEN Member(a, b.of) ELSE "error"
    [] op = "nin" -> IF b.t = "arr" THEN Opposite(Member(a, b.of)) ELSE "error"
    [] op = "contains" -> IF a.t = "arr" THEN ArrayHas(b, a.of)
                          ELSE YesNo(a.t = "str" /\ b.t = "str" /\ b.v \in SubSeqs(a.v))
    [] op = "gt" -> YesNo(Numbers(a, b) /\ a.v[1] > b.v[1])
    [] op = "gte" -> YesNo(Numbers(a, b) /\ a.v[1] >= b.v[1])
    [] op = "lt" -> YesNo(Numbers(a, b) /\ a.v[1] < b.v[1])
    [] op = "lte" -> YesNo(Numbers(a, b) /\ a.v[1] <= b.v[1])
    [] op = "prefix" -> YesNo(IsPrefix(Text(b), Text(a)))
    [] op = "suffix" -> YesNo(IsSuffix(Text(b), Text(a)))
    [] op = "regex" -> YesNo(a.t = "str" /\ b.t = "str" /\ Matches(b.v, a.v))
    [] OTHER -> "error"

(* An attribute the request lacks is in no set, and fails everything else. *)
EvalLeaf(c, bag) ==
  IF c.op = "exists" THEN YesNo(bag[c.attr] # Absent)
  ELSE IF bag[c.attr] = Absent THEN YesNo(c.op = "nin")
  ELSE Compare(c.op, bag[c.attr], c.value)

(* Children are evaluated in order, until one settles the node or fails;   *)
(* what is left last is "any".                                             *)
EvaluateNode(tree, bag) ==
  LET out[c \in Condition] ==
        CASE c.kind = "empty" -> "yes"
          [] c.kind = "leaf" -> EvalLeaf(c, bag)
          [] c.kind = "not" -> Opposite(out[c.of[1]])
          [] c.kind = "all" -> FirstOther([i \in DOMAIN c.of |-> out[c.of[i]]], "yes", "yes")
          [] OTHER -> FirstOther([i \in DOMAIN c.of |-> out[c.of[i]]], "no", "no")
  IN out[tree]

Leaves[c \in Condition] ==
  CASE c.kind = "empty" -> {}
    [] c.kind = "leaf" -> {c}
    [] OTHER -> UNION {Leaves[c.of[i]] : i \in DOMAIN c.of}

ValidateCondition(c) == \A l \in Leaves[c] : l.op \in Operators

-----------------------------------------------------------------------------
(* The table.  Each change is one transaction with its audit record and    *)
(* its event.                                                              *)
Row == [effect : {"allow", "deny"}, target : ResourceType \cup {Star}, cond : Condition, enabled : BOOLEAN]

PoliciesInit == policy = [p \in Policy |-> None]

Create(p, row) ==
  /\ policy[p] = None
  /\ ValidateCondition(row.cond)
  /\ policy' = [policy EXCEPT ![p] = row]

Update(p, row) ==
  /\ policy[p] # None
  /\ ValidateCondition(row.cond)
  /\ policy' = [policy EXCEPT ![p] = row]

Delete(p) ==
  /\ policy[p] # None
  /\ policy' = [policy EXCEPT ![p] = None]

PoliciesNext ==
  \E p \in Policy : Delete(p) \/ \E row \in Row : Create(p, row) \/ Update(p, row)

-----------------------------------------------------------------------------
(* The decision: one statement reads the policies, the rest is arithmetic. *)
Candidates(target) ==
  {p \in Policy : policy[p] # None /\ policy[p].enabled /\ policy[p].target \in {target, Star}}

(* What a policy contributes.  An error counts as a denial.                *)
(* Mutant: a policy that cannot be evaluated is left aside.                *)
SkipErrors(p, bag) ==
  LET x == EvaluateNode(policy[p].cond, bag) IN
  IF x = "yes" THEN policy[p].effect ELSE "none"

Vote(p, bag) ==
  LET x == EvaluateNode(policy[p].cond, bag) IN
  IF x = "yes" THEN policy[p].effect
  ELSE IF x = "error" THEN "deny"
  ELSE IF x = "panic" THEN "panic"
  ELSE "none"

Evaluate(target, bag) ==
  LET votes == {Vote(p, bag) : p \in Candidates(target)} IN
  IF "panic" \in votes THEN "none"
  ELSE IF "deny" \in votes THEN "deny"
  ELSE IF "allow" \in votes THEN "allow"
  ELSE "deny"

-----------------------------------------------------------------------------
(* What the tree says when every leaf has an answer, those in guess yes.   *)
Holds(tree, bag, guess) ==
  LET yes[c \in Condition] ==
        CASE c.kind = "empty" -> TRUE
          [] c.kind = "leaf" -> EvalLeaf(c, bag) = "yes" \/ c \in guess
          [] c.kind = "not" -> ~yes[c.of[1]]
          [] c.kind = "all" -> \A i \in DOMAIN c.of : yes[c.of[i]]
          [] OTHER -> \E i \in DOMAIN c.of : yes[c.of[i]]
  IN yes[tree]

Bags == [Attr -> Value \cup {Absent}]
Broken(bag) ==
  {l \in UNION {Leaves[policy[p].cond] : p \in {q \in Policy : policy[q] # None}} :
     EvalLeaf(l, bag) \in {"error", "panic"}}

(* abac.go: on an error callers must default to deny, and a denial wins.   *)
(* Evaluation stops early, so an error may be met or not.  A request that  *)
(* is allowed has a policy for it and none against it whatever the leaves  *)
(* that cannot be evaluated are taken for.  Those are the leaves that come *)
(* out as an error or a panic: a bad pattern comes out as "no", so this    *)
(* does not say that a denial with a bad pattern is heeded, and it is not. *)
AllowIsCertain ==
  \A bag \in Bags, target \in ResourceType : Evaluate(target, bag) = "allow" =>
    \A guess \in SUBSET Broken(bag) :
      /\ \E p \in Candidates(target) : policy[p].effect = "allow" /\ Holds(policy[p].cond, bag, guess)
      /\ \A p \in Candidates(target) : policy[p].effect = "deny" => ~Holds(policy[p].cond, bag, guess)
=============================================================================
