----------------------------- MODULE Evidence ------------------------------
(***************************************************************************)
(* The compliance evidence of a tenant (internal/operations/gdpr/          *)
(* evidence.go): a run asks the live tables one query after the other,     *)
(* outside any transaction, while administrators change them, judges each  *)
(* control of the framework's catalog by the answers, and stores the       *)
(* verdicts together with an audit record.                                 *)
(***************************************************************************)
EXTENDS Naturals, Sequences, FiniteSets

CONSTANTS Framework,     \* the frameworks run, of "soc2" and "iso27001"
          BreachEnabled, \* whether the platform checks passwords for breaches
          MaxChanges,    \* bound: changes of the tables during a run
          MaxFaults,     \* bound: queries of a run that fail
          None           \* no row, a count of zero, no answer yet

(* What a run asks for, by the query; a control asks at most two.          *)
Query == {"mfa", "length", "complexity", "session", "risk", "roles", "assignments",
          "retention", "enforced", "rules", "secrets", "chain", "events",
          "sinks", "webhooks", "purges", "exports"}

(* "weak": a row that does not satisfy the control, a chain that is broken.*)
Weakly == {"mfa", "length", "complexity", "session", "retention", "enforced", "chain"}

VARIABLES
  table,     \* what each query would be answered now
  framework, \* of the run, None if none is under way
  next,      \* number of the control that is being checked
  first,     \* the answer to its first query, if it has two
  verdict,   \* the controls checked
  good,      \* queries whose answer was good at a moment of the run
  bad,       \* queries whose answer was not
  unheard,   \* queries that failed
  stored,    \* the last stored run: its verdicts and what was true meanwhile
  changes, faults

vars == <<table, framework, next, first, verdict, good, bad, unheard, stored, changes, faults>>
runVars == <<framework, next, first, verdict, unheard>>

Status == {"pass", "fail", "na"}

(* The rows of security_policies and of auth_policy answer two queries.    *)
SameRow == {<<"mfa", "session">>, <<"length", "complexity">>}
Tables == {t \in [Query -> {None, "weak", "good"}] :
             /\ \A q \in Query \ Weakly : t[q] # "weak"
             /\ \A p \in SameRow : t[p[1]] = None <=> t[p[2]] = None}

EvidenceTypeOK ==
  /\ table \in Tables
  /\ framework \in Framework \cup {None}
  /\ next \in 0..14
  /\ first \in {None, "none", "weak", "good", "failed"}
  /\ \A c \in DOMAIN verdict : verdict[c] \in Status
  /\ good \cup bad \cup unheard \subseteq Query
  /\ changes \in 0..MaxChanges /\ faults \in 0..MaxFaults

-----------------------------------------------------------------------------
(* The checks, by their answers: "none", "weak", "good" or "failed".       *)

(* A policy that has to be there and to be strict.                         *)
Policy(a) == IF a = "failed" THEN "na" ELSE IF a = "good" THEN "pass" ELSE "fail"

checkMFAEnforcement(a) == Policy(a)
checkPasswordMinLength(a) == Policy(a)
checkPasswordComplexity(a) == Policy(a)
checkSessionTimeout(a) == Policy(a)
checkRetentionPolicy(a) == Policy(a)

(* An error counts as no row.                                              *)
checkBreachedPasswordAndRisk(a) == IF a = "good" \/ BreachEnabled THEN "pass" ELSE "fail"

checkRBACRoles(a) == Policy(a)
checkAuditLogCoverage(a) == Policy(a)

(* What cannot be shown yet is not a failure.                              *)
Shown(a) == IF a = "good" THEN "pass" ELSE "na"

checkRBACAssignments(a) == Shown(a)
checkSecretsEncryption(a) == Shown(a)
checkAuditLogChain(a) == IF a = "weak" THEN "fail" ELSE Shown(a)

(* Mutant: rules are not counted.                                          *)
EnforcementOnly(a, b) == IF a = "good" THEN "pass" ELSE "na"

(* The rules are counted if they are enforced, and an error is a zero.     *)
checkIPAccessRules(a, b) ==
  IF a = "weak" THEN "fail" ELSE IF a = "good" THEN Shown(b) ELSE "na"

(* Errors are zeros for both.                                              *)
checkSIEMForwarding(a, b) == IF "good" \in {a, b} THEN "pass" ELSE "fail"
checkGDPRProcesses(a, b) == IF "good" \in {a, b} THEN "pass" ELSE "na"

(* The catalogs: the queries of their controls, in order.                  *)
soc2Controls == << <<"mfa">>, <<"length">>, <<"complexity">>, <<"session">>, <<"risk">>,
  <<"roles">>, <<"assignments">>, <<"retention">>, <<"enforced", "rules">>, <<"secrets">>,
  <<"chain">>, <<"events">>, <<"sinks", "webhooks">> >>

iso27001Controls == << <<"mfa">>, <<"length">>, <<"complexity">>, <<"roles">>, <<"session">>,
  <<"secrets">>, <<"events">>, <<"chain">>, <<"sinks", "webhooks">>,
  <<"enforced", "rules">>, <<"purges", "exports">>, <<"retention">> >>

Controls(f) == IF f = "soc2" THEN soc2Controls ELSE iso27001Controls

Judge(control, a, b) ==
  CASE control[1] = "mfa" -> checkMFAEnforcement(a)
    [] control[1] = "length" -> checkPasswordMinLength(a)
    [] control[1] = "complexity" -> checkPasswordComplexity(a)
    [] control[1] = "session" -> checkSessionTimeout(a)
    [] control[1] = "risk" -> checkBreachedPasswordAndRisk(a)
    [] control[1] = "roles" -> checkRBACRoles(a)
    [] control[1] = "assignments" -> checkRBACAssignments(a)
    [] control[1] = "retention" -> checkRetentionPolicy(a)
    [] control[1] = "enforced" -> checkIPAccessRules(a, b)
    [] control[1] = "secrets" -> checkSecretsEncryption(a)
    [] control[1] = "chain" -> checkAuditLogChain(a)
    [] control[1] = "events" -> checkAuditLogCoverage(a)
    [] control[1] = "sinks" -> checkSIEMForwarding(a, b)
    [] control[1] = "purges" -> checkGDPRProcesses(a, b)

-----------------------------------------------------------------------------
(* Everything configured, or nothing.                                      *)
EvidenceInit ==
  /\ \E v \in {None, "good"} : table = [q \in Query |-> v]
  /\ framework = None /\ next = 0 /\ first = None
  /\ verdict = <<>> /\ good = {} /\ bad = {} /\ unheard = {}
  /\ stored = None
  /\ changes = 0 /\ faults = 0

Are(value) == {q \in Query : value = (table[q] = "good")}

(* Administrators and the tenant's life change one row or count.           *)
ChangeTable(t) ==
  /\ changes < MaxChanges
  /\ t # table
  /\ table' = t
  /\ changes' = changes + 1
  /\ IF framework = None THEN UNCHANGED <<good, bad>>
     ELSE /\ good' = good \cup {q \in Query : t[q] = "good"}
          /\ bad' = bad \cup {q \in Query : t[q] # "good"}
  /\ UNCHANGED <<runVars, stored, faults>>

(* The queries one change of a row or of a count touches.                  *)
OneRow == {{q} : q \in Query} \cup {{p[1], p[2]} : p \in SameRow}

Begin(f) ==
  /\ framework = None
  /\ framework' = f /\ next' = 1 /\ first' = None /\ verdict' = <<>>
  /\ good' = Are(TRUE) /\ bad' = Are(FALSE) /\ unheard' = {}
  /\ UNCHANGED <<table, stored, changes, faults>>

(* A query is answered or fails.                                           *)
Heard(q) == IF table[q] = None THEN "none" ELSE table[q]

Answers(q, a) ==
  \/ a = Heard(q) /\ UNCHANGED <<unheard, faults>>
  \/ /\ a = "failed" /\ faults < MaxFaults
     /\ faults' = faults + 1
     /\ unheard' = unheard \cup {q}

(* The first query of a control with two; without enforcement the rules    *)
(* are not asked for.                                                      *)
AskFirst(a) ==
  LET control == Controls(framework)[next] IN
  /\ framework # None /\ next <= Len(Controls(framework))
  /\ Len(control) = 2 /\ first = None
  /\ control[1] = "enforced" => a = "good"
  /\ Answers(control[1], a)
  /\ first' = a
  /\ UNCHANGED <<table, framework, next, verdict, good, bad, stored, changes>>

(* The last, and the verdict.                                              *)
Check(a) ==
  LET control == Controls(framework)[next] IN
  /\ framework # None /\ next <= Len(Controls(framework))
  /\ \/ Len(control) = 1 \/ first # None
     \/ control[1] = "enforced" /\ a # "good"
  /\ Answers(control[IF first = None THEN 1 ELSE 2], a)
  /\ verdict' = Append(verdict, IF first = None THEN Judge(control, a, "none")
                                ELSE Judge(control, first, a))
  /\ next' = next + 1 /\ first' = None
  /\ UNCHANGED <<table, framework, good, bad, stored, changes>>

(* The run and its audit record are inserted in one transaction, or not.   *)
Generate(committed) ==
  /\ framework # None /\ next > Len(Controls(framework))
  /\ stored' = IF committed
               THEN [framework |-> framework, verdict |-> verdict,
                     good |-> good, bad |-> bad, unheard |-> unheard]
               ELSE stored
  /\ framework' = None /\ next' = 0 /\ verdict' = <<>>
  /\ good' = {} /\ bad' = {} /\ unheard' = {}
  /\ UNCHANGED <<table, first, changes, faults>>

EvidenceNext ==
  \/ \E f \in Framework : Begin(f)
  \/ \E R \in OneRow : \E v \in [R -> {None, "weak", "good"}] :
       LET t == [q \in Query |-> IF q \in R THEN v[q] ELSE table[q]] IN
       t \in Tables /\ ChangeTable(t)
  \/ \E a \in {"none", "weak", "good", "failed"} : AskFirst(a) \/ Check(a)
  \/ \E committed \in BOOLEAN : Generate(committed)

EvidenceSpec == EvidenceInit /\ [][EvidenceNext]_vars

-----------------------------------------------------------------------------
(* Properties                                                              *)

(* What a control is about: one of these sets of answers has to be good.   *)
Meaning(control) ==
  IF control[1] \in {"sinks", "purges"} THEN {{control[1]}, {control[2]}}
  ELSE {{control[j] : j \in 1..Len(control)}}

(* "Never a fabricated pass": whatever changes or fails during a run, a    *)
(* control passes only if each thing it is about was so at a moment of the *)
(* run, except that the platform's breach check alone satisfies its one.   *)
PassIsConfirmed ==
  stored # None =>
    \A i \in 1..Len(stored.verdict) :
      LET control == Controls(stored.framework)[i] IN
      stored.verdict[i] = "pass" =>
        \/ \E A \in Meaning(control) : A \subseteq stored.good \ stored.unheard
        \/ control[1] = "risk" /\ BreachEnabled

(* A control fails only if what it is about was missing at a moment of the *)
(* run, except the forwarding and the risk control, which take a query     *)
(* that fails for an empty table.                                          *)
FailIsConfirmed ==
  stored # None =>
    \A i \in 1..Len(stored.verdict) :
      LET control == Controls(stored.framework)[i] IN
      stored.verdict[i] = "fail" =>
        \/ \A A \in Meaning(control) : A \cap stored.bad # {}
        \/ /\ control[1] \in {"sinks", "risk"}
           /\ \A A \in Meaning(control) : A \cap (stored.bad \cup stored.unheard) # {}

=============================================================================
