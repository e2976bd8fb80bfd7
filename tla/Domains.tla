------------------------------- MODULE Domains -------------------------------
(***************************************************************************)
(* Proof of ownership of an e-mail domain.  A tenant adds the domain, is   *)
(* given a token, and publishes it as a TXT record; Verify reads the row,  *)
(* asks the DNS, and marks the row, three steps with nothing held between. *)
(* Several tenants may claim a domain; whoever owns it decides what is     *)
(* published.                                                              *)
(***************************************************************************)
EXTENDS Naturals, FiniteSets

CONSTANTS Tenant, Domain,
          Row,       \* ids of tenant.domains, never used again; a row's token is as unique
          Request, None

VARIABLES
  row,       \* tenant.domains, None when there is none
  gone,      \* ids of removed rows
  txt,       \* the tokens published under each domain's _qeet-verification name
  req,       \* what each Verify is doing
  shown      \* history: the tokens Verify found under the domain of their row

vars == <<row, gone, txt, req, shown>>

DomainsInit ==
  /\ row = [i \in Row |-> None]
  /\ gone = {}
  /\ txt = [d \in Domain |-> {}]
  /\ req = [r \in Request |-> None]
  /\ shown = {}

DomainsTypeOK ==
  /\ row \in [Row -> [tenant : Tenant, domain : Domain, verified : BOOLEAN] \cup {None}]
  /\ gone \subseteq Row
  /\ txt \in [Domain -> SUBSET Row]
  /\ req \in [Request -> [id : Row, tenant : Tenant, domain : Domain, found : BOOLEAN] \cup {None}]
  /\ shown \subseteq Row

Rows == {i \in Row : row[i] # None}

-----------------------------------------------------------------------------
(* uq_tenant_domain: a tenant lists a domain once.                         *)
Add(t, d, i) ==
  /\ i \notin Rows \cup gone
  /\ \A j \in Rows : row[j].tenant # t \/ row[j].domain # d
  /\ row' = [row EXCEPT ![i] = [tenant |-> t, domain |-> d, verified |-> FALSE]]
  /\ UNCHANGED <<gone, txt, req, shown>>

Remove(t, i) ==
  /\ i \in Rows /\ row[i].tenant = t
  /\ row' = [row EXCEPT ![i] = None]
  /\ gone' = gone \cup {i}
  /\ UNCHANGED <<txt, req, shown>>

(* A verified row is answered from the table; another goes to the DNS.     *)
GetDomainForVerify(r, t, i) ==
  /\ req[r] = None
  /\ i \in Rows /\ row[i].tenant = t /\ ~row[i].verified
  /\ req' = [req EXCEPT ![r] = [id |-> i, tenant |-> t, domain |-> row[i].domain, found |-> FALSE]]
  /\ UNCHANGED <<row, gone, txt, shown>>

LookupTXT(r) ==
  /\ req[r] # None /\ ~req[r].found
  /\ req[r].id \in txt[req[r].domain]
  /\ req' = [req EXCEPT ![r].found = TRUE]
  /\ shown' = shown \cup {req[r].id}
  /\ UNCHANGED <<row, gone, txt>>

(* Not found, an error, a timeout, or a failure later on.                  *)
NotVerified(r) ==
  /\ req[r] # None
  /\ req' = [req EXCEPT ![r] = None]
  /\ UNCHANGED <<row, gone, txt, shown>>

(* Mutant: the tenant's row of that domain is marked, whichever it is now. *)
MarkedByDomain(q) == {i \in Rows : row[i].tenant = q.tenant /\ row[i].domain = q.domain}
Marked(q) == {i \in Rows : i = q.id /\ row[i].tenant = q.tenant}

(* uq_verified_domain.                                                     *)
NobodyVerified(d) == \A i \in Rows : row[i].domain = d => ~row[i].verified

MarkDomainVerified(r) ==
  /\ req[r] # None /\ req[r].found
  /\ Marked(req[r]) # {}
  /\ NobodyVerified(req[r].domain) \/ \A i \in Marked(req[r]) : row[i].verified
  /\ row' = [i \in Row |-> IF i \in Marked(req[r]) THEN [row[i] EXCEPT !.verified = TRUE] ELSE row[i]]
  /\ req' = [req EXCEPT ![r] = None]
  /\ UNCHANGED <<gone, txt, shown>>

(* The owner of a domain publishes and withdraws tokens.                   *)
PublishOrWithdraw(d, i) ==
  /\ i \in Rows \cup gone
  /\ txt' = [txt EXCEPT ![d] = IF i \in @ THEN @ \ {i} ELSE @ \cup {i}]
  /\ UNCHANGED <<row, gone, req, shown>>

DomainsNext ==
  \/ \E t \in Tenant, i \in Row :
       \/ Remove(t, i)
       \/ \E d \in Domain : Add(t, d, i)
       \/ \E r \in Request : GetDomainForVerify(r, t, i)
  \/ \E r \in Request : LookupTXT(r) \/ NotVerified(r) \/ MarkDomainVerified(r)
  \/ \E d \in Domain, i \in Row : PublishOrWithdraw(d, i)

-----------------------------------------------------------------------------
(* domainverify.go: a tenant proves that it owns a domain.  However adding,*)
(* verifying and removing overlap, a verified claim is one whose own token *)
(* the domain's owner published, and a domain has at most one.             *)
VerifiedMeansProven ==
  \A i \in Rows : row[i].verified =>
    /\ i \in shown
    /\ \A j \in Rows : j # i /\ row[j].domain = row[i].domain => ~row[j].verified
=============================================================================
