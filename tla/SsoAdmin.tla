------------------------------ MODULE SsoAdmin ------------------------------
(***************************************************************************)
(* Who may change a tenant's single sign-on, and what is told of it: SAML  *)
(* connections, the registry of service providers Qeet ID asserts to, SCIM *)
(* bearer tokens, and the portal links by which a tenant's administrator   *)
(* lets someone without an account change the first and the third.         *)
(*                                                                         *)
(* Every change is a transaction of two statements: the row, which stays   *)
(* locked, then its audit record.  When the second fails the first is      *)
(* rolled back.  A link or a token is looked up before, on its own.        *)
(***************************************************************************)
EXTENDS Naturals, FiniteSets

CONSTANTS Tenant,
          Conn,      \* ids of tenant.saml_connections
          Provider,  \* ids of tenant.saml_service_providers
          Token,     \* tenants that may have a row in tenant.scim_tokens
          Link,      \* ids of tenant.admin_portal_links
          User, HomeOf,   \* whom a service provider may be told about
          Status,    \* of the first two; all but "disabled" are served
          Request,
          None

Capability == {"saml", "scim"}

VARIABLES
  conn, provider, link, token,   \* the rows, None when there is none
  due,       \* links past expires_at
  told,      \* the last audit record of each row
  req,       \* what each handler is doing
  asserted   \* history: the assertions handed out

rows == <<conn, provider, link, token>>
vars == <<rows, due, told, req, asserted>>

Row == [tenant : Tenant, status : Status]
LinkRow == [tenant : Tenant, caps : SUBSET Capability, revoked : BOOLEAN]

(* What a record says: whose row it is and what was done; of a change, the *)
(* status it has, and of a new link, what it is for.  A new connection's   *)
(* name and identifier are told too, its status is not.                    *)
Record == [tenant : Tenant, action : {"created", "updated", "deleted"},
           status : Status \cup {None}, caps : SUBSET Capability]
Created(t, caps) == [tenant |-> t, action |-> "created", status |-> None, caps |-> caps]
Updated(t, st) == [tenant |-> t, action |-> "updated", status |-> st, caps |-> {}]
Removed(t) == [tenant |-> t, action |-> "deleted", status |-> None, caps |-> {}]
Kinds == {"conn", "provider", "link", "token"}
Idle == [at |-> "idle"]

SsoInit ==
  /\ conn = [c \in Conn |-> None]
  /\ provider = [p \in Provider |-> None]
  /\ link = [l \in Link |-> None]
  /\ token = [t \in Token |-> None]
  /\ due = {}
  /\ told = [k \in Kinds |-> CASE k = "conn" -> [c \in Conn |-> None]
                               [] k = "provider" -> [p \in Provider |-> None]
                               [] k = "link" -> [l \in Link |-> None]
                               [] k = "token" -> [t \in Token |-> None]]
  /\ req = [r \in Request |-> Idle]
  /\ asserted = {}

SsoTypeOK ==
  /\ conn \in [Conn -> Row \cup {None}]
  /\ provider \in [Provider -> Row \cup {None}]
  /\ link \in [Link -> LinkRow \cup {None}]
  /\ token \in [Token -> {None, "set"}]
  /\ due \subseteq Link
  /\ \A r \in Request : req[r].at \in {"idle", "portal", "tx", "sso"}
  /\ asserted \subseteq [user : User, to : Provider]

Becomes(r, w) == req' = [req EXCEPT ![r] = w]
Stored == [conn |-> conn, provider |-> provider, link |-> link, token |-> token]

-----------------------------------------------------------------------------
(* Transactions.  A changed row is locked until the end.                   *)
RowFree(k, x) == \A r \in Request : req[r].at = "tx" => <<req[r].kind, req[r].id>> # <<k, x>>

Write(k, x, v) ==
  /\ conn' = IF k = "conn" THEN [conn EXCEPT ![x] = v] ELSE conn
  /\ provider' = IF k = "provider" THEN [provider EXCEPT ![x] = v] ELSE provider
  /\ link' = IF k = "link" THEN [link EXCEPT ![x] = v] ELSE link
  /\ token' = IF k = "token" THEN [token EXCEPT ![x] = v] ELSE token

(* Mutant: the statement runs outside the transaction of the record.       *)
StatementAlone(r, k, x, v, tells, by) ==
  /\ RowFree(k, x)
  /\ Becomes(r, [at |-> "tx", kind |-> k, id |-> x, new |-> v, tells |-> tells, by |-> by])
  /\ Write(k, x, v)
  /\ UNCHANGED <<due, told, asserted>>

Statement(r, k, x, v, tells, by) ==
  /\ RowFree(k, x)
  /\ Becomes(r, [at |-> "tx", kind |-> k, id |-> x, new |-> v, tells |-> tells, by |-> by])
  /\ UNCHANGED <<rows, due, told, asserted>>

RecordAudit(r) ==
  /\ req[r].at = "tx"
  /\ Write(req[r].kind, req[r].id, req[r].new)
  /\ told' = [told EXCEPT ![req[r].kind][req[r].id] = req[r].tells]
  /\ Becomes(r, Idle)
  /\ UNCHANGED <<due, asserted>>

Rollback(r) ==
  /\ req[r].at # "idle"
  /\ Becomes(r, Idle)
  /\ UNCHANGED <<rows, due, told, asserted>>

-----------------------------------------------------------------------------
(* An administrator of tenant t, over the authenticated API.               *)
GenerateLink(r, t, l, caps) ==
  /\ req[r] = Idle /\ told.link[l] = None /\ caps # {}
  /\ Statement(r, "link", l, [tenant |-> t, caps |-> caps, revoked |-> FALSE],
               Created(t, caps), None)

RevokeLink(r, t, l) ==
  /\ req[r] = Idle /\ link[l] # None /\ link[l].tenant = t /\ ~link[l].revoked
  /\ Statement(r, "link", l, [link[l] EXCEPT !.revoked = TRUE], Removed(t), None)

CreateConnection(r, t, c, st, by) ==
  /\ told.conn[c] = None
  /\ Statement(r, "conn", c, [tenant |-> t, status |-> st], Created(t, {}), by)

OfTenant(t, row) == row # None /\ row.tenant = t

UpdateConnection(r, t, c, st, by) ==
  /\ OfTenant(t, conn[c])
  /\ Statement(r, "conn", c, [conn[c] EXCEPT !.status = st], Updated(t, st), by)

DeleteConnection(r, t, c, by) ==
  /\ OfTenant(t, conn[c])
  /\ Statement(r, "conn", c, None, Removed(t), by)

InsertSamlSP(r, t, p, st) ==
  Statement(r, "provider", p, [tenant |-> t, status |-> st], Created(t, {}), None)

CreateSP(r, t, p, st) ==
  /\ req[r] = Idle /\ told.provider[p] = None
  /\ InsertSamlSP(r, t, p, st)

(* What is not given stays.                                                *)
UpdateSamlSP(r, t, p, st) ==
  Statement(r, "provider", p, [provider[p] EXCEPT !.status = st], Updated(t, st), None)

UpdateSP(r, t, p, st) ==
  /\ req[r] = Idle /\ OfTenant(t, provider[p])
  /\ UpdateSamlSP(r, t, p, st)

DeleteSP(r, t, p) ==
  /\ req[r] = Idle /\ OfTenant(t, provider[p])
  /\ Statement(r, "provider", p, None, Removed(t), None)

RotateToken(r, t, by) ==
  /\ t \in Token
  /\ Statement(r, "token", t, "set", Created(t, {}), by)

RevokeToken(r, t, by) ==
  /\ t \in Token /\ token[t] # None
  /\ Statement(r, "token", t, None, Removed(t), by)

-----------------------------------------------------------------------------
(* The holder of a link.  The statement that finds it does not lock it.    *)
(* Mutant: the capability is not asked for.                                *)
HasAny(l, cap) == TRUE
Has(l, cap) == cap \in link[l].caps

Resolve(r, l, cap) ==
  /\ req[r] = Idle
  /\ link[l] # None /\ ~link[l].revoked /\ l \notin due
  /\ Has(l, cap)
  /\ Becomes(r, [at |-> "portal", cap |-> cap, link |-> l, tenant |-> link[l].tenant])
  /\ UNCHANGED <<rows, due, told, asserted>>

By(r, cap) == req[r].at = "portal" /\ req[r].cap = cap
Me(r) == [link |-> req[r].link, tenant |-> req[r].tenant]

PortalCreate(r, c, st) == By(r, "saml") /\ CreateConnection(r, req[r].tenant, c, st, Me(r))
PortalUpdate(r, c, st) == By(r, "saml") /\ UpdateConnection(r, req[r].tenant, c, st, Me(r))
PortalDelete(r, c) == By(r, "saml") /\ DeleteConnection(r, req[r].tenant, c, Me(r))
PortalRotate(r) == By(r, "scim") /\ RotateToken(r, req[r].tenant, Me(r))
PortalRevoke(r) == By(r, "scim") /\ RevokeToken(r, req[r].tenant, Me(r))

Lapse(l) ==
  /\ link[l] # None /\ l \notin due
  /\ due' = due \cup {l}
  /\ UNCHANGED <<rows, told, req, asserted>>

-----------------------------------------------------------------------------
(* The single sign-on endpoint: the provider is read, then the user.       *)
GetSamlSPByEntityID == {p \in Provider : provider[p] # None}

LookupSP(r, p) ==
  /\ req[r] = Idle
  /\ p \in GetSamlSPByEntityID /\ provider[p].status # "disabled"
  /\ Becomes(r, [at |-> "sso", id |-> p, tenant |-> provider[p].tenant])
  /\ UNCHANGED <<rows, due, told, asserted>>

(* A user of another tenant is refused.  That an assertion was issued is   *)
(* recorded in a transaction of its own, whose failure is only logged.     *)
IdpSSO(r, u) ==
  /\ req[r].at = "sso" /\ HomeOf[u] = req[r].tenant
  /\ asserted' = asserted \cup {[user |-> u, to |-> req[r].id]}
  /\ Becomes(r, Idle)
  /\ UNCHANGED <<rows, due, told>>

-----------------------------------------------------------------------------
AdminNext ==
  \E r \in Request, t \in Tenant :
    \/ \E l \in Link : RevokeLink(r, t, l) \/ \E caps \in SUBSET Capability : GenerateLink(r, t, l, caps)
    \/ \E c \in Conn : req[r] = Idle /\
         \/ \E st \in Status : CreateConnection(r, t, c, st, None) \/ UpdateConnection(r, t, c, st, None)
         \/ DeleteConnection(r, t, c, None)
    \/ \E p \in Provider : DeleteSP(r, t, p)
         \/ \E st \in Status : CreateSP(r, t, p, st) \/ UpdateSP(r, t, p, st)
    \/ req[r] = Idle /\ (RotateToken(r, t, None) \/ RevokeToken(r, t, None))

PortalNext ==
  \E r \in Request :
    \/ \E l \in Link, cap \in Capability : Resolve(r, l, cap)
    \/ \E c \in Conn : PortalDelete(r, c)
         \/ \E st \in Status : PortalCreate(r, c, st) \/ PortalUpdate(r, c, st)
    \/ PortalRotate(r) \/ PortalRevoke(r)

SsoNext ==
  \/ AdminNext \/ PortalNext
  \/ \E r \in Request :
       \/ RecordAudit(r) \/ Rollback(r)
       \/ \E p \in Provider : LookupSP(r, p)
       \/ \E u \in User : IdpSSO(r, u)
  \/ \E l \in Link : Lapse(l)

-----------------------------------------------------------------------------
(* The last record of a row, if there is one, is in the log of the row's  *)
(* tenant, says whether the row is there and in force, and the status it   *)
(* gives, or what a link is for, is the row's.                             *)
Withdrawn(k, row) == row = None \/ (k = "link" /\ row.revoked)

Agrees(k, record, row) ==
  /\ record = None => row = None
  /\ record # None =>
       /\ Withdrawn(k, row) <=> record.action = "deleted"
       /\ row # None /\ k # "token" => row.tenant = record.tenant
       /\ row # None /\ record.action = "updated" => row.status = record.status
       /\ k = "link" /\ record.action = "created" => row.caps = record.caps

(* audit.go: a change and its record commit together.  Whatever order      *)
(* administrators and link holders change a row in, and whichever of their *)
(* statements fails, the last audit record does not belie the row.         *)
AuditTellsTheState ==
  \A k \in Kinds : \A x \in DOMAIN told[k] : Agrees(k, told[k][x], Stored[k][x])

(* A link changes the connections or the token of its own tenant, and only *)
(* those it has the capability for; a user is asserted only to providers   *)
(* registered by the user's own tenant.                                    *)
DelegatesStayHome ==
  /\ \A r \in Request : req[r].at = "tx" /\ req[r].by # None =>
       LET l == link[req[r].by.link] IN
       \/ /\ req[r].kind = "conn" /\ "saml" \in l.caps
          /\ \A row \in {conn[req[r].id], req[r].new} \ {None} : row.tenant = l.tenant
       \/ req[r].kind = "token" /\ "scim" \in l.caps /\ req[r].id = l.tenant
  /\ \A s \in asserted : provider[s.to] # None => provider[s.to].tenant = HomeOf[s.user]
=============================================================================
