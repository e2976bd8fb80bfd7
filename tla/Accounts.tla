------------------------------ MODULE Accounts ------------------------------
(***************************************************************************)
(* How accounts come to be, and whose they are: sign-up, registration in a *)
(* tenant, administrators and imports, invitations, and the first sign-in  *)
(* through an outside identity (social, SAML or LDAP), which links it to   *)
(* an account; the recycle bin; and the tenants accounts found and join.   *)
(*                                                                         *)
(* A transaction is one step from its last wait on: a first sign-in reads  *)
(* (LookIdentity), then inserts and links; an acceptance locks the invite  *)
(* (AcceptLock), then inserts.  Inserts of one address wait for one        *)
(* another on the unique index, so the later one sees the earlier row.     *)
(***************************************************************************)
EXTENDS Naturals, Sequences, FiniteSets

CONSTANTS User,      \* ids of "user".users rows
          Addr,      \* e-mail addresses
          Tenant,    \* ids of tenant.tenants rows
          Subject,   \* outside accounts: a tenant, a provider and a subject
          Of,        \* the tenant of each
          Invite,    \* ids of tenant.invites rows
          Request,   \* handlers
          Batch,     \* files an administrator may import: sequences of Addr
          None       \* SQL NULL / no row

VARIABLES
  user,      \* the users rows, None before the insert
  founded,   \* the tenants there are
  link,      \* external_identities: the account of each subject
  split,     \* history: subjects two of whose first sign-ins overlapped with
             \* different addresses
  invite,    \* tenant.invites, None when there is no row
  req,       \* what each handler is doing
  made       \* history: pairs of an invite and the account made from it

vars == <<user, founded, link, split, invite, req, made>>

UserRow == [addr : Addr, home : Tenant \cup {None}, life : {"live", "deleted", "purged"}]
InviteRow == [addr : Addr, due : BOOLEAN,
              status : {"pending", "accepted", "revoked", "expired"}]
Idle == [at |-> "idle"]

AccountsInit ==
  /\ user = [u \in User |-> None]
  /\ founded \in SUBSET Tenant
  /\ link = [s \in Subject |-> None]
  /\ split = {}
  /\ invite = [v \in Invite |-> None]
  /\ req = [r \in Request |-> Idle]
  /\ made = {}

AccountsTypeOK ==
  /\ user \in [User -> UserRow \cup {None}]
  /\ founded \subseteq Tenant
  /\ link \in [Subject -> User \cup {None}]
  /\ split \subseteq Subject
  /\ invite \in [Invite -> InviteRow \cup {None}]
  /\ \A r \in Request : req[r].at \in {"idle", "link", "signedin", "import", "accept"}
  /\ made \subseteq Invite \X User

-----------------------------------------------------------------------------
(* Queries.                                                                *)
Is(u, life) == user[u] # None /\ user[u].life = life

LiveWith(a) == {u \in User : Is(u, "live") /\ user[u].addr = a}

(* The unique index on LOWER(email) of the rows that are not deleted.      *)
Taken(a) == LiveWith(a) # {}

Row(a, t) == [addr |-> a, home |-> t, life |-> "live"]

Insert(u, a, t) ==
  /\ user[u] = None
  /\ ~Taken(a)
  /\ user' = [user EXCEPT ![u] = Row(a, t)]

(* ON CONFLICT (tenant_id, provider, subject) DO NOTHING.                  *)
LinkIdentity(s, u) == link' = [link EXCEPT ![s] = IF @ = None THEN u ELSE @]

Becomes(r, w) == req' = [req EXCEPT ![r] = w]

-----------------------------------------------------------------------------
(* Sign-in through an outside identity.  Social, SAML and LDAP run the     *)
(* same transaction.  Mutant: the address is looked up before the link.    *)
FoundByAddressFirst(s, a) == IF Taken(a) THEN LiveWith(a) ELSE {link[s]} \ {None}

(* The account a link names is taken as it is, deleted or not; else one    *)
(* with the address is looked for.                                         *)
Found(s, a) == IF link[s] # None THEN {link[s]} ELSE LiveWith(a)

(* First sign-ins of a subject on their way with other addresses than a.   *)
Disagreeing(s, a) ==
  {r \in Request : req[r].at = "link" /\ req[r].id = s /\ req[r].addr # a}

(* The address is the one the provider gave before the transaction began:  *)
(* any, as it may change there at any time.                                *)
LookIdentity(r, s, a) ==
  /\ req[r] = Idle
  /\ Of[s] \in founded
  /\ \E u \in IF Found(s, a) = {} THEN {None} ELSE Found(s, a) :
       Becomes(r, IF link[s] # None THEN [at |-> "signedin", id |-> s, user |-> u]
                  ELSE [at |-> "link", id |-> s, addr |-> a, user |-> u])
  /\ split' = IF link[s] = None /\ Disagreeing(s, a) # {} THEN split \cup {s} ELSE split
  /\ UNCHANGED <<user, founded, link, invite, made>>

(* An account was found by its address: link it.  The foreign key refuses  *)
(* one purged since.                                                       *)
LinkFound(r) ==
  /\ req[r].at = "link" /\ req[r].user # None
  /\ ~Is(req[r].user, "purged")
  /\ LinkIdentity(req[r].id, req[r].user)
  /\ Becomes(r, [at |-> "signedin", id |-> req[r].id, user |-> req[r].user])
  /\ UNCHANGED <<user, founded, split, invite, made>>

(* None was found: make one.  A second insert of the address is refused.   *)
LinkNew(r, u) ==
  /\ req[r].at = "link" /\ req[r].user = None
  /\ Insert(u, req[r].addr, Of[req[r].id])
  /\ LinkIdentity(req[r].id, u)
  /\ Becomes(r, [at |-> "signedin", id |-> req[r].id, user |-> u])
  /\ UNCHANGED <<founded, split, invite, made>>

(* A session ends, a statement fails, or the browser never comes back.     *)
Leave(r) ==
  /\ req[r] # Idle
  /\ Becomes(r, Idle)
  /\ UNCHANGED <<user, founded, link, split, invite, made>>

SignedInBy(s) == {r \in Request : req[r].at = "signedin" /\ req[r].id = s}

(* The next sign-in starts over; the sessions of before are not followed   *)
(* any further.                                                            *)
Unlink(s) ==
  /\ link[s] # None
  /\ link' = [link EXCEPT ![s] = None]
  /\ req' = [r \in Request |-> IF r \in SignedInBy(s) THEN Idle ELSE req[r]]
  /\ UNCHANGED <<user, founded, split, invite, made>>

-----------------------------------------------------------------------------
(* Accounts made without an outside identity.                              *)
Signup(u, a) ==
  /\ Insert(u, a, None)
  /\ UNCHANGED <<founded, link, split, invite, req, made>>

RegisterInTenant(u, a, t) ==
  /\ Insert(u, a, t)
  /\ UNCHANGED <<founded, link, split, invite, req, made>>

CreateUser(u, a, t) ==
  /\ Insert(u, a, t)
  /\ UNCHANGED <<founded, link, split, invite, req, made>>

(* An import makes its rows one by one and goes on past those refused.     *)
BulkCreate(r, b, t) ==
  /\ req[r] = Idle /\ t \in founded
  /\ Becomes(r, [at |-> "import", rows |-> b, tenant |-> t])
  /\ UNCHANGED <<user, founded, link, split, invite, made>>

ImportRow(r) ==
  /\ req[r].at = "import" /\ req[r].rows # <<>>
  /\ LET a == Head(req[r].rows) IN
       \/ \E u \in User : Insert(u, a, req[r].tenant)
       \/ Taken(a) /\ UNCHANGED user
  /\ Becomes(r, IF Len(req[r].rows) = 1 THEN Idle ELSE [req[r] EXCEPT !.rows = Tail(@)])
  /\ UNCHANGED <<founded, link, split, invite, made>>

-----------------------------------------------------------------------------
(* Invitations.                                                            *)
CreateInvite(v, a) ==
  /\ invite[v] = None
  /\ invite' = [invite EXCEPT ![v] = [addr |-> a, due |-> FALSE, status |-> "pending"]]
  /\ UNCHANGED <<user, founded, link, split, req, made>>

Accepting(v) == {r \in Request : req[r].at = "accept" /\ req[r].invite = v}

Pending(v) == invite[v] # None /\ invite[v].status = "pending"

RevokeInvite(v) ==
  /\ Pending(v) /\ Accepting(v) = {}
  /\ invite' = [invite EXCEPT ![v].status = "revoked"]
  /\ UNCHANGED <<user, founded, link, split, req, made>>

(* Mutant: the invite is read without FOR UPDATE.                          *)
LockedByNobody(v) == FALSE

(* The row lock of SELECT ... FOR UPDATE, held to the end of Accept.       *)
LockedByOther(v) == Accepting(v) # {}

AcceptLock(r, v) ==
  /\ req[r] = Idle
  /\ Pending(v) /\ ~LockedByOther(v)
  /\ Becomes(r, [at |-> "accept", invite |-> v])
  /\ UNCHANGED <<user, founded, link, split, invite, made>>

AcceptExpired(r) ==
  /\ req[r].at = "accept" /\ invite[req[r].invite].due
  /\ invite' = [invite EXCEPT ![req[r].invite].status = "expired"]
  /\ Becomes(r, Idle)
  /\ UNCHANGED <<user, founded, link, split, made>>

(* The account, its password, its role and the invite's status in one      *)
(* transaction.  When the address is taken the insert fails (Leave).       *)
Accept(r, u, t) ==
  /\ req[r].at = "accept" /\ ~invite[req[r].invite].due
  /\ Insert(u, invite[req[r].invite].addr, t)
  /\ invite' = [invite EXCEPT ![req[r].invite].status = "accepted"]
  /\ made' = made \cup {<<req[r].invite, u>>}
  /\ Becomes(r, Idle)
  /\ UNCHANGED <<founded, link, split>>

Lapse(v) ==
  /\ invite[v] # None
  /\ invite' = [invite EXCEPT ![v].due = TRUE]
  /\ UNCHANGED <<user, founded, link, split, req, made>>

-----------------------------------------------------------------------------
(* The recycle bin; administrators reach accounts of their tenant only.    *)
Delete(u) ==
  /\ Is(u, "live") /\ user[u].home # None
  /\ user' = [user EXCEPT ![u].life = "deleted"]
  /\ UNCHANGED <<founded, link, split, invite, req, made>>

Restore(u) ==
  /\ Is(u, "deleted")
  /\ ~Taken(user[u].addr)
  /\ user' = [user EXCEPT ![u].life = "live"]
  /\ UNCHANGED <<founded, link, split, invite, req, made>>

(* The row and, by ON DELETE CASCADE, its links and one-time codes.        *)
Purge(u) ==
  /\ Is(u, "deleted")
  /\ user' = [user EXCEPT ![u].life = "purged"]
  /\ link' = [s \in Subject |-> IF link[s] = u THEN None ELSE link[s]]
  /\ req' = [r \in Request |->
               IF \E s \in Subject : r \in SignedInBy(s) /\ u \in {link[s], req[r].user}
               THEN Idle ELSE req[r]]
  /\ UNCHANGED <<founded, split, invite, made>>

(* The founder becomes the owner, and the tenant his home if he has none.  *)
CreateWithOwner(u, t) ==
  /\ Is(u, "live")
  /\ t \notin founded
  /\ founded' = founded \cup {t}
  /\ user' = [user EXCEPT ![u].home = IF @ = None THEN t ELSE @]
  /\ UNCHANGED <<link, split, invite, req, made>>

-----------------------------------------------------------------------------
SignInNext ==
  \/ \E r \in Request :
       \/ \E s \in Subject, a \in Addr : LookIdentity(r, s, a)
       \/ LinkFound(r)
       \/ \E u \in User : LinkNew(r, u)
       \/ Leave(r)
  \/ \E s \in Subject : Unlink(s)

CreateNext ==
  \/ \E u \in User, a \in Addr :
       \/ Signup(u, a)
       \/ \E t \in founded : RegisterInTenant(u, a, t) \/ CreateUser(u, a, t)
  \/ \E r \in Request :
       \/ \E b \in Batch, t \in Tenant : BulkCreate(r, b, t)
       \/ ImportRow(r)

InviteNext ==
  \/ \E v \in Invite, a \in Addr : founded # {} /\ CreateInvite(v, a)
  \/ \E v \in Invite : RevokeInvite(v) \/ Lapse(v)
  \/ \E r \in Request :
       \/ \E v \in Invite : AcceptLock(r, v)
       \/ AcceptExpired(r)
       \/ \E u \in User, t \in founded : Accept(r, u, t)

AdminNext ==
  \/ \E u \in User : Delete(u) \/ Restore(u) \/ Purge(u)
  \/ \E u \in User, t \in Tenant : CreateWithOwner(u, t)

AccountsNext == SignInNext \/ CreateNext \/ InviteNext \/ AdminNext

-----------------------------------------------------------------------------
IntoAccounts(s) == {req[r].user : r \in SignedInBy(s)} \cup ({link[s]} \ {None})

(* However first sign-ins, deletions, restores, other people's sign-ups    *)
(* and new addresses interleave, an identity never gets into two accounts  *)
(* that are both live; except one of which two first sign-ins overlapped   *)
(* while the provider gave them different addresses, although social.go:352*)
(* has it that "concurrent logins can't duplicate rows".                    *)
OneLiveAccountPerIdentity ==
  \A s \in Subject \ split :
    \A u, w \in IntoAccounts(s) : Is(u, "live") /\ Is(w, "live") => u = w

(* An invitation makes one account at most, and none once it was revoked   *)
(* or has expired, whoever accepts, revokes, deletes and restores meanwhile.*)
InvitesHonouredOnce ==
  \A m \in made :
    /\ invite[m[1]].status = "accepted"
    /\ \A n \in made : n[1] = m[1] => n = m

=============================================================================
