----------------------------- MODULE Ceremonies -----------------------------
(***************************************************************************)
(* Two-step ceremonies and the rows that join their steps: WebAuthn        *)
(* sessions (registering a passkey, signing in with one, using one as the  *)
(* second factor, signing up with one), the state of a social sign-in, and *)
(* the one-time codes that end a social or SAML sign-in.                   *)
(*                                                                         *)
(* The first step stores a row, the second takes it back.  A session or a  *)
(* state is taken by DELETE ... RETURNING, before anything about it is     *)
(* checked, so a refused request has spent it.  A code is locked, marked   *)
(* used and committed, and only then are tokens made.  What the browser,   *)
(* the authenticator or the provider answers is chosen freely.  Sign       *)
(* counters are left out: nothing reads the clone warning made from them.  *)
(***************************************************************************)
EXTENDS Naturals, FiniteSets

CONSTANTS User,      \* ids of "user".users rows
          Addr,      \* e-mail addresses
          Scope,     \* where one may sign up: a tenant, or None for no tenant
          Key,       \* passkeys
          Row,       \* ids of webauthn_sessions, oauth states and login codes
          Request,   \* handlers
          None       \* SQL NULL / no row

VARIABLES
  account,   \* the users rows, None when there is no live one
  owner,     \* passkey_credentials: whose each passkey is
  row,       \* the rows between the two steps of a ceremony
  unborn,    \* ids no row has had yet
  due,       \* rows past expires_at
  req,       \* what each handler is doing
  honoured   \* history: what each row was honoured for, by whom

vars == <<account, owner, row, unborn, due, req, honoured>>

Kind == {"register", "login", "login_discoverable", "mfa", "signup", "state", "code"}
(* The kind of session each second step is for.                            *)
Purpose == [register |-> {"register"}, login |-> {"login", "login_discoverable"},
            mfa |-> {"mfa"}, signup |-> {"signup"}, tenantsignup |-> {"signup"},
            callback |-> {"state"}, exchange |-> {"code"}]
Idle == [at |-> "idle"]

CeremoniesInit ==
  /\ account \in [User -> [addr : Addr, scope : Scope] \cup {None}]
  /\ \A u, w \in User : account[u] # None /\ account[w] # None /\ u # w
                        => account[u].addr # account[w].addr
  /\ owner \in [Key -> {u \in User : account[u] # None} \cup {None}]
  /\ row = [x \in Row |-> None]
  /\ unborn = Row
  /\ due = {}
  /\ req = [r \in Request |-> Idle]
  /\ honoured = [x \in Row |-> {}]

CeremoniesTypeOK ==
  /\ account \in [User -> [addr : Addr, scope : Scope] \cup {None}]
  /\ owner \in [Key -> User \cup {None}]
  /\ \A x \in Row : row[x] # None => row[x].kind \in Kind
  /\ unborn \subseteq Row /\ due \subseteq Row
  /\ \A r \in Request : req[r].at \in {"idle", "begin", "verify", "callback", "locked", "issue"}
  /\ \A x \in Row : \A h \in honoured[x] :
       h.for \in DOMAIN Purpose /\ h.user \in User /\ h.by \in Request

-----------------------------------------------------------------------------
Live(u) == account[u] # None

Keys(u) == {k \in Key : owner[k] = u}

Becomes(r, w) == req' = [req EXCEPT ![r] = w]

(* INSERT of a row that expires later.                                     *)
Store(x, kind, u, a, sc) ==
  /\ x \in unborn
  /\ row' = [row EXCEPT ![x] = [kind |-> kind, user |-> u, addr |-> a, scope |-> sc]]
  /\ unborn' = unborn \ {x}

Honour(r, as, u) ==
  honoured' = [honoured EXCEPT ![req[r].x] =
    @ \cup {[for |-> as, user |-> u, by |-> r, sess |-> req[r].sess]}]

-----------------------------------------------------------------------------
(* First steps.                                                            *)
BeginRegister(u, x) ==
  /\ Live(u)
  /\ Store(x, "register", u, None, None)
  /\ UNCHANGED <<account, owner, due, req, honoured>>

(* With an address the session is bound to its account, which must have a  *)
(* passkey; without one the authenticator names the account.               *)
BeginLogin(u, x) ==
  /\ IF u = None THEN Store(x, "login_discoverable", None, None, None)
     ELSE Live(u) /\ Keys(u) # {} /\ Store(x, "login", u, None, None)
  /\ UNCHANGED <<account, owner, due, req, honoured>>

BeginMFA(u, x) ==
  /\ Live(u) /\ Keys(u) # {}
  /\ Store(x, "mfa", u, None, None)
  /\ UNCHANGED <<account, owner, due, req, honoured>>

(* The address may not be that of an account of the same scope, nor that   *)
(* of a sign-up under way there.                                           *)
Claimed(a, sc) ==
  \/ \E u \in User : Live(u) /\ account[u].addr = a /\ account[u].scope = sc
  \/ \E x \in Row \ due :
       row[x] # None /\ row[x].kind = "signup" /\ row[x].addr = a /\ row[x].scope = sc

CheckSignup(r, a, sc) ==
  /\ req[r] = Idle
  /\ ~Claimed(a, sc)
  /\ Becomes(r, [at |-> "begin", addr |-> a, scope |-> sc])
  /\ UNCHANGED <<account, owner, row, unborn, due, honoured>>

BeginSignup(r, x) ==
  /\ req[r].at = "begin"
  /\ Store(x, "signup", None, req[r].addr, req[r].scope)
  /\ Becomes(r, Idle)
  /\ UNCHANGED <<account, owner, due, honoured>>

InsertSocialOAuthState(x) == Store(x, "state", None, None, None)

BeginSocial(x) ==
  /\ InsertSocialOAuthState(x)
  /\ UNCHANGED <<account, owner, due, req, honoured>>

-----------------------------------------------------------------------------
(* Mutant: the kind of the session is not looked at.                       *)
TakenUnlooked(r, x, as) ==
  IF x \notin due
  THEN Becomes(r, [at |-> IF as = "callback" THEN "callback" ELSE "verify",
                   as |-> as, x |-> x, sess |-> row[x]])
  ELSE Becomes(r, Idle)

(* Second steps.  A session of another kind, or for another user, is spent *)
(* all the same.                                                           *)
Taken(r, x, as) ==
  IF row[x].kind \in Purpose[as] /\ x \notin due
  THEN Becomes(r, [at |-> IF as = "callback" THEN "callback" ELSE "verify",
                   as |-> as, x |-> x, sess |-> row[x]])
  ELSE Becomes(r, Idle)

TakeSession(r, x, as) ==
  /\ req[r] = Idle
  /\ row[x] # None /\ as # "exchange"
  /\ row[x].kind # "code" /\ (row[x].kind = "state" <=> as = "callback")
  /\ Taken(r, x, as)
  /\ row' = [row EXCEPT ![x] = None]
  /\ UNCHANGED <<account, owner, unborn, due, honoured>>

Verifying(r, as) == req[r].at = "verify" /\ req[r].as = as

(* The handler stops: refused by the verification, or by a statement.      *)
Refuse(r) ==
  /\ req[r] # Idle
  /\ Becomes(r, Idle)
  /\ UNCHANGED <<account, owner, row, unborn, due, honoured>>

FinishRegister(r, u, k) ==
  /\ Verifying(r, "register") /\ req[r].sess.user = u
  /\ Live(u) /\ owner[k] = None
  /\ owner' = [owner EXCEPT ![k] = u]
  /\ Honour(r, "register", u)
  /\ Becomes(r, Idle)
  /\ UNCHANGED <<account, row, unborn, due>>

(* The assertion is one of a passkey the account has now.                  *)
FinishLogin(r, k) ==
  /\ Verifying(r, "login") /\ owner[k] # None
  /\ LET u == owner[k] IN
       /\ Live(u) /\ req[r].sess.user \in {u, None}
       /\ Honour(r, "login", u)
  /\ Becomes(r, Idle)
  /\ UNCHANGED <<account, owner, row, unborn, due>>

FinishMFA(r, u, k) ==
  /\ Verifying(r, "mfa") /\ req[r].sess.user = u
  /\ Live(u) /\ owner[k] = u
  /\ Honour(r, "mfa", u)
  /\ Becomes(r, Idle)
  /\ UNCHANGED <<account, owner, row, unborn, due>>

(* The account and its passkey in one transaction; the address is unique   *)
(* among all accounts, whatever was checked when the ceremony began.       *)
CreateUserFromSignup(u, k, sess) ==
  /\ ~Live(u) /\ owner[k] = None /\ Keys(u) = {}
  /\ \A w \in User : Live(w) => account[w].addr # sess.addr
  /\ account' = [account EXCEPT ![u] = [addr |-> sess.addr, scope |-> sess.scope]]
  /\ owner' = [owner EXCEPT ![k] = u]

FinishSignup(r, u, k) ==
  /\ Verifying(r, "signup")
  /\ CreateUserFromSignup(u, k, req[r].sess)
  /\ Honour(r, "signup", u)
  /\ Becomes(r, Idle)
  /\ UNCHANGED <<row, unborn, due>>

FinishTenantSignup(r, u, k) ==
  /\ Verifying(r, "tenantsignup") /\ req[r].sess.scope # None
  /\ CreateUserFromSignup(u, k, req[r].sess)
  /\ Honour(r, "tenantsignup", u)
  /\ Becomes(r, Idle)
  /\ UNCHANGED <<row, unborn, due>>

(* The provider's answer leads to an account, and a code is stored for it. *)
InsertSocialLoginCode(x, u) == Store(x, "code", u, None, None)

CompleteCallback(r, u, x) ==
  /\ req[r].at = "callback" /\ Live(u)
  /\ InsertSocialLoginCode(x, u)
  /\ Honour(r, "callback", u)
  /\ Becomes(r, Idle)
  /\ UNCHANGED <<account, owner, due>>

(* SAML: the assertion itself is what the identity provider sent; there is *)
(* no row for it.                                                          *)
InsertSamlLoginCode(x, u) == Store(x, "code", u, None, None)

AssertionConsumed(u, x) ==
  /\ Live(u)
  /\ InsertSamlLoginCode(x, u)
  /\ UNCHANGED <<account, owner, due, req, honoured>>

-----------------------------------------------------------------------------
(* Mutant: the code is read without FOR UPDATE.                            *)
CodeFreeAlways(x) == TRUE

(* Exchanging a code: the row lock, the check and the mark in a            *)
(* transaction, the tokens after it.                                       *)
CodeFree(x) == \A r \in Request : req[r].at = "locked" => req[r].x # x

ExchangeLock(r, x) ==
  /\ req[r] = Idle
  /\ row[x] # None /\ row[x].kind = "code" /\ CodeFree(x)
  /\ Becomes(r, IF x \in due THEN Idle ELSE [at |-> "locked", x |-> x, sess |-> row[x]])
  /\ UNCHANGED <<account, owner, row, unborn, due, honoured>>

ExchangeMark(r) ==
  /\ req[r].at = "locked"
  /\ row' = [row EXCEPT ![req[r].x] = None]
  /\ Becomes(r, [req[r] EXCEPT !.at = "issue"])
  /\ UNCHANGED <<account, owner, unborn, due, honoured>>

ExchangeIssue(r) ==
  /\ req[r].at = "issue"
  /\ Honour(r, "exchange", req[r].sess.user)
  /\ Becomes(r, Idle)
  /\ UNCHANGED <<account, owner, row, unborn, due>>

-----------------------------------------------------------------------------
DeletePasskey(u, k) ==
  /\ owner[k] = u
  /\ owner' = [owner EXCEPT ![k] = None]
  /\ UNCHANGED <<account, row, unborn, due, req, honoured>>

(* An administrator deletes the account; its passkeys stay behind it.      *)
SoftDelete(u) ==
  /\ Live(u)
  /\ account' = [account EXCEPT ![u] = None]
  /\ UNCHANGED <<owner, row, unborn, due, req, honoured>>

Expire(x) ==
  /\ row[x] # None /\ x \notin due
  /\ due' = due \cup {x}
  /\ UNCHANGED <<account, owner, row, unborn, req, honoured>>

BeginNext ==
  \/ \E u \in User, x \in Row : BeginRegister(u, x) \/ BeginMFA(u, x)
  \/ \E u \in User \cup {None}, x \in Row : BeginLogin(u, x)
  \/ \E r \in Request, a \in Addr, sc \in Scope : CheckSignup(r, a, sc)
  \/ \E r \in Request, x \in Row : BeginSignup(r, x)
  \/ \E x \in Row : BeginSocial(x)
  \/ \E u \in User, x \in Row : AssertionConsumed(u, x)

FinishNext ==
  \E r \in Request :
    \/ \E x \in Row, as \in DOMAIN Purpose : TakeSession(r, x, as)
    \/ \E u \in User, k \in Key :
         \/ FinishRegister(r, u, k) \/ FinishMFA(r, u, k)
         \/ FinishSignup(r, u, k) \/ FinishTenantSignup(r, u, k)
    \/ \E k \in Key : FinishLogin(r, k)
    \/ \E u \in User, x \in Row : CompleteCallback(r, u, x)
    \/ \E x \in Row : ExchangeLock(r, x)
    \/ ExchangeMark(r) \/ ExchangeIssue(r)
    \/ Refuse(r)

CeremoniesNext ==
  \/ BeginNext
  \/ FinishNext
  \/ \E u \in User, k \in Key : DeletePasskey(u, k)
  \/ \E u \in User : SoftDelete(u)
  \/ \E x \in Row : Expire(x)

-----------------------------------------------------------------------------
(* passkey.go:336 "single-use", :687 "a login session can't be replayed    *)
(* here (and vice versa)": every row is honoured once at most, and for     *)
(* what it was stored for, however many requests present it together.      *)
CeremonyHonouredOnce ==
  \A x \in Row :
    /\ Cardinality(honoured[x]) <= 1
    /\ row[x] # None => honoured[x] = {}
    /\ \A h \in honoured[x] : h.sess.kind \in Purpose[h.for] /\ h.sess.user \in {h.user, None}
=============================================================================
