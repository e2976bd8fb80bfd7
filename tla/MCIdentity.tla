----------------------------- MODULE MCIdentity -----------------------------
(* Small instances of the parts whose tables nobody else writes: accounts, *)
(* ceremonies, factors, single sign-on, directories, domains, the token    *)
(* vault, the policies, SCIM users, limits, billing, and the agents, keys, *)
(* principals and clients that act by themselves.  They share no state, so *)
(* a behaviour of all of them is one of each: one run covers them, and     *)
(* lets each part run while the others stand still.                        *)
EXTENDS Limiter, Sequences, FiniteSets, TLC

(* Two rows of each kind are mostly enough, and the parts borrow them from *)
(* one another: User and Thing stand for whatever comes in twos.           *)
CONSTANTS User, Thing, Account, Addr, Home, Subject, Invite, Passkey, Factor,
          Cookie, Conn, Provider, Link, Deleted, Domain, Claim, Policy, Plan,
          SubjectOf, File, OwnerOf, NameOf, Password, Empty,
          MaxLives, Amount, MaxInvoices,
          Attr, Value, Pattern, Condition, ResourceType, Star,
          Height \* how deep a condition's tree is

VARIABLES
  job, \* the part that runs
  auser, founded, alink, split, invite, areq, made,
  account, owner, crow, unborn, cdue, creq, honoured,
  factor, code, fdue, totp, proof, verified, cookie, freq, counted, earned,
  conn, provider, slink, token, sdue, stold, sreq, asserted,
  drow, gone, txt, dreq, shown,
  registered, begun, drawn, vdue, grant, vreq, exchanged, handed,
  policy,
  urow, ureq, lives, ended, utold,
  price, sub, checkout, session, hook, invoices, activated,
  member, status, sponsor, key, late, used, touch, service, mtoken, mreq, final,
  client, cdrawn, crlock, ctold, cshown, clreq,
  lconn, llock, ltold, secret, had, up, seen, signed, lreq

(* Every outside account belongs to the one tenant, every factor to the    *)
(* one person, and every entry of a directory has the one name; a file     *)
(* holds both addresses.                                                   *)
MCSubjectOf == [s \in Subject |-> CHOOSE t \in Home : TRUE]
MCOwnerOf == [f \in Factor |-> CHOOSE u \in Home : TRUE]
MCNameOf == [e \in User |-> CHOOSE n \in Cookie : TRUE]
MCFile == {<<a, b>> : a \in {CHOOSE x \in Addr : TRUE}, b \in Addr} \ {<<a, a>> : a \in Addr}

(* The limits an administrator may set, the default among them.            *)
Slow == [rate |-> 1, cap |-> 1]
Limits == {Slow, [rate |-> 2, cap |-> 2]}

A == INSTANCE Accounts WITH
  User <- Account, Tenant <- Home, Of <- SubjectOf, Batch <- File,
  user <- auser, link <- alink, req <- areq

C == INSTANCE Ceremonies WITH
  Scope <- Home \cup {None}, Addr <- Home, Key <- Passkey, Row <- Thing,
  row <- crow, due <- cdue, req <- creq

F == INSTANCE Factors WITH
  User <- Home, Code <- Thing,
  due <- fdue, req <- freq

S == INSTANCE SsoAdmin WITH
  Tenant <- Home \cup Domain, Token <- Home, User <- Subject,
  HomeOf <- SubjectOf,
  Status <- {"active", "disabled"},
  link <- slink, due <- sdue, told <- stold, req <- sreq

D == INSTANCE Domains WITH
  Tenant <- Thing, Row <- Claim, row <- drow, req <- dreq

V == INSTANCE TokenVault WITH
  Ceremony <- Thing, due <- vdue, req <- vreq

U == INSTANCE ScimUsers WITH
  Addr <- Home, Tenant <- Thing, row <- urow, req <- ureq, told <- utold

B == INSTANCE Billing WITH
  Tenant <- Home, Checkout <- Thing, Delivery <- User

M == INSTANCE Machines WITH
  Agent <- Link, ApiKey <- Cookie, Service <- Conn, token <- mtoken, req <- mreq

K == INSTANCE Clients WITH
  Client <- Home, Secret <- Thing, drawn <- cdrawn, lock <- crlock, told <- ctold,
  shown <- cshown, req <- clreq

L == INSTANCE Directory WITH
  Server <- Home, Entry <- User, Name <- Cookie,
  conn <- lconn, lock <- llock, told <- ltold, req <- lreq

-----------------------------------------------------------------------------
(* Conditions on one attribute, with a number, a text and a list to        *)
(* compare: every operator and one that is not known, and combinations of  *)
(* some that are false, hold or cannot be evaluated.                       *)
Json(t, v, of) == [t |-> t, v |-> v, of |-> of]
Number == Json("num", <<1>>, <<>>)
Short == Json("str", <<1>>, <<>>)
Long == Json("str", <<1, 2>>, <<>>)
List == Json("arr", <<>>, <<Number>>)
On(op, v) == [kind |-> "leaf", attr |-> "x", op |-> op, value |-> v]
Node(kind, of) == [kind |-> kind, of |-> of]
Operators == {"eq", "ne", "in", "nin", "contains", "gt", "gte", "lt", "lte",
              "exists", "prefix", "suffix", "regex", "near"}
Simple == {On("eq", Short), On("ne", List), On("in", Number), [kind |-> "empty"]}
MCCondition ==
  Simple \cup {On(op, v) : op \in Operators, v \in {Number, Short, List}}
         \cup {Node("not", <<c>>) : c \in Simple}
         \cup {Node(kind, <<c, d>>) : kind \in {"all", "any"}, c, d \in Simple}

MCHeight == [c \in MCCondition |-> IF c \in Simple \/ c.kind = "leaf" THEN 0 ELSE 1]
MCValue == {Number, Long, List}
MCPattern == {Short.v} \* the other text does not compile

P == INSTANCE Policies WITH Absent <- None

Odd == CHOOSE p \in Policy : TRUE

(* One policy of any kind and simple others; updates enable and disable.   *)
PoliciesNext ==
  \E p \in Policy :
    \/ P!Delete(p)
    \/ policy[p] # None /\ P!Update(p, [policy[p] EXCEPT !.enabled = ~@])
    \/ /\ policy[p] = None
       /\ \E row \in P!Row :
            /\ p = Odd \/ row.cond \in Simple
            /\ P!Create(p, row)

(* Conditions are finite trees.                                            *)
ASSUME PoliciesAssumption ==
  /\ None \notin P!Row
  /\ \A v \in Value : DOMAIN v.of \subseteq Nat
  /\ Height \in [Condition -> Nat]
  /\ \A c \in Condition :
       \/ c.kind = "empty"
       \/ c.kind = "leaf" /\ c.attr \in Attr /\ DOMAIN c.value.of \subseteq Nat
       \/ /\ c.kind \in {"not", "all", "any"}
          /\ DOMAIN c.of \subseteq Nat /\ (c.kind = "not" => 1 \in DOMAIN c.of)
          /\ \A i \in DOMAIN c.of : c.of[i] \in Condition /\ Height[c.of[i]] < Height[c]

(* No row is the lack of one, and no secret or record of an action; a      *)
(* bearer is of one kind.                                                  *)
ASSUME IdentityAssumption ==
  /\ None \notin U!Row
  /\ File \subseteq Seq(Addr)
  /\ None \notin Password
  /\ None \notin Request \cup Thing \cup K!Row \cup {K!Gone}
  /\ None \notin {"registered", "updated", "rotated", "deleted"}
  /\ None \notin S!Row \cup S!LinkRow \cup S!Record \cup {"set"}
  /\ None \notin {"draft", "active", "disabled"} \cup Home
  /\ Deleted \notin L!Row \cup {None} /\ None \notin L!Row \cup L!Record
  /\ None \notin {"active", "suspended", "decommissioned", "deleted",
                 "live", "revoked", "enabled", "disabled"} \cup M!Token
  /\ Link \cap Cookie = {} /\ Link \cap Conn = {} /\ Cookie \cap Conn = {}
  /\ None \notin [tenant : Thing, domain : Domain, verified : BOOLEAN]
  /\ None \notin Account \cup A!UserRow \cup A!InviteRow \cup B!Row
  /\ None \notin [to : F!Target, used : BOOLEAN]
  /\ None \notin [kind : C!Kind, user : User \cup {None}, addr : Home \cup {None},
                  scope : Home \cup {None}]

-----------------------------------------------------------------------------
limiterVars == vars
accountVars == <<auser, founded, alink, split, invite, areq, made>>
ceremonyVars == <<account, owner, crow, unborn, cdue, creq, honoured>>
factorVars == <<factor, code, fdue, totp, proof, verified, cookie, freq, counted, earned>>
ssoVars == <<conn, provider, slink, token, sdue, stold, sreq, asserted>>
domainVars == <<drow, gone, txt, dreq, shown>>
vaultVars == <<registered, begun, drawn, vdue, grant, vreq, exchanged, handed>>
scimVars == <<urow, ureq, lives, ended, utold>>
billingVars == <<price, sub, checkout, session, hook, invoices, activated>>
machineVars == <<member, status, sponsor, key, late, used, touch, service, mtoken, mreq, final>>
clientVars == <<client, cdrawn, crlock, ctold, cshown, clreq>>
directoryVars == <<lconn, llock, ltold, secret, had, up, seen, signed, lreq>>
actorVars == <<machineVars, clientVars, directoryVars>>
upperVars == <<limiterVars, accountVars, ceremonyVars, factorVars, ssoVars>>
lowerVars == <<domainVars, vaultVars, policy, scimVars, billingVars>>
allVars == <<job, upperVars, lowerVars, actorVars>>

(* A part that stands still has one initial state.                         *)
IdentityInit ==
  /\ job \in {"limiter", "accounts", "ceremonies", "factors", "sso",
              "domains", "vault", "policies", "scim", "billing",
              "machines", "clients", "directory"}
  /\ LimiterInit /\ A!AccountsInit /\ C!CeremoniesInit /\ F!FactorsInit /\ S!SsoInit
  /\ D!DomainsInit /\ V!VaultInit /\ P!PoliciesInit /\ U!ScimInit /\ B!BillingInit
  /\ M!MachinesInit /\ K!ClientsInit /\ L!DirectoryInit
  /\ job # "limiter" => \A k \in Key : db[k] = None
  /\ job # "accounts" => founded = {}
  /\ Cardinality({u \in User : account[u] # None}) <= IF job = "ceremonies" THEN 1 ELSE 0
  /\ job # "factors" => \A u \in Home : totp[u] = "none"
  /\ job # "billing" => \A p \in Plan : price[p] = 0
  /\ job # "directory" => \A x \in DOMAIN secret : secret[x] = None

(* An agent, a key or a principal at a time.                               *)
MachinesNext ==
  /\ M!MachinesNext
  /\ Cardinality({b \in M!Bearer : M!Exists(b)'}) <= 1

IdentityNext ==
  /\ UNCHANGED job
  /\ \/ /\ UNCHANGED <<lowerVars, actorVars>>
        /\ \/ /\ job = "limiter" /\ LimiterNext
              /\ UNCHANGED <<accountVars, ceremonyVars, factorVars, ssoVars>>
           \/ /\ job = "accounts" /\ A!AccountsNext
              /\ UNCHANGED <<limiterVars, ceremonyVars, factorVars, ssoVars>>
           \/ /\ job = "ceremonies" /\ C!CeremoniesNext
              /\ UNCHANGED <<limiterVars, accountVars, factorVars, ssoVars>>
           \/ /\ job = "factors" /\ F!FactorsNext
              /\ UNCHANGED <<limiterVars, accountVars, ceremonyVars, ssoVars>>
           \/ /\ job = "sso" /\ S!SsoNext
              /\ UNCHANGED <<limiterVars, accountVars, ceremonyVars, factorVars>>
     \/ /\ UNCHANGED <<upperVars, actorVars>>
        /\ \/ /\ job = "domains" /\ D!DomainsNext
              /\ UNCHANGED <<vaultVars, policy, scimVars, billingVars>>
           \/ /\ job = "vault" /\ V!VaultNext
              /\ UNCHANGED <<domainVars, policy, scimVars, billingVars>>
           \/ /\ job = "policies" /\ PoliciesNext
              /\ UNCHANGED <<domainVars, vaultVars, scimVars, billingVars>>
           \/ /\ job = "scim" /\ U!ScimNext
              /\ UNCHANGED <<domainVars, vaultVars, policy, billingVars>>
           \/ /\ job = "billing" /\ B!BillingNext
              /\ UNCHANGED <<domainVars, vaultVars, policy, scimVars>>
     \/ /\ UNCHANGED <<upperVars, lowerVars>>
        /\ \/ job = "machines" /\ MachinesNext /\ UNCHANGED <<clientVars, directoryVars>>
           \/ job = "clients" /\ K!ClientsNext /\ UNCHANGED <<machineVars, directoryVars>>
           \/ job = "directory" /\ L!DirectoryNext /\ UNCHANGED <<machineVars, clientVars>>

IdentitySpec == IdentityInit /\ [][IdentityNext]_allVars

(* User, Thing and Request are sets of interchangeable values everywhere.  *)
Symmetry == Permutations(User) \cup Permutations(Thing) \cup Permutations(Request)

-----------------------------------------------------------------------------
(* Accounts: an identity has one live account.                             *)
OneLiveAccountPerIdentity == job = "accounts" => A!OneLiveAccountPerIdentity

(* What is presented is honoured once: an invitation, the session of a     *)
(* passkey, social or SAML ceremony, a one-time code, the state of a       *)
(* connection, a payment.                                                  *)
HonouredOnce ==
  /\ job = "accounts" => A!InvitesHonouredOnce
  /\ job = "ceremonies" => C!CeremonyHonouredOnce
  /\ job = "factors" => F!ProofsCountOnce
  /\ job = "vault" => V!ConnectedOnce
  /\ job = "billing" => B!PaidIsActivatedOnce

(* SsoAdmin, Clients, Directory: what the last audit record of a row says  *)
(* is so.                                                                  *)
AuditTellsTheState ==
  /\ job = "sso" => S!AuditTellsTheState
  /\ job = "clients" => K!AuditTellsTheState
  /\ job = "directory" => L!AuditTellsTheState

(* SsoAdmin: a portal link works on its own tenant.                        *)
DelegatesStayHome == job = "sso" => S!DelegatesStayHome

(* Domains, Directory: a verified domain was proven, and so was the        *)
(* password of whoever signed in through a directory.                      *)
VerifiedMeansProven ==
  /\ job = "domains" => D!VerifiedMeansProven
  /\ job = "directory" => L!SignedInWithPassword

(* Machines, Clients, Directory: what was withdrawn before a request       *)
(* arrived does not let it in, and a decommissioned agent stays one.       *)
OutStaysOut ==
  /\ job = "machines" => M!WithdrawnIsOut /\ M!DecommissionIsFinal
  /\ job = "clients" => K!WithdrawnIsOut
  /\ job = "directory" => L!WithdrawnIsOut

(* Policies: an allowed request is allowed however errors are read.        *)
AllowIsCertain == job = "policies" => P!AllowIsCertain

(* ScimUsers: calls that are repeated do no harm.                          *)
RepeatedCallsAreSafe == job = "scim" => U!RepeatedCallsAreSafe

=============================================================================
