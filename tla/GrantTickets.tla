---------------------------- MODULE GrantTickets ----------------------------
(***************************************************************************)
(* What an OAuth client redeems for its first tokens                       *)
(* (internal/federation/oidc): authorization codes, device codes and CIBA  *)
(* requests, one table each, which behave alike and are called tickets     *)
(* here.  A ticket is approved by a user, then redeemed by its client.     *)
(*                                                                         *)
(* A redemption is one transaction: SELECT ... FOR UPDATE of the ticket,   *)
(* decisions from what it read (RedeemLock), the writes at the commit.     *)
(* The tokens are made after the commit, from another connection (Issue).  *)
(* Deciding and revoking are transactions that write the ticket they lock, *)
(* so each is one step that waits for the row lock.  Clients, with their   *)
(* registered scopes and tenants, do not change.                           *)
(***************************************************************************)
EXTENDS Naturals

CONSTANTS User,        \* rows of "user".users
          Client,      \* rows of auth.oidc_clients
          Scope,       \* scopes a request may name
          Ticket,      \* rows of the three ticket tables
          Request,     \* handlers of the authorize and token endpoints
          Registered,  \* oidc_clients.scopes
          Foreign,     \* pairs of a user and a client of different tenants
          None,        \* SQL NULL / no row
          MaxCrash     \* how many handlers may fail half-way

VARIABLES
  consent,   \* oidc_consents.scopes by user and client, None when no row
  row,       \* the tickets, None when there is no row
  consumed,  \* tickets with used_at or consumed_at
  expired,   \* tickets past expires_at
  recent,    \* tickets polled less than interval_seconds ago
  rowLock,   \* the redemption that holds a ticket's row lock
  pc,        \* where each handler is
  work,      \* the authorization or the ticket a handler works on
  approved,  \* history: scopes each user ever approved for each client
  issued,    \* history: token responses made for each ticket
  crashes    \* history: failures so far

ticketVars == <<row, consumed, expired, recent>>
vars == <<consent, ticketVars, rowLock, pc, work, approved, issued, crashes>>

Ask == [user : User, client : Client, scopes : SUBSET Scope]

TicketRow ==
  [kind : {"code", "device", "ciba"}, user : User \cup {None}, client : Client,
   scopes : SUBSET Scope, status : {"pending", "authorized", "denied"}]

TypeOK ==
  /\ consent \in [User \X Client -> (SUBSET Scope) \cup {None}]
  /\ row \in [Ticket -> TicketRow \cup {None}]
  /\ consumed \subseteq Ticket
  /\ expired \subseteq Ticket
  /\ recent \subseteq Ticket
  /\ rowLock \in [Ticket -> Request \cup {None}]
  /\ pc \in [Request -> {"idle", "mint", "refuse", "again", "redeem", "issue"}]
  /\ work \in [Request -> Ask \cup Ticket \cup {None}]
  /\ approved \in [User \X Client -> SUBSET Scope]
  /\ issued \in [Ticket -> Nat]
  /\ crashes \in 0..MaxCrash

Init ==
  /\ consent = [p \in User \X Client |-> None]
  /\ row = [x \in Ticket |-> None]
  /\ consumed = {}
  /\ expired = {}
  /\ recent = {}
  /\ rowLock = [x \in Ticket |-> None]
  /\ pc = [r \in Request |-> "idle"]
  /\ work = [r \in Request |-> None]
  /\ approved = [p \in User \X Client |-> {}]
  /\ issued = [x \in Ticket |-> 0]
  /\ crashes = 0

-----------------------------------------------------------------------------
Go(r, at, w) ==
  /\ pc' = [pc EXCEPT ![r] = at]
  /\ work' = [work EXCEPT ![r] = w]

Return(r) == Go(r, "idle", None)

Unlock(r) ==
  rowLock' = [x \in Ticket |-> IF rowLock[x] = r THEN None ELSE rowLock[x]]

Insert(x, kind, u, c, S, status) ==
  /\ row[x] = None
  /\ row' = [row EXCEPT ![x] = [kind |-> kind, user |-> u, client |-> c,
                                scopes |-> S, status |-> status]]

(* A code is made for a signed-in user, a device code for one not yet      *)
(* known, a CIBA request for the one that is asked.                        *)
InsertAuthorizationCode(x, ask) ==
  Insert(x, "code", ask.user, ask.client, ask.scopes, "authorized")
InsertDeviceCode(x, c, S) == Insert(x, "device", None, c, S, "pending")
InsertCIBARequest(x, u, c, S) == Insert(x, "ciba", u, c, S, "pending")

Approve(u, c, S) == approved' = [approved EXCEPT ![<<u, c>>] = @ \cup S]

(* Mutant: one scope in common is enough.                                  *)
HasAnyConsent(u, c, S) ==
  consent[<<u, c>>] # None /\ (S = {} \/ S \cap consent[<<u, c>>] # {})

(* HasConsent: the row exists and holds every scope asked for.             *)
HasConsent(u, c, S) == consent[<<u, c>>] # None /\ S \subseteq consent[<<u, c>>]

(* GET /oauth/authorize of a signed-in user: with consent the code is      *)
(* minted at once; without it the browser goes to the consent screen.      *)
AuthorizePage(r, u, c, S) ==
  /\ pc[r] = "idle"
  /\ HasConsent(u, c, S)
  /\ Go(r, "mint", [user |-> u, client |-> c, scopes |-> S])
  /\ UNCHANGED <<consent, ticketVars, rowLock, approved, issued, crashes>>

(* The consent screen's decision, approved: GrantConsent replaces the      *)
(* pair's row before Authorize has looked at the client or the scopes.     *)
Decision(r, u, c, S) ==
  /\ pc[r] = "idle"
  /\ consent' = [consent EXCEPT ![<<u, c>>] = S]
  /\ Approve(u, c, S)
  /\ Go(r, "mint", [user |-> u, client |-> c, scopes |-> S])
  /\ UNCHANGED <<ticketVars, rowLock, issued, crashes>>

(* Authorize: a code for scopes the client is registered for.              *)
Authorize(r, x) ==
  /\ pc[r] = "mint"
  /\ work[r].scopes \subseteq Registered[work[r].client]
  /\ InsertAuthorizationCode(x, work[r])
  /\ Return(r)
  /\ UNCHANGED <<consent, consumed, expired, recent, rowLock, approved, issued,
                 crashes>>

AuthorizeRefused(r) ==
  /\ pc[r] = "mint"
  /\ ~(work[r].scopes \subseteq Registered[work[r].client])
  /\ Return(r)
  /\ UNCHANGED <<consent, ticketVars, rowLock, approved, issued, crashes>>

-----------------------------------------------------------------------------
(* Asking for no scope asks for all the registered ones.                   *)
AskedScopes(c, S) == IF S = {} THEN Registered[c] ELSE S

(* A device code, pending, for a user not yet known.                       *)
DeviceAuthorize(c, S, x) ==
  /\ S \subseteq Registered[c]
  /\ InsertDeviceCode(x, c, AskedScopes(c, S))
  /\ UNCHANGED <<consent, consumed, expired, recent, rowLock, pc, work, approved,
                 issued, crashes>>

(* A CIBA request, pending, for the user of the client's tenant that the   *)
(* login_hint names.                                                       *)
BackchannelAuthorize(c, u, S, x) ==
  /\ S \subseteq Registered[c]
  /\ <<u, c>> \notin Foreign
  /\ InsertCIBARequest(x, u, c, AskedScopes(c, S))
  /\ UNCHANGED <<consent, consumed, expired, recent, rowLock, pc, work, approved,
                 issued, crashes>>

(* A pending, unexpired ticket whose row lock is free.                     *)
Decidable(x, kind) ==
  /\ row[x] # None
  /\ row[x].kind = kind
  /\ row[x].status = "pending"
  /\ x \notin expired
  /\ rowLock[x] = None

(* Mutant: whoever types the code decides, decided or not.                 *)
LockDeviceAnyStatus(x) ==
  /\ row[x] # None
  /\ row[x].kind = "device"
  /\ x \notin expired
  /\ rowLock[x] = None

(* By the code the user typed; by the id, which must be of the user's own. *)
LockDeviceByUserCode(x) == Decidable(x, "device")
LockCIBARequest(x, u) == Decidable(x, "ciba") /\ row[x].user = u

CheckUserInDeviceTenant(u, c) == <<u, c>> \notin Foreign

(* DecideDevice, approved: binds the user, who must be of the client's     *)
(* tenant, and replaces the consent row in the same transaction.           *)
ApproveDevice(u, x) ==
  LET c == row[x].client IN
  /\ LockDeviceByUserCode(x)
  /\ CheckUserInDeviceTenant(u, c)
  /\ row' = [row EXCEPT ![x] = [@ EXCEPT !.status = "authorized", !.user = u]]
  /\ consent' = [consent EXCEPT ![<<u, c>>] = row[x].scopes]
  /\ Approve(u, c, row[x].scopes)
  /\ UNCHANGED <<consumed, expired, recent, rowLock, pc, work, issued, crashes>>

(* DecideDevice, denied: any signed-in user who has the code.              *)
DenyDevice(x) ==
  /\ LockDeviceByUserCode(x)
  /\ row' = [row EXCEPT ![x].status = "denied"]
  /\ UNCHANGED <<consent, consumed, expired, recent, rowLock, pc, work, approved,
                 issued, crashes>>

(* DecideBackchannel: the user the request names; no consent is recorded.  *)
DecideBackchannel(u, x, approve) ==
  /\ LockCIBARequest(x, u)
  /\ row' = [row EXCEPT ![x].status = IF approve THEN "authorized" ELSE "denied"]
  /\ IF approve THEN Approve(u, row[x].client, row[x].scopes)
                ELSE UNCHANGED approved
  /\ UNCHANGED <<consent, consumed, expired, recent, rowLock, pc, work, issued,
                 crashes>>

(* RevokeDevice: an administrator's UPDATE, whatever the status was.       *)
RevokeDevice(x) ==
  /\ row[x] # None
  /\ row[x].kind = "device"
  /\ rowLock[x] = None
  /\ row' = [row EXCEPT ![x].status = "denied"]
  /\ UNCHANGED <<consent, consumed, expired, recent, rowLock, pc, work, approved,
                 issued, crashes>>

-----------------------------------------------------------------------------
(* Mutant: only a pending ticket is sent away.                             *)
VerdictUnlessPending(x, c, proof) ==
  CASE row[x].client # c \/ x \in consumed -> "refuse"
    [] row[x].kind = "code" /\ (x \in expired \/ ~proof) -> "refuse"
    [] row[x].kind # "code" /\ (x \in recent \cup expired) -> "again"
    [] row[x].status = "pending" -> "again"
    [] OTHER -> "redeem"

(* What a redemption decides once it holds the row.  A code also needs the *)
(* redirect_uri and the PKCE verifier it was minted with; a refusal rolls  *)
(* back.                                                                   *)
ConsumeAuthorizationCode(x, c, proof) ==
  IF row[x].client = c /\ x \notin consumed \cup expired /\ proof
  THEN "redeem" ELSE "refuse"

(* "again" commits the time of the poll and answers slow_down,             *)
(* expired_token, authorization_pending or access_denied.                  *)
Poll(x, c) ==
  IF row[x].client # c \/ x \in consumed THEN "refuse"
  ELSE IF x \notin recent \cup expired /\ row[x].status = "authorized"
       THEN "redeem" ELSE "again"
LockDeviceByCode(x, c) == Poll(x, c)
LockCIBARequestByHash(x, c) == Poll(x, c)

Verdict(x, c, proof) ==
  CASE row[x].kind = "code" -> ConsumeAuthorizationCode(x, c, proof)
    [] row[x].kind = "device" -> LockDeviceByCode(x, c)
    [] row[x].kind = "ciba" -> LockCIBARequestByHash(x, c)

(* Mutant: a plain SELECT, which waits for nobody.                         *)
RedeemWithoutLock(r, c, x, proof) ==
  /\ pc[r] = "idle"
  /\ row[x] # None
  /\ Go(r, Verdict(x, c, proof), x)
  /\ UNCHANGED <<consent, ticketVars, rowLock, approved, issued, crashes>>

(* ExchangeCode, DeviceToken, BackchannelToken: their SELECT ... FOR       *)
(* UPDATE and the checks on what it returned.                              *)
RedeemLock(r, c, x, proof) ==
  /\ pc[r] = "idle"
  /\ row[x] # None
  /\ rowLock[x] = None
  /\ rowLock' = [rowLock EXCEPT ![x] = r]
  /\ Go(r, Verdict(x, c, proof), x)
  /\ UNCHANGED <<consent, ticketVars, approved, issued, crashes>>

RedeemRefuse(r) ==
  /\ pc[r] = "refuse"
  /\ Return(r)
  /\ Unlock(r)
  /\ UNCHANGED <<consent, ticketVars, approved, issued, crashes>>

PollAgain(r) ==
  /\ pc[r] = "again"
  /\ recent' = recent \cup {work[r]}
  /\ Return(r)
  /\ Unlock(r)
  /\ UNCHANGED <<consent, row, consumed, expired, approved, issued, crashes>>

(* The ticket is marked and the transaction commits.                       *)
Redeem(r) ==
  LET x == work[r] IN
  /\ pc[r] = "redeem"
  /\ consumed' = consumed \cup {x}
  /\ recent' = IF row[x].kind = "code" THEN recent ELSE recent \cup {x}
  /\ Go(r, "issue", x)
  /\ Unlock(r)
  /\ UNCHANGED <<consent, row, expired, approved, issued, crashes>>

(* The tokens are signed and the refresh token stored.                     *)
Issue(r) ==
  /\ pc[r] = "issue"
  /\ issued' = [issued EXCEPT ![work[r]] = @ + 1]
  /\ Return(r)
  /\ UNCHANGED <<consent, ticketVars, rowLock, approved, crashes>>

-----------------------------------------------------------------------------
(* A handler fails: an open transaction rolls back; after its commit the   *)
(* ticket is spent and the tokens are never made.                          *)
Crash(r) ==
  /\ crashes < MaxCrash
  /\ pc[r] # "idle"
  /\ crashes' = crashes + 1
  /\ Return(r)
  /\ Unlock(r)
  /\ UNCHANGED <<consent, ticketVars, approved, issued>>

(* Ten minutes pass.                                                       *)
Expire(x) ==
  /\ row[x] # None
  /\ x \notin expired
  /\ expired' = expired \cup {x}
  /\ UNCHANGED <<consent, row, consumed, recent, rowLock, pc, work, approved,
                 issued, crashes>>

(* interval_seconds pass since the last poll.                              *)
IntervalElapses(x) ==
  /\ x \in recent
  /\ recent' = recent \ {x}
  /\ UNCHANGED <<consent, row, consumed, expired, rowLock, pc, work, approved,
                 issued, crashes>>

HandlerStep(r) ==
  \/ \E x \in Ticket : Authorize(r, x)
  \/ AuthorizeRefused(r)
  \/ RedeemRefuse(r)
  \/ PollAgain(r)
  \/ Redeem(r)
  \/ Issue(r)

UserStep ==
  \E u \in User :
    \/ \E r \in Request, c \in Client, S \in SUBSET Scope :
         AuthorizePage(r, u, c, S) \/ Decision(r, u, c, S)
    \/ \E x \in Ticket :
         \/ ApproveDevice(u, x)
         \/ \E approve \in BOOLEAN : DecideBackchannel(u, x, approve)

ClientStep ==
  \E c \in Client, x \in Ticket :
    \/ \E r \in Request, proof \in BOOLEAN : RedeemLock(r, c, x, proof)
    \/ \E S \in SUBSET Scope :
         \/ DeviceAuthorize(c, S, x)
         \/ \E u \in User : BackchannelAuthorize(c, u, S, x)

Next ==
  \/ UserStep
  \/ ClientStep
  \/ \E r \in Request : HandlerStep(r) \/ Crash(r)
  \/ \E x \in Ticket : DenyDevice(x) \/ RevokeDevice(x) \/ Expire(x) \/ IntervalElapses(x)

Spec == Init /\ [][Next]_vars

-----------------------------------------------------------------------------
(* Properties                                                              *)

(* A code, a device code or a CIBA request buys one token response at      *)
(* most, however many redemptions of it run side by side or follow a       *)
(* failed one: the row lock of the three token handlers and the used_at or *)
(* consumed_at they commit before they make the tokens.                    *)
IssuedOnce == \A x \in Ticket : issued[x] <= 1

(* Tokens carry only scopes that their user once approved for their        *)
(* client, on the consent screen, on the device page or in a CIBA request, *)
(* although a later consent replaces an earlier one and a code may be      *)
(* minted from the earlier.                                                *)
IssuedWasApproved ==
  \A x \in Ticket :
    issued[x] > 0 => row[x].scopes \subseteq approved[<<row[x].user, row[x].client>>]

(* A ticket that the user or, for a device, an administrator denied before *)
(* its redemption committed is never redeemed: DenyDevice and RevokeDevice *)
(* against a poll in flight.                                               *)
DeniedNeverRedeemed ==
  [][\A x \in Ticket \ consumed :
       row[x] # None /\ row[x].status = "denied" => x \notin consumed']_vars

-----------------------------------------------------------------------------
(* What the module promises: a ticket is a grant that is answered once.    *)
PhaseOf(x) ==
  IF row[x] = None THEN "none"
  ELSE IF issued[x] > 0 THEN "answered"
  ELSE IF x \in consumed THEN "spent"
  ELSE row[x].status

OrderOf(x) ==
  IF row[x] = None THEN None
  ELSE [user |-> row[x].user, client |-> row[x].client, scopes |-> row[x].scopes]

Life == INSTANCE OneTimeGrant WITH
  phase <- [x \in Ticket |-> PhaseOf(x)],
  order <- [x \in Ticket |-> OrderOf(x)],
  said <- approved

(* Every behaviour of the tickets is one of such grants: among others, a   *)
(* ticket denied is never granted again, a device once bound to its user   *)
(* is not bound to another, and what is redeemed is what was granted.      *)
ImplementsOneTimeGrant == Life!Spec

=============================================================================
