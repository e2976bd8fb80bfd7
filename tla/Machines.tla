------------------------------ MODULE Machines ------------------------------
(***************************************************************************)
(* Identities that are not people: AI agents (internal/developer/agents),  *)
(* API keys (api-keys), service principals (principal), the tokens they    *)
(* are given and the middleware that lets their requests in                *)
(* (platform/http/httpx/auth.go).  One tenant.                             *)
(*                                                                         *)
(* A life-cycle change of an agent reads the status, checks it, then       *)
(* writes without looking again; an issue of a token or the check of a     *)
(* credential reads a row and acts on it later.  Their audit rows and      *)
(* events, which are best effort, are AuditChain's and Webhooks' matter.   *)
(***************************************************************************)
EXTENDS Naturals, FiniteSets

CONSTANTS Agent,    \* rows of auth.agents
          ApiKey,   \* rows of auth.api_keys
          Service,  \* rows of auth.service_principals
          User,     \* people who sponsor agents
          Request,  \* handlers
          None      \* no row

VARIABLES
  member,  \* users with a role in the tenant
  status,  \* of an agent, None before it is created, "deleted" after
  sponsor, \* sponsor_user_id
  key,     \* of an API key: None, "live", "revoked"
  late,    \* API keys past expires_at
  used,    \* API keys with last_used_at
  touch,   \* API keys a goroutine is about to mark used
  service, \* of a principal: None, "enabled", "disabled"
  token,   \* unexpired access tokens, as the claims that tell them apart
  req,     \* handlers at work
  final    \* agents decommissioned with no other change of them under way

vars == <<member, status, sponsor, key, late, used, touch, service, token, req, final>>

Bearer == Agent \cup ApiKey \cup Service
Idle == [at |-> "idle"]

(* actor_type: a token that was exchanged for another does not carry it,   *)
(* nor the agent_id.                                                       *)
Token == [of : Agent \cup Service, exchanged : BOOLEAN]

(* Which status may follow which.                                          *)
Transitions == [suspended |-> {"active"}, active |-> {"suspended"},
                decommissioned |-> {"active", "suspended"}]

MachinesTypeOK ==
  /\ member \subseteq User
  /\ status \in [Agent -> {None, "active", "suspended", "decommissioned", "deleted"}]
  /\ sponsor \in [Agent -> User \cup {None}]
  /\ key \in [ApiKey -> {None, "live", "revoked"}]
  /\ late \cup used \cup touch \subseteq ApiKey
  /\ service \in [Service -> {None, "enabled", "disabled"}]
  /\ token \subseteq Token
  /\ req \in [Request ->
       {Idle} \cup [at : {"create"}, to : User]
         \cup [at : {"transfer"}, from : User, to : User]
         \cup [at : {"move"}, agent : Agent, target : DOMAIN Transitions]
         \cup [at : {"asked", "issue"}, of : Agent \cup Service, out : BOOLEAN]
         \cup [at : {"called", "let in"}, of : Bearer, by : Token \cup {None}, out : BOOLEAN]]

MachinesInit ==
  /\ member = User
  /\ status = [a \in Agent |-> None]
  /\ sponsor = [a \in Agent |-> None]
  /\ key = [k \in ApiKey |-> None]
  /\ late = {} /\ used = {} /\ touch = {}
  /\ service = [s \in Service |-> None]
  /\ token = {}
  /\ req = [r \in Request |-> Idle]
  /\ final = {}

agentVars == <<status, sponsor>>
keyVars == <<key, late, used, touch>>

-----------------------------------------------------------------------------
Begin(r, q) == req[r] = Idle /\ req' = [req EXCEPT ![r] = q]
At(r, at) == req[r].at = at
Return(r) == req' = [req EXCEPT ![r] = Idle]

(* Roles grants or takes away a user's last role in the tenant.            *)
ChangeMembership(u) ==
  /\ member' = (member \ {u}) \cup ({u} \ member)
  /\ UNCHANGED <<agentVars, keyVars, service, token, req, final>>

(* Create and TransferSponsor first ask whether the sponsor is a member.   *)
SponsorBelongsToTenant(r, u, q) ==
  /\ u \in member
  /\ Begin(r, q)
  /\ UNCHANGED <<member, agentVars, keyVars, service, token, final>>

(* ... Create then inserts the row, active by default.                     *)
CreateAgent(r, a) ==
  /\ At(r, "create")
  /\ status[a] = None
  /\ status' = [status EXCEPT ![a] = "active"]
  /\ sponsor' = [sponsor EXCEPT ![a] = req[r].to]
  /\ Return(r)
  /\ UNCHANGED <<member, keyVars, service, token, final>>

(* ... TransferSponsor moves all agents that are not decommissioned.       *)
TransferAgentSponsor(r) ==
  /\ At(r, "transfer")
  /\ sponsor' = [a \in Agent |->
       IF sponsor[a] = req[r].from /\ status[a] \in {"active", "suspended"}
       THEN req[r].to ELSE sponsor[a]]
  /\ Return(r)
  /\ UNCHANGED <<member, status, keyVars, service, token, final>>

(* Mutant: an agent may be resumed from any status.                        *)
ResumesAnything(cur, target) == cur \in Transitions[target] \/ target = "active"

(* A change to the status the agent has is no change.                      *)
ValidateTransition(cur, target) == cur \in Transitions[target]

(* transition: the status is read and checked,                             *)
GetAgentStatus(r, a, target) ==
  /\ ValidateTransition(status[a], target)
  /\ Begin(r, [at |-> "move", agent |-> a, target |-> target])
  /\ UNCHANGED <<member, agentVars, keyVars, service, token, final>>

(* A resumed agent is let in again.                                        *)
LetIn(Q) ==
  req' = [r \in Request |->
    IF "of" \in DOMAIN Q[r] /\ Q[r].of \in Agent /\ status'[Q[r].of] = "active"
    THEN [Q[r] EXCEPT !.out = FALSE] ELSE Q[r]]

(* Nobody is on the way to change the agent's status any more.             *)
Settled(a) ==
  /\ status[a] = "decommissioned"
  /\ \A r \in Request : At(r, "move") => req[r].agent # a

(* ... and written over whatever the row, if it is there, says now.        *)
Transition(r) ==
  LET a == req[r].agent IN
  /\ At(r, "move")
  /\ status' = [status EXCEPT ![a] = IF @ = "deleted" THEN @ ELSE req[r].target]
  /\ LetIn([req EXCEPT ![r] = Idle])
  /\ final' = final \cup {b \in Agent : Settled(b)'}
  /\ UNCHANGED <<member, sponsor, keyVars, service, token>>

DeleteAgent(a) ==
  /\ status[a] \notin {None, "deleted"}
  /\ status' = [status EXCEPT ![a] = "deleted"]
  /\ UNCHANGED <<member, sponsor, keyVars, service, token, req, final>>

(* KillAll: one statement suspends every active agent.                     *)
KillAllAgents ==
  /\ \E a \in Agent : status[a] = "active"
  /\ status' = [a \in Agent |-> IF status[a] = "active" THEN "suspended" ELSE status[a]]
  /\ UNCHANGED <<member, sponsor, keyVars, service, token, req, final>>

-----------------------------------------------------------------------------
CreateAPIKey(k) ==
  /\ key[k] = None
  /\ key' = [key EXCEPT ![k] = "live"]
  /\ UNCHANGED <<member, agentVars, late, used, touch, service, token, req, final>>

RevokeAPIKey(k) ==
  /\ key[k] = "live"
  /\ key' = [key EXCEPT ![k] = "revoked"]
  /\ UNCHANGED <<member, agentVars, late, used, touch, service, token, req, final>>

(* The goroutine's statement, at any time after the check, or never.       *)
TouchAPIKeyLastUsed(k, done) ==
  /\ k \in touch
  /\ touch' = touch \ {k}
  /\ used' = IF done THEN used \cup {k} ELSE used
  /\ UNCHANGED <<member, agentVars, key, late, service, token, req, final>>

CreateServicePrincipal(s) ==
  /\ service[s] = None
  /\ service' = [service EXCEPT ![s] = "enabled"]
  /\ UNCHANGED <<member, agentVars, keyVars, token, req, final>>

DisableServicePrincipal(s) ==
  /\ service[s] = "enabled"
  /\ service' = [service EXCEPT ![s] = "disabled"]
  /\ UNCHANGED <<member, agentVars, keyVars, token, req, final>>

-----------------------------------------------------------------------------
(* What a credential's row says.                                           *)
AgentStatus(a) == status[a] = "active"
GetServicePrincipalForAuth(s) == service[s] = "enabled"
NotRevoked(k) == key[k] = "live"

Good(b) ==
  \/ b \in Agent /\ AgentStatus(b)
  \/ b \in Service /\ GetServicePrincipalForAuth(b)
  \/ b \in ApiKey /\ NotRevoked(b)

Exists(b) ==
  \/ b \in Agent /\ status[b] # None
  \/ b \in Service /\ service[b] # None
  \/ b \in ApiKey /\ key[b] # None

(* A request for a token arrives; out: its credential was withdrawn before.*)
AskToken(r, b) ==
  /\ b \in Agent \cup Service /\ Exists(b)
  /\ Begin(r, [at |-> "asked", of |-> b, out |-> ~Good(b)])
  /\ UNCHANGED <<member, agentVars, keyVars, service, token, final>>

(* IssueToken and IssueClientCredentials: the row is read once, the secret *)
(* compared,                                                               *)
GetForToken(r) ==
  /\ At(r, "asked")
  /\ req' = [req EXCEPT ![r] = IF Good(req[r].of) THEN [@ EXCEPT !.at = "issue"] ELSE Idle]
  /\ UNCHANGED <<member, agentVars, keyVars, service, token, final>>

(* ... and a token signed that lives for minutes.                          *)
IssueToken(r) ==
  /\ At(r, "issue")
  /\ token' = token \cup {[of |-> req[r].of, exchanged |-> FALSE]}
  /\ Return(r)
  /\ UNCHANGED <<member, agentVars, keyVars, service, final>>

(* TokenExchange (oidc.go) by some client: any token that verifies buys    *)
(* one with its subject and no agent_id, for a full life.                  *)
TokenExchange(x) ==
  /\ x \in token
  /\ token' = token \cup {[x EXCEPT !.exchanged = TRUE]}
  /\ UNCHANGED <<member, agentVars, keyVars, service, req, final>>

Expire(x) ==
  /\ x \in token
  /\ token' = token \ {x}
  /\ UNCHANGED <<member, agentVars, keyVars, service, req, final>>

KeyExpires(k) ==
  /\ key[k] # None /\ k \notin late
  /\ late' = late \cup {k}
  /\ UNCHANGED <<member, agentVars, key, used, touch, service, token, req, final>>

(* A request arrives with an API key or with a token.                      *)
Call(r, b, x) ==
  /\ Exists(b)
  /\ IF b \in ApiKey THEN x = None ELSE x \in token /\ x.of = b
  /\ Begin(r, [at |-> "called", of |-> b, by |-> x, out |-> ~Good(b)])
  /\ UNCHANGED <<member, agentVars, keyVars, service, token, final>>

(* Verify of an API key: the row, if it is not revoked, the secret, then   *)
(* its expiry; it is marked used on the side.                              *)
VerifyAPIKey(r) ==
  LET k == req[r].of IN
  /\ At(r, "called") /\ k \in ApiKey
  /\ \/ /\ Good(k) /\ k \notin late
        /\ req' = [req EXCEPT ![r].at = "let in"]
        /\ touch' = touch \cup {k}
     \/ (~Good(k) \/ k \in late) /\ Return(r) /\ UNCHANGED touch
  /\ UNCHANGED <<member, agentVars, key, late, used, service, token, final>>

(* Mutant: the status is asked for tokens of agents that were exchanged.   *)
AsksExchanged(x) == x.of \in Agent /\ x.exchanged

(* RequireAuth asks for the status if the token has an agent_id.           *)
AsksStatus(x) == x.of \in Agent /\ ~x.exchanged

(* RequireAuth: the signature and the expiry, then the agent's status.     *)
RequireAuth(r) ==
  LET x == req[r].by IN
  /\ At(r, "called") /\ x # None
  /\ IF x \in token /\ (AsksStatus(x) => Good(x.of))
     THEN req' = [req EXCEPT ![r].at = "let in"]
     ELSE Return(r)
  /\ UNCHANGED <<member, agentVars, keyVars, service, token, final>>

Serve(r) ==
  /\ At(r, "let in")
  /\ Return(r)
  /\ UNCHANGED <<member, agentVars, keyVars, service, token, final>>

-----------------------------------------------------------------------------
MachinesNext ==
  \/ KillAllAgents
  \/ \E u \in User : ChangeMembership(u)
  \/ \E a \in Agent : DeleteAgent(a)
  \/ \E k \in ApiKey : CreateAPIKey(k) \/ RevokeAPIKey(k) \/ KeyExpires(k)
  \/ \E k \in ApiKey, done \in BOOLEAN : TouchAPIKeyLastUsed(k, done)
  \/ \E s \in Service : CreateServicePrincipal(s) \/ DisableServicePrincipal(s)
  \/ \E x \in token : TokenExchange(x) \/ Expire(x)
  \/ \E r \in Request :
       \/ \E u \in User : SponsorBelongsToTenant(r, u, [at |-> "create", to |-> u])
       \/ \E u, v \in User :
            SponsorBelongsToTenant(r, v, [at |-> "transfer", from |-> u, to |-> v])
       \/ \E a \in Agent :
            \/ CreateAgent(r, a)
            \/ \E target \in DOMAIN Transitions : GetAgentStatus(r, a, target)
       \/ \E b \in Bearer : AskToken(r, b) \/ \E x \in token \cup {None} : Call(r, b, x)
       \/ TransferAgentSponsor(r) \/ Transition(r) \/ GetForToken(r) \/ IssueToken(r)
       \/ VerifyAPIKey(r) \/ RequireAuth(r) \/ Serve(r)

MachinesSpec == MachinesInit /\ [][MachinesNext]_vars

-----------------------------------------------------------------------------
(* Properties                                                              *)

(* The credential itself says whose it is: an API key, or a token that was *)
(* issued to the agent.                                                    *)
Known(r) == req[r].of \in ApiKey \/ (req[r].of \in Agent /\ ~req[r].by.exchanged)

(* A request that arrives after its agent was suspended, decommissioned or *)
(* deleted, or its API key revoked, is not let in unless the agent is      *)
(* resumed meanwhile, although the token was issued before or while that   *)
(* happened; nor does one buy a token.  Tokens of service principals and   *)
(* tokens that were exchanged live on until they expire.                   *)
WithdrawnIsOut ==
  \A r \in Request :
    /\ At(r, "issue") => ~req[r].out
    /\ (At(r, "let in") /\ Known(r)) => ~req[r].out

(* "terminal": an agent that is decommissioned while no other change of it *)
(* is under way stays so, or is deleted.                                   *)
DecommissionIsFinal == \A a \in final : status[a] \in {"decommissioned", "deleted"}

=============================================================================
