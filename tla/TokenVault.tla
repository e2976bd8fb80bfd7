------------------------------ MODULE TokenVault ------------------------------
(***************************************************************************)
(* The vault of third-party tokens.  A user connects an account at an      *)
(* outside provider: a state row is stored, the browser comes back with    *)
(* the state and a code, the state row is deleted and the code exchanged   *)
(* for tokens, which are upserted as the user's grant.  Whoever asks for   *)
(* an access token gets the stored one, or, when it is about to expire,    *)
(* one that is fetched with the stored refresh token and stored first.     *)
(* Neither path holds anything across the call to the provider.            *)
(***************************************************************************)
EXTENDS Naturals, FiniteSets

CONSTANTS User,
          Ceremony,   \* values of state, never drawn twice
          Request,    \* callbacks and calls of the access-token endpoint
          None

VARIABLES
  registered,  \* whether the provider is registered for the tenant
  begun,       \* the connect states: whose they are, None when there is none
  drawn, due,  \* states that were ever stored; those past expires_at
  grant,       \* per user the stored tokens, None when not connected
  req,         \* what each request is doing
  exchanged,   \* history: how often the callback of each state went to the provider
  handed       \* history: <<user, ceremony>>: whose token was handed to whom

vars == <<registered, begun, drawn, due, grant, req, exchanged, handed>>

(* Tokens are told apart by the ceremony they descend from.                *)
Grant == [access : Ceremony, refresh : Ceremony \cup {None}, expired : BOOLEAN]
Idle == [at |-> "idle"]

VaultInit ==
  /\ registered = FALSE
  /\ begun = [c \in Ceremony |-> None]
  /\ drawn = {} /\ due = {}
  /\ grant = [u \in User |-> None]
  /\ req = [r \in Request |-> Idle]
  /\ exchanged = [c \in Ceremony |-> 0]
  /\ handed = {}

VaultTypeOK ==
  /\ registered \in BOOLEAN
  /\ begun \in [Ceremony -> User \cup {None}]
  /\ drawn \subseteq Ceremony /\ due \subseteq drawn
  /\ grant \in [User -> Grant \cup {None}]
  /\ \A r \in Request : req[r].at \in {"idle", "state", "exchange", "refresh", "store"}
  /\ exchanged \in [Ceremony -> 0 .. Cardinality(Request)]
  /\ handed \subseteq User \X Ceremony

Becomes(r, w) == req' = [req EXCEPT ![r] = w]

-----------------------------------------------------------------------------
(* Administration.  Registering again replaces the configuration; grants   *)
(* and states are kept when it goes.                                       *)
UpsertProvider == registered' = TRUE
RegisterProvider == UpsertProvider /\ UNCHANGED <<begun, drawn, due, grant, req, exchanged, handed>>
DeleteProvider ==
  /\ registered /\ registered' = FALSE
  /\ UNCHANGED <<begun, drawn, due, grant, req, exchanged, handed>>

GetProviderConfig == registered

BeginConnect(u, c) ==
  /\ GetProviderConfig /\ c \notin drawn
  /\ begun' = [begun EXCEPT ![c] = u]
  /\ drawn' = drawn \cup {c}
  /\ UNCHANGED <<registered, due, grant, req, exchanged, handed>>

Lapse(c) ==
  /\ c \in drawn \ due
  /\ due' = due \cup {c}
  /\ UNCHANGED <<registered, begun, drawn, grant, req, exchanged, handed>>

(* An access token comes to its end.                                       *)
Expire(u) ==
  /\ grant[u] # None /\ ~grant[u].expired
  /\ grant' = [grant EXCEPT ![u].expired = TRUE]
  /\ UNCHANGED <<registered, begun, drawn, due, req, exchanged, handed>>

-----------------------------------------------------------------------------
(* The callback.  Reading the state and deleting it is one statement; the  *)
(* provider's configuration is read after it.                              *)
(* Mutant: the state is read, and deleted with the grant.                  *)
StateStays(c) == begun
StateTaken(c) == [begun EXCEPT ![c] = None]

DeleteConnectState(r, c) ==
  /\ req[r] = Idle
  /\ begun[c] # None
  /\ begun' = StateTaken(c)
  /\ IF c \in due THEN UNCHANGED req
     ELSE Becomes(r, [at |-> "exchange", c |-> c, user |-> begun[c]])
  /\ UNCHANGED <<registered, drawn, due, grant, exchanged, handed>>

(* The provider exchanges the code, with a refresh token or without.       *)
FinishConnect(r, refreshable) ==
  /\ req[r].at = "exchange" /\ GetProviderConfig
  /\ exchanged' = [exchanged EXCEPT ![req[r].c] = @ + 1]
  /\ Becomes(r, [at |-> "store", user |-> req[r].user, access |-> req[r].c,
                 refresh |-> IF refreshable THEN req[r].c ELSE None, answer |-> FALSE])
  /\ UNCHANGED <<registered, begun, drawn, due, grant, handed>>

(* UpsertTokenGrant: an update keeps the refresh token when there is no    *)
(* new one.  A refresh hands the new token out when it is stored.          *)
Kept(u, new) == IF new # None \/ grant[u] = None THEN new ELSE grant[u].refresh

StoreGrant(r) ==
  /\ req[r].at = "store"
  /\ LET u == req[r].user IN
       /\ grant' = [grant EXCEPT ![u] =
                      [access |-> req[r].access, refresh |-> Kept(u, req[r].refresh), expired |-> FALSE]]
       /\ handed' = IF req[r].answer THEN handed \cup {<<u, req[r].access>>} ELSE handed
  /\ Becomes(r, Idle)
  /\ UNCHANGED <<registered, begun, drawn, due, exchanged>>

-----------------------------------------------------------------------------
(* The access-token endpoint: the stored token, or a refreshed one.        *)
GetTokenGrant(r, u) ==
  /\ req[r] = Idle /\ grant[u] # None
  /\ IF ~grant[u].expired
     THEN handed' = handed \cup {<<u, grant[u].access>>} /\ UNCHANGED req
     ELSE /\ grant[u].refresh # None
          /\ Becomes(r, [at |-> "refresh", user |-> u, refresh |-> grant[u].refresh])
          /\ UNCHANGED handed
  /\ UNCHANGED <<registered, begun, drawn, due, grant, exchanged>>

(* The provider answers with tokens of the connection the refresh token is *)
(* of; when it sends no refresh token the one at hand is stored again.     *)
GetAccessToken(r) ==
  /\ req[r].at = "refresh" /\ GetProviderConfig
  /\ Becomes(r, [at |-> "store", user |-> req[r].user, access |-> req[r].refresh,
                 refresh |-> req[r].refresh, answer |-> TRUE])
  /\ UNCHANGED <<registered, begun, drawn, due, grant, exchanged, handed>>

(* No configuration, a refusal of the provider, a failed statement.        *)
Fails(r) ==
  /\ req[r] # Idle
  /\ Becomes(r, Idle)
  /\ UNCHANGED <<registered, begun, drawn, due, grant, exchanged, handed>>

Disconnect(u) ==
  /\ grant[u] # None
  /\ grant' = [grant EXCEPT ![u] = None]
  /\ UNCHANGED <<registered, begun, drawn, due, req, exchanged, handed>>

VaultNext ==
  \/ RegisterProvider \/ DeleteProvider
  \/ \E u \in User : Expire(u) \/ Disconnect(u) \/ \E c \in Ceremony : BeginConnect(u, c)
  \/ \E c \in Ceremony : Lapse(c)
  \/ \E r \in Request :
       \/ \E c \in Ceremony : DeleteConnectState(r, c)
       \/ \E u \in User : GetTokenGrant(r, u)
       \/ \E refreshable \in BOOLEAN : FinishConnect(r, refreshable)
       \/ StoreGrant(r) \/ GetAccessToken(r) \/ Fails(r)

-----------------------------------------------------------------------------
(* tokenvault.go: the state is single-use and says whose the account is.   *)
(* However callbacks, refreshes and disconnections overlap, a state is     *)
(* taken to the provider once, and nobody is handed a token of a           *)
(* connection that somebody else began.                                    *)
ConnectedOnce ==
  /\ \A c \in Ceremony : exchanged[c] <= 1
  /\ \A h, g \in handed : h[2] = g[2] => h[1] = g[1]
=============================================================================
