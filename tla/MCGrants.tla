------------------------------ MODULE MCGrants ------------------------------
(* Small instances of OAuthTokens, GrantTickets, the signing keys, and of  *)
(* what reads the audit log and the tables: evidence runs, anomaly sweeps  *)
(* and activity streams.  A redemption of GrantTickets is Redeemed in      *)
(* OAuthTokens, which needs nothing of it but the pair; otherwise the      *)
(* parts share no state, and each runs while the others stand still.       *)
EXTENDS OAuthTokens, FiniteSets, TLC

CONSTANTS User, Client, Scope, Ticket, Registered, Foreign,
          Key, MaxToken,  \* bound: tokens that are out at a time
          Framework, BreachEnabled, MaxChanges, MaxFault,
          Observed, Settings,
          Tenant, Stream, HomeOf, MaxEvent, subBufSize

VARIABLES
  part, \* what runs
  consent, row, consumed, gexpired, recent, glock, gpc, work, approved, issued, gcrashes,
  active, verifiers, signing, retired, made, answered, saved, lost, token, req,
  table, framework, next, efirst, verdict, good, bad, unheard, stored, changes, efaults,
  logged, scored, baseline, lock, anomaly, settings, awork, compared, clashed, closed, afaults,
  array, size, about, walk, leave, buffer, taken, conn, owed, raced

G == INSTANCE GrantTickets WITH
  expired <- gexpired, rowLock <- glock, pc <- gpc, crashes <- gcrashes

(* NULL is none of the ids, no row, no status.                                     *)
ASSUME GrantsAssumption ==
  /\ None \notin User \cup Client \cup Ticket \cup Framework \cup G!TicketRow
  /\ None \notin [Request -> Nat]
  /\ None \notin {"open", "resolved", "none", "weak", "good", "failed"}
  /\ Registered \in [Client -> SUBSET Scope]
  /\ HomeOf \in [Stream -> Tenant]
  /\ subBufSize \in Nat \ {0}

K == INSTANCE SigningKeys WITH Process <- Pair

E == INSTANCE Evidence WITH
  MaxFaults <- MaxFault, first <- efirst, faults <- efaults

(* Events and workers borrow the names of requests and pairs.              *)
N == INSTANCE Anomaly WITH
  Event <- Request, Of <- Observed, Worker <- Pair,
  work <- awork, faults <- afaults

S == INSTANCE Activity

ticketVars == <<consent, row, consumed, gexpired, recent, glock, gpc, work,
                approved, issued, gcrashes>>
keyVars == <<active, verifiers, signing, retired, made, answered, saved, lost, token, req>>
runVars == <<table, framework, next, efirst, verdict, good, bad, unheard, stored, changes, efaults>>
sweepVars == <<logged, scored, baseline, lock, anomaly, settings, awork,
               compared, clashed, closed, afaults>>
hubVars == <<array, size, about, walk, leave, buffer, taken, conn, owed, raced>>
grantVars == <<vars, ticketVars>>
readerVars == <<keyVars, runVars, sweepVars, hubVars>>
allVars == <<part, grantVars, readerVars>>

(* One client is registered for every scope, the other, of another tenant, *)
(* for none.                                                               *)
MCRegistered == [c \in Client |-> IF c = "rp" THEN Scope ELSE {}]
MCForeign == User \X {"other"}

MCHomeOf == [s \in Stream |-> CHOOSE t \in Tenant : TRUE]

(* Keys and streams are numbered, and used in their order.                 *)
InOrder(used) == \E n \in 0..Cardinality(used) : used = 1..n

(* Both events are of one actor.                                           *)
MCObserved == [e \in Request |-> [actor |-> "a", action |-> e, hour |-> 1, ip |-> None]]
MCSettings == [enabled : BOOLEAN, threshold : {5}, min : {0}]

(* What changes before a control is asked for may as well change just then.*)
Asked == IF framework = None \/ next \notin DOMAIN E!Controls(framework) THEN {}
         ELSE LET control == E!Controls(framework)[next] IN {control[j] : j \in DOMAIN control}
WhenAsked ==
  \A q \in E!Query : table'[q] # table[q] =>
    \E p \in Asked : p = q \/ <<p, q>> \in E!SameRow \/ <<q, p>> \in E!SameRow

(* A part that stands still has one initial state.                         *)
GrantsInit ==
  /\ part \in {"tokens", "tickets", "keys", "evidence", "anomaly", "activity"}
  /\ Init /\ G!Init
  /\ K!SigningInit /\ E!EvidenceInit /\ N!AnomalyInit /\ S!ActivityInit
  /\ settings \in Settings
  /\ part # "anomaly" => settings.enabled
  /\ signing = 1
  /\ part # "evidence" => \A q \in E!Query : table[q] = None

GrantsNext ==
  /\ UNCHANGED part
  /\ \/ /\ UNCHANGED readerVars
        /\ \/ part = "tokens" /\ Next /\ UNCHANGED ticketVars
           \/ part = "tickets" /\ G!Next /\ UNCHANGED vars
     \/ /\ UNCHANGED grantVars
        /\ \/ /\ part = "keys" /\ K!SigningNext
              /\ InOrder(made') /\ Cardinality(token') <= MaxToken
              /\ UNCHANGED <<runVars, sweepVars, hubVars>>
           \/ /\ part = "evidence" /\ stored = None /\ E!EvidenceNext /\ WhenAsked
              /\ UNCHANGED <<keyVars, sweepVars, hubVars>>
           \/ /\ part = "anomaly" /\ N!AnomalyNext
              /\ UNCHANGED <<keyVars, runVars, hubVars>>
           \/ /\ part = "activity" /\ S!ActivityNext
              /\ InOrder({s \in Stream : conn'[s] # "new"})
              /\ UNCHANGED <<keyVars, runVars, sweepVars>>

GrantsSpec == GrantsInit /\ [][GrantsNext]_allVars

(* Handlers and pairs are interchangeable.                                 *)
Symmetry == Permutations(Request) \cup Permutations(Pair)

(* GrantTickets: a ticket buys one token response at most.                 *)
IssuedOnce == G!IssuedOnce

(* GrantTickets: tokens carry only scopes their user approved.             *)
IssuedWasApproved == G!IssuedWasApproved

(* GrantTickets: a ticket denied before its redemption is never redeemed.  *)
DeniedNeverRedeemed == G!DeniedNeverRedeemed

(* GrantTickets: a ticket is a grant answered once, for what was granted.  *)
GrantsAreOneTime == G!ImplementsOneTimeGrant

(* SigningKeys: what a process signed verifies there through rotations.    *)
RotationKeepsTokens == part = "keys" => K!RotationKeepsTokens

(* Evidence: a control passes or fails for what was so during the run.     *)
(* Anomaly: a scored event is in its actor's baseline, and an anomaly that *)
(* was resolved stays so.                                                  *)
(* Activity: a stream has the events of its tenant in their order, and the *)
(* newest of them.                                                         *)
ReportsAreTrue ==
  /\ part = "evidence" => E!PassIsConfirmed /\ E!FailIsConfirmed
  /\ part = "anomaly" => N!ScoredIsCounted /\ N!ResolvedStaysResolved
  /\ part = "activity" => S!InOrder /\ S!NewestIsKept

=============================================================================
