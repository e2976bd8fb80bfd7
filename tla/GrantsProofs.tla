----------------------------- MODULE GrantsProofs -----------------------------
(***************************************************************************)
(* Proofs about OAuth tokens, grant tickets, signing keys and the readers  *)
(* of what was recorded (evidence runs, anomaly sweeps, streams), and that *)
(* the composition of MCGrants keeps what each of them keeps.  The         *)
(* constants are arbitrary: any number of handlers, rows, keys, streams    *)
(* and failures.                                                           *)
(***************************************************************************)
EXTENDS MCGrants, SequenceTheorems, TLAPS

-----------------------------------------------------------------------------
(* OAuthTokens, for any number of pairs, tokens and handlers.              *)
(* A rotation holds the row of a token that is neither used nor revoked:   *)
(* what Verdict read under the lock stays true until the commit.           *)
RotationHolds ==
  \A r \in Request : pc[r] = "rotate" =>
    /\ tok[r] \in Token
    /\ rowLock[tok[r]] = r
    /\ owner[tok[r]] # None
    /\ pair[r] = owner[tok[r]]
    /\ ~Used(tok[r])
    /\ tok[r] \notin revoked

IssueKnowsPair == \A r \in Request : pc[r] = "issue" => pair[r] # None

(* Rows carry what was inserted with them, and grants start at a row.      *)
Stored ==
  \A t \in Token :
    /\ owner[t] = None => first[t] = None /\ replacedBy[t] = None
    /\ owner[t] # None => first[t] # None
    /\ first[t] # None => owner[first[t]] # None

IInv == TypeOK /\ RotationHolds /\ IssueKnowsPair /\ Stored /\ OneUnusedPerGrant

(* The row inserted next is one that is not stored.                        *)
LEMMA NewRowUnstored ==
  ASSUME Unstored # {}
  PROVE  NewRow \in Token /\ owner[NewRow] = None
  BY DEF Unstored, NewRow

LEMMA InitHolds == Init => IInv
  BY OAuthTokensAssumption
  DEF Init, IInv, TypeOK, RotationHolds, IssueKnowsPair, Stored, OneUnusedPerGrant, Used

(* A handler that starts, or goes on without writing rows.                 *)
LEMMA GoPreserves ==
  ASSUME IInv, NEW r \in Request, NEW at \in {"idle", "issue", "refuse", "reuse", "update"},
         NEW t \in Token \cup {None}, NEW p \in Pair \cup {None}, NEW rows \in SUBSET Token,
         at = "issue" => p # None,
         Go(r, at, t, p, rows), UNCHANGED <<rowVars, rowLock, histVars>>
  PROVE  IInv'
  <1> USE OAuthTokensAssumption
  <1>1. TypeOK'
    BY DEF IInv, TypeOK, Go, rowVars, histVars
  <1>2. RotationHolds'
    BY DEF IInv, TypeOK, RotationHolds, Go, Used, rowVars, histVars
  <1>3. IssueKnowsPair'
    BY DEF IInv, TypeOK, IssueKnowsPair, Go, rowVars, histVars
  <1>4. Stored' /\ OneUnusedPerGrant'
    BY DEF IInv, Stored, OneUnusedPerGrant, Used, rowVars, histVars
  <1> QED
    BY <1>1, <1>2, <1>3, <1>4 DEF IInv

(* A handler that ends without writing rows.                               *)
LEMMA FinishPreserves ==
  ASSUME IInv, NEW r \in Request, Finish(r), UNCHANGED <<rowVars, first>>,
         crashes' \in 0..MaxCrash
  PROVE  IInv'
  <1> USE OAuthTokensAssumption
  <1>1. TypeOK'
    BY DEF IInv, TypeOK, Finish, Go, rowVars
  <1>2. RotationHolds'
    BY DEF IInv, TypeOK, RotationHolds, Finish, Go, Used, rowVars
  <1>3. IssueKnowsPair'
    BY DEF IInv, TypeOK, IssueKnowsPair, Finish, Go
  <1>4. Stored' /\ OneUnusedPerGrant'
    BY DEF IInv, Stored, OneUnusedPerGrant, Used, rowVars
  <1> QED
    BY <1>1, <1>2, <1>3, <1>4 DEF IInv

LEMMA IssuePreserves ==
  ASSUME IInv, NEW r \in Request, IssueRefreshToken(r)
  PROVE  IInv'
  <1> USE OAuthTokensAssumption
  <1>1. PICK t \in Token : t = NewRow /\ owner[t] = None
    BY NewRowUnstored DEF IssueRefreshToken
  <1>2. /\ pc[r] = "issue"
        /\ owner' = [owner EXCEPT ![t] = pair[r]]
        /\ first' = [first EXCEPT ![t] = t]
        /\ Finish(r)
        /\ UNCHANGED <<replacedBy, revoked, expired, crashes>>
    BY <1>1 DEF IssueRefreshToken
  <1>3. pair[r] \in Pair /\ pair[r] # None
    BY <1>2 DEF IInv, TypeOK, IssueKnowsPair
  <1>4. TypeOK'
    BY <1>2, <1>3 DEF IInv, TypeOK, Finish, Go
  <1>5. RotationHolds'
    BY <1>1, <1>2, <1>3 DEF IInv, TypeOK, RotationHolds, Finish, Go, Used
  <1>6. IssueKnowsPair'
    BY <1>2 DEF IInv, TypeOK, IssueKnowsPair, Finish, Go
  <1>7. Stored'
    BY <1>1, <1>2, <1>3 DEF IInv, TypeOK, Stored
  <1>8. \A u \in Token : first[u] # t
    BY <1>1 DEF IInv, TypeOK, Stored
  <1>9. OneUnusedPerGrant'
    BY <1>1, <1>2, <1>8 DEF IInv, TypeOK, OneUnusedPerGrant, Used
  <1> QED
    BY <1>4, <1>5, <1>6, <1>7, <1>9 DEF IInv

LEMMA RefreshLockPreserves ==
  ASSUME IInv, NEW r \in Request, NEW own \in BOOLEAN, NEW t \in Token,
         RefreshLock(r, own, t)
  PROVE  IInv'
  <1> USE OAuthTokensAssumption
  <1>1. Verdict(t, own) \in {"refuse", "reuse", "rotate"}
    BY DEF Verdict
  <1>2. Verdict(t, own) = "rotate" => ~Used(t) /\ t \notin revoked
    BY DEF Verdict
  <1>3. PICK v \in {"refuse", "reuse", "rotate"} :
          /\ v = "rotate" => ~Used(t) /\ t \notin revoked
          /\ Go(r, v, t, owner[t], {})
    BY <1>1, <1>2 DEF RefreshLock
  <1>4. /\ owner[t] \in Pair
        /\ rowLock[t] = None
        /\ rowLock' = [rowLock EXCEPT ![t] = r]
        /\ UNCHANGED <<rowVars, histVars>>
    BY DEF IInv, TypeOK, RefreshLock
  <1>5. TypeOK'
    BY <1>3, <1>4 DEF IInv, TypeOK, Go, rowVars, histVars
  <1>6. RotationHolds'
    BY <1>3, <1>4 DEF IInv, TypeOK, RotationHolds, Go, Used, rowVars, histVars
  <1>7. IssueKnowsPair'
    BY <1>3 DEF IInv, TypeOK, IssueKnowsPair, Go
  <1>8. Stored' /\ OneUnusedPerGrant'
    BY <1>4 DEF IInv, Stored, OneUnusedPerGrant, Used, rowVars, histVars
  <1> QED
    BY <1>5, <1>6, <1>7, <1>8 DEF IInv

LEMMA RotatePreserves ==
  ASSUME IInv, NEW r \in Request, Rotate(r)
  PROVE  IInv'
  <1> USE OAuthTokensAssumption
  <1>1. PICK t \in Token : t = NewRow /\ owner[t] = None
    BY NewRowUnstored DEF Rotate
  <1>2. PICK old \in Token :
          /\ old = tok[r]
          /\ rowLock[old] = r
          /\ owner[old] # None
          /\ pair[r] = owner[old]
          /\ ~Used(old)
    BY DEF IInv, RotationHolds, Rotate
  <1>3. /\ pc[r] = "rotate"
        /\ owner' = [owner EXCEPT ![t] = pair[r]]
        /\ replacedBy' = [replacedBy EXCEPT ![old] = t]
        /\ first' = [first EXCEPT ![t] = first[old]]
        /\ Finish(r)
        /\ UNCHANGED <<revoked, expired, crashes>>
    BY <1>1, <1>2 DEF Rotate
  <1>4. t # old /\ pair[r] \in Pair /\ replacedBy[t] = None /\ first[old] # None
    BY <1>1, <1>2 DEF IInv, TypeOK, Stored
  <1>5. TypeOK'
    BY <1>3, <1>4 DEF IInv, TypeOK, Finish, Go
  <1>6. RotationHolds'
    BY <1>1, <1>2, <1>3, <1>4 DEF IInv, TypeOK, RotationHolds, Finish, Go, Used
  <1>7. IssueKnowsPair'
    BY <1>3 DEF IInv, TypeOK, IssueKnowsPair, Finish, Go
  <1>8. Stored'
    BY <1>1, <1>2, <1>3, <1>4 DEF IInv, TypeOK, Stored
  <1>9. OneUnusedPerGrant'
    BY <1>1, <1>2, <1>3, <1>4 DEF IInv, TypeOK, OneUnusedPerGrant, Stored, Used
  <1> QED
    BY <1>5, <1>6, <1>7, <1>8, <1>9 DEF IInv

LEMMA VisitPreserves ==
  ASSUME IInv, NEW r \in Request, NEW t \in Token, Visit(r, t)
  PROVE  IInv'
  <1> USE OAuthTokensAssumption
  <1>1. TypeOK'
    BY DEF IInv, TypeOK, Visit, rowVars, histVars
  <1>2. RotationHolds'
    BY DEF IInv, TypeOK, RotationHolds, Visit, Used, rowVars, histVars
  <1>3. IssueKnowsPair' /\ Stored' /\ OneUnusedPerGrant'
    BY DEF IInv, IssueKnowsPair, Stored, OneUnusedPerGrant, Visit, Used, rowVars, histVars
  <1> QED
    BY <1>1, <1>2, <1>3 DEF IInv

LEMMA CommitPreserves ==
  ASSUME IInv, NEW r \in Request, Commit(r)
  PROVE  IInv'
  <1> USE OAuthTokensAssumption
  <1>1. TypeOK'
    BY DEF IInv, TypeOK, Commit, Finish, Go
  <1>2. RotationHolds'
    BY DEF IInv, TypeOK, RotationHolds, Commit, Finish, Go, Used
  <1>3. IssueKnowsPair'
    BY DEF IInv, TypeOK, IssueKnowsPair, Commit, Finish, Go
  <1>4. Stored' /\ OneUnusedPerGrant'
    BY DEF IInv, Stored, OneUnusedPerGrant, Commit, Used
  <1> QED
    BY <1>1, <1>2, <1>3, <1>4 DEF IInv

LEMMA RevokeTokenPreserves ==
  ASSUME IInv, NEW t \in Token, RevokeToken(t)
  PROVE  IInv'
  <1> USE OAuthTokensAssumption
  <1>1. TypeOK'
    BY DEF IInv, TypeOK, RevokeToken, reqVars, histVars
  <1>2. RotationHolds'
    BY DEF IInv, TypeOK, RotationHolds, RevokeToken, Used, reqVars, histVars
  <1>3. IssueKnowsPair' /\ Stored' /\ OneUnusedPerGrant'
    BY DEF IInv, IssueKnowsPair, Stored, OneUnusedPerGrant, RevokeToken, Used, reqVars, histVars
  <1> QED
    BY <1>1, <1>2, <1>3 DEF IInv

LEMMA ExpirePreserves ==
  ASSUME IInv, NEW t \in Token, Expire(t)
  PROVE  IInv'
  BY DEF IInv, TypeOK, RotationHolds, IssueKnowsPair, Stored, OneUnusedPerGrant,
         Expire, Used, reqVars, histVars

LEMMA CrashPreserves ==
  ASSUME IInv, NEW r \in Request, Crash(r)
  PROVE  IInv'
  <1>1. crashes' \in 0..MaxCrash
    BY OAuthTokensAssumption DEF IInv, TypeOK, Crash
  <1> QED
    BY <1>1, FinishPreserves DEF Crash

LEMMA StepPreserves == IInv /\ [Next]_vars => IInv'
  <1> SUFFICES ASSUME IInv, [Next]_vars PROVE IInv'
    OBVIOUS
  <1>1. CASE UNCHANGED vars
    BY <1>1 DEF vars, rowVars, reqVars, histVars, IInv, TypeOK, RotationHolds,
                IssueKnowsPair, Stored, OneUnusedPerGrant, Used
  <1>2. ASSUME NEW r \in Request, NEW p \in Pair, Redeemed(r, p)
        PROVE  IInv'
    BY <1>2, GoPreserves, OAuthTokensAssumption DEF Redeemed
  <1>3. ASSUME NEW r \in Request, NEW p \in Pair, RevokeGrant(r, p)
        PROVE  IInv'
    <2>1. Snapshot(p) \in SUBSET Token
      BY DEF Snapshot, TokensOf
    <2> QED
      BY <1>3, <2>1, GoPreserves DEF RevokeGrant
  <1>4. ASSUME NEW r \in Request, Reuse(r)
        PROVE  IInv'
    <2>1. Snapshot(pair[r]) \in SUBSET Token /\ pair[r] \in Pair \cup {None}
      BY DEF Snapshot, TokensOf, IInv, TypeOK
    <2> QED
      BY <1>4, <2>1, GoPreserves DEF Reuse
  <1>5. ASSUME NEW r \in Request, RefreshRefuse(r) \/ DeadlockAbort(r)
        PROVE  IInv'
    <2>1. Finish(r) /\ UNCHANGED <<rowVars, first>> /\ crashes' = crashes
      BY <1>5 DEF RefreshRefuse, DeadlockAbort, histVars
    <2> QED
      BY <2>1, FinishPreserves DEF IInv, TypeOK
  <1>6. ASSUME NEW r \in Request, HandlerStep(r)
        PROVE  IInv'
    BY <1>4, <1>5, <1>6, IssuePreserves, RotatePreserves, VisitPreserves,
       CommitPreserves DEF HandlerStep
  <1> QED
    BY <1>1, <1>2, <1>3, <1>6, RefreshLockPreserves, RevokeTokenPreserves,
       ExpirePreserves, CrashPreserves DEF Next

(* The invariant of the proofs holds in every state.                       *)
THEOREM OAuthTokensInvariant == Spec => []IInv
  BY InitHolds, StepPreserves, PTL DEF Spec

(* Every variable of the refresh-token model keeps its type.               *)
THEOREM OAuthTokensTypeCorrect == Spec => []TypeOK
  <1>1. IInv => TypeOK
    BY DEF IInv
  <1> QED
    BY <1>1, OAuthTokensInvariant, PTL

(* However many refreshes, replays and revocations run side by side, a     *)
(* grant never has two tokens that RefreshToken would rotate.              *)
THEOREM RotationIsExclusive == Spec => []OneUnusedPerGrant
  <1>1. IInv => OneUnusedPerGrant
    BY DEF IInv
  <1> QED
    BY <1>1, OAuthTokensInvariant, PTL

(* A step never adds an unrevoked token to a grant whose tokens are all    *)
(* revoked: RefreshToken reads revoked_at under the lock it inserts under. *)
THEOREM RevokedGrantsAreFinal == Spec => DeadGrantStaysDead
  <1> USE DEF Family
  <1>1. ASSUME IInv, [Next]_vars, NEW f \in Token,
               Family(f) # {}, Family(f) \subseteq revoked
        PROVE  Family(f)' \subseteq revoked'
    <2>1. CASE first' = first /\ revoked \subseteq revoked'
      BY <1>1, <2>1
    <2>2. ASSUME NEW r \in Request, IssueRefreshToken(r)
          PROVE  Family(f)' \subseteq revoked'
      <3>1. PICK t \in Token :
              owner[t] = None /\ first' = [first EXCEPT ![t] = t] /\ revoked' = revoked
        BY <2>2, NewRowUnstored DEF IssueRefreshToken
      <3>2. f # t
        BY <1>1, <3>1, OAuthTokensAssumption DEF IInv, TypeOK, Stored
      <3> QED
        BY <1>1, <3>1, <3>2 DEF IInv, TypeOK
    <2>3. ASSUME NEW r \in Request, Rotate(r)
          PROVE  Family(f)' \subseteq revoked'
      <3>1. PICK t \in Token :
              /\ owner[t] = None
              /\ first' = [first EXCEPT ![t] = first[tok[r]]]
              /\ revoked' = revoked
        BY <2>3, NewRowUnstored DEF Rotate
      <3>2. tok[r] \in Token /\ tok[r] \notin revoked
        BY <2>3 , <1>1 DEF Rotate, IInv, RotationHolds
      <3>3. first[tok[r]] # f
        BY <1>1, <3>2
      <3> QED
        BY <1>1, <3>1, <3>3 DEF IInv, TypeOK
    <2>4. CASE UNCHANGED vars
      BY <2>1, <2>4 DEF vars, rowVars, histVars
    <2>5. ASSUME NEW r \in Request, HandlerStep(r)
          PROVE  Family(f)' \subseteq revoked'
      BY <2>1, <2>2, <2>3, <2>5 DEF HandlerStep, Visit, RefreshRefuse, Reuse, Commit,
                                    DeadlockAbort, rowVars, histVars
    <2>6. CASE \/ \E r \in Request, p \in Pair : Redeemed(r, p) \/ RevokeGrant(r, p)
               \/ \E r \in Request, own \in BOOLEAN, t \in Token : RefreshLock(r, own, t)
               \/ \E r \in Request : Crash(r)
               \/ \E t \in Token : RevokeToken(t) \/ Expire(t)
      BY <2>1, <2>6 DEF Redeemed, RevokeGrant, RefreshLock, Crash, RevokeToken, Expire,
                        rowVars, histVars
    <2> QED
      BY <1>1, <2>4, <2>5, <2>6 DEF Next
  <1>2. IInv /\ [Next]_vars => [\A f \in Token : StaysDead(f)]_vars
    BY <1>1 DEF StaysDead
  <1> QED
    BY <1>2, OAuthTokensInvariant, PTL DEF Spec, DeadGrantStaysDead

-----------------------------------------------------------------------------
(* GrantTickets: what a redemption read under the row lock holds until its *)
(* commit, and a ticket that was approved stays so.                        *)

Locks(r) == gpc[r] \in {"refuse", "again", "redeem"}

(* The user the row names has approved the scopes it names.                *)
Approved(x) ==
  /\ row[x] # None
  /\ row[x].user \in User
  /\ row[x].scopes \subseteq approved[<<row[x].user, row[x].client>>]

TicketLockInv ==
  \A r \in Request :
    /\ Locks(r) => work[r] \in Ticket /\ glock[work[r]] = r
    /\ gpc[r] = "redeem" => /\ work[r] \notin consumed
                             /\ row[work[r]] # None /\ row[work[r]].status = "authorized"
    /\ gpc[r] = "issue" => work[r] \in consumed

IssueInv ==
  /\ \A x \in Ticket \ consumed : issued[x] = 0
  /\ \A r \in Request : gpc[r] = "issue" => issued[work[r]] = 0
  /\ \A r, q \in Request : gpc[r] = "issue" /\ gpc[q] = "issue" /\ work[r] = work[q] => r = q
  /\ \A x \in Ticket : issued[x] <= 1

ConsentInv ==
  \A u \in User, c \in Client :
    consent[<<u, c>>] # None => consent[<<u, c>>] \subseteq approved[<<u, c>>]

MintInv ==
  \A r \in Request : gpc[r] = "mint" =>
    /\ work[r] \in G!Ask
    /\ work[r].scopes \subseteq approved[<<work[r].user, work[r].client>>]

DecidedInv ==
  /\ \A x \in Ticket : row[x] # None =>
       /\ row[x].kind = "code" => row[x].status = "authorized"
       /\ row[x].status = "authorized" => Approved(x)
  /\ \A x \in consumed : Approved(x) /\ row[x].status # "pending"

TicketInv == G!TypeOK /\ TicketLockInv /\ IssueInv /\ ConsentInv /\ MintInv /\ DecidedInv

LEMMA TicketInit == G!Init => TicketInv
BY GrantsAssumption, OAuthTokensAssumption
   DEF G!Init, TicketInv, G!TypeOK, TicketLockInv, IssueInv, ConsentInv,
       MintInv, DecidedInv, Locks, Approved, G!TicketRow, G!Ask

(* A decision writes the status, and the user of a device code.            *)
LEMMA TicketFields ==
  ASSUME NEW t \in G!TicketRow
  PROVE  /\ t.kind \in {"code", "device", "ciba"} /\ t.user \in User \cup {None}
         /\ t.client \in Client /\ t.scopes \in SUBSET Scope
         /\ t.status \in {"pending", "authorized", "denied"}
BY DEF G!TicketRow

LEMMA TicketDecided ==
  ASSUME NEW t \in G!TicketRow, NEW s \in {"pending", "authorized", "denied"}
  PROVE  \E n \in G!TicketRow :
           /\ n = [t EXCEPT !.status = s]
           /\ n = [kind |-> t.kind, user |-> t.user, client |-> t.client,
                   scopes |-> t.scopes, status |-> s]
<1>1. [t EXCEPT !.status = s] = [kind |-> t.kind, user |-> t.user, client |-> t.client,
                                 scopes |-> t.scopes, status |-> s]
  BY DEF G!TicketRow
<1>2. [kind |-> t.kind, user |-> t.user, client |-> t.client, scopes |-> t.scopes,
       status |-> s] \in G!TicketRow
  BY TicketFields DEF G!TicketRow
<1> QED BY <1>1, <1>2

LEMMA TicketBound ==
  ASSUME NEW t \in G!TicketRow, NEW u \in User
  PROVE  \E n \in G!TicketRow :
           /\ n = [t EXCEPT !.status = "authorized", !.user = u]
           /\ n = [kind |-> t.kind, user |-> u, client |-> t.client,
                   scopes |-> t.scopes, status |-> "authorized"]
<1>1. PICK m \in G!TicketRow :
        /\ m = [t EXCEPT !.status = "authorized"]
        /\ m = [kind |-> t.kind, user |-> t.user, client |-> t.client,
                scopes |-> t.scopes, status |-> "authorized"]
  BY TicketDecided
<1>2. [m EXCEPT !.user = u] = [kind |-> m.kind, user |-> u, client |-> m.client,
                               scopes |-> m.scopes, status |-> m.status]
  BY DEF G!TicketRow
<1>3. [kind |-> t.kind, user |-> u, client |-> t.client, scopes |-> t.scopes,
       status |-> "authorized"] \in G!TicketRow
  BY TicketFields DEF G!TicketRow
<1>4. [t EXCEPT !.status = "authorized", !.user = u]
        = [[t EXCEPT !.status = "authorized"] EXCEPT !.user = u]
  BY Zenon
<1> QED BY <1>1, <1>2, <1>3, <1>4

LEMMA TicketStep == TicketInv /\ [G!Next]_G!vars => TicketInv'
<1> SUFFICES ASSUME TicketInv, [G!Next]_G!vars PROVE TicketInv'
  OBVIOUS
<1> USE GrantsAssumption, OAuthTokensAssumption DEF G!ticketVars, G!Go, G!Return, G!Unlock, G!Approve
<1>1. ASSUME NEW r \in Request, NEW u \in User, NEW c \in Client, NEW S0 \in SUBSET Scope,
             G!AuthorizePage(r, u, c, S0)
      PROVE  TicketInv'
  <2>1. G!TypeOK'
    BY <1>1 DEF TicketInv, G!TypeOK, G!Ask, G!AuthorizePage, G!HasConsent
  <2>2. TicketLockInv'
    BY <1>1 DEF TicketInv, TicketLockInv, G!TypeOK, Locks, G!AuthorizePage, G!HasConsent
  <2>3. IssueInv'
    BY <1>1 DEF TicketInv, IssueInv, TicketLockInv, G!TypeOK, Locks, G!AuthorizePage,
       G!HasConsent
  <2>4. ConsentInv'
    BY <1>1 DEF TicketInv, ConsentInv, G!TypeOK, G!AuthorizePage, G!HasConsent
  <2>5. MintInv'
    <3>0. /\ gpc' = [gpc EXCEPT ![r] = "mint"]
          /\ work' = [work EXCEPT ![r] = [user |-> u, client |-> c, scopes |-> S0]]
          /\ approved' = approved /\ consent[<<u, c>>] # None /\ S0 \subseteq consent[<<u, c>>]
      BY <1>1 DEF G!AuthorizePage, G!HasConsent
    <3>1. [user |-> u, client |-> c, scopes |-> S0] \in G!Ask
      BY DEF G!Ask
    <3>2. S0 \subseteq approved[<<u, c>>]
      BY <3>0 DEF TicketInv, ConsentInv
    <3>3. MintInv /\ DOMAIN work = Request /\ DOMAIN gpc = Request
      BY DEF TicketInv, G!TypeOK
    <3> QED BY <3>0, <3>1, <3>2, <3>3 DEF MintInv
  <2>6. DecidedInv'
    BY <1>1 DEF TicketInv, DecidedInv, TicketLockInv, Approved, G!TypeOK, Locks,
       G!AuthorizePage, G!HasConsent
  <2> QED BY <2>1, <2>2, <2>3, <2>4, <2>5, <2>6 DEF TicketInv
<1>2. ASSUME NEW r \in Request, NEW u \in User, NEW c \in Client, NEW S0 \in SUBSET Scope,
             G!Decision(r, u, c, S0)
      PROVE  TicketInv'
  <2>1. G!TypeOK'
    BY <1>2 DEF TicketInv, G!TypeOK, G!Ask, G!Decision
  <2>2. TicketLockInv'
    BY <1>2 DEF TicketInv, TicketLockInv, G!TypeOK, Locks, G!Decision
  <2>3. IssueInv'
    BY <1>2 DEF TicketInv, IssueInv, TicketLockInv, G!TypeOK, Locks, G!Decision
  <2>4. ConsentInv'
    BY <1>2 DEF TicketInv, ConsentInv, G!TypeOK, G!Decision
  <2>5. MintInv'
    BY <1>2 DEF TicketInv, MintInv, G!TypeOK, G!Ask, G!Decision
  <2>6. DecidedInv'
    BY <1>2 DEF TicketInv, DecidedInv, TicketLockInv, Approved, G!TypeOK, Locks, G!Decision
  <2> QED BY <2>1, <2>2, <2>3, <2>4, <2>5, <2>6 DEF TicketInv
<1>3. ASSUME NEW r \in Request, NEW x \in Ticket, G!Authorize(r, x)
      PROVE  TicketInv'
  <2>1. G!TypeOK'
    BY <1>3 DEF TicketInv, MintInv, G!TypeOK, G!Ask, G!TicketRow, G!Authorize,
       G!InsertAuthorizationCode, G!Insert
  <2>2. TicketLockInv'
    BY <1>3 DEF TicketInv, TicketLockInv, DecidedInv, Approved, G!TypeOK, Locks,
       G!Authorize, G!InsertAuthorizationCode, G!Insert
  <2>3. IssueInv'
    BY <1>3 DEF TicketInv, IssueInv, TicketLockInv, G!TypeOK, Locks, G!Authorize,
       G!InsertAuthorizationCode, G!Insert
  <2>4. ConsentInv'
    BY <1>3 DEF TicketInv, ConsentInv, G!TypeOK, G!Authorize, G!InsertAuthorizationCode,
       G!Insert
  <2>5. MintInv'
    BY <1>3 DEF TicketInv, MintInv, G!TypeOK, G!Ask, G!Authorize,
       G!InsertAuthorizationCode, G!Insert
  <2>6. DecidedInv'
    BY <1>3 DEF TicketInv, DecidedInv, MintInv, TicketLockInv, Approved, G!TypeOK, G!Ask,
       Locks, G!Authorize, G!InsertAuthorizationCode, G!Insert
  <2> QED BY <2>1, <2>2, <2>3, <2>4, <2>5, <2>6 DEF TicketInv
<1>4. ASSUME NEW r \in Request, G!AuthorizeRefused(r)
      PROVE  TicketInv'
  <2>1. G!TypeOK'
    BY <1>4 DEF TicketInv, G!TypeOK, G!Ask, G!AuthorizeRefused
  <2>2. TicketLockInv'
    BY <1>4 DEF TicketInv, TicketLockInv, G!TypeOK, Locks, G!AuthorizeRefused
  <2>3. IssueInv'
    BY <1>4 DEF TicketInv, IssueInv, TicketLockInv, G!TypeOK, Locks, G!AuthorizeRefused
  <2>4. ConsentInv'
    BY <1>4 DEF TicketInv, ConsentInv, G!TypeOK, G!AuthorizeRefused
  <2>5. MintInv'
    BY <1>4 DEF TicketInv, MintInv, G!TypeOK, G!Ask, G!AuthorizeRefused
  <2>6. DecidedInv'
    BY <1>4 DEF TicketInv, DecidedInv, TicketLockInv, Approved, G!TypeOK, Locks,
       G!AuthorizeRefused
  <2> QED BY <2>1, <2>2, <2>3, <2>4, <2>5, <2>6 DEF TicketInv
<1>5. ASSUME NEW c \in Client, NEW x \in Ticket, NEW S0 \in SUBSET Scope,
             G!DeviceAuthorize(c, S0, x)
      PROVE  TicketInv'
  <2>1. PICK n \in G!TicketRow :
          /\ row' = [row EXCEPT ![x] = n]
          /\ n.kind = "device" /\ n.status = "pending"
    <3>1. G!AskedScopes(c, S0) \in SUBSET Scope
      BY DEF G!AskedScopes
    <3>2. [kind |-> "device", user |-> None, client |-> c, scopes |-> G!AskedScopes(c, S0),
           status |-> "pending"] \in G!TicketRow
      BY <3>1 DEF G!TicketRow
    <3> QED BY <1>5, <3>2 DEF G!DeviceAuthorize, G!InsertDeviceCode, G!Insert
  <2>2. /\ row[x] = None
        /\ UNCHANGED <<consent, consumed, gexpired, recent, glock, gpc, work, approved, issued, gcrashes>>
    BY <1>5 DEF G!DeviceAuthorize, G!InsertDeviceCode, G!Insert
  <2>3. G!TypeOK'
    BY <2>1, <2>2 DEF TicketInv, G!TypeOK
  <2>4. TicketLockInv'
    BY <2>1, <2>2 DEF TicketInv, TicketLockInv, Locks, G!TypeOK
  <2>5. IssueInv'
    BY <2>2 DEF TicketInv, IssueInv
  <2>6. ConsentInv' /\ MintInv'
    BY <2>2 DEF TicketInv, ConsentInv, MintInv
  <2>7. DecidedInv'
    BY <2>1, <2>2 DEF TicketInv, DecidedInv, Approved, G!TypeOK
  <2> QED BY <2>3, <2>4, <2>5, <2>6, <2>7 DEF TicketInv
<1>6. ASSUME NEW c \in Client, NEW x \in Ticket, NEW S0 \in SUBSET Scope,
             NEW u \in User, G!BackchannelAuthorize(c, u, S0, x)
      PROVE  TicketInv'
  <2>1. PICK n \in G!TicketRow :
          /\ row' = [row EXCEPT ![x] = n]
          /\ n.kind = "ciba" /\ n.status = "pending"
    <3>1. G!AskedScopes(c, S0) \in SUBSET Scope
      BY DEF G!AskedScopes
    <3>2. [kind |-> "ciba", user |-> u, client |-> c, scopes |-> G!AskedScopes(c, S0),
           status |-> "pending"] \in G!TicketRow
      BY <3>1 DEF G!TicketRow
    <3> QED BY <1>6, <3>2 DEF G!BackchannelAuthorize, G!InsertCIBARequest, G!Insert
  <2>2. /\ row[x] = None
        /\ UNCHANGED <<consent, consumed, gexpired, recent, glock, gpc, work, approved, issued, gcrashes>>
    BY <1>6 DEF G!BackchannelAuthorize, G!InsertCIBARequest, G!Insert
  <2>3. G!TypeOK'
    BY <2>1, <2>2 DEF TicketInv, G!TypeOK
  <2>4. TicketLockInv'
    BY <2>1, <2>2 DEF TicketInv, TicketLockInv, Locks, G!TypeOK
  <2>5. IssueInv'
    BY <2>2 DEF TicketInv, IssueInv
  <2>6. ConsentInv' /\ MintInv'
    BY <2>2 DEF TicketInv, ConsentInv, MintInv
  <2>7. DecidedInv'
    BY <2>1, <2>2 DEF TicketInv, DecidedInv, Approved, G!TypeOK
  <2> QED BY <2>3, <2>4, <2>5, <2>6, <2>7 DEF TicketInv
<1>7. ASSUME NEW x \in Ticket, NEW u \in User, G!ApproveDevice(u, x)
      PROVE  TicketInv'
  <2>0. row[x] \in G!TicketRow
    BY <1>7 DEF G!ApproveDevice, G!LockDeviceByUserCode, G!Decidable, TicketInv, G!TypeOK
  <2>2. PICK n \in G!TicketRow :
          /\ n = [row[x] EXCEPT !.status = "authorized", !.user = u]
          /\ n = [kind |-> row[x].kind, user |-> u, client |-> row[x].client,
                  scopes |-> row[x].scopes, status |-> "authorized"]
    BY <2>0, TicketBound
  <2>r. row' = [row EXCEPT ![x] = n]
    BY <1>7, <2>2 DEF G!ApproveDevice
  <2>f. /\ n \in G!TicketRow /\ n # None
        /\ n.kind = row[x].kind /\ n.user = u /\ n.client = row[x].client
        /\ n.scopes = row[x].scopes /\ n.status = "authorized"
    BY <2>2
  <2>3. row[x].client \in Client /\ row[x].scopes \in SUBSET Scope
    BY <2>0, TicketFields
  <2>4. /\ row[x] # None /\ row[x].kind = "device" /\ row[x].status = "pending" /\ glock[x] = None
        /\ consent' = [consent EXCEPT ![<<u, row[x].client>>] = row[x].scopes]
        /\ approved' = [approved EXCEPT ![<<u, row[x].client>>] = @ \cup row[x].scopes]
        /\ UNCHANGED <<consumed, gexpired, recent, glock, gpc, work, issued, gcrashes>>
    BY <1>7 DEF G!ApproveDevice, G!LockDeviceByUserCode, G!Decidable
  <2>5. G!TypeOK'
    BY <2>r, <2>f, <2>3, <2>4 DEF TicketInv, G!TypeOK
  <2>6. TicketLockInv'
    BY <2>r, <2>f, <2>3, <2>4 DEF TicketInv, TicketLockInv, Locks, G!TypeOK
  <2>7. IssueInv'
    BY <2>4 DEF TicketInv, IssueInv
  <2>8. ConsentInv' /\ MintInv'
    BY <2>r, <2>f, <2>3, <2>4 DEF TicketInv, ConsentInv, MintInv, G!Ask, G!TypeOK
  <2>a. ASSUME NEW y \in Ticket, y # x, Approved(y)
        PROVE  Approved(y)'
    <3>1. row[y].client \in Client
      BY <2>a, TicketFields DEF TicketInv, G!TypeOK, Approved
    <3> QED BY <2>a, <3>1, <2>r, <2>f, <2>3, <2>4 DEF TicketInv, G!TypeOK, Approved
  <2>b. Approved(x) \/ n.status = "authorized" => Approved(x)'
    BY <2>0, <2>r, <2>f, <2>3, <2>4 DEF TicketInv, G!TypeOK, Approved
  <2>9. DecidedInv'
    BY <2>0, <2>r, <2>f, <2>3, <2>4, <2>a, <2>b DEF TicketInv, DecidedInv, G!TypeOK
  <2> QED BY <2>5, <2>6, <2>7, <2>8, <2>9 DEF TicketInv
<1>8. ASSUME NEW x \in Ticket, G!DenyDevice(x)
      PROVE  TicketInv'
  <2>0. row[x] \in G!TicketRow
    BY <1>8 DEF G!DenyDevice, G!LockDeviceByUserCode, G!Decidable, TicketInv, G!TypeOK
  <2>2. PICK n \in G!TicketRow :
          /\ n = [row[x] EXCEPT !.status = "denied"]
          /\ n = [kind |-> row[x].kind, user |-> row[x].user, client |-> row[x].client,
                  scopes |-> row[x].scopes, status |-> "denied"]
    BY <2>0, TicketDecided
  <2>r. row' = [row EXCEPT ![x] = n]
    BY <1>8, <2>2 DEF G!DenyDevice
  <2>f. /\ n \in G!TicketRow /\ n # None
        /\ n.kind = row[x].kind /\ n.user = row[x].user /\ n.client = row[x].client
        /\ n.scopes = row[x].scopes /\ n.status = "denied"
    BY <2>2
  <2>3. row[x].client \in Client /\ row[x].scopes \in SUBSET Scope
    BY <2>0, TicketFields
  <2>4. /\ row[x] # None /\ row[x].kind = "device" /\ row[x].status = "pending" /\ glock[x] = None
        /\ UNCHANGED <<consent, approved>>
        /\ UNCHANGED <<consumed, gexpired, recent, glock, gpc, work, issued, gcrashes>>
    BY <1>8 DEF G!DenyDevice, G!LockDeviceByUserCode, G!Decidable
  <2>5. G!TypeOK'
    BY <2>r, <2>f, <2>3, <2>4 DEF TicketInv, G!TypeOK
  <2>6. TicketLockInv'
    BY <2>r, <2>f, <2>3, <2>4 DEF TicketInv, TicketLockInv, Locks, G!TypeOK
  <2>7. IssueInv'
    BY <2>4 DEF TicketInv, IssueInv
  <2>8. ConsentInv' /\ MintInv'
    BY <2>r, <2>f, <2>3, <2>4 DEF TicketInv, ConsentInv, MintInv, G!Ask, G!TypeOK
  <2>a. ASSUME NEW y \in Ticket, y # x, Approved(y)
        PROVE  Approved(y)'
    <3>1. row'[y] = row[y]
      BY <2>a, <2>0, <2>r DEF TicketInv, G!TypeOK
    <3>2. \A p \in User \X Client : approved[p] \subseteq approved'[p]
      BY <2>0, <2>3, <2>4 DEF TicketInv, G!TypeOK
    <3>3. row[y] \in G!TicketRow
      BY <2>a DEF TicketInv, G!TypeOK, Approved
    <3>4. <<row[y].user, row[y].client>> \in User \X Client
      BY <2>a, <3>3, TicketFields DEF Approved
    <3> QED BY <2>a, <3>1, <3>2, <3>4 DEF Approved
  <2>b. Approved(x) \/ n.status = "authorized" => Approved(x)'
    BY <2>0, <2>r, <2>f, <2>3, <2>4 DEF TicketInv, G!TypeOK, Approved
  <2>9. DecidedInv'
    BY <2>0, <2>r, <2>f, <2>3, <2>4, <2>a, <2>b DEF TicketInv, DecidedInv, G!TypeOK
  <2> QED BY <2>5, <2>6, <2>7, <2>8, <2>9 DEF TicketInv
<1>9. ASSUME NEW x \in Ticket, NEW u \in User, NEW approve \in BOOLEAN,
             G!DecideBackchannel(u, x, approve)
      PROVE  TicketInv'
  <2>0. row[x] \in G!TicketRow
    BY <1>9 DEF G!DecideBackchannel, G!LockCIBARequest, G!Decidable, TicketInv, G!TypeOK
  <2>1. (IF approve THEN "authorized" ELSE "denied") \in {"pending", "authorized", "denied"}
    OBVIOUS
  <2>2. PICK n \in G!TicketRow :
          /\ n = [row[x] EXCEPT !.status = IF approve THEN "authorized" ELSE "denied"]
          /\ n = [kind |-> row[x].kind, user |-> row[x].user, client |-> row[x].client,
                  scopes |-> row[x].scopes, status |-> IF approve THEN "authorized" ELSE "denied"]
    BY <2>0, <2>1, TicketDecided
  <2>r. row' = [row EXCEPT ![x] = n]
    BY <1>9, <2>2 DEF G!DecideBackchannel
  <2>f. /\ n \in G!TicketRow /\ n # None
        /\ n.kind = row[x].kind /\ n.user = row[x].user /\ n.client = row[x].client
        /\ n.scopes = row[x].scopes /\ n.status = IF approve THEN "authorized" ELSE "denied"
    BY <2>2
  <2>3. row[x].client \in Client /\ row[x].scopes \in SUBSET Scope
    BY <2>0, TicketFields
  <2>4. /\ row[x] # None /\ row[x].kind = "ciba" /\ row[x].user = u
        /\ row[x].status = "pending" /\ glock[x] = None
        /\ approved' = IF approve THEN [approved EXCEPT ![<<u, row[x].client>>] = @ \cup row[x].scopes]
                      ELSE approved
        /\ UNCHANGED consent
        /\ UNCHANGED <<consumed, gexpired, recent, glock, gpc, work, issued, gcrashes>>
    BY <1>9 DEF G!DecideBackchannel, G!LockCIBARequest, G!Decidable
  <2>5. G!TypeOK'
    BY <2>r, <2>f, <2>3, <2>4 DEF TicketInv, G!TypeOK
  <2>6. TicketLockInv'
    BY <2>r, <2>f, <2>3, <2>4 DEF TicketInv, TicketLockInv, Locks, G!TypeOK
  <2>7. IssueInv'
    BY <2>4 DEF TicketInv, IssueInv
  <2>8. ConsentInv' /\ MintInv'
    BY <2>r, <2>f, <2>3, <2>4 DEF TicketInv, ConsentInv, MintInv, G!Ask, G!TypeOK
  <2>a. ASSUME NEW y \in Ticket, y # x, Approved(y)
        PROVE  Approved(y)'
    <3>1. row'[y] = row[y]
      BY <2>a, <2>0, <2>r DEF TicketInv, G!TypeOK
    <3>2. \A p \in User \X Client : approved[p] \subseteq approved'[p]
      BY <2>0, <2>3, <2>4 DEF TicketInv, G!TypeOK
    <3>3. row[y] \in G!TicketRow
      BY <2>a DEF TicketInv, G!TypeOK, Approved
    <3>4. <<row[y].user, row[y].client>> \in User \X Client
      BY <2>a, <3>3, TicketFields DEF Approved
    <3> QED BY <2>a, <3>1, <3>2, <3>4 DEF Approved
  <2>b. Approved(x) \/ n.status = "authorized" => Approved(x)'
    BY <2>0, <2>r, <2>f, <2>3, <2>4 DEF TicketInv, G!TypeOK, Approved
  <2>9. DecidedInv'
    BY <2>0, <2>r, <2>f, <2>3, <2>4, <2>a, <2>b DEF TicketInv, DecidedInv, G!TypeOK
  <2> QED BY <2>5, <2>6, <2>7, <2>8, <2>9 DEF TicketInv
<1>10. ASSUME NEW x \in Ticket, G!RevokeDevice(x)
      PROVE  TicketInv'
  <2>0. row[x] \in G!TicketRow
    BY <1>10 DEF G!RevokeDevice, TicketInv, G!TypeOK
  <2>2. PICK n \in G!TicketRow :
          /\ n = [row[x] EXCEPT !.status = "denied"]
          /\ n = [kind |-> row[x].kind, user |-> row[x].user, client |-> row[x].client,
                  scopes |-> row[x].scopes, status |-> "denied"]
    BY <2>0, TicketDecided
  <2>r. row' = [row EXCEPT ![x] = n]
    BY <1>10, <2>2 DEF G!RevokeDevice
  <2>f. /\ n \in G!TicketRow /\ n # None
        /\ n.kind = row[x].kind /\ n.user = row[x].user /\ n.client = row[x].client
        /\ n.scopes = row[x].scopes /\ n.status = "denied"
    BY <2>2
  <2>3. row[x].client \in Client /\ row[x].scopes \in SUBSET Scope
    BY <2>0, TicketFields
  <2>4. /\ row[x] # None /\ row[x].kind = "device" /\ glock[x] = None
        /\ UNCHANGED <<consent, approved>>
        /\ UNCHANGED <<consumed, gexpired, recent, glock, gpc, work, issued, gcrashes>>
    BY <1>10 DEF G!RevokeDevice
  <2>5. G!TypeOK'
    BY <2>r, <2>f, <2>3, <2>4 DEF TicketInv, G!TypeOK
  <2>6. TicketLockInv'
    BY <2>r, <2>f, <2>3, <2>4 DEF TicketInv, TicketLockInv, Locks, G!TypeOK
  <2>7. IssueInv'
    BY <2>4 DEF TicketInv, IssueInv
  <2>8. ConsentInv' /\ MintInv'
    BY <2>r, <2>f, <2>3, <2>4 DEF TicketInv, ConsentInv, MintInv, G!Ask, G!TypeOK
  <2>a. ASSUME NEW y \in Ticket, y # x, Approved(y)
        PROVE  Approved(y)'
    <3>1. row'[y] = row[y]
      BY <2>a, <2>0, <2>r DEF TicketInv, G!TypeOK
    <3>2. \A p \in User \X Client : approved[p] \subseteq approved'[p]
      BY <2>0, <2>3, <2>4 DEF TicketInv, G!TypeOK
    <3>3. row[y] \in G!TicketRow
      BY <2>a DEF TicketInv, G!TypeOK, Approved
    <3>4. <<row[y].user, row[y].client>> \in User \X Client
      BY <2>a, <3>3, TicketFields DEF Approved
    <3> QED BY <2>a, <3>1, <3>2, <3>4 DEF Approved
  <2>b. Approved(x) \/ n.status = "authorized" => Approved(x)'
    BY <2>0, <2>r, <2>f, <2>3, <2>4 DEF TicketInv, G!TypeOK, Approved
  <2>9. DecidedInv'
    BY <2>0, <2>r, <2>f, <2>3, <2>4, <2>a, <2>b DEF TicketInv, DecidedInv, G!TypeOK
  <2> QED BY <2>5, <2>6, <2>7, <2>8, <2>9 DEF TicketInv
<1>11. ASSUME NEW r \in Request, NEW c \in Client, NEW x \in Ticket, NEW proof \in BOOLEAN,
             G!RedeemLock(r, c, x, proof)
      PROVE  TicketInv'
  <2>0. /\ row[x] \in G!TicketRow /\ row[x] # None
        /\ row[x].kind = "code" => row[x].status = "authorized"
    BY <1>11 DEF G!RedeemLock, TicketInv, G!TypeOK, DecidedInv
  <2>v. /\ G!Verdict(x, c, proof) \in {"refuse", "again", "redeem"}
        /\ G!Verdict(x, c, proof) = "redeem" => x \notin consumed /\ row[x].status = "authorized"
    BY <2>0, TicketFields
       DEF G!Verdict, G!ConsumeAuthorizationCode, G!LockDeviceByCode, G!LockCIBARequestByHash, G!Poll
  <2>1. G!TypeOK'
    BY <1>11, <2>0, <2>v DEF TicketInv, G!TypeOK, G!Ask, G!RedeemLock
  <2>2. TicketLockInv'
    BY <1>11, <2>0, <2>v DEF TicketInv, TicketLockInv, G!TypeOK, Locks, G!RedeemLock
  <2>3. IssueInv'
    BY <1>11, <2>0, <2>v DEF TicketInv, IssueInv, TicketLockInv, G!TypeOK, Locks,
       G!RedeemLock
  <2>4. ConsentInv'
    BY <1>11, <2>0, <2>v DEF TicketInv, ConsentInv, G!TypeOK, G!RedeemLock
  <2>5. MintInv'
    BY <1>11, <2>0, <2>v DEF TicketInv, MintInv, G!TypeOK, G!Ask, G!RedeemLock
  <2>6. DecidedInv'
    BY <1>11, <2>0, <2>v DEF TicketInv, DecidedInv, TicketLockInv, Approved, G!TypeOK,
       Locks, G!RedeemLock
  <2> QED BY <2>1, <2>2, <2>3, <2>4, <2>5, <2>6 DEF TicketInv
<1>12. ASSUME NEW r \in Request, G!RedeemRefuse(r)
      PROVE  TicketInv'
  <2>1. G!TypeOK'
    BY <1>12 DEF TicketInv, G!TypeOK, G!Ask, G!RedeemRefuse
  <2>2. TicketLockInv'
    BY <1>12 DEF TicketInv, TicketLockInv, G!TypeOK, Locks, G!RedeemRefuse
  <2>3. IssueInv'
    BY <1>12 DEF TicketInv, IssueInv, TicketLockInv, G!TypeOK, Locks, G!RedeemRefuse
  <2>4. ConsentInv'
    BY <1>12 DEF TicketInv, ConsentInv, G!TypeOK, G!RedeemRefuse
  <2>5. MintInv'
    BY <1>12 DEF TicketInv, MintInv, G!TypeOK, G!Ask, G!RedeemRefuse
  <2>6. DecidedInv'
    BY <1>12 DEF TicketInv, DecidedInv, TicketLockInv, Approved, G!TypeOK, Locks,
       G!RedeemRefuse
  <2> QED BY <2>1, <2>2, <2>3, <2>4, <2>5, <2>6 DEF TicketInv
<1>13. ASSUME NEW r \in Request, G!PollAgain(r)
      PROVE  TicketInv'
  <2>1. G!TypeOK'
    BY <1>13 DEF TicketInv, G!TypeOK, TicketLockInv, Locks, G!PollAgain
  <2>2. TicketLockInv'
    BY <1>13 DEF TicketInv, TicketLockInv, G!TypeOK, Locks, G!PollAgain
  <2>3. IssueInv'
    BY <1>13 DEF TicketInv, IssueInv, TicketLockInv, G!TypeOK, Locks, G!PollAgain
  <2>4. ConsentInv'
    BY <1>13 DEF TicketInv, ConsentInv, G!TypeOK, G!PollAgain
  <2>5. MintInv'
    BY <1>13 DEF TicketInv, MintInv, G!TypeOK, G!Ask, G!PollAgain
  <2>6. DecidedInv'
    BY <1>13 DEF TicketInv, DecidedInv, TicketLockInv, Approved, G!TypeOK, Locks,
       G!PollAgain
  <2> QED BY <2>1, <2>2, <2>3, <2>4, <2>5, <2>6 DEF TicketInv
<1>14. ASSUME NEW r \in Request, G!Redeem(r)
      PROVE  TicketInv'
  <2>1. G!TypeOK'
    BY <1>14 DEF TicketInv, G!TypeOK, TicketLockInv, Locks, G!Redeem
  <2>2. TicketLockInv'
    BY <1>14 DEF TicketInv, TicketLockInv, G!TypeOK, Locks, G!Redeem
  <2>3. IssueInv'
    BY <1>14 DEF TicketInv, IssueInv, TicketLockInv, G!TypeOK, Locks, G!Redeem
  <2>4. ConsentInv'
    BY <1>14 DEF TicketInv, ConsentInv, G!TypeOK, G!Redeem
  <2>5. MintInv'
    BY <1>14 DEF TicketInv, MintInv, G!TypeOK, G!Ask, G!Redeem
  <2>6. DecidedInv'
    BY <1>14 DEF TicketInv, DecidedInv, TicketLockInv, Approved, G!TypeOK, Locks, G!Redeem
  <2> QED BY <2>1, <2>2, <2>3, <2>4, <2>5, <2>6 DEF TicketInv
<1>15. ASSUME NEW r \in Request, G!Issue(r)
      PROVE  TicketInv'
  <2>1. G!TypeOK'
    BY <1>15 DEF TicketInv, G!TypeOK, TicketLockInv, G!Issue
  <2>2. TicketLockInv'
    BY <1>15 DEF TicketInv, TicketLockInv, G!TypeOK, Locks, G!Issue
  <2>3. IssueInv'
    BY <1>15 DEF TicketInv, IssueInv, TicketLockInv, G!TypeOK, Locks, G!Issue
  <2>4. ConsentInv'
    BY <1>15 DEF TicketInv, ConsentInv, G!TypeOK, G!Issue
  <2>5. MintInv'
    BY <1>15 DEF TicketInv, MintInv, G!TypeOK, G!Ask, G!Issue
  <2>6. DecidedInv'
    BY <1>15 DEF TicketInv, DecidedInv, TicketLockInv, Approved, G!TypeOK, Locks, G!Issue
  <2> QED BY <2>1, <2>2, <2>3, <2>4, <2>5, <2>6 DEF TicketInv
<1>16. ASSUME NEW r \in Request, G!Crash(r)
      PROVE  TicketInv'
  <2>1. G!TypeOK'
    BY <1>16 DEF TicketInv, G!TypeOK, G!Ask, G!Crash
  <2>2. TicketLockInv'
    BY <1>16 DEF TicketInv, TicketLockInv, G!TypeOK, Locks, G!Crash
  <2>3. IssueInv'
    BY <1>16 DEF TicketInv, IssueInv, TicketLockInv, G!TypeOK, Locks, G!Crash
  <2>4. ConsentInv'
    BY <1>16 DEF TicketInv, ConsentInv, G!TypeOK, G!Crash
  <2>5. MintInv'
    BY <1>16 DEF TicketInv, MintInv, G!TypeOK, G!Ask, G!Crash
  <2>6. DecidedInv'
    BY <1>16 DEF TicketInv, DecidedInv, TicketLockInv, Approved, G!TypeOK, Locks, G!Crash
  <2> QED BY <2>1, <2>2, <2>3, <2>4, <2>5, <2>6 DEF TicketInv
<1>17. ASSUME NEW x \in Ticket, G!Expire(x)
      PROVE  TicketInv'
  <2>1. G!TypeOK'
    BY <1>17 DEF TicketInv, G!TypeOK, G!Ask, G!Expire
  <2>2. TicketLockInv'
    BY <1>17 DEF TicketInv, TicketLockInv, G!TypeOK, Locks, G!Expire
  <2>3. IssueInv'
    BY <1>17 DEF TicketInv, IssueInv, TicketLockInv, G!TypeOK, Locks, G!Expire
  <2>4. ConsentInv'
    BY <1>17 DEF TicketInv, ConsentInv, G!TypeOK, G!Expire
  <2>5. MintInv'
    BY <1>17 DEF TicketInv, MintInv, G!TypeOK, G!Ask, G!Expire
  <2>6. DecidedInv'
    BY <1>17 DEF TicketInv, DecidedInv, TicketLockInv, Approved, G!TypeOK, Locks, G!Expire
  <2> QED BY <2>1, <2>2, <2>3, <2>4, <2>5, <2>6 DEF TicketInv
<1>18. ASSUME NEW x \in Ticket, G!IntervalElapses(x)
      PROVE  TicketInv'
  <2>1. G!TypeOK'
    BY <1>18 DEF TicketInv, G!TypeOK, G!Ask, G!IntervalElapses
  <2>2. TicketLockInv'
    BY <1>18 DEF TicketInv, TicketLockInv, G!TypeOK, Locks, G!IntervalElapses
  <2>3. IssueInv'
    BY <1>18 DEF TicketInv, IssueInv, TicketLockInv, G!TypeOK, Locks, G!IntervalElapses
  <2>4. ConsentInv'
    BY <1>18 DEF TicketInv, ConsentInv, G!TypeOK, G!IntervalElapses
  <2>5. MintInv'
    BY <1>18 DEF TicketInv, MintInv, G!TypeOK, G!Ask, G!IntervalElapses
  <2>6. DecidedInv'
    BY <1>18 DEF TicketInv, DecidedInv, TicketLockInv, Approved, G!TypeOK, Locks,
       G!IntervalElapses
  <2> QED BY <2>1, <2>2, <2>3, <2>4, <2>5, <2>6 DEF TicketInv
<1>19. CASE UNCHANGED G!vars
  <2>1. G!TypeOK'
    BY <1>19 DEF TicketInv, G!TypeOK, G!Ask, G!vars
  <2>2. TicketLockInv'
    BY <1>19 DEF TicketInv, TicketLockInv, G!TypeOK, Locks, G!vars
  <2>3. IssueInv'
    BY <1>19 DEF TicketInv, IssueInv, TicketLockInv, G!TypeOK, Locks, G!vars
  <2>4. ConsentInv'
    BY <1>19 DEF TicketInv, ConsentInv, G!TypeOK, G!vars
  <2>5. MintInv'
    BY <1>19 DEF TicketInv, MintInv, G!TypeOK, G!Ask, G!vars
  <2>6. DecidedInv'
    BY <1>19 DEF TicketInv, DecidedInv, TicketLockInv, Approved, G!TypeOK, Locks, G!vars
  <2> QED BY <2>1, <2>2, <2>3, <2>4, <2>5, <2>6 DEF TicketInv
<1> QED
  BY <1>1, <1>2, <1>3, <1>4, <1>5, <1>6, <1>7, <1>8, <1>9, <1>10, <1>11, <1>12, <1>13,
     <1>14, <1>15, <1>16, <1>17, <1>18, <1>19
     DEF G!Next, G!UserStep, G!ClientStep, G!HandlerStep

(* The parameters of the small instance are plain constants, so these hold *)
(* of every instance of GrantTickets.                                      *)
LEMMA TicketInvariant == G!Spec => []TicketInv
BY TicketInit, TicketStep, PTL DEF G!Spec

LEMMA TicketHolds == TicketInv => IssuedOnce /\ IssuedWasApproved
<1> SUFFICES ASSUME TicketInv PROVE IssuedOnce /\ IssuedWasApproved
  OBVIOUS
<1>1. IssuedOnce
  BY DEF TicketInv, IssueInv, IssuedOnce, G!IssuedOnce
<1>2. ASSUME NEW x \in Ticket, issued[x] > 0
      PROVE  Approved(x)
  <2>1. x \in consumed
    BY <1>2 DEF TicketInv, IssueInv
  <2> QED BY <2>1 DEF TicketInv, DecidedInv
<1>3. IssuedWasApproved
  BY <1>2 DEF IssuedWasApproved, G!IssuedWasApproved, Approved
<1> QED BY <1>1, <1>3

(* Only Redeem consumes, and it holds the row that was authorized.         *)
LEMMA DeniedStep ==
  TicketInv /\ [G!Next]_G!vars =>
    [\A x \in Ticket \ consumed :
       row[x] # None /\ row[x].status = "denied" => x \notin consumed']_G!vars
<1> SUFFICES ASSUME TicketInv, G!Next, NEW x \in Ticket \ consumed,
                    row[x].status = "denied", x \in consumed'
             PROVE  FALSE
  OBVIOUS
<1>1. ASSUME NEW r \in Request, G!Redeem(r)
      PROVE  FALSE
  BY <1>1 DEF G!Redeem, TicketInv, TicketLockInv
<1>2. consumed' = consumed \/ \E r \in Request : G!Redeem(r)
  BY DEF G!Next, G!UserStep, G!ClientStep, G!HandlerStep, G!AuthorizePage, G!Decision,
         G!Authorize, G!AuthorizeRefused, G!DeviceAuthorize, G!BackchannelAuthorize,
         G!ApproveDevice, G!DenyDevice, G!DecideBackchannel, G!RevokeDevice, G!RedeemLock,
         G!RedeemRefuse, G!PollAgain, G!Issue, G!Crash, G!Expire, G!IntervalElapses, G!ticketVars
<1> QED BY <1>1, <1>2


-----------------------------------------------------------------------------
(* GrantTickets implements one-time grants.                                *)

(* A device code knows no user before it is decided on.                    *)
UnboundInv ==
  \A x \in Ticket :
    row[x] # None /\ row[x].kind = "device" /\ row[x].status = "pending" => row[x].user = None

PhaseBar == [x \in Ticket |-> G!PhaseOf(x)]
OrderBar == [x \in Ticket |-> G!OrderOf(x)]

LEMMA LifeInit == G!Init => G!Life!Init
BY DEF G!Init, G!Life!Init, G!PhaseOf, G!OrderOf

LEMMA LifeQuiet ==
  ASSUME UNCHANGED <<row, consumed, issued, approved>>
  PROVE  UNCHANGED G!Life!vars
BY DEF G!Life!vars, G!PhaseOf, G!OrderOf

(* What the phase of a ticket says of its row, and the other way round.    *)
LEMMA PhaseTells ==
  ASSUME TicketInv, NEW x \in Ticket
  PROVE  /\ PhaseBar[x] = "none" <=> row[x] = None
         /\ row[x] = None => x \notin consumed /\ issued[x] = 0
         /\ row[x] # None /\ x \notin consumed => issued[x] = 0 /\ PhaseBar[x] = row[x].status
         /\ x \in consumed /\ issued[x] = 0 => PhaseBar[x] = "spent"
         /\ row[x] # None => /\ OrderBar[x].user = row[x].user
                             /\ OrderBar[x].client = row[x].client
                             /\ OrderBar[x].scopes = row[x].scopes
                             /\ row[x] \in G!TicketRow
                             /\ OrderBar[x] \in G!Life!Order
<1>1. row[x] # None => row[x] \in G!TicketRow
  BY DEF TicketInv, G!TypeOK
<1>2. row[x] = None => x \notin consumed /\ issued[x] = 0
  BY DEF TicketInv, DecidedInv, IssueInv, Approved
<1>3. x \notin consumed => issued[x] = 0
  BY DEF TicketInv, IssueInv
<1>4. x \in consumed => row[x] # None
  BY <1>2
<1>5. row[x] # None => row[x].status \in {"pending", "authorized", "denied"}
  BY <1>1, TicketFields
<1>6. issued[x] \in Nat
  BY DEF TicketInv, G!TypeOK
<1>7. row[x] # None => OrderBar[x] \in G!Life!Order
  BY <1>1, TicketFields DEF OrderBar, G!OrderOf, G!Life!Order
<1>8. row[x] # None => /\ OrderBar[x].user = row[x].user
                       /\ OrderBar[x].client = row[x].client
                       /\ OrderBar[x].scopes = row[x].scopes
  BY DEF OrderBar, G!OrderOf
<1>9. /\ PhaseBar[x] = "none" <=> row[x] = None
      /\ row[x] # None /\ x \notin consumed => PhaseBar[x] = row[x].status
      /\ x \in consumed /\ issued[x] = 0 => PhaseBar[x] = "spent"
  BY <1>3, <1>4, <1>5, <1>6 DEF PhaseBar, G!PhaseOf
<1> QED BY <1>1, <1>2, <1>3, <1>7, <1>8, <1>9

(* A ticket is inserted ...                                                *)
LEMMA InsertLives ==
  ASSUME TicketInv, NEW x \in Ticket, NEW o \in G!TicketRow,
         row[x] = None, row' = [row EXCEPT ![x] = o],
         UNCHANGED <<consumed, issued, approved>>,
         \/ o.status = "pending"
         \/ /\ o.status = "authorized" /\ o.user \in User
            /\ o.scopes \subseteq approved[<<o.user, o.client>>]
  PROVE  G!Life!Next
<1> DEFINE k == [user |-> o.user, client |-> o.client, scopes |-> o.scopes]
<1>0. o # None /\ DOMAIN row = Ticket
  BY GrantsAssumption DEF TicketInv, G!TypeOK
<1>1. PhaseBar[x] = "none" /\ x \notin consumed /\ issued[x] = 0
  BY PhaseTells
<1>2. PhaseBar' = [PhaseBar EXCEPT ![x] = o.status]
  <2>1. /\ row'[x] = o /\ issued'[x] = 0 /\ x \notin consumed'
        /\ \A y \in Ticket : y # x => row'[y] = row[y]
    BY <1>0, <1>1
  <2>2. G!PhaseOf(x)' = o.status
    BY <1>0, <2>1 DEF G!PhaseOf
  <2>3. \A y \in Ticket : y # x => G!PhaseOf(y)' = G!PhaseOf(y)
    BY <2>1 DEF G!PhaseOf
  <2> QED BY <2>2, <2>3 DEF PhaseBar
<1>3. OrderBar' = [OrderBar EXCEPT ![x] = k]
  BY <1>0 DEF OrderBar, G!OrderOf
<1>4. k \in G!Life!Order
  BY TicketFields DEF G!Life!Order
<1>5. CASE o.status = "pending"
  <2>1. G!Life!Ask(x, k)
    BY <1>1, <1>2, <1>3, <1>5 DEF G!Life!Ask, PhaseBar, OrderBar
  <2> QED BY <1>4, <2>1 DEF G!Life!Next
<1>6. CASE o.status # "pending"
  <2>1. G!Life!AskAgreed(x, k)
    BY <1>1, <1>2, <1>3, <1>6 DEF G!Life!AskAgreed, PhaseBar, OrderBar
  <2> QED BY <1>4, <2>1 DEF G!Life!Next
<1> QED BY <1>5, <1>6

(* ... and written to: its order stays, but for the user it is bound to.   *)
LEMMA DenialLives ==
  ASSUME TicketInv, NEW x \in Ticket, row[x] # None,
         row' = [row EXCEPT ![x].status = "denied"],
         UNCHANGED <<consumed, issued, approved>>
  PROVE  G!Life!Next \/ UNCHANGED G!Life!vars
<1>1. row[x] \in G!TicketRow /\ DOMAIN row = Ticket
  BY DEF TicketInv, G!TypeOK
<1>2. PICK n \in G!TicketRow :
        /\ row' = [row EXCEPT ![x] = n]
        /\ n = [kind |-> row[x].kind, user |-> row[x].user, client |-> row[x].client,
                scopes |-> row[x].scopes, status |-> "denied"]
  BY <1>1, TicketDecided
<1>3. n # None
  BY GrantsAssumption
<1>4. UNCHANGED OrderBar
  <2>1. row'[x] = n /\ \A y \in Ticket : y # x => row'[y] = row[y]
    BY <1>1, <1>2
  <2>2. G!OrderOf(x)' = G!OrderOf(x)
    BY <1>2, <1>3, <2>1 DEF G!OrderOf
  <2>3. \A y \in Ticket : y # x => G!OrderOf(y)' = G!OrderOf(y)
    BY <2>1 DEF G!OrderOf
  <2> QED BY <2>2, <2>3 DEF OrderBar
<1>5. CASE x \in consumed \/ row[x].status = "denied"
  <2>1. UNCHANGED PhaseBar
    <3>1. row'[x] = n /\ \A y \in Ticket : y # x => row'[y] = row[y]
      BY <1>1, <1>2
    <3>2. G!PhaseOf(x)' = G!PhaseOf(x)
      BY <1>2, <1>3, <1>5, <3>1 DEF G!PhaseOf
    <3>3. \A y \in Ticket : y # x => G!PhaseOf(y)' = G!PhaseOf(y)
      BY <3>1 DEF G!PhaseOf
    <3> QED BY <3>2, <3>3 DEF PhaseBar
  <2> QED BY <1>4, <2>1 DEF G!Life!vars, PhaseBar, OrderBar
<1>6. CASE x \notin consumed /\ row[x].status # "denied"
  <2>1. PhaseBar[x] \in {"pending", "authorized"} /\ issued[x] = 0
    BY <1>1, <1>6, PhaseTells, TicketFields
  <2>2. PhaseBar' = [PhaseBar EXCEPT ![x] = "denied"]
    BY <1>1, <1>2, <1>3, <1>6, <2>1 DEF PhaseBar, G!PhaseOf
  <2>3. G!Life!Deny(x)
    BY <1>4, <2>1, <2>2 DEF G!Life!Deny, PhaseBar, OrderBar
  <2> QED BY <2>3 DEF G!Life!Next
<1> QED BY <1>5, <1>6

LEMMA GrantLives ==
  ASSUME TicketInv, NEW x \in Ticket, NEW u \in User, row[x] # None,
         row[x].status = "pending", row[x].user \in {None, u},
         NEW n \in G!TicketRow, row' = [row EXCEPT ![x] = n],
         n = [kind |-> row[x].kind, user |-> u, client |-> row[x].client,
              scopes |-> row[x].scopes, status |-> "authorized"],
         G!Approve(u, row[x].client, row[x].scopes),
         UNCHANGED <<consumed, issued>>
  PROVE  G!Life!Next
<1>1. row[x] \in G!TicketRow /\ DOMAIN row = Ticket /\ n # None
  BY GrantsAssumption DEF TicketInv, G!TypeOK
<1>2. x \notin consumed /\ PhaseBar[x] = "pending" /\ issued[x] = 0
  BY PhaseTells DEF TicketInv, DecidedInv
<1>3. PhaseBar' = [PhaseBar EXCEPT ![x] = "authorized"]
  BY <1>1, <1>2 DEF PhaseBar, G!PhaseOf
<1>4. OrderBar' = [OrderBar EXCEPT ![x].user = u]
  BY <1>1 DEF OrderBar, G!OrderOf
<1>5. /\ OrderBar[x].user \in {None, u} /\ OrderBar[x].client = row[x].client
      /\ OrderBar[x].scopes = row[x].scopes
  BY PhaseTells
<1>6. G!Life!Grant(x, u)
  BY <1>2, <1>3, <1>4, <1>5 DEF G!Life!Grant, G!Life!Agree, G!Approve, PhaseBar, OrderBar
<1> QED BY <1>6 DEF G!Life!Next

LEMMA RedeemLives ==
  ASSUME TicketInv, NEW r \in Request, G!Redeem(r)
  PROVE  G!Life!Next
<1>1. PICK x \in Ticket : /\ x = work[r] /\ x \notin consumed
                          /\ row[x] # None /\ row[x].status = "authorized"
  BY DEF G!Redeem, TicketInv, TicketLockInv, Locks
<1>2. consumed' = consumed \cup {x} /\ UNCHANGED <<row, issued, approved>>
  BY <1>1 DEF G!Redeem
<1>3. PhaseBar[x] = "authorized" /\ issued[x] = 0
  BY <1>1, PhaseTells
<1>4. PhaseBar' = [PhaseBar EXCEPT ![x] = "spent"]
  BY <1>1, <1>2, <1>3 DEF PhaseBar, G!PhaseOf
<1>5. UNCHANGED OrderBar
  BY <1>2 DEF OrderBar, G!OrderOf
<1>6. G!Life!Spend(x)
  BY <1>2, <1>3, <1>4, <1>5 DEF G!Life!Spend, PhaseBar, OrderBar
<1> QED BY <1>6 DEF G!Life!Next

LEMMA IssueLives ==
  ASSUME TicketInv, NEW r \in Request, G!Issue(r)
  PROVE  G!Life!Next
<1>1. PICK x \in Ticket : x = work[r] /\ x \in consumed /\ issued[x] = 0
  BY DEF G!Issue, TicketInv, TicketLockInv, IssueInv, G!TypeOK
<1>2. issued' = [issued EXCEPT ![x] = 1] /\ UNCHANGED <<row, consumed, approved>>
  BY <1>1 DEF G!Issue, G!ticketVars
<1>3. PhaseBar[x] = "spent" /\ row[x] # None
  BY <1>1, PhaseTells
<1>4. PhaseBar' = [PhaseBar EXCEPT ![x] = "answered"]
  <2>1. /\ issued'[x] = 1 /\ row'[x] = row[x] /\ row[x] # None
        /\ \A y \in Ticket : y # x => issued'[y] = issued[y]
    BY <1>2, <1>3 DEF TicketInv, G!TypeOK
  <2>2. G!PhaseOf(x)' = "answered"
    BY <2>1 DEF G!PhaseOf
  <2>3. \A y \in Ticket : y # x => G!PhaseOf(y)' = G!PhaseOf(y)
    BY <1>2, <2>1 DEF G!PhaseOf
  <2> QED BY <2>2, <2>3 DEF PhaseBar
<1>5. UNCHANGED OrderBar
  BY <1>2 DEF OrderBar, G!OrderOf
<1>6. G!Life!Answer(x)
  BY <1>2, <1>3, <1>4, <1>5 DEF G!Life!Answer, PhaseBar, OrderBar
<1> QED BY <1>6 DEF G!Life!Next

(* One step per action that inserts a ticket or writes to one.             *)
LEMMA LifeNext == TicketInv /\ UnboundInv /\ [G!Next]_G!vars => [G!Life!Next]_(G!Life!vars)
<1> SUFFICES ASSUME TicketInv, UnboundInv, [G!Next]_G!vars
             PROVE  G!Life!Next \/ UNCHANGED G!Life!vars
  OBVIOUS
<1>1. ASSUME NEW r \in Request, NEW u \in User, NEW c \in Client, NEW S0 \in SUBSET Scope,
             G!AuthorizePage(r, u, c, S0) \/ G!Decision(r, u, c, S0)
      PROVE  G!Life!Next \/ UNCHANGED G!Life!vars
  <2>1. CASE G!AuthorizePage(r, u, c, S0)
    BY <2>1, LifeQuiet DEF G!AuthorizePage, G!ticketVars
  <2>2. CASE G!Decision(r, u, c, S0)
    <3>1. /\ UNCHANGED <<row, consumed, issued>>
          /\ approved' = [approved EXCEPT ![<<u, c>>] = @ \cup S0]
      BY <2>2 DEF G!Decision, G!ticketVars, G!Approve
    <3>2. UNCHANGED <<PhaseBar, OrderBar>>
      BY <3>1 DEF PhaseBar, OrderBar, G!PhaseOf, G!OrderOf
    <3>3. G!Life!Say(u, c, S0)
      BY <3>1, <3>2 DEF G!Life!Say, G!Life!Agree, PhaseBar, OrderBar
    <3> QED BY <3>3 DEF G!Life!Next
  <2> QED BY <1>1, <2>1, <2>2
<1>2. ASSUME NEW r \in Request, NEW x \in Ticket, G!Authorize(r, x)
      PROVE  G!Life!Next
  <2>1. work[r] \in G!Ask /\ work[r].scopes \subseteq approved[<<work[r].user, work[r].client>>]
    BY <1>2 DEF G!Authorize, TicketInv, MintInv
  <2> DEFINE n == [kind |-> "code", user |-> work[r].user, client |-> work[r].client,
                   scopes |-> work[r].scopes, status |-> "authorized"]
  <2>2. work[r].user \in User /\ n \in G!TicketRow
    BY <2>1 DEF G!Ask, G!TicketRow
  <2>3. row[x] = None /\ row' = [row EXCEPT ![x] = n] /\ UNCHANGED <<consumed, issued, approved>>
    BY <1>2 DEF G!Authorize, G!InsertAuthorizationCode, G!Insert
  <2>4. n.user = work[r].user /\ n.client = work[r].client /\ n.scopes = work[r].scopes
        /\ n.status = "authorized"
    OBVIOUS
  <2> HIDE DEF n
  <2> QED BY <2>1, <2>2, <2>3, <2>4, InsertLives
<1>3. ASSUME NEW c \in Client, NEW S0 \in SUBSET Scope, NEW x \in Ticket,
             G!DeviceAuthorize(c, S0, x) \/ \E u \in User : G!BackchannelAuthorize(c, u, S0, x)
      PROVE  G!Life!Next
  <2>1. PICK k \in {"device", "ciba"}, u \in User \cup {None} :
          G!Insert(x, k, u, c, G!AskedScopes(c, S0), "pending")
    BY <1>3 DEF G!DeviceAuthorize, G!BackchannelAuthorize, G!InsertDeviceCode, G!InsertCIBARequest
  <2> DEFINE n == [kind |-> k, user |-> u, client |-> c,
                   scopes |-> G!AskedScopes(c, S0), status |-> "pending"]
  <2>2. n \in G!TicketRow
    BY GrantsAssumption DEF G!TicketRow, G!AskedScopes
  <2>3. row[x] = None /\ row' = [row EXCEPT ![x] = n]
    BY <2>1 DEF G!Insert
  <2>4. UNCHANGED <<consumed, issued, approved>>
    BY <1>3 DEF G!DeviceAuthorize, G!BackchannelAuthorize
  <2>5. n.status = "pending"
    OBVIOUS
  <2> HIDE DEF n
  <2> QED BY <2>2, <2>3, <2>4, <2>5, InsertLives
<1>4. ASSUME NEW u \in User, NEW x \in Ticket, G!ApproveDevice(u, x)
      PROVE  G!Life!Next
  <2>1. /\ row[x] # None /\ row[x].kind = "device" /\ row[x].status = "pending"
        /\ row' = [row EXCEPT ![x] = [@ EXCEPT !.status = "authorized", !.user = u]]
        /\ G!Approve(u, row[x].client, row[x].scopes)
        /\ UNCHANGED <<consumed, issued>>
    BY <1>4 DEF G!ApproveDevice, G!LockDeviceByUserCode, G!Decidable
  <2>2. row[x] \in G!TicketRow /\ row[x].user = None
    BY <2>1 DEF TicketInv, G!TypeOK, UnboundInv
  <2>3. PICK n \in G!TicketRow :
          /\ n = [row[x] EXCEPT !.status = "authorized", !.user = u]
          /\ n = [kind |-> row[x].kind, user |-> u, client |-> row[x].client,
                  scopes |-> row[x].scopes, status |-> "authorized"]
    BY <2>2, TicketBound
  <2>4. row' = [row EXCEPT ![x] = n]
    BY <2>1, <2>3
  <2> QED BY <2>1, <2>2, <2>3, <2>4, GrantLives
<1>5. ASSUME NEW u \in User, NEW x \in Ticket, NEW approve \in BOOLEAN,
             G!DecideBackchannel(u, x, approve)
      PROVE  G!Life!Next \/ UNCHANGED G!Life!vars
  <2>1. /\ row[x] # None /\ row[x].status = "pending" /\ row[x].user = u
        /\ UNCHANGED <<consumed, issued>>
    BY <1>5 DEF G!DecideBackchannel, G!LockCIBARequest, G!Decidable
  <2>2. CASE approve
    <3>1. /\ row' = [row EXCEPT ![x].status = "authorized"]
          /\ G!Approve(u, row[x].client, row[x].scopes)
      BY <1>5, <2>2 DEF G!DecideBackchannel
    <3>2. row[x] \in G!TicketRow
      BY <2>1 DEF TicketInv, G!TypeOK
    <3>3. PICK n \in G!TicketRow :
            /\ n = [row[x] EXCEPT !.status = "authorized"]
            /\ n = [kind |-> row[x].kind, user |-> row[x].user, client |-> row[x].client,
                    scopes |-> row[x].scopes, status |-> "authorized"]
      BY <3>2, TicketDecided
    <3>4. row' = [row EXCEPT ![x] = n]
      BY <3>1, <3>3
    <3> QED BY <2>1, <3>1, <3>3, <3>4, GrantLives
  <2>3. CASE ~approve
    <3>1. row' = [row EXCEPT ![x].status = "denied"] /\ UNCHANGED approved
      BY <1>5, <2>3 DEF G!DecideBackchannel
    <3> QED BY <2>1, <3>1, DenialLives
  <2> QED BY <2>2, <2>3
<1>6. ASSUME NEW x \in Ticket, G!DenyDevice(x) \/ G!RevokeDevice(x)
      PROVE  G!Life!Next \/ UNCHANGED G!Life!vars
  <2>1. /\ row[x] # None /\ row' = [row EXCEPT ![x].status = "denied"]
        /\ UNCHANGED <<consumed, issued, approved>>
    BY <1>6 DEF G!DenyDevice, G!RevokeDevice, G!LockDeviceByUserCode, G!Decidable
  <2> QED BY <2>1, DenialLives
<1>7. ASSUME NEW r \in Request,
             \/ G!AuthorizeRefused(r) \/ G!RedeemRefuse(r) \/ G!PollAgain(r) \/ G!Crash(r)
             \/ \E c \in Client, x \in Ticket, proof \in BOOLEAN : G!RedeemLock(r, c, x, proof)
      PROVE  UNCHANGED G!Life!vars
  <2>1. UNCHANGED <<row, consumed, issued, approved>>
    BY <1>7 DEF G!AuthorizeRefused, G!RedeemRefuse, G!PollAgain, G!Crash, G!RedeemLock, G!ticketVars
  <2> QED BY <2>1, LifeQuiet
<1>8. ASSUME NEW x \in Ticket, G!Expire(x) \/ G!IntervalElapses(x)
      PROVE  UNCHANGED G!Life!vars
  BY <1>8, LifeQuiet DEF G!Expire, G!IntervalElapses
<1>9. CASE UNCHANGED G!vars
  BY <1>9, LifeQuiet DEF G!vars, G!ticketVars
<1> QED BY <1>1, <1>2, <1>3, <1>4, <1>5, <1>6, <1>7, <1>8, <1>9, RedeemLives, IssueLives
        DEF G!Next, G!UserStep, G!ClientStep, G!HandlerStep

(* Who is written into a device code's row takes it out of "pending".      *)
LEMMA UnboundStep == TicketInv /\ UnboundInv /\ [G!Next]_G!vars => UnboundInv'
<1> SUFFICES ASSUME TicketInv, UnboundInv, [G!Next]_G!vars PROVE UnboundInv'
  OBVIOUS
<1>0. DOMAIN row = Ticket /\ \A x \in Ticket : row[x] # None => row[x] \in G!TicketRow
  BY DEF TicketInv, G!TypeOK
<1>1. ASSUME NEW x \in Ticket, NEW k, NEW u, NEW c, NEW S0, NEW s,
             G!Insert(x, k, u, c, S0, s), k = "device" => u = None
      PROVE  UnboundInv'
  <2> DEFINE n == [kind |-> k, user |-> u, client |-> c, scopes |-> S0, status |-> s]
  <2>1. row' = [row EXCEPT ![x] = n]
    BY <1>1 DEF G!Insert
  <2>2. n.kind = "device" => n.user = None
    BY <1>1
  <2> HIDE DEF n
  <2> QED BY <1>0, <2>1, <2>2 DEF UnboundInv
<1>2. ASSUME NEW x \in Ticket, row[x] # None, NEW n, row' = [row EXCEPT ![x] = n],
             n.status # "pending"
      PROVE  UnboundInv'
  BY <1>0, <1>2 DEF UnboundInv
<1>3. ASSUME NEW x \in Ticket, row[x] # None, NEW s \in {"authorized", "denied"},
             row' = [row EXCEPT ![x].status = s]
      PROVE  UnboundInv'
  <2>1. PICK n : n = [row[x] EXCEPT !.status = s]
    OBVIOUS
  <2>2. n.status # "pending"
    BY <1>0, <1>3, <2>1 DEF G!TicketRow
  <2>3. row' = [row EXCEPT ![x] = n]
    BY <1>3, <2>1
  <2> QED BY <1>2, <1>3, <2>2, <2>3
<1>4. ASSUME NEW r \in Request, NEW x \in Ticket, G!Authorize(r, x)
      PROVE  UnboundInv'
  BY <1>1, <1>4 DEF G!Authorize, G!InsertAuthorizationCode
<1>5. ASSUME NEW c \in Client, NEW S0 \in SUBSET Scope, NEW x \in Ticket,
             G!DeviceAuthorize(c, S0, x) \/ \E u \in User : G!BackchannelAuthorize(c, u, S0, x)
      PROVE  UnboundInv'
  <2>1. CASE G!DeviceAuthorize(c, S0, x)
    BY <1>1, <2>1 DEF G!DeviceAuthorize, G!InsertDeviceCode
  <2>2. CASE \E u \in User : G!BackchannelAuthorize(c, u, S0, x)
    <3>1. PICK u \in User : G!Insert(x, "ciba", u, c, G!AskedScopes(c, S0), "pending")
      BY <2>2 DEF G!BackchannelAuthorize, G!InsertCIBARequest
    <3> QED BY <1>1, <3>1
  <2> QED BY <1>5, <2>1, <2>2
<1>6. ASSUME NEW u \in User, NEW x \in Ticket, G!ApproveDevice(u, x)
      PROVE  UnboundInv'
  <2>1. row[x] # None /\ row' = [row EXCEPT ![x] = [@ EXCEPT !.status = "authorized", !.user = u]]
    BY <1>6 DEF G!ApproveDevice, G!LockDeviceByUserCode, G!Decidable
  <2>2. PICK n \in G!TicketRow :
          /\ n = [row[x] EXCEPT !.status = "authorized", !.user = u]
          /\ n = [kind |-> row[x].kind, user |-> u, client |-> row[x].client,
                  scopes |-> row[x].scopes, status |-> "authorized"]
    BY <1>0, <2>1, TicketBound
  <2>3. row' = [row EXCEPT ![x] = n] /\ n.status # "pending"
    BY <2>1, <2>2
  <2> QED BY <1>2, <2>1, <2>3
<1>7. ASSUME NEW u \in User, NEW x \in Ticket, NEW approve \in BOOLEAN,
             G!DecideBackchannel(u, x, approve)
      PROVE  UnboundInv'
  <2>1. row[x] # None /\ row' = [row EXCEPT ![x].status = IF approve THEN "authorized" ELSE "denied"]
    BY <1>7 DEF G!DecideBackchannel, G!LockCIBARequest, G!Decidable
  <2> QED BY <1>3, <2>1
<1>8. ASSUME NEW x \in Ticket, G!DenyDevice(x) \/ G!RevokeDevice(x)
      PROVE  UnboundInv'
  <2>1. row[x] # None /\ row' = [row EXCEPT ![x].status = "denied"]
    BY <1>8 DEF G!DenyDevice, G!RevokeDevice, G!LockDeviceByUserCode, G!Decidable
  <2> QED BY <1>3, <2>1
<1>9. CASE UNCHANGED row
  BY <1>9 DEF UnboundInv
<1>10. ASSUME NEW r \in Request,
              \/ \E u \in User, c \in Client, S0 \in SUBSET Scope :
                   G!AuthorizePage(r, u, c, S0) \/ G!Decision(r, u, c, S0)
              \/ \E c \in Client, x \in Ticket, proof \in BOOLEAN : G!RedeemLock(r, c, x, proof)
              \/ G!AuthorizeRefused(r) \/ G!RedeemRefuse(r) \/ G!PollAgain(r)
              \/ G!Redeem(r) \/ G!Issue(r) \/ G!Crash(r)
       PROVE  UNCHANGED row
  BY <1>10 DEF G!AuthorizePage, G!Decision, G!RedeemLock, G!AuthorizeRefused, G!RedeemRefuse,
     G!PollAgain, G!Redeem, G!Issue, G!Crash, G!ticketVars
<1>11. ASSUME NEW x \in Ticket, G!Expire(x) \/ G!IntervalElapses(x)
       PROVE  UNCHANGED row
  BY <1>11 DEF G!Expire, G!IntervalElapses
<1>12. UNCHANGED G!vars => UNCHANGED row
  BY DEF G!vars, G!ticketVars
<1> QED BY <1>4, <1>5, <1>6, <1>7, <1>8, <1>9, <1>10, <1>11, <1>12
        DEF G!Next, G!UserStep, G!ClientStep, G!HandlerStep

-----------------------------------------------------------------------------
(* SigningKeys.                                                            *)

(* Keys on which something live still depends.                             *)
KeyInUse(k) ==
  \/ \E p \in Pair : active[p] = k
  \/ \E x \in token : x.kid = k
  \/ \E r \in Request : req[r].at = "sign" /\ req[r].kid = k

Rotating(r) == req[r].at \in {"retire", "switch", "audit", "answer"}

(* A key is in the environment from when it is saved until nothing uses it.*)
EnvInv ==
  /\ signing \in saved \ retired
  /\ retired \subseteq saved
  /\ saved \cap answered = {}
  /\ saved \cup answered \subseteq made
  /\ \A k \in saved : KeyInUse(k) => k \in {signing} \cup retired

(* The key of a rotation is its own until it is answered.                  *)
RotationInv ==
  /\ \A r \in Request : Rotating(r) => req[r].new \in made \ (answered \cup saved)
  /\ \A r, q \in Request : Rotating(r) /\ Rotating(q) /\ req[r].new = req[q].new => r = q
  /\ \A r \in Request : req[r].at = "switch" => req[r].new \in verifiers[req[r].process]

VerifierInv ==
  /\ \A p \in Pair : active[p] \in verifiers[p]
  /\ \A x \in token : x.kid = x.signedWith => x.kid \in verifiers[x.by] \cup lost

KeyInv == K!SigningTypeOK /\ EnvInv /\ RotationInv /\ VerifierInv

RotationWork == [at : {"retire", "switch", "audit", "answer"}, process : Pair, new : Key, old : Key]
SignWork == [at : {"sign"}, process : Pair, kid : Key]

LEMMA KeyInit == K!SigningInit => KeyInv
<1> SUFFICES ASSUME NEW k \in Key, K!SigningInit!(k) PROVE KeyInv
  BY DEF K!SigningInit
<1> QED BY DEF KeyInv, K!SigningTypeOK, EnvInv, RotationInv, VerifierInv, KeyInUse,
   Rotating, K!Idle

LEMMA Staged ==
  ASSUME NEW q \in RotationWork, NEW s \in {"switch", "audit", "answer"}
  PROVE  \E n \in RotationWork :
           /\ n = [q EXCEPT !.at = s]
           /\ n.at = s /\ n.process = q.process /\ n.new = q.new /\ n.old = q.old
<1>1. [q EXCEPT !.at = s] = [at |-> s, process |-> q.process, new |-> q.new, old |-> q.old]
  BY DEF RotationWork
<1>2. [at |-> s, process |-> q.process, new |-> q.new, old |-> q.old] \in RotationWork
  BY DEF RotationWork
<1> QED BY <1>1, <1>2

(* What a handler works on, by its stage.                                  *)
LEMMA StageOf ==
  ASSUME K!SigningTypeOK, NEW r \in Request
  PROVE  /\ req[r].at = "sign" => req[r] \in SignWork
         /\ Rotating(r) => req[r] \in RotationWork
         /\ req[r].at \notin {"sign"} /\ ~Rotating(r) => req[r] = K!Idle
BY DEF K!SigningTypeOK, Rotating, SignWork, RotationWork, K!Idle

LEMMA KeyStep == KeyInv /\ [K!SigningNext]_K!vars => KeyInv'
<1> SUFFICES ASSUME KeyInv, [K!SigningNext]_K!vars PROVE KeyInv'
  OBVIOUS
<1> USE DEF KeyInv, K!At, K!Go, K!issuer, K!env
<1>1. ASSUME NEW p \in Pair, K!Restart(p)
      PROVE  KeyInv'
  <2>1. K!SigningTypeOK'
    BY <1>1 DEF K!Restart, K!SigningTypeOK, K!Idle
  <2>2. EnvInv'
    BY <1>1 DEF K!Restart, K!SigningTypeOK, K!Idle, EnvInv, KeyInUse
  <2>3. RotationInv'
    BY <1>1 DEF K!Restart, K!SigningTypeOK, K!Idle, RotationInv, Rotating
  <2>4. VerifierInv'
    BY <1>1 DEF K!Restart, K!SigningTypeOK, VerifierInv, EnvInv, KeyInUse, K!SignedToken
  <2> QED BY <2>1, <2>2, <2>3, <2>4
<1>2. ASSUME NEW k \in Key, K!SaveKey(k)
      PROVE  KeyInv'
  BY <1>2 DEF K!SaveKey, K!SigningTypeOK, EnvInv, RotationInv, VerifierInv, KeyInUse,
     Rotating
<1>3. ASSUME NEW k \in Key, K!DropRetired(k)
      PROVE  KeyInv'
  BY <1>3 DEF K!DropRetired, K!SigningTypeOK, EnvInv, RotationInv, VerifierInv, KeyInUse,
     Rotating
<1>4. ASSUME NEW x \in token, K!Expire(x)
      PROVE  KeyInv'
  BY <1>4 DEF K!Expire, K!SigningTypeOK, EnvInv, RotationInv, VerifierInv, KeyInUse,
     Rotating
<1>5. ASSUME NEW r \in Request, NEW p \in Pair, K!SignHeader(r, p)
      PROVE  KeyInv'
  <2>1. K!SigningTypeOK'
    BY <1>5 DEF K!SignHeader, K!SigningTypeOK
  <2>2. EnvInv'
    BY <1>5 DEF K!SignHeader, K!SigningTypeOK, EnvInv, KeyInUse
  <2>3. RotationInv'
    BY <1>5 DEF K!SignHeader, K!SigningTypeOK, K!Idle, RotationInv, Rotating
  <2>4. VerifierInv'
    BY <1>5 DEF K!SignHeader, VerifierInv
  <2> QED BY <2>1, <2>2, <2>3, <2>4
<1>6. ASSUME NEW r \in Request, NEW p \in Pair, K!GenerateKey(r, p)
      PROVE  KeyInv'
  <2>0. PICK k \in Key \ made : K!GenerateKey(r, p)!(k)
    BY <1>6 DEF K!GenerateKey
  <2>1. K!SigningTypeOK'
    BY <2>0 DEF K!SigningTypeOK
  <2>2. EnvInv'
    BY <2>0 DEF K!SigningTypeOK, EnvInv, KeyInUse
  <2>3. RotationInv'
    BY <2>0 DEF K!SigningTypeOK, EnvInv, RotationInv, Rotating, K!Idle
  <2>4. VerifierInv'
    BY <2>0 DEF VerifierInv
  <2> QED BY <2>1, <2>2, <2>3, <2>4
<1>7. ASSUME NEW r \in Request, K!Sign(r)
      PROVE  KeyInv'
  <2>0. req[r] \in SignWork
    BY <1>7, StageOf DEF K!Sign
  <2>1. K!SigningTypeOK'
    BY <1>7, <2>0 DEF K!Sign, K!SigningTypeOK, SignWork, K!SignedToken
  <2>2. EnvInv'
    BY <1>7, <2>0 DEF K!Sign, K!SigningTypeOK, SignWork, EnvInv, KeyInUse, K!Idle
  <2>3. RotationInv'
    BY <1>7 DEF K!Sign, K!SigningTypeOK, RotationInv, Rotating, K!Idle
  <2>4. VerifierInv'
    BY <1>7, <2>0 DEF K!Sign, SignWork, VerifierInv
  <2> QED BY <2>1, <2>2, <2>3, <2>4
<1>8. ASSUME NEW r \in Request, K!RetireKey(r)
      PROVE  KeyInv'
  <2>0. req[r] \in RotationWork
    BY <1>8, StageOf DEF K!RetireKey, Rotating
  <2>a. PICK n \in RotationWork :
          /\ n = [req[r] EXCEPT !.at = "switch"]
          /\ n.at = "switch" /\ n.process = req[r].process /\ n.new = req[r].new /\ n.old = req[r].old
    BY <2>0, Staged
  <2>b. req' = [req EXCEPT ![r] = n]
    BY <1>8, <2>a DEF K!RetireKey
  <2>1. K!SigningTypeOK'
    BY <1>8, <2>0, <2>b DEF K!RetireKey, K!SigningTypeOK, RotationWork, K!WithRetired
  <2>2. EnvInv'
    BY <1>8, <2>a, <2>b DEF K!RetireKey, K!SigningTypeOK, EnvInv, KeyInUse
  <2>3. RotationInv'
    BY <1>8, <2>0, <2>a, <2>b DEF K!RetireKey, K!SigningTypeOK, RotationInv, Rotating,
       RotationWork, K!WithRetired
  <2>4. VerifierInv'
    BY <1>8, <2>0 DEF K!RetireKey, K!SigningTypeOK, VerifierInv, RotationWork, K!WithRetired
  <2> QED BY <2>1, <2>2, <2>3, <2>4
<1>9. ASSUME NEW r \in Request, K!Rotate(r)
      PROVE  KeyInv'
  <2>0. req[r] \in RotationWork
    BY <1>9, StageOf DEF K!Rotate, Rotating
  <2>a. PICK n \in RotationWork :
          /\ n = [req[r] EXCEPT !.at = "audit"]
          /\ n.at = "audit" /\ n.process = req[r].process /\ n.new = req[r].new /\ n.old = req[r].old
    BY <2>0, Staged
  <2>b. req' = [req EXCEPT ![r] = n]
    BY <1>9, <2>a DEF K!Rotate
  <2>1. K!SigningTypeOK'
    BY <1>9, <2>0, <2>b DEF K!Rotate, K!SigningTypeOK, RotationWork
  <2>2. EnvInv'
    BY <1>9, <2>0, <2>a, <2>b DEF K!Rotate, K!SigningTypeOK, EnvInv, KeyInUse,
       RotationInv, Rotating, RotationWork
  <2>3. RotationInv'
    BY <1>9, <2>a, <2>b DEF K!Rotate, K!SigningTypeOK, RotationInv, Rotating
  <2>4. VerifierInv'
    BY <1>9, <2>0 DEF K!Rotate, K!SigningTypeOK, VerifierInv, RotationInv, RotationWork
  <2> QED BY <2>1, <2>2, <2>3, <2>4
<1>10. ASSUME NEW r \in Request, NEW ok \in BOOLEAN, K!RecordRotation(r, ok)
      PROVE  KeyInv'
  <2>0. req[r] \in RotationWork
    BY <1>10, StageOf DEF K!RecordRotation, Rotating
  <2>a. PICK n \in RotationWork :
          /\ n = [req[r] EXCEPT !.at = "answer"]
          /\ n.at = "answer" /\ n.process = req[r].process /\ n.new = req[r].new /\ n.old = req[r].old
    BY <2>0, Staged
  <2>b. req' = [req EXCEPT ![r] = IF ok THEN n ELSE K!Idle]
    BY <1>10, <2>a DEF K!RecordRotation
  <2>1. K!SigningTypeOK'
    BY <1>10, <2>b DEF K!RecordRotation, K!SigningTypeOK, RotationWork
  <2>2. EnvInv'
    BY <1>10, <2>a, <2>b DEF K!RecordRotation, K!SigningTypeOK, EnvInv, KeyInUse, K!Idle
  <2>3. RotationInv'
    BY <1>10, <2>a, <2>b DEF K!RecordRotation, K!SigningTypeOK, RotationInv, Rotating,
       K!Idle
  <2>4. VerifierInv'
    BY <1>10 DEF K!RecordRotation, VerifierInv
  <2> QED BY <2>1, <2>2, <2>3, <2>4
<1>11. ASSUME NEW r \in Request, NEW arrives \in BOOLEAN, K!Answer(r, arrives)
      PROVE  KeyInv'
  <2>0. req[r] \in RotationWork
    BY <1>11, StageOf DEF K!Answer, Rotating
  <2>1. K!SigningTypeOK'
    BY <1>11, <2>0 DEF K!Answer, K!SigningTypeOK, RotationWork
  <2>2. EnvInv'
    BY <1>11, <2>0 DEF K!Answer, K!SigningTypeOK, EnvInv, KeyInUse, K!Idle, RotationInv,
       Rotating
  <2>3. RotationInv'
    BY <1>11, <2>0 DEF K!Answer, K!SigningTypeOK, RotationInv, Rotating, K!Idle
  <2>4. VerifierInv'
    BY <1>11 DEF K!Answer, VerifierInv
  <2> QED BY <2>1, <2>2, <2>3, <2>4
<1>12. CASE UNCHANGED K!vars
  BY <1>12 DEF K!vars, K!SigningTypeOK, EnvInv, RotationInv, VerifierInv, KeyInUse, Rotating
<1> QED
  BY <1>1, <1>2, <1>3, <1>4, <1>5, <1>6, <1>7, <1>8, <1>9, <1>10, <1>11, <1>12
     DEF K!SigningNext

LEMMA KeyHolds == KeyInv => K!RotationKeepsTokens
BY DEF KeyInv, K!SigningTypeOK, VerifierInv, K!RotationKeepsTokens, K!Verifies,
   K!SignedToken


-----------------------------------------------------------------------------
(* Evidence: a control asks one query or two, and no two controls of a     *)
(* catalog ask the same.                                                   *)

Single == {"mfa", "length", "complexity", "session", "risk", "roles", "assignments",
           "retention", "secrets", "chain", "events"}
Double == {"enforced", "sinks", "purges"}
Second(q) == IF q = "enforced" THEN "rules" ELSE IF q = "sinks" THEN "webhooks" ELSE "exports"
Controlled(c) == c \in {<<q>> : q \in Single} \cup {<<q, Second(q)>> : q \in Double}

(* The queries of a control.                                               *)
Asks(c) == IF c[1] \in Double THEN {c[1], Second(c[1])} ELSE {c[1]}

LEMMA Soc2Catalog ==
  /\ Len(E!soc2Controls) = 13
  /\ \A i \in 1..13 : Controlled(E!soc2Controls[i])
  /\ \A i, j \in 1..13 : E!soc2Controls[i][1] = E!soc2Controls[j][1] => i = j
<1> DEFINE C == E!soc2Controls
<1>1. /\ Len(C) = 13
      /\ C[1] = <<"mfa">> /\ C[2] = <<"length">> /\ C[3] = <<"complexity">>
      /\ C[4] = <<"session">> /\ C[5] = <<"risk">> /\ C[6] = <<"roles">>
      /\ C[7] = <<"assignments">> /\ C[8] = <<"retention">>
      /\ C[9] = <<"enforced", "rules">> /\ C[10] = <<"secrets">> /\ C[11] = <<"chain">>
      /\ C[12] = <<"events">> /\ C[13] = <<"sinks", "webhooks">>
  BY DEF E!soc2Controls
<1> HIDE DEF C
<1>2. \A i \in 1..13 : i \in {1, 2, 3, 4, 5, 6, 7, 8, 9, 10, 11, 12, 13}
  OBVIOUS
<1>3. \A i \in 1..13 : Controlled(C[i])
  BY <1>1, <1>2 DEF Controlled, Single, Double, Second
<1>4. \A i, j \in 1..13 : C[i][1] = C[j][1] => i = j
  BY <1>1, <1>2
<1> QED BY <1>1, <1>3, <1>4 DEF C

LEMMA Iso27001Catalog ==
  /\ Len(E!iso27001Controls) = 12
  /\ \A i \in 1..12 : Controlled(E!iso27001Controls[i])
  /\ \A i, j \in 1..12 : E!iso27001Controls[i][1] = E!iso27001Controls[j][1] => i = j
<1> DEFINE C == E!iso27001Controls
<1>1. /\ Len(C) = 12
      /\ C[1] = <<"mfa">> /\ C[2] = <<"length">> /\ C[3] = <<"complexity">>
      /\ C[4] = <<"roles">> /\ C[5] = <<"session">> /\ C[6] = <<"secrets">>
      /\ C[7] = <<"events">> /\ C[8] = <<"chain">> /\ C[9] = <<"sinks", "webhooks">>
      /\ C[10] = <<"enforced", "rules">> /\ C[11] = <<"purges", "exports">>
      /\ C[12] = <<"retention">>
  BY DEF E!iso27001Controls
<1> HIDE DEF C
<1>2. \A i \in 1..12 : i \in {1, 2, 3, 4, 5, 6, 7, 8, 9, 10, 11, 12}
  OBVIOUS
<1>3. \A i \in 1..12 : Controlled(C[i])
  BY <1>1, <1>2 DEF Controlled, Single, Double, Second
<1>4. \A i, j \in 1..12 : C[i][1] = C[j][1] => i = j
  BY <1>1, <1>2
<1> QED BY <1>1, <1>3, <1>4 DEF C

LEMMA Catalog ==
  ASSUME NEW f, NEW i \in 1..Len(E!Controls(f)), NEW j \in 1..Len(E!Controls(f))
  PROVE  /\ Len(E!Controls(f)) \in Nat
         /\ Controlled(E!Controls(f)[i])
         /\ i # j => Asks(E!Controls(f)[i]) \cap Asks(E!Controls(f)[j]) = {}
<1>1. /\ Len(E!Controls(f)) \in Nat
      /\ Controlled(E!Controls(f)[i]) /\ Controlled(E!Controls(f)[j])
      /\ E!Controls(f)[i][1] = E!Controls(f)[j][1] => i = j
  <2>1. CASE f = "soc2"
    <3>1. E!Controls(f) = E!soc2Controls
      BY <2>1 DEF E!Controls
    <3>2. i \in 1..13 /\ j \in 1..13
      BY <3>1, Soc2Catalog
    <3> QED BY <3>1, <3>2, Soc2Catalog
  <2>2. CASE f # "soc2"
    <3>1. E!Controls(f) = E!iso27001Controls
      BY <2>2 DEF E!Controls
    <3>2. i \in 1..12 /\ j \in 1..12
      BY <3>1, Iso27001Catalog
    <3> QED BY <3>1, <3>2, Iso27001Catalog
  <2> QED BY <2>1, <2>2
<1> QED BY <1>1 DEF Controlled, Asks, Single, Double, Second

LEMMA ControlShape ==
  ASSUME NEW c, Controlled(c)
  PROVE  /\ c[1] \in Single \cup Double
         /\ c[1] \in Single <=> Len(c) = 1
         /\ c[1] \in Double <=> Len(c) = 2
         /\ Len(c) = 2 => c[2] = Second(c[1])
         /\ E!Meaning(c) = IF c[1] \in {"sinks", "purges"} THEN {{c[1]}, {Second(c[1])}}
                           ELSE {Asks(c)}
<1>1. CASE c \in {<<q>> : q \in Single}
  <2>1. PICK q \in Single : c = <<q>>
    BY <1>1
  <2>2. c[1] = q /\ Len(c) = 1
    BY <2>1
  <2>3. {c[j] : j \in 1..Len(c)} = {q}
    <3>1. 1..Len(c) = {1}
      BY <2>2
    <3> QED BY <2>2, <3>1
  <2>4. q \notin Double /\ q \notin {"sinks", "purges"}
    BY DEF Single, Double
  <2>5. E!Meaning(c) = {{q}} /\ Asks(c) = {q}
    BY <2>2, <2>3, <2>4 DEF E!Meaning, Asks
  <2> QED BY <2>2, <2>4, <2>5
<1>2. CASE c \in {<<q, Second(q)>> : q \in Double}
  <2>1. PICK q \in Double : c = <<q, Second(q)>>
    BY <1>2
  <2>2. c[1] = q /\ c[2] = Second(q) /\ Len(c) = 2
    BY <2>1
  <2>3. {c[j] : j \in 1..Len(c)} = {q, Second(q)}
    BY <2>2
  <2> QED BY <2>2, <2>3 DEF Single, Double, E!Meaning, Asks, Second
<1> QED BY <1>1, <1>2 DEF Controlled

(* A verdict that the answers heard so far bear out.                       *)
Confirmed(c, v, g, b, u) ==
  /\ v = "pass" => \/ \E A \in E!Meaning(c) : A \subseteq g \ u
                   \/ c[1] = "risk" /\ BreachEnabled
  /\ v = "fail" =>
       \/ \A A \in E!Meaning(c) : A \cap b # {}
       \/ /\ c[1] \in {"sinks", "risk"}
          /\ \A A \in E!Meaning(c) : A \cap (b \cup u) # {}

(* Later answers are about other queries.                                  *)
LEMMA ConfirmedLater ==
  ASSUME NEW c, Controlled(c), NEW v, NEW g, NEW b, NEW u, NEW g2, NEW b2, NEW u2,
         Confirmed(c, v, g, b, u), g \subseteq g2, b \subseteq b2, u \subseteq u2,
         u2 \cap Asks(c) \subseteq u
  PROVE  Confirmed(c, v, g2, b2, u2)
<1>1. \A A \in E!Meaning(c) : A \subseteq Asks(c)
  BY ControlShape DEF Asks, Single, Double
<1> QED BY <1>1 DEF Confirmed

Answer == {"none", "weak", "good", "failed"}

(* What an answer says of the tables.                                      *)
Told(q, a, g, b, u) ==
  /\ a \in Answer
  /\ a = "good" => q \in g \ u
  /\ a \in {"none", "weak"} => q \in b
  /\ a = "failed" => q \in u

LEMMA JudgeSingle ==
  ASSUME NEW c, Controlled(c), c[1] \in Single, NEW a, NEW g, NEW b, NEW u,
         Told(c[1], a, g, b, u)
  PROVE  /\ E!Judge(c, a, "none") \in E!Status
         /\ Confirmed(c, E!Judge(c, a, "none"), g, b, u)
<1>1. E!Meaning(c) = {{c[1]}}
  BY ControlShape DEF Asks, Single, Double
<1>2. c[1] = "risk" =>
        E!Judge(c, a, "none") = IF a = "good" \/ BreachEnabled THEN "pass" ELSE "fail"
  BY DEF E!Judge, E!checkBreachedPasswordAndRisk
<1>3. c[1] \in {"assignments", "secrets"} =>
        E!Judge(c, a, "none") = IF a = "good" THEN "pass" ELSE "na"
  BY DEF E!Judge, E!checkRBACAssignments, E!checkSecretsEncryption, E!Shown
<1>4. c[1] = "chain" =>
        E!Judge(c, a, "none") = IF a = "weak" THEN "fail" ELSE IF a = "good" THEN "pass" ELSE "na"
  BY DEF E!Judge, E!checkAuditLogChain, E!Shown
<1>5. c[1] \in Single \ {"risk", "assignments", "secrets", "chain"} =>
        E!Judge(c, a, "none") = IF a = "failed" THEN "na" ELSE IF a = "good" THEN "pass" ELSE "fail"
  BY DEF Single, E!Judge, E!checkMFAEnforcement, E!checkPasswordMinLength,
         E!checkPasswordComplexity, E!checkSessionTimeout, E!checkRetentionPolicy,
         E!checkRBACRoles, E!checkAuditLogCoverage, E!Policy
<1> QED BY <1>1, <1>2, <1>3, <1>4, <1>5 DEF Confirmed, Told, Answer, E!Status

LEMMA JudgeDouble ==
  ASSUME NEW c, Controlled(c), c[1] \in Double, NEW a, NEW d, NEW g, NEW b, NEW u,
         Told(c[1], a, g, b, u), Told(c[2], d, g, b, u)
  PROVE  /\ E!Judge(c, a, d) \in E!Status
         /\ Confirmed(c, E!Judge(c, a, d), g, b, u)
<1>1. c[2] = Second(c[1])
  BY ControlShape
<1>2. CASE c[1] = "enforced"
  <2>1. E!Meaning(c) = {{c[1], c[2]}}
    BY <1>1, <1>2, ControlShape DEF Asks, Double
  <2>2. E!Judge(c, a, d) = IF a = "weak" THEN "fail" ELSE IF a = "good" /\ d = "good" THEN "pass" ELSE "na"
    BY <1>2 DEF E!Judge, E!checkIPAccessRules, E!Shown
  <2> QED BY <1>2, <2>1, <2>2 DEF Confirmed, Told, Answer, E!Status
<1>3. CASE c[1] \in {"sinks", "purges"}
  <2>1. E!Meaning(c) = {{c[1]}, {c[2]}}
    BY <1>1, <1>3, ControlShape
  <2>2. E!Judge(c, a, d) = IF "good" \in {a, d} THEN "pass"
                           ELSE IF c[1] = "sinks" THEN "fail" ELSE "na"
    BY <1>3 DEF E!Judge, E!checkSIEMForwarding, E!checkGDPRProcesses
  <2> QED BY <1>3, <2>1, <2>2 DEF Confirmed, Told, Answer, E!Status
<1> QED BY <1>2, <1>3 DEF Double

(* Without enforcement the rules are not asked for.                        *)
LEMMA JudgeUnenforced ==
  ASSUME NEW c, Controlled(c), c[1] = "enforced", NEW a, a # "good", NEW g, NEW b, NEW u,
         Told(c[1], a, g, b, u)
  PROVE  /\ E!Judge(c, a, "none") \in E!Status
         /\ Confirmed(c, E!Judge(c, a, "none"), g, b, u)
<1>1. E!Meaning(c) = {{c[1], Second(c[1])}}
  BY ControlShape DEF Asks, Double
<1>2. E!Judge(c, a, "none") = IF a = "weak" THEN "fail" ELSE "na"
  BY DEF E!Judge, E!checkIPAccessRules, E!Shown
<1> QED BY <1>1, <1>2 DEF Confirmed, Told, Answer, E!Status

-----------------------------------------------------------------------------
(* What was heard in a run, up to its next control.                        *)
Control(i) == E!Controls(framework)[i]
Running == framework # None

HeardInv ==
  /\ table \in [E!Query -> {None, "weak", "good"}]
  /\ good \subseteq E!Query /\ bad \subseteq E!Query
  /\ Running => \A q \in E!Query : IF table[q] = "good" THEN q \in good ELSE q \in bad

VerdictInv ==
  Running =>
    /\ verdict \in Seq(E!Status) /\ next = Len(verdict) + 1
    /\ next <= Len(E!Controls(framework)) + 1
    /\ \A i \in 1..Len(verdict) : Confirmed(Control(i), verdict[i], good, bad, unheard)

(* A query that failed was of a control that was checked, or is the first  *)
(* of the one that is being checked.                                       *)
UnheardInv ==
  Running =>
    /\ \A i \in 1..Len(E!Controls(framework)) :
         i > Len(verdict) =>
           unheard \cap Asks(Control(i)) \subseteq
             IF i = next /\ efirst # None THEN {Control(i)[1]} ELSE {}
    /\ efirst # None =>
         /\ next <= Len(E!Controls(framework)) /\ Control(next)[1] \in Double
         /\ Told(Control(next)[1], efirst, good, bad, unheard)

StoredInv ==
  stored # None =>
    \A i \in 1..Len(stored.verdict) :
      Confirmed(E!Controls(stored.framework)[i], stored.verdict[i],
                stored.good, stored.bad, stored.unheard)

RunInv == HeardInv /\ VerdictInv /\ UnheardInv /\ StoredInv /\ (~Running => efirst = None)

LEMMA RunInit == E!EvidenceInit => RunInv
BY DEF E!EvidenceInit, RunInv, HeardInv, VerdictInv, UnheardInv, StoredInv, Running

(* An answer tells of the query it is the answer to.                       *)
LEMMA AnswerTells ==
  ASSUME HeardInv, Running, NEW q \in E!Query, q \notin unheard, NEW a, E!Answers(q, a)
  PROVE  /\ Told(q, a, good, bad, unheard') /\ unheard \subseteq unheard'
         /\ unheard' \subseteq unheard \cup {q}
BY GrantsAssumption DEF HeardInv, E!Answers, E!Heard, Told, Answer

LEMMA AskedIsQuery ==
  ASSUME NEW c, Controlled(c)
  PROVE  c[1] \in E!Query /\ Second(c[1]) \in E!Query /\ Second(c[1]) # c[1]
BY ControlShape DEF Single, Double, Second, E!Query

LEMMA RunStep == RunInv /\ [E!EvidenceNext]_E!vars => RunInv'
<1> SUFFICES ASSUME RunInv, [E!EvidenceNext]_E!vars PROVE RunInv'
  OBVIOUS
<1> USE GrantsAssumption DEF RunInv, E!runVars
<1>1. ASSUME NEW f \in Framework, E!Begin(f)
      PROVE  RunInv'
  <2>1. HeardInv'
    BY <1>1 DEF E!Begin, E!Are, HeardInv, Running
  <2>2. VerdictInv' /\ UnheardInv'
    BY <1>1, Soc2Catalog, Iso27001Catalog DEF E!Begin, VerdictInv, UnheardInv, E!Controls
  <2>3. StoredInv' /\ (~Running => efirst = None)'
    BY <1>1 DEF E!Begin, StoredInv, Running
  <2> QED BY <2>1, <2>2, <2>3
<1>2. ASSUME NEW t \in E!Tables, E!ChangeTable(t)
      PROVE  RunInv'
  <2>0. /\ table' \in [E!Query -> {None, "weak", "good"}] /\ table' = t
        /\ UNCHANGED <<framework, next, efirst, verdict, unheard, stored>>
        /\ good \subseteq good' /\ bad \subseteq bad'
        /\ ~Running => UNCHANGED <<good, bad>>
        /\ Running => /\ good' = good \cup {q \in E!Query : t[q] = "good"}
                      /\ bad' = bad \cup {q \in E!Query : t[q] # "good"}
    BY <1>2 DEF E!ChangeTable, E!Tables, Running
  <2>1. HeardInv'
    BY <2>0 DEF HeardInv, Running
  <2>2. VerdictInv'
    <3>1. ASSUME Running, NEW i \in 1..Len(verdict)
          PROVE  Confirmed(Control(i), verdict[i], good', bad', unheard)
      BY <2>0, <3>1, Catalog, ConfirmedLater DEF VerdictInv, Control
    <3> QED BY <2>0, <3>1 DEF VerdictInv, Running, Control
  <2>3. UnheardInv'
    BY <2>0 DEF UnheardInv, Running, Control, Told
  <2>4. StoredInv' /\ (~Running => efirst = None)'
    BY <2>0 DEF StoredInv, Running
  <2> QED BY <2>1, <2>2, <2>3, <2>4
<1>3. ASSUME NEW a, E!AskFirst(a)
      PROVE  RunInv'
  <2> DEFINE c == Control(next)
  <2>0. /\ Running /\ next <= Len(E!Controls(framework)) /\ Len(c) = 2 /\ efirst = None
        /\ E!Answers(c[1], a) /\ efirst' = a
        /\ UNCHANGED <<table, framework, next, verdict, good, bad, stored>>
    BY <1>3 DEF E!AskFirst, Running, Control
  <2>1. /\ verdict \in Seq(E!Status) /\ next = Len(verdict) + 1
        /\ next \in 1..Len(E!Controls(framework))
    BY <2>0, Soc2Catalog, Iso27001Catalog DEF VerdictInv, E!Controls
  <2>2. /\ Controlled(c) /\ c[1] \in Double /\ c[1] \in E!Query
        /\ c[1] \in Asks(c) /\ c[1] \notin unheard
    BY <2>0, <2>1, Catalog, ControlShape, AskedIsQuery DEF Control, UnheardInv, Asks
  <2>3. /\ Told(c[1], a, good, bad, unheard') /\ unheard \subseteq unheard'
        /\ unheard' \subseteq unheard \cup {c[1]}
    BY <2>0, <2>2, AnswerTells
  <2> HIDE DEF c
  <2>4. HeardInv'
    BY <2>0 DEF HeardInv, Running
  <2>5. VerdictInv'
    <3>1. ASSUME NEW i \in 1..Len(verdict)
          PROVE  Confirmed(Control(i), verdict[i], good, bad, unheard')
      <4>0. i \in 1..Len(E!Controls(framework)) /\ i # next
        BY <2>1
      <4>1. Controlled(Control(i)) /\ Asks(Control(i)) \cap Asks(c) = {}
        BY <4>0, <2>1, Catalog DEF Control, c
      <4>2. unheard' \cap Asks(Control(i)) \subseteq unheard
        BY <4>1, <2>2, <2>3
      <4> QED BY <2>0, <2>3, <4>1, <4>2, ConfirmedLater DEF VerdictInv
    <3> QED BY <2>0, <3>1 DEF VerdictInv, Running, Control
  <2>6. UnheardInv'
    <3>1. ASSUME NEW i \in 1..Len(E!Controls(framework)), i > Len(verdict)
          PROVE  unheard' \cap Asks(Control(i)) \subseteq IF i = next THEN {Control(i)[1]} ELSE {}
      <4>1. unheard \cap Asks(Control(i)) = {}
        BY <2>0, <3>1 DEF UnheardInv
      <4>2. i # next => Asks(Control(i)) \cap Asks(c) = {}
        BY <2>1, Catalog DEF Control, c
      <4> QED BY <4>1, <4>2, <2>2, <2>3 DEF c
    <3>2. efirst' # None
      BY <2>0, <2>3 DEF Told, Answer
    <3> QED BY <2>0, <2>1, <2>2, <2>3, <3>1, <3>2 DEF UnheardInv, Running, Control, c
  <2>7. StoredInv' /\ (~Running => efirst = None)'
    BY <2>0 DEF StoredInv, Running
  <2> QED BY <2>4, <2>5, <2>6, <2>7
<1>4. ASSUME NEW a, E!Check(a)
      PROVE  RunInv'
  <2> DEFINE c == Control(next)
             v == IF efirst = None THEN E!Judge(c, a, "none") ELSE E!Judge(c, efirst, a)
  <2>0. /\ Running /\ next <= Len(E!Controls(framework))
        /\ Len(c) = 1 \/ efirst # None \/ (c[1] = "enforced" /\ a # "good")
        /\ E!Answers(c[IF efirst = None THEN 1 ELSE 2], a)
        /\ verdict' = Append(verdict, v) /\ next' = next + 1 /\ efirst' = None
        /\ UNCHANGED <<table, framework, good, bad, stored>>
    BY <1>4 DEF E!Check, Running, Control
  <2>1. /\ verdict \in Seq(E!Status) /\ next = Len(verdict) + 1
        /\ next \in 1..Len(E!Controls(framework)) /\ Len(E!Controls(framework)) \in Nat
    BY <2>0, Soc2Catalog, Iso27001Catalog DEF VerdictInv, E!Controls
  <2>2. Controlled(c) /\ c[1] \in Single \cup Double /\ (c[1] \in Single <=> Len(c) = 1)
    BY <2>1, Catalog, ControlShape DEF Control
  <2>3. /\ v \in E!Status /\ Confirmed(c, v, good, bad, unheard')
        /\ unheard \subseteq unheard' /\ unheard' \subseteq unheard \cup Asks(c)
    <3>1. CASE efirst = None
      <4>1. c[1] \notin unheard /\ c[1] \in E!Query /\ c[1] \in Asks(c)
        <5>1. next > Len(verdict) /\ c[1] \in Asks(c)
          BY <2>1 DEF Asks
        <5>2. unheard \cap Asks(c) = {}
          BY <3>1, <5>1, <2>0, <2>1 DEF UnheardInv, c
        <5> QED BY <5>1, <5>2, <2>2, AskedIsQuery
      <4>2. /\ Told(c[1], a, good, bad, unheard') /\ unheard \subseteq unheard'
            /\ unheard' \subseteq unheard \cup {c[1]}
        BY <3>1, <2>0, <4>1, AnswerTells
      <4> HIDE DEF c
      <4>3. /\ E!Judge(c, a, "none") \in E!Status
            /\ Confirmed(c, E!Judge(c, a, "none"), good, bad, unheard')
        BY <3>1, <2>0, <2>2, <4>2, JudgeSingle, JudgeUnenforced
      <4> QED BY <3>1, <4>1, <4>2, <4>3
    <3>2. CASE efirst # None
      <4>1. /\ c[1] \in Double /\ Told(c[1], efirst, good, bad, unheard)
            /\ unheard \cap Asks(c) \subseteq {c[1]}
        <5>1. /\ \A i \in 1..Len(E!Controls(framework)) :
                   i > Len(verdict) =>
                     unheard \cap Asks(Control(i)) \subseteq
                       IF i = next /\ efirst # None THEN {Control(i)[1]} ELSE {}
              /\ Control(next)[1] \in Double
              /\ Told(Control(next)[1], efirst, good, bad, unheard)
          BY <3>2, <2>0 DEF UnheardInv
        <5>2. next > Len(verdict) /\ next \in 1..Len(E!Controls(framework))
          BY <2>1
        <5> QED BY <5>1, <5>2, <3>2 DEF c
      <4>2. c[2] = Second(c[1]) /\ c[2] \in E!Query /\ c[2] \notin unheard /\ c[2] \in Asks(c) /\ c[2] # c[1]
        BY <4>1, <2>2, ControlShape, AskedIsQuery DEF Asks
      <4>3. /\ Told(c[2], a, good, bad, unheard') /\ unheard \subseteq unheard'
            /\ unheard' \subseteq unheard \cup {c[2]}
        BY <3>2, <2>0, <4>2, AnswerTells
      <4>4. Told(c[1], efirst, good, bad, unheard')
        BY <4>1, <4>2, <4>3 DEF Told
      <4> HIDE DEF c
      <4>5. /\ E!Judge(c, efirst, a) \in E!Status
            /\ Confirmed(c, E!Judge(c, efirst, a), good, bad, unheard')
        BY <2>2, <4>1, <4>3, <4>4, JudgeDouble
      <4> QED BY <3>2, <4>2, <4>3, <4>5
    <3> QED BY <3>1, <3>2
  <2> HIDE DEF c, v
  <2>4. HeardInv'
    BY <2>0 DEF HeardInv, Running
  <2>5. VerdictInv'
    <3>1. ASSUME NEW i \in 1..Len(verdict)
          PROVE  Confirmed(Control(i), verdict[i], good, bad, unheard')
      <4>0. i \in 1..Len(E!Controls(framework)) /\ i # next
        BY <2>1
      <4>1. Controlled(Control(i)) /\ Asks(Control(i)) \cap Asks(c) = {}
        BY <4>0, <2>1, Catalog DEF Control, c
      <4>2. unheard' \cap Asks(Control(i)) \subseteq unheard
        BY <4>1, <2>3
      <4> QED BY <2>0, <2>3, <4>1, <4>2, ConfirmedLater DEF VerdictInv
    <3>2. /\ verdict' \in Seq(E!Status) /\ Len(verdict') = Len(verdict) + 1
          /\ verdict'[Len(verdict) + 1] = v
          /\ \A i \in 1..Len(verdict) : verdict'[i] = verdict[i]
      BY <2>0, <2>1, <2>3
    <3>3. ASSUME NEW i \in 1..Len(verdict')
          PROVE  Confirmed(Control(i), verdict'[i], good, bad, unheard')
      <4>1. CASE i \in 1..Len(verdict)
        BY <4>1, <3>1, <3>2
      <4>2. CASE i = next
        BY <4>2, <2>1, <2>3, <3>2 DEF c
      <4> QED BY <4>1, <4>2, <3>2, <2>1
    <3> QED BY <2>0, <2>1, <3>2, <3>3 DEF VerdictInv, Running, Control
  <2>6. UnheardInv'
    <3>1. ASSUME NEW i \in 1..Len(E!Controls(framework)), i > next
          PROVE  unheard' \cap Asks(Control(i)) = {}
      <4>1. unheard \cap Asks(Control(i)) = {}
        BY <3>1, <2>0, <2>1 DEF UnheardInv
      <4>2. Asks(Control(i)) \cap Asks(c) = {}
        BY <3>1, <2>1, Catalog DEF Control, c
      <4> QED BY <4>1, <4>2, <2>3
    <3>2. Len(verdict') = next
      BY <2>0, <2>1, <2>3
    <3> QED BY <2>0, <3>1, <3>2 DEF UnheardInv, Running, Control
  <2>7. StoredInv' /\ (~Running => efirst = None)'
    BY <2>0 DEF StoredInv, Running
  <2> QED BY <2>4, <2>5, <2>6, <2>7
<1>5. ASSUME NEW committed \in BOOLEAN, E!Generate(committed)
      PROVE  RunInv'
  <2>0. /\ Running /\ framework' = None /\ efirst' = efirst
        /\ next > Len(E!Controls(framework))
        /\ good' = {} /\ bad' = {} /\ table' = table
        /\ \/ stored' = stored
           \/ stored' = [framework |-> framework, verdict |-> verdict,
                         good |-> good, bad |-> bad, unheard |-> unheard]
    BY <1>5 DEF E!Generate, Running
  <2>1. efirst = None
    BY <2>0, Soc2Catalog, Iso27001Catalog DEF UnheardInv, VerdictInv, E!Controls
  <2>2. StoredInv'
    BY <2>0 DEF StoredInv, VerdictInv, Control
  <2>3. HeardInv' /\ VerdictInv' /\ UnheardInv' /\ (~Running => efirst = None)'
    BY <2>0, <2>1 DEF HeardInv, VerdictInv, UnheardInv, Running
  <2> QED BY <2>2, <2>3
<1>6. CASE UNCHANGED E!vars
  BY <1>6 DEF E!vars, HeardInv, VerdictInv, UnheardInv, StoredInv, Running, Control
<1> QED
  BY <1>1, <1>2, <1>3, <1>4, <1>5, <1>6 DEF E!EvidenceNext

LEMMA RunHolds == RunInv => E!PassIsConfirmed /\ E!FailIsConfirmed
BY DEF RunInv, StoredInv, Confirmed, E!PassIsConfirmed, E!FailIsConfirmed


-----------------------------------------------------------------------------
(* Anomaly.                                                                *)

ActorOf(w) == Observed[awork[w].event].actor

(* The transaction of w has read the baseline of a.                        *)
Loaded(w, a) ==
  /\ awork[w].at \in {"save", "mark"} /\ ActorOf(w) = a
  /\ awork[w].at = "mark" => lock[a] = w

SweepTypeInv ==
  /\ baseline \in [N!Actor -> [Request -> Nat] \cup {None}]
  /\ lock \in [N!Actor -> Pair \cup {None}]
  /\ anomaly \in [Request -> {None, "open", "resolved"}]
  /\ awork = [w \in Pair |-> awork[w]]
  /\ \A w \in Pair :
       /\ awork[w].at \in {"rest", "next", "load", "save", "mark"}
       /\ awork[w].at \in {"load", "save", "mark"} => awork[w].event \in Request
       /\ awork[w].at \in {"load", "save"} => ActorOf(w) \in N!Actor
  /\ compared \subseteq Request
  /\ \A e \in compared : Observed[e].actor \in N!Actor

BaseInv ==
  \A a \in N!Actor, w \in Pair : Loaded(w, a) => awork[w].base \in [Request -> Nat]

(* A row is held by the transaction that read it.                          *)
SweepLockInv == \A a \in N!Actor, w \in Pair : lock[a] = w => Loaded(w, a)

(* Unless two found no row at one time, a transaction is alone with what it*)
(* read.                                                                   *)
AloneInv ==
  \A a \in N!Actor \ clashed, w \in Pair : Loaded(w, a) =>
    /\ \A v \in Pair : Loaded(v, a) => v = w
    /\ \A e \in Request : baseline[a] # None => awork[w].base[e] >= baseline[a][e]
    /\ awork[w].at = "save" => baseline[a] = None \/ lock[a] = w
    /\ awork[w].at = "mark" => awork[w].base[awork[w].event] >= 1

CountedInv ==
  /\ \A e \in compared : Observed[e].actor \notin clashed =>
       baseline[Observed[e].actor] # None /\ baseline[Observed[e].actor][e] >= 1
  /\ N!ResolvedStaysResolved /\ closed \subseteq Request

SweepInv == SweepTypeInv /\ BaseInv /\ SweepLockInv /\ AloneInv /\ CountedInv

LEMMA SweepInit == N!AnomalyInit => SweepInv
BY GrantsAssumption, OAuthTokensAssumption
   DEF N!AnomalyInit, SweepInv, SweepTypeInv, BaseInv, SweepLockInv, AloneInv, CountedInv,
       N!ResolvedStaysResolved, N!Resting, Loaded, ActorOf

(* Who goes on to another event, or rests, has read nothing.               *)
LEMMA SweepGoesOn ==
  ASSUME SweepInv, NEW w \in Pair, N!Next(w)
  PROVE  /\ awork' = [awork EXCEPT ![w] = awork'[w]]
         /\ awork'[w].at \in {"rest", "next"}
BY DEF SweepInv, SweepTypeInv, N!Next, N!Go, N!Resting

LEMMA SweepStep == SweepInv /\ [N!AnomalyNext]_N!vars => SweepInv'
<1> SUFFICES ASSUME SweepInv, [N!AnomalyNext]_N!vars PROVE SweepInv'
  OBVIOUS
<1> USE GrantsAssumption, OAuthTokensAssumption
    DEF SweepInv, N!At, N!Go, N!rowVars, N!histVars
<1>1. CASE UNCHANGED <<scored, baseline, lock, anomaly, awork, compared, clashed, closed>>
  BY <1>1 DEF SweepTypeInv, BaseInv, SweepLockInv, AloneInv, CountedInv,
     N!ResolvedStaysResolved,
              Loaded, ActorOf
<1>2. ASSUME NEW e \in Request, N!ResolveAnomaly(e)
      PROVE  SweepInv'
  BY <1>2 DEF N!ResolveAnomaly, SweepTypeInv, BaseInv, SweepLockInv, AloneInv, CountedInv,
              N!ResolvedStaysResolved, Loaded, ActorOf
<1>3. ASSUME NEW w \in Pair,
             N!ListUnscoredAuditEvents(w) \/ \E e \in Request : N!settingsFor(w, e)
      PROVE  SweepInv'
  <2>0. /\ awork[w].at \in {"rest", "next"}
        /\ awork' = [awork EXCEPT ![w] = awork'[w]]
        /\ awork'[w].at \in {"next", "load", "mark"}
        /\ awork'[w].at \in {"load", "mark"} => awork'[w].event \in Request
        /\ awork'[w].at = "load" => ActorOf(w)' \in N!Actor
        /\ UNCHANGED <<baseline, lock, anomaly, compared, clashed, closed>>
    BY <1>3 DEF N!ListUnscoredAuditEvents, N!settingsFor, SweepTypeInv, ActorOf, N!Actor
  <2>1. \A b \in N!Actor : lock[b] # w
    BY <2>0 DEF SweepLockInv, Loaded
  <2>2. \A v \in Pair, b \in N!Actor : Loaded(v, b)' => Loaded(v, b) /\ awork'[v] = awork[v]
    BY <2>0, <2>1 DEF SweepTypeInv, Loaded, ActorOf
  <2>3. \A v \in Pair, b \in N!Actor : Loaded(v, b) => Loaded(v, b)'
    BY <2>0 DEF SweepTypeInv, Loaded, ActorOf
  <2>4. SweepTypeInv'
    BY <2>0 DEF SweepTypeInv, ActorOf
  <2>5. BaseInv'
    BY <2>0, <2>2 DEF BaseInv
  <2>6. SweepLockInv'
    BY <2>0, <2>3 DEF SweepLockInv
  <2>7. AloneInv'
    BY <2>0, <2>2 DEF AloneInv
  <2>8. CountedInv'
    BY <2>0 DEF CountedInv, N!ResolvedStaysResolved
  <2> QED BY <2>4, <2>5, <2>6, <2>7, <2>8
<1>5. ASSUME NEW w \in Pair, N!loadBaseline(w)
      PROVE  SweepInv'
  <2> DEFINE a == ActorOf(w)
  <2>0. /\ awork[w].at = "load" /\ a \in N!Actor
        /\ baseline[a] # None => lock[a] = None
        /\ lock' = IF baseline[a] = None THEN lock ELSE [lock EXCEPT ![a] = w]
        /\ awork'[w].at = "save" /\ awork'[w].event = awork[w].event
        /\ awork'[w].base = IF baseline[a] = None THEN N!Empty ELSE baseline[a]
        /\ \A v \in Pair \ {w} : awork'[v] = awork[v]
        /\ awork' = [v \in Pair |-> awork'[v]]
        /\ clashed' = IF /\ baseline[a] = None
                         /\ \E v \in Pair \ {w} :
                              awork[v].at \in {"save", "mark"} /\ ActorOf(v) = a
                      THEN clashed \cup {a} ELSE clashed
        /\ UNCHANGED <<baseline, anomaly, compared, closed>>
    BY <1>5 DEF N!loadBaseline, N!GetActorBaseline, SweepTypeInv, ActorOf
  <2> HIDE DEF a
  <2>1. SweepTypeInv'
    BY <2>0 DEF SweepTypeInv, ActorOf, a
  <2>2. /\ \A v \in Pair, b \in N!Actor : Loaded(v, b)' <=>
             Loaded(v, b) \/ (v = w /\ b = a)
        /\ \A b \in N!Actor : ~Loaded(w, b)
    <3>1. ASSUME NEW b \in N!Actor
          PROVE  ~Loaded(w, b) /\ (Loaded(w, b)' <=> b = a)
      BY <2>0 DEF Loaded, ActorOf, a
    <3>2. ASSUME NEW v \in Pair \ {w}, NEW b \in N!Actor
          PROVE  lock'[b] = v <=> lock[b] = v
      <4>1. CASE baseline[a] = None
        BY <4>1, <2>0
      <4>2. CASE baseline[a] # None
        BY <4>2, <2>0 DEF SweepTypeInv
      <4> QED BY <4>1, <4>2
    <3>3. ASSUME NEW v \in Pair \ {w}, NEW b \in N!Actor
          PROVE  Loaded(v, b)' <=> Loaded(v, b)
      <4>1. awork'[v] = awork[v] /\ (lock'[b] = v <=> lock[b] = v)
        BY <2>0, <3>2
      <4> QED BY <4>1 DEF Loaded, ActorOf
    <3> QED BY <3>1, <3>3
  <2>3. SweepLockInv'
    <3>1. ASSUME NEW b \in N!Actor, NEW v \in Pair, lock'[b] = v
          PROVE  lock[b] = v \/ (v = w /\ b = a)
      BY <3>1, <2>0 DEF SweepTypeInv
    <3> QED BY <2>2, <3>1 DEF SweepLockInv
  <2>b. BaseInv'
    <3>1. a \in N!Actor /\ N!Empty \in [Request -> Nat] /\ awork'[w].base \in [Request -> Nat]
      BY <2>0 DEF SweepTypeInv, N!Empty
    <3> QED BY <2>0, <2>2, <3>1 DEF BaseInv
  <2>4. AloneInv'
    BY <2>0, <2>2 DEF BaseInv, AloneInv, SweepTypeInv, SweepLockInv, Loaded, N!Empty
  <2>5. CountedInv'
    BY <2>0 DEF CountedInv, N!ResolvedStaysResolved
  <2> QED BY <2>b, <2>1, <2>3, <2>4, <2>5
<1>6. ASSUME NEW w \in Pair, N!saveBaseline(w)
      PROVE  SweepInv'
  <2> DEFINE a == ActorOf(w)
  <2>0. /\ awork[w].at = "save" /\ a \in N!Actor
        /\ lock[a] \in {None, w} /\ lock' = [lock EXCEPT ![a] = w]
        /\ awork'[w].at = "mark" /\ awork'[w].event = awork[w].event
        /\ awork'[w].base = [awork[w].base EXCEPT ![awork[w].event] = @ + 1]
        /\ \A v \in Pair \ {w} : awork'[v] = awork[v]
        /\ awork' = [v \in Pair |-> awork'[v]]
        /\ UNCHANGED <<baseline, anomaly, compared, clashed, closed>>
    BY <1>6 DEF N!saveBaseline, N!UpsertActorBaseline, N!fold, SweepTypeInv, ActorOf
  <2> HIDE DEF a
  <2>1. SweepTypeInv'
    BY <2>0 DEF SweepTypeInv, ActorOf, a
  <2>2. \A v \in Pair, b \in N!Actor : Loaded(v, b)' <=> Loaded(v, b)
    BY <2>0 DEF Loaded, ActorOf, SweepTypeInv, SweepLockInv, a
  <2>3. Loaded(w, a)
    BY <2>0 DEF Loaded, a
  <2>4. SweepLockInv'
    BY <2>0, <2>2, <2>3 DEF SweepLockInv, SweepTypeInv
  <2>b. BaseInv'
    <3>1. awork[w].base \in [Request -> Nat] /\ awork'[w].base \in [Request -> Nat]
      BY <2>0, <2>3 DEF BaseInv, SweepTypeInv
    <3> QED BY <2>0, <2>2, <3>1 DEF BaseInv
  <2>5. AloneInv'
    BY <2>0, <2>2, <2>3 DEF BaseInv, AloneInv, SweepTypeInv, SweepLockInv, Loaded
  <2>6. CountedInv'
    BY <2>0 DEF CountedInv, N!ResolvedStaysResolved
  <2> QED BY <2>b, <2>1, <2>4, <2>5, <2>6
<1>7. ASSUME NEW w \in Pair, N!MarkAuditEventScored(w)
      PROVE  SweepInv'
  <2> DEFINE a == ActorOf(w)
  <2>0. /\ awork[w].at = "mark" /\ awork[w].event \in Request
        /\ baseline' = [b \in N!Actor |-> IF lock[b] = w THEN awork[w].base ELSE baseline[b]]
        /\ anomaly' \in {anomaly, N!InsertAnomaly(awork[w].event)}
        /\ compared' = IF N!Held(w) # {} THEN compared \cup {awork[w].event} ELSE compared
        /\ lock' = [b \in N!Actor |-> IF lock[b] = w THEN None ELSE lock[b]]
        /\ awork' = [awork EXCEPT ![w] = awork'[w]]
        /\ awork'[w].at \in {"rest", "next"}
        /\ UNCHANGED <<clashed, closed>>
    BY <1>7, SweepGoesOn DEF N!MarkAuditEventScored, N!Held, N!Release, SweepTypeInv
  <2> HIDE DEF a
  <2>1. /\ \A b \in N!Actor : lock[b] = w => b = a
        /\ N!Held(w) # {} => a \in N!Actor /\ lock[a] = w /\ Loaded(w, a)
    BY DEF SweepLockInv, Loaded, N!Held, a
  <2>2. /\ \A v \in Pair, b \in N!Actor : Loaded(v, b)' => Loaded(v, b) /\ v # w
        /\ \A v \in Pair, b \in N!Actor : Loaded(v, b) /\ v # w => Loaded(v, b)'
    BY <2>0 DEF Loaded, ActorOf, SweepTypeInv
  <2>3. SweepLockInv'
    BY <2>0, <2>2 DEF SweepLockInv, SweepTypeInv
  <2>b. BaseInv'
    BY <2>0, <2>1, <2>2 DEF BaseInv, SweepTypeInv, Loaded, ActorOf
  <2>4. AloneInv'
    BY <2>0, <2>1, <2>2 DEF BaseInv, AloneInv, SweepTypeInv, SweepLockInv, Loaded
  <2>5. CountedInv'
    <3>1. ASSUME NEW e \in compared', Observed[e].actor \notin clashed
          PROVE  baseline'[Observed[e].actor] # None /\ baseline'[Observed[e].actor][e] >= 1
      <4>1. CASE e \in compared /\ lock[Observed[e].actor] # w
        BY <4>1, <3>1, <2>0 DEF CountedInv, SweepTypeInv
      <4>2. CASE e \in compared /\ lock[Observed[e].actor] = w
        <5>1. /\ Observed[e].actor = a /\ a \in N!Actor /\ Loaded(w, a)
              /\ baseline'[a] = awork[w].base
          BY <4>2, <3>1, <2>0, <2>1 DEF SweepTypeInv, N!Held
        <5>2. /\ awork[w].base \in [Request -> Nat] /\ e \in Request
              /\ awork[w].base[e] >= baseline[a][e]
              /\ baseline[a] \in [Request -> Nat] /\ baseline[a][e] >= 1
          BY <5>1, <4>2, <3>1 DEF BaseInv, AloneInv, SweepTypeInv, CountedInv
        <5> QED BY <5>1, <5>2
      <4>3. CASE e \notin compared
        <5>1. /\ Observed[e].actor = a /\ a \in N!Actor /\ Loaded(w, a)
              /\ baseline'[a] = awork[w].base /\ e = awork[w].event
          BY <4>3, <3>1, <2>0, <2>1 DEF ActorOf, a
        <5>2. awork[w].base \in [Request -> Nat] /\ awork[w].base[e] >= 1
          BY <5>1, <3>1, <2>0 DEF BaseInv, AloneInv, SweepTypeInv
        <5> QED BY <5>1, <5>2
      <4> QED BY <4>1, <4>2, <4>3
    <3>2. N!ResolvedStaysResolved' /\ (closed \subseteq Request)'
      <4>1. CASE anomaly' = anomaly
        BY <4>1, <2>0 DEF CountedInv, N!ResolvedStaysResolved
      <4>2. CASE anomaly' = N!InsertAnomaly(awork[w].event)
        BY <4>2, <2>0 DEF CountedInv, N!ResolvedStaysResolved, N!InsertAnomaly, SweepTypeInv
      <4> QED BY <4>1, <4>2, <2>0
    <3> QED BY <2>0, <3>1, <3>2 DEF CountedInv
  <2>6. SweepTypeInv'
    <3>1. baseline' \in [N!Actor -> [Request -> Nat] \cup {None}]
      BY <2>0, <2>1 DEF BaseInv, SweepTypeInv, N!Held
    <3>2. anomaly' \in [Request -> {None, "open", "resolved"}]
      BY <2>0 DEF SweepTypeInv, N!InsertAnomaly
    <3>3. (compared \subseteq Request /\ \A e \in compared : Observed[e].actor \in N!Actor)'
      BY <2>0, <2>1 DEF SweepTypeInv, ActorOf, a
    <3> QED BY <2>0, <3>1, <3>2, <3>3 DEF SweepTypeInv, ActorOf
  <2> QED BY <2>b, <2>3, <2>4, <2>5, <2>6
<1>8. ASSUME NEW w \in Pair, N!Rollback(w) \/ N!Crash(w)
      PROVE  SweepInv'
  <2>0. /\ lock' = [b \in N!Actor |-> IF lock[b] = w THEN None ELSE lock[b]]
        /\ awork' = [awork EXCEPT ![w] = awork'[w]]
        /\ awork'[w].at \in {"rest", "next"}
        /\ UNCHANGED <<baseline, anomaly, compared, clashed, closed>>
    BY <1>8, SweepGoesOn DEF N!Rollback, N!Crash, N!Held, N!Release, N!Resting, SweepTypeInv
  <2>1. SweepTypeInv'
    BY <2>0 DEF SweepTypeInv, ActorOf
  <2>2. SweepLockInv'
    BY <2>0 DEF SweepTypeInv, SweepLockInv, Loaded, ActorOf
  <2>b. BaseInv'
    BY <2>0 DEF BaseInv, SweepTypeInv, Loaded, ActorOf
  <2>3. AloneInv'
    BY <2>0 DEF BaseInv, SweepTypeInv, SweepLockInv, AloneInv, Loaded, ActorOf
  <2>4. CountedInv'
    BY <2>0 DEF CountedInv, N!ResolvedStaysResolved
  <2> QED BY <2>b, <2>1, <2>2, <2>3, <2>4
<1>9. ASSUME N!AnomalyNext
      PROVE  \/ UNCHANGED <<scored, baseline, lock, anomaly, awork, compared, clashed, closed>>
             \/ \E e \in Request : N!ResolveAnomaly(e)
             \/ \E w \in Pair :
                  \/ N!ListUnscoredAuditEvents(w) \/ N!loadBaseline(w) \/ N!saveBaseline(w)
                  \/ N!MarkAuditEventScored(w) \/ N!Rollback(w) \/ N!Crash(w)
                  \/ \E e \in Request : N!settingsFor(w, e)
  BY <1>9 DEF N!AnomalyNext, N!Record, N!UpdateSettings
<1> QED BY <1>1, <1>2, <1>3, <1>5, <1>6, <1>7, <1>8, <1>9 DEF N!vars

LEMMA SweepHolds == SweepInv => N!ScoredIsCounted /\ N!ResolvedStaysResolved
BY DEF SweepInv, CountedInv, N!ScoredIsCounted


-----------------------------------------------------------------------------
(* Activity.                                                               *)

WalkRecord ==
  [at : {"walk"}, event : Nat, tenant : Tenant, next : Nat, size : Nat,
   shared : BOOLEAN, cells : Seq(Stream)]
Walking == walk.at = "walk"

(* The array the walk goes over.                                           *)
Cells == IF walk.shared THEN array[walk.tenant] ELSE walk.cells

(* The cell that is being written over.                                    *)
Gap(t, i) == t \in leave.of /\ leave.at = i

HubTypeInv ==
  /\ array \in [Tenant -> Seq(Stream)] /\ size \in [Tenant -> Nat]
  /\ about \in Seq(Tenant) /\ owed \in Seq(SUBSET Stream) /\ Len(owed) = Len(about)
  /\ walk \in WalkRecord \cup {S!Resting}
  /\ leave = S!Nobody \/ \E t \in Tenant : \E i \in 1..size[t] : leave = [of |-> {t}, at |-> i]
  /\ buffer \in [Stream -> Seq(Nat)] /\ taken \in [Stream -> Seq(Nat)]
  /\ conn \in [Stream -> {"new", "open", "gone"}]

(* An array has streams of its tenant; its slice has those that are open,  *)
(* each once.                                                              *)
SliceInv ==
  /\ \A t \in Tenant :
       /\ size[t] <= Len(array[t])
       /\ \A i \in 1..Len(array[t]) : HomeOf[array[t][i]] = t
       /\ \A i \in 1..size[t] : ~Gap(t, i) => conn[array[t][i]] = "open"
       /\ \A i, j \in 1..size[t] :
            ~Gap(t, i) /\ ~Gap(t, j) /\ array[t][i] = array[t][j] => i = j
  /\ \A s \in Stream : conn[s] = "open" =>
       \E i \in 1..size[HomeOf[s]] : ~Gap(HomeOf[s], i) /\ array[HomeOf[s]][i] = s

(* The message that is handed out is the last.  Until a stream of its      *)
(* tenant leaves, the walk goes over the slice as it was.                  *)
WalkInv ==
  Walking =>
    /\ walk.event = Len(about) /\ walk.event >= 1 /\ about[walk.event] = walk.tenant
    /\ walk.next \in 1..(walk.size + 1) /\ walk.size <= Len(Cells)
    /\ \A i \in 1..Len(Cells) : HomeOf[Cells[i]] = walk.tenant
    /\ walk.event \notin raced =>
         /\ walk.tenant \notin leave.of
         /\ walk.shared => walk.size <= size[walk.tenant]
         /\ \A i, j \in 1..walk.size : Cells[i] = Cells[j] => i = j

(* d came before e.                                                        *)
Before(d, e) == d <= e /\ (d = e => d \in raced)

OrderOf(s) ==
  /\ \A i \in 1..Len(taken[s]) : taken[s][i] \in 1..Len(about) /\ about[taken[s][i]] = HomeOf[s]
  /\ \A i \in 1..Len(buffer[s]) : buffer[s][i] \in 1..Len(about) /\ about[buffer[s][i]] = HomeOf[s]
  /\ \A i, j \in 1..Len(taken[s]) : i < j => Before(taken[s][i], taken[s][j])
  /\ \A i, j \in 1..Len(buffer[s]) : i < j => Before(buffer[s][i], buffer[s][j])
  /\ \A i \in 1..Len(taken[s]), j \in 1..Len(buffer[s]) : Before(taken[s][i], buffer[s][j])
OrderInv == \A s \in Stream : OrderOf(s)

Has(s, e) ==
  \/ \E i \in 1..Len(taken[s]) : taken[s][i] = e
  \/ \E i \in 1..Len(buffer[s]) : buffer[s][i] = e

(* Who has the message that is handed out was passed by the walk.          *)
PassedInv ==
  Walking /\ walk.event \notin raced =>
    \A s \in Stream : Has(s, walk.event) => \E i \in 1..(walk.next - 1) : Cells[i] = s

Newest(e) == \A d \in 1..Len(about) : d > e => about[d] # about[e]

KeptInv ==
  \A e \in 1..Len(about) :
    /\ \A s \in owed[e] : HomeOf[s] = about[e] /\ conn[s] # "new"
    /\ e \notin raced /\ Newest(e) =>
         \A s \in owed[e] : conn[s] = "open" =>
           \/ Has(s, e)
           \/ Walking /\ walk.event = e /\ \E i \in walk.next..walk.size : Cells[i] = s

HubInv == HubTypeInv /\ SliceInv /\ WalkInv /\ OrderInv /\ PassedInv /\ KeptInv

LEMMA HubInit == S!ActivityInit => HubInv
<1> SUFFICES ASSUME S!ActivityInit PROVE HubInv
  OBVIOUS
<1> USE DEF S!ActivityInit
<1>1. HubTypeInv
  BY DEF HubTypeInv
<1>2. SliceInv /\ WalkInv /\ OrderInv
  BY GrantsAssumption DEF SliceInv, WalkInv, OrderInv, OrderOf, Walking, S!Resting
<1>3. PassedInv /\ KeptInv
  BY DEF PassedInv, KeptInv, Walking, S!Resting
<1> QED BY <1>1, <1>2, <1>3 DEF HubInv

(* What a buffer holds after one more event.                               *)
LEMMA EnqueuedSeq ==
  ASSUME NEW b \in Seq(Nat), NEW e \in Nat
  PROVE  /\ S!Enqueued(b, e) \in Seq(Nat) /\ Len(S!Enqueued(b, e)) >= 1
         /\ S!Enqueued(b, e)[Len(S!Enqueued(b, e))] = e
         /\ \E k \in {0, 1} : \A i \in 1..(Len(S!Enqueued(b, e)) - 1) :
              i + k \in 1..Len(b) /\ S!Enqueued(b, e)[i] = b[i + k]
<1>1. CASE Len(b) < subBufSize
  BY <1>1 DEF S!Enqueued
<1>2. CASE ~(Len(b) < subBufSize)
  <2>1. Len(b) >= 1
    BY <1>2, GrantsAssumption
  <2>2. /\ Tail(b) \in Seq(Nat) /\ Len(Tail(b)) = Len(b) - 1
        /\ \A i \in 1..(Len(b) - 1) : Tail(b)[i] = b[i + 1]
    BY <2>1
  <2>3. S!Enqueued(b, e) = Append(Tail(b), e)
    BY <1>2 DEF S!Enqueued
  <2> HIDE <1>2
  <2> QED BY <2>1, <2>2, <2>3
<1> QED BY <1>1, <1>2

(* A slice with one more stream.                                           *)
LEMMA GrownSeq ==
  ASSUME HubInv, NEW s \in Stream, NEW t \in Tenant, HomeOf[s] = t
  PROVE  /\ S!Grown(t, s) \in Seq(Stream)
         /\ Len(S!Grown(t, s)) >= size[t] + 1
         /\ \A i \in 1..Len(S!Grown(t, s)) : HomeOf[S!Grown(t, s)[i]] = t
         /\ \A i \in 1..size[t] : S!Grown(t, s)[i] = array[t][i]
         /\ S!Grown(t, s)[size[t] + 1] = s
         /\ size[t] # Len(array[t]) => Len(S!Grown(t, s)) = Len(array[t])
<1>0. /\ array[t] \in Seq(Stream) /\ size[t] \in Nat /\ size[t] <= Len(array[t])
      /\ \A i \in 1..Len(array[t]) : array[t][i] \in Stream /\ HomeOf[array[t][i]] = t
  BY DEF HubInv, HubTypeInv, SliceInv
<1>1. CASE size[t] < Len(array[t])
  BY <1>0, <1>1 DEF S!Grown
<1>2. CASE ~(size[t] < Len(array[t]))
  <2> DEFINE n == size[t]
             m == IF n = 0 THEN 1 ELSE 2 * n
             g == [i \in 1..m |-> IF i <= n THEN array[t][i] ELSE s]
  <2>1. S!Grown(t, s) = g
    BY <1>2 DEF S!Grown
  <2>2. m \in Nat /\ m >= n + 1 /\ n \in Nat
    BY <1>0
  <2>3. \A i \in 1..m : g[i] \in Stream /\ HomeOf[g[i]] = t
    BY <1>0
  <2>4. g \in Seq(Stream) /\ Len(g) = m
    <3>1. g \in [1..m -> Stream]
      BY <2>3
    <3>2. g \in Seq(Stream)
      <4> HIDE DEF g, m
      <4> QED BY <3>1, <2>2, SeqDef
    <3>3. DOMAIN g = 1..m /\ DOMAIN g = 1..Len(g) /\ Len(g) \in Nat
      BY <3>1, <3>2, LenProperties, Zenon
    <3>4. Len(g) = m
      <4> HIDE DEF g, m
      <4> QED BY <3>3, <2>2
    <3> QED BY <3>2, <3>4
  <2>5. /\ \A i \in 1..n : g[i] = array[t][i]
        /\ g[n + 1] = s
    BY <2>2
  <2>6. size[t] = Len(array[t])
    BY <1>0, <1>2
  <2> HIDE DEF g, m
  <2> QED BY <2>1, <2>2, <2>3, <2>4, <2>5, <2>6
<1> QED BY <1>1, <1>2

(* The two ways a walk's record changes.                                   *)
LEMMA WalkOn ==
  ASSUME NEW w \in WalkRecord
  PROVE  \E n \in WalkRecord :
           /\ n = [w EXCEPT !.next = @ + 1]
           /\ n.at = "walk" /\ n.event = w.event /\ n.tenant = w.tenant
           /\ n.next = w.next + 1 /\ n.size = w.size /\ n.shared = w.shared /\ n.cells = w.cells
<1> DEFINE n == [at |-> "walk", event |-> w.event, tenant |-> w.tenant, next |-> w.next + 1,
                 size |-> w.size, shared |-> w.shared, cells |-> w.cells]
<1>1. [w EXCEPT !.next = @ + 1] = n
  BY DEF WalkRecord
<1>2. n \in WalkRecord
  BY DEF WalkRecord
<1> QED BY <1>1, <1>2

LEMMA WalkLeft ==
  ASSUME walk \in WalkRecord, NEW c \in Seq(Stream)
  PROVE  /\ S!LeftBehind(c) \in WalkRecord
         /\ S!LeftBehind(c).at = "walk" /\ S!LeftBehind(c).event = walk.event
         /\ S!LeftBehind(c).tenant = walk.tenant /\ S!LeftBehind(c).next = walk.next
         /\ S!LeftBehind(c).size = walk.size /\ S!LeftBehind(c).shared = FALSE
         /\ S!LeftBehind(c).cells = c
BY DEF WalkRecord, S!LeftBehind

(* A walk stands at "walk", and only a walk does.                          *)
LEMMA WalkingIs == HubTypeInv => (Walking <=> walk \in WalkRecord)
BY DEF HubTypeInv, Walking, WalkRecord, S!Resting

(* A walk's array is a sequence of streams of its tenant.                  *)
LEMMA CellsAre ==
  ASSUME HubInv, Walking
  PROVE  /\ walk \in WalkRecord /\ walk.tenant \in Tenant
         /\ walk.next \in Nat /\ walk.size \in Nat /\ walk.event \in Nat /\ walk.shared \in BOOLEAN
         /\ Cells \in Seq(Stream) /\ Len(Cells) \in Nat
         /\ walk.next >= 1 /\ walk.next <= walk.size + 1 /\ walk.size <= Len(Cells)
         /\ \A i \in 1..Len(Cells) : Cells[i] \in Stream /\ HomeOf[Cells[i]] = walk.tenant
         /\ Len(about) \in Nat /\ walk.event = Len(about) /\ walk.event >= 1
         /\ about[walk.event] = walk.tenant
<1>1. walk \in WalkRecord
  BY WalkingIs DEF HubInv
<1>2. /\ walk.tenant \in Tenant /\ walk.next \in Nat /\ walk.size \in Nat /\ walk.event \in Nat
      /\ walk.shared \in BOOLEAN /\ walk.cells \in Seq(Stream)
  BY <1>1 DEF WalkRecord
<1>3. Cells \in Seq(Stream)
  BY <1>2 DEF Cells, HubInv, HubTypeInv
<1>4. about \in Seq(Tenant)
  BY DEF HubInv, HubTypeInv
<1>5. /\ walk.next \in 1..(walk.size + 1) /\ walk.size <= Len(Cells)
      /\ \A i \in 1..Len(Cells) : HomeOf[Cells[i]] = walk.tenant
      /\ walk.event = Len(about) /\ walk.event >= 1 /\ about[walk.event] = walk.tenant
  BY DEF HubInv, WalkInv
<1> HIDE DEF Cells
<1> QED BY <1>1, <1>2, <1>3, <1>4, <1>5

(* fanOut gives the message to the next cell's stream, whatever has become *)
(* of it.                                                                  *)
LEMMA FanOutStep == HubInv /\ S!fanOut => HubInv'
<1> SUFFICES ASSUME HubInv, S!fanOut PROVE HubInv'
  OBVIOUS
<1> USE GrantsAssumption
<1> DEFINE s == Cells[walk.next]
           q == S!Enqueued(buffer[s], walk.event)
<1>0. /\ HubTypeInv /\ SliceInv /\ WalkInv /\ OrderInv /\ PassedInv /\ KeptInv
      /\ Walking /\ walk.next <= walk.size
  BY DEF HubInv, S!fanOut, Walking
<1>4. /\ walk \in WalkRecord /\ Cells \in Seq(Stream) /\ walk.next \in 1..Len(Cells)
      /\ walk.next \in 1..walk.size /\ walk.size \in Nat
      /\ s \in Stream /\ HomeOf[s] = walk.tenant
      /\ walk.event \in 1..Len(about) /\ walk.event = Len(about) /\ about[walk.event] = walk.tenant
      /\ walk.event \in Nat /\ Len(about) \in Nat
  <2>1. /\ walk \in WalkRecord /\ walk.next \in Nat /\ walk.size \in Nat /\ walk.event \in Nat
        /\ Cells \in Seq(Stream) /\ Len(Cells) \in Nat
        /\ walk.next >= 1 /\ walk.size <= Len(Cells)
        /\ \A i \in 1..Len(Cells) : Cells[i] \in Stream /\ HomeOf[Cells[i]] = walk.tenant
        /\ Len(about) \in Nat /\ walk.event = Len(about) /\ walk.event >= 1
        /\ about[walk.event] = walk.tenant
    BY <1>0, CellsAre
  <2> HIDE DEF Cells
  <2> QED BY <1>0, <2>1
<1>1. PICK n \in WalkRecord :
        /\ n = [walk EXCEPT !.next = @ + 1]
        /\ n.at = "walk" /\ n.event = walk.event /\ n.tenant = walk.tenant
        /\ n.next = walk.next + 1 /\ n.size = walk.size /\ n.shared = walk.shared /\ n.cells = walk.cells
  BY <1>4, WalkOn
<1>2. /\ buffer' = [buffer EXCEPT ![s] = q] /\ walk' = n
      /\ UNCHANGED <<array, size, about, leave, taken, conn, owed, raced>>
  BY <1>1 DEF S!fanOut, S!hubVars, Cells
<1>3. /\ Walking' /\ Cells' = Cells
      /\ walk'.event = walk.event /\ walk'.tenant = walk.tenant /\ walk'.next = walk.next + 1
      /\ walk'.size = walk.size /\ walk'.shared = walk.shared
  BY <1>1, <1>2 DEF Walking, Cells
<1>b. buffer \in [Stream -> Seq(Nat)] /\ taken \in [Stream -> Seq(Nat)]
  BY <1>0 DEF HubTypeInv
<1>5. /\ q \in Seq(Nat) /\ Len(q) >= 1 /\ q[Len(q)] = walk.event
      /\ \E k \in {0, 1} : \A i \in 1..(Len(q) - 1) :
           i + k \in 1..Len(buffer[s]) /\ q[i] = buffer[s][i + k]
  <2> HIDE DEF s
  <2>1. buffer[s] \in Seq(Nat)
    BY <1>4, <1>b
  <2> QED BY <2>1, <1>4, EnqueuedSeq
<1>k. PICK k \in {0, 1} : \A i \in 1..(Len(q) - 1) :
           i + k \in 1..Len(buffer[s]) /\ q[i] = buffer[s][i + k]
  BY <1>5
<1> HIDE DEF s, q
<1>l. Len(q) \in Nat /\ Len(taken[s]) \in Nat /\ Len(buffer[s]) \in Nat
  BY <1>4, <1>5, <1>b
<1>o. \A x \in Stream : taken'[x] = taken[x] /\ (x # s => buffer'[x] = buffer[x]) /\ (x = s => buffer'[x] = q)
  BY <1>2, <1>b, <1>4
<1>6. HubTypeInv'
  BY <1>0, <1>1, <1>2, <1>5 DEF HubTypeInv
<1>7. SliceInv'
  BY <1>0, <1>2 DEF SliceInv, Gap
<1>8. WalkInv'
  BY <1>0, <1>2, <1>3, <1>4 DEF WalkInv
<1>9. walk.event \notin raced => ~Has(s, walk.event)
  <2>1. ASSUME walk.event \notin raced, NEW i \in 1..(walk.next - 1)
        PROVE  Cells[i] # s
    <3>1. \A a, b \in 1..walk.size : Cells[a] = Cells[b] => a = b
      BY <1>0, <2>1 DEF WalkInv
    <3>2. i \in 1..walk.size /\ i # walk.next
      BY <1>4
    <3> QED BY <3>1, <3>2, <1>4 DEF s
  <2> QED BY <2>1, <1>0, <1>4 DEF PassedInv
<1>10. OrderInv'
  <2> SUFFICES ASSUME NEW x \in Stream PROVE OrderOf(x)'
    BY DEF OrderInv
  <2>1. CASE x # s
    BY <1>0, <2>1, <1>o, <1>2 DEF OrderInv, OrderOf, Before
  <2>2. CASE x = s
    <3>0. OrderOf(s)
      BY <1>0, <1>4 DEF OrderInv
    <3>1. buffer'[s] = q /\ taken'[s] = taken[s] /\ about' = about /\ raced' = raced
      BY <1>o, <1>2, <1>4
    <3>2. \A i \in 1..Len(q) : q[i] \in 1..Len(about) /\ about[q[i]] = HomeOf[s]
      <4>1. ASSUME NEW i \in 1..Len(q), i # Len(q)
            PROVE  q[i] \in 1..Len(about) /\ about[q[i]] = HomeOf[s]
        <5>1. i + k \in 1..Len(buffer[s]) /\ q[i] = buffer[s][i + k]
          BY <4>1, <1>k, <1>l
        <5> QED BY <5>1, <3>0 DEF OrderOf
      <4> QED BY <4>1, <1>4, <1>5
    <3>3. \A i \in 1..Len(taken[s]) : Before(taken[s][i], walk.event)
      BY <3>0, <1>4, <1>9 DEF OrderOf, Before, Has
    <3>4. \A i \in 1..Len(buffer[s]) : Before(buffer[s][i], walk.event)
      BY <3>0, <1>4, <1>9 DEF OrderOf, Before, Has
    <3>5. ASSUME NEW i \in 1..Len(q), NEW j \in 1..Len(q), i < j
          PROVE  Before(q[i], q[j])
      <4>1. /\ i + k \in 1..Len(buffer[s]) /\ q[i] = buffer[s][i + k]
        BY <1>k, <1>l, <3>5
      <4>2. CASE j = Len(q)
        BY <4>1, <4>2, <1>5, <3>4
      <4>3. CASE j # Len(q)
        <5>1. /\ j + k \in 1..Len(buffer[s]) /\ q[j] = buffer[s][j + k]
          BY <1>k, <1>l, <4>3
        <5>2. i + k < j + k
          BY <3>5, <1>l
        <5> QED BY <4>1, <5>1, <5>2, <3>0 DEF OrderOf
      <4> QED BY <4>2, <4>3
    <3>6. ASSUME NEW i \in 1..Len(taken[s]), NEW j \in 1..Len(q)
          PROVE  Before(taken[s][i], q[j])
      <4>1. CASE j = Len(q)
        BY <4>1, <1>5, <3>3
      <4>2. CASE j # Len(q)
        <5>1. /\ j + k \in 1..Len(buffer[s]) /\ q[j] = buffer[s][j + k]
          BY <1>k, <1>l, <4>2
        <5> QED BY <5>1, <3>0 DEF OrderOf
      <4> QED BY <4>1, <4>2
    <3> QED BY <2>2, <3>0, <3>1, <3>2, <3>5, <3>6 DEF OrderOf, Before
  <2> QED BY <2>1, <2>2
<1>11. PassedInv'
  <2>1. ASSUME walk.event \notin raced, NEW x \in Stream, Has(x, walk.event)'
        PROVE  \E i \in 1..walk.next : Cells[i] = x
    <3>1. CASE x = s
      BY <3>1, <1>4 DEF s
    <3>2. CASE x # s
      <4>1. Has(x, walk.event)
        BY <3>2, <2>1, <1>2, <1>o, <1>3 DEF Has
      <4> QED BY <4>1, <2>1, <1>0, <1>4 DEF PassedInv
    <3> QED BY <3>1, <3>2
  <2> QED BY <2>1, <1>2, <1>3, <1>4 DEF PassedInv
<1>12. KeptInv'
  <2>1. ASSUME NEW e \in 1..Len(about), e \notin raced, Newest(e), NEW x \in owed[e], conn[x] = "open"
        PROVE  \/ Has(x, e)'
               \/ walk.event = e /\ \E i \in (walk.next + 1)..walk.size : Cells[i] = x
    <3>0. x \in Stream /\ HomeOf[x] = about[e]
      BY <1>0 DEF KeptInv, HubTypeInv
    <3>1. CASE x = s
      <4>1. e = walk.event
        <5>1. about[walk.event] = about[e]
          BY <3>0, <3>1, <1>4
        <5>2. ~(walk.event > e)
          BY <5>1, <2>1, <1>4 DEF Newest
        <5> QED BY <5>2, <1>4
      <4>2. buffer'[x] = q
        BY <3>1, <1>o, <1>4
      <4>3. Len(q) \in 1..Len(q) /\ q[Len(q)] = e
        BY <1>5, <1>l, <4>1
      <4> QED BY <4>2, <4>3, <1>2 DEF Has
    <3>2. CASE x # s
      <4>1. Has(x, e)' <=> Has(x, e)
        BY <3>0, <3>2, <1>2, <1>o DEF Has
      <4>2. Has(x, e) \/ (walk.event = e /\ \E i \in walk.next..walk.size : Cells[i] = x)
        BY <2>1, <1>0 DEF KeptInv
      <4> QED BY <4>1, <4>2, <3>2, <1>4 DEF s
    <3> QED BY <3>1, <3>2
  <2>2. \A e \in 1..Len(about) : \A x \in owed[e] : HomeOf[x] = about[e] /\ conn[x] # "new"
    BY <1>0 DEF KeptInv
  <2> QED BY <2>1, <2>2, <1>2, <1>3 DEF KeptInv, Newest
<1> QED BY <1>6, <1>7, <1>8, <1>10, <1>11, <1>12 DEF HubInv

LEMMA FanOutEndsStep == HubInv /\ S!FanOutEnds => HubInv'
<1> SUFFICES ASSUME HubInv, S!FanOutEnds PROVE HubInv'
  OBVIOUS
<1>0. /\ HubTypeInv /\ SliceInv /\ WalkInv /\ OrderInv /\ PassedInv /\ KeptInv
      /\ Walking /\ walk.next > walk.size /\ walk' = S!Resting /\ ~Walking'
      /\ UNCHANGED <<array, size, about, leave, buffer, taken, conn, owed, raced>>
  BY DEF HubInv, S!FanOutEnds, S!hubVars, Walking, S!Resting
<1>1. walk.next \in Nat /\ walk.size \in Nat
  BY <1>0, CellsAre
<1>2. HubTypeInv' /\ SliceInv'
  <2>1. HubTypeInv'
    BY <1>0 DEF HubTypeInv
  <2>2. SliceInv'
    BY <1>0 DEF SliceInv, Gap
  <2> QED BY <2>1, <2>2
<1>5. WalkInv' /\ PassedInv'
  BY <1>0 DEF WalkInv, PassedInv
<1>3. OrderInv'
  BY <1>0 DEF OrderInv, OrderOf, Before
<1>4. KeptInv'
  BY <1>0, <1>1 DEF KeptInv, Newest, Has
<1> QED BY <1>2, <1>3, <1>4, <1>5 DEF HubInv

(* A new message goes to the slice as it is, in which no stream is leaving.*)
LEMMA DispatchStep == ASSUME NEW t \in Tenant PROVE HubInv /\ S!dispatch(t) => HubInv'
<1> SUFFICES ASSUME HubInv, S!dispatch(t) PROVE HubInv'
  OBVIOUS
<1> USE GrantsAssumption
<1> DEFINE n == Len(about) + 1
           o == S!ToSet(SubSeq(array[t], 1, size[t]))
<1>0. /\ HubTypeInv /\ SliceInv /\ WalkInv /\ OrderInv /\ PassedInv /\ KeptInv
      /\ ~Walking /\ leave = S!Nobody
      /\ about' = Append(about, t) /\ owed' = Append(owed, o)
      /\ walk' = [at |-> "walk", event |-> n, tenant |-> t, next |-> 1,
                  size |-> size[t], shared |-> TRUE, cells |-> <<>>]
      /\ UNCHANGED <<array, size, leave, buffer, taken, conn, raced>>
  BY DEF HubInv, S!dispatch, S!hubVars, Walking, S!Resting
<1>1. /\ about \in Seq(Tenant) /\ owed \in Seq(SUBSET Stream) /\ Len(owed) = Len(about)
      /\ array[t] \in Seq(Stream) /\ size[t] \in Nat /\ size[t] <= Len(array[t])
      /\ Len(about) \in Nat /\ n \in Nat
  BY <1>0 DEF HubTypeInv, SliceInv
<1>2. /\ \A i \in 1..Len(array[t]) : array[t][i] \in Stream /\ HomeOf[array[t][i]] = t
      /\ \A i \in 1..size[t] : conn[array[t][i]] = "open"
      /\ \A i, j \in 1..size[t] : array[t][i] = array[t][j] => i = j
  <2>1. \A i \in Nat : ~Gap(t, i)
    BY <1>0 DEF Gap, S!Nobody
  <2> QED BY <2>1, <1>0, <1>1 DEF SliceInv
<1>3. o \subseteq Stream /\ \A x \in o : \E i \in 1..size[t] : array[t][i] = x
  <2>1. /\ SubSeq(array[t], 1, size[t]) = [i \in 1..size[t] |-> array[t][i]]
    BY <1>1
  <2>2. o = {array[t][i] : i \in 1..size[t]}
    BY <2>1, <1>1 DEF S!ToSet
  <2> QED BY <2>2, <1>1, <1>2
<1> HIDE DEF o
<1>4. /\ Len(about') = n /\ about'[n] = t /\ Len(owed') = n /\ owed'[n] = o
      /\ \A i \in 1..Len(about) : about'[i] = about[i] /\ owed'[i] = owed[i]
  BY <1>0, <1>1
<1>5. /\ Walking' /\ walk'.event = n /\ walk'.tenant = t /\ walk'.next = 1
      /\ walk'.size = size[t] /\ walk'.shared = TRUE /\ Cells' = array[t]
  BY <1>0 DEF Walking, Cells
<1>6. HubTypeInv'
  <2>1. walk' \in WalkRecord
    BY <1>0, <1>1 DEF WalkRecord
  <2>2. about' \in Seq(Tenant) /\ owed' \in Seq(SUBSET Stream)
    BY <1>0, <1>1, <1>3
  <2> QED BY <2>1, <2>2, <1>0, <1>4 DEF HubTypeInv
<1>7. SliceInv'
  BY <1>0 DEF SliceInv, Gap
<1>8. WalkInv'
  <2>1. t \notin leave'.of
    BY <1>0 DEF S!Nobody
  <2> QED BY <2>1, <1>0, <1>1, <1>2, <1>4, <1>5 DEF WalkInv
<1>9. OrderInv'
  <2> SUFFICES ASSUME NEW x \in Stream PROVE OrderOf(x)'
    BY DEF OrderInv
  <2>1. OrderOf(x)
    BY <1>0 DEF OrderInv
  <2>2. taken' = taken /\ buffer' = buffer /\ raced' = raced
    BY <1>0
  <2> HIDE DEF n
  <2>3. \A d \in 1..Len(about) : d \in 1..Len(about') /\ about'[d] = about[d]
    BY <1>1, <1>4 DEF n
  <2> QED BY <2>1, <2>2, <2>3 DEF OrderOf, Before
<1>10. \A x \in Stream : ~Has(x, n) /\ \A e \in Nat : Has(x, e)' <=> Has(x, e)
  <2> SUFFICES ASSUME NEW x \in Stream
               PROVE  ~Has(x, n) /\ \A e \in Nat : Has(x, e)' <=> Has(x, e)
    OBVIOUS
  <2>1. OrderOf(x)
    BY <1>0 DEF OrderInv
  <2>2. ~\E i \in 1..Len(taken[x]) : taken[x][i] = n
    BY <2>1, <1>1 DEF OrderOf
  <2>3. ~\E i \in 1..Len(buffer[x]) : buffer[x][i] = n
    BY <2>1, <1>1 DEF OrderOf
  <2>4. \A e \in Nat : Has(x, e)' <=> Has(x, e)
    BY <1>0 DEF Has
  <2> QED BY <2>2, <2>3, <2>4 DEF Has
<1>11. PassedInv'
  <2>1. \A x \in Stream : ~Has(x, walk.event)'
    BY <1>0, <1>5, <1>10 DEF Has
  <2> QED BY <2>1 DEF PassedInv
<1>12. KeptInv'
  <2> SUFFICES ASSUME NEW e \in 1..n
               PROVE  /\ \A x \in owed'[e] : HomeOf[x] = about'[e] /\ conn[x] # "new"
                      /\ e \notin raced /\ Newest(e)' =>
                           \A x \in owed'[e] : conn[x] = "open" =>
                             \/ Has(x, e)'
                             \/ n = e /\ \E i \in 1..size[t] : array[t][i] = x
    BY <1>0, <1>4, <1>5 DEF KeptInv
  <2>1. CASE e = n
    <3>1. owed'[e] = o /\ about'[e] = t
      BY <2>1, <1>4
    <3>2. \A x \in o : HomeOf[x] = t /\ conn[x] = "open" /\ \E i \in 1..size[t] : array[t][i] = x
      <4> SUFFICES ASSUME NEW x \in o
                   PROVE  HomeOf[x] = t /\ conn[x] = "open" /\ \E i \in 1..size[t] : array[t][i] = x
        OBVIOUS
      <4>1. PICK i \in 1..size[t] : array[t][i] = x
        BY <1>3
      <4>2. i \in 1..Len(array[t])
        BY <1>1
      <4> QED BY <4>1, <4>2, <1>2
    <3> QED BY <2>1, <3>1, <3>2
  <2>2. CASE e # n
    <3>1. e \in 1..Len(about) /\ about'[e] = about[e] /\ owed'[e] = owed[e]
      BY <2>2, <1>1, <1>4
    <3>2. Newest(e)' => Newest(e)
      BY <3>1, <1>1, <1>4 DEF Newest
    <3>3. owed[e] \subseteq Stream
      BY <3>1, <1>1
    <3> QED BY <3>1, <3>2, <3>3, <1>0, <1>10 DEF KeptInv
  <2> QED BY <2>1, <2>2
<1> QED BY <1>6, <1>7, <1>8, <1>9, <1>11, <1>12 DEF HubInv

(* Coming and going leaves what was received and is owed, if the cells the *)
(* walk has not passed are as they were.                                   *)
LEMMA ComeAndGo ==
  ASSUME HubInv, raced \subseteq raced', UNCHANGED <<about, owed, buffer>>,
         \A x \in Stream : taken'[x] = taken[x] \/ (taken'[x] = <<>> /\ conn[x] = "new"),
         \A x \in Stream : conn[x] # "new" => conn'[x] = conn[x] \/ conn'[x] = "gone",
         Walking' <=> Walking,
         Walking => /\ walk'.event = walk.event /\ walk'.next = walk.next /\ walk'.size = walk.size
                    /\ walk.event \notin raced' => \A i \in 1..walk.size : Cells'[i] = Cells[i]
  PROVE  OrderInv' /\ PassedInv' /\ KeptInv'
<1>0. HubTypeInv /\ OrderInv /\ PassedInv /\ KeptInv
  BY DEF HubInv
<1>h. \A x \in Stream, e \in Nat :
        /\ Has(x, e)' => Has(x, e)
        /\ conn[x] # "new" /\ Has(x, e) => Has(x, e)'
  BY DEF Has
<1>1. OrderInv'
  <2> SUFFICES ASSUME NEW x \in Stream PROVE OrderOf(x)'
    BY DEF OrderInv
  <2>1. OrderOf(x)
    BY <1>0 DEF OrderInv
  <2>2. CASE taken'[x] = taken[x]
    BY <2>1, <2>2 DEF OrderOf, Before
  <2>3. CASE taken'[x] = <<>>
    BY <2>1, <2>3 DEF OrderOf, Before
  <2> QED BY <2>2, <2>3
<1>2. Walking => /\ walk.event \in Nat /\ walk.next \in Nat /\ walk.size \in Nat
                 /\ walk.next >= 1 /\ walk.next <= walk.size + 1
  BY CellsAre
<1>3. PassedInv'
  BY <1>0, <1>2, <1>h DEF PassedInv
<1>4. KeptInv'
  <2> SUFFICES ASSUME NEW e \in 1..Len(about), NEW x \in owed[e]
               PROVE  /\ HomeOf[x] = about[e] /\ conn'[x] # "new"
                      /\ e \notin raced' /\ Newest(e) /\ conn'[x] = "open" =>
                             \/ Has(x, e)'
                             \/ Walking' /\ walk'.event = e /\ \E i \in walk'.next..walk'.size : Cells'[i] = x
    BY DEF KeptInv, Newest
  <2>1. x \in Stream /\ HomeOf[x] = about[e] /\ conn[x] # "new"
    BY <1>0 DEF KeptInv, HubTypeInv
  <2>2. HomeOf[x] = about[e] /\ conn'[x] # "new"
    BY <2>1
  <2>3. ASSUME e \notin raced', Newest(e), conn'[x] = "open", ~Has(x, e)'
        PROVE  Walking' /\ walk'.event = e /\ \E i \in walk'.next..walk'.size : Cells'[i] = x
    <3>1. Walking /\ walk.event = e /\ \E i \in walk.next..walk.size : Cells[i] = x
      BY <2>1, <2>3, <1>0, <1>h DEF KeptInv
    <3> QED BY <3>1, <2>3, <1>2
  <2> QED BY <2>2, <2>3
<1> QED BY <1>1, <1>3, <1>4

(* A new stream is put behind the slice, in the same array if there is     *)
(* room.                                                                   *)
LEMMA SubscribeStep ==
  ASSUME NEW s \in Stream, NEW lastID \in 0..Len(about) PROVE HubInv /\ S!Subscribe(s, lastID) => HubInv'
<1> SUFFICES ASSUME HubInv, S!Subscribe(s, lastID) PROVE HubInv'
  OBVIOUS
<1> USE GrantsAssumption
<1>t. PICK t \in Tenant : t = HomeOf[s]
  OBVIOUS
<1> DEFINE grown == S!Grown(t, s)
           moves == S!Moved(t) /\ size[t] = Len(array[t])
<1>0. /\ HubTypeInv /\ SliceInv /\ WalkInv /\ OrderInv /\ PassedInv /\ KeptInv
      /\ conn[s] = "new" /\ leave = S!Nobody
      /\ conn' = [conn EXCEPT ![s] = "open"] /\ taken' = [taken EXCEPT ![s] = <<>>]
      /\ array' = [array EXCEPT ![t] = grown] /\ size' = [size EXCEPT ![t] = size[t] + 1]
      /\ walk' = IF moves THEN S!LeftBehind(array[t]) ELSE walk
      /\ UNCHANGED <<about, leave, buffer, owed, raced>>
  BY <1>t DEF HubInv, S!Subscribe, S!replayHistory, S!decodeCursor
<1>1. /\ array \in [Tenant -> Seq(Stream)] /\ size \in [Tenant -> Nat] /\ t \in Tenant
      /\ taken \in [Stream -> Seq(Nat)] /\ buffer \in [Stream -> Seq(Nat)]
      /\ conn \in [Stream -> {"new", "open", "gone"}]
  BY <1>0 DEF HubTypeInv
<1>2. /\ grown \in Seq(Stream) /\ Len(grown) >= size[t] + 1
      /\ \A i \in 1..Len(grown) : HomeOf[grown[i]] = t
      /\ \A i \in 1..size[t] : grown[i] = array[t][i]
      /\ grown[size[t] + 1] = s
      /\ size[t] # Len(array[t]) => Len(grown) = Len(array[t])
  BY <1>t, GrownSeq
<1> HIDE DEF grown
<1>3. /\ Len(grown) \in Nat /\ Len(array[t]) \in Nat /\ size[t] \in Nat /\ size[t] <= Len(array[t])
      /\ array[t] \in Seq(Stream)
  <2>1. size[t] <= Len(array[t])
    BY <1>0, <1>1 DEF SliceInv
  <2>2. grown \in Seq(Stream)
    BY <1>2
  <2>3. array[t] \in Seq(Stream) /\ size[t] \in Nat
    BY <1>1
  <2> QED BY <2>1, <2>2, <2>3
<1>4. /\ array'[t] = grown /\ size'[t] = size[t] + 1 /\ conn'[s] = "open" /\ taken'[s] = <<>>
      /\ \A u \in Tenant : u # t => array'[u] = array[u] /\ size'[u] = size[u]
      /\ \A x \in Stream : x # s => conn'[x] = conn[x] /\ taken'[x] = taken[x]
  BY <1>0, <1>1
<1>g. \A u \in Tenant, i \in Nat : ~Gap(u, i) /\ ~Gap(u, i)'
  BY <1>0 DEF Gap, S!Nobody
<1>w. /\ Walking => S!LeftBehind(array[t]) \in WalkRecord
      /\ Walking' <=> Walking
      /\ Walking => /\ walk'.event = walk.event /\ walk'.tenant = walk.tenant
                    /\ walk'.next = walk.next /\ walk'.size = walk.size
      /\ Walking /\ moves => ~walk'.shared /\ walk'.cells = array[t] /\ walk.tenant = t /\ walk.shared
      /\ Walking /\ ~moves => walk' = walk
      /\ ~Walking => walk' = walk
  <2>1. ~Walking => walk' = walk
    BY <1>0 DEF Walking, S!Moved
  <2>2. CASE Walking
    <3>1. walk \in WalkRecord
      BY <2>2, <1>0, WalkingIs
    <3> DEFINE l == S!LeftBehind(array[t])
    <3>2. /\ l \in WalkRecord /\ l.at = "walk" /\ l.event = walk.event /\ l.tenant = walk.tenant
          /\ l.next = walk.next /\ l.size = walk.size /\ l.shared = FALSE /\ l.cells = array[t]
      BY <3>1, <1>3, WalkLeft
    <3> HIDE DEF l
    <3>3. walk' = IF moves THEN l ELSE walk
      BY <1>0 DEF l
    <3>4. moves => walk.tenant = t /\ walk.shared
      BY DEF S!Moved
    <3> HIDE DEF moves
    <3>5. Walking'
      BY <2>2, <3>2, <3>3 DEF Walking
    <3> QED BY <2>2, <3>2, <3>3, <3>4, <3>5 DEF l
  <2> QED BY <2>1, <2>2 DEF Walking
<1>c. Walking => /\ walk.event \in Nat /\ walk.size \in Nat /\ walk.size <= Len(Cells)
                 /\ Len(Cells) \in Nat /\ walk.tenant \in Tenant
                 /\ \A i \in 1..Len(Cells) : HomeOf[Cells[i]] = walk.tenant
                 /\ walk.event = Len(about) /\ walk.event >= 1 /\ about[walk.event] = walk.tenant
                 /\ walk.next \in 1..(walk.size + 1)
  BY <1>0, CellsAre DEF WalkInv
<1>d. Walking => /\ walk.size <= Len(Cells')
                 /\ \A i \in 1..Len(Cells') : HomeOf[Cells'[i]] = walk.tenant
                 /\ walk.event \notin raced => \A i \in 1..walk.size : Cells'[i] = Cells[i]
  <2>1. CASE Walking /\ moves
    <3>1. Cells' = array[t] /\ Cells = array[t]
      BY <2>1, <1>w DEF Cells
    <3> QED BY <3>1, <2>1, <1>c
  <2>2. CASE Walking /\ ~moves /\ ~(walk.shared /\ walk.tenant = t)
    <3>1. Cells' = Cells
      BY <2>2, <1>w, <1>4, <1>c DEF Cells
    <3> QED BY <3>1, <2>2, <1>c
  <2>3. CASE Walking /\ ~moves /\ walk.shared /\ walk.tenant = t
    <3>1. Cells = array[t] /\ Cells' = grown /\ size[t] # Len(array[t])
      BY <2>3, <1>w, <1>4 DEF Cells, S!Moved, Walking
    <3>2. walk.event \notin raced => walk.size <= size[t]
      BY <2>3, <1>0 DEF WalkInv
    <3>3. /\ Len(grown) = Len(array[t]) /\ \A i \in 1..Len(grown) : HomeOf[grown[i]] = t
          /\ \A i \in 1..size[t] : grown[i] = array[t][i]
      BY <3>1, <1>2
    <3>4. walk.size \in Nat /\ walk.size <= Len(array[t]) /\ size[t] \in Nat
      BY <2>3, <3>1, <1>3, <1>c
    <3> QED BY <3>1, <3>2, <3>3, <3>4, <2>3
  <2> QED BY <2>1, <2>2, <2>3
<1> HIDE DEF moves
<1>5. HubTypeInv'
  <2>1. walk' \in WalkRecord \cup {S!Resting}
    <3>1. CASE Walking
      BY <3>1, <1>0, <1>w, WalkingIs
    <3>2. CASE ~Walking
      BY <3>2, <1>0, <1>w DEF HubTypeInv
    <3> QED BY <3>1, <3>2
  <2>2. array' \in [Tenant -> Seq(Stream)] /\ size' \in [Tenant -> Nat]
    <3>1. size[t] + 1 \in Nat
      BY <1>3
    <3> QED BY <3>1, <1>0, <1>1, <1>2
  <2>3. taken' \in [Stream -> Seq(Nat)] /\ conn' \in [Stream -> {"new", "open", "gone"}]
    BY <1>0, <1>1
  <2> QED BY <2>1, <2>2, <2>3, <1>0 DEF HubTypeInv
<1>6. SliceInv'
  <2>1. ASSUME NEW u \in Tenant
        PROVE  /\ size'[u] <= Len(array'[u])
               /\ \A i \in 1..Len(array'[u]) : HomeOf[array'[u][i]] = u
               /\ \A i \in 1..size'[u] : conn'[array'[u][i]] = "open"
               /\ \A i, j \in 1..size'[u] : array'[u][i] = array'[u][j] => i = j
    <3>0. /\ \A i \in 1..size[u] : array[u][i] \in Stream /\ conn[array[u][i]] = "open"
          /\ \A i, j \in 1..size[u] : array[u][i] = array[u][j] => i = j
          /\ size[u] <= Len(array[u])
      <4>1. /\ size[u] \in Nat /\ size[u] <= Len(array[u]) /\ array[u] \in Seq(Stream)
            /\ \A i \in 1..size[u] : conn[array[u][i]] = "open"
            /\ \A i, j \in 1..size[u] : array[u][i] = array[u][j] => i = j
        BY <1>0, <1>1, <1>g DEF SliceInv
      <4> QED BY <4>1
    <3>1. CASE u # t
      <4>1. array'[u] = array[u] /\ size'[u] = size[u]
        BY <3>1, <1>4
      <4>2. \A i \in 1..Len(array[u]) : HomeOf[array[u][i]] = u
        BY <1>0 DEF SliceInv
      <4>3. \A i \in 1..size[u] : conn'[array[u][i]] = "open"
        BY <3>0, <1>0, <1>4
      <4> QED BY <3>0, <4>1, <4>2, <4>3
    <3>2. CASE u = t
      <4>1. \A i \in 1..size[t] : grown[i] = array[t][i] /\ array[t][i] # s /\ conn'[grown[i]] = "open"
        <5> SUFFICES ASSUME NEW i \in 1..size[t]
                     PROVE  grown[i] = array[t][i] /\ array[t][i] # s /\ conn'[array[t][i]] = "open"
          OBVIOUS
        <5>1. grown[i] = array[t][i]
          BY <1>2
        <5>2. array[t][i] \in Stream /\ conn[array[t][i]] = "open"
          BY <3>0, <3>2
        <5>3. array[t][i] # s
          BY <5>2, <1>0
        <5> QED BY <5>1, <5>2, <5>3, <1>4
      <4>2. \A i \in 1..(size[t] + 1) : i \in 1..size[t] \/ i = size[t] + 1
        BY <1>3
      <4>3. size[t] + 1 \in Nat /\ size[t] \in Nat
        BY <1>3
      <4>4. \A i, j \in 1..(size[t] + 1) : grown[i] = grown[j] => i = j
        <5> SUFFICES ASSUME NEW i \in 1..(size[t] + 1), NEW j \in 1..(size[t] + 1), grown[i] = grown[j]
                     PROVE  i = j
          OBVIOUS
        <5>1. CASE i \in 1..size[t] /\ j \in 1..size[t]
          BY <5>1, <4>1, <3>0, <3>2
        <5>2. CASE i = size[t] + 1 \/ j = size[t] + 1
          BY <5>2, <4>1, <4>2, <1>2
        <5> QED BY <5>1, <5>2, <4>2
      <4>5. \A i \in 1..(size[t] + 1) : conn'[grown[i]] = "open"
        BY <4>1, <4>2, <1>2, <1>4
      <4>6. size[t] + 1 <= Len(grown) /\ \A i \in 1..Len(grown) : HomeOf[grown[i]] = t
        BY <1>2, <1>3
      <4> QED BY <3>2, <4>4, <4>5, <4>6, <1>4
    <3> QED BY <3>1, <3>2
  <2>2. ASSUME NEW x \in Stream, conn'[x] = "open"
        PROVE  \E i \in 1..size'[HomeOf[x]] : array'[HomeOf[x]][i] = x
    <3>1. CASE x = s
      BY <3>1, <1>t, <1>2, <1>3, <1>4
    <3>2. CASE x # s
      <4>1. PICK i \in 1..size[HomeOf[x]] : array[HomeOf[x]][i] = x
        BY <3>2, <2>2, <1>0, <1>4 DEF SliceInv
      <4>2. HomeOf[x] \in Tenant
        OBVIOUS
      <4>3. CASE HomeOf[x] = t
        <5>1. i \in 1..(size[t] + 1) /\ grown[i] = x
          BY <4>1, <4>3, <1>2, <1>3
        <5> QED BY <5>1, <4>3, <1>4
      <4>4. CASE HomeOf[x] # t
        BY <4>1, <4>2, <4>4, <1>4
      <4> QED BY <4>3, <4>4
    <3> QED BY <3>1, <3>2
  <2>3. \A u \in Tenant : size'[u] \in Nat
    BY <1>5 DEF HubTypeInv
  <2> QED BY <2>1, <2>2, <2>3, <1>g DEF SliceInv
<1>7. WalkInv'
  <2>1. ASSUME Walking, walk.event \notin raced
        PROVE  /\ walk.tenant \notin leave'.of
               /\ walk'.shared => walk.size <= size'[walk.tenant]
               /\ \A i, j \in 1..walk.size : Cells'[i] = Cells'[j] => i = j
    <3>1. /\ walk.shared => walk.size <= size[walk.tenant]
          /\ \A i, j \in 1..walk.size : Cells[i] = Cells[j] => i = j
      BY <1>0, <2>1 DEF WalkInv
    <3>2. walk.tenant \notin leave'.of
      BY <1>0 DEF S!Nobody
    <3>3. walk'.shared => walk.shared
      BY <2>1, <1>w
    <3>4. size[walk.tenant] \in Nat /\ size'[walk.tenant] >= size[walk.tenant]
      <4>1. walk.tenant \in Tenant /\ size[walk.tenant] \in Nat
        BY <2>1, <1>c, <1>1
      <4>2. CASE walk.tenant = t
        BY <4>1, <4>2, <1>3, <1>4
      <4>3. CASE walk.tenant # t
        BY <4>1, <4>3, <1>4
      <4> QED BY <4>2, <4>3
    <3>5. \A i \in 1..walk.size : Cells'[i] = Cells[i]
      BY <2>1, <1>d
    <3>6. size'[walk.tenant] \in Nat
      BY <2>1, <1>c, <1>5 DEF HubTypeInv
    <3>7. walk'.shared => walk.size <= size'[walk.tenant]
      BY <3>1, <3>3, <3>4, <3>6, <2>1, <1>c
    <3> QED BY <3>1, <3>2, <3>5, <3>7
  <2> QED BY <2>1, <1>0, <1>c, <1>d, <1>w DEF WalkInv
<1>8. OrderInv' /\ PassedInv' /\ KeptInv'
  BY <1>0, <1>4, <1>d, <1>w, ComeAndGo
<1> QED BY <1>5, <1>6, <1>7, <1>8 DEF HubInv

(* A stream leaves its place in the slice; a message that is handed out    *)
(* meanwhile is marked.                                                    *)
LEMMA UnsubscribeStep == ASSUME NEW s \in Stream PROVE HubInv /\ S!Unsubscribe(s) => HubInv'
<1> SUFFICES ASSUME HubInv, S!Unsubscribe(s) PROVE HubInv'
  OBVIOUS
<1> USE GrantsAssumption
<1>t. PICK t \in Tenant : t = HomeOf[s]
  OBVIOUS
<1> DEFINE place == CHOOSE i \in 1..size[t] : array[t][i] = s
<1>0. /\ HubTypeInv /\ SliceInv /\ WalkInv /\ OrderInv /\ PassedInv /\ KeptInv
      /\ conn[s] = "open" /\ leave = S!Nobody
      /\ conn' = [conn EXCEPT ![s] = "gone"] /\ leave' = [of |-> {t}, at |-> place]
      /\ raced' = (IF Walking /\ walk.tenant = t THEN raced \cup {walk.event} ELSE raced)
      /\ UNCHANGED <<array, size, about, walk, buffer, taken, owed>>
  BY <1>t DEF HubInv, S!Unsubscribe, S!hubVars, Walking
<1>1. /\ size \in [Tenant -> Nat] /\ conn \in [Stream -> {"new", "open", "gone"}]
      /\ array \in [Tenant -> Seq(Stream)]
  BY <1>0 DEF HubTypeInv
<1>g. \A u \in Tenant, i \in Nat : ~Gap(u, i)
  BY <1>0 DEF Gap, S!Nobody
<1>2. place \in 1..size[t] /\ array[t][place] = s
  <2>1. \E i \in 1..size[t] : array[t][i] = s
    BY <1>t, <1>0 DEF SliceInv
  <2> QED BY <2>1
<1> HIDE DEF place
<1>3. \A u \in Tenant, i \in Nat : Gap(u, i)' <=> u = t /\ i = place
  BY <1>0 DEF Gap
<1>4. conn'[s] = "gone" /\ \A x \in Stream : x # s => conn'[x] = conn[x]
  BY <1>0, <1>1
<1>w. Walking' = Walking /\ Cells' = Cells
  BY <1>0 DEF Walking, Cells
<1>5. HubTypeInv'
  <2>1. leave' = S!Nobody \/ \E u \in Tenant : \E i \in 1..size'[u] : leave' = [of |-> {u}, at |-> i]
    BY <1>0, <1>2
  <2>2. conn' \in [Stream -> {"new", "open", "gone"}]
    BY <1>0, <1>1
  <2> QED BY <2>1, <2>2, <1>0 DEF HubTypeInv
<1>6. SliceInv'
  <2>1. ASSUME NEW u \in Tenant
        PROVE  /\ \A i \in 1..size[u] : ~Gap(u, i)' => conn'[array[u][i]] = "open"
               /\ \A i, j \in 1..size[u] : array[u][i] = array[u][j] => i = j
    <3>1. /\ size[u] \in Nat /\ size[u] <= Len(array[u]) /\ array[u] \in Seq(Stream)
          /\ \A i \in 1..size[u] : i \in Nat /\ conn[array[u][i]] = "open"
          /\ \A i, j \in 1..size[u] : array[u][i] = array[u][j] => i = j
      <4>1. size[u] \in Nat /\ size[u] <= Len(array[u]) /\ array[u] \in Seq(Stream)
        BY <1>0, <1>1 DEF SliceInv
      <4>2. \A i \in 1..size[u] : i \in Nat /\ ~Gap(u, i)
        BY <4>1, <1>g
      <4> QED BY <4>1, <4>2, <1>0 DEF SliceInv
    <3>2. ASSUME NEW i \in 1..size[u], ~Gap(u, i)' PROVE conn'[array[u][i]] = "open"
      <4>1. array[u][i] \in Stream /\ HomeOf[array[u][i]] = u
        BY <3>1, <1>0 DEF SliceInv
      <4>2. CASE u = t
        BY <4>1, <4>2, <3>1, <3>2, <1>2, <1>3, <1>4
      <4>3. CASE u # t
        BY <4>1, <4>3, <3>1, <1>t, <1>4
      <4> QED BY <4>2, <4>3
    <3> QED BY <3>1, <3>2
  <2>2. ASSUME NEW x \in Stream, conn'[x] = "open"
        PROVE  \E i \in 1..size[HomeOf[x]] : ~Gap(HomeOf[x], i)' /\ array[HomeOf[x]][i] = x
    <3>1. x # s /\ conn[x] = "open" /\ HomeOf[x] \in Tenant
      BY <2>2, <1>4
    <3>2. PICK i \in 1..size[HomeOf[x]] : array[HomeOf[x]][i] = x
      BY <3>1, <1>0 DEF SliceInv
    <3>3. i \in Nat
      BY <3>1, <1>1
    <3>4. ~Gap(HomeOf[x], i)'
      BY <3>1, <3>2, <3>3, <1>2, <1>3
    <3> QED BY <3>2, <3>4
  <2>3. \A u \in Tenant : size[u] <= Len(array[u]) /\ \A i \in 1..Len(array[u]) : HomeOf[array[u][i]] = u
    BY <1>0 DEF SliceInv
  <2>4. array' = array /\ size' = size
    BY <1>0
  <2> QED BY <2>1, <2>2, <2>3, <2>4 DEF SliceInv
<1>7. WalkInv'
  <2>1. walk' = walk /\ about' = about /\ size' = size /\ raced \subseteq raced'
    BY <1>0
  <2>2. Walking /\ walk.event \notin raced' => walk.tenant \notin leave'.of
    BY <1>0
  <2> QED BY <2>1, <2>2, <1>0, <1>w DEF WalkInv
<1>8. OrderInv' /\ PassedInv' /\ KeptInv'
  <2>1. /\ raced \subseteq raced' /\ about' = about /\ owed' = owed /\ buffer' = buffer
        /\ taken' = taken /\ walk' = walk
        /\ \A x \in Stream : conn'[x] = conn[x] \/ conn'[x] = "gone"
    BY <1>0, <1>4
  <2> QED BY <2>1, <1>w, ComeAndGo
<1> QED BY <1>5, <1>6, <1>7, <1>8 DEF HubInv

(* Where the leaving stream is, and what is known of the walk of its       *)
(* tenant.                                                                 *)
LEMMA LeavingIs ==
  ASSUME HubInv, NEW t \in leave.of
  PROVE  /\ t \in Tenant /\ leave.at \in 1..size[t] /\ leave = [of |-> {t}, at |-> leave.at]
         /\ size[t] \in Nat /\ size[t] <= Len(array[t]) /\ array[t] \in Seq(Stream)
         /\ leave.at \in Nat /\ leave.at >= 1
         /\ \A u \in Tenant, i \in Nat : Gap(u, i) <=> u = t /\ i = leave.at
         /\ Walking /\ walk.tenant = t => walk.event \in raced
<1>1. /\ size \in [Tenant -> Nat] /\ array \in [Tenant -> Seq(Stream)]
      /\ leave = S!Nobody \/ \E u \in Tenant : \E i \in 1..size[u] : leave = [of |-> {u}, at |-> i]
  BY DEF HubInv, HubTypeInv
<1>2. leave # S!Nobody
  BY DEF S!Nobody
<1>3. PICK u \in Tenant : \E i \in 1..size[u] : leave = [of |-> {u}, at |-> i]
  BY <1>1, <1>2
<1>4. u = t /\ t \in Tenant
  BY <1>3
<1>5. leave.at \in 1..size[t] /\ leave = [of |-> {t}, at |-> leave.at]
  BY <1>3, <1>4
<1>6. size[t] \in Nat /\ array[t] \in Seq(Stream) /\ size[t] <= Len(array[t])
  BY <1>1, <1>4 DEF HubInv, SliceInv
<1>7. \A v \in Tenant, i \in Nat : Gap(v, i) <=> v = t /\ i = leave.at
  BY <1>5 DEF Gap
<1>8. Walking /\ walk.tenant = t => walk.event \in raced
  BY DEF HubInv, WalkInv
<1> QED BY <1>4, <1>5, <1>6, <1>7, <1>8

(* One cell is shifted down: the gap moves up.                             *)
LEMMA ShiftStep == HubInv /\ S!Shift => HubInv'
<1> SUFFICES ASSUME HubInv, S!Shift PROVE HubInv'
  OBVIOUS
<1> USE GrantsAssumption
<1>t. PICK t \in leave.of :
        /\ leave.at < size[t]
        /\ array' = [array EXCEPT ![t][leave.at] = array[t][leave.at + 1]]
        /\ leave' = [leave EXCEPT !.at = @ + 1]
        /\ UNCHANGED <<size, about, walk, buffer, taken, conn, owed, raced>>
  BY DEF S!Shift
<1>1. /\ t \in Tenant /\ leave.at \in 1..size[t] /\ leave = [of |-> {t}, at |-> leave.at]
      /\ size[t] \in Nat /\ size[t] <= Len(array[t]) /\ array[t] \in Seq(Stream)
      /\ leave.at \in Nat /\ leave.at >= 1
      /\ \A u \in Tenant, i \in Nat : Gap(u, i) <=> u = t /\ i = leave.at
      /\ Walking /\ walk.tenant = t => walk.event \in raced
  BY LeavingIs
<1>0. /\ HubTypeInv /\ SliceInv /\ WalkInv
  BY DEF HubInv
<1>2. PICK at \in Nat : at = leave.at
  BY <1>1
<1>3. /\ at >= 1 /\ at < size[t] /\ at + 1 \in 1..size[t] /\ at \in 1..Len(array[t]) /\ at + 1 \in 1..Len(array[t])
      /\ at \in 1..size[t]
  BY <1>t, <1>1, <1>2
<1>4. leave' = [of |-> {t}, at |-> at + 1]
  <2>1. leave = [of |-> {t}, at |-> at]
    BY <1>1, <1>2
  <2>2. leave' = [leave EXCEPT !.at = at + 1]
    BY <1>t, <1>2
  <2> QED BY <2>1, <2>2
<1>g. \A u \in Tenant, i \in Nat : Gap(u, i)' <=> u = t /\ i = at + 1
  BY <1>4 DEF Gap
<1>a. array \in [Tenant -> Seq(Stream)] /\ size \in [Tenant -> Nat]
  BY <1>0 DEF HubTypeInv
<1>5. /\ array'[t] \in Seq(Stream) /\ Len(array'[t]) = Len(array[t])
      /\ array'[t][at] = array[t][at + 1]
      /\ \A i \in 1..Len(array[t]) : i # at => array'[t][i] = array[t][i]
      /\ array' \in [Tenant -> Seq(Stream)]
      /\ \A u \in Tenant : u # t => array'[u] = array[u]
  <2> DEFINE b == [array[t] EXCEPT ![at] = array[t][at + 1]]
  <2>1. array' = [array EXCEPT ![t] = b]
    BY <1>t, <1>2
  <2>2. array[t][at + 1] \in Stream
    BY <1>1, <1>3
  <2>3. b \in Seq(Stream) /\ Len(b) = Len(array[t]) /\ b[at] = array[t][at + 1]
        /\ \A i \in 1..Len(array[t]) : i # at => b[i] = array[t][i]
    BY <2>2, <1>1, <1>3
  <2> HIDE DEF b
  <2> QED BY <2>1, <2>3, <1>1, <1>a
<1>6. HubTypeInv'
  <2>1. leave' = S!Nobody \/ \E u \in Tenant : \E i \in 1..size'[u] : leave' = [of |-> {u}, at |-> i]
    BY <1>t, <1>1, <1>3, <1>4
  <2>2. walk' = walk /\ size' = size /\ about' = about /\ owed' = owed /\ buffer' = buffer
        /\ taken' = taken /\ conn' = conn
    BY <1>t
  <2> QED BY <2>1, <2>2, <1>5, <1>0 DEF HubTypeInv
<1>h. \A u \in Tenant : Len(array'[u]) = Len(array[u]) /\ \A i \in 1..Len(array'[u]) : HomeOf[array'[u][i]] = u
  <2> SUFFICES ASSUME NEW u \in Tenant
               PROVE  Len(array'[u]) = Len(array[u]) /\ \A i \in 1..Len(array[u]) : HomeOf[array'[u][i]] = u
    OBVIOUS
  <2>1. \A i \in 1..Len(array[u]) : HomeOf[array[u][i]] = u
    BY <1>0 DEF SliceInv
  <2>2. CASE u = t
    <3>1. HomeOf[array[t][at + 1]] = t
      BY <2>1, <2>2, <1>3
    <3> QED BY <2>1, <2>2, <3>1, <1>5
  <2>3. CASE u # t
    BY <2>1, <2>3, <1>5
  <2> QED BY <2>2, <2>3
<1>7. SliceInv'
  <2>1. ASSUME NEW u \in Tenant
        PROVE  /\ size[u] <= Len(array'[u])
               /\ \A i \in 1..size[u] : ~Gap(u, i)' => conn[array'[u][i]] = "open"
               /\ \A i, j \in 1..size[u] :
                    ~Gap(u, i)' /\ ~Gap(u, j)' /\ array'[u][i] = array'[u][j] => i = j
    <3>1. /\ size[u] \in Nat /\ size[u] <= Len(array[u])
          /\ \A i \in 1..size[u] : ~Gap(u, i) => conn[array[u][i]] = "open"
          /\ \A i, j \in 1..size[u] : ~Gap(u, i) /\ ~Gap(u, j) /\ array[u][i] = array[u][j] => i = j
      BY <1>0, <1>a DEF SliceInv
    <3>2. CASE u = t
      (* Cell i of the new array is cell k of the old.                     *)
      <4>1. ASSUME NEW i \in 1..size[t], ~Gap(t, i)'
            PROVE  \E k \in 1..size[t] : /\ ~Gap(t, k) /\ array'[t][i] = array[t][k]
                                         /\ k = (IF i = at THEN at + 1 ELSE i)
        <5>1. i \in Nat /\ i # at + 1 /\ i \in 1..Len(array[t])
          BY <4>1, <1>1, <1>g
        <5>2. CASE i = at
          <6>1. ~Gap(t, at + 1)
            BY <1>1, <1>2
          <6> QED BY <5>2, <6>1, <1>3, <1>5
        <5>3. CASE i # at
          BY <5>1, <5>3, <1>1, <1>2, <1>5
        <5> QED BY <5>2, <5>3
      <4>2. \A i \in 1..size[t] : ~Gap(t, i)' => conn[array'[t][i]] = "open"
        BY <4>1, <3>1, <3>2
      <4>3. ASSUME NEW i \in 1..size[t], NEW j \in 1..size[t],
                   ~Gap(t, i)', ~Gap(t, j)', array'[t][i] = array'[t][j]
            PROVE  i = j
        <5>1. PICK k \in 1..size[t] : /\ ~Gap(t, k) /\ array'[t][i] = array[t][k]
                                      /\ k = (IF i = at THEN at + 1 ELSE i)
          BY <4>1, <4>3
        <5>2. PICK l \in 1..size[t] : /\ ~Gap(t, l) /\ array'[t][j] = array[t][l]
                                      /\ l = (IF j = at THEN at + 1 ELSE j)
          BY <4>1, <4>3
        <5>3. k = l
          BY <5>1, <5>2, <4>3, <3>1, <3>2
        <5>4. i # at + 1 /\ j # at + 1
          BY <4>3, <1>1, <1>g
        <5> QED BY <5>1, <5>2, <5>3, <5>4
      <4> QED BY <3>1, <3>2, <4>2, <4>3, <1>h
    <3>3. CASE u # t
      <4>1. array'[u] = array[u] /\ \A i \in 1..size[u] : ~Gap(u, i) /\ ~Gap(u, i)'
        <5>1. \A i \in 1..size[u] : i \in Nat
          BY <3>1
        <5> QED BY <5>1, <3>3, <1>1, <1>5, <1>g
      <4> QED BY <3>1, <4>1
    <3> QED BY <3>2, <3>3
  <2>2. ASSUME NEW x \in Stream, conn[x] = "open"
        PROVE  \E i \in 1..size[HomeOf[x]] : ~Gap(HomeOf[x], i)' /\ array'[HomeOf[x]][i] = x
    <3>1. PICK i \in 1..size[HomeOf[x]] : ~Gap(HomeOf[x], i) /\ array[HomeOf[x]][i] = x
      BY <2>2, <1>0 DEF SliceInv
    <3>2. HomeOf[x] \in Tenant /\ size[HomeOf[x]] \in Nat /\ i \in Nat
      BY <1>a
    <3>3. CASE HomeOf[x] # t
      BY <3>1, <3>2, <3>3, <1>5, <1>g
    <3>4. CASE HomeOf[x] = t
      <4>1. i # at /\ i \in 1..Len(array[t])
        BY <3>1, <3>2, <3>4, <1>1, <1>2
      <4>2. CASE i = at + 1
        <5>1. ~Gap(t, at)'
          BY <1>g, <1>1
        <5> QED BY <5>1, <3>1, <3>4, <4>2, <1>3, <1>5
      <4>3. CASE i # at + 1
        BY <3>1, <3>2, <3>4, <4>1, <4>3, <1>5, <1>g
      <4> QED BY <4>2, <4>3
    <3> QED BY <3>3, <3>4
  <2>3. size' = size /\ conn' = conn
    BY <1>t
  <2> QED BY <2>1, <2>2, <2>3, <1>h DEF SliceInv
<1>w. /\ Walking' = Walking /\ walk' = walk
      /\ Walking /\ walk.event \notin raced => Cells' = Cells
      /\ Walking => Len(Cells') = Len(Cells) /\ \A i \in 1..Len(Cells') : HomeOf[Cells'[i]] = walk.tenant
  <2>1. Walking' = Walking /\ walk' = walk
    BY <1>t DEF Walking
  <2>2. ASSUME Walking
        PROVE  /\ walk.event \notin raced => Cells' = Cells
               /\ Len(Cells') = Len(Cells) /\ \A i \in 1..Len(Cells') : HomeOf[Cells'[i]] = walk.tenant
    <3>1. walk.tenant \in Tenant /\ \A i \in 1..Len(Cells) : HomeOf[Cells[i]] = walk.tenant
      BY <2>2, CellsAre
    <3>2. CASE walk.shared
      BY <2>1, <2>2, <3>1, <3>2, <1>1, <1>5, <1>h DEF Cells
    <3>3. CASE ~walk.shared
      BY <2>1, <3>1, <3>3 DEF Cells
    <3> QED BY <3>2, <3>3
  <2> QED BY <2>1, <2>2
<1>8. WalkInv'
  <2>1. about' = about /\ size' = size /\ raced' = raced
    BY <1>t
  <2>2. leave'.of = leave.of
    BY <1>1, <1>4
  <2> QED BY <2>1, <2>2, <1>0, <1>w DEF WalkInv
<1>9. OrderInv' /\ PassedInv' /\ KeptInv'
  <2>1. /\ raced' = raced /\ about' = about /\ owed' = owed /\ buffer' = buffer
        /\ taken' = taken /\ walk' = walk /\ conn' = conn
    BY <1>t
  <2> QED BY <2>1, <1>w, ComeAndGo
<1> QED BY <1>6, <1>7, <1>8, <1>9 DEF HubInv

(* The slice is cut at the gap, and dropped when it was the last.          *)
LEMMA ShortenStep == HubInv /\ S!Shorten => HubInv'
<1> SUFFICES ASSUME HubInv, S!Shorten PROVE HubInv'
  OBVIOUS
<1> USE GrantsAssumption
<1>t. PICK t \in leave.of :
        /\ leave.at = size[t]
        /\ size' = [size EXCEPT ![t] = @ - 1]
        /\ array' = (IF size[t] = 1 THEN [array EXCEPT ![t] = <<>>] ELSE array)
        /\ walk' = (IF S!Moved(t) /\ size[t] = 1 THEN S!LeftBehind(array[t]) ELSE walk)
        /\ leave' = S!Nobody
        /\ UNCHANGED <<about, buffer, taken, conn, owed, raced>>
  BY DEF S!Shorten
<1>1. /\ t \in Tenant /\ leave.at \in 1..size[t]
      /\ size[t] \in Nat /\ size[t] <= Len(array[t]) /\ array[t] \in Seq(Stream)
      /\ \A u \in Tenant, i \in Nat : Gap(u, i) <=> u = t /\ i = leave.at
      /\ Walking /\ walk.tenant = t => walk.event \in raced
  BY LeavingIs
<1>0. /\ HubTypeInv /\ SliceInv /\ WalkInv
  BY DEF HubInv
<1>a. array \in [Tenant -> Seq(Stream)] /\ size \in [Tenant -> Nat]
  BY <1>0 DEF HubTypeInv
<1>g. \A u \in Tenant, i \in Nat : ~Gap(u, i)'
  BY <1>t DEF Gap, S!Nobody
<1>2. PICK m \in Nat : size[t] = m + 1 /\ leave.at = m + 1
  <2>1. size[t] >= 1 /\ size[t] - 1 \in Nat /\ size[t] = (size[t] - 1) + 1
    BY <1>1
  <2> QED BY <2>1, <1>t
<1>3. /\ size'[t] = m /\ \A u \in Tenant : u # t => size'[u] = size[u] /\ array'[u] = array[u]
      /\ size' \in [Tenant -> Nat] /\ array' \in [Tenant -> Seq(Stream)]
      /\ m # 0 => array' = array
      /\ m = 0 => array'[t] = <<>>
  <2>1. size' = [size EXCEPT ![t] = m]
    BY <1>t, <1>2
  <2>2. size' \in [Tenant -> Nat] /\ size'[t] = m /\ \A u \in Tenant : u # t => size'[u] = size[u]
    BY <2>1, <1>1, <1>a
  <2>3. CASE m = 0
    <3>1. array' = [array EXCEPT ![t] = <<>>]
      BY <2>3, <1>t, <1>2
    <3>2. <<>> \in Seq(Stream)
      OBVIOUS
    <3> QED BY <2>2, <2>3, <3>1, <3>2, <1>1, <1>a
  <2>4. CASE m # 0
    <3>1. array' = array
      BY <2>4, <1>t, <1>2
    <3> QED BY <2>2, <2>4, <3>1, <1>a
  <2> QED BY <2>3, <2>4
<1>w. /\ Walking' <=> Walking
      /\ Walking => /\ walk' \in WalkRecord
                    /\ walk'.event = walk.event /\ walk'.tenant = walk.tenant
                    /\ walk'.next = walk.next /\ walk'.size = walk.size
                    /\ walk'.shared => walk.shared
                    /\ Cells' = Cells
      /\ ~Walking => walk' = walk
  <2>1. ~Walking => walk' = walk
    BY <1>t DEF Walking, S!Moved
  <2>2. CASE Walking
    <3>1. walk \in WalkRecord /\ walk.tenant \in Tenant
      BY <2>2, CellsAre
    <3>2. CASE S!Moved(t) /\ size[t] = 1
      <4> DEFINE l == S!LeftBehind(array[t])
      <4>1. /\ l \in WalkRecord /\ l.at = "walk" /\ l.event = walk.event /\ l.tenant = walk.tenant
            /\ l.next = walk.next /\ l.size = walk.size /\ l.shared = FALSE /\ l.cells = array[t]
        BY <3>1, <1>1, WalkLeft
      <4>2. walk' = l
        BY <3>2, <1>t
      <4> HIDE DEF l
      <4>3. walk.tenant = t /\ walk.shared
        BY <3>2 DEF S!Moved
      <4>4. Cells' = array[t] /\ Cells = array[t]
        BY <4>1, <4>2, <4>3 DEF Cells
      <4>5. Walking'
        BY <4>1, <4>2 DEF Walking
      <4> QED BY <2>2, <4>1, <4>2, <4>4, <4>5
    <3>3. CASE ~(S!Moved(t) /\ size[t] = 1)
      <4>1. walk' = walk
        BY <3>3, <1>t
      <4>2. walk.shared => array'[walk.tenant] = array[walk.tenant]
        <5>1. CASE walk.tenant = t /\ walk.shared
          <6>1. size[t] # 1
            BY <2>2, <3>3, <5>1 DEF S!Moved, Walking
          <6> QED BY <6>1, <1>2, <1>3
        <5>2. CASE walk.tenant # t
          BY <3>1, <5>2, <1>3
        <5> QED BY <5>1, <5>2
      <4> QED BY <2>2, <3>1, <4>1, <4>2 DEF Cells, Walking
    <3> QED BY <3>2, <3>3
  <2> QED BY <2>1, <2>2 DEF Walking
<1>5. HubTypeInv'
  <2>1. walk' \in WalkRecord \cup {S!Resting}
    BY <1>0, <1>w DEF HubTypeInv
  <2> QED BY <2>1, <1>0, <1>t, <1>3 DEF HubTypeInv
<1>6. SliceInv'
  <2>1. ASSUME NEW u \in Tenant
        PROVE  /\ size'[u] <= Len(array'[u])
               /\ \A i \in 1..Len(array'[u]) : HomeOf[array'[u][i]] = u
               /\ \A i \in 1..size'[u] : conn[array'[u][i]] = "open"
               /\ \A i, j \in 1..size'[u] : array'[u][i] = array'[u][j] => i = j
    <3>1. /\ size[u] \in Nat /\ size[u] <= Len(array[u]) /\ Len(array[u]) \in Nat
          /\ \A i \in 1..Len(array[u]) : HomeOf[array[u][i]] = u
          /\ \A i \in 1..size[u] : ~Gap(u, i) => conn[array[u][i]] = "open"
          /\ \A i, j \in 1..size[u] : ~Gap(u, i) /\ ~Gap(u, j) /\ array[u][i] = array[u][j] => i = j
      BY <1>0, <1>a DEF SliceInv
    <3>2. \A i \in 1..size'[u] : i \in 1..size[u] /\ ~Gap(u, i)
      <4>1. CASE u = t
        BY <4>1, <1>1, <1>2, <1>3
      <4>2. CASE u # t
        <5>1. \A i \in 1..size[u] : i \in Nat
          BY <3>1
        <5> QED BY <5>1, <4>2, <1>1, <1>3
      <4> QED BY <4>1, <4>2
    <3>3. CASE array'[u] = array[u]
      <4>1. size'[u] <= size[u] /\ size'[u] \in Nat
        <5>1. CASE u = t
          BY <5>1, <1>2, <1>3
        <5>2. CASE u # t
          BY <5>2, <3>1, <1>3
        <5> QED BY <5>1, <5>2
      <4> QED BY <3>1, <3>2, <3>3, <4>1
    <3>4. CASE u = t /\ m = 0
      BY <3>4, <1>3
    <3> QED BY <3>3, <3>4, <1>3
  <2>2. ASSUME NEW x \in Stream, conn[x] = "open"
        PROVE  \E i \in 1..size'[HomeOf[x]] : array'[HomeOf[x]][i] = x
    <3>1. PICK i \in 1..size[HomeOf[x]] : ~Gap(HomeOf[x], i) /\ array[HomeOf[x]][i] = x
      BY <2>2, <1>0 DEF SliceInv
    <3>2. HomeOf[x] \in Tenant /\ size[HomeOf[x]] \in Nat /\ i \in Nat
      BY <1>a
    <3>3. CASE HomeOf[x] # t
      BY <3>1, <3>2, <3>3, <1>3
    <3>4. CASE HomeOf[x] = t
      <4>1. i # m + 1 /\ i <= m + 1 /\ i >= 1
        BY <3>1, <3>2, <3>4, <1>1, <1>2
      <4>2. i \in 1..m /\ m # 0
        BY <4>1, <3>2
      <4> QED BY <3>1, <3>4, <4>2, <1>3
    <3> QED BY <3>3, <3>4
  <2>3. conn' = conn
    BY <1>t
  <2>4. \A u \in Tenant : size'[u] \in Nat
    BY <1>3
  <2> QED BY <2>1, <2>2, <2>3, <2>4, <1>g DEF SliceInv
<1>8. WalkInv'
  <2>1. about' = about /\ raced' = raced /\ leave'.of = {}
    BY <1>t DEF S!Nobody
  <2>2. ASSUME Walking, walk.event \notin raced
        PROVE  size'[walk.tenant] = size[walk.tenant]
    <3>1. walk.tenant # t /\ walk.tenant \in Tenant
      BY <2>2, <1>1, CellsAre
    <3> QED BY <3>1, <1>3
  <2> QED BY <2>1, <2>2, <1>0, <1>w DEF WalkInv
<1>9. OrderInv' /\ PassedInv' /\ KeptInv'
  <2>1. /\ raced' = raced /\ about' = about /\ owed' = owed /\ buffer' = buffer
        /\ taken' = taken /\ conn' = conn
    BY <1>t
  <2> QED BY <2>1, <1>w, ComeAndGo
<1> QED BY <1>5, <1>6, <1>8, <1>9 DEF HubInv

(* What a stream received stays as it is when its handler takes an event.  *)
LEMMA StreamStep == ASSUME NEW s \in Stream PROVE HubInv /\ S!stream(s) => HubInv'
<1> SUFFICES ASSUME HubInv, S!stream(s) PROVE HubInv'
  OBVIOUS
<1> USE GrantsAssumption
<1> DEFINE b == buffer[s]
           k == taken[s]
<1>0. /\ HubTypeInv /\ SliceInv /\ WalkInv /\ OrderInv /\ PassedInv /\ KeptInv
      /\ b # <<>>
      /\ taken' = [taken EXCEPT ![s] = Append(k, Head(b))]
      /\ buffer' = [buffer EXCEPT ![s] = Tail(b)]
      /\ UNCHANGED <<array, size, about, walk, leave, conn, owed, raced>>
  BY DEF HubInv, S!stream, S!hubVars
<1>1. buffer \in [Stream -> Seq(Nat)] /\ taken \in [Stream -> Seq(Nat)]
  BY <1>0 DEF HubTypeInv
<1>2. b \in Seq(Nat) /\ k \in Seq(Nat) /\ Len(b) \in Nat /\ Len(k) \in Nat /\ Len(b) >= 1 /\ Head(b) \in Nat
      /\ Head(b) = b[1]
  BY <1>0, <1>1
<1>3. /\ Tail(b) \in Seq(Nat) /\ Len(Tail(b)) = Len(b) - 1
      /\ \A i \in 1..(Len(b) - 1) : Tail(b)[i] = b[i + 1]
      /\ Append(k, Head(b)) \in Seq(Nat) /\ Len(Append(k, Head(b))) = Len(k) + 1
      /\ \A i \in 1..Len(k) : Append(k, Head(b))[i] = k[i]
      /\ Append(k, Head(b))[Len(k) + 1] = b[1]
  <2> HIDE DEF b, k
  <2> QED BY <1>0, <1>2
<1>4. /\ buffer'[s] = Tail(b) /\ taken'[s] = Append(k, Head(b))
      /\ \A x \in Stream : x # s => buffer'[x] = buffer[x] /\ taken'[x] = taken[x]
      /\ taken' \in [Stream -> Seq(Nat)] /\ buffer' \in [Stream -> Seq(Nat)]
  BY <1>0, <1>1, <1>3
<1>5. /\ Len(buffer'[s]) = Len(b) - 1 /\ \A i \in 1..(Len(b) - 1) : buffer'[s][i] = b[i + 1]
      /\ Len(taken'[s]) = Len(k) + 1 /\ \A i \in 1..Len(k) : taken'[s][i] = k[i]
      /\ taken'[s][Len(k) + 1] = b[1]
  BY <1>3, <1>4
<1>6. HubTypeInv' /\ SliceInv' /\ WalkInv'
  <2>1. HubTypeInv'
    BY <1>0, <1>4 DEF HubTypeInv
  <2>2. SliceInv'
    BY <1>0 DEF SliceInv, Gap
  <2>3. WalkInv'
    BY <1>0 DEF WalkInv, Walking, Cells
  <2> QED BY <2>1, <2>2, <2>3
<1>7. OrderInv'
  <2> SUFFICES ASSUME NEW x \in Stream PROVE OrderOf(x)'
    BY DEF OrderInv
  <2>1. OrderOf(x)
    BY <1>0 DEF OrderInv
  <2>2. CASE x # s
    BY <2>1, <2>2, <1>0, <1>4 DEF OrderOf, Before
  <2>3. CASE x = s
    <3> HIDE DEF b, k
    <3>0. /\ \A i \in 1..Len(k) : k[i] \in 1..Len(about) /\ about[k[i]] = HomeOf[s]
          /\ \A i \in 1..Len(b) : b[i] \in 1..Len(about) /\ about[b[i]] = HomeOf[s]
          /\ \A i, j \in 1..Len(k) : i < j => Before(k[i], k[j])
          /\ \A i, j \in 1..Len(b) : i < j => Before(b[i], b[j])
          /\ \A i \in 1..Len(k), j \in 1..Len(b) : Before(k[i], b[j])
      BY <2>1, <2>3 DEF OrderOf, b, k
    <3>1. \A i \in 1..(Len(k) + 1) : i \in 1..Len(k) \/ i = Len(k) + 1
      BY <1>2
    <3>2. \A i \in 1..(Len(b) - 1) : i + 1 \in 1..Len(b) /\ 1 < i + 1
      BY <1>2
    <3>3. 1 \in 1..Len(b)
      BY <1>2
    <3>4. about' = about /\ raced' = raced
      BY <1>0
    <3>5. \A i \in 1..(Len(k) + 1) : taken'[s][i] \in 1..Len(about) /\ about[taken'[s][i]] = HomeOf[s]
      BY <3>0, <3>1, <3>3, <1>5
    <3>6. \A i \in 1..(Len(b) - 1) : buffer'[s][i] \in 1..Len(about) /\ about[buffer'[s][i]] = HomeOf[s]
      BY <3>0, <3>2, <1>5
    <3>7. \A i, j \in 1..(Len(k) + 1) : i < j => Before(taken'[s][i], taken'[s][j])
      <4> SUFFICES ASSUME NEW i \in 1..(Len(k) + 1), NEW j \in 1..(Len(k) + 1), i < j
                   PROVE  Before(taken'[s][i], taken'[s][j])
        OBVIOUS
      <4>1. i \in 1..Len(k) /\ taken'[s][i] = k[i]
        BY <1>2, <1>5
      <4>2. CASE j = Len(k) + 1
        BY <4>1, <4>2, <3>0, <3>3, <1>5
      <4>3. CASE j \in 1..Len(k)
        BY <4>1, <4>3, <3>0, <1>5
      <4> QED BY <4>2, <4>3, <3>1
    <3>8. \A i, j \in 1..(Len(b) - 1) : i < j => Before(buffer'[s][i], buffer'[s][j])
      <4> SUFFICES ASSUME NEW i \in 1..(Len(b) - 1), NEW j \in 1..(Len(b) - 1), i < j
                   PROVE  Before(buffer'[s][i], buffer'[s][j])
        OBVIOUS
      <4>1. i + 1 < j + 1
        OBVIOUS
      <4>2. buffer'[s][i] = b[i + 1] /\ buffer'[s][j] = b[j + 1]
        BY <1>5
      <4> QED BY <4>1, <4>2, <3>0, <3>2
    <3>9. \A i \in 1..(Len(k) + 1), j \in 1..(Len(b) - 1) : Before(taken'[s][i], buffer'[s][j])
      <4> SUFFICES ASSUME NEW i \in 1..(Len(k) + 1), NEW j \in 1..(Len(b) - 1)
                   PROVE  Before(taken'[s][i], buffer'[s][j])
        OBVIOUS
      <4>1. buffer'[s][j] = b[j + 1] /\ j + 1 \in 1..Len(b) /\ 1 < j + 1
        BY <3>2, <1>5
      <4>2. CASE i = Len(k) + 1
        BY <4>1, <4>2, <3>0, <3>3, <1>5
      <4>3. CASE i \in 1..Len(k)
        BY <4>1, <4>3, <3>0, <1>5
      <4> QED BY <4>2, <4>3, <3>1
    <3> QED BY <2>3, <3>4, <3>5, <3>6, <3>7, <3>8, <3>9, <1>5 DEF OrderOf, Before
  <2> QED BY <2>2, <2>3
<1>8. \A x \in Stream, e \in Nat : Has(x, e)' <=> Has(x, e)
  <2> SUFFICES ASSUME NEW x \in Stream, NEW e \in Nat PROVE Has(x, e)' <=> Has(x, e)
    OBVIOUS
  <2>1. CASE x # s
    BY <2>1, <1>4 DEF Has
  <2>2. CASE x = s
    <3> HIDE DEF b, k
    <3>1. Has(s, e) <=> (\E i \in 1..Len(k) : k[i] = e) \/ (\E i \in 1..Len(b) : b[i] = e)
      BY DEF Has, b, k
    <3>2. Has(s, e)' <=> (\E i \in 1..(Len(k) + 1) : taken'[s][i] = e) \/ (\E i \in 1..(Len(b) - 1) : buffer'[s][i] = e)
      BY <1>5 DEF Has
    <3>3. (\E i \in 1..(Len(k) + 1) : taken'[s][i] = e) <=> (\E i \in 1..Len(k) : k[i] = e) \/ b[1] = e
      <4>1. \A i \in 1..(Len(k) + 1) : i \in 1..Len(k) \/ i = Len(k) + 1
        BY <1>2
      <4>2. Len(k) + 1 \in 1..(Len(k) + 1) /\ \A i \in 1..Len(k) : i \in 1..(Len(k) + 1)
        BY <1>2
      <4> QED BY <4>1, <4>2, <1>5
    <3>4. (\E i \in 1..Len(b) : b[i] = e) => b[1] = e \/ \E i \in 1..(Len(b) - 1) : buffer'[s][i] = e
      <4> SUFFICES ASSUME NEW i \in 1..Len(b), b[i] = e, b[1] # e
                   PROVE  \E j \in 1..(Len(b) - 1) : buffer'[s][j] = e
        OBVIOUS
      <4>1. i - 1 \in 1..(Len(b) - 1) /\ (i - 1) + 1 = i
        BY <1>2
      <4> QED BY <4>1, <1>5
    <3>5. b[1] = e \/ (\E i \in 1..(Len(b) - 1) : buffer'[s][i] = e) => \E i \in 1..Len(b) : b[i] = e
      <4>1. \A i \in 1..(Len(b) - 1) : i + 1 \in 1..Len(b)
        BY <1>2
      <4>2. 1 \in 1..Len(b)
        BY <1>2
      <4> QED BY <4>1, <4>2, <1>5
    <3> QED BY <2>2, <3>1, <3>2, <3>3, <3>4, <3>5
  <2> QED BY <2>1, <2>2
<1>9. PassedInv'
  <2>1. Walking' = Walking /\ walk' = walk /\ Cells' = Cells /\ raced' = raced
    BY <1>0 DEF Walking, Cells
  <2>2. Walking => walk.event \in Nat
    BY CellsAre
  <2> QED BY <2>1, <2>2, <1>0, <1>8 DEF PassedInv
<1>10. KeptInv'
  <2>1. Walking' = Walking /\ walk' = walk /\ Cells' = Cells /\ raced' = raced /\ conn' = conn
        /\ owed' = owed /\ about' = about
    BY <1>0 DEF Walking, Cells
  <2>2. \A e \in 1..Len(about) : e \in Nat /\ owed[e] \subseteq Stream
    BY <1>0 DEF HubTypeInv
  <2> QED BY <2>1, <2>2, <1>0, <1>8 DEF KeptInv, Newest
<1> QED BY <1>6, <1>7, <1>9, <1>10 DEF HubInv

LEMMA HubStep == HubInv /\ [S!ActivityNext]_S!vars => HubInv'
<1> SUFFICES ASSUME HubInv, [S!ActivityNext]_S!vars PROVE HubInv'
  OBVIOUS
<1>1. CASE UNCHANGED S!vars
  <2>1. UNCHANGED <<array, size, about, walk, leave, buffer, taken, conn, owed, raced>>
    BY <1>1 DEF S!vars
  <2>2. HubTypeInv' /\ SliceInv' /\ WalkInv'
    BY <2>1 DEF HubInv, HubTypeInv, SliceInv, Gap, WalkInv, Walking, Cells
  <2>3. OrderInv'
    BY <2>1 DEF HubInv, OrderInv, OrderOf, Before
  <2>4. PassedInv'
    BY <2>1 DEF HubInv, PassedInv, Walking, Cells, Has
  <2>5. KeptInv'
    BY <2>1 DEF HubInv, KeptInv, Walking, Cells, Has, Newest
  <2> QED BY <2>2, <2>3, <2>4, <2>5 DEF HubInv
<1>2. CASE S!Shift \/ S!Shorten \/ S!fanOut \/ S!FanOutEnds
  BY <1>2, ShiftStep, ShortenStep, FanOutStep, FanOutEndsStep
<1>3. ASSUME NEW t \in Tenant, S!dispatch(t) PROVE HubInv'
  BY <1>3, DispatchStep
<1>4. ASSUME NEW s \in Stream, S!Unsubscribe(s) \/ S!stream(s) PROVE HubInv'
  BY <1>4, UnsubscribeStep, StreamStep
<1>5. ASSUME NEW s \in Stream, NEW lastID \in 0..Len(about), S!Subscribe(s, lastID) PROVE HubInv'
  BY <1>5, SubscribeStep
<1> QED BY <1>1, <1>2, <1>3, <1>4, <1>5 DEF S!ActivityNext

(* The invariant gives both properties: what a stream received is what its *)
(* handler took and then what its buffer holds.                            *)
LEMMA HubHolds == HubInv => S!InOrder /\ S!NewestIsKept
<1> SUFFICES ASSUME HubInv PROVE S!InOrder /\ S!NewestIsKept
  OBVIOUS
<1>0. HubTypeInv /\ OrderInv /\ KeptInv
  BY DEF HubInv
<1>1. ASSUME NEW s \in Stream
      PROVE  /\ S!Received(s) \in Seq(Nat) /\ DOMAIN S!Received(s) = 1..(Len(taken[s]) + Len(buffer[s]))
             /\ \A i \in 1..Len(taken[s]) : S!Received(s)[i] = taken[s][i]
             /\ \A j \in 1..Len(buffer[s]) : S!Received(s)[j + Len(taken[s])] = buffer[s][j]
             /\ Len(taken[s]) \in Nat /\ Len(buffer[s]) \in Nat
  <2>1. PICK k \in Seq(Nat) : k = taken[s]
    BY <1>0 DEF HubTypeInv
  <2>2. PICK b \in Seq(Nat) : b = buffer[s]
    BY <1>0 DEF HubTypeInv
  <2>3. S!Received(s) = k \o b
    BY <2>1, <2>2 DEF S!Received
  <2>4. k \o b \in Seq(Nat) /\ Len(k \o b) = Len(k) + Len(b)
    OBVIOUS
  <2>5. DOMAIN (k \o b) = 1..(Len(k) + Len(b))
    BY <2>4
  <2>6. \A i \in 1..Len(k) : (k \o b)[i] = k[i]
    OBVIOUS
  <2>7. \A j \in 1..Len(b) : (k \o b)[j + Len(k)] = b[j]
    <3> SUFFICES ASSUME NEW j \in 1..Len(b) PROVE (k \o b)[j + Len(k)] = b[j]
      OBVIOUS
    <3>1. j + Len(k) \in 1..(Len(k) + Len(b)) /\ j + Len(k) > Len(k) /\ (j + Len(k)) - Len(k) = j
      OBVIOUS
    <3> QED BY <3>1
  <2>8. Len(k) \in Nat /\ Len(b) \in Nat
    OBVIOUS
  <2> QED BY <2>1, <2>2, <2>3, <2>4, <2>5, <2>6, <2>7, <2>8, Zenon
<1>2. ASSUME NEW s \in Stream, NEW i \in DOMAIN S!Received(s), NEW j \in DOMAIN S!Received(s), i < j
      PROVE  about[S!Received(s)[j]] = HomeOf[s] /\ Before(S!Received(s)[i], S!Received(s)[j])
  <2>1. OrderOf(s)
    BY <1>0 DEF OrderInv
  <2>2. PICK m \in Nat, n \in Nat : m = Len(taken[s]) /\ n = Len(buffer[s])
    BY <1>1
  <2>3. i \in 1..(m + n) /\ j \in 1..(m + n)
    BY <1>1, <2>2
  <2>4. ASSUME NEW k \in 1..(m + n), k > m
        PROVE  k - m \in 1..n /\ S!Received(s)[k] = buffer[s][k - m]
    <3>1. k - m \in 1..n /\ (k - m) + m = k
      BY <2>4
    <3> QED BY <3>1, <1>1, <2>2
  <2>5. CASE j <= m
    <3>1. i \in 1..m /\ j \in 1..m
      BY <1>2, <2>3, <2>5
    <3> QED BY <3>1, <2>1, <2>2, <1>1, <1>2 DEF OrderOf
  <2>6. CASE i <= m /\ j > m
    <3>1. i \in 1..m
      BY <2>3, <2>6
    <3>2. S!Received(s)[i] = taken[s][i]
      BY <3>1, <2>2, <1>1
    <3>3. j - m \in 1..n /\ S!Received(s)[j] = buffer[s][j - m]
      BY <2>3, <2>4, <2>6
    <3>4. /\ Before(taken[s][i], buffer[s][j - m])
          /\ about[buffer[s][j - m]] = HomeOf[s]
      BY <3>1, <3>3, <2>1, <2>2 DEF OrderOf
    <3> QED BY <3>2, <3>3, <3>4
  <2>7. CASE i > m /\ j > m
    <3>1. i - m < j - m
      BY <1>2, <2>3
    <3> QED BY <3>1, <2>1, <2>2, <2>3, <2>4, <2>7 DEF OrderOf
  <2>8. j <= m \/ (i <= m /\ j > m) \/ (i > m /\ j > m)
    BY <2>3
  <2> QED BY <2>5, <2>6, <2>7, <2>8
<1>3. S!InOrder
  BY <1>2 DEF S!InOrder, Before
<1>4. S!NewestIsKept
  <2> SUFFICES ASSUME walk = S!Resting, NEW e \in DOMAIN about \ raced,
                      \A d \in DOMAIN about : d > e => about[d] # about[e],
                      NEW s \in owed[e], conn[s] = "open"
               PROVE  S!Contains(S!Received(s), e)
    BY DEF S!NewestIsKept
  <2>1. about \in Seq(Tenant) /\ DOMAIN about = 1..Len(about) /\ e \in 1..Len(about)
    BY <1>0 DEF HubTypeInv
  <2>2. s \in Stream
    BY <2>1, <1>0 DEF HubTypeInv
  <2>3. Newest(e)
    BY <2>1 DEF Newest
  <2>4. Has(s, e)
    BY <2>1, <2>3, <1>0 DEF KeptInv, Walking, S!Resting
  <2>5. \E i \in DOMAIN S!Received(s) : S!Received(s)[i] = e
    <3>1. PICK m \in Nat, n \in Nat : m = Len(taken[s]) /\ n = Len(buffer[s])
      BY <1>1, <2>2
    <3>2. CASE \E i \in 1..m : taken[s][i] = e
      <4>1. PICK i \in 1..m : taken[s][i] = e
        BY <3>2
      <4>2. i \in 1..(m + n)
        OBVIOUS
      <4> QED BY <4>1, <4>2, <3>1, <2>2, <1>1
    <3>3. CASE \E i \in 1..n : buffer[s][i] = e
      <4>1. PICK i \in 1..n : buffer[s][i] = e
        BY <3>3
      <4>2. i + m \in 1..(m + n)
        OBVIOUS
      <4> QED BY <4>1, <4>2, <3>1, <2>2, <1>1
    <3> QED BY <3>1, <3>2, <3>3, <2>4 DEF Has
  <2> QED BY <2>5 DEF S!Contains
<1> QED BY <1>3, <1>4


-----------------------------------------------------------------------------
(* The parts share no state, so a step of the instance is a step of one    *)
(* part and leaves the others as they are.                                 *)
LEMMA TicketsMove == [GrantsNext]_allVars => [G!Next]_G!vars
BY DEF GrantsNext, allVars, grantVars, ticketVars, G!vars, G!ticketVars

(* GrantTickets: a code, a device code or a CIBA request buys one token    *)
(* response at most, for any number of handlers, tickets and failures.     *)
THEOREM TicketsIssuedOnce == GrantsSpec => []IssuedOnce
<1>1. GrantsInit => G!Init
  BY DEF GrantsInit
<1> QED BY <1>1, TicketInit, TicketStep, TicketHolds, TicketsMove, PTL DEF GrantsSpec

(* GrantTickets: tokens carry only scopes their user approved for their    *)
(* client.                                                                 *)
THEOREM TicketsIssuedWasApproved == GrantsSpec => []IssuedWasApproved
<1>1. GrantsInit => G!Init
  BY DEF GrantsInit
<1> QED BY <1>1, TicketInit, TicketStep, TicketHolds, TicketsMove, PTL DEF GrantsSpec

(* GrantTickets: no ticket is redeemed once it was denied.                 *)
THEOREM TicketsDeniedNeverRedeemed == GrantsSpec => DeniedNeverRedeemed
<1>1. GrantsInit => G!Init
  BY DEF GrantsInit
<1> QED BY <1>1, TicketInit, TicketStep, DeniedStep, TicketsMove, PTL
        DEF GrantsSpec, DeniedNeverRedeemed, G!DeniedNeverRedeemed

(* GrantTickets: codes, device codes and CIBA requests are grants that are *)
(* answered once, for the user, client and scopes they were granted for,   *)
(* and not once denied, for any number of tickets, handlers, users and     *)
(* scopes, whatever polls, decisions and revocations interleave.           *)
THEOREM TicketsAreOneTimeGrants == GrantsSpec => GrantsAreOneTime
<1>1. GrantsInit => G!Init
  BY DEF GrantsInit
<1>2. G!Init => UnboundInv
  BY DEF G!Init, UnboundInv
<1>3. GrantsSpec => [](TicketInv /\ UnboundInv)
  BY <1>1, <1>2, TicketInit, TicketStep, UnboundStep, TicketsMove, PTL DEF GrantsSpec
<1> QED BY <1>1, <1>3, LifeInit, LifeNext, TicketsMove, PTL
        DEF GrantsSpec, GrantsAreOneTime, G!ImplementsOneTimeGrant, G!Life!Spec

LEMMA KeysMove == [GrantsNext]_allVars => [K!SigningNext]_K!vars
BY DEF GrantsNext, allVars, readerVars, keyVars, K!vars

LEMMA ReadersMove ==
  [GrantsNext]_allVars => /\ [E!EvidenceNext]_E!vars
                          /\ [N!AnomalyNext]_N!vars
                          /\ [S!ActivityNext]_S!vars
<1>1. [GrantsNext]_allVars => [E!EvidenceNext]_E!vars
  BY DEF GrantsNext, allVars, readerVars, runVars, E!vars
<1>2. [GrantsNext]_allVars => [N!AnomalyNext]_N!vars
  BY DEF GrantsNext, allVars, readerVars, sweepVars, N!vars
<1>3. [GrantsNext]_allVars => [S!ActivityNext]_S!vars
  BY DEF GrantsNext, allVars, readerVars, hubVars, S!vars
<1> QED BY <1>1, <1>2, <1>3

(* SigningKeys: a token verifies at the process that signed it through     *)
(* every rotation, as long as no key is lost that was never saved.         *)
THEOREM KeysSurviveRotation == GrantsSpec => []RotationKeepsTokens
<1>1. GrantsInit => K!SigningInit
  BY DEF GrantsInit
<1>2. KeyInv => RotationKeepsTokens
  BY KeyHolds DEF RotationKeepsTokens
<1> QED BY <1>1, <1>2, KeyInit, KeyStep, KeysMove, PTL DEF GrantsSpec

(* Evidence, Anomaly and Activity: what an evidence run stores, an anomaly *)
(* sweep scores and an activity stream is given is true of what they read, *)
(* for any number of rows, events, streams and failures.                   *)
THEOREM ReportsTellTheTruth == GrantsSpec => []ReportsAreTrue
<1>1. GrantsInit => E!EvidenceInit /\ N!AnomalyInit /\ S!ActivityInit
  BY DEF GrantsInit
<1>2. RunInv /\ SweepInv /\ HubInv => ReportsAreTrue
  BY RunHolds, SweepHolds, HubHolds DEF ReportsAreTrue
<1> QED BY <1>1, <1>2, RunInit, RunStep, SweepInit, SweepStep, HubInit, HubStep,
   ReadersMove, PTL
        DEF GrantsSpec

===============================================================================
