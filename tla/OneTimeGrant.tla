---------------------------- MODULE OneTimeGrant ----------------------------
(***************************************************************************)
(* What a user and an application may count on from the grants of qeet-id, *)
(* be it by a code, on a device's page or on a phone: a grant is for the   *)
(* client, the scopes and the user it was given for, is answered with      *)
(* tokens at most once, and never after it was denied.  What was denied    *)
(* stays so, and what was granted is granted to nobody else.               *)
(***************************************************************************)
CONSTANTS User, Client, Scope, Ticket,
          None  \* no order yet; a device does not know its user

VARIABLES phase, \* none, pending, authorized, denied, spent, answered
          order, \* the user, client and scopes of a ticket
          said   \* the scopes each user said yes to for each client

vars == <<phase, order, said>>

Order == [user : User \cup {None}, client : Client, scopes : SUBSET Scope]

Init ==
  /\ phase = [t \in Ticket |-> "none"]
  /\ order = [t \in Ticket |-> None]
  /\ said = [p \in User \X Client |-> {}]

Agree(u, c, S) == said' = [said EXCEPT ![<<u, c>>] = @ \cup S]

(* The user agrees with nothing in hand yet.                               *)
Say(u, c, S) ==
  /\ Agree(u, c, S)
  /\ UNCHANGED <<phase, order>>

(* A ticket to be decided on ...                                           *)
Ask(t, o) ==
  /\ phase[t] = "none"
  /\ phase' = [phase EXCEPT ![t] = "pending"]
  /\ order' = [order EXCEPT ![t] = o]
  /\ UNCHANGED said

(* ... or for what its user said already.                                  *)
AskAgreed(t, o) ==
  /\ phase[t] = "none"
  /\ o.user \in User
  /\ o.scopes \subseteq said[<<o.user, o.client>>]
  /\ phase' = [phase EXCEPT ![t] = "authorized"]
  /\ order' = [order EXCEPT ![t] = o]
  /\ UNCHANGED said

Grant(t, u) ==
  /\ phase[t] = "pending"
  /\ order[t].user \in {None, u}
  /\ phase' = [phase EXCEPT ![t] = "authorized"]
  /\ order' = [order EXCEPT ![t].user = u]
  /\ Agree(u, order[t].client, order[t].scopes)

(* By the user, or by an administrator after the user granted it.          *)
Deny(t) ==
  /\ phase[t] \in {"pending", "authorized"}
  /\ phase' = [phase EXCEPT ![t] = "denied"]
  /\ UNCHANGED <<order, said>>

Spend(t) ==
  /\ phase[t] = "authorized"
  /\ phase' = [phase EXCEPT ![t] = "spent"]
  /\ UNCHANGED <<order, said>>

(* The tokens, unless what spent the ticket failed.                        *)
Answer(t) ==
  /\ phase[t] = "spent"
  /\ phase' = [phase EXCEPT ![t] = "answered"]
  /\ UNCHANGED <<order, said>>

Next ==
  \/ \E u \in User, c \in Client, S \in SUBSET Scope : Say(u, c, S)
  \/ \E t \in Ticket :
       \/ \E o \in Order : Ask(t, o) \/ AskAgreed(t, o)
       \/ \E u \in User : Grant(t, u)
       \/ Deny(t) \/ Spend(t) \/ Answer(t)

Spec == Init /\ [][Next]_vars

=============================================================================
