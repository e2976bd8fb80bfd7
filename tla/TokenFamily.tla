---------------------------- MODULE TokenFamily ----------------------------
(***************************************************************************)
(* What a client may count on from the sessions of qeet-id: the refresh    *)
(* tokens of one session form a family in which exactly one credential is  *)
(* live, a rotation spends it and puts a fresh one in its place, and once  *)
(* the family is closed at most one rotation, already in flight, still     *)
(* goes through.                                                           *)
(***************************************************************************)
CONSTANTS Family, Credential

VARIABLES phase,  \* none, open, closing (revoked), closed (and last rotation done)
          live,   \* the credentials of a family that still buy a new one
          spent   \* the credentials that were rotated away

vars == <<phase, live, spent>>

Fresh(c) == c \notin spent /\ \A f \in Family : c \notin live[f]

Init ==
  /\ phase = [f \in Family |-> "none"]
  /\ live = [f \in Family |-> {}]
  /\ spent = {}

Open(f, c) ==
  /\ phase[f] = "none"
  /\ Fresh(c)
  /\ phase' = [phase EXCEPT ![f] = "open"]
  /\ live' = [live EXCEPT ![f] = {c}]
  /\ UNCHANGED spent

Rotate(f, old, new) ==
  /\ phase[f] \in {"open", "closing"}
  /\ live[f] = {old}
  /\ Fresh(new)
  /\ live' = [live EXCEPT ![f] = {new}]
  /\ spent' = spent \cup {old}
  /\ phase' = [phase EXCEPT ![f] = IF @ = "open" THEN "open" ELSE "closed"]

Close(F) ==
  /\ \A f \in F : phase[f] = "open"
  /\ phase' = [f \in Family |-> IF f \in F THEN "closing" ELSE phase[f]]
  /\ UNCHANGED <<live, spent>>

Next ==
  \/ \E f \in Family, c \in Credential : Open(f, c)
  \/ \E f \in Family, old, new \in Credential : Rotate(f, old, new)
  \/ \E F \in SUBSET Family : Close(F)

Spec == Init /\ [][Next]_vars

============================================================================
