--------------------------- MODULE DeliveryQueue ---------------------------
(***************************************************************************)
(* What the owner of a message may count on from the queues of qeet-id,    *)
(* the outbox and the webhook deliveries: at-least-once.  A message is     *)
(* marked done only after the receiver accepted it and given up only after *)
(* Cap tries, and a settled message stays settled unless an operator may   *)
(* ask for another round.  A message marked done can still be given up.    *)
(***************************************************************************)
EXTENDS Naturals

CONSTANTS Message,
          Cap,     \* tries before a message is given up
          Reopens  \* whether an operator can put a settled message back

VARIABLES known,    \* the messages in the queue's care
          accepted, \* the messages the receiver accepted, once or more
          tries,    \* the tries of each message
          done,     \* marked as accepted
          dead      \* given up

vars == <<known, accepted, tries, done, dead>>

Init ==
  /\ known = {} /\ accepted = {} /\ done = {} /\ dead = {}
  /\ tries = [m \in Message |-> 0]

Put(m) ==
  /\ m \notin known
  /\ known' = known \cup {m}
  /\ UNCHANGED <<accepted, tries, done, dead>>

Tried(m) == tries' = [tries EXCEPT ![m] = @ + 1]

(* The receiver may see a message again after it accepted it.              *)
Accept(m) ==
  /\ m \in known
  /\ accepted' = accepted \cup {m}
  /\ Tried(m) \/ UNCHANGED tries
  /\ UNCHANGED <<known, done, dead>>

Refuse(m) ==
  /\ m \in known
  /\ Tried(m)
  /\ UNCHANGED <<known, accepted, done, dead>>

MarkDone(m) ==
  /\ m \in known \cap accepted
  /\ m \in dead => Reopens
  /\ done' = done \cup {m}
  /\ UNCHANGED <<known, accepted, tries, dead>>

GiveUp(m) ==
  /\ m \in known
  /\ tries[m] >= Cap
  /\ dead' = dead \cup {m}
  /\ done' = done \/ done' = done \ {m}
  /\ UNCHANGED <<known, accepted, tries>>

Reopen(m) ==
  /\ Reopens
  /\ m \in known
  /\ done' = done \ {m} /\ dead' = dead \ {m}
  /\ UNCHANGED <<known, accepted, tries>>

Next ==
  \E m \in Message :
    Put(m) \/ Accept(m) \/ Refuse(m) \/ MarkDone(m) \/ GiveUp(m) \/ Reopen(m)

Spec == Init /\ [][Next]_vars

============================================================================
