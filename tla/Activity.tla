------------------------------ MODULE Activity ------------------------------
(***************************************************************************)
(* The live activity stream (internal/operations/activity): the hub of an  *)
(* API process hands every message of the outbox's NATS subjects to the    *)
(* streams of its tenant, each through a buffer of its own.                *)
(*                                                                         *)
(* fanOut takes the tenant's slice under the lock and walks it without.    *)
(* Leaving shifts the rest of the slice down in the array that is being    *)
(* walked, cell by cell, so a walk may pass a stream over or meet one      *)
(* twice; joining writes behind the walk's end or moves to a new array.    *)
(***************************************************************************)
EXTENDS Naturals, Sequences, FiniteSets, SequencesExt

CONSTANTS Tenant,
          Stream,    \* streams; HomeOf[s] is the tenant of its principal
          HomeOf,
          MaxEvent,  \* bound: messages, numbered as NATS delivers them
          subBufSize \* events a buffer holds

VARIABLES
  array,  \* of a tenant: the array its slice lies in
  size,   \* ... and the slice's length
  about,  \* About[n]: the tenant of message n
  walk,   \* the dispatcher: the message at hand and how far it is
  leave,  \* the stream that is being taken out, under the lock
  buffer, \* of a stream: s.ch
  taken,  \* what its handler took out of it, in order
  conn,   \* "new", "open" or "gone"
  owed,   \* of a message: the streams that were there when it came
  raced   \* messages that were handed out while a stream of the tenant left

vars == <<array, size, about, walk, leave, buffer, taken, conn, owed, raced>>
hubVars == <<array, size>>
Resting == [at |-> "rest"]
Nobody == [of |-> {}]

ActivityTypeOK ==
  /\ \A t \in Tenant : size[t] \in 0..Len(array[t])
  /\ about \in Seq(Tenant) /\ Len(about) <= MaxEvent
  /\ \A s \in Stream : Len(buffer[s]) <= subBufSize
  /\ conn \in [Stream -> {"new", "open", "gone"}]
  /\ raced \subseteq DOMAIN about

ActivityInit ==
  /\ array = [t \in Tenant |-> <<>>]
  /\ size = [t \in Tenant |-> 0]
  /\ about = <<>>
  /\ walk = Resting
  /\ leave = Nobody
  /\ buffer = [s \in Stream |-> <<>>]
  /\ taken = [s \in Stream |-> <<>>]
  /\ conn = [s \in Stream |-> "new"]
  /\ owed = <<>> /\ raced = {}

-----------------------------------------------------------------------------
(* "<RFC3339Nano>:<uuid>" is cut at its first colon, which is one of the   *)
(* time's own: no cursor that encodeCursor makes is decoded.               *)
decodeCursor(created) == [ok |-> FALSE, after |-> created]

(* A client that names the last event it saw is sent what came after it,   *)
(* or nothing if the name cannot be read.                                  *)
replayHistory(lastID) ==
  IF decodeCursor(lastID).ok THEN [i \in 1..(Len(about) - lastID) |-> lastID + i] ELSE <<>>

(* append: in place while there is room, into an array twice as long, which*)
(* no walk sees, otherwise.                                                *)
Grown(t, s) ==
  IF size[t] < Len(array[t]) THEN [array[t] EXCEPT ![size[t] + 1] = s]
  ELSE LET n == size[t] IN
       [i \in 1..(IF n = 0 THEN 1 ELSE 2 * n) |-> IF i <= n THEN array[t][i] ELSE s]

(* The walk goes on over the array it took.                                *)
Moved(t) == walk.at = "walk" /\ walk.tenant = t /\ walk.shared
LeftBehind(cells) ==
  [at |-> "walk", event |-> walk.event, tenant |-> walk.tenant, next |-> walk.next,
   size |-> walk.size, shared |-> FALSE, cells |-> cells]

Subscribe(s, lastID) ==
  LET t == HomeOf[s] IN
  /\ conn[s] = "new" /\ leave = Nobody
  /\ conn' = [conn EXCEPT ![s] = "open"]
  /\ taken' = [taken EXCEPT ![s] = replayHistory(lastID)]
  /\ array' = [array EXCEPT ![t] = Grown(t, s)]
  /\ size' = [size EXCEPT ![t] = @ + 1]
  /\ walk' = IF Moved(t) /\ size[t] = Len(array[t])
             THEN LeftBehind(array[t]) ELSE walk
  /\ UNCHANGED <<about, leave, buffer, owed, raced>>

(* The client goes; its handler takes the lock and finds its place.        *)
Unsubscribe(s) ==
  LET t == HomeOf[s] IN
  /\ conn[s] = "open" /\ leave = Nobody
  /\ conn' = [conn EXCEPT ![s] = "gone"]
  /\ leave' = [of |-> {t}, at |-> CHOOSE i \in 1..size[t] : array[t][i] = s]
  /\ raced' = IF walk.at = "walk" /\ walk.tenant = t THEN raced \cup {walk.event} ELSE raced
  /\ UNCHANGED <<hubVars, about, walk, buffer, taken, owed>>

(* append(list[:i], list[i+1:]...), one cell at a time,                    *)
Shift ==
  \E t \in leave.of :
    /\ leave.at < size[t]
    /\ array' = [array EXCEPT ![t][leave.at] = array[t][leave.at + 1]]
    /\ leave' = [leave EXCEPT !.at = @ + 1]
    /\ UNCHANGED <<size, about, walk, buffer, taken, conn, owed, raced>>

(* ... then the shorter slice, or none, and the lock is given back.        *)
Shorten ==
  \E t \in leave.of :
    /\ leave.at = size[t]
    /\ size' = [size EXCEPT ![t] = @ - 1]
    /\ array' = IF size[t] = 1 THEN [array EXCEPT ![t] = <<>>] ELSE array
    /\ walk' = IF Moved(t) /\ size[t] = 1
               THEN LeftBehind(array[t]) ELSE walk
    /\ leave' = Nobody
    /\ UNCHANGED <<about, buffer, taken, conn, owed, raced>>

-----------------------------------------------------------------------------
(* dispatch: a message of a tenant; fanOut takes the slice.                *)
dispatch(t) ==
  /\ walk = Resting /\ leave = Nobody
  /\ Len(about) < MaxEvent
  /\ about' = Append(about, t)
  /\ owed' = Append(owed, ToSet(SubSeq(array[t], 1, size[t])))
  /\ walk' = [at |-> "walk", event |-> Len(about) + 1, tenant |-> t, next |-> 1,
              size |-> size[t], shared |-> TRUE, cells |-> <<>>]
  /\ UNCHANGED <<hubVars, leave, buffer, taken, conn, raced>>

(* Mutant: a full buffer keeps what it has.                                *)
DropNewest(b, e) == IF Len(b) < subBufSize THEN Append(b, e) ELSE b

(* A full buffer loses its oldest event.                                   *)
Enqueued(b, e) ==
  IF Len(b) < subBufSize THEN Append(b, e) ELSE Append(Tail(b), e)

(* The next cell of the walk.                                              *)
fanOut ==
  LET cells == IF walk.shared THEN array[walk.tenant] ELSE walk.cells
      s == cells[walk.next]
  IN
  /\ walk.at = "walk" /\ walk.next <= walk.size
  /\ buffer' = [buffer EXCEPT ![s] = Enqueued(@, walk.event)]
  /\ walk' = [walk EXCEPT !.next = @ + 1]
  /\ UNCHANGED <<hubVars, about, leave, taken, conn, owed, raced>>

FanOutEnds ==
  /\ walk.at = "walk" /\ walk.next > walk.size
  /\ walk' = Resting
  /\ UNCHANGED <<hubVars, about, leave, buffer, taken, conn, owed, raced>>

(* The stream's handler takes an event to write it, if the client's filter *)
(* has it.                                                                 *)
stream(s) ==
  /\ conn[s] = "open" /\ buffer[s] # <<>>
  /\ taken' = [taken EXCEPT ![s] = Append(@, Head(buffer[s]))]
  /\ buffer' = [buffer EXCEPT ![s] = Tail(@)]
  /\ UNCHANGED <<hubVars, about, walk, leave, conn, owed, raced>>

ActivityNext ==
  \/ Shift \/ Shorten \/ fanOut \/ FanOutEnds
  \/ \E t \in Tenant : dispatch(t)
  \/ \E s \in Stream :
       \/ Unsubscribe(s) \/ stream(s)
       \/ \E lastID \in 0..Len(about) : Subscribe(s, lastID)

ActivitySpec == ActivityInit /\ [][ActivityNext]_vars

-----------------------------------------------------------------------------
(* Properties                                                              *)

Received(s) == taken[s] \o buffer[s]

(* A stream is given the events of its tenant in their order, never an     *)
(* older one after a newer one, and one twice only if a stream left while  *)
(* it was handed out.                                                      *)
InOrder ==
  \A s \in Stream : \A i, j \in DOMAIN Received(s) :
    LET d == Received(s)[i]
        e == Received(s)[j]
    IN i < j => about[e] = HomeOf[s] /\ d <= e /\ (d = e => d \in raced)

(* The newest event that was handed out reaches every stream that was there*)
(* and stays, however slow its client is, unless a stream of the tenant    *)
(* left while it was handed out.                                           *)
NewestIsKept ==
  walk = Resting =>
    \A e \in DOMAIN about \ raced :
      (\A d \in DOMAIN about : d > e => about[d] # about[e]) =>
        \A s \in owed[e] : conn[s] = "open" => Contains(Received(s), e)

=============================================================================
