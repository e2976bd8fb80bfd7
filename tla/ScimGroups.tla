----------------------------- MODULE ScimGroups -----------------------------
(***************************************************************************)
(* One group of a tenant as its identity provider and its administrators   *)
(* write it at the same time (internal/federation/scim/groups.go and       *)
(* internal/identity/groups/group.go).                                     *)
(*                                                                         *)
(* PUT and PATCH are transactions of several statements at READ COMMITTED: *)
(* a statement sees what was committed when it began, and waits for the    *)
(* transaction that is inserting or deleting the row it wants.  PUT, and a *)
(* PATCH of the name, begin with an UPDATE of the group's row, which no    *)
(* two transactions hold at once; inserting a member does not wait for it. *)
(***************************************************************************)
EXTENDS Naturals, FiniteSets, Sequences

CONSTANTS User,   \* users of the tenant
          Put,    \* PUT requests
          Patch,  \* PATCH requests
          None,
          MaxOps, \* operations of a PATCH
          MaxEdit \* members added or removed, and users deleted, by an administrator

Tx == Put \cup Patch

VARIABLES
  group,   \* the group's row: "none", "there", "deleted"
  live,    \* users without deleted_at
  members, \* committed rows of group_members
  lock,    \* the transaction that updated the group's row
  pc,      \* the next statement of a transaction: "idle" (none yet), "touch",
           \* "clear", "members" (a row of group_members), "committed", "failed"
  ops,     \* history: the operations of a request, as sent
  want,    \* what a request resolves to: a groupPatch
  rows,    \* rows DeleteGroupMembers has found and not yet deleted
  ins,     \* rows a transaction inserted and has not committed
  del,     \* rows a transaction deleted and has not committed
  skipped, \* history: users addMemberTx passed over
  mates,   \* history: users whose membership others committed meanwhile
  edits    \* history: what administrators did to members and users

dbVars == <<group, live, members, edits>>
txVars == <<lock, pc, ops, want, rows, ins, del, skipped, mates>>
vars == <<dbVars, txVars>>

-----------------------------------------------------------------------------
(* Requests                                                                *)

(* A bare removal of "members" is a replacement by nobody.  Two kinds of   *)
(* operation are not read as they are named: "drop" is a removal without a *)
(* path, "retarget" a replacement of one member, `members[value eq ..]`.   *)
Op ==
  [kind : {"replace", "drop"}, who : SUBSET User]
    \cup [kind : {"add", "remove", "retarget"}, who : {{u} : u \in User}]

Request == UNION {[1..n -> Op] : n \in 1..MaxOps}

Named(request, kinds) ==
  UNION {request[i].who : i \in {j \in DOMAIN request : request[j].kind \in kinds}}

(* Mutant: a replacement only adds.                                        *)
ParseWithoutClear(request, touch) ==
  [touch  |-> touch,
   clear  |-> FALSE,
   add    |-> Named(request, {"replace", "drop", "add"}),
   remove |-> Named(request, {"remove"})]

(* parseGroupPatch: what the operations come to, in no order.  Without a   *)
(* path all but "add" replaces: a removal leaves just those it names.  The *)
(* replacement of one member is passed over.                               *)
ParseGroupPatch(request, touch) ==
  [touch  |-> touch,
   clear  |-> \E i \in DOMAIN request : request[i].kind \in {"replace", "drop"},
   add    |-> Named(request, {"replace", "drop", "add"}),
   remove |-> Named(request, {"remove"})]

Nothing == [touch |-> FALSE, clear |-> FALSE, add |-> {}, remove |-> {}]

TypeOK ==
  /\ group \in {"none", "there", "deleted"}
  /\ live \subseteq User /\ members \subseteq User
  /\ edits \in 0..MaxEdit
  /\ lock \in Tx \cup {None}
  /\ pc \in [Tx -> {"idle", "touch", "clear", "members", "committed", "failed"}]
  /\ ops \in [Tx -> Request \cup {<<>>}]
  /\ want \in [Tx -> [touch : BOOLEAN, clear : BOOLEAN,
                      add : SUBSET User, remove : SUBSET User]]
  /\ \A f \in {rows, ins, del, skipped, mates} : f \in [Tx -> SUBSET User]

Init ==
  /\ group = "none" /\ live = User /\ members = {} /\ edits = 0
  /\ lock = None
  /\ pc = [x \in Tx |-> "idle"]
  /\ ops = [x \in Tx |-> <<>>]
  /\ want = [x \in Tx |-> Nothing]
  /\ rows = [x \in Tx |-> {}]
  /\ ins = [x \in Tx |-> {}]
  /\ del = [x \in Tx |-> {}]
  /\ skipped = [x \in Tx |-> {}]
  /\ mates = [x \in Tx |-> {}]

-----------------------------------------------------------------------------
(* The rows a transaction sees, and the ones others have in hand.          *)
Seen(x) == (members \ del[x]) \cup ins[x]
InHand(x) == UNION {ins[y] \cup del[y] : y \in Tx \ {x}}
Running == {x \in Tx : pc[x] \notin {"idle", "committed", "failed"}}

Goto(x, where) == pc' = [pc EXCEPT ![x] = where]

(* The statement after touchGroupTx.                                       *)
AfterTouch(patch) == IF patch.clear THEN "clear" ELSE "members"

(* Others' changes to the users of S that x has to reckon with.  PUTs are  *)
(* no mates of each other: the group's row keeps them apart.               *)
Noticed(S, x, y) ==
  IF y \in Running /\ y # x /\ ~(x \in Put /\ y \in Put) THEN mates[y] \cup S ELSE mates[y]

(* What a statement that commits by itself does to the transactions.       *)
CommitAlone(inserted, deleted) ==
  /\ members' = (members \ deleted) \cup inserted
  /\ mates' = [y \in Tx |-> Noticed(inserted \cup deleted, None, y)]
  /\ rows' = [y \in Tx |-> rows[y] \ deleted]

(* createGroup, in one transaction nobody can see into.                    *)
CreateGroup(S) ==
  /\ group = "none"
  /\ group' = "there"
  /\ members' = S \cap live
  /\ UNCHANGED <<live, edits, txVars>>

(* deleteGroup and group.Service.Delete: the members' rows go with the     *)
(* group's, once nobody holds it or a row that refers to it.               *)
DeleteGroup ==
  /\ group = "there" /\ lock = None
  /\ \A x \in Tx : ins[x] = {} /\ del[x] = {}
  /\ group' = "deleted"
  /\ CommitAlone({}, members)
  /\ UNCHANGED <<live, edits, lock, pc, ops, want, ins, del, skipped>>

(* AddMember and RemoveMember of the administrators' API.                  *)
AddMember(u) ==
  /\ group = "there" /\ u \notin InHand(None) \cup members
  /\ edits < MaxEdit /\ edits' = edits + 1
  /\ CommitAlone({u}, {})
  /\ UNCHANGED <<group, live, lock, pc, ops, want, ins, del, skipped>>

RemoveMember(u) ==
  /\ u \in members \ InHand(None)
  /\ edits < MaxEdit /\ edits' = edits + 1
  /\ CommitAlone({}, {u})
  /\ UNCHANGED <<group, live, lock, pc, ops, want, ins, del, skipped>>

(* users.SoftDelete: the memberships stay.                                 *)
DeleteUser(u) ==
  /\ u \in live
  /\ edits < MaxEdit /\ edits' = edits + 1
  /\ live' = live \ {u}
  /\ UNCHANGED <<group, members, txVars>>

-----------------------------------------------------------------------------
(* PUT and PATCH                                                           *)

(* replaceGroup: everything is replaced by S.                              *)
BeginPut(x, S) ==
  /\ x \in Put /\ pc[x] = "idle" /\ group # "none"
  /\ ops' = [ops EXCEPT ![x] = <<[kind |-> "replace", who |-> S]>>]
  /\ want' = [want EXCEPT ![x] = [touch |-> TRUE, clear |-> TRUE, add |-> S, remove |-> {}]]
  /\ Goto(x, "touch")
  /\ UNCHANGED <<dbVars, lock, rows, ins, del, skipped, mates>>

(* patchGroup, up to GetScimGroup, which finds the group.                  *)
BeginPatch(x, request, touch) ==
  /\ x \in Patch /\ pc[x] = "idle" /\ group = "there"
  /\ ops' = [ops EXCEPT ![x] = request]
  /\ want' = [want EXCEPT ![x] = ParseGroupPatch(request, touch)]
  /\ Goto(x, IF touch THEN "touch" ELSE AfterTouch(want'[x]))
  /\ UNCHANGED <<dbVars, lock, rows, ins, del, skipped, mates>>

(* Mutant: the group's row is only looked at.                              *)
TouchWithoutLock(x) ==
  /\ pc[x] = "touch" /\ group = "there"
  /\ Goto(x, AfterTouch(want[x]))
  /\ UNCHANGED <<dbVars, lock, ops, want, rows, ins, del, skipped, mates>>

(* touchGroupTx.                                                           *)
Touch(x) ==
  /\ pc[x] = "touch" /\ group = "there" /\ lock = None
  /\ lock' = x
  /\ Goto(x, AfterTouch(want[x]))
  /\ UNCHANGED <<dbVars, ops, want, rows, ins, del, skipped, mates>>

(* DeleteGroupMembers: it finds the rows ...                               *)
Clear(x) ==
  /\ pc[x] = "clear"
  /\ rows' = [rows EXCEPT ![x] = Seen(x)]
  /\ Goto(x, "members")
  /\ UNCHANGED <<dbVars, lock, ops, want, ins, del, skipped, mates>>

(* ... and deletes one after the other, but those deleted meanwhile.       *)
ClearRow(x, u) ==
  /\ u \in rows[x] \ InHand(x)
  /\ del' = [del EXCEPT ![x] = @ \cup {u}]
  /\ rows' = [rows EXCEPT ![x] = @ \ {u}]
  /\ UNCHANGED <<dbVars, lock, pc, ops, want, ins, skipped, mates>>

Cleared(x) == pc[x] = "members" /\ rows[x] = {}

(* addMemberTx: a deleted user is passed over, a row that is there stays.  *)
AddMemberTx(x, u) ==
  /\ Cleared(x) /\ u \in want[x].add
  /\ want' = [want EXCEPT ![x].add = @ \ {u}]
  /\ \/ /\ u \notin live
        /\ skipped' = [skipped EXCEPT ![x] = @ \cup {u}]
        /\ UNCHANGED ins
     \/ /\ u \in live /\ group = "there" /\ u \notin InHand(x)
        /\ ins' = [ins EXCEPT ![x] = IF u \in Seen(x) THEN @ ELSE @ \cup {u}]
        /\ UNCHANGED skipped
  /\ UNCHANGED <<dbVars, lock, pc, ops, rows, del, mates>>

Added(x) == Cleared(x) /\ want[x].add = {}

(* RemoveGroupMember.                                                      *)
RemoveMemberTx(x, u) ==
  /\ Added(x) /\ u \in want[x].remove
  /\ u \in members => u \notin InHand(x)
  /\ want' = [want EXCEPT ![x].remove = @ \ {u}]
  /\ del' = [del EXCEPT ![x] = IF u \in members THEN @ \cup {u} ELSE @]
  /\ ins' = [ins EXCEPT ![x] = @ \ {u}]
  /\ UNCHANGED <<dbVars, lock, pc, ops, rows, skipped, mates>>

(* The transaction is over.                                                *)
End(x, how) ==
  /\ lock' = IF lock = x THEN None ELSE lock
  /\ Goto(x, how)
  /\ ops' = [ops EXCEPT ![x] = <<>>]
  /\ want' = [want EXCEPT ![x] = Nothing]
  /\ ins' = [ins EXCEPT ![x] = {}]
  /\ del' = [del EXCEPT ![x] = {}]
  /\ skipped' = [skipped EXCEPT ![x] = {}]
  /\ UNCHANGED <<group, live, edits>>

Commit(x) ==
  /\ Added(x) /\ want[x].remove = {}
  /\ members' = Seen(x)
  /\ mates' = [y \in Tx |-> IF y = x THEN {} ELSE Noticed(ins[x] \cup del[x], x, y)]
  /\ rows' = [y \in Tx |-> rows[y] \ del[x]]
  /\ End(x, "committed")

(* The group is gone, a statement fails, or the database ends a deadlock.  *)
Rollback(x) ==
  /\ x \in Running
  /\ mates' = [mates EXCEPT ![x] = {}]
  /\ rows' = [rows EXCEPT ![x] = {}]
  /\ End(x, "failed")
  /\ UNCHANGED members

-----------------------------------------------------------------------------
Next ==
  \/ \E S \in SUBSET User : CreateGroup(S)
  \/ DeleteGroup
  \/ \E u \in User : AddMember(u) \/ RemoveMember(u) \/ DeleteUser(u)
  \/ \E x \in Put, S \in SUBSET User : BeginPut(x, S)
  \/ \E x \in Patch, request \in Request, touch \in BOOLEAN : BeginPatch(x, request, touch)
  \/ \E x \in Tx :
       \/ Touch(x) \/ Clear(x) \/ Commit(x) \/ Rollback(x)
       \/ \E u \in User : ClearRow(x, u) \/ AddMemberTx(x, u) \/ RemoveMemberTx(x, u)

Spec == Init /\ [][Next]_vars

-----------------------------------------------------------------------------
(* Properties                                                              *)

(* What the operations say, one after the other.                           *)
Apply(op, S) ==
  IF op.kind = "replace" THEN op.who
  ELSE IF op.kind = "add" THEN S \cup op.who ELSE S \ op.who

Applied(request, S) ==
  LET after[n \in 0..Len(request)] ==
        IF n = 0 THEN S ELSE Apply(request[n], after[n - 1])
  IN after[Len(request)]

(* x commits, and leaves of the users nobody else changed meanwhile, and   *)
(* that it did not pass over, those it was told to leave.                  *)
Effective(x) ==
  pc[x] # "committed" /\ pc'[x] = "committed" =>
    \A u \in User \ (mates[x] \cup skipped[x]) :
      u \in members' <=> u \in Applied(ops[x], members)

(* A PUT that commits leaves exactly the members it names, whatever other  *)
(* PUTs run at the same time; members others add or remove meanwhile by    *)
(* PATCH or one by one are the only exception.  replaceGroup,              *)
(* groups.go:159, rests on touchGroupTx coming before DeleteGroupMembers.  *)
PutIsExact == \A x \in Put : Effective(x)

(* Parsing forgets the order of operations; where no replacement follows   *)
(* another operation and nobody is added after being removed, the PATCH    *)
(* does what its operations do one after the other.  parseGroupPatch and   *)
(* patchGroup, groups.go:546 and groups.go:187.  Not so for an operation   *)
(* that is read as something else: a removal without a path leaves just    *)
(* the members it should take out (groups.go:611), and the replacement of  *)
(* one member leaves it there (groups.go:585).                             *)
OrderDoesNotMatter(request) ==
  \A i, j \in DOMAIN request : i < j =>
    /\ request[j].kind # "replace"
    /\ ~(request[i].kind = "remove" /\ request[j].kind = "add" /\ request[i].who = request[j].who)

ReadAsNamed(request) ==
  \A i \in DOMAIN request : request[i].kind \in {"replace", "add", "remove"}

PatchIsAsWritten ==
  \A x \in Patch : OrderDoesNotMatter(ops[x]) /\ ReadAsNamed(ops[x]) => Effective(x)

(* Both: a group ends with the members its requests ask for.               *)
GroupsEndAsAsked == [][PutIsExact /\ PatchIsAsWritten]_vars

=============================================================================
