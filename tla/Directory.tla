----------------------------- MODULE Directory -----------------------------
(***************************************************************************)
(* A tenant's LDAP directory (internal/federation/ldap): its connection,   *)
(* changed in transactions that end with the audit record, and sign-ins    *)
(* that ask the directory while the connection and the directory change.   *)
(* Finding or making the account of a directory entry is Accounts'.        *)
(***************************************************************************)
EXTENDS Naturals, FiniteSets

CONSTANTS Server,   \* directories
          Entry,    \* distinguished names
          Name,     \* user names; NameOf[e] is what the filter finds e by
          NameOf,
          Password, \* passwords, Empty among them
          Empty,
          Request,
          Deleted,  \* the row is gone
          None      \* no row yet, nothing

VARIABLES
  conn,   \* the row of tenant.ldap_connections
  lock,   \* the transaction that holds it
  told,   \* what the last audit record says
  secret, \* of an entry of a server: its password, None: there is no entry
  had,    \* passwords an entry has ever had
  up,     \* servers that answer
  seen,   \* whether last_login_at is set
  signed, \* entries signed in
  req     \* handlers at work

vars == <<conn, lock, told, secret, had, up, seen, signed, req>>
rowVars == <<conn, lock, told, seen>>
directory == <<secret, had, up>>
Idle == [at |-> "idle"]
Row == [status : {"draft", "active", "disabled"}, server : Server]

(* What an audit record says: of a new connection the server, of a changed *)
(* one the status.                                                         *)
Record == [action : {"created", "updated", "deleted"},
           status : {"draft", "active", "disabled", None}, server : Server \cup {None}]
Tells(action, status, srv) == [action |-> action, status |-> status, server |-> srv]

DirectoryTypeOK ==
  /\ conn \in Row \cup {None, Deleted}
  /\ lock \in Request \cup {None}
  /\ told \in Record \cup {None}
  /\ secret \in [Server \X Entry -> (Password \ {Empty}) \cup {None}]
  /\ had \subseteq Server \X Entry \X Password
  /\ up \subseteq Server /\ seen \in BOOLEAN
  /\ signed \subseteq Server \X Entry \X Password
  /\ \A r \in Request : req[r].at \in {"idle", "write", "asked", "find", "bind", "link"}

DirectoryInit ==
  /\ conn = None /\ lock = None /\ told = None
  /\ secret \in [Server \X Entry -> (Password \ {Empty}) \cup {None}]
  /\ had = {x \in Server \X Entry \X Password : secret[<<x[1], x[2]>>] = x[3]}
  /\ up = Server /\ seen = FALSE /\ signed = {}
  /\ req = [r \in Request |-> Idle]

At(r, at) == req[r].at = at
Go(r, q) == req' = [req EXCEPT ![r] = q]
Live == conn \notin {None, Deleted}

-----------------------------------------------------------------------------
(* The first statement of a transaction takes the row.                     *)
Write(r, row, tells) ==
  /\ req[r] = Idle /\ lock = None
  /\ lock' = r
  /\ Go(r, [at |-> "write", row |-> row, tells |-> tells])
  /\ UNCHANGED <<conn, told, seen, directory, signed>>

CreateConnection(r, status, srv) ==
  /\ conn = None
  /\ Write(r, [status |-> status, server |-> srv], Tells("created", None, srv))

(* COALESCE: what the patch leaves out stays.                              *)
Patched(status, srv) ==
  [status |-> IF status = None THEN conn.status ELSE status,
   server |-> IF srv = None THEN conn.server ELSE srv]

UpdateConnection(r, status, srv) ==
  /\ Live
  /\ Write(r, Patched(status, srv), Tells("updated", Patched(status, srv).status, None))

DeleteConnection(r) == Live /\ Write(r, Deleted, Tells("deleted", None, None))

Serves(row) == row \notin {None, Deleted} /\ row.status # "disabled"

(* The record and the commit, or neither; an enabled connection lets those *)
(* in who have not been looked at.                                         *)
Commit(r) ==
  /\ At(r, "write")
  /\ conn' = req[r].row
  /\ told' = req[r].tells
  /\ lock' = None
  /\ req' = [q \in Request |->
       IF q = r THEN Idle
       ELSE IF Serves(conn') /\ At(q, "asked") THEN [req[q] EXCEPT !.out = FALSE]
       ELSE req[q]]
  /\ UNCHANGED <<seen, directory, signed>>

Rollback(r) ==
  /\ At(r, "write")
  /\ lock' = None
  /\ Go(r, Idle)
  /\ UNCHANGED <<conn, told, seen, directory, signed>>

-----------------------------------------------------------------------------
(* The directory's own administrators, and the network.                    *)
ChangeEntry(s, e, p) ==
  /\ secret[<<s, e>>] # p
  /\ secret' = [secret EXCEPT ![<<s, e>>] = p]
  /\ had' = IF p = None THEN had ELSE had \cup {<<s, e, p>>}
  /\ UNCHANGED <<rowVars, up, signed, req>>

ServerStops(s) ==
  /\ s \in up
  /\ up' = up \ {s}
  /\ UNCHANGED <<rowVars, secret, had, signed, req>>

ServerStarts(s) ==
  /\ s \notin up
  /\ up' = up \cup {s}
  /\ UNCHANGED <<rowVars, secret, had, signed, req>>

(* A bind with a password, which the directory compares; one without is    *)
(* anonymous and always succeeds.                                          *)
Binds(s, e, p) == p = Empty \/ secret[<<s, e>>] = p

(* Entries the search finds.                                               *)
Found(s, n) == {e \in Entry : secret[<<s, e>>] # None /\ NameOf[e] = n}

-----------------------------------------------------------------------------
(* A sign-in arrives; out: the connection was disabled or deleted by then. *)
Arrive(r, n, p) ==
  /\ req[r] = Idle /\ conn # None
  /\ Go(r, [at |-> "asked", name |-> n, password |-> p, out |-> ~Serves(conn)])
  /\ UNCHANGED <<rowVars, directory, signed>>

Refuse(r) == Go(r, Idle)

(* Mutant: a sign-in without a password is tried.                          *)
TryAnything(q) == q.name # None

(* authenticate: a user name and a password are required.                  *)
Given(q) == q.name # None /\ q.password # Empty

(* Login: getFull reads the row with its secret once; a draft is served.   *)
getFull(r) ==
  LET q == req[r] IN
  /\ At(r, "asked")
  /\ IF Serves(conn) /\ Given(q)
     THEN Go(r, [at |-> "find", server |-> conn.server, name |-> q.name,
                 password |-> q.password, out |-> q.out])
     ELSE Refuse(r)
  /\ UNCHANGED <<rowVars, directory, signed>>

(* authenticate: dial, bind the service account, find one entry,           *)
Search(r) ==
  LET q == req[r]
      es == Found(q.server, q.name)
  IN
  /\ At(r, "find")
  /\ IF q.server \in up /\ Cardinality(es) = 1
     THEN \E e \in es : Go(r, [at |-> "bind", server |-> q.server, entry |-> e,
                               password |-> q.password, out |-> q.out])
     ELSE Refuse(r)
  /\ UNCHANGED <<rowVars, directory, signed>>

(* ... and bind as that entry over a fresh connection.                     *)
BindUser(r) ==
  LET q == req[r] IN
  /\ At(r, "bind")
  /\ IF q.server \in up /\ Binds(q.server, q.entry, q.password)
     THEN Go(r, [q EXCEPT !.at = "link"]) ELSE Refuse(r)
  /\ UNCHANGED <<rowVars, directory, signed>>

(* findOrCreateUser, last_login_at and IssuePair, or a failure.            *)
Login(r, ok) ==
  LET q == req[r] IN
  /\ At(r, "link")
  /\ signed' = IF ok THEN signed \cup {<<q.server, q.entry, q.password>>} ELSE signed
  /\ seen' = IF ok /\ Live THEN TRUE ELSE seen
  /\ Refuse(r)
  /\ UNCHANGED <<conn, lock, told, directory>>

DirectoryNext ==
  \/ \E s \in Server :
       \/ ServerStops(s) \/ ServerStarts(s)
       \/ \E e \in Entry, p \in (Password \ {Empty}) \cup {None} : ChangeEntry(s, e, p)
  \/ \E r \in Request :
       \/ \E s \in Server, status \in {"draft", "active"} : CreateConnection(r, status, s)
       \/ \E s \in Server \cup {None}, status \in {"draft", "active", "disabled", None} :
            UpdateConnection(r, status, s)
       \/ DeleteConnection(r) \/ Commit(r) \/ Rollback(r)
       \/ \E n \in Name, p \in Password : Arrive(r, n, p)
       \/ getFull(r) \/ Search(r) \/ BindUser(r)
       \/ \E ok \in BOOLEAN : Login(r, ok)

DirectorySpec == DirectoryInit /\ [][DirectoryNext]_vars

-----------------------------------------------------------------------------
(* Properties                                                              *)

(* Whoever signs in through a directory gave a password the entry had.     *)
SignedInWithPassword == signed \subseteq had

(* A sign-in that arrives after the connection was disabled or deleted is  *)
(* not let in unless it is enabled again before its row is read.           *)
WithdrawnIsOut == \A r \in Request : At(r, "link") => ~req[r].out

(* The audit log tells the state, whatever fails: a row is there if its    *)
(* last record is not of its deletion, and has the status or the server    *)
(* that record gives.                                                      *)
Agrees(record, row) ==
  /\ row = None <=> record = None
  /\ row = Deleted <=> record # None /\ record.action = "deleted"
  /\ row \notin {None, Deleted} =>
       record.status \in {None, row.status} /\ record.server \in {None, row.server}

AuditTellsTheState == Agrees(told, conn)

=============================================================================
