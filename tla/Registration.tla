---------------------------- MODULE Registration ----------------------------
(***************************************************************************)
(* Register, and what the rest of the system makes of an address: one row  *)
(* per e-mail address, however it is spelled, however many clients ask at  *)
(* once, and whatever becomes of the account.                              *)
(*                                                                         *)
(* CreateUser is one INSERT.  It draws an id from the sequence, enters the *)
(* unique index users_email_uidx, waiting there for any other transaction  *)
(* whose entry for the same address is not yet decided, and commits.       *)
(* Spellings that NormalizeEmail makes equal are spellings of one address. *)
(* Login looks its account up without a lock, compares the password, and   *)
(* judges the row again once it has it locked; in between, and before, the *)
(* account may be banned, opened again, or deleted.                        *)
(***************************************************************************)
EXTENDS Naturals

CONSTANTS
  Spellings,     \* the ways clients write addresses
  Canonical,     \* NormalizeEmail: the spelling that stands for the address
  Valid,         \* the spellings that ValidateEmail accepts
  Requests,      \* the requests of one run
  MaxIds,        \* bound: ids are 1 .. MaxIds (BIGSERIAL)
  NULL

ASSUME SpellingsAssumption ==
  /\ Canonical \in [Spellings -> Spellings]
  /\ \A s \in Spellings : Canonical[Canonical[s]] = Canonical[s]
  /\ Valid \subseteq Spellings
  /\ \A s \in Spellings : s \in Valid <=> Canonical[s] \in Valid
ASSUME MaxIdsAssumption == MaxIds \in Nat

VARIABLES
  accounts,      \* table users: a row, or NULL before the INSERT commits
  seq,           \* the sequence behind users.id (never rolled back)
  pc,            \* the stage of each request
  req,           \* its input
  id,            \* the id its INSERT has drawn, or the account its login has found
  reply          \* its answer, with the account it names

vars == <<accounts, seq, pc, req, id, reply>>

Ids == 1 .. MaxIds

(***************************************************************************)
(* A password is named after the request that registered it.  "active"     *)
(* stands for every status that may log in (CanLogin).                     *)
(***************************************************************************)
Account ==
  [email : Spellings, password : Requests, status : {"active", "banned", "deleted"}]

Request == [op : {"register", "login"}, spelling : Spellings, password : Requests]

Codes == {"ok", "invalid", "taken", "credentials", "internal"}

ASSUME NullAssumption ==
  NULL \notin Account /\ NULL \notin Request /\ NULL \notin Ids /\ NULL \notin Codes

TypeOK ==
  /\ accounts \in [Ids -> Account \cup {NULL}]
  /\ seq \in 0 .. MaxIds
  /\ pc \in [Requests -> {"new", "insert", "index", "inserted",
                         "credential", "lock", "done"}]
  /\ req \in [Requests -> Request \cup {NULL}]
  /\ id \in [Requests -> Ids \cup {NULL}]
  /\ reply \in [Requests -> [code : Codes \cup {NULL}, id : Ids \cup {NULL}]]

Init ==
  /\ accounts = [i \in Ids |-> NULL]
  /\ seq = 0
  /\ pc = [r \in Requests |-> "new"]
  /\ req = [r \in Requests |-> NULL]
  /\ id = [r \in Requests |-> NULL]
  /\ reply = [r \in Requests |-> [code |-> NULL, id |-> NULL]]

-----------------------------------------------------------------------------
Goto(r, stage) == pc' = [pc EXCEPT ![r] = stage]

Finish(r, code, account) ==
  /\ Goto(r, "done")
  /\ id' = [id EXCEPT ![r] = NULL]
  /\ reply' = [reply EXCEPT ![r] = [code |-> code, id |-> account]]

\* The e-mail address that the table is asked for.
\* Its mutant takes an address as it is spelled.
EmailAsSpelled(r) == req[r].spelling

Email(r) == Canonical[req[r].spelling]

\* Register validates all its fields before it touches the table: the password
\* and the display name may be refused as well as the address.  The password is
\* hashed and the time taken before the INSERT; if that fails, see Cut.
Register(r, spelling) ==
  /\ pc[r] = "new"
  /\ req' = [req EXCEPT
       ![r] = [op |-> "register", spelling |-> spelling, password |-> r]]
  /\ \/ spelling \in Valid /\ Goto(r, "insert") /\ UNCHANGED <<id, reply>>
     \/ Finish(r, "invalid", NULL)
  /\ UNCHANGED <<accounts, seq>>

\* CreateUser: the default of the column id is evaluated first.
\* Its mutant is off by one.
DrawIdBefore(r) ==
  /\ pc[r] = "insert"
  /\ seq < MaxIds
  /\ seq' = seq + 1
  /\ id' = [id EXCEPT ![r] = seq]
  /\ Goto(r, "index")
  /\ UNCHANGED <<accounts, req, reply>>

DrawId(r) ==
  /\ pc[r] = "insert"
  /\ seq < MaxIds
  /\ seq' = seq + 1
  /\ id' = [id EXCEPT ![r] = seq + 1]
  /\ Goto(r, "index")
  /\ UNCHANGED <<accounts, req, reply>>

Taken(email) == \E i \in Ids : accounts[i] # NULL /\ accounts[i].email = email

\* Who enters the index waits for the transactions that already have.
Undecided(r) == {q \in Requests \ {r} : pc[q] = "inserted" /\ Email(q) = Email(r)}

EnterIndex(r) ==
  /\ pc[r] = "index"
  /\ Undecided(r) = {}
  /\ \/ Taken(Email(r)) /\ Finish(r, "taken", NULL)
     \/ ~ Taken(Email(r)) /\ Goto(r, "inserted") /\ UNCHANGED <<id, reply>>
  /\ UNCHANGED <<accounts, seq, req>>

Store(r) ==
  /\ pc[r] = "inserted"
  /\ accounts' = [accounts EXCEPT
       ![id[r]] = [email |-> Email(r), password |-> req[r].password, status |-> "active"]]
  /\ UNCHANGED <<seq, req>>

Commit(r) == Store(r) /\ Finish(r, "ok", id[r])

\* The row is stored but its confirmation is lost.
CommitUnconfirmed(r) == Store(r) /\ Finish(r, "internal", NULL)

\* The client leaves, a statement fails, or a COMMIT is not confirmed: of an
\* INSERT cut off here nothing remains but the id drawn, of a login nothing that
\* its account could tell.
\* The mutant reports every failure of the INSERT as a conflict.
CutAsConflict(r) ==
  /\ pc[r] \in {"insert", "index", "inserted", "credential", "lock"}
  /\ Finish(r, "taken", NULL)
  /\ UNCHANGED <<accounts, seq, req>>

Cut(r) ==
  /\ pc[r] \in {"insert", "index", "inserted", "credential", "lock"}
  /\ Finish(r, "internal", NULL)
  /\ UNCHANGED <<accounts, seq, req>>

(***************************************************************************)
(* Login.  What it makes of the session and of a mute is IdentityService's *)
(* part.                                                                   *)
(***************************************************************************)
Login(r, spelling, password) ==
  /\ pc[r] = "new"
  /\ req' = [req EXCEPT
       ![r] = [op |-> "login", spelling |-> spelling, password |-> password]]
  /\ Goto(r, "credential")
  /\ UNCHANGED <<accounts, seq, id, reply>>

\* FindLoginCredential, the comparison of the password, and the first look at
\* the status.
Credential(email, password) ==
  {i \in Ids : /\ accounts[i] # NULL
               /\ accounts[i].email = email
               /\ accounts[i].password = password
               /\ accounts[i].status = "active"}

FindCredential(r) ==
  /\ pc[r] = "credential"
  /\ LET found == Credential(Email(r), req[r].password) IN
       \/ found = {} /\ Finish(r, "credentials", NULL)
       \/ /\ \E i \in found : id' = [id EXCEPT ![r] = i]
          /\ Goto(r, "lock")
          /\ UNCHANGED reply
  /\ UNCHANGED <<accounts, seq, req>>

\* The transaction: it keeps the lock of the row from the second look at the
\* status to its commit.  The mutant does without that look.
LoginTxUnchecked(r) ==
  /\ pc[r] = "lock"
  /\ Finish(r, "ok", id[r])
  /\ UNCHANGED <<accounts, seq, req>>

LoginTx(r) ==
  /\ pc[r] = "lock"
  /\ \/ accounts[id[r]].status # "active" /\ Finish(r, "credentials", NULL)
     \/ accounts[id[r]].status = "active" /\ Finish(r, "ok", id[r])
  /\ UNCHANGED <<accounts, seq, req>>

\* ChangeUserStatus: a ban, or the order that ends it.
SetStatus(i, status) ==
  /\ accounts[i] # NULL
  /\ accounts[i].status \notin {"deleted", status}
  /\ accounts' = [accounts EXCEPT ![i].status = status]
  /\ UNCHANGED <<seq, pc, req, id, reply>>

\* DeleteMe keeps the row and its address.
DeleteMe(i) ==
  /\ accounts[i] # NULL
  /\ accounts[i].status = "active"
  /\ accounts' = [accounts EXCEPT ![i].status = "deleted"]
  /\ UNCHANGED <<seq, pc, req, id, reply>>

Answered == (\A r \in Requests : pc[r] = "done") /\ UNCHANGED vars

Next ==
  \/ \E r \in Requests :
       \/ \E s \in Spellings :
            Register(r, s) \/ \E p \in Requests \ {r} : Login(r, s, p)
       \/ DrawId(r) \/ EnterIndex(r) \/ Commit(r) \/ CommitUnconfirmed(r)
       \/ FindCredential(r) \/ LoginTx(r)
       \/ Cut(r)
  \/ \E i \in Ids :
       DeleteMe(i) \/ \E status \in {"active", "banned"} : SetStatus(i, status)
  \/ Answered

Spec == Init /\ [][Next]_vars

-----------------------------------------------------------------------------
(***************************************************************************)
(* One account per address, whatever the spellings, and also when two      *)
(* registrations race or one is retried after its answer was lost.         *)
(***************************************************************************)
OneAccountPerAddress ==
  \A i, j \in Ids :
    /\ accounts[i] # NULL /\ accounts[j] # NULL
    /\ Canonical[accounts[i].email] = Canonical[accounts[j].email]
    => i = j

(***************************************************************************)
(* A client is told that an address is taken only if it is: an account has *)
(* it, perhaps one deleted since, and never because some other             *)
(* registration of it was under way and came to nothing.                   *)
(***************************************************************************)
TakenIsTaken ==
  \A r \in Requests :
    reply[r].code = "taken" =>
      \E i \in Ids : /\ accounts[i] # NULL
                     /\ accounts[i].email = Canonical[req[r].spelling]

(***************************************************************************)
(* The account that a registration made is open to its owner, under any    *)
(* spelling of its address: whoever was told of it, or got no confirmation *)
(* and may since have been told that the address is taken, is refused only *)
(* if that very account is banned or deleted when Login looks at it, and   *)
(* is let in, to that account, only if it still is neither once the row is *)
(* locked.  Beside that there are internal errors.                         *)
(***************************************************************************)
Told(q) == pc[q] = "done" /\ req[q].op = "register" /\ reply[q].code = "ok"

Unconfirmed(q, i) ==
  /\ pc[q] = "done" /\ req[q].op = "register" /\ reply[q].code = "internal"
  /\ accounts[i] # NULL /\ accounts[i].password = q

Made(q, i) == (Told(q) /\ i = reply[q].id) \/ Unconfirmed(q, i)

RegisteredCanLogin ==
  [][\A q, r \in Requests, i \in Ids :
       /\ Made(q, i)
       /\ pc[r] \in {"credential", "lock"} /\ pc'[r] = "done"
       /\ req[r].password = q /\ Email(r) = Email(q)
       => \/ reply'[r] = [code |-> "ok", id |-> i] /\ accounts[i].status = "active"
          \/ reply'[r].code = "credentials" /\ accounts[i].status # "active"
          \/ reply'[r].code = "internal"]_vars

-----------------------------------------------------------------------------
(***************************************************************************)
(* The inductive invariant behind OneAccountPerAddress and TakenIsTaken.   *)
(*                                                                         *)
(* IdsOwned: an INSERT under way has an id of its own, not stored yet, and *)
(* no answer.                                                              *)
(***************************************************************************)
Inserting(r) == pc[r] \in {"index", "inserted"}

IdsOwned ==
  /\ \A i \in Ids : i > seq => accounts[i] = NULL
  /\ \A r \in Requests :
       /\ pc[r] # "new" => req[r] # NULL
       /\ pc[r] # "done" => reply[r].code = NULL
       /\ Inserting(r) => id[r] \in 1 .. seq /\ accounts[id[r]] = NULL
  /\ \A q, r \in Requests : Inserting(q) /\ Inserting(r) /\ id[q] = id[r] => q = r

(***************************************************************************)
(* EntriesUnique: the index holds an address once, stored or undecided.    *)
(***************************************************************************)
EntriesUnique ==
  /\ \A i \in Ids : accounts[i] # NULL => Canonical[accounts[i].email] = accounts[i].email
  /\ \A r \in Requests : pc[r] = "inserted" => ~ Taken(Email(r))
  /\ \A q, r \in Requests :
       pc[q] = "inserted" /\ pc[r] = "inserted" /\ Email(q) = Email(r) => q = r

RegistrationInv ==
  TypeOK /\ IdsOwned /\ EntriesUnique /\ OneAccountPerAddress /\ TakenIsTaken

(***************************************************************************)
(* Stored: an account has the address and the password of the registration *)
(* that made it, which is over; a client was told of the account its own   *)
(* registration made; and the account a login has found is the one it      *)
(* asked for.                                                              *)
(***************************************************************************)
Owner(i) == accounts[i].password

StoredBy(i) ==
  /\ pc[Owner(i)] = "done"
  /\ req[Owner(i)] # NULL /\ req[Owner(i)].op = "register"
  /\ accounts[i].email = Email(Owner(i))

Stored ==
  /\ \A i \in Ids : accounts[i] # NULL => StoredBy(i)
  /\ \A r \in Requests :
       /\ Inserting(r) \/ pc[r] = "insert" => req[r].op = "register" /\ req[r].password = r
       /\ pc[r] \in {"credential", "lock"} => req[r].op = "login"
       /\ Told(r) => /\ reply[r].id \in Ids /\ accounts[reply[r].id] # NULL
                     /\ Owner(reply[r].id) = r
       /\ pc[r] = "lock" => /\ id[r] \in Ids /\ accounts[id[r]] # NULL
                            /\ Owner(id[r]) = req[r].password
                            /\ accounts[id[r]].email = Email(r)
=============================================================================
