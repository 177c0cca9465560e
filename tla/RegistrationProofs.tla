------------------------- MODULE RegistrationProofs -------------------------
(***************************************************************************)
(* One account per address, honest refusals, and accounts open to those    *)
(* who registered them, for any addresses, spellings and requests.         *)
(***************************************************************************)
EXTENDS Registration, TLAPS

\* An empty table satisfies the invariant.
LEMMA InitRegistration == Init => RegistrationInv
<1> SUFFICES ASSUME Init PROVE RegistrationInv
  OBVIOUS
<1> USE DEF Init
<1>1. TypeOK
  BY MaxIdsAssumption DEF TypeOK
<1>2. IdsOwned
  BY DEF IdsOwned, Inserting
<1>3. EntriesUnique /\ OneAccountPerAddress
  BY DEF EntriesUnique, OneAccountPerAddress
<1>4. \A r \in Requests : reply[r].code = NULL
  OBVIOUS
<1>5. TakenIsTaken
  BY <1>4, NullAssumption DEF TakenIsTaken, Codes
<1> QED
  BY <1>1, <1>2, <1>3, <1>5 DEF RegistrationInv

\* The address of a request that has an input.
LEMMA EmailType ==
  ASSUME TypeOK, NEW r \in Requests, req[r] # NULL
  PROVE  /\ req[r] \in Request
         /\ Email(r) = Canonical[req[r].spelling]
         /\ Email(r) \in Spellings
         /\ Canonical[Email(r)] = Email(r)
  BY SpellingsAssumption DEF TypeOK, Request, Email

\* The commit of an INSERT, confirmed or not: the address was free, and no other
\* entry for it was undecided.
LEMMA StoreRegistration ==
  ASSUME RegistrationInv, NEW r \in Requests, Store(r),
         NEW code \in {"ok", "internal"}, NEW account \in Ids \cup {NULL},
         Finish(r, code, account)
  PROVE  RegistrationInv'
<1> DEFINE row == [email |-> Email(r), password |-> req[r].password, status |-> "active"]
<1> USE DEF RegistrationInv
<1>1. /\ pc[r] = "inserted" /\ req[r] # NULL /\ req[r] \in Request
      /\ Email(r) \in Spellings /\ Canonical[Email(r)] = Email(r)
      /\ id[r] \in Ids /\ id[r] \in 1 .. seq /\ accounts[id[r]] = NULL
  <2>1. TypeOK /\ pc[r] = "inserted" /\ Inserting(r)
    BY DEF Store, Inserting
  <2>2. req[r] # NULL /\ id[r] \in 1 .. seq /\ accounts[id[r]] = NULL
    BY <2>1 DEF IdsOwned
  <2>3. id[r] \in Ids
    BY <2>1, <2>2, MaxIdsAssumption DEF TypeOK, Ids
  <2> QED
    BY <2>1, <2>2, <2>3, EmailType
<1>2. /\ accounts' = [accounts EXCEPT ![id[r]] = row]
      /\ row \in Account /\ row # NULL
      /\ seq' = seq /\ req' = req
  BY <1>1, NullAssumption DEF Store, Account, Request
<1>3. /\ pc' = [pc EXCEPT ![r] = "done"]
      /\ id' = [id EXCEPT ![r] = NULL]
      /\ reply' = [reply EXCEPT ![r] = [code |-> code, id |-> account]]
  BY DEF Finish, Goto
<1> HIDE DEF row
<1>4. TypeOK'
  BY <1>1, <1>2, <1>3 DEF TypeOK, Codes
<1>5. IdsOwned'
  <2>1. \A q \in Requests : pc'[q] # "done" => pc'[q] = pc[q] /\ reply'[q] = reply[q]
    BY <1>3 DEF TypeOK
  <2> QED
    BY <1>1, <1>2, <1>3, <2>1 DEF TypeOK, IdsOwned, Inserting, Ids
<1>6. \A q \in Requests : Email(q)' = Email(q)
  BY <1>2 DEF Email
<1>7. row.email = Email(r)
  BY DEF row
<1>8. EntriesUnique'
  <2>1. \A i \in Ids : accounts'[i] # NULL => Canonical[accounts'[i].email] = accounts'[i].email
    BY <1>1, <1>2, <1>7 DEF TypeOK, EntriesUnique
  <2>2. ASSUME NEW q \in Requests, pc'[q] = "inserted"
        PROVE  ~ Taken(Email(q))'
    <3>1. q # r /\ pc[q] = "inserted" /\ Email(q) # Email(r) /\ ~ Taken(Email(q))
      BY <1>1, <1>3, <2>2 DEF TypeOK, EntriesUnique
    <3> QED
      BY <1>1, <1>2, <1>6, <1>7, <3>1 DEF Taken, TypeOK
  <2>3. \A p, q \in Requests :
          pc'[p] = "inserted" /\ pc'[q] = "inserted" /\ Email(p)' = Email(q)' => p = q
    BY <1>3, <1>6 DEF TypeOK, EntriesUnique
  <2> QED
    BY <2>1, <2>2, <2>3 DEF EntriesUnique
<1>9. OneAccountPerAddress'
  <2>1. \A i \in Ids : accounts[i] # NULL => accounts[i].email # Email(r)
    BY <1>1 DEF EntriesUnique, Taken
  <2>2. \A i \in Ids : i # id[r] => accounts'[i] = accounts[i]
    BY <1>2 DEF TypeOK
  <2>3. accounts'[id[r]].email = Email(r)
    BY <1>1, <1>2, <1>7 DEF TypeOK
  <2>4. \A i \in Ids : accounts[i] # NULL => Canonical[accounts[i].email] # Canonical[Email(r)]
    BY <1>1, <2>1 DEF EntriesUnique
  <2> QED
    BY <2>2, <2>3, <2>4 DEF OneAccountPerAddress
<1>10. TakenIsTaken'
  <2>1. \A q \in Requests : reply'[q].code = "taken" => reply'[q] = reply[q]
    BY <1>3 DEF TypeOK
  <2>2. \A i \in Ids : accounts[i] # NULL => accounts'[i] = accounts[i]
    BY <1>1, <1>2 DEF TypeOK
  <2> QED
    BY <1>2, <2>1, <2>2 DEF TakenIsTaken
<1> QED
  BY <1>4, <1>5, <1>8, <1>9, <1>10

\* A step that stores nothing, gives a request at most an input it did not
\* have, and lets none enter the index, keeps the index and the table right.
LEMMA TableKept ==
  ASSUME RegistrationInv, UNCHANGED accounts, TypeOK',
         \A q \in Requests : pc'[q] = "inserted" => pc[q] = "inserted" /\ req'[q] = req[q]
  PROVE  EntriesUnique' /\ OneAccountPerAddress'
<1> USE DEF RegistrationInv
<1>1. \A q \in Requests : pc'[q] = "inserted" => Email(q)' = Email(q)
  BY DEF Email
<1>2. \A q \in Requests : pc'[q] = "inserted" => ~ Taken(Email(q))'
  BY <1>1 DEF EntriesUnique, Taken
<1>3. \A p, q \in Requests :
        pc'[p] = "inserted" /\ pc'[q] = "inserted" /\ Email(p)' = Email(q)' => p = q
  BY <1>1 DEF EntriesUnique
<1>4. \A i \in Ids : accounts'[i] # NULL => Canonical[accounts'[i].email] = accounts'[i].email
  BY DEF EntriesUnique
<1>5. OneAccountPerAddress'
  BY DEF OneAccountPerAddress
<1> QED
  BY <1>2, <1>3, <1>4, <1>5 DEF EntriesUnique

\* A step that stores nothing and refuses nobody keeps the refusals true.
LEMMA RefusalsKept ==
  ASSUME TakenIsTaken, UNCHANGED accounts,
         \A q \in Requests :
           reply'[q].code = "taken" => reply'[q] = reply[q] /\ req'[q] = req[q]
  PROVE  TakenIsTaken'
  BY DEF TakenIsTaken

\* The input of a new request, and its first answer if it has one.
LEMMA ArriveRegistration ==
  ASSUME RegistrationInv, NEW r \in Requests, pc[r] = "new",
         NEW input \in Request, req' = [req EXCEPT ![r] = input],
         UNCHANGED <<accounts, seq>>,
         \/ \E stage \in {"insert", "credential"} : Goto(r, stage) /\ UNCHANGED <<id, reply>>
         \/ \E code \in Codes \ {"taken"}, i \in Ids \cup {NULL} : Finish(r, code, i)
  PROVE  RegistrationInv'
<1> USE DEF RegistrationInv
<1>1. input # NULL
  BY NullAssumption
<1>2. PICK code \in Codes \ {"taken"}, i \in Ids \cup {NULL},
           stage \in {"insert", "credential"} :
        \/ pc' = [pc EXCEPT ![r] = stage] /\ id' = id /\ reply' = reply
        \/ /\ pc' = [pc EXCEPT ![r] = "done"] /\ id' = [id EXCEPT ![r] = NULL]
           /\ reply' = [reply EXCEPT ![r] = [code |-> code, id |-> i]]
  BY DEF Goto, Finish, Codes
<1>3. TypeOK'
  <2>1. [code |-> code, id |-> i] \in [code : Codes \cup {NULL}, id : Ids \cup {NULL}]
    OBVIOUS
  <2>2. reply' \in [Requests -> [code : Codes \cup {NULL}, id : Ids \cup {NULL}]]
    BY <1>2, <2>1 DEF TypeOK
  <2>3. req' \in [Requests -> Request \cup {NULL}]
    BY DEF TypeOK
  <2>4. /\ pc' \in [Requests -> {"new", "insert", "index", "inserted",
                            "credential", "lock", "done"}]
        /\ id' \in [Requests -> Ids \cup {NULL}]
    BY <1>2 DEF TypeOK
  <2> QED
    BY <2>2, <2>3, <2>4 DEF TypeOK
<1>4. IdsOwned'
  <2>1. \A q \in Requests : Inserting(q)' => Inserting(q) /\ id'[q] = id[q]
    BY <1>2 DEF TypeOK, Inserting
  <2>2. \A q \in Requests : pc'[q] # "new" => req'[q] # NULL
    BY <1>1, <1>2 DEF TypeOK, IdsOwned
  <2>3. \A q \in Requests : pc'[q] # "done" => reply'[q] = reply[q] /\ pc[q] # "done"
    BY <1>2 DEF TypeOK
  <2> QED
    BY <2>1, <2>2, <2>3 DEF IdsOwned
<1>5. EntriesUnique' /\ OneAccountPerAddress'
  BY <1>2, <1>3, TableKept DEF TypeOK
<1>6. \A q \in Requests : reply'[q].code = "taken" => q # r \/ reply' = reply
  BY <1>2 DEF TypeOK
<1>7. reply[r].code # "taken"
  BY NullAssumption DEF IdsOwned, Codes
<1>8. TakenIsTaken'
  BY <1>2, <1>6, <1>7, RefusalsKept DEF TypeOK
<1> QED
  BY <1>3, <1>4, <1>5, <1>8

\* A request that has an input moves on without storing anything.
LEMMA MoveRegistration ==
  ASSUME RegistrationInv, NEW r \in Requests,
         UNCHANGED <<accounts, seq, req>>, req[r] # NULL,
         \/ /\ pc[r] = "index" /\ ~ Taken(Email(r)) /\ Undecided(r) = {}
            /\ Goto(r, "inserted") /\ UNCHANGED <<id, reply>>
         \/ /\ pc[r] = "index" /\ Taken(Email(r)) /\ Finish(r, "taken", NULL)
         \/ /\ pc[r] = "credential" /\ Goto(r, "lock") /\ UNCHANGED reply
            /\ \E i \in Ids : id' = [id EXCEPT ![r] = i]
         \/ /\ pc[r] # "new"
            /\ \E code \in Codes \ {"taken"}, i \in Ids \cup {NULL} : Finish(r, code, i)
  PROVE  RegistrationInv'
<1> USE DEF RegistrationInv
<1>1. \A q \in Requests : Email(q)' = Email(q)
  BY DEF Email
<1>2. CASE /\ pc[r] = "index" /\ ~ Taken(Email(r)) /\ Undecided(r) = {}
           /\ Goto(r, "inserted") /\ UNCHANGED <<id, reply>>
  <2>1. TypeOK'
    BY <1>2 DEF TypeOK, Goto
  <2>2. IdsOwned'
    BY <1>2 DEF TypeOK, Goto, IdsOwned, Inserting
  <2>3. \A q \in Requests : pc'[q] = "inserted" => q = r \/ pc[q] = "inserted"
    BY <1>2 DEF TypeOK, Goto
  <2>4. \A q \in Requests : pc[q] = "inserted" /\ Email(q) = Email(r) => q = r
    BY <1>2 DEF Undecided
  <2>5. \A q \in Requests : pc'[q] = "inserted" => ~ Taken(Email(q))'
    BY <1>1, <1>2, <2>3 DEF EntriesUnique, Taken
  <2>6. \A p, q \in Requests :
          pc'[p] = "inserted" /\ pc'[q] = "inserted" /\ Email(p)' = Email(q)' => p = q
    BY <1>1, <2>3, <2>4 DEF EntriesUnique
  <2>7. EntriesUnique' /\ OneAccountPerAddress'
    BY <2>5, <2>6 DEF EntriesUnique, OneAccountPerAddress
  <2> QED
    BY <1>2, <2>1, <2>2, <2>7, RefusalsKept
<1>3. ASSUME NEW code \in Codes, NEW account \in Ids \cup {NULL}, Finish(r, code, account),
             pc[r] # "new", code = "taken" => Taken(Email(r))
      PROVE  RegistrationInv'
  <2>1. /\ pc' = [pc EXCEPT ![r] = "done"] /\ id' = [id EXCEPT ![r] = NULL]
        /\ reply' = [reply EXCEPT ![r] = [code |-> code, id |-> account]]
    BY <1>3 DEF Finish, Goto
  <2>2. TypeOK'
    <3>1. reply' \in [Requests -> [code : Codes \cup {NULL}, id : Ids \cup {NULL}]]
      BY <2>1 DEF TypeOK
    <3> QED
      BY <2>1, <3>1 DEF TypeOK
  <2>3. IdsOwned'
    <3>1. \A q \in Requests : pc'[q] # "done" => pc'[q] = pc[q] /\ reply'[q] = reply[q]
      BY <2>1 DEF TypeOK
    <3> QED
      BY <1>3, <2>1, <3>1 DEF TypeOK, IdsOwned, Inserting
  <2>4. EntriesUnique' /\ OneAccountPerAddress'
    BY <2>1, <2>2, TableKept DEF TypeOK
  <2>5. \A q \in Requests : reply'[q].code = "taken" => reply'[q] = reply[q] \/ (q = r /\ code = "taken")
    BY <2>1 DEF TypeOK
  <2>6. Email(r) = Canonical[req[r].spelling]
    BY DEF Email
  <2>7. TakenIsTaken'
    BY <1>3, <2>5, <2>6 DEF TakenIsTaken, Taken
  <2> QED
    BY <2>2, <2>3, <2>4, <2>7
<1>4. CASE pc[r] = "credential" /\ Goto(r, "lock") /\ UNCHANGED reply
           /\ \E i \in Ids : id' = [id EXCEPT ![r] = i]
  <2>1. TypeOK'
    BY <1>4 DEF TypeOK, Goto
  <2>2. \A q \in Requests : Inserting(q)' => Inserting(q) /\ id'[q] = id[q]
    BY <1>4 DEF TypeOK, Goto, Inserting
  <2>3. IdsOwned'
    BY <1>4, <2>2 DEF TypeOK, Goto, IdsOwned
  <2>4. EntriesUnique' /\ OneAccountPerAddress'
    BY <1>4, <2>1, TableKept DEF TypeOK, Goto
  <2> QED
    BY <1>4, <2>1, <2>3, <2>4, RefusalsKept
<1>5. "taken" \in Codes
  BY DEF Codes
<1> QED
  BY <1>2, <1>3, <1>4, <1>5

\* DrawId: the id drawn is new, and belongs to no other INSERT.
LEMMA DrawIdRegistration ==
  ASSUME RegistrationInv, NEW r \in Requests, DrawId(r)
  PROVE  RegistrationInv'
<1> USE DEF RegistrationInv
<1>1. /\ pc[r] = "insert" /\ seq < MaxIds /\ seq' = seq + 1 /\ seq + 1 \in Ids
      /\ id' = [id EXCEPT ![r] = seq + 1] /\ pc' = [pc EXCEPT ![r] = "index"]
      /\ UNCHANGED <<accounts, req, reply>>
  BY MaxIdsAssumption DEF DrawId, Goto, TypeOK, Ids
<1>2. TypeOK'
  <2>1. seq' \in 0 .. MaxIds
    BY <1>1, MaxIdsAssumption DEF TypeOK
  <2> QED
    BY <1>1, <2>1 DEF TypeOK
<1>3. IdsOwned'
  <2>1. \A i \in Ids : i > seq' => accounts'[i] = NULL
    BY <1>1, MaxIdsAssumption DEF TypeOK, IdsOwned, Ids
  <2>2. \A q \in Requests : Inserting(q)' => q = r \/ (Inserting(q) /\ id'[q] = id[q])
    BY <1>1 DEF TypeOK, Inserting
  <2>3. id'[r] = seq + 1 /\ accounts[seq + 1] = NULL
    BY <1>1, MaxIdsAssumption DEF TypeOK, IdsOwned, Ids
  <2>4. \A q \in Requests : Inserting(q)' => id'[q] \in 1 .. seq' /\ accounts'[id'[q]] = NULL
    BY <1>1, <2>2, <2>3, MaxIdsAssumption DEF TypeOK, IdsOwned
  <2>5. \A p, q \in Requests : Inserting(p)' /\ Inserting(q)' /\ id'[p] = id'[q] => p = q
    <3>1. \A q \in Requests : Inserting(q) => id[q] # seq + 1
      BY MaxIdsAssumption DEF TypeOK, IdsOwned
    <3> QED
      BY <2>2, <2>3, <3>1 DEF IdsOwned
  <2>6. \A q \in Requests : /\ pc'[q] # "new" => req'[q] # NULL
                            /\ pc'[q] # "done" => reply'[q].code = NULL
    BY <1>1 DEF TypeOK, IdsOwned
  <2> QED
    BY <2>1, <2>4, <2>5, <2>6 DEF IdsOwned
<1>4. EntriesUnique' /\ OneAccountPerAddress'
  BY <1>1, <1>2, TableKept DEF TypeOK
<1>5. TakenIsTaken'
  BY <1>1, RefusalsKept
<1> QED
  BY <1>2, <1>3, <1>4, <1>5

\* DeleteMe and ChangeUserStatus: the row and its address stay.
LEMMA ModerateRegistration ==
  ASSUME RegistrationInv, NEW i \in Ids, NEW status \in {"active", "banned"},
         DeleteMe(i) \/ SetStatus(i, status)
  PROVE  RegistrationInv'
<1> USE DEF RegistrationInv
<1>1. PICK new \in {"active", "banned", "deleted"} :
        /\ accounts[i] # NULL /\ accounts' = [accounts EXCEPT ![i].status = new]
        /\ UNCHANGED <<seq, pc, req, id, reply>>
  BY DEF DeleteMe, SetStatus
<1>2. /\ accounts'[i] \in Account /\ accounts'[i] # NULL
      /\ accounts'[i].email = accounts[i].email
      /\ \A j \in Ids : j # i => accounts'[j] = accounts[j]
  BY <1>1, NullAssumption DEF TypeOK, Account
<1>3. TypeOK'
  BY <1>1, <1>2 DEF TypeOK
<1>4. IdsOwned'
  <2>1. \A j \in Ids : accounts[j] = NULL => accounts'[j] = NULL
    BY <1>1, <1>2
  <2>2. \A r \in Requests : id'[r] \in 1 .. seq' => id'[r] \in Ids
    BY <1>1, MaxIdsAssumption DEF TypeOK, Ids
  <2> QED
    BY <1>1, <2>1, <2>2 DEF IdsOwned, Inserting
<1>5. \A j \in Ids : /\ accounts'[j] # NULL <=> accounts[j] # NULL
                     /\ accounts[j] # NULL => accounts'[j].email = accounts[j].email
  BY <1>1, <1>2
<1>6. \A e : Taken(e)' <=> Taken(e)
  BY <1>5 DEF Taken
<1>7. \A r \in Requests : Email(r)' = Email(r)
  BY <1>1 DEF Email
<1>8. EntriesUnique'
  <2>1. \A r \in Requests : pc'[r] = "inserted" => ~ Taken(Email(r))'
    BY <1>1, <1>5, <1>7 DEF EntriesUnique, Taken
  <2> QED
    BY <1>1, <1>5, <1>7, <2>1 DEF EntriesUnique
<1>9. OneAccountPerAddress'
  BY <1>5 DEF OneAccountPerAddress
<1>10. TakenIsTaken'
  BY <1>1, <1>5 DEF TakenIsTaken
<1> QED
  BY <1>3, <1>4, <1>8, <1>9, <1>10

\* Every step keeps the invariant.
LEMMA NextRegistration == RegistrationInv /\ [Next]_vars => RegistrationInv'
<1> SUFFICES ASSUME RegistrationInv, [Next]_vars
             PROVE  RegistrationInv'
  OBVIOUS
<1>1. ASSUME NEW r \in Requests, NEW s \in Spellings, Register(r, s)
      PROVE  RegistrationInv'
  <2> DEFINE input == [op |-> "register", spelling |-> s, password |-> r]
  <2>1. input \in Request
    BY DEF Request
  <2>2. \/ Goto(r, "insert") /\ UNCHANGED <<id, reply>>
        \/ Finish(r, "invalid", NULL)
    BY <1>1 DEF Register
  <2>3. /\ pc[r] = "new" /\ req' = [req EXCEPT ![r] = input]
        /\ UNCHANGED <<accounts, seq>>
    BY <1>1 DEF Register
  <2>4. "invalid" \in Codes \ {"taken"}
    BY DEF Codes
  <2> QED
    BY <2>1, <2>2, <2>3, <2>4, ArriveRegistration
<1>2. ASSUME NEW r \in Requests, NEW s \in Spellings, NEW p \in Requests, Login(r, s, p)
      PROVE  RegistrationInv'
  <2> DEFINE input == [op |-> "login", spelling |-> s, password |-> p]
  <2>1. input \in Request
    BY DEF Request
  <2>2. Goto(r, "credential") /\ UNCHANGED <<id, reply>>
    BY <1>2 DEF Login
  <2>3. /\ pc[r] = "new" /\ req' = [req EXCEPT ![r] = input]
        /\ UNCHANGED <<accounts, seq>>
    BY <1>2 DEF Login
  <2> QED
    BY <2>1, <2>2, <2>3, ArriveRegistration
<1>3. ASSUME NEW r \in Requests, EnterIndex(r) \/ FindCredential(r) \/ LoginTx(r) \/ Cut(r)
      PROVE  RegistrationInv'
  <2>1. pc[r] # "new" /\ UNCHANGED <<accounts, seq, req>>
    BY <1>3 DEF EnterIndex, FindCredential, LoginTx, Cut
  <2>2. req[r] # NULL /\ id[r] \in Ids \cup {NULL}
    BY <2>1 DEF RegistrationInv, IdsOwned, TypeOK
  <2>3. CASE EnterIndex(r)
    BY <2>1, <2>2, <2>3, MoveRegistration DEF EnterIndex
  <2>4. CASE LoginTx(r) \/ Cut(r)
    <3>1. \E code \in Codes \ {"taken"}, i \in Ids \cup {NULL} : Finish(r, code, i)
      BY <2>2, <2>4 DEF LoginTx, Cut, Codes
    <3> QED
      BY <2>1, <2>2, <3>1, MoveRegistration
  <2>5. CASE FindCredential(r)
    <3>1. "credentials" \in Codes \ {"taken"}
      BY DEF Codes
    <3>2. \/ Finish(r, "credentials", NULL)
          \/ /\ Goto(r, "lock") /\ UNCHANGED reply
             /\ \E i \in Ids : id' = [id EXCEPT ![r] = i]
      BY <2>5 DEF FindCredential, Credential
    <3>3. pc[r] = "credential"
      BY <2>5 DEF FindCredential
    <3> QED
      BY <2>1, <2>2, <3>1, <3>2, <3>3, MoveRegistration
  <2> QED
    BY <1>3, <2>3, <2>4, <2>5
<1>4. ASSUME NEW r \in Requests, Commit(r) \/ CommitUnconfirmed(r)
      PROVE  RegistrationInv'
  <2>1. id[r] \in Ids \cup {NULL}
    BY DEF RegistrationInv, TypeOK
  <2> QED
    BY <1>4, <2>1, StoreRegistration DEF Commit, CommitUnconfirmed
<1>5. CASE UNCHANGED vars
  BY <1>5 DEF vars, RegistrationInv, TypeOK, IdsOwned, Inserting, EntriesUnique,
              OneAccountPerAddress, TakenIsTaken, Taken, Email
<1> QED
  BY <1>1, <1>2, <1>3, <1>4, <1>5, DrawIdRegistration, ModerateRegistration
     DEF Next, Answered

(***************************************************************************)
(* The invariant holds in every reachable state.                           *)
(***************************************************************************)
THEOREM RegistrationInvariant == Spec => []RegistrationInv
  BY InitRegistration, NextRegistration, PTL DEF Spec

(***************************************************************************)
(* One account per address, for any clients that race or retry Register.   *)
(***************************************************************************)
THEOREM AddressesUnique == Spec => []OneAccountPerAddress
<1>1. RegistrationInv => OneAccountPerAddress
  BY DEF RegistrationInv
<1> QED
  BY <1>1, RegistrationInvariant, PTL

(***************************************************************************)
(* ErrEmailAlreadyRegistered is told only of an address an account has.    *)
(***************************************************************************)
THEOREM RefusalsTrue == Spec => []TakenIsTaken
<1>1. RegistrationInv => TakenIsTaken
  BY DEF RegistrationInv
<1> QED
  BY <1>1, RegistrationInvariant, PTL

(***************************************************************************)
(* The table, the requests and their answers always have their types.      *)
(***************************************************************************)
THEOREM RegistrationTyped == Spec => []TypeOK
<1>1. RegistrationInv => TypeOK
  BY DEF RegistrationInv
<1> QED
  BY <1>1, RegistrationInvariant, PTL

-----------------------------------------------------------------------------
\* A row, once stored, keeps its address and its password.
RowsStay ==
  \A i \in Ids : accounts[i] # NULL =>
    /\ accounts'[i] # NULL
    /\ accounts'[i].email = accounts[i].email
    /\ accounts'[i].password = accounts[i].password

\* What Stored says of one request.
Behaves(r) ==
  /\ Inserting(r) \/ pc[r] = "insert" => req[r].op = "register" /\ req[r].password = r
  /\ pc[r] \in {"credential", "lock"} => req[r].op = "login"
  /\ Told(r) => /\ reply[r].id \in Ids /\ accounts[reply[r].id] # NULL
                /\ Owner(reply[r].id) = r
  /\ pc[r] = "lock" => /\ id[r] \in Ids /\ accounts[id[r]] # NULL
                       /\ Owner(id[r]) = req[r].password
                       /\ accounts[id[r]].email = Email(r)

\* A step of the requests in moving, which are under way, keeps Stored if the
\* rows stay, every new one has its owner, and the movers behave.
LEMMA StoredKept ==
  ASSUME TypeOK, Stored, RowsStay,
         \A i \in Ids : accounts'[i] # NULL => accounts[i] # NULL \/ StoredBy(i)',
         NEW moving \in SUBSET Requests,
         \A r \in moving : pc[r] # "done" /\ Behaves(r)',
         \A q \in Requests \ moving :
           pc'[q] = pc[q] /\ req'[q] = req[q] /\ id'[q] = id[q] /\ reply'[q] = reply[q]
  PROVE  Stored'
<1>1. ASSUME NEW i \in Ids, accounts'[i] # NULL
      PROVE  StoredBy(i)'
  <2>1. CASE accounts[i] # NULL
    <3>1. StoredBy(i) /\ Owner(i) \in Requests /\ Owner(i)' = Owner(i)
      BY <2>1, NullAssumption DEF Stored, TypeOK, Account, Owner, RowsStay
    <3>2. Owner(i) \in Requests \ moving
      BY <3>1 DEF StoredBy
    <3> QED
      BY <2>1, <3>1, <3>2 DEF StoredBy, RowsStay, Email
  <2> QED
    BY <1>1, <2>1
<1>2. ASSUME NEW q \in Requests
      PROVE  Behaves(q)'
  <2>1. CASE q \in Requests \ moving
    <3>1. Behaves(q)
      BY DEF Stored, Behaves
    <3>2. /\ Inserting(q)' = Inserting(q) /\ Told(q)' = Told(q) /\ Email(q)' = Email(q)
      BY <2>1 DEF Inserting, Told, Email
    <3> QED
      BY <2>1, <3>1, <3>2 DEF Behaves, RowsStay, Owner
  <2> QED
    BY <2>1
<1> QED
  BY <1>1, <1>2 DEF Stored, Behaves

\* Every step keeps Stored.
LEMMA StoredStep == RegistrationInv /\ Stored /\ [Next]_vars => Stored'
<1> SUFFICES ASSUME TypeOK, IdsOwned, Stored, [Next]_vars
             PROVE  Stored'
  BY DEF RegistrationInv
<1>0. ASSUME NEW r \in Requests PROVE Behaves(r)
  BY DEF Stored, Behaves
<1>1. ASSUME NEW r \in Requests, Store(r), NEW code \in {"ok", "internal"}, NEW account,
             code = "ok" => account = id[r], Finish(r, code, account)
      PROVE  Stored'
  <2>1. /\ pc[r] = "inserted" /\ req[r] # NULL /\ id[r] \in Ids /\ accounts[id[r]] = NULL
        /\ req[r].op = "register" /\ req[r].password = r
    BY <1>0, <1>1, MaxIdsAssumption DEF Store, IdsOwned, Inserting, TypeOK, Ids, Behaves
  <2> DEFINE row == [email |-> Email(r), password |-> req[r].password, status |-> "active"]
  <2>2. /\ accounts' = [accounts EXCEPT ![id[r]] = row] /\ req' = req
        /\ pc' = [pc EXCEPT ![r] = "done"] /\ id' = [id EXCEPT ![r] = NULL]
        /\ reply' = [reply EXCEPT ![r] = [code |-> code, id |-> account]]
    BY <1>1 DEF Store, Finish, Goto
  <2>3. row \in Account /\ row # NULL
    BY <2>1, EmailType, NullAssumption DEF Account, Request
  <2>4. row.email = Email(r) /\ row.password = r
    BY <2>1
  <2> HIDE DEF row
  <2>5. accounts'[id[r]] = row /\ \A i \in Ids : i # id[r] => accounts'[i] = accounts[i]
    BY <2>1, <2>2 DEF TypeOK
  <2>6. RowsStay
    BY <2>1, <2>5 DEF RowsStay
  <2>7. pc'[r] = "done" /\ reply'[r] = [code |-> code, id |-> account]
    BY <2>2 DEF TypeOK
  <2>8. ASSUME NEW i \in Ids, i = id[r]
        PROVE  StoredBy(i)'
    <3>1. Email(r)' = Email(r)
      BY <2>2 DEF Email
    <3>2. accounts'[i].password = r /\ accounts'[i].email = Email(r)'
      BY <2>4, <2>5, <2>8, <3>1
    <3>3. pc'[r] = "done" /\ req'[r] # NULL /\ req'[r].op = "register"
      BY <2>1, <2>2, <2>7
    <3> QED
      BY <3>2, <3>3 DEF StoredBy, Owner
  <2>9. Behaves(r)'
    <3>1. Told(r)' => code = "ok" /\ reply'[r].id = id[r]
      BY <1>1, <2>7 DEF Told
    <3> QED
      BY <2>1, <2>3, <2>4, <2>5, <2>7, <3>1 DEF Behaves, Inserting, Owner
  <2>10. \A i \in Ids : accounts'[i] # NULL => accounts[i] # NULL \/ StoredBy(i)'
    BY <2>5, <2>8
  <2>11. \A q \in Requests \ {r} :
           pc'[q] = pc[q] /\ req'[q] = req[q] /\ id'[q] = id[q] /\ reply'[q] = reply[q]
    BY <2>2 DEF TypeOK
  <2>12. {r} \in SUBSET Requests /\ \A q \in {r} : pc[q] # "done" /\ Behaves(q)'
    BY <2>1, <2>9
  <2> QED
    BY <2>6, <2>10, <2>11, <2>12, StoredKept
<1>2. ASSUME NEW r \in Requests, UNCHANGED accounts, pc[r] # "done", Behaves(r)',
             \A q \in Requests \ {r} :
               pc'[q] = pc[q] /\ req'[q] = req[q] /\ id'[q] = id[q] /\ reply'[q] = reply[q]
      PROVE  Stored'
  <2>1. RowsStay BY <1>2 DEF RowsStay
  <2>2. {r} \in SUBSET Requests /\ \A q \in {r} : pc[q] # "done" /\ Behaves(q)'
    BY <1>2
  <2> QED BY <1>2, <2>1, <2>2, StoredKept
<1>3. ASSUME NEW r \in Requests, NEW s \in Spellings, Register(r, s) PROVE Stored'
  <2>1. \/ pc'[r] = "insert"
        \/ pc'[r] = "done" /\ reply'[r].code = "invalid"
    BY <1>3 DEF Register, Goto, Finish, TypeOK
  <2>2. req'[r].op = "register" /\ req'[r].password = r
    BY <1>3 DEF Register, TypeOK
  <2>3. Behaves(r)' BY <2>1, <2>2 DEF Behaves, Inserting, Told
  <2> QED BY <1>2, <1>3, <2>3 DEF Register, Goto, Finish, TypeOK
<1>4. ASSUME NEW r \in Requests, NEW s \in Spellings, NEW p \in Requests, Login(r, s, p)
      PROVE  Stored'
  <2>1. req'[r].op = "login" /\ pc'[r] = "credential" BY <1>4 DEF Login, Goto, TypeOK
  <2>2. Behaves(r)' BY <2>1 DEF Behaves, Inserting, Told
  <2> QED BY <1>2, <1>4, <2>2 DEF Login, Goto, TypeOK
<1>5. ASSUME NEW r \in Requests, DrawId(r) \/ EnterIndex(r) \/ Cut(r) PROVE Stored'
  <2>1. \/ pc[r] \in {"insert", "index"} /\ pc'[r] \in {"index", "inserted"}
        \/ pc'[r] = "done" /\ reply'[r].code \in {"taken", "internal"}
    BY <1>5 DEF DrawId, EnterIndex, Cut, Goto, Finish, TypeOK
  <2>2. req' = req /\ pc[r] # "done" BY <1>5 DEF DrawId, EnterIndex, Cut
  <2>3. Behaves(r)' BY <1>0, <2>1, <2>2 DEF Behaves, Inserting, Told
  <2> QED BY <1>2, <1>5, <2>2, <2>3 DEF DrawId, EnterIndex, Cut, Goto, Finish, TypeOK
<1>6. ASSUME NEW r \in Requests, Commit(r) \/ CommitUnconfirmed(r) PROVE Stored'
  BY <1>1, <1>6 DEF Commit, CommitUnconfirmed
<1>7. ASSUME NEW r \in Requests, FindCredential(r) PROVE Stored'
  <2>1. req' = req /\ pc[r] = "credential" /\ UNCHANGED accounts BY <1>7 DEF FindCredential
  <2>2. req[r].op = "login" BY <1>0, <2>1 DEF Behaves
  <2>3. CASE Finish(r, "credentials", NULL)
    <3>1. pc'[r] = "done" BY <2>3 DEF Finish, Goto, TypeOK
    <3>2. Behaves(r)' BY <2>1, <2>2, <3>1 DEF Behaves, Inserting, Told
    <3> QED BY <1>2, <2>1, <2>3, <3>2 DEF Finish, Goto, TypeOK
  <2>4. CASE Goto(r, "lock") /\ UNCHANGED reply
    <3>1. PICK i \in Credential(Email(r), req[r].password) : id' = [id EXCEPT ![r] = i]
      BY <1>7, <2>4 DEF FindCredential, Finish, Goto, TypeOK
    <3>2. pc'[r] = "lock" /\ id'[r] = i /\ i \in Ids
      BY <2>4, <3>1 DEF Goto, TypeOK, Credential
    <3>3. Behaves(r)'
      BY <2>1, <2>2, <3>1, <3>2 DEF Behaves, Inserting, Told, Credential, Owner, Email
    <3> QED BY <1>2, <2>1, <2>4, <3>1, <3>3 DEF Goto, TypeOK
  <2> QED BY <1>7, <2>3, <2>4 DEF FindCredential
<1>8. ASSUME NEW r \in Requests, LoginTx(r) PROVE Stored'
  <2>1. /\ req' = req /\ pc[r] = "lock" /\ UNCHANGED accounts
        /\ \E code \in {"ok", "credentials"}, i \in {NULL, id[r]} : Finish(r, code, i)
    BY <1>8 DEF LoginTx
  <2>2. req[r].op = "login" BY <1>0, <2>1 DEF Behaves
  <2>3. pc'[r] = "done" BY <2>1 DEF Finish, Goto, TypeOK
  <2>4. Behaves(r)' BY <2>1, <2>2, <2>3 DEF Behaves, Inserting, Told
  <2> QED BY <1>2, <2>1, <2>4 DEF Finish, Goto, TypeOK
<1>9. ASSUME NEW i \in Ids, NEW status \in {"active", "banned"}, DeleteMe(i) \/ SetStatus(i, status)
      PROVE  Stored'
  <2>1. PICK new \in {"active", "banned", "deleted"} :
          /\ accounts' = [accounts EXCEPT ![i].status = new] /\ accounts[i] \in Account
          /\ pc' = pc /\ req' = req /\ id' = id /\ reply' = reply
    BY <1>9 DEF DeleteMe, SetStatus, TypeOK
  <2>2. accounts'[i] \in Account /\ accounts'[i] # NULL
    BY <2>1, NullAssumption DEF TypeOK, Account
  <2>3. RowsStay BY <2>1, <2>2 DEF RowsStay, TypeOK, Account
  <2>4. \A j \in Ids : accounts'[j] # NULL => accounts[j] # NULL
    BY <2>1, NullAssumption DEF TypeOK
  <2>5. {} \in SUBSET Requests OBVIOUS
  <2> QED BY <2>1, <2>3, <2>4, <2>5, StoredKept
<1>10. CASE UNCHANGED vars
  <2>1. RowsStay BY <1>10 DEF vars, RowsStay
  <2>2. {} \in SUBSET Requests OBVIOUS
  <2> QED BY <1>10, <2>1, <2>2, StoredKept DEF vars
<1> QED
  BY <1>3, <1>4, <1>5, <1>6, <1>7, <1>8, <1>9, <1>10 DEF Next, Answered

\* No account exists at the start, and nobody has asked for one.
LEMMA StoredInit == Init => Stored
  BY DEF Init, Stored, Told, Inserting

\* The account that a registration made is found under its address only.
LEMMA MadeAccount ==
  ASSUME RegistrationInv, Stored, NEW q \in Requests, NEW i \in Ids, Made(q, i)
  PROVE  accounts[i] # NULL /\ Owner(i) = q /\ accounts[i].email = Email(q)
<1>1. accounts[i] # NULL /\ Owner(i) = q
  BY DEF Made, Unconfirmed, Stored, Owner
<1> QED
  BY <1>1 DEF Stored, StoredBy

(***************************************************************************)
(* Whoever registered, whether or not the answer arrived, is let in to the *)
(* account that was made, under any spelling of its address, while it is   *)
(* active, and is refused only while it is banned or deleted, internal     *)
(* errors aside (Register, Login and NormalizeEmail between them).         *)
(***************************************************************************)
THEOREM OwnersCanLogin == Spec => RegisteredCanLogin
<1> DEFINE Answers ==
      \A q, r \in Requests, i \in Ids :
        /\ Made(q, i)
        /\ pc[r] \in {"credential", "lock"} /\ pc'[r] = "done"
        /\ req[r].password = q /\ Email(r) = Email(q)
        => \/ reply'[r] = [code |-> "ok", id |-> i] /\ accounts[i].status = "active"
           \/ reply'[r].code = "credentials" /\ accounts[i].status # "active"
           \/ reply'[r].code = "internal"
<1>1. ASSUME RegistrationInv, Stored, [Next]_vars PROVE Answers
  <2> SUFFICES ASSUME NEW q \in Requests, NEW r \in Requests, NEW i \in Ids, Made(q, i),
                      pc[r] \in {"credential", "lock"}, pc'[r] = "done",
                      req[r].password = q, Email(r) = Email(q)
               PROVE  \/ reply'[r] = [code |-> "ok", id |-> i] /\ accounts[i].status = "active"
                      \/ reply'[r].code = "credentials" /\ accounts[i].status # "active"
                      \/ reply'[r].code = "internal"
    OBVIOUS
  <2>0. TypeOK BY <1>1 DEF RegistrationInv
  <2>1. accounts[i] # NULL /\ Owner(i) = q /\ accounts[i].email = Email(r)
    BY <1>1, MadeAccount
  <2>2. FindCredential(r) \/ LoginTx(r) \/ Cut(r)
    <3>1. ASSUME NEW other \in Requests, NEW stage, Goto(other, stage)
          PROVE  other = r
      BY <2>0, <3>1 DEF Goto, TypeOK
    <3>2. ASSUME NEW other \in Requests,
                 \/ \E s \in Spellings : Register(other, s)
                 \/ \E s \in Spellings, p \in Requests : Login(other, s, p)
                 \/ DrawId(other) \/ EnterIndex(other) \/ Commit(other) \/ CommitUnconfirmed(other)
          PROVE  FALSE
      <4>1. pc[other] \notin {"credential", "lock"}
        BY <3>2 DEF Register, Login, DrawId, EnterIndex, Commit, CommitUnconfirmed, Store
      <4>2. \E stage : Goto(other, stage)
        BY <3>2 DEF Register, Login, DrawId, EnterIndex, Commit, CommitUnconfirmed, Finish
      <4> QED BY <3>1, <4>1, <4>2
    <3>3. ASSUME NEW other \in Requests, FindCredential(other) \/ LoginTx(other) \/ Cut(other)
          PROVE  other = r
      <4>1. \E stage : Goto(other, stage)
        BY <3>3 DEF FindCredential, LoginTx, Cut, Finish
      <4> QED BY <3>1, <4>1
    <3>4. (\E j \in Ids : DeleteMe(j) \/ \E status \in {"active", "banned"} : SetStatus(j, status))
          \/ Answered \/ UNCHANGED vars => pc' = pc
      BY DEF DeleteMe, SetStatus, Answered, vars
    <3>5. pc' # pc OBVIOUS
    <3> QED BY <1>1, <3>2, <3>3, <3>4, <3>5 DEF Next
  <2>3. CASE FindCredential(r)
    <3>1. Credential(Email(r), req[r].password) = {} /\ Finish(r, "credentials", NULL)
      BY <2>0, <2>3 DEF FindCredential, Goto, TypeOK
    <3>2. accounts[i].status # "active" BY <2>1, <3>1 DEF Credential, Owner
    <3> QED BY <2>0, <3>1, <3>2 DEF Finish, TypeOK
  <2>4. CASE LoginTx(r)
    <3>1. pc[r] = "lock" BY <2>4 DEF LoginTx
    <3>2. id[r] \in Ids /\ accounts[id[r]] # NULL /\ accounts[id[r]].email = Email(r)
      BY <1>1, <3>1 DEF Stored
    <3>3. id[r] = i
      BY <1>1, <2>1, <3>2 DEF RegistrationInv, OneAccountPerAddress
    <3> QED BY <2>0, <2>4, <3>3 DEF LoginTx, Finish, TypeOK
  <2>5. CASE Cut(r)
    BY <2>0, <2>5 DEF Cut, Finish, TypeOK
  <2> QED BY <2>2, <2>3, <2>4, <2>5
<1>2. RegistrationInv /\ Stored /\ [Next]_vars => [Answers]_vars BY <1>1
<1> QED
  BY <1>2, StoredInit, StoredStep, RegistrationInvariant, PTL DEF Spec, RegisteredCanLogin
=============================================================================
