------------------------------ MODULE PrimaryRecords ------------------------------
(***************************************************************************)
(* The bank accounts and the emergency contacts of the employee-service,   *)
(* and the flag isPrimary on them.  BankAccountService and                 *)
(* EmergencyContactService check a request against the rows they read,     *)
(* clear the flag of the other rows, and then write their own row, in      *)
(* separate statements and with no transaction around them.                *)
(*                                                                         *)
(* Both kinds of record are rows here; the fields beside the owner and the *)
(* flag are left out, so updateBankAccount, which writes only those, has   *)
(* nothing to change.                                                      *)
(***************************************************************************)
EXTENDS Integers, FiniteSets

CONSTANTS
  Employees, Tenants,
  TenantOf,    \* the tenant of each employee: no operation changes it
  Ids,         \* ids of rows; each is used for one kind of record
  KindOf,      \* "bank" or "contact"
  Requests,    \* slots for gRPC requests in flight
  NoOne,       \* no employee
  NoId         \* no row yet

Kinds == {"bank", "contact"}

ASSUME TenantOfAssumption == TenantOf \in [Employees -> Tenants]
ASSUME KindOfAssumption == KindOf \in [Ids -> Kinds]
ASSUME NoOneAssumption == NoOne \notin Employees /\ NoId \notin Ids

VARIABLES
  owner,      \* the employee of each row, or NoOne before it is created
  deleted,    \* rows that are gone: a uuid is not used again
  primary,    \* the rows with isPrimary
  req,        \* requests in flight
  raced       \* history: <<employee, kind>> whose writers have overlapped

vars == <<owner, deleted, primary, req, raced>>
--------------------------------------------------------------------------------
Rows == {i \in Ids : owner[i] # NoOne /\ i \notin deleted}

RowsOf(e, k) == {i \in Rows : owner[i] = e /\ KindOf[i] = k}

\* op is what remains to be written: "add" a row, set the flag of one ("flag"),
\* clear it ("unflag"), or "delete" it; clear says that the flags of the other
\* rows are still to be cleared.
Idle == [op |-> "none", clear |-> FALSE, emp |-> NoOne, kind |-> "bank",
         id |-> NoId, primary |-> FALSE, tenant |-> NoOne, alone |-> TRUE]

\* A request that has passed its checks; with flag it clears the flags first.
Wants(op, e, tenant, k, id, flag) ==
  [op |-> op, clear |-> flag, emp |-> e, kind |-> k, id |-> id, primary |-> flag,
   tenant |-> tenant, alone |-> TRUE]

Request == [op : {"none", "add", "flag", "unflag", "delete"}, clear : BOOLEAN,
            emp : Employees \cup {NoOne}, kind : Kinds, id : Ids \cup {NoId},
            primary : BOOLEAN, tenant : Tenants \cup {NoOne}, alone : BOOLEAN]

Init ==
  /\ owner = [i \in Ids |-> NoOne]
  /\ deleted = {} /\ primary = {}
  /\ req = [r \in Requests |-> Idle]
  /\ raced = {}

\* Mutant: any row of the id will do, whoever owns it.
Owns_AnyEmployee(e, tenant, id) == id \in Rows

\* The row read by id and employee, and the tenant of its employee.
Owns(e, tenant, id) == id \in Rows /\ owner[id] = e /\ TenantOf[e] = tenant

Peers(r, e, k) == {q \in Requests \ {r} : req[q].emp = e /\ req[q].kind = k}

\* The checks of r have passed.  alone and raced are history: whether another
\* request for the same records of the employee has been in flight with it.
Begin(r, first) ==
  LET peers == Peers(r, first.emp, first.kind)
  IN  /\ req[r] = Idle
      /\ req' = [q \in Requests |->
           IF q = r THEN [first EXCEPT !.alone = peers = {}]
           ELSE IF q \in peers THEN [req[q] EXCEPT !.alone = FALSE] ELSE req[q]]
      /\ raced' = IF peers = {} THEN raced
                  ELSE raced \cup {<<first.emp, first.kind>>}
      /\ UNCHANGED <<owner, deleted, primary>>

\* addBankAccount, addEmergencyContact: up to the check of the employee.
AddStart(r, e, tenant, k, flag) ==
  /\ TenantOf[e] = tenant
  /\ Begin(r, Wants("add", e, tenant, k, NoId, flag))

\* setPrimaryBankAccount.
SetPrimaryStart(r, e, tenant, id) ==
  /\ Owns(e, tenant, id) /\ KindOf[id] = "bank"
  /\ Begin(r, Wants("flag", e, tenant, "bank", id, TRUE))

\* updateEmergencyContact with is_primary in the request.  Without it, and in
\* updateBankAccount, the flags stay as they are.
UpdateContactStart(r, e, tenant, id, flag) ==
  /\ Owns(e, tenant, id) /\ KindOf[id] = "contact"
  /\ Begin(r, Wants(IF flag THEN "flag" ELSE "unflag", e, tenant, "contact", id, flag))

\* deleteBankAccount, deleteEmergencyContact.
DeleteStart(r, e, tenant, id) ==
  /\ Owns(e, tenant, id)
  /\ Begin(r, Wants("delete", e, tenant, KindOf[id], id, FALSE))
--------------------------------------------------------------------------------
\* Mutant: the flags are cleared only when the row is new.
ClearOthers_AddOnly(r) ==
  /\ req[r].clear
  /\ primary' = IF req[r].op = "add"
                THEN primary \ RowsOf(req[r].emp, req[r].kind) ELSE primary
  /\ req' = [req EXCEPT ![r].clear = FALSE]
  /\ UNCHANGED <<owner, deleted, raced>>

\* updateMany over the rows of the employee; a contact that is being updated
\* is left out by its id.
ClearOthers(r) ==
  /\ req[r].clear
  /\ LET spared == IF req[r].kind = "contact" THEN {req[r].id} ELSE {}
     IN  primary' = primary \ (RowsOf(req[r].emp, req[r].kind) \ spared)
  /\ req' = [req EXCEPT ![r].clear = FALSE]
  /\ UNCHANGED <<owner, deleted, raced>>

\* create
Add(r, id) ==
  /\ req[r].op = "add" /\ ~req[r].clear
  /\ owner[id] = NoOne /\ KindOf[id] = req[r].kind
  /\ owner' = [owner EXCEPT ![id] = req[r].emp]
  /\ primary' = IF req[r].primary THEN primary \cup {id} ELSE primary
  /\ req' = [req EXCEPT ![r] = Idle]
  /\ UNCHANGED <<deleted, raced>>

\* Mutant: the flag is written although the row is gone.
Flag_Gone(r) ==
  /\ req[r].op = "flag" /\ ~req[r].clear
  /\ primary' = primary \cup {req[r].id}
  /\ req' = [req EXCEPT ![r] = Idle]
  /\ UNCHANGED <<owner, deleted, raced>>

\* update by id
Flag(r) ==
  /\ req[r].op \in {"flag", "unflag"} /\ ~req[r].clear
  /\ req[r].id \in Rows
  /\ primary' = IF req[r].op = "flag" THEN primary \cup {req[r].id}
                ELSE primary \ {req[r].id}
  /\ req' = [req EXCEPT ![r] = Idle]
  /\ UNCHANGED <<owner, deleted, raced>>

\* delete by id
Delete(r) ==
  /\ req[r].op = "delete"
  /\ req[r].id \in Rows
  /\ deleted' = deleted \cup {req[r].id}
  /\ primary' = primary \ {req[r].id}
  /\ req' = [req EXCEPT ![r] = Idle]
  /\ UNCHANGED <<owner, raced>>

\* The next statement of r fails, because its row is gone, because of an error
\* of the database or with the process; what r has written before stays.
Fail(r) ==
  /\ req[r].op # "none"
  /\ req' = [req EXCEPT ![r] = Idle]
  /\ UNCHANGED <<owner, deleted, primary, raced>>

Start(r) ==
  \E e \in Employees, tenant \in Tenants :
    \/ \E k \in Kinds, flag \in BOOLEAN : AddStart(r, e, tenant, k, flag)
    \/ \E id \in Ids :
         \/ SetPrimaryStart(r, e, tenant, id) \/ DeleteStart(r, e, tenant, id)
         \/ \E flag \in BOOLEAN : UpdateContactStart(r, e, tenant, id, flag)

Write(r) == ClearOthers(r) \/ (\E id \in Ids : Add(r, id)) \/ Flag(r) \/ Delete(r)

Next == \E r \in Requests : Start(r) \/ Write(r) \/ Fail(r)

Spec == Init /\ [][Next]_vars
--------------------------------------------------------------------------------
PrimariesOf(e, k) == primary \cap RowsOf(e, k)

TypeOK ==
  /\ owner \in [Ids -> Employees \cup {NoOne}]
  /\ deleted \subseteq {i \in Ids : owner[i] # NoOne}
  /\ primary \subseteq Rows
  /\ req \in [Requests -> Request]
  /\ raced \subseteq Employees \X Kinds

\* Whatever the earlier requests left behind, by overlapping or by failing
\* half-way: a request that makes a record primary and is not overlapped leaves
\* that record as the only primary one of its kind.
AloneMakesTheOnly == [][\A r \in Requests, e \in Employees, k \in Kinds :
  /\ Flag(r) \/ \E id \in Ids : Add(r, id)
  /\ req[r].emp = e /\ req[r].kind = k /\ req[r].primary /\ req[r].alone
  => Cardinality(PrimariesOf(e, k)') = 1]_vars

\* As long as the writers of an employee's records have never overlapped there
\* is at most one primary among them: a request that fails between its two
\* statements loses the primary record, but never makes a second.
SerialAtMostOne == \A e \in Employees, k \in Kinds :
  <<e, k>> \notin raced => Cardinality(PrimariesOf(e, k)) <= 1

\* The records of an employee are written by requests for that employee, made
\* in the tenant of the employee, although the rows are written by id alone.
OwnRowsOnly == [][\A i \in Ids :
  ~((i \in Rows <=> i \in Rows') /\ (i \in primary <=> i \in primary')) =>
    \E r \in Requests :
      /\ req[r].emp = owner'[i] /\ req[r].kind = KindOf[i]
      /\ req[r].tenant = TenantOf[owner'[i]]]_vars

\* What CHANGELOG.md says of both services: making a record primary clears the
\* others, so an employee has at most one.
AtMostOnePrimary == \A e \in Employees, k \in Kinds :
  Cardinality(PrimariesOf(e, k)) <= 1
================================================================================
