---------------------------------- MODULE Staff ----------------------------------
(***************************************************************************)
(* EmployeeService and PositionService of the employee-service: employees, *)
(* the department, the position and the manager that each refers to, and   *)
(* what a deletion of a department or a position does to them.             *)
(*                                                                         *)
(* A request checks what it refers to and then writes one row.  An         *)
(* employee and a tenant of a row are never gone, so the checks of a       *)
(* request are one step; a department or a position that goes after the    *)
(* check is found out by the foreign key.  createEmployee has a            *)
(* transaction around both, but at Read Committed it sees what others      *)
(* commit meanwhile, like the rest.  Names, e-mail addresses and codes are *)
(* left out: that one is taken is a reason to fail.  The hierarchy and the *)
(* cache of the departments are the subject of Departments.                *)
(***************************************************************************)
EXTENDS FiniteSets

CONSTANTS
  Employees, Departments, Positions,   \* ids, each given out once
  Tenants,
  TenantOf,    \* of each id: the tenant of its row, which no operation changes
  Requests,    \* slots for gRPC requests in flight
  Payloads,    \* what a request says of an employee
  None

Ids == Employees \cup Departments \cup Positions

\* status: "keep" when the request has no employment_status, "on" for ACTIVE
\* and PROBATION, "off" for the others.
Payload == [dept : Departments \cup {None}, pos : Positions \cup {None},
            manager : Employees \cup {None}, status : {"keep", "on", "off"}]

ASSUME IdsAssumption ==
  /\ Employees \cap Departments = {} /\ Employees \cap Positions = {}
  /\ Departments \cap Positions = {}
  /\ TenantOf \in [Ids -> Tenants]
ASSUME PayloadsAssumption == Payloads \subseteq Payload
ASSUME NoneAssumption == None \notin Ids \cup Tenants

VARIABLES
  live,     \* the rows there are
  gone,     \* the rows there were
  dept,     \* departmentId of an employee or a position
  pos,      \* positionId of an employee
  manager,  \* managerId
  counted,  \* the employees in employment status ACTIVE or PROBATION
  req,      \* requests in flight
  moved     \* history: employees whose department or position an update set

rows == <<live, gone, dept, pos, manager, counted>>
vars == <<rows, req, moved>>
--------------------------------------------------------------------------------
Nothing == [dept |-> None, pos |-> None, manager |-> None, status |-> "keep"]

\* fresh is history: no employee has been written since a deletion counted them.
Idle == [op |-> "none", tenant |-> None, id |-> None, with |-> Nothing, fresh |-> FALSE]

Init ==
  /\ live = {} /\ gone = {} /\ counted = {} /\ moved = {}
  /\ dept = [i \in Employees \cup Positions |-> None]
  /\ pos = [e \in Employees |-> None]
  /\ manager = [e \in Employees |-> None]
  /\ req = [r \in Requests |-> Idle]

\* The findFirst by id and tenant.
Find(t, id) == id \in live /\ TenantOf[id] = t

\* A reference that a request need not have.
Found(t, id) == id = None \/ Find(t, id)

Begin(r, op, t, id, with) ==
  /\ req[r] = Idle
  /\ req' = [req EXCEPT ![r] = [op |-> op, tenant |-> t, id |-> id, with |-> with,
                              fresh |-> op = "delete"]]
  /\ UNCHANGED <<rows, moved>>

\* createEmployee: its manager, department and position are of the tenant.
CreateEmployeeStart(r, t, with) ==
  /\ Found(t, with.manager) /\ Found(t, with.dept) /\ Found(t, with.pos)
  /\ Begin(r, "createEmployee", t, None, with)

\* Mutant: nor is the manager.
UpdateEmployeeStart_AnyManager(r, t, e, with) ==
  /\ Find(t, e)
  /\ Begin(r, "updateEmployee", t, e, with)

\* updateEmployee: the manager is looked for, the department and the position are not.
UpdateEmployeeStart(r, t, e, with) ==
  /\ Find(t, e) /\ Found(t, with.manager)
  /\ Begin(r, "updateEmployee", t, e, with)

\* deleteEmployee: the row stays, as TERMINATED.
DeleteEmployeeStart(r, t, e) ==
  /\ Find(t, e)
  /\ Begin(r, "updateEmployee", t, e, [Nothing EXCEPT !.status = "off"])

CreatePositionStart(r, t, d) ==
  /\ Found(t, d)
  /\ Begin(r, "createPosition", t, None, [Nothing EXCEPT !.dept = d])

UpdatePositionStart(r, t, p, d) ==
  /\ Find(t, p) /\ Found(t, d)
  /\ Begin(r, "updatePosition", t, p, [Nothing EXCEPT !.dept = d])

\* countByDepartment, countByPosition.
Counted(t, id) == {e \in counted : TenantOf[e] = t /\ id \in {dept[e], pos[e]}}

\* Mutant: the employees are not counted.
DeleteStart_NoCount(r, t, id) == Find(t, id) /\ Begin(r, "delete", t, id, Nothing)

\* deleteDepartment, deletePosition.
DeleteStart(r, t, id) ==
  /\ Find(t, id) /\ Counted(t, id) = {}
  /\ Begin(r, "delete", t, id, Nothing)
--------------------------------------------------------------------------------
\* The value of a column after a write: what the request has, or else as it was.
Or(new, old) == IF new = None THEN old ELSE new

\* r is done; an employee was written, after the count of others.
EmployeeWritten(r) ==
  req' = [q \in Requests |-> IF q = r THEN Idle ELSE [req[q] EXCEPT !.fresh = FALSE]]

\* connect fails when the row is not there.
Connects(with) == {with.dept, with.pos, with.manager} \subseteq live \cup {None}

CreateEmployee(r, e) ==
  LET with == req[r].with
  IN  /\ req[r].op = "createEmployee"
      /\ e \notin live /\ TenantOf[e] = req[r].tenant /\ Connects(with)
      /\ live' = live \cup {e}
      /\ dept' = [dept EXCEPT ![e] = with.dept]
      /\ pos' = [pos EXCEPT ![e] = with.pos]
      /\ manager' = [manager EXCEPT ![e] = with.manager]
      /\ counted' = counted \cup {e}
      /\ EmployeeWritten(r)
      /\ UNCHANGED <<gone, moved>>

\* Mutant: without a status in the request the employee is active.
UpdateEmployee_Active(r) ==
  LET with == req[r].with  e == req[r].id
  IN  /\ req[r].op = "updateEmployee" /\ Connects(with)
      /\ dept' = [dept EXCEPT ![e] = Or(with.dept, @)]
      /\ pos' = [pos EXCEPT ![e] = Or(with.pos, @)]
      /\ manager' = [manager EXCEPT ![e] = Or(with.manager, @)]
      /\ counted' = IF with.status = "off" THEN counted \ {e} ELSE counted \cup {e}
      /\ moved' = IF {with.dept, with.pos} = {None} THEN moved ELSE moved \cup {e}
      /\ EmployeeWritten(r)
      /\ UNCHANGED <<live, gone>>

UpdateEmployee(r) ==
  LET with == req[r].with  e == req[r].id
  IN  /\ req[r].op = "updateEmployee" /\ Connects(with)
      /\ dept' = [dept EXCEPT ![e] = Or(with.dept, @)]
      /\ pos' = [pos EXCEPT ![e] = Or(with.pos, @)]
      /\ manager' = [manager EXCEPT ![e] = Or(with.manager, @)]
      /\ counted' = CASE with.status = "on" -> counted \cup {e}
                      [] with.status = "off" -> counted \ {e}
                      [] OTHER -> counted
      /\ moved' = IF {with.dept, with.pos} = {None} THEN moved ELSE moved \cup {e}
      /\ EmployeeWritten(r)
      /\ UNCHANGED <<live, gone>>

Done(r) == req' = [req EXCEPT ![r] = Idle]

CreatePosition(r, p) ==
  /\ req[r].op = "createPosition"
  /\ p \notin live \cup gone /\ TenantOf[p] = req[r].tenant /\ Connects(req[r].with)
  /\ live' = live \cup {p}
  /\ dept' = [dept EXCEPT ![p] = req[r].with.dept]
  /\ Done(r)
  /\ UNCHANGED <<gone, pos, manager, counted, moved>>

\* Mutant: the row is created again if need be.
UpdatePosition_Upsert(r) ==
  LET p == req[r].id
  IN  /\ req[r].op = "updatePosition" /\ Connects(req[r].with)
      /\ live' = live \cup {p}
      /\ dept' = [dept EXCEPT ![p] = Or(req[r].with.dept, @)]
      /\ Done(r)
      /\ UNCHANGED <<gone, pos, manager, counted, moved>>

UpdatePosition(r) ==
  LET p == req[r].id
  IN  /\ req[r].op = "updatePosition"
      /\ p \in live /\ Connects(req[r].with)
      /\ dept' = [dept EXCEPT ![p] = Or(req[r].with.dept, @)]
      /\ Done(r)
      /\ UNCHANGED <<live, gone, pos, manager, counted, moved>>

\* The foreign keys that refer to the row are set to null.
Delete(r) ==
  LET id == req[r].id
  IN  /\ req[r].op = "delete"
      /\ id \in live
      /\ live' = live \ {id} /\ gone' = gone \cup {id}
      /\ dept' = [i \in DOMAIN dept |-> IF dept[i] = id THEN None ELSE dept[i]]
      /\ pos' = [e \in Employees |-> IF pos[e] = id THEN None ELSE pos[e]]
      /\ Done(r)
      /\ UNCHANGED <<manager, counted, moved>>

\* A check or the write fails, or the process does.
Fail(r) == req[r] # Idle /\ Done(r) /\ UNCHANGED <<rows, moved>>

\* createDepartment, see Departments.
NewDepartment(d) ==
  /\ d \notin live \cup gone
  /\ live' = live \cup {d}
  /\ UNCHANGED <<gone, dept, pos, manager, counted, req, moved>>

Start(r) == \E t \in Tenants :
  \/ \E with \in Payloads :
       \/ CreateEmployeeStart(r, t, with)
       \/ \E e \in Employees : UpdateEmployeeStart(r, t, e, with)
  \/ \E e \in Employees : DeleteEmployeeStart(r, t, e)
  \/ \E d \in Departments \cup {None} :
       \/ CreatePositionStart(r, t, d)
       \/ \E p \in Positions : UpdatePositionStart(r, t, p, d)
  \/ \E id \in Departments \cup Positions : DeleteStart(r, t, id)

Write(r) ==
  \/ \E e \in Employees : CreateEmployee(r, e)
  \/ UpdateEmployee(r)
  \/ \E p \in Positions : CreatePosition(r, p)
  \/ UpdatePosition(r) \/ Delete(r) \/ Fail(r)

Next == \/ \E r \in Requests : Start(r) \/ Write(r)
        \/ \E d \in Departments : NewDepartment(d)

Spec == Init /\ [][Next]_vars
--------------------------------------------------------------------------------
Request == [op : {"none", "createEmployee", "updateEmployee", "createPosition",
                  "updatePosition", "delete"},
            tenant : Tenants \cup {None}, id : Ids \cup {None}, with : Payload,
            fresh : BOOLEAN]

TypeOK ==
  /\ live \subseteq Ids /\ gone \subseteq Departments \cup Positions
  /\ live \cap gone = {}
  /\ dept \in [Employees \cup Positions -> Departments \cup {None}]
  /\ pos \in [Employees -> Positions \cup {None}]
  /\ manager \in [Employees -> Employees \cup {None}]
  /\ counted \subseteq live \cap Employees /\ moved \subseteq live \cap Employees
  /\ req \in [Requests -> Request]

\* Whatever deletions pass the requests that refer to a row: a reference is
\* to a row that exists, and it is of the same tenant, but for the departments
\* and positions that an update of the employee set, which nobody checks.
References ==
  /\ \A e \in live \cap Employees :
       Found(TenantOf[e], manager[e]) /\ (Found(TenantOf[e], pos[e]) \/ e \in moved)
  /\ \A i \in live \cap DOMAIN dept : Found(TenantOf[i], dept[i]) \/ i \in moved
  /\ \A e \in moved : {dept[e], pos[e]} \subseteq live \cup {None}

\* An active employee loses the department or the position to a deletion only
\* if that has counted before the latest write of an employee, or is made in
\* another tenant.
ActiveKeepTheirPlace == [][\A e \in counted :
  (dept[e] # None /\ dept'[e] = None) \/ (pos[e] # None /\ pos'[e] = None) =>
    \E r \in Requests : /\ req[r].op = "delete" /\ req[r].id \in {dept[e], pos[e]}
                        /\ ~req[r].fresh \/ req[r].tenant # TenantOf[e]]_vars

\* An employee is terminated, or taken back, by a request that says so: the
\* updates that pass it, and that have read the employee before, do not undo it.
StatusAsAsked == [][\A e \in Employees \cap live :
  (e \in counted) # (e \in counted') =>
    \E r \in Requests :
      /\ req[r].op = "updateEmployee" /\ req[r].id = e
      /\ req[r].with.status = IF e \in counted' THEN "on" ELSE "off"]_vars

\* What becomes of an active employee, and of the place it has, is what the
\* requests have asked for.
ActiveAsAsked == ActiveKeepTheirPlace /\ StatusAsAsked

\* The rows behave as RowStore promises, although what a request writes was
\* looked for a step before: what has gone meanwhile does not come back and is
\* not referred to, and no row but its own changes.
Life == [i \in Ids |->
  IF i \in gone THEN "gone" ELSE IF i \in live THEN "live" ELSE "absent"]
OwnerOf == [i \in Ids |-> IF i \in live \cup gone THEN TenantOf[i] ELSE None]
Refers(i) ==
  (IF i \in Employees \cup Positions THEN {dept[i]} ELSE {}) \cup
  (IF i \in Employees THEN {pos[i], manager[i]} ELSE {})
Refs == [i \in Ids |-> IF i \in live THEN Refers(i) \ {None} ELSE {}]
Store == INSTANCE RowStore WITH
  Owners <- Tenants, NoOwner <- None, life <- Life, owner <- OwnerOf, refs <- Refs
StoreSpec == Store!Spec
================================================================================
