------------------------------- MODULE StaffProofs -------------------------------
(***************************************************************************)
(* The safety of Staff for any ids, tenants, requests and payloads.        *)
(*                                                                         *)
(* The invariant IInv has, beside the types and the references, what a     *)
(* request still knows of the rows after the checks it has made (Local).   *)
(***************************************************************************)
EXTENDS Staff, TLAPS

OfTenant(id, t) == id = None \/ TenantOf[id] = t

\* What was found is of the tenant, even if it has gone meanwhile; an employee
\* is still there; a fresh count is still the count.
Local(q) ==
  /\ q.op = "createEmployee" =>
       /\ OfTenant(q.with.dept, q.tenant) /\ OfTenant(q.with.pos, q.tenant)
       /\ OfTenant(q.with.manager, q.tenant)
  /\ q.op = "updateEmployee" =>
       /\ q.id \in live \cap Employees /\ TenantOf[q.id] = q.tenant
       /\ OfTenant(q.with.manager, q.tenant)
  /\ q.op \in {"createPosition", "updatePosition"} => OfTenant(q.with.dept, q.tenant)
  /\ q.op = "updatePosition" => q.id \in Positions /\ TenantOf[q.id] = q.tenant
  /\ q.op = "delete" => /\ q.id \in Departments \cup Positions
                        /\ q.fresh => Counted(q.tenant, q.id) = {}

IInv == TypeOK /\ References /\ \A r \in Requests : Local(req[r])
--------------------------------------------------------------------------------
\* A request that has ended knows nothing.
LEMMA IdleLocal == Local(Idle)
BY DEF Local, Idle

\* Nothing is there in the beginning.
LEMMA InitIInv == Init => IInv
<1> SUFFICES ASSUME Init PROVE IInv
  OBVIOUS
<1>1. TypeOK
  BY NoneAssumption DEF Init, TypeOK, Idle, Nothing, Request, Payload
<1>2. References
  BY DEF Init, References
<1>3. \A r \in Requests : Local(req[r])
  BY IdleLocal DEF Init
<1> QED
  BY <1>1, <1>2, <1>3 DEF IInv

\* Without a step nothing changes.
LEMMA StutterIInv == ASSUME IInv, UNCHANGED vars PROVE IInv'
<1>1. TypeOK' /\ References'
  BY DEF IInv, TypeOK, References, Found, Find, vars, rows
<1>2. \A r \in Requests : Local(req[r])'
  BY DEF IInv, Local, OfTenant, Counted, vars, rows
<1> QED
  BY <1>1, <1>2 DEF IInv

\* A request that begins: all it must know is what it has checked.
LEMMA BeginIInv ==
  ASSUME IInv, NEW r \in Requests, NEW t \in Tenants, NEW id \in Ids \cup {None},
         NEW with \in Payload,
         NEW op \in {"createEmployee", "updateEmployee", "createPosition",
                     "updatePosition", "delete"},
         Begin(r, op, t, id, with),
         Local([op |-> op, tenant |-> t, id |-> id, with |-> with, fresh |-> op = "delete"])
  PROVE  IInv'
<1> DEFINE new == [op |-> op, tenant |-> t, id |-> id, with |-> with, fresh |-> op = "delete"]
<1>1. /\ req \in [Requests -> Request] /\ req' = [req EXCEPT ![r] = new]
      /\ live' = live /\ gone' = gone /\ dept' = dept /\ pos' = pos
      /\ manager' = manager /\ counted' = counted /\ moved' = moved
  BY DEF IInv, TypeOK, Begin, rows
<1>2. new \in Request
  BY DEF Request
<1>3. TypeOK'
  <2>1. req' \in [Requests -> Request]
    BY <1>1, <1>2
  <2> QED
    BY <1>1, <2>1 DEF IInv, TypeOK
<1>4. References'
  BY <1>1 DEF IInv, References, Found, Find
<1>5. ASSUME NEW q \in Requests PROVE Local(req[q])'
  <2>1. CASE q = r
    <3>1. req'[q] = new
      BY <1>1, <2>1
    <3> QED
      BY <1>1, <3>1 DEF Local, OfTenant, Counted
  <2>2. CASE q # r
    <3>1. req'[q] = req[q] /\ Local(req[q])
      BY <1>1, <2>2 DEF IInv
    <3> QED
      BY <1>1, <3>1 DEF Local, OfTenant, Counted
  <2> QED
    BY <2>1, <2>2
<1> QED
  BY <1>3, <1>4, <1>5 DEF IInv

\* Every request that starts has checked what it refers to.
LEMMA StartIInv == ASSUME IInv, NEW r \in Requests, Start(r) PROVE IInv'
<1>0. PICK t \in Tenants :
        \/ \E with \in Payloads :
             \/ CreateEmployeeStart(r, t, with)
             \/ \E e \in Employees : UpdateEmployeeStart(r, t, e, with)
        \/ \E e \in Employees : DeleteEmployeeStart(r, t, e)
        \/ \E d \in Departments \cup {None} :
             \/ CreatePositionStart(r, t, d)
             \/ \E p \in Positions : UpdatePositionStart(r, t, p, d)
        \/ \E id \in Departments \cup Positions : DeleteStart(r, t, id)
  BY DEF Start
<1> DEFINE Off == [Nothing EXCEPT !.status = "off"]
           At(d) == [Nothing EXCEPT !.dept = d]
<1>a. /\ Nothing \in Payload /\ Off \in Payload /\ Off.manager = None
      /\ \A d \in Departments \cup {None} : At(d) \in Payload /\ At(d).dept = d
  BY DEF Nothing, Payload
<1>b. ASSUME NEW x, Found(t, x) PROVE OfTenant(x, t)
  BY <1>b DEF Found, Find, OfTenant
<1>1. ASSUME NEW with \in Payloads, CreateEmployeeStart(r, t, with) PROVE IInv'
  <2>1. OfTenant(with.dept, t) /\ OfTenant(with.pos, t) /\ OfTenant(with.manager, t)
    BY <1>1, <1>b DEF CreateEmployeeStart
  <2>2. Local([op |-> "createEmployee", tenant |-> t, id |-> None, with |-> with,
               fresh |-> "createEmployee" = "delete"])
    BY <2>1 DEF Local
  <2> QED
    BY <1>1, <2>2, BeginIInv, PayloadsAssumption DEF CreateEmployeeStart
<1>2. ASSUME NEW with \in Payloads, NEW e \in Employees, UpdateEmployeeStart(r, t, e, with)
      PROVE  IInv'
  <2>1. e \in live /\ TenantOf[e] = t /\ OfTenant(with.manager, t)
    BY <1>2, <1>b DEF UpdateEmployeeStart, Find
  <2>2. Local([op |-> "updateEmployee", tenant |-> t, id |-> e, with |-> with,
               fresh |-> "updateEmployee" = "delete"])
    BY <2>1 DEF Local
  <2>3. e \in Ids \cup {None}
    BY DEF Ids
  <2> QED
    BY <1>2, <2>2, <2>3, BeginIInv, PayloadsAssumption DEF UpdateEmployeeStart
<1>3. ASSUME NEW e \in Employees, DeleteEmployeeStart(r, t, e) PROVE IInv'
  <2>1. e \in live /\ TenantOf[e] = t /\ OfTenant(Off.manager, t)
    BY <1>3, <1>a DEF DeleteEmployeeStart, Find, OfTenant
  <2>2. Local([op |-> "updateEmployee", tenant |-> t, id |-> e, with |-> Off,
               fresh |-> "updateEmployee" = "delete"])
    BY <2>1 DEF Local
  <2>3. e \in Ids \cup {None}
    BY DEF Ids
  <2> QED
    BY <1>3, <1>a, <2>2, <2>3, BeginIInv DEF DeleteEmployeeStart
<1>4. ASSUME NEW d \in Departments \cup {None}, CreatePositionStart(r, t, d) PROVE IInv'
  <2>1. OfTenant(At(d).dept, t)
    BY <1>4, <1>a, <1>b DEF CreatePositionStart
  <2>2. Local([op |-> "createPosition", tenant |-> t, id |-> None, with |-> At(d),
               fresh |-> "createPosition" = "delete"])
    BY <2>1 DEF Local
  <2> QED
    BY <1>4, <1>a, <2>2, BeginIInv DEF CreatePositionStart
<1>5. ASSUME NEW d \in Departments \cup {None}, NEW p \in Positions,
             UpdatePositionStart(r, t, p, d)
      PROVE  IInv'
  <2>1. OfTenant(At(d).dept, t) /\ TenantOf[p] = t
    BY <1>5, <1>a, <1>b DEF UpdatePositionStart, Find
  <2>2. Local([op |-> "updatePosition", tenant |-> t, id |-> p, with |-> At(d),
               fresh |-> "updatePosition" = "delete"])
    BY <2>1 DEF Local
  <2>3. p \in Ids \cup {None}
    BY DEF Ids
  <2> QED
    BY <1>5, <1>a, <2>2, <2>3, BeginIInv DEF UpdatePositionStart
<1>6. ASSUME NEW id \in Departments \cup Positions, DeleteStart(r, t, id) PROVE IInv'
  <2>1. Counted(t, id) = {}
    BY <1>6 DEF DeleteStart
  <2>2. Local([op |-> "delete", tenant |-> t, id |-> id, with |-> Nothing,
               fresh |-> "delete" = "delete"])
    BY <2>1 DEF Local
  <2>3. id \in Ids \cup {None}
    BY DEF Ids
  <2> QED
    BY <1>6, <1>a, <2>2, <2>3, BeginIInv DEF DeleteStart
<1> QED
  BY <1>0, <1>1, <1>2, <1>3, <1>4, <1>5, <1>6
--------------------------------------------------------------------------------
(* The writes.  First what they leave to the other requests.                *)

\* What a request knows stays true as long as employees stay, and counted
\* employees come to no place where they were not.
LEMMA LocalStays ==
  ASSUME NEW q \in Requests, Local(req[q]), req'[q] = req[q],
         live \cap Employees \subseteq live',
         \A e \in counted' : e \in counted /\ {dept'[e], pos'[e]} \subseteq {dept[e], pos[e], None}
  PROVE  Local(req[q])'
<1>1. ASSUME req[q].op = "delete", req[q].fresh
      PROVE  Counted(req[q].tenant, req[q].id)' = {}
  <2>1. req[q].id \in Ids /\ req[q].id # None /\ Counted(req[q].tenant, req[q].id) = {}
    BY <1>1, NoneAssumption DEF Local, Ids
  <2> QED
    BY <2>1 DEF Counted
<1> QED
  BY <1>1 DEF Local, OfTenant

\* When an employee is written the count of a deletion is not fresh any more.
LEMMA LocalAges ==
  ASSUME TypeOK, NEW q \in Requests, Local(req[q]), live \cap Employees \subseteq live',
         req'[q] = [req[q] EXCEPT !.fresh = FALSE]
  PROVE  Local(req[q])'
<1>1. req[q] \in Request
  BY DEF TypeOK
<1>2. /\ req'[q].op = req[q].op /\ req'[q].tenant = req[q].tenant
      /\ req'[q].id = req[q].id /\ req'[q].with = req[q].with /\ req'[q].fresh = FALSE
  BY <1>1 DEF Request
<1> QED
  BY <1>2 DEF Local, OfTenant

\* A request that has written an employee: what the requests know afterwards.
LEMMA WrittenLocal ==
  ASSUME IInv, NEW r \in Requests, EmployeeWritten(r), live \cap Employees \subseteq live'
  PROVE  req' \in [Requests -> Request] /\ \A q \in Requests : Local(req[q])'
<1>1. req \in [Requests -> Request] /\ Idle \in Request
  BY NoneAssumption DEF IInv, TypeOK, Idle, Nothing, Request, Payload
<1>2. \A q \in Requests : [req[q] EXCEPT !.fresh = FALSE] \in Request
  BY <1>1 DEF Request
<1>3. req' \in [Requests -> Request]
  BY <1>1, <1>2 DEF EmployeeWritten
<1>4. ASSUME NEW q \in Requests PROVE Local(req[q])'
  <2>1. CASE q = r
    <3>1. req'[q] = Idle
      BY <2>1 DEF EmployeeWritten
    <3> QED
      BY <3>1 DEF Local, Idle
  <2>2. CASE q # r
    <3>1. req'[q] = [req[q] EXCEPT !.fresh = FALSE]
      BY <2>2 DEF EmployeeWritten
    <3> QED
      BY <3>1, LocalAges DEF IInv
  <2> QED
    BY <2>1, <2>2
<1> QED
  BY <1>3, <1>4

\* A request that has written something else, or nothing.
LEMMA DoneLocal ==
  ASSUME IInv, NEW r \in Requests, Done(r), live \cap Employees \subseteq live',
         \A e \in counted' : e \in counted /\ {dept'[e], pos'[e]} \subseteq {dept[e], pos[e], None}
  PROVE  req' \in [Requests -> Request] /\ \A q \in Requests : Local(req[q])'
<1>1. req \in [Requests -> Request] /\ Idle \in Request
  BY NoneAssumption DEF IInv, TypeOK, Idle, Nothing, Request, Payload
<1>2. req' \in [Requests -> Request]
  BY <1>1 DEF Done
<1>3. ASSUME NEW q \in Requests PROVE Local(req[q])'
  <2>1. CASE q = r
    <3>1. req'[q] = Idle
      BY <1>1, <2>1 DEF Done
    <3> QED
      BY <3>1 DEF Local, Idle
  <2>2. CASE q # r
    <3>1. req'[q] = req[q]
      BY <1>1, <2>2 DEF Done
    <3> QED
      BY <3>1, LocalStays DEF IInv
  <2> QED
    BY <2>1, <2>2
<1> QED
  BY <1>2, <1>3

\* createEmployee: the three references are of the tenant and still there.
LEMMA CreateEmployeeIInv ==
  ASSUME IInv, NEW r \in Requests, NEW e \in Employees, CreateEmployee(r, e) PROVE IInv'
<1> DEFINE with == req[r].with
<1>1. /\ req[r].op = "createEmployee" /\ req[r] \in Request /\ Local(req[r])
      /\ e \notin live /\ TenantOf[e] = req[r].tenant
      /\ {with.dept, with.pos, with.manager} \subseteq live \cup {None}
      /\ live' = live \cup {e} /\ counted' = counted \cup {e}
      /\ gone' = gone /\ moved' = moved /\ EmployeeWritten(r)
  BY DEF IInv, TypeOK, CreateEmployee, Connects
<1>2. /\ dept' = [dept EXCEPT ![e] = with.dept] /\ pos' = [pos EXCEPT ![e] = with.pos]
      /\ manager' = [manager EXCEPT ![e] = with.manager]
  BY DEF CreateEmployee
<1>3. with \in Payload
  BY <1>1 DEF Request
<1>4. /\ with.dept \in Departments \cup {None} /\ with.pos \in Positions \cup {None}
      /\ with.manager \in Employees \cup {None}
  BY <1>3 DEF Payload
<1>5. TypeOK
  BY DEF IInv
<1>6. /\ dept' \in [Employees \cup Positions -> Departments \cup {None}]
      /\ pos' \in [Employees -> Positions \cup {None}]
      /\ manager' \in [Employees -> Employees \cup {None}]
  BY <1>2, <1>4, <1>5 DEF TypeOK
<1>7. req' \in [Requests -> Request] /\ \A q \in Requests : Local(req[q])'
  BY <1>1, WrittenLocal
<1>8. TypeOK'
  <2>1. e \notin gone /\ e \in Ids
    BY <1>5, IdsAssumption DEF TypeOK, Ids
  <2> QED
    BY <1>1, <1>5, <1>6, <1>7, <2>1 DEF TypeOK
<1>9. References'
  <2>1. \A i \in DOMAIN dept \ {e} : dept'[i] = dept[i]
    BY <1>2, <1>5 DEF TypeOK
  <2>2. \A i \in Employees \ {e} : pos'[i] = pos[i] /\ manager'[i] = manager[i]
    BY <1>2, <1>5 DEF TypeOK
  <2>3. dept'[e] = with.dept /\ pos'[e] = with.pos /\ manager'[e] = with.manager
    BY <1>2, <1>5 DEF TypeOK
  <2>4. \A x \in {with.dept, with.pos, with.manager} : x = None \/ (x \in live /\ TenantOf[x] = TenantOf[e])
    BY <1>1 DEF Local, OfTenant
  <2>5. e \notin moved /\ DOMAIN dept' = DOMAIN dept /\ DOMAIN dept = Employees \cup Positions
    BY <1>1, <1>5, <1>6 DEF TypeOK
  <2>6. ASSUME NEW i \in live' \cap Employees
        PROVE  /\ manager'[i] = None \/ (manager'[i] \in live' /\ TenantOf[manager'[i]] = TenantOf[i])
               /\ pos'[i] = None \/ (pos'[i] \in live' /\ TenantOf[pos'[i]] = TenantOf[i]) \/ i \in moved'
    BY <1>1, <2>2, <2>3, <2>4 DEF IInv, References, Found, Find
  <2>7. ASSUME NEW i \in live' \cap DOMAIN dept'
        PROVE  dept'[i] = None \/ (dept'[i] \in live' /\ TenantOf[dept'[i]] = TenantOf[i]) \/ i \in moved'
    BY <1>1, <2>1, <2>3, <2>4, <2>5 DEF IInv, References, Found, Find
  <2>8. \A i \in moved' : {dept'[i], pos'[i]} \subseteq live' \cup {None}
    BY <1>1, <1>5, <2>1, <2>2, <2>5 DEF IInv, References, TypeOK
  <2> QED
    BY <2>6, <2>7, <2>8 DEF References, Found, Find
<1> QED
  BY <1>7, <1>8, <1>9 DEF IInv
\* updateEmployee: the manager is of the tenant; a department or a position that
\* is of another is the one exception, and is remembered in moved.
LEMMA UpdateEmployeeIInv ==
  ASSUME IInv, NEW r \in Requests, UpdateEmployee(r) PROVE IInv'
<1> DEFINE with == req[r].with  e == req[r].id
<1>1. /\ req[r].op = "updateEmployee" /\ req[r] \in Request /\ Local(req[r])
      /\ {with.dept, with.pos, with.manager} \subseteq live \cup {None}
      /\ live' = live /\ gone' = gone /\ EmployeeWritten(r)
  BY DEF IInv, TypeOK, UpdateEmployee, Connects
<1>2. /\ dept' = [dept EXCEPT ![e] = Or(with.dept, @)] /\ pos' = [pos EXCEPT ![e] = Or(with.pos, @)]
      /\ manager' = [manager EXCEPT ![e] = Or(with.manager, @)]
  BY DEF UpdateEmployee
<1>3. counted' \in {counted, counted \cup {e}, counted \ {e}}
  BY DEF UpdateEmployee
<1>4. \/ with.dept = None /\ with.pos = None /\ moved' = moved
      \/ moved' = moved \cup {e}
  BY DEF UpdateEmployee
<1>5. e \in live \cap Employees /\ TypeOK /\ References
  BY <1>1 DEF IInv, Local
<1>6. with \in Payload
  BY <1>1 DEF Request
<1>7. /\ with.dept \in Departments \cup {None} /\ with.pos \in Positions \cup {None}
      /\ with.manager \in Employees \cup {None}
  BY <1>6 DEF Payload
<1>8. /\ dept' \in [Employees \cup Positions -> Departments \cup {None}]
      /\ pos' \in [Employees -> Positions \cup {None}]
      /\ manager' \in [Employees -> Employees \cup {None}]
  BY <1>2, <1>5, <1>7 DEF TypeOK, Or
<1>9. req' \in [Requests -> Request] /\ \A q \in Requests : Local(req[q])'
  BY <1>1, WrittenLocal
<1>10. TypeOK'
  BY <1>1, <1>3, <1>4, <1>5, <1>8, <1>9 DEF TypeOK
<1>11. References'
  <2>1. \A i \in DOMAIN dept \ {e} : dept'[i] = dept[i]
    BY <1>2, <1>5 DEF TypeOK
  <2>2. \A i \in Employees \ {e} : pos'[i] = pos[i] /\ manager'[i] = manager[i]
    BY <1>2, <1>5 DEF TypeOK
  <2>3. /\ dept'[e] = Or(with.dept, dept[e]) /\ pos'[e] = Or(with.pos, pos[e])
        /\ manager'[e] = Or(with.manager, manager[e])
    BY <1>2, <1>5 DEF TypeOK
  <2>4. with.manager = None \/ (with.manager \in live /\ TenantOf[with.manager] = TenantOf[e])
    BY <1>1 DEF Local, OfTenant
  <2>5. DOMAIN dept' = DOMAIN dept /\ DOMAIN dept = Employees \cup Positions /\ moved \subseteq Employees
    BY <1>5, <1>8 DEF TypeOK
  <2>6. ASSUME NEW i \in live \cap Employees
        PROVE  /\ manager'[i] = None \/ (manager'[i] \in live /\ TenantOf[manager'[i]] = TenantOf[i])
               /\ pos'[i] = None \/ (pos'[i] \in live /\ TenantOf[pos'[i]] = TenantOf[i]) \/ i \in moved'
    BY <1>4, <1>5, <2>2, <2>3, <2>4 DEF References, Found, Find, Or
  <2>7. ASSUME NEW i \in live \cap DOMAIN dept
        PROVE  dept'[i] = None \/ (dept'[i] \in live /\ TenantOf[dept'[i]] = TenantOf[i]) \/ i \in moved'
    BY <1>4, <1>5, <2>1, <2>3 DEF References, Found, Find, Or
  <2>8. dept[e] \in live \cup {None} /\ pos[e] \in live \cup {None}
    BY <1>5, <2>5 DEF References, Found, Find
  <2>9. dept'[e] \in live \cup {None} /\ pos'[e] \in live \cup {None}
    BY <1>1, <2>3, <2>8 DEF Or
  <2>10. \A i \in moved' : {dept'[i], pos'[i]} \subseteq live \cup {None}
    BY <1>4, <1>5, <2>1, <2>2, <2>5, <2>9 DEF References
  <2> QED
    BY <1>1, <2>5, <2>6, <2>7, <2>10 DEF References, Found, Find
<1> QED
  BY <1>9, <1>10, <1>11 DEF IInv

\* createPosition and updatePosition write a department into a position p that
\* is or comes to be there: what both leave behind.
LEMMA PositionIInv ==
  ASSUME IInv, NEW r \in Requests, NEW p \in Positions, NEW d \in Departments \cup {None},
         d = None \/ (d \in live /\ TenantOf[d] = TenantOf[p])
           \/ (p \in live /\ d = dept[p]),
         p \notin gone, live' = live \cup {p}, dept' = [dept EXCEPT ![p] = d],
         Done(r), UNCHANGED <<gone, pos, manager, counted, moved>>
  PROVE  IInv'
<1>1. TypeOK /\ References
  BY DEF IInv
<1>2. DOMAIN dept = Employees \cup Positions /\ p \notin Employees /\ counted \subseteq Employees
  BY <1>1, IdsAssumption DEF TypeOK
<1>3. dept'[p] = d /\ \A i \in DOMAIN dept \ {p} : dept'[i] = dept[i]
  BY <1>2
<1>4. \A e \in counted' : e \in counted /\ {dept'[e], pos'[e]} \subseteq {dept[e], pos[e], None}
  BY <1>2, <1>3
<1>5. req' \in [Requests -> Request] /\ \A q \in Requests : Local(req[q])'
  BY <1>4, DoneLocal
<1>6. TypeOK'
  <2>1. p \in Ids
    BY DEF Ids
  <2>2. dept' \in [Employees \cup Positions -> Departments \cup {None}]
    BY <1>1 DEF TypeOK
  <2> QED
    BY <1>1, <1>5, <2>1, <2>2 DEF TypeOK
<1>7. References'
  <2>1. p \notin moved /\ moved \subseteq Employees
    BY <1>1, <1>2 DEF TypeOK
  <2>2. DOMAIN dept' = DOMAIN dept
    OBVIOUS
  <2>3. ASSUME NEW i \in live' \cap DOMAIN dept
        PROVE  dept'[i] = None \/ (dept'[i] \in live' /\ TenantOf[dept'[i]] = TenantOf[i]) \/ i \in moved
    BY <1>1, <1>2, <1>3 DEF References, Found, Find
  <2>4. ASSUME NEW i \in live' \cap Employees
        PROVE  /\ manager[i] = None \/ (manager[i] \in live' /\ TenantOf[manager[i]] = TenantOf[i])
               /\ pos[i] = None \/ (pos[i] \in live' /\ TenantOf[pos[i]] = TenantOf[i]) \/ i \in moved
    BY <1>1, <1>2 DEF References, Found, Find
  <2>5. \A i \in moved : {dept'[i], pos[i]} \subseteq live' \cup {None}
    BY <1>1, <1>2, <1>3, <2>1 DEF References
  <2> QED
    BY <2>2, <2>3, <2>4, <2>5 DEF References, Found, Find
<1> QED
  BY <1>5, <1>6, <1>7 DEF IInv

\* createPosition: the department was found in the tenant, and is still there.
LEMMA CreatePositionIInv ==
  ASSUME IInv, NEW r \in Requests, NEW p \in Positions, CreatePosition(r, p) PROVE IInv'
<1> DEFINE d == req[r].with.dept
<1>1. req[r].with \in Payload /\ Local(req[r])
  BY DEF IInv, TypeOK, Request
<1>2. d \in Departments \cup {None}
  BY <1>1 DEF Payload
<1>3. /\ req[r].op = "createPosition" /\ TenantOf[p] = req[r].tenant /\ d \in live \cup {None}
      /\ p \notin gone /\ live' = live \cup {p} /\ dept' = [dept EXCEPT ![p] = d]
      /\ Done(r) /\ UNCHANGED <<gone, pos, manager, counted, moved>>
  BY DEF CreatePosition, Connects
<1>4. d = None \/ (d \in live /\ TenantOf[d] = TenantOf[p])
  BY <1>1, <1>3 DEF Local, OfTenant
<1> QED
  BY <1>2, <1>3, <1>4, PositionIInv

\* updatePosition: the same, or the department stays as it is.
LEMMA UpdatePositionIInv ==
  ASSUME IInv, NEW r \in Requests, UpdatePosition(r) PROVE IInv'
<1> DEFINE p == req[r].id  d == Or(req[r].with.dept, dept[p])
<1>1. req[r].with \in Payload /\ Local(req[r]) /\ TypeOK
  BY DEF IInv, TypeOK, Request
<1>2. /\ req[r].op = "updatePosition" /\ req[r].with.dept \in live \cup {None} /\ p \in live
      /\ dept' = [dept EXCEPT ![p] = Or(req[r].with.dept, @)]
      /\ Done(r) /\ UNCHANGED <<live, gone, pos, manager, counted, moved>>
  BY DEF UpdatePosition, Connects
<1>3. p \in Positions /\ TenantOf[p] = req[r].tenant
  BY <1>1, <1>2 DEF Local
<1>4. d \in Departments \cup {None}
  BY <1>1, <1>3 DEF TypeOK, Payload, Or
<1>5. p \notin gone /\ live' = live \cup {p} /\ dept' = [dept EXCEPT ![p] = d]
  BY <1>1, <1>2 DEF TypeOK
<1>6. d = None \/ (d \in live /\ TenantOf[d] = TenantOf[p]) \/ (p \in live /\ d = dept[p])
  BY <1>1, <1>2, <1>3 DEF Local, OfTenant, Or
<1> HIDE DEF d
<1> QED
  BY <1>2, <1>3, <1>4, <1>5, <1>6, PositionIInv

\* A deletion: every reference to the row goes with it.
LEMMA DeleteIInv == ASSUME IInv, NEW r \in Requests, Delete(r) PROVE IInv'
<1> DEFINE id == req[r].id
<1>1. /\ req[r].op = "delete" /\ id \in live /\ Local(req[r])
      /\ live' = live \ {id} /\ gone' = gone \cup {id} /\ Done(r)
      /\ manager' = manager /\ counted' = counted /\ moved' = moved
  BY DEF Delete, IInv
<1>2. /\ dept' = [i \in DOMAIN dept |-> IF dept[i] = id THEN None ELSE dept[i]]
      /\ pos' = [e \in Employees |-> IF pos[e] = id THEN None ELSE pos[e]]
  BY DEF Delete
<1>3. TypeOK /\ References /\ DOMAIN dept = Employees \cup Positions
  BY DEF IInv, TypeOK
<1>4. id \in Departments \cup Positions /\ id \notin Employees
  BY <1>1, IdsAssumption DEF Local
<1>5. /\ \A i \in DOMAIN dept : dept'[i] = IF dept[i] = id THEN None ELSE dept[i]
      /\ \A i \in Employees : pos'[i] = IF pos[i] = id THEN None ELSE pos[i]
  BY <1>2
<1>6. req' \in [Requests -> Request] /\ \A q \in Requests : Local(req[q])'
  <2>1. live \cap Employees \subseteq live'
    BY <1>1, <1>4
  <2>2. \A e \in counted' : e \in counted /\ {dept'[e], pos'[e]} \subseteq {dept[e], pos[e], None}
    BY <1>1, <1>3, <1>5 DEF TypeOK
  <2> QED
    BY <1>1, <2>1, <2>2, DoneLocal
<1>7. TypeOK'
  <2>1. /\ dept' \in [Employees \cup Positions -> Departments \cup {None}]
        /\ pos' \in [Employees -> Positions \cup {None}]
    BY <1>2, <1>3 DEF TypeOK
  <2>2. counted \subseteq live' \cap Employees /\ moved \subseteq live' \cap Employees
    BY <1>1, <1>3, <1>4 DEF TypeOK
  <2> QED
    BY <1>1, <1>3, <1>4, <1>6, <2>1, <2>2 DEF TypeOK
<1>8. References'
  <2>1. ASSUME NEW i \in live' \cap Employees
        PROVE  /\ manager'[i] = None \/ (manager'[i] \in live' /\ TenantOf[manager'[i]] = TenantOf[i])
               /\ pos'[i] = None \/ (pos'[i] \in live' /\ TenantOf[pos'[i]] = TenantOf[i]) \/ i \in moved'
    <3>1. manager[i] \in Employees \cup {None}
      BY <1>3 DEF TypeOK
    <3> QED
      BY <1>1, <1>3, <1>4, <1>5, <3>1 DEF References, Found, Find
  <2>2. ASSUME NEW i \in live' \cap DOMAIN dept
        PROVE  dept'[i] = None \/ (dept'[i] \in live' /\ TenantOf[dept'[i]] = TenantOf[i]) \/ i \in moved'
    BY <1>1, <1>3, <1>5 DEF References, Found, Find
  <2>3. \A i \in moved' : {dept'[i], pos'[i]} \subseteq live' \cup {None}
    BY <1>1, <1>3, <1>5 DEF References, TypeOK
  <2>4. DOMAIN dept' = DOMAIN dept
    BY <1>2
  <2> QED
    BY <2>1, <2>2, <2>3, <2>4 DEF References, Found, Find
<1> QED
  BY <1>6, <1>7, <1>8 DEF IInv

\* A request that fails writes nothing.
LEMMA FailIInv == ASSUME IInv, NEW r \in Requests, Fail(r) PROVE IInv'
<1>1. /\ live' = live /\ gone' = gone /\ dept' = dept /\ pos' = pos
      /\ manager' = manager /\ counted' = counted /\ moved' = moved /\ Done(r)
  BY DEF Fail, rows
<1>2. req' \in [Requests -> Request] /\ \A q \in Requests : Local(req[q])'
  BY <1>1, DoneLocal
<1>3. TypeOK' /\ References'
  BY <1>1, <1>2 DEF IInv, TypeOK, References, Found, Find
<1> QED
  BY <1>2, <1>3 DEF IInv

\* A department that is new is nobody's yet.
LEMMA NewDepartmentIInv ==
  ASSUME IInv, NEW d \in Departments, NewDepartment(d) PROVE IInv'
<1>1. /\ d \notin gone /\ live' = live \cup {d} /\ gone' = gone /\ dept' = dept /\ pos' = pos
      /\ manager' = manager /\ counted' = counted /\ req' = req /\ moved' = moved
  BY DEF NewDepartment
<1>2. d \in Ids /\ d \notin Employees /\ d \notin Positions
  BY IdsAssumption DEF Ids
<1>3. TypeOK'
  BY <1>1, <1>2 DEF IInv, TypeOK
<1>4. References'
  <2>1. DOMAIN dept = Employees \cup Positions
    BY DEF IInv, TypeOK
  <2> QED
    BY <1>1, <1>2, <2>1 DEF IInv, References, Found, Find
<1>5. \A q \in Requests : Local(req[q])'
  BY <1>1 DEF IInv, Local, OfTenant, Counted
<1> QED
  BY <1>3, <1>4, <1>5 DEF IInv

\* The invariant is kept by every step.
LEMMA NextIInv == IInv /\ [Next]_vars => IInv'
<1> SUFFICES ASSUME IInv, [Next]_vars PROVE IInv'
  OBVIOUS
<1>1. CASE UNCHANGED vars
  BY <1>1, StutterIInv
<1>2. ASSUME NEW d \in Departments, NewDepartment(d) PROVE IInv'
  BY <1>2, NewDepartmentIInv
<1>3. ASSUME NEW r \in Requests, Start(r) PROVE IInv'
  BY <1>3, StartIInv
<1>4. ASSUME NEW r \in Requests, Write(r) PROVE IInv'
  BY <1>4, CreateEmployeeIInv, UpdateEmployeeIInv, CreatePositionIInv, UpdatePositionIInv,
     DeleteIInv, FailIInv DEF Write
<1> QED
  BY <1>1, <1>2, <1>3, <1>4 DEF Next

LEMMA Invariance == Spec => []IInv
BY InitIInv, NextIInv, PTL DEF Spec
--------------------------------------------------------------------------------
\* TypeOK holds in every reachable state, whatever the ids and payloads.
THEOREM TypeCorrect == Spec => []TypeOK
BY Invariance, PTL DEF IInv

\* References holds in every reachable state: no deletion that passes a request
\* which refers to the row leaves a reference to it behind.
THEOREM ReferencesHold == Spec => []References
BY Invariance, PTL DEF IInv
--------------------------------------------------------------------------------
(* What a step may do to an employee.                                       *)

\* Only updateEmployee changes the status of an employee that is there, and only
\* as its request says.
LEMMA StatusStep ==
  ASSUME IInv, Next, NEW e \in Employees \cap live, (e \in counted) # (e \in counted')
  PROVE  \E r \in Requests :
           /\ req[r].op = "updateEmployee" /\ req[r].id = e
           /\ req[r].with.status = IF e \in counted' THEN "on" ELSE "off"
<1>1. counted' # counted
  OBVIOUS
<1>2. PICK r \in Requests : (\E x \in Employees : CreateEmployee(r, x)) \/ UpdateEmployee(r)
  <2>1. ASSUME NEW r \in Requests, Start(r) PROVE FALSE
    BY <1>1, <2>1 DEF Start, CreateEmployeeStart, UpdateEmployeeStart, DeleteEmployeeStart,
       CreatePositionStart, UpdatePositionStart, DeleteStart, Begin, rows
  <2> QED
    BY <1>1, <2>1 DEF Next, Write, CreatePosition, UpdatePosition, Delete, Fail, rows, NewDepartment
<1>3. CASE \E x \in Employees : CreateEmployee(r, x)
  BY <1>3 DEF CreateEmployee
<1>4. CASE UpdateEmployee(r)
  <2>1. req[r].op = "updateEmployee" /\ req[r] \in Request
    BY <1>4 DEF UpdateEmployee, IInv, TypeOK
  <2>2. req[r].with.status \in {"keep", "on", "off"}
    BY <2>1 DEF Request, Payload
  <2>3. \/ req[r].with.status = "on" /\ counted' = counted \cup {req[r].id}
        \/ req[r].with.status = "off" /\ counted' = counted \ {req[r].id}
        \/ counted' = counted
    BY <1>4, <2>2 DEF UpdateEmployee
  <2> QED
    BY <2>1, <2>3
<1> QED
  BY <1>2, <1>3, <1>4

\* StatusAsAsked: an employee is terminated, or taken back, only by a request
\* that says so.
THEOREM StatusSafe == Spec => StatusAsAsked
<1>1. IInv /\ [Next]_vars =>
        [\A e \in Employees \cap live :
          (e \in counted) # (e \in counted') =>
            \E r \in Requests :
              /\ req[r].op = "updateEmployee" /\ req[r].id = e
              /\ req[r].with.status = IF e \in counted' THEN "on" ELSE "off"]_vars
  BY StatusStep
<1> QED
  BY <1>1, Invariance, PTL DEF Spec, StatusAsAsked

\* An active employee loses its place only to a deletion, and that has counted
\* too early or for another tenant.
LEMMA PlaceStep ==
  ASSUME IInv, Next, NEW e \in counted,
         (dept[e] # None /\ dept'[e] = None) \/ (pos[e] # None /\ pos'[e] = None)
  PROVE  \E r \in Requests : /\ req[r].op = "delete" /\ req[r].id \in {dept[e], pos[e]}
                             /\ ~req[r].fresh \/ req[r].tenant # TenantOf[e]
<1>0. /\ e \in live \cap Employees /\ TypeOK
      /\ dept \in [Employees \cup Positions -> Departments \cup {None}]
      /\ pos \in [Employees -> Positions \cup {None}]
  BY DEF IInv, TypeOK
<1>1. ~(dept' = dept /\ pos' = pos)
  OBVIOUS
<1>2. PICK r \in Requests :
        \/ \E x \in Employees : CreateEmployee(r, x)
        \/ UpdateEmployee(r)
        \/ \E p \in Positions : CreatePosition(r, p)
        \/ UpdatePosition(r) \/ Delete(r)
  <2>1. ASSUME NEW r \in Requests, Start(r) PROVE FALSE
    BY <1>1, <2>1 DEF Start, CreateEmployeeStart, UpdateEmployeeStart, DeleteEmployeeStart,
       CreatePositionStart, UpdatePositionStart, DeleteStart, Begin, rows
  <2> QED
    BY <1>1, <2>1 DEF Next, Write, Fail, rows, NewDepartment
<1>3. CASE \E x \in Employees : CreateEmployee(r, x)
  <2>1. PICK x \in Employees : CreateEmployee(r, x)
    BY <1>3
  <2>2. x # e
    BY <1>0, <2>1 DEF CreateEmployee
  <2>3. dept'[e] = dept[e] /\ pos'[e] = pos[e]
    BY <1>0, <2>1, <2>2 DEF CreateEmployee
  <2> QED
    BY <2>3
<1>4. CASE UpdateEmployee(r)
  <2>1. /\ dept'[e] \in {dept[e], Or(req[r].with.dept, dept[e])}
        /\ pos'[e] \in {pos[e], Or(req[r].with.pos, pos[e])}
    BY <1>0, <1>4 DEF UpdateEmployee
  <2> QED
    BY <2>1 DEF Or
<1>5. CASE (\E p \in Positions : CreatePosition(r, p)) \/ UpdatePosition(r)
  <2>1. PICK p \in Positions : \E d : dept' = [dept EXCEPT ![p] = d] /\ pos' = pos
    <3>1. UpdatePosition(r) => req[r].id \in Positions
      BY DEF UpdatePosition, IInv, Local
    <3> QED
      BY <1>5, <3>1 DEF CreatePosition, UpdatePosition
  <2>2. p # e
    BY <1>0, IdsAssumption
  <2>3. dept'[e] = dept[e] /\ pos'[e] = pos[e]
    BY <1>0, <2>1, <2>2
  <2> QED
    BY <2>3
<1>6. CASE Delete(r)
  <2>1. req[r].op = "delete" /\ Local(req[r])
    BY <1>6 DEF Delete, IInv
  <2>2. req[r].id \in {dept[e], pos[e]}
    BY <1>0, <1>6 DEF Delete
  <2>3. ~req[r].fresh \/ req[r].tenant # TenantOf[e]
    BY <2>1, <2>2 DEF Local, Counted
  <2> QED
    BY <2>1, <2>2, <2>3
<1> QED
  BY <1>2, <1>3, <1>4, <1>5, <1>6

\* ActiveKeepTheirPlace: an active employee loses its department or position
\* only to a deletion that counted before the latest write of an employee, or
\* that another tenant makes.
THEOREM PlacesSafe == Spec => ActiveKeepTheirPlace
<1>1. IInv /\ [Next]_vars =>
        [\A e \in counted :
          (dept[e] # None /\ dept'[e] = None) \/ (pos[e] # None /\ pos'[e] = None) =>
            \E r \in Requests : /\ req[r].op = "delete" /\ req[r].id \in {dept[e], pos[e]}
                                /\ ~req[r].fresh \/ req[r].tenant # TenantOf[e]]_vars
  BY PlaceStep
<1> QED
  BY <1>1, Invariance, PTL DEF Spec, ActiveKeepTheirPlace

\* ActiveAsAsked: both together.
THEOREM ActiveSafe == Spec => ActiveAsAsked
BY PlacesSafe, StatusSafe, PTL DEF ActiveAsAsked
--------------------------------------------------------------------------------
(* Staff implements RowStore.                                               *)

\* The rows of RowStore that live are those of Staff, and what they refer to is
\* there.
LEMMA RefsLive ==
  ASSUME IInv
  PROVE  Store!Live = live /\ \A i \in Ids : Refs[i] \subseteq live
<1>1. Store!Live = live
  BY DEF IInv, TypeOK, Store!Live, Life
<1>2. ASSUME NEW i \in Ids, i \in live PROVE Refers(i) \subseteq live \cup {None}
  <2>1. i \in Employees \cup Positions => dept[i] \in live \cup {None}
    BY <1>2 DEF IInv, TypeOK, References, Found, Find
  <2>2. i \in Employees => pos[i] \in live \cup {None} /\ manager[i] \in live \cup {None}
    BY <1>2 DEF IInv, TypeOK, References, Found, Find
  <2> QED
    BY <2>1, <2>2 DEF Refers
<1> QED
  BY <1>1, <1>2 DEF Refs

\* A step that writes no row is none of RowStore.
LEMMA StoreStutter ==
  ASSUME UNCHANGED <<live, gone, dept, pos, manager>>
  PROVE  UNCHANGED Store!vars
BY DEF Store!vars, Life, OwnerOf, Refs, Refers

\* A new row: the others stay as they were.
LEMMA StoreCreate ==
  ASSUME IInv, NEW i \in Ids, i \notin live \cup gone,
         live' = live \cup {i}, gone' = gone,
         \A j \in Ids \ {i} : Refers(j)' = Refers(j),
         Refers(i)' \subseteq live \cup {None}
  PROVE  Store!Create
<1>1. Life[i] = "absent" /\ Life' = [Life EXCEPT ![i] = "live"]
  BY DEF Life
<1>2. OwnerOf' = [OwnerOf EXCEPT ![i] = TenantOf[i]] /\ TenantOf[i] \in Tenants
  BY IdsAssumption DEF OwnerOf
<1>3. Refs' = [Refs EXCEPT ![i] = Refs'[i]]
  BY DEF Refs
<1>4. Refs'[i] \subseteq Store!Live
  BY RefsLive DEF Refs
<1> QED
  BY <1>1, <1>2, <1>3, <1>4 DEF Store!Create, Store!Refer

\* A row that is there is written: it has its old references or new ones.
LEMMA StoreUpdate ==
  ASSUME IInv, NEW i \in Ids, i \in live, live' = live, gone' = gone,
         \A j \in Ids \ {i} : Refers(j)' = Refers(j),
         Refers(i)' \subseteq live \cup {None}
  PROVE  Store!Update
<1>1. UNCHANGED <<Life, OwnerOf>>
  BY DEF Life, OwnerOf
<1>2. Refs' = [Refs EXCEPT ![i] = Refs'[i]]
  BY DEF Refs
<1>3. i \in Store!Live /\ Refs'[i] \subseteq Store!Live
  BY RefsLive DEF Refs
<1> QED
  BY <1>1, <1>2, <1>3 DEF Store!Update, Store!Refer

\* The writes of employees.
LEMMA StoreEmployee ==
  ASSUME IInv, NEW r \in Requests, NEW e \in Employees,
         CreateEmployee(r, e) \/ (UpdateEmployee(r) /\ e = req[r].id)
  PROVE  Store!Create \/ Store!Update
<1> DEFINE with == req[r].with
<1>1. /\ e \in Ids /\ e \notin gone /\ with \in Payload
      /\ {with.dept, with.pos, with.manager} \subseteq live \cup {None}
      /\ dept \in [Employees \cup Positions -> Departments \cup {None}]
      /\ pos \in [Employees -> Positions \cup {None}]
      /\ manager \in [Employees -> Employees \cup {None}]
  BY IdsAssumption DEF IInv, TypeOK, Request, Ids, CreateEmployee, UpdateEmployee, Connects
<1>2. ASSUME NEW d, NEW p, NEW m, {d, p, m} \subseteq live \cup {None},
             dept' = [dept EXCEPT ![e] = d], pos' = [pos EXCEPT ![e] = p],
             manager' = [manager EXCEPT ![e] = m]
      PROVE  /\ \A j \in Ids \ {e} : Refers(j)' = Refers(j)
             /\ Refers(e)' \subseteq live \cup {None}
  BY <1>1, <1>2 DEF Refers
<1>3. CASE CreateEmployee(r, e)
  <2>1. e \notin live /\ live' = live \cup {e} /\ gone' = gone
    BY <1>3 DEF CreateEmployee
  <2>2. /\ \A j \in Ids \ {e} : Refers(j)' = Refers(j)
        /\ Refers(e)' \subseteq live \cup {None}
    <3>1. /\ dept' = [dept EXCEPT ![e] = with.dept] /\ pos' = [pos EXCEPT ![e] = with.pos]
          /\ manager' = [manager EXCEPT ![e] = with.manager]
      BY <1>3 DEF CreateEmployee
    <3> QED
      BY <1>1, <1>2, <3>1
  <2> QED
    BY <1>1, <2>1, <2>2, StoreCreate
<1>4. CASE UpdateEmployee(r) /\ e = req[r].id
  <2>1. e \in live /\ live' = live /\ gone' = gone
    BY <1>4 DEF UpdateEmployee, IInv, Local
  <2>2. {dept[e], pos[e], manager[e]} \subseteq live \cup {None}
    BY <1>1, <2>1, RefsLive DEF Refs, Refers
  <2>3. /\ \A j \in Ids \ {e} : Refers(j)' = Refers(j)
        /\ Refers(e)' \subseteq live \cup {None}
    <3>1. {Or(with.dept, dept[e]), Or(with.pos, pos[e]), Or(with.manager, manager[e])}
             \subseteq live \cup {None}
      BY <1>1, <2>2 DEF Or
    <3>2. /\ dept' = [dept EXCEPT ![e] = Or(with.dept, dept[e])]
          /\ pos' = [pos EXCEPT ![e] = Or(with.pos, pos[e])]
          /\ manager' = [manager EXCEPT ![e] = Or(with.manager, manager[e])]
      BY <1>1, <1>4 DEF UpdateEmployee
    <3> QED
      BY <1>2, <3>1, <3>2
  <2> QED
    BY <1>1, <2>1, <2>3, StoreUpdate
<1> QED
  BY <1>3, <1>4

\* The writes of positions.
LEMMA StorePosition ==
  ASSUME IInv, NEW r \in Requests, NEW p \in Positions,
         CreatePosition(r, p) \/ (UpdatePosition(r) /\ p = req[r].id)
  PROVE  Store!Create \/ Store!Update
<1> DEFINE with == req[r].with
<1>1. /\ p \in Ids /\ p \notin Employees /\ with.dept \in live \cup {None}
      /\ dept \in [Employees \cup Positions -> Departments \cup {None}]
      /\ gone' = gone /\ pos' = pos /\ manager' = manager
  BY IdsAssumption DEF IInv, TypeOK, Ids, CreatePosition, UpdatePosition, Connects
<1>2. ASSUME NEW d \in live \cup {None}, dept' = [dept EXCEPT ![p] = d]
      PROVE  /\ \A j \in Ids \ {p} : Refers(j)' = Refers(j)
             /\ Refers(p)' \subseteq live \cup {None}
  BY <1>1, <1>2 DEF Refers
<1>3. CASE CreatePosition(r, p)
  <2>1. p \notin live \cup gone /\ live' = live \cup {p}
    BY <1>3 DEF CreatePosition
  <2>2. /\ \A j \in Ids \ {p} : Refers(j)' = Refers(j)
        /\ Refers(p)' \subseteq live \cup {None}
    BY <1>1, <1>2, <1>3 DEF CreatePosition
  <2> QED
    BY <1>1, <2>1, <2>2, StoreCreate
<1>4. CASE UpdatePosition(r) /\ p = req[r].id
  <2>1. p \in live /\ live' = live
    BY <1>4 DEF UpdatePosition
  <2>2. dept[p] \in live \cup {None}
    BY <1>1, <2>1, RefsLive DEF Refs, Refers
  <2>3. /\ \A j \in Ids \ {p} : Refers(j)' = Refers(j)
        /\ Refers(p)' \subseteq live \cup {None}
    <3>1. Or(with.dept, dept[p]) \in live \cup {None}
      BY <1>1, <2>2 DEF Or
    <3>2. dept' = [dept EXCEPT ![p] = Or(with.dept, dept[p])]
      BY <1>1, <1>4 DEF UpdatePosition
    <3> QED
      BY <1>2, <3>1, <3>2
  <2> QED
    BY <1>1, <2>1, <2>3, StoreUpdate
<1> QED
  BY <1>3, <1>4

\* A deletion: the foreign keys that refer to the row are set to null.
LEMMA StoreDelete == ASSUME IInv, NEW r \in Requests, Delete(r) PROVE Store!Delete
<1> DEFINE id == req[r].id
<1>1. /\ id \in live /\ id \in Departments \cup Positions /\ id # None
      /\ live' = live \ {id} /\ gone' = gone \cup {id} /\ manager' = manager
      /\ dept' = [i \in DOMAIN dept |-> IF dept[i] = id THEN None ELSE dept[i]]
      /\ pos' = [e \in Employees |-> IF pos[e] = id THEN None ELSE pos[e]]
  BY NoneAssumption DEF Delete, IInv, TypeOK, Local, Ids
<1>2. /\ dept \in [Employees \cup Positions -> Departments \cup {None}]
      /\ pos \in [Employees -> Positions \cup {None}]
      /\ manager \in [Employees -> Employees \cup {None}] /\ id \notin Employees
  BY <1>1, IdsAssumption DEF IInv, TypeOK
<1>3. Life' = [Life EXCEPT ![id] = "gone"] /\ OwnerOf' = OwnerOf
  BY <1>1 DEF Life, OwnerOf, IInv, TypeOK
<1>4. ASSUME NEW j \in Ids, j # id, j \in live
      PROVE  Refers(j)' \ {None} = (Refers(j) \ {None}) \ {id}
  <2>1. j \in Employees \cup Positions =>
          dept'[j] = IF dept[j] = id THEN None ELSE dept[j]
    BY <1>1, <1>2
  <2>2. j \in Employees => /\ pos'[j] = IF pos[j] = id THEN None ELSE pos[j]
                           /\ manager'[j] = manager[j] /\ manager[j] # id
    BY <1>1, <1>2
  <2> QED
    BY <2>1, <2>2 DEF Refers
<1>5. Refs' = [j \in Ids |-> IF j = id THEN {} ELSE Refs[j] \ {id}]
  BY <1>1, <1>4 DEF Refs
<1>6. id \in Store!Live
  BY <1>1, RefsLive
<1> QED
  BY <1>3, <1>5, <1>6 DEF Store!Delete

\* Every step is one of RowStore or none.
LEMMA StoreNext == IInv /\ [Next]_vars => [Store!Next]_(Store!vars)
<1> SUFFICES ASSUME IInv, [Next]_vars PROVE Store!Next \/ UNCHANGED Store!vars
  OBVIOUS
<1>1. CASE UNCHANGED vars
  BY <1>1, StoreStutter DEF vars, rows
<1>2. ASSUME NEW d \in Departments, NewDepartment(d) PROVE Store!Create
  <2>1. d \in Ids /\ d \notin Employees \cup Positions
    BY IdsAssumption DEF Ids
  <2>2. /\ \A j \in Ids \ {d} : Refers(j)' = Refers(j)
        /\ Refers(d)' \subseteq live \cup {None}
    BY <1>2, <2>1 DEF NewDepartment, Refers
  <2> QED
    BY <1>2, <2>1, <2>2, StoreCreate DEF NewDepartment
<1>3. ASSUME NEW r \in Requests, Start(r) \/ Fail(r) PROVE UNCHANGED Store!vars
  BY <1>3, StoreStutter DEF Start, CreateEmployeeStart, UpdateEmployeeStart, DeleteEmployeeStart,
     CreatePositionStart, UpdatePositionStart, DeleteStart, Begin, Fail, rows
<1>4. ASSUME NEW r \in Requests, UpdateEmployee(r) PROVE req[r].id \in Employees
  BY <1>4 DEF UpdateEmployee, IInv, Local
<1>5. ASSUME NEW r \in Requests, UpdatePosition(r) PROVE req[r].id \in Positions
  BY <1>5 DEF UpdatePosition, IInv, Local
<1> QED
  BY <1>1, <1>2, <1>3, <1>4, <1>5, StoreEmployee, StorePosition, StoreDelete
     DEF Next, Write, Store!Next

\* StoreSpec: whatever a request has looked for before it writes, rows are
\* created once, written while they are there, and gone for good, and they refer
\* to rows that are there; so Staff implements RowStore.
THEOREM Refinement == Spec => StoreSpec
<1>1. Init => Store!Init
  BY DEF Init, Store!Init, Life, OwnerOf, Refs
<1> QED
  BY <1>1, StoreNext, Invariance, PTL DEF Spec, StoreSpec, Store!Spec
================================================================================
