--------------------------- MODULE PrimaryRecordsProofs ---------------------------
(***************************************************************************)
(* The safety of PrimaryRecords for any employees, tenants, rows and       *)
(* requests.                                                               *)
(*                                                                         *)
(* The invariant IInv has, beside the types, what a request still knows    *)
(* after its checks (Local), that requests for the same records know of    *)
(* each other (PeersInv), and at most one primary record where they have   *)
(* never overlapped (SerialInv).                                           *)
(***************************************************************************)
EXTENDS PrimaryRecords, FiniteSetTheorems, TLAPS

\* The primary records that q is about.
Flagged(q) == {i \in primary : owner[i] = q.emp /\ KindOf[i] = q.kind}

\* A request is for the records of its employee; its row is one of them, if it
\* is there at all.  Once an undisturbed request has cleared the flags, no other
\* row of them is primary.
Local(q) ==
  /\ q.clear => q.op # "none" /\ q.primary
  /\ q.op # "none" =>
       /\ q.emp \in Employees /\ q.tenant = TenantOf[q.emp]
       /\ q.op # "add" => q.id \in Ids /\ owner[q.id] = q.emp /\ KindOf[q.id] = q.kind
       /\ q.op = "add" => q.id = NoId
       /\ q.op = "flag" => q.primary
       /\ q.op \in {"unflag", "delete"} => ~q.primary
       /\ ~q.alone => <<q.emp, q.kind>> \in raced
       /\ q.alone /\ q.primary /\ ~q.clear => \A i \in Flagged(q) : i = q.id

\* Two requests for the same records know that they are not alone.
PeersInv == \A q, r \in Requests :
  /\ q # r /\ req[q].op # "none" /\ req[r].op # "none"
  /\ req[q].emp = req[r].emp /\ req[q].kind = req[r].kind
  => ~req[q].alone

SerialInv == \A e \in Employees, k \in Kinds : <<e, k>> \notin raced =>
  \A i, j \in primary :
    owner[i] = e /\ owner[j] = e /\ KindOf[i] = k /\ KindOf[j] = k => i = j

IInv == TypeOK /\ (\A r \in Requests : Local(req[r])) /\ PeersInv /\ SerialInv
--------------------------------------------------------------------------------
\* A request that has ended knows nothing.
LEMMA IdleIs == Idle \in Request /\ Idle.op = "none" /\ Idle.emp = NoOne /\ Idle.clear = FALSE
BY DEF Idle, Request, Kinds

\* No rows and no requests.
LEMMA InitIInv == Init => IInv
<1> SUFFICES ASSUME Init PROVE IInv
  OBVIOUS
<1>1. req = [r \in Requests |-> Idle] /\ primary = {} /\ deleted = {} /\ raced = {}
      /\ owner = [i \in Ids |-> NoOne]
  BY DEF Init
<1>2. TypeOK
  BY <1>1, IdleIs DEF TypeOK, Rows
<1>3. (\A r \in Requests : Local(req[r])) /\ PeersInv
  BY <1>1, IdleIs DEF Local, PeersInv
<1>4. SerialInv
  BY <1>1 DEF SerialInv
<1> QED
  BY <1>2, <1>3, <1>4 DEF IInv

\* Without a step nothing changes.
LEMMA StutterIInv == ASSUME IInv, UNCHANGED vars PROVE IInv'
BY DEF IInv, TypeOK, Rows, Local, Flagged, PeersInv, SerialInv, vars

\* A request that begins: its peers know of it, and it of them.
LEMMA BeginIInv ==
  ASSUME IInv, NEW r \in Requests, NEW first \in Request, Begin(r, first),
         first.op # "none", first.alone, first.clear = first.primary,
         first.emp \in Employees, first.tenant = TenantOf[first.emp],
         first.op # "add" =>
           first.id \in Ids /\ owner[first.id] = first.emp /\ KindOf[first.id] = first.kind,
         first.op = "add" => first.id = NoId,
         first.op = "flag" => first.primary,
         first.op \in {"unflag", "delete"} => ~first.primary
  PROVE  IInv'
<1> DEFINE peers == Peers(r, first.emp, first.kind)
           mine == [first EXCEPT !.alone = peers = {}]
<1>1. /\ req[r] = Idle /\ owner' = owner /\ deleted' = deleted /\ primary' = primary
      /\ raced' = IF peers = {} THEN raced ELSE raced \cup {<<first.emp, first.kind>>}
      /\ req' = [q \in Requests |->
           IF q = r THEN mine
           ELSE IF q \in peers THEN [req[q] EXCEPT !.alone = FALSE] ELSE req[q]]
  BY DEF Begin
<1>2. peers = {q \in Requests \ {r} : req[q].emp = first.emp /\ req[q].kind = first.kind}
  BY DEF Peers
<1>3. /\ mine \in Request /\ mine.alone = (peers = {}) /\ mine.op = first.op /\ mine.clear = first.clear
      /\ mine.emp = first.emp /\ mine.kind = first.kind /\ mine.id = first.id
      /\ mine.primary = first.primary /\ mine.tenant = first.tenant
  BY DEF Request
<1>4. ASSUME NEW q \in Requests
      PROVE  LET old == [req[q] EXCEPT !.alone = FALSE]
             IN  /\ old \in Request /\ old.alone = FALSE /\ old.op = req[q].op /\ old.clear = req[q].clear
                 /\ old.emp = req[q].emp /\ old.kind = req[q].kind /\ old.id = req[q].id
                 /\ old.primary = req[q].primary /\ old.tenant = req[q].tenant
  <2>1. req[q] \in Request
    BY DEF IInv, TypeOK
  <2> QED
    BY <2>1 DEF Request
<1> HIDE DEF mine, peers
<1>5. req'[r] = mine
  BY <1>1
<1>6. ASSUME NEW q \in Requests, q # r
      PROVE  /\ req'[q].op = req[q].op /\ req'[q].clear = req[q].clear /\ req'[q].emp = req[q].emp
             /\ req'[q].kind = req[q].kind /\ req'[q].id = req[q].id
             /\ req'[q].primary = req[q].primary /\ req'[q].tenant = req[q].tenant
             /\ req'[q].alone => req[q].alone /\ q \notin peers
             /\ ~req'[q].alone => ~req[q].alone \/ q \in peers
  <2>1. CASE q \in peers
    BY <1>1, <1>4, <1>6, <2>1
  <2>2. CASE q \notin peers
    BY <1>1, <1>6, <2>2
  <2> QED
    BY <2>1, <2>2
<1>7. TypeOK'
  <2>1. req' \in [Requests -> Request]
    <3>1. \A q \in Requests : req[q] \in Request /\ [req[q] EXCEPT !.alone = FALSE] \in Request
      BY <1>4 DEF IInv, TypeOK
    <3> QED
      BY <1>1, <1>3, <3>1
  <2>2. <<first.emp, first.kind>> \in Employees \X Kinds
    BY DEF Request
  <2> QED
    BY <1>1, <2>1, <2>2 DEF IInv, TypeOK, Rows
<1>8. ASSUME NEW q \in Requests PROVE Local(req[q])'
  <2>1. CASE q = r
    BY <1>1, <1>2, <1>3, <1>5, <2>1 DEF Local
  <2>2. CASE q # r
    <3>1. Local(req[q])
      BY DEF IInv
    <3>2. q \in peers => req[q].emp = first.emp /\ req[q].kind = first.kind
      BY <1>2
    <3>3. ~req'[q].alone /\ req[q].op # "none" => <<req[q].emp, req[q].kind>> \in raced'
      BY <1>1, <1>6, <2>2, <3>1, <3>2 DEF Local
    <3> QED
      BY <1>1, <1>6, <2>2, <3>1, <3>3 DEF Local, Flagged
  <2> QED
    BY <2>1, <2>2
<1>9. PeersInv'
  <2>1. ASSUME NEW q \in Requests, NEW s \in Requests, q # s,
               req'[q].op # "none", req'[s].op # "none",
               req'[q].emp = req'[s].emp, req'[q].kind = req'[s].kind
        PROVE  ~req'[q].alone
    <3>1. CASE q = r
      <4>1. s \in peers
        BY <1>2, <1>3, <1>5, <1>6, <2>1, <3>1
      <4> QED
        BY <1>3, <1>5, <3>1, <4>1
    <3>2. CASE s = r
      <4>1. q \in peers
        BY <1>2, <1>3, <1>5, <1>6, <2>1, <3>2
      <4> QED
        BY <1>6, <2>1, <3>2, <4>1
    <3>3. CASE q # r /\ s # r
      BY <1>6, <2>1, <3>3 DEF IInv, PeersInv
    <3> QED
      BY <3>1, <3>2, <3>3
  <2> QED
    BY <2>1 DEF PeersInv
<1>10. SerialInv'
  <2>1. raced \subseteq raced'
    BY <1>1
  <2> QED
    BY <1>1, <2>1 DEF IInv, SerialInv
<1> QED
  BY <1>7, <1>8, <1>9, <1>10 DEF IInv
\* Each request that starts has made its checks.
LEMMA StartIInv == ASSUME IInv, NEW r \in Requests, Start(r) PROVE IInv'
<1>0. PICK e \in Employees, tenant \in Tenants :
        \/ \E k \in Kinds, flag \in BOOLEAN : AddStart(r, e, tenant, k, flag)
        \/ \E id \in Ids :
             \/ SetPrimaryStart(r, e, tenant, id) \/ DeleteStart(r, e, tenant, id)
             \/ \E flag \in BOOLEAN : UpdateContactStart(r, e, tenant, id, flag)
  BY DEF Start
<1>a. ASSUME NEW op \in {"add", "flag", "unflag", "delete"}, NEW k \in Kinds,
             NEW id \in Ids \cup {NoId}, NEW flag \in BOOLEAN,
             Begin(r, Wants(op, e, tenant, k, id, flag)), TenantOf[e] = tenant,
             op # "add" => id \in Ids /\ owner[id] = e /\ KindOf[id] = k,
             op = "add" => id = NoId, op = "flag" => flag, op \in {"unflag", "delete"} => ~flag
      PROVE  IInv'
  <2> DEFINE first == Wants(op, e, tenant, k, id, flag)
  <2>1. first \in Request
    BY DEF Wants, Request
  <2>2. /\ first.op = op /\ first.alone = TRUE /\ first.clear = flag /\ first.primary = flag
        /\ first.emp = e /\ first.tenant = tenant /\ first.id = id /\ first.kind = k
    BY DEF Wants
  <2> HIDE DEF first
  <2> QED
    BY <1>a, <2>1, <2>2, BeginIInv DEF first
<1>1. ASSUME NEW k \in Kinds, NEW flag \in BOOLEAN, AddStart(r, e, tenant, k, flag) PROVE IInv'
  BY <1>1, <1>a DEF AddStart
<1>2. ASSUME NEW id \in Ids, SetPrimaryStart(r, e, tenant, id) PROVE IInv'
  BY <1>2, <1>a DEF SetPrimaryStart, Owns, Kinds
<1>3. ASSUME NEW id \in Ids, NEW flag \in BOOLEAN, UpdateContactStart(r, e, tenant, id, flag)
      PROVE  IInv'
  <2>1. CASE flag = TRUE
    BY <1>3, <2>1, <1>a DEF UpdateContactStart, Owns, Kinds
  <2>2. CASE flag = FALSE
    BY <1>3, <2>2, <1>a DEF UpdateContactStart, Owns, Kinds
  <2> QED
    BY <2>1, <2>2
<1>4. ASSUME NEW id \in Ids, DeleteStart(r, e, tenant, id) PROVE IInv'
  BY <1>4, <1>a, KindOfAssumption DEF DeleteStart, Owns
<1> QED
  BY <1>0, <1>1, <1>2, <1>3, <1>4
--------------------------------------------------------------------------------
(* The writes.                                                              *)

\* What the statement of one request leaves to the others: it makes primary
\* only records of its own employee and kind, and those who could mind know
\* that they are not alone.
LEMMA WriteIInv ==
  ASSUME IInv, NEW r \in Requests, req[r].op # "none", NEW next \in Request,
         req' = [req EXCEPT ![r] = next], raced' = raced, TypeOK', Local(req[r])',
         next.op # "none" => next.emp = req[r].emp /\ next.kind = req[r].kind /\ next.alone = req[r].alone,
         \A i \in Ids : owner[i] # NoOne => owner'[i] = owner[i],
         \A i \in primary' : \/ i \in primary /\ owner'[i] = owner[i]
                             \/ owner'[i] = req[r].emp /\ KindOf[i] = req[r].kind,
         <<req[r].emp, req[r].kind>> \notin raced =>
           \A i, j \in primary' :
             owner'[i] = req[r].emp /\ owner'[j] = req[r].emp
               /\ KindOf[i] = req[r].kind /\ KindOf[j] = req[r].kind => i = j
  PROVE  IInv'
<1>1. req'[r] = next /\ \A q \in Requests : q # r => req'[q] = req[q]
  BY DEF IInv, TypeOK
<1>2. ASSUME NEW q \in Requests, q # r PROVE Local(req[q])'
  <2>1. SUFFICES ASSUME req[q].op # "none" PROVE Local(req[q])'
    <3>1. Local(req[q]) /\ req'[q] = req[q]
      BY <1>1, <1>2 DEF IInv
    <3> QED
      BY <3>1 DEF Local
  <2>2. Local(req[q]) /\ Local(req[r]) /\ req'[q] = req[q]
    BY <1>1, <1>2 DEF IInv
  <2>3. req[q].op # "add" => owner'[req[q].id] = req[q].emp
    BY <2>1, <2>2, NoOneAssumption DEF Local
  <2>4. ASSUME req[q].alone, req[q].primary, ~req[q].clear, NEW i \in primary',
               owner'[i] = req[q].emp, KindOf[i] = req[q].kind
        PROVE  i = req[q].id
    <3>1. ~(req[q].emp = req[r].emp /\ req[q].kind = req[r].kind)
      BY <1>2, <2>1, <2>4 DEF IInv, PeersInv
    <3>2. i \in primary /\ owner'[i] = owner[i]
      BY <2>4, <3>1
    <3> QED
      BY <2>1, <2>2, <2>4, <3>2 DEF Local, Flagged
  <2> QED
    BY <2>1, <2>2, <2>3, <2>4 DEF Local, Flagged
<1>3. PeersInv'
  <2>1. ASSUME NEW q \in Requests, NEW s \in Requests, q # s,
               req'[q].op # "none", req'[s].op # "none",
               req'[q].emp = req'[s].emp, req'[q].kind = req'[s].kind
        PROVE  ~req'[q].alone
    BY <1>1, <2>1 DEF IInv, PeersInv
  <2> QED
    BY <2>1 DEF PeersInv
<1>4. SerialInv'
  <2>1. ASSUME NEW e \in Employees, NEW k \in Kinds, <<e, k>> \notin raced,
               NEW i \in primary', NEW j \in primary',
               owner'[i] = e, owner'[j] = e, KindOf[i] = k, KindOf[j] = k
        PROVE  i = j
    <3>1. CASE e = req[r].emp /\ k = req[r].kind
      BY <2>1, <3>1
    <3>2. CASE ~(e = req[r].emp /\ k = req[r].kind)
      <4>1. i \in primary /\ j \in primary /\ owner[i] = e /\ owner[j] = e
        BY <2>1, <3>2
      <4> QED
        BY <2>1, <4>1 DEF IInv, SerialInv
    <3> QED
      BY <3>1, <3>2
  <2> QED
    BY <2>1 DEF SerialInv
<1> QED
  BY <1>2, <1>3, <1>4 DEF IInv

\* What Local says of the records of a request that knows of no other.
LEMMA NotRaced ==
  ASSUME IInv, NEW r \in Requests, req[r].op # "none", <<req[r].emp, req[r].kind>> \notin raced
  PROVE  /\ req[r].alone
         /\ \A i, j \in primary :
              owner[i] = req[r].emp /\ owner[j] = req[r].emp
                /\ KindOf[i] = req[r].kind /\ KindOf[j] = req[r].kind => i = j
         /\ req[r].primary /\ ~req[r].clear =>
              \A i \in primary : owner[i] = req[r].emp /\ KindOf[i] = req[r].kind => i = req[r].id
<1>1. Local(req[r]) /\ req[r].kind \in Kinds /\ req[r].alone \in BOOLEAN
  BY DEF IInv, TypeOK, Request
<1>2. req[r].emp \in Employees /\ req[r].alone
  BY <1>1 DEF Local
<1> QED
  BY <1>1, <1>2 DEF Local, Flagged, IInv, SerialInv

\* The same for a statement that is the last of its request.
LEMMA EndIInv ==
  ASSUME IInv, NEW r \in Requests, req[r].op # "none",
         req' = [req EXCEPT ![r] = Idle], raced' = raced, TypeOK',
         \A i \in Ids : owner[i] # NoOne => owner'[i] = owner[i],
         \A i \in primary' : \/ i \in primary /\ owner'[i] = owner[i]
                             \/ owner'[i] = req[r].emp /\ KindOf[i] = req[r].kind,
         <<req[r].emp, req[r].kind>> \notin raced =>
           \A i, j \in primary' :
             owner'[i] = req[r].emp /\ owner'[j] = req[r].emp
               /\ KindOf[i] = req[r].kind /\ KindOf[j] = req[r].kind => i = j
  PROVE  IInv'
<1>1. Local(req[r])'
  <2>1. req'[r] = Idle
    BY DEF IInv, TypeOK
  <2> QED
    BY <2>1, IdleIs DEF Local
<1> QED
  BY <1>1, IdleIs, WriteIInv

\* The flags are cleared: none is left but perhaps that of the row itself.
LEMMA ClearOthersIInv == ASSUME IInv, NEW r \in Requests, ClearOthers(r) PROVE IInv'
<1> DEFINE q == req[r]
           next == [q EXCEPT !.clear = FALSE]
           spared == IF q.kind = "contact" THEN {q.id} ELSE {}
<1>1. /\ q.clear /\ q \in Request /\ Local(q) /\ TypeOK
      /\ primary' = primary \ (RowsOf(q.emp, q.kind) \ spared)
      /\ req' = [req EXCEPT ![r] = next]
      /\ owner' = owner /\ deleted' = deleted /\ raced' = raced
  BY DEF ClearOthers, IInv, TypeOK
<1>2. /\ next \in Request /\ next.clear = FALSE /\ next.op = q.op /\ next.emp = q.emp
      /\ next.kind = q.kind /\ next.id = q.id /\ next.primary = q.primary
      /\ next.tenant = q.tenant /\ next.alone = q.alone
  BY <1>1 DEF Request
<1> HIDE DEF next
<1>3. req'[r] = next
  BY <1>1 DEF TypeOK
<1>4. primary' \subseteq primary /\ \A i \in primary' : owner[i] = q.emp /\ KindOf[i] = q.kind => i = q.id
  BY <1>1 DEF TypeOK, RowsOf
<1>5. TypeOK'
  BY <1>1, <1>2, <1>4 DEF TypeOK, Rows
<1>6. Local(req[r])'
  BY <1>1, <1>2, <1>3, <1>4 DEF Local, Flagged
<1>7. <<q.emp, q.kind>> \notin raced =>
         \A i, j \in primary' :
           owner'[i] = q.emp /\ owner'[j] = q.emp /\ KindOf[i] = q.kind /\ KindOf[j] = q.kind => i = j
  BY <1>1, <1>4
<1>8. q.op # "none"
  BY <1>1 DEF Local
<1>9. \A i \in primary' : i \in primary /\ owner'[i] = owner[i]
  BY <1>1, <1>4
<1>10. next.op # "none" => next.emp = q.emp /\ next.kind = q.kind /\ next.alone = q.alone
  BY <1>2
<1>11. /\ next \in Request /\ req' = [req EXCEPT ![r] = next] /\ raced' = raced
       /\ \A i \in Ids : owner[i] # NoOne => owner'[i] = owner[i]
  BY <1>1, <1>2
<1>12. \A i \in primary' : \/ i \in primary /\ owner'[i] = owner[i]
                           \/ owner'[i] = q.emp /\ KindOf[i] = q.kind
  BY <1>9
<1> HIDE DEF q
<1> QED
  BY <1>5, <1>6, <1>7, <1>8, <1>10, <1>11, <1>12, WriteIInv DEF q
\* A row is added: where nobody has interfered, the flags are clear.
LEMMA AddIInv == ASSUME IInv, NEW r \in Requests, NEW id \in Ids, Add(r, id) PROVE IInv'
<1>1. /\ req[r].op = "add" /\ ~req[r].clear /\ owner[id] = NoOne /\ KindOf[id] = req[r].kind
      /\ owner' = [owner EXCEPT ![id] = req[r].emp] /\ deleted' = deleted /\ raced' = raced
      /\ primary' = IF req[r].primary THEN primary \cup {id} ELSE primary
      /\ req' = [req EXCEPT ![r] = Idle]
      /\ TypeOK /\ Local(req[r])
  BY DEF Add, IInv
<1>2. req[r].emp \in Employees /\ req[r].id = NoId
  BY <1>1 DEF Local
<1>3. owner'[id] = req[r].emp /\ \A i \in Ids : i # id => owner'[i] = owner[i]
  BY <1>1 DEF TypeOK
<1>4. \A i \in primary : i \in Ids /\ owner[i] # NoOne /\ i \notin deleted /\ i # id
  BY <1>1 DEF TypeOK, Rows
<1>5. TypeOK'
  <2>1. owner' \in [Ids -> Employees \cup {NoOne}] /\ req' \in [Requests -> Request]
    BY <1>1, <1>2, IdleIs DEF TypeOK
  <2>2. deleted' \subseteq {i \in Ids : owner'[i] # NoOne} /\ id \notin deleted
    BY <1>1, <1>3 DEF TypeOK
  <2>3. id \in Rows'
    BY <1>1, <1>2, <1>3, <2>2, NoOneAssumption DEF Rows
  <2>4. primary \subseteq Rows'
    BY <1>1, <1>3, <1>4 DEF Rows
  <2> QED
    BY <1>1, <2>1, <2>2, <2>3, <2>4 DEF TypeOK
<1>6. \A i \in Ids : owner[i] # NoOne => owner'[i] = owner[i]
  BY <1>1, <1>3
<1>7. \A i \in primary' : \/ i \in primary /\ owner'[i] = owner[i]
                          \/ owner'[i] = req[r].emp /\ KindOf[i] = req[r].kind
  BY <1>1, <1>3, <1>4
<1>8. ASSUME <<req[r].emp, req[r].kind>> \notin raced, NEW i \in primary', NEW j \in primary',
             owner'[i] = req[r].emp, owner'[j] = req[r].emp,
             KindOf[i] = req[r].kind, KindOf[j] = req[r].kind
      PROVE  i = j
  <2>1. CASE req[r].primary
    <3>1. \A x \in primary : owner[x] = req[r].emp /\ KindOf[x] = req[r].kind => x = NoId
      BY <1>1, <1>2, <1>8, <2>1, NotRaced
    <3>2. i = id /\ j = id
      BY <1>1, <1>3, <1>4, <1>8, <2>1, <3>1, NoOneAssumption
    <3> QED
      BY <3>2
  <2>2. CASE ~req[r].primary
    BY <1>1, <1>3, <1>4, <1>8, <2>2, NotRaced
  <2> QED
    BY <2>1, <2>2
<1>9. req[r].op # "none" /\ req' = [req EXCEPT ![r] = Idle] /\ raced' = raced
  BY <1>1
<1> QED
  BY <1>5, <1>6, <1>7, <1>8, <1>9, EndIInv

\* The flag of a row is written.
LEMMA FlagIInv == ASSUME IInv, NEW r \in Requests, Flag(r) PROVE IInv'
<1> DEFINE id == req[r].id
<1>1. /\ req[r].op \in {"flag", "unflag"} /\ ~req[r].clear /\ id \in Rows
      /\ primary' = IF req[r].op = "flag" THEN primary \cup {id} ELSE primary \ {id}
      /\ owner' = owner /\ deleted' = deleted /\ raced' = raced
      /\ req' = [req EXCEPT ![r] = Idle]
      /\ TypeOK /\ Local(req[r])
  BY DEF Flag, IInv
<1>2. owner[id] = req[r].emp /\ KindOf[id] = req[r].kind
  BY <1>1 DEF Local
<1>3. TypeOK'
  BY <1>1, IdleIs DEF TypeOK, Rows
<1>4. \A i \in primary' : \/ i \in primary /\ owner'[i] = owner[i]
                          \/ owner'[i] = req[r].emp /\ KindOf[i] = req[r].kind
  BY <1>1, <1>2
<1>5. ASSUME <<req[r].emp, req[r].kind>> \notin raced, NEW i \in primary', NEW j \in primary',
             owner'[i] = req[r].emp, owner'[j] = req[r].emp,
             KindOf[i] = req[r].kind, KindOf[j] = req[r].kind
      PROVE  i = j
  <2>1. CASE req[r].op = "flag"
    <3>1. req[r].primary
      BY <1>1, <2>1 DEF Local
    <3>2. \A x \in primary : owner[x] = req[r].emp /\ KindOf[x] = req[r].kind => x = id
      BY <1>1, <1>5, <3>1, NotRaced
    <3> QED
      BY <1>1, <1>5, <2>1, <3>2
  <2>2. CASE req[r].op = "unflag"
    BY <1>1, <1>5, <2>2, NotRaced
  <2> QED
    BY <1>1, <2>1, <2>2
<1>6. req[r].op # "none" /\ \A i \in Ids : owner[i] # NoOne => owner'[i] = owner[i]
  BY <1>1
<1> QED
  BY <1>1, <1>3, <1>4, <1>5, <1>6, EndIInv

\* A row is deleted.
LEMMA DeleteIInv == ASSUME IInv, NEW r \in Requests, Delete(r) PROVE IInv'
<1> DEFINE id == req[r].id
<1>1. /\ req[r].op = "delete" /\ id \in Rows
      /\ deleted' = deleted \cup {id} /\ primary' = primary \ {id}
      /\ owner' = owner /\ raced' = raced
      /\ req' = [req EXCEPT ![r] = Idle] /\ TypeOK
  BY DEF Delete, IInv
<1>2. TypeOK'
  BY <1>1, IdleIs DEF TypeOK, Rows
<1>3. \A i \in primary' : i \in primary /\ owner'[i] = owner[i]
  BY <1>1
<1>4. <<req[r].emp, req[r].kind>> \notin raced =>
        \A i, j \in primary' :
          owner'[i] = req[r].emp /\ owner'[j] = req[r].emp
            /\ KindOf[i] = req[r].kind /\ KindOf[j] = req[r].kind => i = j
  BY <1>1, NotRaced
<1>5. \A i \in Ids : owner[i] # NoOne => owner'[i] = owner[i]
  BY <1>1
<1> QED
  BY <1>1, <1>2, <1>3, <1>4, <1>5, EndIInv

\* A request that fails writes nothing more.
LEMMA FailIInv == ASSUME IInv, NEW r \in Requests, Fail(r) PROVE IInv'
<1>1. /\ req[r].op # "none" /\ owner' = owner /\ deleted' = deleted /\ primary' = primary
      /\ raced' = raced /\ req' = [req EXCEPT ![r] = Idle] /\ TypeOK
  BY DEF Fail, IInv
<1>2. TypeOK'
  BY <1>1, IdleIs DEF TypeOK, Rows
<1>3. <<req[r].emp, req[r].kind>> \notin raced =>
        \A i, j \in primary' :
          owner'[i] = req[r].emp /\ owner'[j] = req[r].emp
            /\ KindOf[i] = req[r].kind /\ KindOf[j] = req[r].kind => i = j
  BY <1>1, NotRaced
<1> QED
  BY <1>1, <1>2, <1>3, EndIInv

\* The invariant is kept by every step.
LEMMA NextIInv == IInv /\ [Next]_vars => IInv'
<1> SUFFICES ASSUME IInv, [Next]_vars PROVE IInv'
  OBVIOUS
<1>1. CASE UNCHANGED vars
  BY <1>1, StutterIInv
<1>2. ASSUME NEW r \in Requests, Start(r) \/ Write(r) \/ Fail(r) PROVE IInv'
  BY <1>2, StartIInv, ClearOthersIInv, AddIInv, FlagIInv, DeleteIInv, FailIInv DEF Write
<1> QED
  BY <1>1, <1>2 DEF Next

LEMMA Invariance == Spec => []IInv
BY InitIInv, NextIInv, PTL DEF Spec
\* TypeOK holds in every reachable state.
THEOREM TypeCorrect == Spec => []TypeOK
BY Invariance, PTL DEF IInv

\* SerialAtMostOne: as long as the writers of an employee's records of a kind
\* have not overlapped, at most one of them is primary, also if some have failed
\* half-way.
THEOREM SerialSafe == Spec => []SerialAtMostOne
<1>1. IInv => SerialAtMostOne
  <2> SUFFICES ASSUME IInv, NEW e \in Employees, NEW k \in Kinds, <<e, k>> \notin raced
               PROVE  Cardinality(PrimariesOf(e, k)) <= 1
    BY DEF SerialAtMostOne
  <2>1. \A i, j \in PrimariesOf(e, k) : i = j
    BY DEF IInv, SerialInv, PrimariesOf, RowsOf
  <2>2. CASE PrimariesOf(e, k) = {}
    BY <2>2, FS_EmptySet
  <2>3. CASE \E i : i \in PrimariesOf(e, k)
    <3>1. PICK i : PrimariesOf(e, k) = {i}
      BY <2>1, <2>3
    <3> QED
      BY <3>1, FS_Singleton
  <2> QED
    BY <2>2, <2>3
<1> QED
  BY <1>1, Invariance, PTL

\* No two requests for the same records of an employee are in flight at once.
Serial == \A q, r \in Requests :
  q # r /\ req[q].emp # NoOne => ~(req[q].emp = req[r].emp /\ req[q].kind = req[r].kind)

\* AtMostOnePrimary, what CHANGELOG.md promises, holds if the writers of one
\* employee's records of a kind come one after the other, however many of them
\* fail half-way: nothing but their overlapping makes a second primary record.
THEOREM SerialWritersSafe == Spec /\ []Serial => []AtMostOnePrimary
<1> DEFINE NeverRaced == raced = {}
<1>1. Init => NeverRaced
  BY DEF Init
<1>2. ASSUME NeverRaced, Serial', [Next]_vars PROVE NeverRaced'
  <2>1. ASSUME NEW r \in Requests, NEW first \in Request, first.emp \in Employees, Begin(r, first)
        PROVE  raced' = {}
    <3> DEFINE peers == Peers(r, first.emp, first.kind)
               mine == [first EXCEPT !.alone = peers = {}]
    <3>1. mine.emp = first.emp /\ mine.kind = first.kind
      BY DEF Request
    <3>2. \A q \in peers : /\ q \in Requests /\ q # r
                          /\ [req[q] EXCEPT !.alone = FALSE].emp = first.emp
                          /\ [req[q] EXCEPT !.alone = FALSE].kind = first.kind
      BY DEF Peers
    <3> HIDE DEF mine
    <3>3. req'[r] = mine /\ \A q \in peers : req'[q] = [req[q] EXCEPT !.alone = FALSE]
      BY <2>1, <3>2 DEF Begin, mine
    <3>4. ASSUME NEW q \in peers PROVE FALSE
      <4>1. q \in Requests /\ q # r /\ req'[q].emp = first.emp /\ req'[q].kind = first.kind
        BY <3>2, <3>3
      <4>2. req'[r].emp = first.emp /\ req'[r].kind = first.kind /\ first.emp # NoOne
        BY <2>1, <3>1, <3>3, NoOneAssumption
      <4> QED
        BY <1>2, <4>1, <4>2 DEF Serial
    <3> QED
      BY <1>2, <2>1, <3>4 DEF Begin
  <2>2. ASSUME NEW op \in {"add", "flag", "unflag", "delete"}, NEW e \in Employees,
               NEW tenant \in Tenants, NEW k \in Kinds, NEW id \in Ids \cup {NoId},
               NEW flag \in BOOLEAN
        PROVE  Wants(op, e, tenant, k, id, flag) \in Request /\ Wants(op, e, tenant, k, id, flag).emp = e
    BY DEF Wants, Request
  <2>3. ASSUME NEW r \in Requests, Start(r) PROVE raced' = {}
    <3>1. PICK e \in Employees, tenant \in Tenants :
            \/ \E k \in Kinds, flag \in BOOLEAN : AddStart(r, e, tenant, k, flag)
            \/ \E id \in Ids :
                 \/ SetPrimaryStart(r, e, tenant, id) \/ DeleteStart(r, e, tenant, id)
                 \/ \E flag \in BOOLEAN : UpdateContactStart(r, e, tenant, id, flag)
      BY <2>3 DEF Start
    <3>2. ASSUME NEW op \in {"add", "flag", "unflag", "delete"}, NEW k \in Kinds,
                 NEW id \in Ids \cup {NoId}, NEW flag \in BOOLEAN,
                 Begin(r, Wants(op, e, tenant, k, id, flag))
          PROVE  raced' = {}
      BY <2>1, <2>2, <3>2
    <3>3. ASSUME NEW k \in Kinds, NEW flag \in BOOLEAN, AddStart(r, e, tenant, k, flag)
          PROVE  raced' = {}
      BY <3>2, <3>3 DEF AddStart
    <3>4. ASSUME NEW id \in Ids, SetPrimaryStart(r, e, tenant, id) \/ DeleteStart(r, e, tenant, id)
          PROVE  raced' = {}
      BY <3>2, <3>4, KindOfAssumption DEF SetPrimaryStart, DeleteStart, Kinds
    <3>5. ASSUME NEW id \in Ids, NEW flag \in BOOLEAN, UpdateContactStart(r, e, tenant, id, flag)
          PROVE  raced' = {}
      BY <3>2, <3>5 DEF UpdateContactStart, Kinds
    <3> QED
      BY <3>1, <3>3, <3>4, <3>5
  <2>4. ASSUME NEW r \in Requests, Write(r) \/ Fail(r) PROVE raced' = {}
    BY <1>2, <2>4 DEF Write, ClearOthers, Add, Flag, Delete, Fail
  <2> QED
    BY <1>2, <2>3, <2>4 DEF Next, vars
<1>3. NeverRaced /\ SerialAtMostOne => AtMostOnePrimary
  BY DEF SerialAtMostOne, AtMostOnePrimary
<1> HIDE DEF NeverRaced
<1> QED
  BY <1>1, <1>2, <1>3, SerialSafe, PTL DEF Spec
--------------------------------------------------------------------------------
(* What a step may do.                                                      *)

\* The row that an undisturbed request makes primary is the only one.
LEMMA OnlyStep ==
  ASSUME IInv, NEW r \in Requests, NEW e \in Employees, NEW k \in Kinds,
         Flag(r) \/ \E id \in Ids : Add(r, id),
         req[r].emp = e, req[r].kind = k, req[r].primary, req[r].alone
  PROVE  Cardinality(PrimariesOf(e, k)') = 1
<1>0. TypeOK /\ Local(req[r])
  BY DEF IInv
<1>1. CASE Flag(r)
  <2> DEFINE id == req[r].id
  <2>1. /\ req[r].op = "flag" /\ ~req[r].clear /\ id \in Rows /\ primary' = primary \cup {id}
        /\ owner' = owner /\ deleted' = deleted
    BY <1>0, <1>1 DEF Flag, Local
  <2>2. owner[id] = e /\ KindOf[id] = k
    BY <1>0, <2>1 DEF Local
  <2>3. \A i \in primary : owner[i] = e /\ KindOf[i] = k => i = id
    BY <1>0, <2>1 DEF Local, Flagged
  <2>4. PrimariesOf(e, k)' = {id}
    BY <2>1, <2>2, <2>3 DEF PrimariesOf, RowsOf, Rows
  <2> QED
    BY <2>4, FS_Singleton
<1>2. ASSUME NEW id \in Ids, Add(r, id) PROVE Cardinality(PrimariesOf(e, k)') = 1
  <2>1. /\ req[r].op = "add" /\ ~req[r].clear /\ owner[id] = NoOne /\ KindOf[id] = k
        /\ owner' = [owner EXCEPT ![id] = e] /\ deleted' = deleted
        /\ primary' = primary \cup {id}
    BY <1>2 DEF Add
  <2>2. owner'[id] = e /\ \A i \in Ids : i # id => owner'[i] = owner[i]
    BY <1>0, <2>1 DEF TypeOK
  <2>3. \A i \in primary : i \in Ids /\ i # NoId /\ ~(owner[i] = e /\ KindOf[i] = k)
    BY <1>0, <2>1, NoOneAssumption DEF Local, Flagged, TypeOK, Rows
  <2>4. id \in Ids /\ id \notin deleted
    BY <1>0, <2>1 DEF TypeOK
  <2>5. ASSUME NEW i PROVE i \in PrimariesOf(e, k)' <=> i = id
    <3>1. CASE i = id
      BY <2>1, <2>2, <2>4, <3>1, NoOneAssumption DEF PrimariesOf, RowsOf, Rows
    <3>2. CASE i # id
      BY <2>1, <2>2, <2>3, <3>2 DEF PrimariesOf, RowsOf, Rows
    <3> QED
      BY <3>1, <3>2
  <2>6. PrimariesOf(e, k)' = {id}
    BY <2>5
  <2> QED
    BY <2>6, FS_Singleton
<1> QED
  BY <1>1, <1>2

\* AloneMakesTheOnly: a request that makes a record primary and is not overlapped
\* leaves it as the only one, whatever the requests before have left behind.
THEOREM OnlySafe == Spec => AloneMakesTheOnly
<1>1. IInv => [\A r \in Requests, e \in Employees, k \in Kinds :
        /\ Flag(r) \/ \E id \in Ids : Add(r, id)
        /\ req[r].emp = e /\ req[r].kind = k /\ req[r].primary /\ req[r].alone
        => Cardinality(PrimariesOf(e, k)') = 1]_vars
  BY OnlyStep
<1> QED
  BY <1>1, Invariance, PTL DEF AloneMakesTheOnly

\* A row that appears, goes, or changes its flag does so for a request that is
\* for its owner and made in the owner's tenant.
LEMMA OwnStep ==
  ASSUME IInv, Next, NEW i \in Ids,
         ~((i \in Rows <=> i \in Rows') /\ (i \in primary <=> i \in primary'))
  PROVE  \E r \in Requests :
           /\ req[r].emp = owner'[i] /\ req[r].kind = KindOf[i]
           /\ req[r].tenant = TenantOf[owner'[i]]
<1>1. PICK r \in Requests : Start(r) \/ Write(r) \/ Fail(r)
  BY DEF Next
<1>2. CASE Start(r) \/ Fail(r)
  <2>1. \A first : Begin(r, first) => UNCHANGED <<owner, deleted, primary>>
    BY DEF Begin
  <2>2. owner' = owner /\ deleted' = deleted /\ primary' = primary
    <3>1. CASE Start(r)
      <4>1. PICK first : Begin(r, first)
        BY <3>1 DEF Start, AddStart, SetPrimaryStart, UpdateContactStart, DeleteStart
      <4> QED
        BY <2>1, <4>1
    <3>2. CASE Fail(r)
      BY <3>2 DEF Fail
    <3> QED
      BY <1>2, <3>1, <3>2
  <2> QED
    BY <2>2 DEF Rows
<1>3. TypeOK /\ Local(req[r])
  BY DEF IInv
<1>4. CASE ClearOthers(r)
  <2>1. /\ owner' = owner /\ deleted' = deleted /\ req[r].op # "none"
        /\ i \in RowsOf(req[r].emp, req[r].kind)
    BY <1>3, <1>4 DEF ClearOthers, Rows, Local
  <2> QED
    BY <1>3, <2>1 DEF RowsOf, Local
<1>5. ASSUME NEW id \in Ids, Add(r, id)
      PROVE  req[r].emp = owner'[i] /\ req[r].kind = KindOf[i] /\ req[r].tenant = TenantOf[owner'[i]]
  <2>1. /\ req[r].op = "add" /\ KindOf[id] = req[r].kind /\ deleted' = deleted
        /\ owner' = [owner EXCEPT ![id] = req[r].emp] /\ primary' \subseteq primary \cup {id}
        /\ primary \subseteq primary'
    BY <1>5 DEF Add
  <2>2. owner'[id] = req[r].emp /\ \A x \in Ids : x # id => owner'[x] = owner[x]
    BY <1>3, <2>1 DEF TypeOK
  <2>3. i = id
    BY <2>1, <2>2 DEF Rows
  <2> QED
    BY <1>3, <2>1, <2>2, <2>3 DEF Local
<1>6. CASE Flag(r) \/ Delete(r)
  <2>1. owner' = owner /\ req[r].op \in {"flag", "unflag", "delete"} /\ i = req[r].id
    BY <1>6 DEF Flag, Delete, Rows
  <2> QED
    BY <1>3, <2>1 DEF Local
<1> QED
  BY <1>1, <1>2, <1>4, <1>5, <1>6 DEF Write

\* OwnRowsOnly: although rows are written by id alone, the records of an employee
\* are written by requests for that employee, in the tenant of the employee.
THEOREM OwnSafe == Spec => OwnRowsOnly
<1>1. IInv /\ [Next]_vars =>
        [\A i \in Ids :
          ~((i \in Rows <=> i \in Rows') /\ (i \in primary <=> i \in primary')) =>
            \E r \in Requests :
              /\ req[r].emp = owner'[i] /\ req[r].kind = KindOf[i]
              /\ req[r].tenant = TenantOf[owner'[i]]]_vars
  BY OwnStep
<1> QED
  BY <1>1, Invariance, PTL DEF Spec, OwnRowsOnly
================================================================================
