--------------------------- MODULE DepartmentsProofs ---------------------------
(***************************************************************************)
(* The safety of Departments for any departments, tenants, requests and    *)
(* lifetimes of a cache entry.                                             *)
(*                                                                         *)
(* The invariant IInv has, beside the types and the two invariants of      *)
(* Departments, what a request still knows of the rows after its reads     *)
(* (Local) and that writers know of each other (PeersInv).                 *)
(***************************************************************************)
EXTENDS Departments, TLAPS

Writing == {"insert", "update", "remove"}

\* What a request has found is of its tenant and stays so, although the row may
\* have gone.  A fill carries the row as it is, unless a writer has seen it under
\* way; a deletion that nobody overlaps has counted right.
Local(q) ==
  /\ q.pc # "idle" => q.tenant \in Tenants
  /\ q.pc \in {"read", "fill", "update", "remove", "evict"} => q.id \in Depts
  /\ q.pc \in {"fill", "update", "remove", "evict"} => owner[q.id] = q.tenant
  /\ q.pc = "fill" => q.id \in raced \/ (q.id \in live /\ <<q.id, version[q.id]>> \in q.view.rows)
  /\ q.pc \in {"insert", "update"} => q.target = NoDept \/ owner[q.target] = q.tenant
  /\ q.pc = "update" => q.target # q.id
  /\ q.pc = "remove" /\ q.alone => Children(q.id) = {}

\* Two writers know that they are not alone.
PeersInv == \A q, r \in Requests :
  q # r /\ req[q].pc \in Writing /\ req[r].pc \in Writing => ~req[q].alone

IInv ==
  /\ TypeOK /\ TenantsApart /\ CachedIsCurrent
  /\ \A r \in Requests : Local(req[r])
  /\ PeersInv
--------------------------------------------------------------------------------
\* A read of the table gives a view, and the cache gives back its rows.
LEMMA ViewIs ==
  ASSUME TypeOK, NEW d \in Depts
  PROVE  View(d) \in Views /\ (d \in live => <<d, version[d]>> \in View(d).rows)
<1>1. {<<x, version[x]>> : x \in {d} \cup ({parent[d]} \cap live) \cup Children(d)}
        \subseteq Depts \X (0 .. MaxVersion)
  BY DEF TypeOK, Children
<1>2. parent[d] \in Depts \cup {NoDept}
  BY DEF TypeOK
<1> QED
  BY <1>1, <1>2 DEF View, Views

LEMMA SerialisedIs ==
  ASSUME NEW view \in Views
  PROVE  Serialised(view) \in Views /\ Serialised(view).rows = view.rows
BY DEF Serialised, Views

LEMMA SetsIs ==
  ASSUME NEW pc \in {"idle", "read", "insert", "update", "remove"}, NEW t \in Tenants \cup {NoTenant},
         NEW d \in Depts \cup {NoDept}, NEW p \in Depts \cup {NoDept}
  PROVE  /\ Sets(pc, t, d, p) \in Request /\ Sets(pc, t, d, p).pc = pc
         /\ Sets(pc, t, d, p).tenant = t /\ Sets(pc, t, d, p).id = d
         /\ Sets(pc, t, d, p).target = p
<1>1. NoView \in Views
  BY DEF NoView, Views
<1> QED
  BY <1>1 DEF Sets, Request

LEMMA IdleIs == Idle \in Request /\ Idle.pc = "idle"
BY SetsIs DEF Idle

LEMMA EntryIs == NoEntry \in [view : Views, left : 0 .. CacheTTL]
BY TTLAssumption DEF NoEntry, NoView, Views

\* An empty table, an empty cache and no requests.
LEMMA InitIInv == Init => IInv
<1> SUFFICES ASSUME Init PROVE IInv
  OBVIOUS
<1>1. TypeOK
  BY IdleIs, EntryIs, TTLAssumption DEF Init, TypeOK
<1>2. TenantsApart /\ CachedIsCurrent
  BY DEF Init, TenantsApart, CachedIsCurrent
<1>3. (\A r \in Requests : Local(req[r])) /\ PeersInv
  BY IdleIs DEF Init, Local, PeersInv, Writing
<1> QED
  BY <1>1, <1>2, <1>3 DEF IInv

\* Without a step nothing changes.
LEMMA StutterIInv == ASSUME IInv, UNCHANGED vars PROVE IInv'
<1>1. TypeOK' /\ TenantsApart'
  BY DEF IInv, TypeOK, TenantsApart, vars, rows
<1>2. CachedIsCurrent' /\ PeersInv'
  BY DEF IInv, CachedIsCurrent, PeersInv, vars, rows
<1>3. \A r \in Requests : Local(req[r])'
  BY DEF IInv, Local, Children, vars, rows
<1> QED
  BY <1>1, <1>2, <1>3 DEF IInv

\* Where the cache and the rows stay, so do the entries that are about to go.
LEMMA KeptCurrent ==
  ASSUME CachedIsCurrent, cache' = cache, live' = live, version' = version, raced \subseteq raced',
         \A q \in Requests : req[q].pc = "evict" =>
           req[q].id \in raced' \/ (req'[q].pc = "evict" /\ req'[q].id = req[q].id)
  PROVE  CachedIsCurrent'
<1>1. SUFFICES ASSUME NEW t \in Tenants, NEW d \in Depts
      PROVE  \/ cache'[<<t, d>>] = NoEntry \/ d \in raced'
             \/ d \in live' /\ <<d, version'[d]>> \in cache'[<<t, d>>].view.rows
             \/ \E q \in Requests : req'[q].pc = "evict" /\ req'[q].id = d
  BY DEF CachedIsCurrent
<1>2. \/ cache[<<t, d>>] = NoEntry \/ d \in raced
      \/ d \in live /\ <<d, version[d]>> \in cache[<<t, d>>].view.rows
      \/ \E q \in Requests : req[q].pc = "evict" /\ req[q].id = d
  BY DEF CachedIsCurrent
<1> QED
  BY <1>2

\* A request begins to write: the writers under way know of it, and it of them.
LEMMA BeginIInv ==
  ASSUME IInv, NEW r \in Requests, NEW first \in Request, Begin(r, first),
         first.pc \in Writing, first.tenant \in Tenants,
         first.pc \in {"update", "remove"} => first.id \in Depts /\ owner[first.id] = first.tenant,
         first.target = NoDept \/ owner[first.target] = first.tenant,
         first.pc = "update" => first.target # first.id,
         first.pc = "remove" => Children(first.id) = {}
  PROVE  IInv'
<1> DEFINE mine == [first EXCEPT !.alone = Writers = {}]
<1>1. /\ req[r] = Idle /\ UNCHANGED <<live, owner, parent, version, cache, raced>> /\ answer' = "none"
      /\ req' = [q \in Requests |->
           IF q = r THEN mine
           ELSE IF q \in Writers THEN [req[q] EXCEPT !.alone = FALSE] ELSE req[q]]
  BY DEF Begin, rows
<1>2. /\ mine \in Request /\ mine.alone = (Writers = {}) /\ mine.pc = first.pc /\ mine.id = first.id
      /\ mine.tenant = first.tenant /\ mine.target = first.target
  BY DEF Request
<1>3. ASSUME NEW q \in Requests
      PROVE  LET old == [req[q] EXCEPT !.alone = FALSE]
             IN  /\ old \in Request /\ old.alone = FALSE /\ old.pc = req[q].pc /\ old.id = req[q].id
                 /\ old.tenant = req[q].tenant /\ old.target = req[q].target /\ old.view = req[q].view
  <2>1. req[q] \in Request
    BY DEF IInv, TypeOK
  <2> QED
    BY <2>1 DEF Request
<1> HIDE DEF mine
<1>4. req'[r] = mine
  BY <1>1
<1>5. ASSUME NEW q \in Requests, q # r
      PROVE  /\ req'[q].pc = req[q].pc /\ req'[q].id = req[q].id /\ req'[q].view = req[q].view
             /\ req'[q].tenant = req[q].tenant /\ req'[q].target = req[q].target
             /\ req'[q].alone => req[q].alone
             /\ req[q].pc \in Writing => ~req'[q].alone
  <2>1. CASE q \in Writers
    BY <1>1, <1>3, <1>5, <2>1
  <2>2. CASE q \notin Writers
    BY <1>1, <1>5, <2>2 DEF Writers, Writing
  <2> QED
    BY <2>1, <2>2
<1>6. TypeOK'
  <2>1. req' \in [Requests -> Request]
    <3>1. \A q \in Requests : req[q] \in Request /\ [req[q] EXCEPT !.alone = FALSE] \in Request
      BY <1>3 DEF IInv, TypeOK
    <3> QED
      BY <1>1, <1>2, <3>1
  <2> QED
    BY <1>1, <2>1 DEF IInv, TypeOK
<1>7. TenantsApart'
  BY <1>1 DEF IInv, TenantsApart
<1>8. CachedIsCurrent'
  <2>1. ASSUME NEW q \in Requests, req[q].pc = "evict" PROVE req'[q].pc = "evict" /\ req'[q].id = req[q].id
    BY <1>1, <1>5, <2>1, IdleIs
  <2> QED
    BY <1>1, <2>1, KeptCurrent DEF IInv
<1>9. ASSUME NEW q \in Requests PROVE Local(req[q])'
  <2>1. CASE q = r
    BY <1>1, <1>2, <1>4, <2>1 DEF Local, Writing, Children
  <2>2. CASE q # r
    <3>1. Local(req[q])
      BY DEF IInv
    <3> QED
      BY <1>1, <1>5, <2>2, <3>1 DEF Local, Children
  <2> QED
    BY <2>1, <2>2
<1>10. PeersInv'
  <2>1. ASSUME NEW q \in Requests, NEW s \in Requests, q # s,
               req'[q].pc \in Writing, req'[s].pc \in Writing
        PROVE  ~req'[q].alone
    <3>1. CASE q = r
      <4>1. s \in Writers
        BY <1>5, <2>1, <3>1 DEF Writers, Writing
      <4> QED
        BY <1>2, <1>4, <3>1, <4>1
    <3>2. CASE q # r
      BY <1>5, <2>1, <3>2
    <3> QED
      BY <3>1, <3>2
  <2> QED
    BY <2>1 DEF PeersInv
<1> QED
  BY <1>6, <1>7, <1>8, <1>9, <1>10 DEF IInv

\* What any other step of r leaves to the rest: owners and what a fill carries
\* stay, or the fill is known to be late; and only a writer moves children.
LEMMA StepIInv ==
  ASSUME IInv, NEW r \in Requests, NEW next \in Request, next.pc \notin Writing,
         req' = [req EXCEPT ![r] = next],
         TypeOK', TenantsApart', CachedIsCurrent', Local(req[r])',
         \A d \in Depts : owner[d] # NoTenant => owner'[d] = owner[d],
         raced \subseteq raced',
         \A q \in Requests : req[q].pc = "fill" =>
           \/ req[q].id \in raced'
           \/ (req[q].id \in live => req[q].id \in live') /\ version'[req[q].id] = version[req[q].id],
         req[r].pc \notin Writing => live' = live /\ parent' = parent
  PROVE  IInv'
<1>1. req'[r] = next /\ \A q \in Requests : q # r => req'[q] = req[q]
  BY DEF IInv, TypeOK
<1>2. ASSUME NEW q \in Requests, q # r PROVE Local(req[q])'
  <2>1. Local(req[q]) /\ req'[q] = req[q] /\ req[q] \in Request
    BY <1>1, <1>2 DEF IInv, TypeOK
  <2>2. ASSUME NEW d \in Depts, owner[d] = req[q].tenant, req[q].pc # "idle"
        PROVE  owner'[d] = req[q].tenant
    BY <2>1, <2>2, NoneAssumption DEF Local
  <2>3. req[q].pc \in {"insert", "update"} => req[q].target = NoDept \/ owner'[req[q].target] = req[q].tenant
    BY <2>1, <2>2 DEF Local, Request
  <2>4. req[q].pc \in {"fill", "update", "remove", "evict"} => owner'[req[q].id] = req[q].tenant
    BY <2>1, <2>2 DEF Local
  <2>5. req[q].pc = "fill" =>
          \/ req[q].id \in raced'
          \/ req[q].id \in live' /\ <<req[q].id, version'[req[q].id]>> \in req[q].view.rows
    BY <2>1 DEF Local
  <2>6. ASSUME req[q].pc = "remove", req[q].alone
        PROVE  {c \in live' : parent'[c] = req[q].id} = {}
    <3>1. req[r].pc \notin Writing
      BY <1>2, <2>6 DEF IInv, PeersInv, Writing
    <3> QED
      BY <2>1, <2>6, <3>1 DEF Local, Children
  <2> QED
    BY <2>1, <2>3, <2>4, <2>5, <2>6 DEF Local, Children
<1>3. PeersInv'
  BY <1>1 DEF IInv, PeersInv
<1> QED
  BY <1>2, <1>3 DEF IInv
\* A reader that goes on leaves the rows and the cache alone.
LEMMA ReaderIInv ==
  ASSUME IInv, NEW r \in Requests, NEW next \in Request, next.pc \notin Writing,
         req' = [req EXCEPT ![r] = next], req[r].pc \notin Writing \cup {"evict"},
         UNCHANGED <<live, owner, parent, version, cache, raced>>,
         answer' \in {"none", "found", "missing", "failed"}, Local(req[r])'
  PROVE  IInv'
<1>1. req'[r] = next /\ \A q \in Requests : q # r => req'[q] = req[q]
  BY DEF IInv, TypeOK
<1>2. TypeOK'
  BY DEF IInv, TypeOK
<1>3. TenantsApart'
  BY DEF IInv, TenantsApart
<1>4. CachedIsCurrent'
  BY <1>1, KeptCurrent DEF IInv
<1> QED
  BY <1>2, <1>3, <1>4, StepIInv

--------------------------------------------------------------------------------
(* The handlers.                                                            *)

\* What starts has made its checks; a reader has made none.
LEMMA StartIInv == ASSUME IInv, NEW r \in Requests, Start(r) PROVE IInv'
<1>0. PICK t \in Tenants, p \in Depts \cup {NoDept} :
        \/ CreateStart(r, t, p)
        \/ \E d \in Depts : GetStart(r, t, d) \/ UpdateStart(r, t, d, p) \/ DeleteStart(r, t, d)
  BY DEF Start
<1>1. CASE CreateStart(r, t, p)
  <2> DEFINE first == Sets("insert", t, NoDept, p)
  <2>1. /\ first \in Request /\ first.pc = "insert" /\ first.tenant = t /\ first.id = NoDept
        /\ first.target = p
    BY SetsIs
  <2>2. Begin(r, first) /\ (p = NoDept \/ owner[p] = t)
    BY <1>1 DEF CreateStart, FindFirst
  <2> HIDE DEF first
  <2> QED
    BY <2>1, <2>2, BeginIInv DEF Writing
<1>2. ASSUME NEW d \in Depts, UpdateStart(r, t, d, p) PROVE IInv'
  <2> DEFINE first == Sets("update", t, d, p)
  <2>1. /\ first \in Request /\ first.pc = "update" /\ first.tenant = t /\ first.id = d
        /\ first.target = p
    BY SetsIs
  <2>2. Begin(r, first) /\ (p = NoDept \/ owner[p] = t) /\ owner[d] = t /\ p # d
    BY <1>2, NoneAssumption DEF UpdateStart, FindFirst
  <2> HIDE DEF first
  <2> QED
    BY <2>1, <2>2, BeginIInv DEF Writing
<1>3. ASSUME NEW d \in Depts, DeleteStart(r, t, d) PROVE IInv'
  <2> DEFINE first == Sets("remove", t, d, NoDept)
  <2>1. /\ first \in Request /\ first.pc = "remove" /\ first.tenant = t /\ first.id = d
        /\ first.target = NoDept
    BY SetsIs
  <2>2. Begin(r, first) /\ owner[d] = t
    BY <1>3 DEF DeleteStart, FindFirst
  <2>3. Children(d) = {}
    <3>1. \A c \in Children(d) : owner[c] = t
      BY <2>2, NoneAssumption DEF IInv, TenantsApart, TypeOK, Children
    <3> QED
      BY <1>3, <3>1 DEF DeleteStart
  <2> HIDE DEF first
  <2> QED
    BY <2>1, <2>2, <2>3, BeginIInv DEF Writing
<1>4. ASSUME NEW d \in Depts, GetStart(r, t, d) PROVE IInv'
  <2> DEFINE next == Sets("read", t, d, NoDept)
  <2>1. next \in Request /\ next.pc = "read" /\ next.tenant = t /\ next.id = d
    BY SetsIs
  <2>2. UNCHANGED <<live, owner, parent, version, cache, raced>> /\ answer' \in {"none", "found", "failed"}
    BY <1>4 DEF GetStart, rows, MapDepartmentToProto
  <2>3. req[r] = Idle /\ (req' = req \/ req' = [req EXCEPT ![r] = next])
    BY <1>4 DEF GetStart
  <2>4. CASE req' = req
    <3>1. TypeOK' /\ TenantsApart'
      BY <2>2, <2>4 DEF IInv, TypeOK, TenantsApart
    <3>2. CachedIsCurrent' /\ PeersInv'
      BY <2>2, <2>4 DEF IInv, CachedIsCurrent, PeersInv
    <3>3. \A q \in Requests : Local(req[q])'
      BY <2>2, <2>4 DEF IInv, Local, Children
    <3> QED
      BY <3>1, <3>2, <3>3 DEF IInv
  <2>5. CASE req' = [req EXCEPT ![r] = next]
    <3> HIDE DEF next
    <3>1. req'[r] = next /\ \A q \in Requests : q # r => req'[q] = req[q]
      BY <2>5 DEF IInv, TypeOK
    <3>2. Local(req[r])'
      BY <2>1, <3>1 DEF Local
    <3> QED
      BY <2>1, <2>2, <2>3, <2>5, <3>2, IdleIs, ReaderIInv DEF Writing
  <2> QED
    BY <2>3, <2>4, <2>5
<1> QED
  BY <1>0, <1>1, <1>2, <1>3, <1>4

\* The row is read: the view is of this moment.
LEMMA GetReadIInv == ASSUME IInv, NEW r \in Requests, GetRead(r) PROVE IInv'
<1> DEFINE d == req[r].id
           moved == [req[r] EXCEPT !.pc = "fill"]
           next == IF FindFirst(req[r].tenant, d) THEN [moved EXCEPT !.view = View(d)] ELSE Idle
<1>1. req[r] \in Request /\ req[r].pc = "read" /\ Local(req[r]) /\ d \in Depts
  BY DEF GetRead, IInv, TypeOK, Local
<1>2. UNCHANGED <<live, owner, parent, version, cache, raced>> /\ answer' \in {"none", "missing"}
  BY DEF GetRead, rows
<1>3. req' = [req EXCEPT ![r] = next]
  BY DEF GetRead, Done, IInv, TypeOK
<1>4. moved \in Request /\ moved.pc = "fill" /\ moved.tenant = req[r].tenant /\ moved.id = d
  BY <1>1 DEF Request
<1>5. CASE FindFirst(req[r].tenant, d)
  <2>1. View(d) \in Views /\ d \in live /\ <<d, version[d]>> \in View(d).rows /\ owner[d] = req[r].tenant
    BY <1>1, <1>5, ViewIs DEF IInv, FindFirst
  <2> HIDE DEF moved
  <2>2. /\ next \in Request /\ next.pc = "fill" /\ next.tenant = req[r].tenant /\ next.id = d
        /\ next.view = View(d)
    BY <1>4, <1>5, <2>1 DEF Request
  <2> HIDE DEF next
  <2>3. req'[r] = next /\ \A q \in Requests : q # r => req'[q] = req[q]
    BY <1>3 DEF IInv, TypeOK
  <2>4. Local(req[r])'
    BY <1>1, <1>2, <2>1, <2>2, <2>3 DEF Local
  <2> QED
    BY <1>1, <1>2, <1>3, <2>2, <2>4, ReaderIInv DEF Writing
<1>6. CASE ~FindFirst(req[r].tenant, d)
  <2>1. next = Idle /\ req'[r] = Idle
    BY <1>3, <1>6 DEF IInv, TypeOK
  <2>2. Local(req[r])'
    BY <2>1, IdleIs DEF Local
  <2> QED
    BY <1>1, <1>2, <1>3, <2>1, <2>2, IdleIs, ReaderIInv DEF Writing
<1> QED
  BY <1>5, <1>6

\* An entry is stored for the tenant of its department, as it is or known to be
\* late.
LEMMA GetFillIInv == ASSUME IInv, NEW r \in Requests, GetFill(r) PROVE IInv'
<1> DEFINE d == req[r].id
           t == req[r].tenant
           entry == [view |-> Serialised(req[r].view), left |-> CacheTTL]
<1>1. /\ req[r] \in Request /\ req[r].pc = "fill" /\ d \in Depts /\ t \in Tenants /\ owner[d] = t
      /\ d \in raced \/ (d \in live /\ <<d, version[d]>> \in req[r].view.rows)
  BY DEF GetFill, IInv, TypeOK, Local
<1>2. /\ UNCHANGED <<live, owner, parent, version, raced>> /\ req' = [req EXCEPT ![r] = Idle]
      /\ cache' = [cache EXCEPT ![<<t, d>>] = entry] /\ answer' \in {"found", "failed"}
  BY DEF GetFill, rows, CacheKey, Done, MapDepartmentToProto
<1>3. entry \in [view : Views, left : 0 .. CacheTTL] /\ entry.view.rows = req[r].view.rows
  <2>1. req[r].view \in Views
    BY <1>1 DEF Request
  <2> QED
    BY <2>1, SerialisedIs, TTLAssumption
<1> HIDE DEF entry
<1>4. req'[r] = Idle /\ \A q \in Requests : q # r => req'[q] = req[q]
  BY <1>2 DEF IInv, TypeOK
<1>5. TypeOK'
  BY <1>1, <1>2, <1>3, IdleIs DEF IInv, TypeOK
<1>6. \A k \in Tenants \X Depts : cache'[k] = IF k = <<t, d>> THEN entry ELSE cache[k]
  BY <1>2 DEF IInv, TypeOK
<1>7. TenantsApart'
  BY <1>1, <1>2, <1>6 DEF IInv, TenantsApart
<1>8. CachedIsCurrent'
  <2>1. ASSUME NEW u \in Tenants, NEW x \in Depts
        PROVE  \/ cache'[<<u, x>>] = NoEntry \/ x \in raced'
               \/ x \in live' /\ <<x, version'[x]>> \in cache'[<<u, x>>].view.rows
               \/ \E q \in Requests : req'[q].pc = "evict" /\ req'[q].id = x
    <3>1. CASE <<u, x>> = <<t, d>>
      BY <1>1, <1>2, <1>3, <1>6, <3>1
    <3>2. CASE <<u, x>> # <<t, d>>
      <4>1. cache'[<<u, x>>] = cache[<<u, x>>]
        BY <1>6, <3>2
      <4>2. \/ cache[<<u, x>>] = NoEntry \/ x \in raced
            \/ x \in live /\ <<x, version[x]>> \in cache[<<u, x>>].view.rows
            \/ \E q \in Requests : req[q].pc = "evict" /\ req[q].id = x
        BY DEF IInv, CachedIsCurrent
      <4>3. \A q \in Requests : req[q].pc = "evict" => req'[q] = req[q]
        BY <1>1, <1>4
      <4> QED
        BY <1>2, <4>1, <4>2, <4>3
    <3> QED
      BY <3>1, <3>2
  <2> QED
    BY <2>1 DEF CachedIsCurrent
<1>9. Local(req[r])'
  BY <1>4, IdleIs DEF Local
<1> QED
  BY <1>1, <1>2, <1>5, <1>7, <1>8, <1>9, IdleIs, StepIInv DEF Writing

\* A department appears, below one of its tenant.
LEMMA CreateInsertIInv ==
  ASSUME IInv, NEW r \in Requests, NEW d \in Depts, CreateInsert(r, d) PROVE IInv'
<1> DEFINE t == req[r].tenant
           p == req[r].target
<1>1. /\ req[r] \in Request /\ req[r].pc = "insert" /\ t \in Tenants
      /\ p \in live \cup {NoDept} /\ (p = NoDept \/ owner[p] = t) /\ owner[d] = NoTenant
  BY DEF CreateInsert, IInv, TypeOK, Local
<1>2. /\ live' = live \cup {d} /\ owner' = [owner EXCEPT ![d] = t]
      /\ parent' = [parent EXCEPT ![d] = p] /\ req' = [req EXCEPT ![r] = Idle]
      /\ version' = version /\ cache' = cache /\ raced' = raced /\ answer' = "none"
  BY DEF CreateInsert, Done
<1>3. /\ req'[r] = Idle /\ \A q \in Requests : q # r => req'[q] = req[q]
      /\ \A x \in Depts : owner'[x] = IF x = d THEN t ELSE owner[x]
      /\ \A x \in Depts : parent'[x] = IF x = d THEN p ELSE parent[x]
  BY <1>2 DEF IInv, TypeOK
<1>4. d \notin live /\ live \subseteq Depts
  BY <1>1 DEF IInv, TypeOK
<1>5. TypeOK'
  <2>1. /\ req' \in [Requests -> Request] /\ owner' \in [Depts -> Tenants \cup {NoTenant}]
        /\ parent' \in [Depts -> Depts \cup {NoDept}]
    BY <1>1, <1>2, <1>4, IdleIs DEF IInv, TypeOK
  <2>2. live' \subseteq {x \in Depts : owner'[x] # NoTenant}
    BY <1>1, <1>2, <1>3, NoneAssumption DEF IInv, TypeOK
  <2> QED
    BY <1>2, <2>1, <2>2 DEF IInv, TypeOK
<1>6. TenantsApart'
  <2>1. ASSUME NEW u \in Tenants, NEW x \in Depts, cache[<<u, x>>] # NoEntry PROVE owner'[x] = u
    BY <1>1, <1>3, <2>1, NoneAssumption DEF IInv, TenantsApart
  <2>2. ASSUME NEW x \in live', parent'[x] # NoDept
        PROVE  parent'[x] \in live' /\ owner'[parent'[x]] = owner'[x]
    <3>1. CASE x = d
      BY <1>1, <1>2, <1>3, <1>4, <2>2, <3>1
    <3>2. CASE x # d
      <4>1. x \in live /\ parent'[x] = parent[x] /\ owner'[x] = owner[x]
        BY <1>2, <1>3, <1>4, <2>2, <3>2
      <4>2. parent[x] \in live /\ owner[parent[x]] = owner[x]
        BY <2>2, <4>1 DEF IInv, TenantsApart
      <4> QED
        BY <1>2, <1>3, <1>4, <4>1, <4>2
    <3> QED
      BY <3>1, <3>2
  <2> QED
    BY <1>2, <2>1, <2>2 DEF TenantsApart
<1>7. CachedIsCurrent'
  <2>1. ASSUME NEW u \in Tenants, NEW x \in Depts
        PROVE  \/ cache'[<<u, x>>] = NoEntry \/ x \in raced'
               \/ x \in live' /\ <<x, version'[x]>> \in cache'[<<u, x>>].view.rows
               \/ \E q \in Requests : req'[q].pc = "evict" /\ req'[q].id = x
    <3>1. \/ cache[<<u, x>>] = NoEntry \/ x \in raced
          \/ x \in live /\ <<x, version[x]>> \in cache[<<u, x>>].view.rows
          \/ \E q \in Requests : req[q].pc = "evict" /\ req[q].id = x
      BY DEF IInv, CachedIsCurrent
    <3>2. \A q \in Requests : req[q].pc = "evict" => req'[q] = req[q]
      BY <1>1, <1>3
    <3> QED
      BY <1>2, <3>1, <3>2
  <2> QED
    BY <2>1 DEF CachedIsCurrent
<1>8. Local(req[r])'
  BY <1>3, IdleIs DEF Local
<1>9. \A x \in Depts : owner[x] # NoTenant => owner'[x] = owner[x]
  BY <1>1, <1>3
<1> QED
  BY <1>1, <1>2, <1>5, <1>6, <1>7, <1>8, <1>9, IdleIs, StepIInv DEF Writing

\* What an update and a deletion do to the rest of the requests and to the cache:
\* the fills of d are late from now on, and the entry of d is about to go.
LEMMA WriteIInv ==
  ASSUME IInv, NEW r \in Requests, req[r].pc \in {"update", "remove"},
         req' = [req EXCEPT ![r].pc = "evict"], Outdate(req[r].id), owner' = owner, cache' = cache,
         answer' = "none",
         \A x \in Depts \ {req[r].id} : version'[x] = version[x] /\ (x \in live => x \in live'),
         version' \in [Depts -> 0 .. MaxVersion], parent' \in [Depts -> Depts \cup {NoDept}],
         live' \subseteq live,
         \A x \in live' : parent'[x] # NoDept => parent'[x] \in live' /\ owner[parent'[x]] = owner[x]
  PROVE  IInv'
<1> DEFINE d == req[r].id
           next == [req[r] EXCEPT !.pc = "evict"]
<1>1. req[r] \in Request /\ d \in Depts /\ owner[d] = req[r].tenant /\ req[r].tenant \in Tenants
  BY DEF IInv, TypeOK, Local
<1>2. next \in Request /\ next.pc = "evict" /\ next.id = d /\ next.tenant = req[r].tenant
  BY <1>1 DEF Request
<1>3. req' = [req EXCEPT ![r] = next]
  OBVIOUS
<1> HIDE DEF next
<1>4. req'[r] = next /\ \A q \in Requests : q # r => req'[q] = req[q]
  BY <1>3 DEF IInv, TypeOK
<1>5. /\ raced \subseteq raced' /\ raced' \subseteq Depts
      /\ \A q \in Requests : req[q].pc = "fill" => req[q].id \in raced' \/ req[q].id # d
  BY <1>1 DEF Outdate, IInv, TypeOK
<1>6. TypeOK'
  BY <1>2, <1>3, <1>5 DEF IInv, TypeOK
<1>7. TenantsApart'
  BY DEF IInv, TenantsApart
<1>8. CachedIsCurrent'
  <2>1. ASSUME NEW u \in Tenants, NEW x \in Depts
        PROVE  \/ cache'[<<u, x>>] = NoEntry \/ x \in raced'
               \/ x \in live' /\ <<x, version'[x]>> \in cache'[<<u, x>>].view.rows
               \/ \E q \in Requests : req'[q].pc = "evict" /\ req'[q].id = x
    <3>1. CASE x = d
      BY <1>2, <1>4, <3>1
    <3>2. CASE x # d
      <4>1. \/ cache[<<u, x>>] = NoEntry \/ x \in raced
            \/ x \in live /\ <<x, version[x]>> \in cache[<<u, x>>].view.rows
            \/ \E q \in Requests : req[q].pc = "evict" /\ req[q].id = x
        BY DEF IInv, CachedIsCurrent
      <4>2. \A q \in Requests : req[q].pc = "evict" => req'[q] = req[q]
        BY <1>4
      <4> QED
        BY <1>5, <3>2, <4>1, <4>2
    <3> QED
      BY <3>1, <3>2
  <2> QED
    BY ONLY <2>1 DEF CachedIsCurrent
<1>9. Local(req[r])'
  BY <1>1, <1>2, <1>4 DEF Local
<1>10. \A q \in Requests : req[q].pc = "fill" =>
         \/ req[q].id \in raced'
         \/ (req[q].id \in live => req[q].id \in live') /\ version'[req[q].id] = version[req[q].id]
  <2>1. \A q \in Requests : req[q].pc = "fill" => req[q].id \in Depts
    BY DEF IInv, Local
  <2> QED
    BY <1>5, <2>1
<1> QED
  BY <1>2, <1>3, <1>5, <1>6, <1>7, <1>8, <1>9, <1>10, StepIInv DEF Writing

\* The new parent is of the tenant, and still there.
LEMMA UpdateWriteIInv == ASSUME IInv, NEW r \in Requests, UpdateWrite(r) PROVE IInv'
<1> DEFINE d == req[r].id
           p == req[r].target
<1>1. /\ req[r].pc = "update" /\ d \in live /\ p \in live \cup {NoDept} /\ version[d] < MaxVersion
      /\ version' = [version EXCEPT ![d] = @ + 1]
      /\ parent' = IF p = NoDept THEN parent ELSE [parent EXCEPT ![d] = p]
      /\ req' = [req EXCEPT ![r].pc = "evict"] /\ Outdate(d) /\ answer' = "none"
      /\ live' = live /\ owner' = owner /\ cache' = cache
  BY DEF UpdateWrite
<1>2. /\ d \in Depts /\ owner[d] = req[r].tenant /\ (p = NoDept \/ owner[p] = req[r].tenant)
      /\ live \subseteq Depts
  BY <1>1 DEF IInv, TypeOK, Local
<1>3. version[d] + 1 \in 0 .. MaxVersion
  BY <1>1, <1>2, TTLAssumption DEF IInv, TypeOK
<1>4. version' \in [Depts -> 0 .. MaxVersion] /\ \A x \in Depts \ {d} : version'[x] = version[x]
  BY <1>1, <1>3 DEF IInv, TypeOK
<1>5. /\ parent' \in [Depts -> Depts \cup {NoDept}]
      /\ \A x \in Depts : parent'[x] = parent[x] \/ (x = d /\ p # NoDept /\ parent'[x] = p)
  BY <1>1, <1>2 DEF IInv, TypeOK
<1>6. \A x \in live' : parent'[x] # NoDept => parent'[x] \in live' /\ owner[parent'[x]] = owner[x]
  BY <1>1, <1>2, <1>5 DEF IInv, TenantsApart
<1> QED
  BY <1>1, <1>4, <1>5, <1>6, WriteIInv

\* The children of what is deleted have no parent any more.
LEMMA DeleteRemoveIInv == ASSUME IInv, NEW r \in Requests, DeleteRemove(r) PROVE IInv'
<1> DEFINE d == req[r].id
<1>1. /\ req[r].pc = "remove" /\ d \in live /\ live' = live \ {d}
      /\ parent' = [c \in Depts |-> IF parent[c] = d THEN NoDept ELSE parent[c]]
      /\ req' = [req EXCEPT ![r].pc = "evict"] /\ Outdate(d) /\ answer' = "none"
      /\ version' = version /\ owner' = owner /\ cache' = cache
  BY DEF DeleteRemove
<1>2. live \subseteq Depts /\ version' \in [Depts -> 0 .. MaxVersion]
      /\ parent' \in [Depts -> Depts \cup {NoDept}]
  BY <1>1 DEF IInv, TypeOK
<1>3. \A x \in live' : parent'[x] # NoDept => parent'[x] \in live' /\ owner[parent'[x]] = owner[x]
  BY <1>1, <1>2 DEF IInv, TenantsApart
<1> QED
  BY <1>1, <1>2, <1>3, WriteIInv

\* The entry goes, and no other tenant has one of that department.
LEMMA EvictIInv == ASSUME IInv, NEW r \in Requests, Evict(r) PROVE IInv'
<1> DEFINE d == req[r].id
           t == req[r].tenant
<1>1. req[r].pc = "evict" /\ d \in Depts /\ t \in Tenants /\ owner[d] = t
  BY DEF Evict, IInv, Local
<1>2. /\ UNCHANGED <<live, owner, parent, version, raced>> /\ req' = [req EXCEPT ![r] = Idle]
      /\ cache' = [cache EXCEPT ![<<t, d>>] = NoEntry] /\ answer' = "none"
  BY DEF Evict, rows, CacheKey, Done
<1>3. req'[r] = Idle /\ \A q \in Requests : q # r => req'[q] = req[q]
  BY <1>2 DEF IInv, TypeOK
<1>4. TypeOK'
  BY <1>1, <1>2, IdleIs, EntryIs DEF IInv, TypeOK
<1>5. \A k \in Tenants \X Depts : cache'[k] = IF k = <<t, d>> THEN NoEntry ELSE cache[k]
  BY <1>2 DEF IInv, TypeOK
<1>6. TenantsApart'
  BY <1>1, <1>2, <1>5 DEF IInv, TenantsApart
<1>7. CachedIsCurrent'
  <2>1. ASSUME NEW u \in Tenants, NEW x \in Depts
        PROVE  \/ cache'[<<u, x>>] = NoEntry \/ x \in raced'
               \/ x \in live' /\ <<x, version'[x]>> \in cache'[<<u, x>>].view.rows
               \/ \E q \in Requests : req'[q].pc = "evict" /\ req'[q].id = x
    <3>1. CASE x = d
      BY <1>1, <1>5, <3>1 DEF IInv, TenantsApart
    <3>2. CASE x # d
      <4>1. \/ cache[<<u, x>>] = NoEntry \/ x \in raced
            \/ x \in live /\ <<x, version[x]>> \in cache[<<u, x>>].view.rows
            \/ \E q \in Requests : req[q].pc = "evict" /\ req[q].id = x
        BY DEF IInv, CachedIsCurrent
      <4>2. cache'[<<u, x>>] = cache[<<u, x>>]
        BY <1>5, <3>2
      <4>3. \A q \in Requests : req[q].id = x => req'[q] = req[q]
        BY <1>3, <3>2
      <4> QED
        BY <1>2, <4>1, <4>2, <4>3
    <3> QED
      BY <3>1, <3>2
  <2> QED
    BY <2>1 DEF CachedIsCurrent
<1>8. Local(req[r])'
  BY <1>3, IdleIs DEF Local
<1> QED
  BY <1>1, <1>2, <1>4, <1>6, <1>7, <1>8, IdleIs, StepIInv DEF Writing

\* A request that fails with an entry still to delete leaves it known as old.
LEMMA FailIInv == ASSUME IInv, NEW r \in Requests, Fail(r) PROVE IInv'
<1>1. /\ UNCHANGED <<live, owner, parent, version, cache>> /\ req' = [req EXCEPT ![r] = Idle]
      /\ raced' = (IF req[r].pc = "evict" THEN raced \cup {req[r].id} ELSE raced) /\ answer' = "none"
  BY DEF Fail, rows, Done
<1>2. req'[r] = Idle /\ \A q \in Requests : q # r => req'[q] = req[q]
  BY <1>1 DEF IInv, TypeOK
<1>3. req[r].pc = "evict" => req[r].id \in Depts
  BY DEF IInv, Local
<1>4. TypeOK'
  BY <1>1, <1>3, IdleIs DEF IInv, TypeOK
<1>5. TenantsApart'
  BY <1>1 DEF IInv, TenantsApart
<1>6. CachedIsCurrent'
  BY <1>1, <1>2, KeptCurrent DEF IInv
<1>7. Local(req[r])'
  BY <1>2, IdleIs DEF Local
<1> QED
  BY <1>1, <1>4, <1>5, <1>6, <1>7, IdleIs, StepIInv DEF Writing

\* An entry gets older or goes.
LEMMA TickIInv == ASSUME IInv, Tick PROVE IInv'
<1>1. /\ UNCHANGED <<live, owner, parent, version, req, raced>> /\ answer' = "none"
      /\ cache' = [k \in DOMAIN cache |->
           IF cache[k].left <= 1 THEN NoEntry ELSE [cache[k] EXCEPT !.left = @ - 1]]
  BY DEF Tick, rows
<1>2. ASSUME NEW k \in Tenants \X Depts
      PROVE  /\ cache'[k] \in [view : Views, left : 0 .. CacheTTL]
             /\ cache'[k] = NoEntry \/ (cache[k] # NoEntry /\ cache'[k].view = cache[k].view)
  <2>1. cache[k] \in [view : Views, left : 0 .. CacheTTL] /\ k \in DOMAIN cache
    BY DEF IInv, TypeOK
  <2>2. CASE cache[k].left <= 1
    BY <1>1, <2>1, <2>2, EntryIs
  <2>3. CASE ~(cache[k].left <= 1)
    <3>1. cache'[k] = [cache[k] EXCEPT !.left = @ - 1]
      BY <1>1, <2>1, <2>3
    <3>2. cache[k].left - 1 \in 0 .. CacheTTL /\ cache[k] # NoEntry
      BY <2>1, <2>3, TTLAssumption DEF NoEntry
    <3> QED
      BY <2>1, <3>1, <3>2
  <2> QED
    BY <2>2, <2>3
<1>3. TypeOK'
  <2>1. cache' \in [Tenants \X Depts -> [view : Views, left : 0 .. CacheTTL]]
    BY <1>1, <1>2 DEF IInv, TypeOK
  <2> QED
    BY <1>1, <2>1 DEF IInv, TypeOK
<1>4. TenantsApart'
  BY <1>1, <1>2 DEF IInv, TenantsApart
<1>5. CachedIsCurrent'
  <2>1. ASSUME NEW u \in Tenants, NEW x \in Depts
        PROVE  \/ cache'[<<u, x>>] = NoEntry \/ x \in raced'
               \/ x \in live' /\ <<x, version'[x]>> \in cache'[<<u, x>>].view.rows
               \/ \E q \in Requests : req'[q].pc = "evict" /\ req'[q].id = x
    <3>1. \/ cache[<<u, x>>] = NoEntry \/ x \in raced
          \/ x \in live /\ <<x, version[x]>> \in cache[<<u, x>>].view.rows
          \/ \E q \in Requests : req[q].pc = "evict" /\ req[q].id = x
      BY DEF IInv, CachedIsCurrent
    <3>2. cache'[<<u, x>>] = NoEntry \/ (cache[<<u, x>>] # NoEntry /\ cache'[<<u, x>>].view = cache[<<u, x>>].view)
      BY <1>2
    <3> QED
      BY <1>1, <3>1, <3>2
  <2> QED
    BY <2>1 DEF CachedIsCurrent
<1>6. (\A r \in Requests : Local(req[r])') /\ PeersInv'
  BY <1>1 DEF IInv, Local, Children, PeersInv
<1> QED
  BY <1>3, <1>4, <1>5, <1>6 DEF IInv

\* Every step keeps the invariant.
LEMMA NextIInv == ASSUME IInv, [Next]_vars PROVE IInv'
<1>1. CASE UNCHANGED vars
  BY <1>1, StutterIInv
<1>2. CASE Tick
  BY <1>2, TickIInv
<1>3. ASSUME NEW r \in Requests, Start(r) \/ Continue(r) PROVE IInv'
  BY <1>3, StartIInv, GetReadIInv, GetFillIInv, CreateInsertIInv, UpdateWriteIInv,
     DeleteRemoveIInv, EvictIInv, FailIInv DEF Continue
<1> QED
  BY <1>1, <1>2, <1>3 DEF Next

LEMMA Invariance == Spec => []IInv
BY InitIInv, NextIInv, PTL DEF Spec
--------------------------------------------------------------------------------
\* TypeOK holds in every reachable state.
THEOREM TypeCorrect == Spec => []TypeOK
BY Invariance, PTL DEF IInv

\* TenantsApart: no cache entry and no edge of the hierarchy crosses from one
\* tenant to another, whatever updates and deletions pass each other.
THEOREM TenantsSafe == Spec => []TenantsApart
BY Invariance, PTL DEF IInv

\* CachedIsCurrent: a cached department is the one in the table or about to go,
\* but for a fill that came late and a writer that failed half-way.
THEOREM CacheSafe == Spec => []CachedIsCurrent
BY Invariance, PTL DEF IInv

\* AloneOrphansNone: a deletion that no other writer overlaps leaves no child
\* behind, since what it has counted is still so.
THEOREM OrphansSafe == Spec => AloneOrphansNone
<1>1. ASSUME IInv, [Next]_vars
      PROVE  [\A r \in Requests :
                DeleteRemove(r) /\ req[r].alone => Children(req[r].id) = {}]_vars
  BY <1>1 DEF IInv, Local, DeleteRemove
<1> QED
  BY <1>1, Invariance, PTL DEF Spec, AloneOrphansNone

\* Three actions write rows.
LEMMA OnlyWritersWrite ==
  ASSUME [Next]_vars
  PROVE  \/ UNCHANGED rows
         \/ \E r \in Requests :
              \/ \E d \in Depts : CreateInsert(r, d)
              \/ UpdateWrite(r) \/ DeleteRemove(r)
<1>1. ASSUME NEW r \in Requests, Start(r) PROVE UNCHANGED rows
  BY <1>1 DEF Start, CreateStart, GetStart, UpdateStart, DeleteStart, Begin
<1>2. ASSUME NEW r \in Requests, GetRead(r) \/ GetFill(r) \/ Evict(r) \/ Fail(r)
      PROVE  UNCHANGED rows
  BY <1>2 DEF GetRead, GetFill, Evict, Fail
<1> QED
  BY <1>1, <1>2 DEF Next, Tick, Continue, vars, rows

\* A department is not its own parent: an update has compared the two, and what
\* is created is not there yet when its parent is looked for.
NotOwnParent == \A d \in live : parent[d] # d

LEMMA NotOwnParentKept ==
  ASSUME IInv, NotOwnParent, [Next]_vars
  PROVE  NotOwnParent'
<1>1. CASE UNCHANGED rows
  BY <1>1 DEF NotOwnParent, rows
<1>2. ASSUME NEW r \in Requests, NEW d \in Depts, CreateInsert(r, d) PROVE NotOwnParent'
  <2>1. d \notin live /\ live \subseteq Depts /\ req[r].target # d
    BY <1>2, NoneAssumption DEF IInv, TypeOK, CreateInsert
  <2> QED
    BY <1>2, <2>1 DEF NotOwnParent, CreateInsert, IInv, TypeOK
<1>3. ASSUME NEW r \in Requests, UpdateWrite(r) PROVE NotOwnParent'
  <2>1. req[r].target # req[r].id /\ live \subseteq Depts
    BY <1>3 DEF IInv, TypeOK, Local, UpdateWrite
  <2> QED
    BY <1>3, <2>1 DEF NotOwnParent, UpdateWrite, IInv, TypeOK
<1>4. ASSUME NEW r \in Requests, DeleteRemove(r) PROVE NotOwnParent'
  BY <1>4, NoneAssumption DEF NotOwnParent, DeleteRemove, IInv, TypeOK
<1> QED
  BY <1>1, <1>2, <1>3, <1>4, OnlyWritersWrite

\* A set of departments that is closed under the new parents was so under the old
\* ones, but for a department that has just been created, below which is none.
LEMMA CyclesByMoves ==
  ASSUME IInv, NotOwnParent', [Next]_vars, Acyclic, ~Acyclic'
  PROVE  \E r \in Requests : UpdateWrite(r) /\ req[r].target # NoDept
<1>1. PICK S \in SUBSET live' : S # {} /\ \A c \in S : parent'[c] \in S
  BY DEF Acyclic
<1>2. live \subseteq Depts
  BY DEF IInv, TypeOK
<1>3. CASE UNCHANGED rows
  BY <1>1, <1>3 DEF Acyclic, rows
<1>4. ASSUME NEW r \in Requests, NEW d \in Depts, CreateInsert(r, d) PROVE FALSE
  <2> DEFINE T == S \ {d}
  <2>1. d \notin live /\ T \subseteq live /\ \A c \in T : parent[c] = parent'[c]
    BY <1>1, <1>2, <1>4, NoneAssumption DEF IInv, TypeOK, CreateInsert
  <2>2. T # {}
    BY <1>1, <2>1 DEF NotOwnParent
  <2>3. \A c \in T : parent[c] \in live
    BY <1>1, <1>2, <1>4, <2>1, NoneAssumption DEF IInv, TenantsApart, CreateInsert
  <2>4. \A c \in T : parent[c] \in T
    BY <1>1, <2>1, <2>3
  <2> QED
    BY <2>1, <2>2, <2>4 DEF Acyclic
<1>5. ASSUME NEW r \in Requests, DeleteRemove(r) PROVE FALSE
  <2>1. S \subseteq live /\ \A c \in S : parent'[c] # NoDept
    BY <1>1, <1>2, <1>5, NoneAssumption DEF DeleteRemove
  <2>2. \A c \in S : parent[c] = parent'[c]
    BY <1>2, <1>5, <2>1 DEF DeleteRemove
  <2> QED
    BY <1>1, <2>1, <2>2 DEF Acyclic
<1>6. ASSUME NEW r \in Requests, UpdateWrite(r), req[r].target = NoDept PROVE FALSE
  BY <1>1, <1>6 DEF UpdateWrite, Acyclic
<1> QED
  BY <1>3, <1>4, <1>5, <1>6, OnlyWritersWrite

\* OnlyMovesClose: a department is never its own parent, and only an update that
\* moves a department makes a cycle.
THEOREM MovesSafe == Spec => OnlyMovesClose
<1>1. Init => NotOwnParent
  BY DEF Init, NotOwnParent
<1>2. Spec => []NotOwnParent
  BY <1>1, NotOwnParentKept, Invariance, PTL DEF Spec
<1>3. ASSUME IInv, NotOwnParent', [Next]_vars
      PROVE  [/\ \A d \in live' : parent'[d] # d
              /\ Acyclic /\ ~Acyclic' =>
                   \E r \in Requests : UpdateWrite(r) /\ req[r].target # NoDept]_vars
  BY <1>3, CyclesByMoves DEF NotOwnParent
<1> QED
  BY <1>2, <1>3, Invariance, PTL DEF Spec, OnlyMovesClose

\* HierarchyKept: both of what the hierarchy keeps to.
THEOREM HierarchySafe == Spec => HierarchyKept
BY OrphansSafe, MovesSafe DEF HierarchyKept
--------------------------------------------------------------------------------
(* The safety under EventuallyCurrent: what is stale fades.                 *)

\* As long as the rows stay, so do the views of them.
LEMMA SameRows ==
  ASSUME UNCHANGED rows
  PROVE  live' = live /\ \A d \in Depts : View(d)' = View(d)
BY DEF rows, View, Children

\* A step other than a fill lets entries go or grow older, and no fill that it
\* leaves, or lets set out, is stale that was not.
LEMMA FadeStep ==
  ASSUME TypeOK, UNCHANGED rows,
         \A k \in Tenants \X Depts : cache'[k] \in {cache[k], NoEntry},
         \A q \in Requests : req'[q].pc = "fill" =>
           \/ req[q].pc = "fill" /\ req'[q].id = req[q].id /\ req'[q].view = req[q].view
           \/ req'[q].id \in live /\ req'[q].view = View(req'[q].id)
  PROVE  /\ \A q \in Requests : StaleFill(q)' => StaleFill(q)
         /\ \A t \in Tenants, d \in Depts : StaleEntry(t, d)' =>
              StaleEntry(t, d) /\ cache'[<<t, d>>].left <= cache[<<t, d>>].left
<1>1. ASSUME NEW q \in Requests, StaleFill(q)' PROVE StaleFill(q)
  <2>1. req'[q].pc = "fill" /\ ~(req'[q].id \in live /\ req'[q].view = View(req'[q].id))
    BY <1>1 DEF StaleFill, View, Children, rows
  <2> QED
    BY <2>1 DEF StaleFill
<1>2. ASSUME NEW t \in Tenants, NEW d \in Depts, StaleEntry(t, d)'
      PROVE  StaleEntry(t, d) /\ cache'[<<t, d>>].left <= cache[<<t, d>>].left
  <2>1. /\ cache'[<<t, d>>] # NoEntry
        /\ ~(d \in live' /\ cache'[<<t, d>>].view = Serialised(View(d)'))
    BY <1>2 DEF StaleEntry, Serialised
  <2>2. cache'[<<t, d>>] = cache[<<t, d>>] /\ cache[<<t, d>>].left \in 0 .. CacheTTL
    BY <2>1 DEF TypeOK
  <2> QED
    BY <2>1, <2>2, SameRows, TTLAssumption DEF StaleEntry, Serialised
<1> QED
  BY <1>1, <1>2

\* A fill stores what it carries, and is done.
LEMMA FadeFill ==
  ASSUME IInv, NEW r \in Requests, GetFill(r)
  PROVE  /\ \A q \in Requests : StaleFill(q)' => StaleFill(q)
         /\ \A t \in Tenants, d \in Depts : StaleEntry(t, d)' =>
              \/ StaleEntry(t, d) /\ cache'[<<t, d>>] = cache[<<t, d>>]
              \/ /\ StaleFill(r) /\ ~StaleFill(r)'
                 /\ req[r].tenant = t /\ req[r].id = d
<1> DEFINE i == req[r].id
           u == req[r].tenant
<1>1. /\ req[r].pc = "fill" /\ i \in Depts /\ u \in Tenants /\ req[r].view \in Views
      /\ UNCHANGED rows
      /\ cache' = [cache EXCEPT ![<<u, i>>] = [view |-> Serialised(req[r].view), left |-> CacheTTL]]
      /\ req' = [req EXCEPT ![r] = Idle]
  BY DEF GetFill, Done, CacheKey, IInv, TypeOK, Local, Request
<1>2. req'[r] = Idle /\ \A q \in Requests : q # r => req'[q] = req[q]
  BY <1>1 DEF IInv, TypeOK
<1>3. ~StaleFill(r)'
  BY <1>2, IdleIs DEF StaleFill
<1>4. ASSUME NEW q \in Requests, StaleFill(q)' PROVE StaleFill(q)
  <2>1. q # r /\ req'[q] = req[q]
    BY <1>2, <1>3, <1>4
  <2> QED
    BY <1>1, <1>4, <2>1, SameRows DEF StaleFill, View, Children, rows
<1>5. ASSUME NEW t \in Tenants, NEW d \in Depts, StaleEntry(t, d)'
      PROVE  \/ StaleEntry(t, d) /\ cache'[<<t, d>>] = cache[<<t, d>>]
             \/ StaleFill(r) /\ u = t /\ i = d
  <2>1. /\ cache'[<<t, d>>] # NoEntry
        /\ ~(d \in live /\ cache'[<<t, d>>].view = Serialised(View(d)))
    BY <1>1, <1>5, SameRows DEF StaleEntry, Serialised
  <2>2. CASE t = u /\ d = i
    <3>1. cache'[<<t, d>>].view = Serialised(req[r].view)
      BY <1>1, <2>2 DEF IInv, TypeOK
    <3> QED
      BY <1>1, <2>1, <2>2, <3>1 DEF StaleFill
  <2>3. CASE ~(t = u /\ d = i)
    <3>1. cache'[<<t, d>>] = cache[<<t, d>>]
      BY <1>1, <2>3 DEF IInv, TypeOK
    <3> QED
      BY <2>1, <3>1 DEF StaleEntry
  <2> QED
    BY <2>2, <2>3
<1> QED
  BY <1>3, <1>4, <1>5

\* With time an entry goes or gets older.
LEMMA FadeTick ==
  ASSUME TypeOK, Tick
  PROVE  /\ \A q \in Requests : StaleFill(q)' => StaleFill(q)
         /\ \A t \in Tenants, d \in Depts : StaleEntry(t, d)' =>
              /\ StaleEntry(t, d) /\ cache'[<<t, d>>].left <= cache[<<t, d>>].left
              /\ cache'[<<t, d>>].left < cache[<<t, d>>].left
<1>1. /\ UNCHANGED <<rows, req>>
      /\ cache' = [k \in DOMAIN cache |->
           IF cache[k].left <= 1 THEN NoEntry ELSE [cache[k] EXCEPT !.left = @ - 1]]
  BY DEF Tick
<1>2. ASSUME NEW q \in Requests, StaleFill(q)' PROVE StaleFill(q)
  BY <1>1, <1>2 DEF StaleFill, View, Children, rows
<1>3. ASSUME NEW t \in Tenants, NEW d \in Depts, StaleEntry(t, d)'
      PROVE  /\ StaleEntry(t, d) /\ cache'[<<t, d>>].left <= cache[<<t, d>>].left
             /\ cache'[<<t, d>>].left < cache[<<t, d>>].left
  <2> DEFINE k == <<t, d>>
  <2>1. cache'[k] # NoEntry /\ ~(d \in live /\ cache'[k].view = Serialised(View(d)))
    BY <1>1, <1>3 DEF StaleEntry, Serialised, View, Children, rows
  <2>2. cache[k] \in [view : Views, left : 0 .. CacheTTL] /\ k \in DOMAIN cache
    BY DEF TypeOK
  <2>3. ~(cache[k].left <= 1) /\ cache'[k] = [cache[k] EXCEPT !.left = @ - 1]
    BY <1>1, <2>1, <2>2
  <2>4. /\ cache'[k].view = cache[k].view /\ cache[k] # NoEntry
        /\ cache'[k].left <= cache[k].left /\ cache'[k].left < cache[k].left
    BY <2>2, <2>3, TTLAssumption DEF NoEntry
  <2> QED
    BY <2>1, <2>4 DEF StaleEntry
<1> QED
  BY <1>2, <1>3

\* What a request does beside filling the cache.
LEMMA FadeOther ==
  ASSUME IInv, UNCHANGED rows, NEW r \in Requests,
         Start(r) \/ GetRead(r) \/ (\E d \in Depts : CreateInsert(r, d))
           \/ UpdateWrite(r) \/ DeleteRemove(r) \/ Evict(r) \/ Fail(r)
  PROVE  /\ \A k \in Tenants \X Depts : cache'[k] \in {cache[k], NoEntry}
         /\ \A q \in Requests : req'[q].pc = "fill" =>
              \/ req[q].pc = "fill" /\ req'[q].id = req[q].id /\ req'[q].view = req[q].view
              \/ req'[q].id \in live /\ req'[q].view = View(req'[q].id)
<1>0. req \in [Requests -> Request] /\ cache \in [Tenants \X Depts -> [view : Views, left : 0 .. CacheTTL]]
  BY DEF IInv, TypeOK
<1>1. CASE Start(r)
  <2>1. PICK t \in Tenants, p \in Depts \cup {NoDept} :
          \/ CreateStart(r, t, p)
          \/ \E d \in Depts : GetStart(r, t, d) \/ UpdateStart(r, t, d, p) \/ DeleteStart(r, t, d)
    BY <1>1 DEF Start
  <2>2. ASSUME NEW first \in Request, first.pc # "fill", Begin(r, first)
        PROVE  /\ cache' = cache
               /\ \A q \in Requests : req'[q].pc = "fill" =>
                    req[q].pc = "fill" /\ req'[q].id = req[q].id /\ req'[q].view = req[q].view
    BY <1>0, <2>2 DEF Begin, Request
  <2>3. ASSUME NEW d \in Depts \cup {NoDept}, NEW pc \in {"insert", "update", "remove"},
               NEW x \in Depts \cup {NoDept}
        PROVE  Sets(pc, t, d, x) \in Request /\ Sets(pc, t, d, x).pc # "fill"
    <3>1. Sets(pc, t, d, x) \in Request /\ Sets(pc, t, d, x).pc = pc
      <4>1. NoView \in Views
        BY DEF NoView, Views
      <4>2. pc \in {"idle", "read", "fill", "insert", "update", "remove", "evict"}
        BY <2>3
      <4> QED
        BY <2>3, <4>1, <4>2 DEF Sets, Request
    <3>2. pc # "fill"
      BY <2>3
    <3> QED
      BY <3>1, <3>2
  <2>4. CASE CreateStart(r, t, p)
    BY <2>2, <2>3, <2>4 DEF CreateStart
  <2>5. ASSUME NEW d \in Depts, UpdateStart(r, t, d, p)
        PROVE  \E first \in Request : first.pc # "fill" /\ Begin(r, first)
    BY <2>3, <2>5 DEF UpdateStart
  <2>6. ASSUME NEW d \in Depts, DeleteStart(r, t, d)
        PROVE  \E first \in Request : first.pc # "fill" /\ Begin(r, first)
    BY <2>3, <2>6 DEF DeleteStart
  <2>7. ASSUME NEW d \in Depts, GetStart(r, t, d)
        PROVE  /\ cache' = cache
               /\ \A q \in Requests : req'[q].pc = "fill" => req'[q] = req[q]
    <3>1. Sets("read", t, d, NoDept).pc = "read"
      BY SetsIs
    <3> QED
      BY <1>0, <2>7, <3>1 DEF GetStart
  <2> QED
    BY <2>1, <2>2, <2>4, <2>5, <2>6, <2>7
<1>2. CASE GetRead(r)
  <2>1. cache' = cache /\ \A q \in Requests : q # r => req'[q] = req[q]
    BY <1>0, <1>2 DEF GetRead, Done
  <2>2. CASE FindFirst(req[r].tenant, req[r].id)
    <3>1. req' = [req EXCEPT ![r].pc = "fill", ![r].view = View(req[r].id)] /\ req[r].id \in live
      BY <1>2, <2>2 DEF GetRead, FindFirst
    <3>2. req'[r].id = req[r].id /\ req'[r].view = View(req[r].id)
      BY <1>0, <3>1 DEF Request
    <3> QED
      BY <2>1, <3>1, <3>2
  <2>3. CASE ~FindFirst(req[r].tenant, req[r].id)
    <3>1. req'[r] = Idle
      BY <1>0, <1>2, <2>3 DEF GetRead, Done
    <3> QED
      BY <2>1, <3>1, IdleIs
  <2> QED
    BY <2>2, <2>3
<1>3. CASE (\E d \in Depts : CreateInsert(r, d)) \/ UpdateWrite(r) \/ DeleteRemove(r)
             \/ Evict(r) \/ Fail(r)
  <2>1. req' \in {[req EXCEPT ![r] = Idle], [req EXCEPT ![r].pc = "evict"]}
    BY <1>3 DEF CreateInsert, UpdateWrite, DeleteRemove, Evict, Fail, Done
  <2>2. req'[r].pc # "fill" /\ \A q \in Requests : q # r => req'[q] = req[q]
    BY <1>0, <2>1, IdleIs DEF Request
  <2>3. \A k \in Tenants \X Depts : cache'[k] \in {cache[k], NoEntry}
    BY <1>0, <1>3 DEF CreateInsert, UpdateWrite, DeleteRemove, Evict, Fail
  <2> QED
    BY <2>2, <2>3
<1> QED
  BY <1>1, <1>2, <1>3

\* StaleFades: the cache gets stale by writes only, and what is stale is bound
\* to go.  With time passing, and every fill ending, that is EventuallyCurrent.
THEOREM FadesSafe == Spec => StaleFades
<1> DEFINE Fades ==
      UNCHANGED rows =>
        /\ \A r \in Requests : StaleFill(r)' => StaleFill(r)
        /\ \A t \in Tenants, d \in Depts : StaleEntry(t, d)' =>
             \/ /\ StaleEntry(t, d) /\ cache'[<<t, d>>].left <= cache[<<t, d>>].left
                /\ Tick => cache'[<<t, d>>].left < cache[<<t, d>>].left
             \/ \E r \in Requests : /\ StaleFill(r) /\ ~StaleFill(r)'
                                   /\ req[r].tenant = t /\ req[r].id = d
<1>1. ASSUME IInv, Next, UNCHANGED rows PROVE Fades
  <2>0. TypeOK /\ \A t \in Tenants, d \in Depts : cache[<<t, d>>].left \in 0 .. CacheTTL
    BY <1>1 DEF IInv, TypeOK
  <2>1. CASE Tick
    BY <2>0, <2>1, FadeTick
  <2>2. CASE ~Tick
    <3>1. PICK r \in Requests : Start(r) \/ Continue(r)
      BY <1>1, <2>2 DEF Next
    <3>2. CASE GetFill(r)
      BY <1>1, <2>0, <2>2, <3>2, FadeFill, TTLAssumption
    <3>3. CASE ~GetFill(r)
      BY <1>1, <2>0, <2>2, <3>1, <3>3, FadeOther, FadeStep DEF Continue
    <3> QED
      BY <3>2, <3>3
  <2> QED
    BY <2>1, <2>2
<1>2. IInv /\ [Next]_vars => [Fades]_vars
  BY <1>1
<1> QED
  BY <1>2, Invariance, PTL DEF Spec, StaleFades
--------------------------------------------------------------------------------
(* Departments implements RowStore.                                         *)

\* The rows of RowStore that live are the departments there are; their parents
\* are there, too.
LEMMA RefsLive ==
  ASSUME IInv
  PROVE  Store!Live = live /\ \A d \in Depts : Refs[d] \subseteq live
<1>1. Store!Live = live
  BY DEF IInv, TypeOK, Store!Live, Life
<1>2. \A d \in live : parent[d] \in live \cup {NoDept}
  BY DEF IInv, TenantsApart
<1> QED
  BY <1>1, <1>2 DEF Refs

\* A step that writes no row is none of RowStore.
LEMMA StoreStutter == ASSUME UNCHANGED <<live, owner, parent>> PROVE UNCHANGED Store!vars
BY DEF Store!vars, Life, Refs

\* A new department.
LEMMA StoreCreate ==
  ASSUME IInv, NEW r \in Requests, NEW d \in Depts, CreateInsert(r, d) PROVE Store!Create
<1> DEFINE p == req[r].target
<1>1. /\ req[r].tenant \in Tenants /\ owner[d] = NoTenant /\ d \notin live
      /\ p \in live \cup {NoDept} /\ live' = live \cup {d}
      /\ owner' = [owner EXCEPT ![d] = req[r].tenant] /\ parent' = [parent EXCEPT ![d] = p]
  BY DEF CreateInsert, IInv, TypeOK, Local
<1>2. /\ owner \in [Depts -> Tenants \cup {NoTenant}] /\ parent \in [Depts -> Depts \cup {NoDept}]
  BY DEF IInv, TypeOK
<1>3. Life[d] = "absent" /\ Life' = [Life EXCEPT ![d] = "live"]
  BY <1>1, <1>2, NoneAssumption DEF Life
<1>4. Refs' = [Refs EXCEPT ![d] = Refs'[d]]
  BY <1>1, <1>2 DEF Refs
<1>5. Refs'[d] \subseteq Store!Live
  BY <1>1, <1>2, RefsLive DEF Refs
<1> QED
  BY <1>1, <1>3, <1>4, <1>5 DEF Store!Create, Store!Refer

\* The parent is set, or stays.
LEMMA StoreUpdate == ASSUME IInv, NEW r \in Requests, UpdateWrite(r) PROVE Store!Update
<1> DEFINE d == req[r].id
           p == req[r].target
<1>1. /\ d \in live /\ d \in Depts /\ p \in live \cup {NoDept} /\ live' = live /\ owner' = owner
      /\ parent' = IF p = NoDept THEN parent ELSE [parent EXCEPT ![d] = p]
      /\ parent \in [Depts -> Depts \cup {NoDept}]
  BY DEF UpdateWrite, IInv, TypeOK
<1>2. UNCHANGED <<Life, owner>>
  BY <1>1 DEF Life
<1>3. Refs' = [Refs EXCEPT ![d] = Refs'[d]]
  BY <1>1 DEF Refs
<1>4. Refs[d] \subseteq live
  BY <1>1, RefsLive
<1>5. d \in Store!Live /\ Refs'[d] \subseteq Store!Live
  BY <1>1, <1>4, RefsLive DEF Refs
<1> QED
  BY <1>2, <1>3, <1>5 DEF Store!Update, Store!Refer

\* The children lose their parent with it.
LEMMA StoreDelete == ASSUME IInv, NEW r \in Requests, DeleteRemove(r) PROVE Store!Delete
<1> DEFINE d == req[r].id
<1>1. /\ d \in live /\ d \in Depts /\ live' = live \ {d} /\ owner' = owner /\ owner[d] # NoTenant
      /\ parent' = [c \in Depts |-> IF parent[c] = d THEN NoDept ELSE parent[c]]
  BY DEF DeleteRemove, IInv, TypeOK
<1>2. Life' = [Life EXCEPT ![d] = "gone"]
  BY <1>1 DEF Life
<1>3. Refs' = [j \in Depts |-> IF j = d THEN {} ELSE Refs[j] \ {d}]
  BY <1>1, NoneAssumption DEF Refs
<1>4. d \in Store!Live
  BY <1>1, RefsLive
<1> QED
  BY <1>1, <1>2, <1>3, <1>4 DEF Store!Delete

\* Every step is one of RowStore or none.
LEMMA StoreNext == IInv /\ [Next]_vars => [Store!Next]_(Store!vars)
<1> SUFFICES ASSUME IInv, [Next]_vars PROVE Store!Next \/ UNCHANGED Store!vars
  OBVIOUS
<1>1. CASE UNCHANGED vars \/ Tick
  BY <1>1, StoreStutter DEF vars, rows, Tick
<1>2. ASSUME NEW r \in Requests, Start(r) PROVE UNCHANGED Store!vars
  BY <1>2, StoreStutter DEF Start, CreateStart, GetStart, UpdateStart, DeleteStart, Begin, rows
<1>3. ASSUME NEW r \in Requests, GetRead(r) \/ GetFill(r) \/ Evict(r) \/ Fail(r)
      PROVE  UNCHANGED Store!vars
  BY <1>3, StoreStutter DEF GetRead, GetFill, Evict, Fail, rows
<1> QED
  BY <1>1, <1>2, <1>3, StoreCreate, StoreUpdate, StoreDelete DEF Next, Continue, Store!Next

\* StoreSpec: whatever a request has looked for before it writes, a department is
\* created once, with a parent that is there, and gone for good; so Departments
\* implements RowStore.
THEOREM Refinement == Spec => StoreSpec
<1>1. Init => Store!Init
  BY DEF Init, Store!Init, Life, Refs
<1> QED
  BY <1>1, StoreNext, Invariance, PTL DEF Spec, StoreSpec, Store!Spec
================================================================================
