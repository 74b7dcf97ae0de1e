------------------------------- MODULE Departments -------------------------------
(***************************************************************************)
(* DepartmentService of the employee-service: the departments of the       *)
(* tenants, their hierarchy, and the cache of departments in Redis.        *)
(*                                                                         *)
(* A department is read through the cache (cache-aside): look it up, read  *)
(* the row with its parent and its children, store the answer.  An update  *)
(* or a deletion writes the row and then deletes the cache entry.  Each    *)
(* awaited call is a step, so the requests interleave between them; there  *)
(* is no transaction.  listDepartments only reads and is left out, and the *)
(* employees of a department are only a reason for a deletion to fail.     *)
(***************************************************************************)
EXTENDS Integers, FiniteSets

CONSTANTS
  Depts,       \* ids of departments, given out by the database once each
  Tenants,
  Requests,    \* slots for gRPC requests in flight
  CacheTTL,    \* CACHE_TTL, in ticks
  MaxVersion,  \* bound: the updates of a department
  NoDept, NoTenant

ASSUME TTLAssumption == CacheTTL \in Nat \ {0} /\ MaxVersion \in Nat \ {0}
ASSUME NoneAssumption == NoDept \notin Depts /\ NoTenant \notin Tenants

VARIABLES
  live,      \* the rows of the table
  owner,     \* the tenant of each department ever created
  parent,    \* parentId
  version,   \* stands for the other columns: every write makes a new one
  cache,     \* department:<tenant>:<id>
  req,       \* requests in flight
  answer,    \* what the last step returned to a reader of a department
  raced      \* history: departments whose entry may have outlived a write

vars == <<live, owner, parent, version, cache, req, answer, raced>>
rows == <<live, owner, parent, version>>
--------------------------------------------------------------------------------
\* What a read of d returns: the row and, included, its parent and children.
\* Prisma gives the timestamps as Date objects.
Children(d) == {c \in live : parent[c] = d}
View(d) ==
  [parent |-> parent[d], dates |-> "date",
   rows |-> {<<x, version[x]>> : x \in {d} \cup ({parent[d]} \cap live) \cup Children(d)}]

NoView == [parent |-> NoDept, dates |-> "none", rows |-> {}]

\* The Redis store writes a value as JSON, and reads dates back as text.
Serialised(view) == [view EXCEPT !.dates = "text"]

\* The controller calls toISOString on the timestamps: text has no such method.
MapDepartmentToProto(view) == IF view.dates = "date" THEN "found" ELSE "failed"

NoEntry == [view |-> NoView, left |-> 0]

\* Mutant: the tenant is not part of the key.
CacheKey_NoTenant(t, d) == <<CHOOSE x \in Tenants : TRUE, d>>

CacheKey(t, d) == <<t, d>>

FindFirst(t, d) == d \in live /\ owner[d] = t

\* A request about d of a tenant, at pc; p is the parent to connect, or NoDept.
Sets(pc, t, d, p) ==
  [pc |-> pc, tenant |-> t, id |-> d, target |-> p, view |-> NoView, alone |-> TRUE]

Idle == Sets("idle", NoTenant, NoDept, NoDept)

Init ==
  /\ live = {}
  /\ owner = [d \in Depts |-> NoTenant]
  /\ parent = [d \in Depts |-> NoDept]
  /\ version = [d \in Depts |-> 0]
  /\ cache = [k \in Tenants \X Depts |-> NoEntry]
  /\ req = [r \in Requests |-> Idle]
  /\ answer = "none"
  /\ raced = {}

Writers == {r \in Requests : req[r].pc \in {"insert", "update", "remove"}}

\* r sets out to write.  alone is history: whether another writer has been
\* under way with it.
Begin(r, first) ==
  /\ req[r] = Idle
  /\ req' = [q \in Requests |->
       IF q = r THEN [first EXCEPT !.alone = Writers = {}]
       ELSE IF q \in Writers THEN [req[q] EXCEPT !.alone = FALSE] ELSE req[q]]
  /\ answer' = "none"
  /\ UNCHANGED <<rows, cache, raced>>

Done(r) == req' = [req EXCEPT ![r] = Idle]
--------------------------------------------------------------------------------
\* Mutant: whoever finds an entry prolongs it.
GetStart_Sliding(r, t, d) ==
  /\ req[r] = Idle /\ owner[d] # NoTenant
  /\ LET entry == cache[CacheKey(t, d)]
     IN  \/ /\ entry # NoEntry
            /\ answer' = MapDepartmentToProto(entry.view)
            /\ cache' = [cache EXCEPT ![CacheKey(t, d)].left = CacheTTL]
            /\ UNCHANGED req
         \/ /\ entry = NoEntry
            /\ req' = [req EXCEPT ![r] = Sets("read", t, d, NoDept)]
            /\ answer' = "none"
            /\ UNCHANGED cache
  /\ UNCHANGED <<rows, raced>>

\* getDepartmentById: the cache first.
GetStart(r, t, d) ==
  /\ req[r] = Idle /\ owner[d] # NoTenant
  /\ LET entry == cache[CacheKey(t, d)]
     IN  \/ /\ entry # NoEntry
            /\ answer' = MapDepartmentToProto(entry.view)
            /\ UNCHANGED req
         \/ /\ entry = NoEntry
            /\ req' = [req EXCEPT ![r] = Sets("read", t, d, NoDept)]
            /\ answer' = "none"
  /\ UNCHANGED <<rows, cache, raced>>

GetRead(r) ==
  /\ req[r].pc = "read"
  /\ \/ /\ FindFirst(req[r].tenant, req[r].id)
        /\ req' = [req EXCEPT ![r].pc = "fill", ![r].view = View(req[r].id)]
        /\ answer' = "none"
     \/ /\ ~FindFirst(req[r].tenant, req[r].id)
        /\ Done(r)
        /\ answer' = "missing"
  /\ UNCHANGED <<rows, cache, raced>>

GetFill(r) ==
  /\ req[r].pc = "fill"
  /\ cache' = [cache EXCEPT ![CacheKey(req[r].tenant, req[r].id)] =
                 [view |-> Serialised(req[r].view), left |-> CacheTTL]]
  /\ answer' = MapDepartmentToProto(req[r].view)
  /\ Done(r)
  /\ UNCHANGED <<rows, raced>>

\* createDepartment: the parent is looked for in the tenant.
CreateStart(r, t, p) ==
  /\ p = NoDept \/ FindFirst(t, p)
  /\ Begin(r, Sets("insert", t, NoDept, p))

\* Mutant: the parent is written without a look.
CreateInsert_NoConnect(r, d) ==
  /\ req[r].pc = "insert"
  /\ owner[d] = NoTenant
  /\ live' = live \cup {d}
  /\ owner' = [owner EXCEPT ![d] = req[r].tenant]
  /\ parent' = [parent EXCEPT ![d] = req[r].target]
  /\ Done(r) /\ answer' = "none"
  /\ UNCHANGED <<version, cache, raced>>

\* connect fails when the parent is gone.
CreateInsert(r, d) ==
  /\ req[r].pc = "insert"
  /\ owner[d] = NoTenant
  /\ req[r].target \in live \cup {NoDept}
  /\ live' = live \cup {d}
  /\ owner' = [owner EXCEPT ![d] = req[r].tenant]
  /\ parent' = [parent EXCEPT ![d] = req[r].target]
  /\ Done(r) /\ answer' = "none"
  /\ UNCHANGED <<version, cache, raced>>

\* Mutant: the parent may be any department.
UpdateStart_AnyParent(r, t, d, p) ==
  /\ FindFirst(t, d)
  /\ p = NoDept \/ (p # d /\ p \in live)
  /\ Begin(r, Sets("update", t, d, p))

\* updateDepartment.  Without a parent_id the parent stays as it is.
UpdateStart(r, t, d, p) ==
  /\ FindFirst(t, d)
  /\ p = NoDept \/ (p # d /\ FindFirst(t, p))
  /\ Begin(r, Sets("update", t, d, p))

\* The fills of d that are under way carry what is being replaced.
Outdate(d) ==
  raced' = IF \E q \in Requests : req[q].pc = "fill" /\ req[q].id = d
           THEN raced \cup {d} ELSE raced

UpdateWrite(r) ==
  LET d == req[r].id
  IN  /\ req[r].pc = "update"
      /\ d \in live /\ req[r].target \in live \cup {NoDept}
      /\ version[d] < MaxVersion
      /\ version' = [version EXCEPT ![d] = @ + 1]
      /\ parent' = IF req[r].target = NoDept THEN parent
                   ELSE [parent EXCEPT ![d] = req[r].target]
      /\ req' = [req EXCEPT ![r].pc = "evict"]
      /\ Outdate(d) /\ answer' = "none"
      /\ UNCHANGED <<live, owner, cache>>

\* Mutant: the children are not counted.
DeleteStart_NoCount(r, t, d) ==
  /\ FindFirst(t, d)
  /\ Begin(r, Sets("remove", t, d, NoDept))

\* deleteDepartment: it has no employees and no children.
DeleteStart(r, t, d) ==
  /\ FindFirst(t, d)
  /\ {c \in Children(d) : owner[c] = t} = {}
  /\ Begin(r, Sets("remove", t, d, NoDept))

\* Mutant: a deleted department stays in the cache.
DeleteRemove_NoEvict(r) ==
  LET d == req[r].id
  IN  /\ req[r].pc = "remove"
      /\ d \in live
      /\ live' = live \ {d}
      /\ parent' = [c \in Depts |-> IF parent[c] = d THEN NoDept ELSE parent[c]]
      /\ Done(r)
      /\ Outdate(d) /\ answer' = "none"
      /\ UNCHANGED <<owner, version, cache>>

\* The foreign key of a child that has appeared meanwhile is set to null.
DeleteRemove(r) ==
  LET d == req[r].id
  IN  /\ req[r].pc = "remove"
      /\ d \in live
      /\ live' = live \ {d}
      /\ parent' = [c \in Depts |-> IF parent[c] = d THEN NoDept ELSE parent[c]]
      /\ req' = [req EXCEPT ![r].pc = "evict"]
      /\ Outdate(d) /\ answer' = "none"
      /\ UNCHANGED <<owner, version, cache>>

Evict(r) ==
  /\ req[r].pc = "evict"
  /\ cache' = [cache EXCEPT ![CacheKey(req[r].tenant, req[r].id)] = NoEntry]
  /\ Done(r) /\ answer' = "none"
  /\ UNCHANGED <<rows, raced>>

\* An awaited call of r fails, or its process does.  What is written stays; an
\* entry that was still to be deleted stays too.
Fail(r) ==
  /\ req[r] # Idle
  /\ raced' = IF req[r].pc = "evict" THEN raced \cup {req[r].id} ELSE raced
  /\ Done(r) /\ answer' = "none"
  /\ UNCHANGED <<rows, cache>>

\* Mutant: an entry stays until it is deleted.
Tick_Forever == answer' = "none" /\ UNCHANGED <<rows, cache, req, raced>>

\* Mutant: an entry outlives its time.
Tick_NoFloor ==
  /\ cache' = [k \in DOMAIN cache |->
       IF cache[k] = NoEntry THEN NoEntry ELSE [cache[k] EXCEPT !.left = @ - 1]]
  /\ answer' = "none"
  /\ UNCHANGED <<rows, req, raced>>

\* Redis drops an entry when its time is up.
Tick ==
  /\ cache' = [k \in DOMAIN cache |->
       IF cache[k].left <= 1 THEN NoEntry ELSE [cache[k] EXCEPT !.left = @ - 1]]
  /\ answer' = "none"
  /\ UNCHANGED <<rows, req, raced>>

Start(r) ==
  \E t \in Tenants, p \in Depts \cup {NoDept} :
    \/ CreateStart(r, t, p)
    \/ \E d \in Depts :
         GetStart(r, t, d) \/ UpdateStart(r, t, d, p) \/ DeleteStart(r, t, d)

Continue(r) ==
  \/ GetRead(r) \/ GetFill(r)
  \/ \E d \in Depts : CreateInsert(r, d)
  \/ UpdateWrite(r) \/ DeleteRemove(r) \/ Evict(r)
  \/ Fail(r)

Next == Tick \/ \E r \in Requests : Start(r) \/ Continue(r)

Spec == Init /\ [][Next]_vars

\* Every awaited call returns or fails, and time passes.
FairSpec == Spec /\ WF_vars(Tick) /\ \A r \in Requests : WF_vars(Continue(r))
--------------------------------------------------------------------------------
Views == [parent : Depts \cup {NoDept}, dates : {"none", "date", "text"},
          rows : SUBSET (Depts \X (0 .. MaxVersion))]

Request == [pc : {"idle", "read", "fill", "insert", "update", "remove", "evict"},
            tenant : Tenants \cup {NoTenant}, id : Depts \cup {NoDept},
            target : Depts \cup {NoDept}, view : Views, alone : BOOLEAN]

TypeOK ==
  /\ live \subseteq {d \in Depts : owner[d] # NoTenant}
  /\ owner \in [Depts -> Tenants \cup {NoTenant}]
  /\ parent \in [Depts -> Depts \cup {NoDept}]
  /\ version \in [Depts -> 0 .. MaxVersion]
  /\ cache \in [Tenants \X Depts -> [view : Views, left : 0 .. CacheTTL]]
  /\ req \in [Requests -> Request]
  /\ answer \in {"none", "found", "missing", "failed"}
  /\ raced \subseteq Depts

\* The tenants stay apart: a cache entry is only ever under the key of the
\* tenant that owns the department, and the hierarchy joins only departments
\* of one tenant, whatever updates and deletions pass each other.
TenantsApart ==
  /\ \A t \in Tenants, d \in Depts : cache[<<t, d>>] # NoEntry => owner[d] = t
  /\ \A d \in live : parent[d] # NoDept =>
       parent[d] \in live /\ owner[parent[d]] = owner[d]

\* A cached department is the one in the table, or its entry is about to be
\* deleted; there are two ways out: a fill that set out before the write and
\* arrived after the deletion of the entry, and a writer that failed between
\* its two steps.
CachedIsCurrent == \A t \in Tenants, d \in Depts :
  cache[<<t, d>>] = NoEntry \/ d \in raced
    \/ (d \in live /\ <<d, version[d]>> \in cache[<<t, d>>].view.rows)
    \/ \E r \in Requests : req[r].pc = "evict" /\ req[r].id = d

\* A deletion that no other writer overlaps leaves no child behind.
AloneOrphansNone == [][\A r \in Requests :
  DeleteRemove(r) /\ req[r].alone => Children(req[r].id) = {}]_vars

\* A fill that carries what the table no longer holds, and an entry that does.
StaleFill(r) == req[r].pc = "fill" /\
  ~(req[r].id \in live /\ req[r].view = View(req[r].id))
StaleEntry(t, d) == cache[<<t, d>>] # NoEntry /\
  ~(d \in live /\ cache[<<t, d>>].view = Serialised(View(d)))

\* Nothing but a write makes the cache stale: without one no read sets out with
\* old rows, whoever has written, failed or deleted entries before; an entry is
\* stale only if it was, or by one of the late fills, which each come once; and
\* nobody who reads a stale entry keeps it alive: it gets older with each tick.
StaleFades == [][UNCHANGED rows =>
  /\ \A r \in Requests : StaleFill(r)' => StaleFill(r)
  /\ \A t \in Tenants, d \in Depts : StaleEntry(t, d)' =>
       \/ /\ StaleEntry(t, d) /\ cache'[<<t, d>>].left <= cache[<<t, d>>].left
          /\ Tick => cache'[<<t, d>>].left < cache[<<t, d>>].left
       \/ \E r \in Requests : /\ StaleFill(r) /\ ~StaleFill(r)'
                             /\ req[r].tenant = t /\ req[r].id = d]_vars

\* Whatever went wrong, and also for the parents and children that an entry
\* holds and nobody invalidates: once nothing is written any more, the cache
\* comes to hold what the table holds, and stays so.
EventuallyCurrent ==
  <>[](\A r \in Requests : req[r].pc \notin {"insert", "update", "remove"})
    => <>[](\A t \in Tenants, d \in Depts :
              cache[<<t, d>>] # NoEntry =>
                d \in live /\ cache[<<t, d>>].view = Serialised(View(d)))

\* What CHANGELOG.md says of DepartmentService: circular references are
\* prevented.  No department is its own ancestor.
Acyclic == ~ \E S \in SUBSET live : S # {} /\ \A d \in S : parent[d] \in S

\* What is prevented: a department is never its own parent, and no creation and
\* no deletion, whatever it overlaps, makes a cycle: only an update that moves a
\* department does, and it looked no further than at the parent it was given.
OnlyMovesClose == [][
  /\ \A d \in live' : parent'[d] # d
  /\ Acyclic /\ ~Acyclic' =>
       \E r \in Requests : UpdateWrite(r) /\ req[r].target # NoDept]_vars

\* What the hierarchy keeps to, whatever requests overlap.
HierarchyKept == AloneOrphansNone /\ OnlyMovesClose

\* The table of departments behaves as RowStore promises, which Staff shows of
\* the departments too, where they are a kind of rows among others.
Life == [d \in Depts |->
  IF d \in live THEN "live" ELSE IF owner[d] = NoTenant THEN "absent" ELSE "gone"]
Refs == [d \in Depts |-> IF d \in live THEN {parent[d]} \ {NoDept} ELSE {}]
Store == INSTANCE RowStore WITH
  Ids <- Depts, Owners <- Tenants, NoOwner <- NoTenant, life <- Life, refs <- Refs
StoreSpec == Store!Spec
================================================================================
