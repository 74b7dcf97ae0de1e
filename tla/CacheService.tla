------------------------------ MODULE CacheService ------------------------------
(***************************************************************************)
(* CacheService of libs/common: cache-aside reads through a cache that all *)
(* tenants share, warming, writing, looking, invalidation and reset.       *)
(*                                                                         *)
(* The service is a library without a caller in this repository, so its    *)
(* callers do anything its methods allow.  A call is a small process whose *)
(* steps are its awaits.  The source is what the loaders read: between two *)
(* of its versions any of its rows may have been written.                  *)
(***************************************************************************)
EXTENDS Integers, Sequences, SequencesExt

CONSTANTS
  Calls,       \* slots for calls in flight
  Rows,        \* what callers cache
  Pieces,      \* what is between the colons of a name
  Blank,       \* the piece without a character
  Absent,      \* the versions of the source in which loaders find null
  MaxVersion,  \* bound: how often the source is written
  Nothing      \* undefined or null

Version == 0 .. MaxVersion
Data == [row : Rows, version : Version]

\* Resources, tenants and identifiers are any strings: a name is the sequence of
\* the pieces between its colons, one if it has no colon.
Names == Seq(Pieces) \ {<<>>}

ASSUME BlankAssumption == Blank \in Pieces
ASSUME RowsAssumption == \A row \in Rows :
  /\ row.resource \in Names /\ row.tenant \in Names
  /\ row.identifiers \in Seq(Names) /\ FlattenSeq(row.identifiers) \in Seq(Pieces)
ASSUME VersionAssumption == MaxVersion \in Nat
ASSUME NothingAssumption == Nothing \notin Data \cup Rows

VARIABLES
  source,  \* the version of the source
  cache,   \* what is under each key
  call,    \* what each call in flight knows
  floor    \* history: of each row, the version that its entry cannot be below

vars == <<source, cache, call, floor>>
--------------------------------------------------------------------------------
\* identifiers.join(':'); of no identifiers the empty string.
Joined(identifiers) == IF identifiers = <<>> THEN <<Blank>> ELSE FlattenSeq(identifiers)

\* Mutant: the tenant is not in the key.
GenerateKey_NoTenant(resource, tenant, identifiers) == resource \o Joined(identifiers)

\* Text joined with colons: where one name ended and the next began is lost.
GenerateKey(resource, tenant, identifiers) == resource \o tenant \o Joined(identifiers)

KeyOf(row) == GenerateKey(row.resource, row.tenant, row.identifiers)

Keys == {KeyOf(row) : row \in Rows}

\* What a loader finds.
Found(row) == IF source \in Absent THEN Nothing ELSE [row |-> row, version |-> source]

\* data: what the call has read or was given, and at last its answer; loads:
\* how often it has called the loader; failed: whether an await has thrown.
Idle == [pc |-> "ended", op |-> "get", row |-> Nothing, data |-> Nothing,
         loads |-> 0, failed |-> FALSE]

Init ==
  /\ source = 0
  /\ cache = [key \in Keys |-> Nothing]
  /\ call = [c \in Calls |-> Idle]
  /\ floor = [row \in Rows |-> 0]

Over(c) == call[c].pc \in {"ended", "rejected"}

\* A call goes on and changes nothing but what it knows.
Go(c, next) ==
  /\ call' = [call EXCEPT ![c] = next]
  /\ UNCHANGED <<source, cache, floor>>

\* What the call knows next, of the same method and row.
Knowing(c, pc, data, loads, failed) ==
  [pc |-> pc, op |-> call[c].op, row |-> call[c].row, data |-> data,
   loads |-> loads, failed |-> failed]
--------------------------------------------------------------------------------
(* Where the methods begin.                                                 *)

Begin(c, op, pc, row, data) ==
  /\ Over(c)
  /\ Go(c, [pc |-> pc, op |-> op, row |-> row, data |-> data,
            loads |-> 0, failed |-> FALSE])

GetOrSet(c, row) == Begin(c, "getOrSet", "get", row, Nothing)

\* get, and has, which answers whether get would.
Get(c, row) == Begin(c, "get", "get", row, Nothing)

WarmCache(c, row) == Begin(c, "warmCache", "load", row, Nothing)

\* A caller stores what it has just read itself.
Set(c, row) == Found(row) # Nothing /\ Begin(c, "set", "store", row, Found(row))
--------------------------------------------------------------------------------
(* The awaits.                                                              *)

\* Mutant: warmCache and the others fall back on the loader, too.
AfterThrow_Always(c) == "again"

\* Only getOrSet has a loader to fall back on; the others answer without.
AfterThrow(c) == IF call[c].op = "getOrSet" THEN "again" ELSE "ended"

\* warmCache and set answer nothing.
Answer(c) == IF call[c].op = "getOrSet" THEN call[c].data ELSE Nothing

\* The cache is asked: a hit, a miss or an error.
Read(c) ==
  LET entry == cache[KeyOf(call[c].row)]
  IN  /\ call[c].pc = "get"
      /\ \/ entry # Nothing /\ Go(c, Knowing(c, "ended", entry, 0, FALSE))
         \/ /\ entry = Nothing
            /\ Go(c, Knowing(c, IF call[c].op = "getOrSet" THEN "load" ELSE "ended",
                             Nothing, 0, FALSE))
         \/ Go(c, Knowing(c, AfterThrow(c), Nothing, 0, TRUE))

\* The first call of the loader: null is answered and not stored.
Load(c) ==
  LET data == Found(call[c].row)
  IN  /\ call[c].pc = "load"
      /\ \/ Go(c, Knowing(c, IF data = Nothing THEN "ended" ELSE "store", data, 1, FALSE))
         \/ Go(c, Knowing(c, AfterThrow(c), Nothing, 1, TRUE))

\* The value is stored, or the cache throws, which may have stored it.
Store(c) ==
  LET k == call[c]
      stored == [cache EXCEPT ![KeyOf(k.row)] = k.data]
  IN  /\ k.pc = "store"
      /\ \/ /\ cache' = stored
            /\ call' = [call EXCEPT ![c] = Knowing(c, "ended", Answer(c), k.loads, FALSE)]
         \/ /\ cache' \in {cache, stored}
            /\ call' = [call EXCEPT ![c] = Knowing(c, AfterThrow(c), Nothing, k.loads, TRUE)]
      /\ UNCHANGED <<source, floor>>

\* Mutant: while the loader fails it is called again.
Again_Retry(c) ==
  LET loads == call[c].loads
  IN  /\ call[c].pc = "again"
      /\ \/ Go(c, Knowing(c, "ended", Found(call[c].row), loads + 1, TRUE))
         \/ Go(c, Knowing(c, "again", Nothing, IF loads = 2 THEN 1 ELSE 2, TRUE))

\* The catch of getOrSet: the loader is called, whether or not it was before,
\* and what it answers or throws is the answer.
Again(c) ==
  LET loads == call[c].loads
  IN  /\ call[c].pc = "again"
      /\ \/ Go(c, Knowing(c, "ended", Found(call[c].row), loads + 1, TRUE))
         \/ Go(c, Knowing(c, "rejected", Nothing, loads + 1, TRUE))
--------------------------------------------------------------------------------
(* Entries that go.                                                         *)

\* Mutant: the placeholder of a deletion.
Without_Nothing(keys) == cache

Without(keys) == [key \in Keys |-> IF key \in keys THEN Nothing ELSE cache[key]]

\* A value of this row may still reach the cache.
InFlight(row) == \E c \in Calls : call[c].pc \in {"load", "store"} /\ call[c].row = row

\* What is deleted while no value is on its way can come back only as it is now.
Drop(keys) ==
  /\ cache' = Without(keys)
  /\ floor' = [row \in Rows |-> IF KeyOf(row) \in keys /\ ~InFlight(row)
                                THEN source ELSE floor[row]]
  /\ UNCHANGED <<source, call>>

\* Errors are swallowed: the caller cannot tell that nothing was deleted.
Invalidate(key) == cache[key] # Nothing /\ Drop({key})

\* invalidatePattern, whatever the pattern, and clear: the entries of all tenants.
Reset == Drop(Keys)

\* The time to live of an entry is up.
Expire(key) ==
  /\ cache[key] # Nothing
  /\ cache' = [cache EXCEPT ![key] = Nothing]
  /\ UNCHANGED <<source, call, floor>>

\* Somebody writes what the loaders read.
Write ==
  /\ source < MaxVersion
  /\ source' = source + 1
  /\ UNCHANGED <<cache, call, floor>>

Continue(c) == Read(c) \/ Load(c) \/ Store(c) \/ Again(c)

Next ==
  \/ \E c \in Calls :
       \/ \E row \in Rows : GetOrSet(c, row) \/ Get(c, row) \/ WarmCache(c, row) \/ Set(c, row)
       \/ Continue(c)
  \/ \E key \in Keys : Invalidate(key) \/ Expire(key)
  \/ Reset \/ Write

Spec == Init /\ [][Next]_vars

\* The cache and the loaders answer or throw.
FairSpec == Spec /\ \A c \in Calls : WF_vars(Continue(c))
--------------------------------------------------------------------------------
Pcs == {"ended", "rejected", "get", "load", "store", "again"}

CallType == [pc : Pcs,
             op : {"getOrSet", "get", "warmCache", "set"},
             row : Rows \cup {Nothing}, data : Data \cup {Nothing},
             loads : 0 .. 2, failed : BOOLEAN]

TypeOK ==
  /\ source \in Version /\ floor \in [Rows -> Version]
  /\ cache \in [Keys -> Data \cup {Nothing}]
  /\ call \in [Calls -> CallType]
  /\ \A key \in Keys : cache[key] # Nothing => KeyOf(cache[key].row) = key

\* The names of two rows have as many colons, say none.
AsManyColons(q, r) ==
  Len(q.resource) = Len(r.resource) /\ Len(q.tenant) = Len(r.tenant)

\* The tenants share one cache, and generateKey joins names that may have colons
\* in them, so two rows may have one key, of two tenants even.  Whatever calls
\* overlap, an answer is of a row with the key that was asked for, of the row
\* itself if the loader was called, and of another resource or tenant only if
\* one name has more colons than the other.
OwnAnswers == \A c \in Calls :
  LET k == call[c]
  IN  k.pc = "ended" /\ k.data # Nothing =>
        /\ KeyOf(k.data.row) = KeyOf(k.row)
        /\ k.loads > 0 => k.data.row = k.row
        /\ AsManyColons(k.data.row, k.row) =>
             k.data.row.resource = k.row.resource /\ k.data.row.tenant = k.row.tenant

\* What a failure costs: the loader is called a second time only if something
\* had thrown, and never a third time; warmCache, get and set call it at most
\* once and never reject; and a call rejects only after two failures.
FailuresCostOneLoad == \A c \in Calls :
  LET k == call[c]
  IN  /\ k.loads <= 2 /\ (k.loads = 2 \/ k.pc \in {"again", "rejected"} => k.failed)
      /\ k.loads = 2 \/ k.pc \in {"again", "rejected"} => k.op = "getOrSet"
      /\ k.op \in {"get", "set"} => k.loads = 0

\* An entry that was invalidated, reset for everybody or not, while no value of
\* the row was on its way to the cache does not come back in its old version:
\* whatever calls start later, what they store is not older.
InvalidatedStaysGone == \A row \in Rows :
  LET entry == cache[KeyOf(row)]
  IN  entry # Nothing /\ entry.row = row => entry.version >= floor[row]

\* Whatever throws, every call comes to an end.
EveryCallEnds == \A c \in Calls : ~Over(c) ~> Over(c)
================================================================================
