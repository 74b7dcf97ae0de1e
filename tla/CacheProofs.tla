------------------------------ MODULE CacheProofs ------------------------------
(***************************************************************************)
(* The safety of CacheService for any calls, rows, tenants and versions.   *)
(*                                                                         *)
(* The invariant IInv has, beside the types, what a call knows at each of  *)
(* its awaits (Local) and that no entry is older than it may be (AgeInv).  *)
(***************************************************************************)
EXTENDS CacheService, SequenceTheorems, TLAPS

\* What the methods have come to, at each await.
Stage(k) ==
  /\ k.pc = "get" => k.op \in {"getOrSet", "get"} /\ k.loads = 0 /\ k.data = Nothing
  /\ k.pc = "load" => k.op \in {"getOrSet", "warmCache"} /\ k.loads = 0 /\ k.data = Nothing
  /\ k.pc = "store" => /\ k.op \in {"getOrSet", "warmCache", "set"} /\ k.loads \in 0 .. 1
                       /\ k.op = "set" => k.loads = 0
                       /\ k.data # Nothing /\ k.data.row = k.row
  /\ k.pc = "again" => k.op = "getOrSet" /\ k.loads \in 0 .. 1 /\ k.failed /\ k.data = Nothing
  /\ k.pc = "rejected" => k.op = "getOrSet" /\ k.failed
  /\ k.loads = 2 => k.op = "getOrSet" /\ k.failed
  /\ k.op \in {"get", "set"} => k.loads = 0

\* Whose the data of a call is.
Own(k) ==
  /\ k.pc # "ended" => k.row \in Rows
  /\ k.data # Nothing =>
       /\ k.row \in Rows /\ KeyOf(k.data.row) = KeyOf(k.row)
       /\ k.loads > 0 => k.data.row = k.row

\* A value on its way to the cache is not too old for it.
Young(k) == k.pc = "store" => k.data.version >= floor[k.row]

Local(k) == Stage(k) /\ Own(k) /\ Young(k)

AgeInv == (\A row \in Rows : floor[row] <= source) /\ InvalidatedStaysGone

IInv == TypeOK /\ (\A c \in Calls : Local(call[c])) /\ AgeInv
--------------------------------------------------------------------------------
\* Equal texts have equal beginnings of equal length.
LEMMA SameBeginning ==
  ASSUME NEW a \in Seq(Pieces), NEW b \in Seq(Pieces),
         NEW s \in Seq(Pieces), NEW t \in Seq(Pieces), Len(a) = Len(b), a \o s = b \o t
  PROVE  a = b /\ s = t
<1>1. \A i \in 1 .. Len(a) : (a \o s)[i] = a[i] /\ (b \o t)[i] = b[i]
  BY ConcatProperties, LenProperties
<1>2. \A i \in 1 .. Len(a) : a[i] = b[i]
  BY <1>1
<1>3. a = b
  BY <1>2, SeqEqual
<1>4. s = t
  BY <1>3, ConcatSimplifications
<1> QED
  BY <1>3, <1>4

\* Of names with as many colons a key tells the resource and the tenant, whatever
\* the identifiers are: they are the pieces at the same places of the same text.
LEMMA KeyParts ==
  ASSUME NEW q \in Rows, NEW r \in Rows, KeyOf(q) = KeyOf(r), AsManyColons(q, r)
  PROVE  q.resource = r.resource /\ q.tenant = r.tenant
<1> DEFINE ids(row) == Joined(row.identifiers)
           head(row) == row.resource \o row.tenant
<1>1. ASSUME NEW row \in Rows
      PROVE  /\ row.resource \in Seq(Pieces) /\ row.tenant \in Seq(Pieces)
             /\ ids(row) \in Seq(Pieces)
  BY RowsAssumption, BlankAssumption DEF Names, Joined
<1>2. \A row \in Rows : KeyOf(row) = head(row) \o ids(row)
  BY DEF KeyOf, GenerateKey
<1> HIDE DEF ids
<1>3. \A row \in Rows : head(row) \in Seq(Pieces) /\ Len(head(row)) = Len(row.resource) + Len(row.tenant)
  BY <1>1, ConcatProperties
<1>4. head(q) = head(r)
  <2>1. Len(head(q)) = Len(head(r))
    BY <1>3 DEF AsManyColons
  <2>2. head(q) \o ids(q) = head(r) \o ids(r)
    BY <1>2
  <2> HIDE DEF head
  <2> QED
    BY <1>1, <1>3, <2>1, <2>2, SameBeginning
<1>5. Len(q.resource) = Len(r.resource)
  BY DEF AsManyColons
<1> QED
  BY <1>1, <1>4, <1>5, SameBeginning

\* A loader finds null, or the row as it is now.
LEMMA FoundIs ==
  ASSUME TypeOK, NEW row \in Rows
  PROVE  /\ Found(row) \in Data \cup {Nothing}
         /\ Found(row) # Nothing => Found(row).row = row /\ Found(row).version = source
BY DEF Found, TypeOK, Data

\* What a call knows next: its types, and the method and the row it had.
Knows(n, c, pc, data, loads) ==
  /\ n \in CallType /\ n.pc = pc /\ n.data = data /\ n.loads = loads
  /\ n.op = call[c].op /\ n.row = call[c].row

LEMMA KnowingIs ==
  ASSUME NEW c \in Calls, call[c] \in CallType, NEW pc \in Pcs,
         NEW data \in Data \cup {Nothing}, NEW loads \in 0 .. 2
  PROVE  /\ Knows(Knowing(c, pc, data, loads, TRUE), c, pc, data, loads)
         /\ Knows(Knowing(c, pc, data, loads, FALSE), c, pc, data, loads)
         /\ Knowing(c, pc, data, loads, TRUE).failed = TRUE
         /\ Knowing(c, pc, data, loads, FALSE).failed = FALSE
BY DEF Knows, Knowing, CallType

\* No entries, no calls.
LEMMA InitIInv == Init => IInv
<1> SUFFICES ASSUME Init PROVE IInv
  OBVIOUS
<1>1. Idle \in CallType
  BY DEF Idle, CallType, Pcs
<1>2. TypeOK
  BY <1>1, VersionAssumption DEF Init, TypeOK, Version
<1>3. \A c \in Calls : Local(call[c])
  BY DEF Init, Local, Stage, Own, Young, Idle
<1>4. AgeInv
  BY DEF Init, AgeInv, InvalidatedStaysGone, Keys
<1> QED
  BY <1>2, <1>3, <1>4 DEF IInv

\* A step that changes only what the call knows.
LEMMA GoIInv ==
  ASSUME IInv, NEW c \in Calls, NEW next \in CallType, Go(c, next), Local(next)
  PROVE  IInv'
<1> USE DEF Go
<1>1. call \in [Calls -> CallType] /\ call' = [call EXCEPT ![c] = next]
  BY DEF IInv, TypeOK
<1>2. TypeOK'
  BY <1>1 DEF IInv, TypeOK
<1>3. \A d \in Calls : Local(call[d])'
  <2>1. \A d \in Calls : Local(call'[d])
    BY <1>1 DEF IInv
  <2> QED
    BY <2>1 DEF Local, Young, Own, Stage
<1>4. AgeInv'
  BY DEF IInv, AgeInv, InvalidatedStaysGone
<1> QED
  BY <1>2, <1>3, <1>4 DEF IInv
--------------------------------------------------------------------------------
\* A method that is called.
LEMMA BeginIInv ==
  ASSUME IInv, NEW c \in Calls, NEW row \in Rows,
         GetOrSet(c, row) \/ Get(c, row) \/ WarmCache(c, row) \/ Set(c, row)
  PROVE  IInv'
<1> DEFINE new(op, pc, data) == [pc |-> pc, op |-> op, row |-> row, data |-> data,
                                 loads |-> 0, failed |-> FALSE]
<1>1. CASE GetOrSet(c, row)
  <2>1. Go(c, new("getOrSet", "get", Nothing))
    BY <1>1 DEF GetOrSet, Begin
  <2>2. new("getOrSet", "get", Nothing) \in CallType /\ Local(new("getOrSet", "get", Nothing))
    BY DEF CallType, Pcs, Local, Stage, Own, Young
  <2> QED
    BY <2>1, <2>2, GoIInv
<1>2. CASE Get(c, row)
  <2>1. Go(c, new("get", "get", Nothing))
    BY <1>2 DEF Get, Begin
  <2>2. new("get", "get", Nothing) \in CallType /\ Local(new("get", "get", Nothing))
    BY DEF CallType, Pcs, Local, Stage, Own, Young
  <2> QED
    BY <2>1, <2>2, GoIInv
<1>3. CASE WarmCache(c, row)
  <2>1. Go(c, new("warmCache", "load", Nothing))
    BY <1>3 DEF WarmCache, Begin
  <2>2. new("warmCache", "load", Nothing) \in CallType /\ Local(new("warmCache", "load", Nothing))
    BY DEF CallType, Pcs, Local, Stage, Own, Young
  <2> QED
    BY <2>1, <2>2, GoIInv
<1>4. CASE Set(c, row)
  <2> DEFINE data == Found(row)
  <2>1. Go(c, new("set", "store", data)) /\ data # Nothing
    BY <1>4 DEF Set, Begin
  <2>2. data \in Data /\ data.row = row /\ data.version = source /\ floor[row] <= source
    BY <2>1, FoundIs DEF IInv, AgeInv
  <2> HIDE DEF data
  <2>3. new("set", "store", data) \in CallType /\ Local(new("set", "store", data))
    BY <2>1, <2>2 DEF CallType, Pcs, Local, Stage, Own, Young, Data, IInv, TypeOK, Version
  <2> QED
    BY <2>1, <2>3, GoIInv
<1> QED
  BY <1>1, <1>2, <1>3, <1>4
--------------------------------------------------------------------------------
\* The cache is asked.
LEMMA ReadIInv ==
  ASSUME IInv, NEW c \in Calls, Read(c) PROVE IInv'
<1> DEFINE k == call[c]
           entry == cache[KeyOf(k.row)]
<1>0. /\ k \in CallType /\ k.row \in Rows /\ KeyOf(k.row) \in Keys
      /\ k.op \in {"getOrSet", "get"}
  BY DEF Read, IInv, TypeOK, Local, Stage, Own, Keys
<1>1. CASE entry # Nothing /\ Go(c, Knowing(c, "ended", entry, 0, FALSE))
  <2>1. entry \in Data /\ KeyOf(entry.row) = KeyOf(k.row)
    BY <1>0, <1>1 DEF IInv, TypeOK
  <2> HIDE DEF entry
  <2> DEFINE n == Knowing(c, "ended", entry, 0, FALSE)
  <2>2. "ended" \in Pcs /\ entry \in Data \cup {Nothing} /\ 0 \in 0 .. 2
    BY <2>1 DEF Pcs
  <2>3. Knows(n, c, "ended", entry, 0)
    BY <1>0, <2>2, KnowingIs
  <2>4. Go(c, n)
    BY <1>1
  <2> HIDE DEF n
  <2>5. Local(n)
    BY <1>0, <2>1, <2>3 DEF Knows, Local, Stage, Own, Young
  <2> QED
    BY <2>3, <2>4, <2>5, GoIInv DEF Knows
<1>2. ASSUME NEW pc \in {"load", "ended", "again"}, NEW failed \in BOOLEAN,
             Go(c, Knowing(c, pc, Nothing, 0, failed)),
             pc # "ended" => k.op = "getOrSet", pc = "again" => failed
      PROVE  IInv'
  <2> DEFINE n == Knowing(c, pc, Nothing, 0, failed)
  <2>1. pc \in Pcs /\ Nothing \in Data \cup {Nothing} /\ 0 \in 0 .. 2
    BY DEF Pcs
  <2>2. Knows(n, c, pc, Nothing, 0) /\ n.failed = failed
    <3>1. CASE failed = TRUE
      BY <1>0, <2>1, <3>1, KnowingIs
    <3>2. CASE failed = FALSE
      BY <1>0, <2>1, <3>2, KnowingIs
    <3> QED
      BY <3>1, <3>2
  <2>3. Go(c, n)
    BY <1>2
  <2> HIDE DEF n
  <2>4. Local(n)
    BY <1>0, <1>2, <2>2 DEF Knows, Local, Stage, Own, Young
  <2> QED
    BY <2>2, <2>3, <2>4, GoIInv DEF Knows
<1>3. /\ AfterThrow(c) \in {"again", "ended"}
      /\ AfterThrow(c) # "ended" => k.op = "getOrSet"
  BY DEF AfterThrow
<1>4. CASE Go(c, Knowing(c, AfterThrow(c), Nothing, 0, TRUE))
  BY <1>2, <1>3, <1>4
<1>5. CASE Go(c, Knowing(c, IF k.op = "getOrSet" THEN "load" ELSE "ended", Nothing, 0, FALSE))
  BY <1>2, <1>5
<1> QED
  BY <1>1, <1>4, <1>5 DEF Read

\* The loader is called for the first time.
LEMMA LoadIInv ==
  ASSUME IInv, NEW c \in Calls, Load(c) PROVE IInv'
<1> DEFINE k == call[c]
           data == Found(k.row)
<1>0. /\ k \in CallType /\ k.row \in Rows /\ k.op \in {"getOrSet", "warmCache"}
  BY DEF Load, IInv, TypeOK, Local, Own, Stage
<1>1. CASE Go(c, Knowing(c, IF data = Nothing THEN "ended" ELSE "store", data, 1, FALSE))
  <2> DEFINE pc == IF data = Nothing THEN "ended" ELSE "store"
  <2>1. /\ data \in Data \cup {Nothing}
        /\ data # Nothing => data.row = k.row /\ data.version = source
        /\ floor[k.row] <= source /\ source \in Nat
    BY <1>0, FoundIs DEF IInv, AgeInv, TypeOK, Version
  <2>2. pc \in {"ended", "store"} /\ (pc = "store" <=> data # Nothing)
    OBVIOUS
  <2>3. Go(c, Knowing(c, pc, data, 1, FALSE))
    BY <1>1
  <2> HIDE DEF data, pc
  <2> DEFINE n == Knowing(c, pc, data, 1, FALSE)
  <2>4. pc \in Pcs /\ 1 \in 0 .. 2
    BY <2>2 DEF Pcs
  <2>5. Knows(n, c, pc, data, 1)
    BY <1>0, <2>1, <2>4, KnowingIs
  <2>6. Go(c, n)
    BY <2>3
  <2> HIDE DEF n
  <2>7. Local(n)
    <3>1. floor[n.row] <= source
      BY <2>1, <2>5 DEF Knows
    <3> QED
      BY <1>0, <2>1, <2>2, <2>5, <3>1 DEF Knows, Local, Stage, Own, Young
  <2> QED
    BY <2>5, <2>6, <2>7, GoIInv DEF Knows
<1>2. CASE Go(c, Knowing(c, AfterThrow(c), Nothing, 1, TRUE))
  <2>1. AfterThrow(c) \in {"again", "ended"} /\ (AfterThrow(c) # "ended" => k.op = "getOrSet")
    BY DEF AfterThrow
  <2> DEFINE n == Knowing(c, AfterThrow(c), Nothing, 1, TRUE)
  <2>2. AfterThrow(c) \in Pcs /\ Nothing \in Data \cup {Nothing} /\ 1 \in 0 .. 2
    BY <2>1 DEF Pcs
  <2>3. Knows(n, c, AfterThrow(c), Nothing, 1) /\ n.failed = TRUE
    BY <1>0, <2>2, KnowingIs
  <2>4. Go(c, n)
    BY <1>2
  <2> HIDE DEF n
  <2>5. Local(n)
    BY <1>0, <2>1, <2>3 DEF Knows, Local, Stage, Own, Young
  <2> QED
    BY <2>3, <2>4, <2>5, GoIInv DEF Knows
<1> QED
  BY <1>1, <1>2 DEF Load

\* The loader is called from the catch.
LEMMA AgainIInv ==
  ASSUME IInv, NEW c \in Calls, Again(c) PROVE IInv'
<1> DEFINE k == call[c]
<1>0. /\ k \in CallType /\ k.row \in Rows /\ k.loads + 1 \in 1 .. 2 /\ k.op = "getOrSet"
  BY DEF Again, IInv, TypeOK, Local, Own, Stage
<1>1. ASSUME NEW pc \in {"ended", "rejected"}, NEW data \in Data \cup {Nothing},
             data # Nothing => data.row = k.row,
             Go(c, Knowing(c, pc, data, k.loads + 1, TRUE))
      PROVE  IInv'
  <2> DEFINE n == Knowing(c, pc, data, k.loads + 1, TRUE)
  <2>1. pc \in Pcs /\ k.loads + 1 \in 0 .. 2
    BY <1>0 DEF Pcs
  <2>2. Knows(n, c, pc, data, k.loads + 1) /\ n.failed = TRUE
    BY <1>0, <2>1, KnowingIs
  <2>3. Go(c, n)
    BY <1>1
  <2> HIDE DEF n
  <2>4. Local(n)
    BY <1>0, <1>1, <2>2 DEF Knows, Local, Stage, Own, Young
  <2> QED
    BY <2>2, <2>3, <2>4, GoIInv DEF Knows
<1>2. /\ Found(k.row) \in Data \cup {Nothing}
      /\ Found(k.row) # Nothing => Found(k.row).row = k.row
  BY <1>0, FoundIs DEF IInv
<1> QED
  BY <1>1, <1>2 DEF Again

\* A value reaches the cache, or the cache throws.
LEMMA StoreIInv ==
  ASSUME IInv, NEW c \in Calls, Store(c) PROVE IInv'
<1> DEFINE k == call[c]
           stored == [cache EXCEPT ![KeyOf(k.row)] = k.data]
<1>0. /\ k \in CallType /\ k.pc = "store" /\ k.row \in Rows
      /\ k.data \in Data /\ k.data.row = k.row /\ k.data.version >= floor[k.row]
      /\ KeyOf(k.row) \in Keys /\ k.loads \in 0 .. 1 /\ k.op \in {"getOrSet", "warmCache", "set"}
      /\ k.op = "set" => k.loads = 0
  BY DEF Store, IInv, TypeOK, CallType, Local, Stage, Own, Young, Keys
<1>1. /\ cache' \in {cache, stored} /\ UNCHANGED <<source, floor>>
      /\ cache \in [Keys -> Data \cup {Nothing}] /\ call \in [Calls -> CallType]
  BY DEF Store, IInv, TypeOK
<1>2. /\ cache' \in [Keys -> Data \cup {Nothing}]
      /\ \A key \in Keys : cache'[key] = cache[key] \/ (key = KeyOf(k.row) /\ cache'[key] = k.data)
  BY <1>0, <1>1
<1>3. PICK next \in CallType : Local(next) /\ call' = [call EXCEPT ![c] = next]
  <2>1. ASSUME NEW pc \in {"ended", "again"}, NEW data \in {Nothing, k.data}, NEW failed \in BOOLEAN,
               pc = "again" => failed /\ data = Nothing /\ k.op = "getOrSet"
        PROVE  Knowing(c, pc, data, k.loads, failed) \in CallType
                 /\ Local(Knowing(c, pc, data, k.loads, failed))
    <3> DEFINE n == Knowing(c, pc, data, k.loads, failed)
    <3>1. Knows(n, c, pc, data, k.loads) /\ n.failed = failed
      <4>1. pc \in Pcs /\ data \in Data \cup {Nothing} /\ k.loads \in 0 .. 2
        BY <1>0, <2>1 DEF Pcs
      <4>2. CASE failed = TRUE
        BY <1>0, <4>1, <4>2, KnowingIs
      <4>3. CASE failed = FALSE
        BY <1>0, <4>1, <4>3, KnowingIs
      <4> QED
        BY <4>2, <4>3
    <3> HIDE DEF n
    <3>2. Local(n)
      BY <1>0, <2>1, <3>1 DEF Knows, Local, Stage, Own, Young
    <3> QED
      BY <3>1, <3>2 DEF n, Knows
  <2>2. Answer(c) \in {Nothing, k.data}
    BY DEF Answer
  <2>3. AfterThrow(c) \in {"again", "ended"} /\ (AfterThrow(c) = "again" => k.op = "getOrSet")
    BY DEF AfterThrow
  <2>4. CASE call' = [call EXCEPT ![c] = Knowing(c, "ended", Answer(c), k.loads, FALSE)]
    BY <2>1, <2>2, <2>4
  <2>5. CASE call' = [call EXCEPT ![c] = Knowing(c, AfterThrow(c), Nothing, k.loads, TRUE)]
    BY <2>1, <2>3, <2>5
  <2> QED
    BY <2>4, <2>5 DEF Store
<1>4. TypeOK'
  <2>1. \A key \in Keys : cache'[key] # Nothing => KeyOf(cache'[key].row) = key
    BY <1>0, <1>2 DEF IInv, TypeOK
  <2> QED
    BY <1>1, <1>2, <1>3, <2>1 DEF IInv, TypeOK
<1>5. \A d \in Calls : Local(call[d])'
  <2>1. \A d \in Calls : Local(call'[d])
    BY <1>1, <1>3 DEF IInv
  <2> QED
    BY <1>1, <2>1 DEF Local, Stage, Own, Young
<1>6. AgeInv'
  <2>1. ASSUME NEW row \in Rows, cache'[KeyOf(row)] # Nothing, cache'[KeyOf(row)].row = row
        PROVE  cache'[KeyOf(row)].version >= floor[row]
    <3>1. KeyOf(row) \in Keys
      BY DEF Keys
    <3>2. CASE cache'[KeyOf(row)] = cache[KeyOf(row)]
      BY <2>1, <3>2 DEF IInv, AgeInv, InvalidatedStaysGone
    <3>3. CASE cache'[KeyOf(row)] = k.data
      BY <2>1, <3>3, <1>0
    <3> QED
      BY <3>1, <3>2, <3>3, <1>2
  <2>2. \A row \in Rows : floor'[row] <= source'
    BY <1>1 DEF IInv, AgeInv
  <2> QED
    BY <1>1, <2>1, <2>2 DEF AgeInv, InvalidatedStaysGone
<1> QED
  BY <1>4, <1>5, <1>6 DEF IInv
--------------------------------------------------------------------------------
\* Entries that go take no floor with them; what is deleted while nothing of it
\* is on its way may not come back.
LEMMA DropIInv ==
  ASSUME IInv, NEW keys \in SUBSET Keys, Drop(keys) PROVE IInv'
<1> USE DEF Drop
<1>1. /\ UNCHANGED <<source, call>> /\ source \in Version /\ source \in Nat
      /\ cache' = [key \in Keys |-> IF key \in keys THEN Nothing ELSE cache[key]]
      /\ cache \in [Keys -> Data \cup {Nothing}] /\ floor \in [Rows -> Version]
  BY VersionAssumption DEF IInv, TypeOK, Without, Version
<1>2. \A key \in Keys : cache'[key] = IF key \in keys THEN Nothing ELSE cache[key]
  BY <1>1
<1>3. /\ floor' \in [Rows -> Version]
      /\ \A row \in Rows : \/ floor'[row] = floor[row]
                           \/ floor'[row] = source /\ ~InFlight(row) /\ KeyOf(row) \in keys
  BY <1>1
<1>4. TypeOK'
  <2>1. cache' \in [Keys -> Data \cup {Nothing}]
    BY <1>1
  <2>2. \A key \in Keys : cache'[key] # Nothing => KeyOf(cache'[key].row) = key
    BY <1>2 DEF IInv, TypeOK
  <2> QED
    BY <1>1, <1>3, <2>1, <2>2 DEF IInv, TypeOK
<1>5. \A c \in Calls : Local(call[c])'
  <2>1. ASSUME NEW c \in Calls, call[c].pc = "store"
        PROVE  call[c].data.version >= floor'[call[c].row]
    <3>1. call[c].row \in Rows /\ Young(call[c])
      BY <2>1 DEF IInv, Local, Own
    <3>2. InFlight(call[c].row)
      BY <2>1 DEF InFlight
    <3>3. floor'[call[c].row] = floor[call[c].row]
      BY <1>3, <3>1, <3>2
    <3> QED
      BY <2>1, <3>1, <3>3 DEF Young
  <2> QED
    BY <1>1, <2>1 DEF IInv, Local, Stage, Own, Young
<1>6. AgeInv'
  <2>1. \A row \in Rows : floor'[row] <= source'
    BY <1>1, <1>3 DEF IInv, AgeInv
  <2>2. ASSUME NEW row \in Rows, cache'[KeyOf(row)] # Nothing, cache'[KeyOf(row)].row = row
        PROVE  cache'[KeyOf(row)].version >= floor'[row]
    <3>1. KeyOf(row) \in Keys
      BY DEF Keys
    <3>2. KeyOf(row) \notin keys /\ cache'[KeyOf(row)] = cache[KeyOf(row)]
      BY <1>2, <2>2, <3>1
    <3>3. floor'[row] = floor[row]
      BY <1>3, <3>2
    <3> QED
      BY <2>2, <3>2, <3>3 DEF IInv, AgeInv, InvalidatedStaysGone
  <2> QED
    BY <2>1, <2>2 DEF AgeInv, InvalidatedStaysGone
<1> QED
  BY <1>4, <1>5, <1>6 DEF IInv

\* An entry whose time is up, and a write to the source.
LEMMA WorldIInv ==
  ASSUME IInv, (\E key \in Keys : Expire(key)) \/ Write PROVE IInv'
<1>1. ASSUME NEW key \in Keys, Expire(key) PROVE IInv'
  <2>1. /\ UNCHANGED <<source, call, floor>> /\ cache' = [cache EXCEPT ![key] = Nothing]
        /\ cache \in [Keys -> Data \cup {Nothing}]
    BY <1>1 DEF Expire, IInv, TypeOK
  <2>2. \A q \in Keys : cache'[q] = IF q = key THEN Nothing ELSE cache[q]
    BY <2>1
  <2>3. TypeOK'
    BY <2>1, <2>2 DEF IInv, TypeOK
  <2>4. \A c \in Calls : Local(call[c])'
    BY <2>1 DEF IInv, Local, Stage, Own, Young
  <2>5. AgeInv'
    BY <2>1, <2>2 DEF IInv, AgeInv, InvalidatedStaysGone, Keys
  <2> QED
    BY <2>3, <2>4, <2>5 DEF IInv
<1>2. CASE Write
  <2>1. /\ UNCHANGED <<cache, call, floor>> /\ source' = source + 1
        /\ source \in Nat /\ source' \in Version
        /\ floor \in [Rows -> Version] /\ \A row \in Rows : floor[row] \in Nat
    BY <1>2, VersionAssumption DEF Write, IInv, TypeOK, Version
  <2>2. TypeOK'
    BY <2>1 DEF IInv, TypeOK
  <2>3. \A c \in Calls : Local(call[c])'
    BY <2>1 DEF IInv, Local, Stage, Own, Young
  <2>4. AgeInv'
    BY <2>1 DEF IInv, AgeInv, InvalidatedStaysGone
  <2> QED
    BY <2>2, <2>3, <2>4 DEF IInv
<1> QED
  BY <1>1, <1>2

\* Every step keeps the invariant.
LEMMA NextIInv == IInv /\ [Next]_vars => IInv'
<1> SUFFICES ASSUME IInv, [Next]_vars PROVE IInv'
  OBVIOUS
<1>1. CASE UNCHANGED vars
  BY <1>1 DEF vars, IInv, TypeOK, Local, Stage, Own, Young, AgeInv, InvalidatedStaysGone
<1>2. ASSUME NEW c \in Calls,
             \/ \E row \in Rows : GetOrSet(c, row) \/ Get(c, row) \/ WarmCache(c, row) \/ Set(c, row)
             \/ Continue(c)
      PROVE  IInv'
  BY <1>2, BeginIInv, ReadIInv, LoadIInv, StoreIInv, AgainIInv DEF Continue
<1>3. ASSUME NEW key \in Keys, Invalidate(key) PROVE IInv'
  BY <1>3, DropIInv DEF Invalidate
<1>4. CASE Reset
  BY <1>4, DropIInv DEF Reset
<1> QED
  BY <1>1, <1>2, <1>3, <1>4, WorldIInv DEF Next

\* The invariant holds for ever.
LEMMA Invariance == Spec => []IInv
BY InitIInv, NextIInv, PTL DEF Spec

\* Types are kept, and an entry has the key of its row, for any calls, rows and
\* versions.
THEOREM TypeCorrect == Spec => []TypeOK
<1>1. IInv => TypeOK
  BY DEF IInv
<1> QED
  BY <1>1, Invariance, PTL

\* An answer out of the cache that all tenants share is of a row with the key that
\* was asked for, and of the very row if a loader was called.  It is of another
\* resource or tenant only if one of the names has more colons than the other.
THEOREM AnswersSafe == Spec => []OwnAnswers
<1>1. IInv => OwnAnswers
  <2> SUFFICES ASSUME IInv, NEW c \in Calls, call[c].pc = "ended", call[c].data # Nothing
               PROVE  LET k == call[c]
                      IN  /\ KeyOf(k.data.row) = KeyOf(k.row)
                          /\ k.loads > 0 => k.data.row = k.row
                          /\ AsManyColons(k.data.row, k.row) =>
                               k.data.row.resource = k.row.resource /\ k.data.row.tenant = k.row.tenant
    BY DEF OwnAnswers
  <2>1. call[c].data \in Data /\ call[c].data.row \in Rows
    BY DEF IInv, TypeOK, CallType, Data
  <2>2. /\ call[c].row \in Rows /\ KeyOf(call[c].data.row) = KeyOf(call[c].row)
        /\ call[c].loads > 0 => call[c].data.row = call[c].row
    BY DEF IInv, Local, Own
  <2> QED
    BY <2>1, <2>2, KeyParts
<1> QED
  BY <1>1, Invariance, PTL

\* A failure of the cache or of a loader costs one more call of the loader, of
\* getOrSet only, and a call rejects only when two things have failed.
THEOREM FailuresSafe == Spec => []FailuresCostOneLoad
<1>1. IInv => FailuresCostOneLoad
  <2> SUFFICES ASSUME IInv, NEW c \in Calls
               PROVE  LET k == call[c]
                      IN  /\ k.loads <= 2 /\ (k.loads = 2 \/ k.pc \in {"again", "rejected"} => k.failed)
                          /\ k.loads = 2 \/ k.pc \in {"again", "rejected"} => k.op = "getOrSet"
                          /\ k.op \in {"get", "set"} => k.loads = 0
    BY DEF FailuresCostOneLoad
  <2>1. call[c].loads \in 0 .. 2 /\ Stage(call[c])
    BY DEF IInv, TypeOK, CallType, Local
  <2> QED
    BY <2>1 DEF Stage
<1> QED
  BY <1>1, Invariance, PTL

\* What was deleted while no value of it was on its way to the cache does not
\* come back in an old version.
THEOREM DeletedSafe == Spec => []InvalidatedStaysGone
<1>1. IInv => InvalidatedStaysGone
  BY DEF IInv, AgeInv
<1> QED
  BY <1>1, Invariance, PTL
--------------------------------------------------------------------------------
(* The safety under EveryCallEnds.                                          *)

\* How many awaits a call has before it at most.
AwaitsLeft(pc) ==
  CASE pc = "get" -> 4 [] pc = "load" -> 3 [] pc = "store" -> 2 [] pc = "again" -> 1
    [] pc \in {"ended", "rejected"} -> 0

\* Whatever throws, each await takes a call nearer to its end: none is made
\* twice, and no other call and nothing done to the cache takes a call back.
EveryCallNearer == [][\A c \in Calls :
  call'[c] # call[c] => Over(c) \/ AwaitsLeft(call'[c].pc) < AwaitsLeft(call[c].pc)]_vars

\* EveryCallNearer holds, for any number of calls.
THEOREM NearerSafe == Spec => EveryCallNearer
<1>1. ASSUME IInv, [Next]_vars, NEW c \in Calls, call'[c] # call[c]
      PROVE  Over(c) \/ AwaitsLeft(call'[c].pc) < AwaitsLeft(call[c].pc)
  <2>0. call \in [Calls -> CallType]
    BY <1>1 DEF IInv, TypeOK
  <2>1. \A d \in Calls : \A next : Go(d, next) /\ d # c => call'[c] = call[c]
    BY <2>0 DEF Go
  <2>4. ASSUME NEW d \in Calls, NEW row \in Rows,
               GetOrSet(d, row) \/ Get(d, row) \/ WarmCache(d, row) \/ Set(d, row)
        PROVE  Over(c)
    BY <1>1, <2>1, <2>4 DEF GetOrSet, Get, WarmCache, Set, Begin
  <2>5. ASSUME NEW d \in Calls, Continue(d), d # c PROVE FALSE
    BY <1>1, <2>0, <2>1, <2>5 DEF Continue, Read, Load, Store, Again
  <2>6. CASE Read(c)
    <3>1. call[c].pc = "get" /\ call'[c].pc \in {"load", "again", "ended"}
      BY <2>0, <2>6 DEF Read, AfterThrow, Go, Knowing
    <3> QED
      BY <3>1 DEF AwaitsLeft
  <2>7. CASE Load(c)
    <3>1. call[c].pc = "load" /\ call'[c].pc \in {"store", "again", "ended"}
      BY <2>0, <2>7 DEF Load, AfterThrow, Go, Knowing
    <3> QED
      BY <3>1 DEF AwaitsLeft
  <2>8. CASE Store(c)
    <3>1. call[c].pc = "store" /\ call'[c].pc \in {"again", "ended"}
      BY <2>0, <2>8 DEF Store, AfterThrow, Knowing
    <3> QED
      BY <3>1 DEF AwaitsLeft
  <2>9. CASE Again(c)
    <3>1. call[c].pc = "again" /\ call'[c].pc \in {"ended", "rejected"}
      BY <2>0, <2>9 DEF Again, Go, Knowing
    <3> QED
      BY <3>1 DEF AwaitsLeft
  <2>10. CASE UNCHANGED call
    BY <1>1, <2>10
  <2> QED
    BY <1>1, <2>4, <2>5, <2>6, <2>7, <2>8, <2>9, <2>10
       DEF Next, Continue, Invalidate, Expire, Reset, Drop, Write, vars
<1>2. IInv /\ [Next]_vars => [\A c \in Calls :
        call'[c] # call[c] => Over(c) \/ AwaitsLeft(call'[c].pc) < AwaitsLeft(call[c].pc)]_vars
  BY <1>1
<1> QED
  BY <1>2, Invariance, PTL DEF Spec, EveryCallNearer
================================================================================
