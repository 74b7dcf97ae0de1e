------------------------------ MODULE HealthProofs ------------------------------
(***************************************************************************)
(* The safety of HealthAggregator for any services, checks and length of   *)
(* the history.                                                            *)
(*                                                                         *)
(* The invariant IInv has, beside the types, that the history is the end   *)
(* of what was saved (Tracks), and that a server that listens has some of  *)
(* every service (Heard).                                                  *)
(***************************************************************************)
EXTENDS HealthAggregator, FiniteSetTheorems, SequenceTheorems, TLAPS

\* list holds the last elements of all, as many as the limit allows.
Ends(list, all) ==
  /\ Len(list) = IF Len(all) <= MaxHistory THEN Len(all) ELSE MaxHistory
  /\ \A i \in 1 .. Len(list) : list[i] = all[Len(all) - Len(list) + i]

Tracks == \A s \in Services : Ends(snapshots[s], saved[s])

Heard == listening => \A s \in Services : snapshots[s] # <<>>

IInv == TypeOK /\ Tracks /\ Heard
--------------------------------------------------------------------------------
(* Lists of snapshots.                                                      *)

\* What saveHealthSnapshot makes of a list.
LEMMA SavedIs ==
  ASSUME NEW list \in Seq(Statuses), NEW status \in Statuses
  PROVE  /\ Saved(list, status) \in Seq(Statuses)
         /\ Len(Saved(list, status)) = IF Len(list) + 1 > MaxHistory THEN MaxHistory ELSE Len(list) + 1
         /\ \A i \in 1 .. Len(Saved(list, status)) :
              Saved(list, status)[i] = Append(list, status)[Len(list) + 1 - Len(Saved(list, status)) + i]
<1> DEFINE all == Append(list, status)
<1>1. all \in Seq(Statuses) /\ Len(all) = Len(list) + 1 /\ Len(list) \in Nat
  BY AppendProperties, LenProperties
<1>2. CASE Len(all) > MaxHistory
  <2> DEFINE m == Len(all) - MaxHistory + 1
  <2>1. m \in Int /\ m >= 1 /\ m <= Len(all) /\ Len(all) \in Nat /\ Len(all) - m + 1 = MaxHistory
    BY <1>1, <1>2, MaxHistoryAssumption
  <2>2. \A i \in m .. Len(all) : all[i] \in Statuses
    BY <1>1, <2>1, ElementOfSeq
  <2>3. /\ SubSeq(all, m, Len(all)) \in Seq(Statuses)
        /\ Len(SubSeq(all, m, Len(all))) = MaxHistory
        /\ \A i \in 1 .. MaxHistory : SubSeq(all, m, Len(all))[i] = all[m + i - 1]
    <3> HIDE DEF all, m
    <3> QED
      BY <2>1, <2>2, SubSeqProperties
  <2>4. Saved(list, status) = SubSeq(all, m, Len(all))
    BY <1>2 DEF Saved
  <2>5. \A i \in 1 .. MaxHistory : m + i - 1 = Len(list) + 1 - MaxHistory + i
    BY <1>1, MaxHistoryAssumption
  <2>6. Len(Saved(list, status)) = MaxHistory /\ Len(list) + 1 > MaxHistory
    BY <1>1, <1>2, <2>3, <2>4
  <2>7. \A i \in 1 .. MaxHistory : Saved(list, status)[i] = all[Len(list) + 1 - MaxHistory + i]
    BY <2>3, <2>4, <2>5
  <2> HIDE DEF all, m
  <2> QED
    BY <2>3, <2>4, <2>6, <2>7 DEF all
<1>3. CASE ~(Len(all) > MaxHistory)
  <2>1. Saved(list, status) = all
    BY <1>3 DEF Saved
  <2> HIDE DEF all
  <2> QED
    BY <1>1, <1>3, <2>1, MaxHistoryAssumption DEF all
<1> QED
  BY <1>2, <1>3

\* What the history variable makes of one.
LEMMA KeptIs ==
  ASSUME NEW list \in Seq(Statuses), NEW status \in Statuses
  PROVE  /\ Kept(list, status) \in Seq(Statuses)
         /\ Len(Kept(list, status)) = IF Len(list) + 1 > MaxSaved THEN Len(list) ELSE Len(list) + 1
         /\ \A i \in 1 .. Len(Kept(list, status)) :
              Kept(list, status)[i] = Append(list, status)[Len(list) + 1 - Len(Kept(list, status)) + i]
<1> DEFINE all == Append(list, status)
<1>1. all \in Seq(Statuses) /\ Len(all) = Len(list) + 1 /\ Len(list) \in Nat /\ all # <<>>
  BY AppendProperties, LenProperties
<1>2. CASE Len(all) > MaxSaved
  <2>1. Kept(list, status) = Tail(all)
    BY <1>2 DEF Kept
  <2>2. /\ Tail(all) \in Seq(Statuses) /\ Len(Tail(all)) = Len(all) - 1
        /\ \A i \in 1 .. Len(Tail(all)) : Tail(all)[i] = all[i + 1]
    BY <1>1, HeadTailProperties
  <2>3. Len(Tail(all)) = Len(list) /\ Len(list) + 1 > MaxSaved
    BY <1>1, <1>2, <2>2
  <2>4. \A i \in 1 .. Len(list) : Len(list) + 1 - Len(list) + i = i + 1
    BY <1>1
  <2>5. \A i \in 1 .. Len(list) : Tail(all)[i] = all[Len(list) + 1 - Len(list) + i]
    BY <2>2, <2>3, <2>4
  <2> HIDE DEF all
  <2> QED
    BY <2>1, <2>2, <2>3, <2>5 DEF all
<1>3. CASE ~(Len(all) > MaxSaved)
  <2>1. Kept(list, status) = all
    BY <1>3 DEF Kept
  <2> HIDE DEF all
  <2> QED
    BY <1>1, <1>3, <2>1, MaxSavedAssumption DEF all
<1> QED
  BY <1>2, <1>3

\* Both take in one more snapshot.
LEMMA EndsKept ==
  ASSUME NEW list \in Seq(Statuses), NEW all \in Seq(Statuses), NEW status \in Statuses, Ends(list, all)
  PROVE  Ends(Saved(list, status), Kept(all, status))
<1> DEFINE new == Saved(list, status)
           old == Kept(all, status)
           x == Append(list, status)
           y == Append(all, status)
           l == Len(list)
           a == Len(all)
           m == Len(new)
           o == Len(old)
<1>1. l \in Nat /\ a \in Nat /\ l = IF a <= MaxHistory THEN a ELSE MaxHistory
  BY LenProperties DEF Ends
<1>2. \A i \in 1 .. l : list[i] = all[a - l + i]
  BY DEF Ends
<1>3. m = IF l + 1 > MaxHistory THEN MaxHistory ELSE l + 1
  BY SavedIs
<1>4. \A i \in 1 .. m : new[i] = x[l + 1 - m + i]
  BY SavedIs
<1>5. o = IF a + 1 > MaxSaved THEN a ELSE a + 1
  BY KeptIs
<1>6. \A i \in 1 .. o : old[i] = y[a + 1 - o + i]
  BY KeptIs
<1>7. (\A i \in 1 .. l : x[i] = list[i]) /\ x[l + 1] = status
  BY AppendProperties
<1>8. (\A i \in 1 .. a : y[i] = all[i]) /\ y[a + 1] = status
  BY AppendProperties
<1>9. m = (IF o <= MaxHistory THEN o ELSE MaxHistory) /\ \A i \in 1 .. m : new[i] = old[o - m + i]
  <2> HIDE DEF new, old, x, y, l, a, m, o
  <2>1. m \in Nat /\ o \in Nat /\ m = IF o <= MaxHistory THEN o ELSE MaxHistory
    BY <1>1, <1>3, <1>5, MaxHistoryAssumption, MaxSavedAssumption
  <2>a. m \in Nat /\ o \in Nat /\ l \in Nat /\ a \in Nat
    BY <1>1, <2>1
  <2>2. m <= o /\ m <= l + 1 /\ l <= a /\ o <= a + 1
    BY <1>1, <1>3, <1>5, <2>1, MaxHistoryAssumption, MaxSavedAssumption
  <2>3. ASSUME NEW i \in 1 .. m PROVE new[i] = old[o - m + i]
    <3> DEFINE k == l + 1 - m + i
               n == a + 1 - m + i
    <3>a. i \in Nat /\ 1 <= i /\ i <= m
      BY <2>a
    <3>b. k \in 1 .. l + 1
      BY <2>a, <2>2, <3>a
    <3>f. n \in 1 .. a + 1
      BY <2>a, <2>2, <3>a
    <3>c. o - m + i \in 1 .. o
      BY <2>a, <2>2, <3>a
    <3>d. a + 1 - o + (o - m + i) = n
      BY <2>a, <3>a
    <3>e. k - l = n - a /\ a - l + k = n
      BY <2>a, <3>a
    <3>2. new[i] = x[k]
      BY <1>4
    <3>3. old[o - m + i] = y[n]
      BY <1>6, <3>c, <3>d
    <3> HIDE DEF k, n
    <3>4. CASE k = l + 1
      <4>1. n = a + 1
        BY <2>a, <3>a, <3>b, <3>f, <3>e, <3>4
      <4> QED
        BY <1>7, <1>8, <3>2, <3>3, <3>4, <4>1
    <3>5. CASE k # l + 1
      <4>1. k \in 1 .. l /\ n \in 1 .. a
        BY <2>a, <3>a, <3>b, <3>f, <3>e, <3>5
      <4>2. list[k] = all[n]
        BY <1>2, <3>e, <4>1
      <4> QED
        BY <1>7, <1>8, <3>2, <3>3, <4>1, <4>2
    <3> QED
      BY <3>4, <3>5
  <2> QED
    BY <2>1, <2>3
<1> HIDE DEF new, old
<1> QED
  BY <1>9 DEF Ends, new, old

\* The pointwise description is the one the property gives.
LEMMA EndsIsSuffix ==
  ASSUME NEW list \in Seq(Statuses), NEW all \in Seq(Statuses), Ends(list, all)
  PROVE  IsSuffix(list, all) /\ (Len(all) <= MaxHistory => list = all)
<1> DEFINE n == Len(list)
           a == Reverse(list)
           b == Reverse(all)
<1>1. n \in Nat /\ Len(all) \in Nat /\ n <= Len(all)
  BY LenProperties, MaxHistoryAssumption DEF Ends
<1>2. a = [i \in 1 .. n |-> list[(n - i) + 1]] /\ b = [i \in 1 .. Len(all) |-> all[(Len(all) - i) + 1]]
  BY DEF Reverse
<1>3. /\ \A i \in 1 .. n : list[(n - i) + 1] \in Statuses
      /\ \A i \in 1 .. Len(all) : all[(Len(all) - i) + 1] \in Statuses
  BY <1>1, ElementOfSeq
<1>4. a \in Seq(Statuses) /\ b \in Seq(Statuses) /\ Len(a) = n /\ Len(b) = Len(all)
  <2> HIDE DEF a, b, n
  <2> QED
    BY <1>1, <1>2, <1>3
<1>5. \A i \in 1 .. n : a[i] \in Statuses /\ b[i] \in Statuses /\ a[i] = b[i]
  <2> SUFFICES ASSUME NEW i \in 1 .. n PROVE a[i] \in Statuses /\ b[i] \in Statuses /\ a[i] = b[i]
    OBVIOUS
  <2>1. a[i] = list[(n - i) + 1] /\ b[i] = all[(Len(all) - i) + 1] /\ (n - i) + 1 \in 1 .. n
    BY <1>1, <1>2
  <2>2. Len(all) - n + ((n - i) + 1) = (Len(all) - i) + 1
    BY <1>1
  <2>3. list[(n - i) + 1] = all[(Len(all) - i) + 1]
    BY <2>1, <2>2 DEF Ends
  <2> QED
    BY <1>3, <2>1, <2>3
<1>6. IsSuffix(list, all)
  <2> HIDE DEF a, b, n
  <2>1. /\ SubSeq(a, 1, n) \in Seq(Statuses) /\ Len(SubSeq(a, 1, n)) = n
        /\ \A i \in 1 .. n : SubSeq(a, 1, n)[i] = a[i]
    BY <1>1, <1>5, SubSeqProperties
  <2>2. /\ SubSeq(b, 1, n) \in Seq(Statuses) /\ Len(SubSeq(b, 1, n)) = n
        /\ \A i \in 1 .. n : SubSeq(b, 1, n)[i] = b[i]
    BY <1>1, <1>5, SubSeqProperties
  <2>3. SubSeq(a, 1, n) = SubSeq(b, 1, n)
    BY <1>5, <2>1, <2>2, SeqEqual
  <2> QED
    BY <1>1, <1>4, <2>3 DEF IsSuffix, IsPrefix, a, b
<1>7. ASSUME Len(all) <= MaxHistory PROVE list = all
  <2>1. Len(list) = Len(all) /\ \A i \in 1 .. Len(list) : list[i] = all[i]
    BY <1>1, <1>7 DEF Ends
  <2> QED
    BY <2>1, SeqEqual
<1> QED
  BY <1>6, <1>7

--------------------------------------------------------------------------------
(* The verdict.                                                             *)

\* Below 200 services a percentage is rounded up to 100 only if it is 100.
LEMMA ScoreIs ==
  ASSUME NEW healthy \in Nat, NEW total \in Nat, healthy <= total, total < 200,
         Score(healthy, total) = 100
  PROVE  healthy = total
<1>1. total # 0 /\ (200 * healthy + total) \div (2 * total) = 100
  BY DEF Score
<1>2. ASSUME NEW a \in Nat, NEW b \in Nat \ {0}, a \div b = 100 PROVE a >= 100 * b
  BY <1>2
<1>3. 200 * healthy + total \in Nat /\ 2 * total \in Nat \ {0}
  BY <1>1
<1>4. 200 * healthy + total >= 100 * (2 * total)
  BY <1>1, <1>2, <1>3
<1> QED
  BY <1>4

--------------------------------------------------------------------------------
(* The steps.                                                               *)

\* A saved list is not empty, nor is what is seen of it unknown.
LEMMA NotEmpty ==
  ASSUME NEW list \in Seq(Statuses), NEW status \in Statuses
  PROVE  Saved(list, status) # <<>>
<1>1. Len(Saved(list, status)) # 0
  BY SavedIs, LenProperties, MaxHistoryAssumption
<1> QED
  BY <1>1, EmptySeq

\* A process that starts has no history, and does not listen.
LEMMA BootedIs ==
  /\ Booted.listening = FALSE
  /\ Booted.probe \in [Services -> {"none", "pending"} \cup Statuses]
  /\ Booted.check \in [Checks -> [service : Services \cup {NoService}, answer : {"none"} \cup Statuses]]
  /\ Booted.snapshots = [s \in Services |-> <<>>] /\ Booted.snapshots \in [Services -> Seq(Statuses)]
  /\ Booted.gauge \in [Services -> {0, 1}]
<1>1. <<>> \in Seq(Statuses)
  BY EmptySeq
<1> QED
  BY <1>1 DEF Booted

LEMMA FreshIInv ==
  ASSUME faults' \in [Services -> SUBSET Faults], listening' = Booted.listening, probe' = Booted.probe,
         check' = Booted.check, snapshots' = Booted.snapshots, gauge' = Booted.gauge,
         saved' = Booted.snapshots
  PROVE  IInv'
<1>1. TypeOK'
  BY BootedIs DEF TypeOK
<1>2. Tracks' /\ Heard'
  BY BootedIs, EmptySeq, MaxHistoryAssumption DEF Tracks, Heard, Ends
<1> QED
  BY <1>1, <1>2 DEF IInv

LEMMA InitIInv == Init => IInv
<1> SUFFICES ASSUME Init PROVE IInv
  OBVIOUS
<1>1. TypeOK
  BY BootedIs DEF Init, TypeOK
<1>2. Tracks /\ Heard
  BY BootedIs, EmptySeq, MaxHistoryAssumption DEF Init, Tracks, Heard, Ends
<1> QED
  BY <1>1, <1>2 DEF IInv

\* A step that saves nothing.
LEMMA QuietIInv ==
  ASSUME IInv, TypeOK', snapshots' = snapshots, saved' = saved, listening' = listening
  PROVE  IInv'
BY DEF IInv, Tracks, Heard

\* A step that saves a snapshot of each service in some.
LEMMA SaveIInv ==
  ASSUME IInv, TypeOK', NEW some \in SUBSET Services, NEW answers \in [some -> Statuses],
         snapshots' = [s \in Services |-> IF s \in some THEN Saved(snapshots[s], answers[s]) ELSE snapshots[s]],
         saved' = [s \in Services |-> IF s \in some THEN Kept(saved[s], answers[s]) ELSE saved[s]],
         listening' => listening \/ some = Services
  PROVE  IInv'
<1>1. ASSUME NEW s \in Services PROVE Ends(snapshots'[s], saved'[s]) /\ (snapshots[s] # <<>> => snapshots'[s] # <<>>)
                                      /\ (s \in some => snapshots'[s] # <<>>)
  <2>1. snapshots[s] \in Seq(Statuses) /\ saved[s] \in Seq(Statuses) /\ Ends(snapshots[s], saved[s])
    BY DEF IInv, TypeOK, Tracks
  <2>2. CASE s \in some
    BY <2>1, <2>2, EndsKept, NotEmpty
  <2>3. CASE s \notin some
    BY <2>1, <2>3
  <2> QED
    BY <2>2, <2>3
<1>2. Tracks'
  BY <1>1 DEF Tracks, Ends
<1>3. Heard'
  BY <1>1 DEF IInv, Heard
<1> QED
  BY <1>2, <1>3 DEF IInv

\* An answer to a probe is judged to be a status.
LEMMA JudgedIs == \A answer : Judged(answer) \in Statuses
BY DEF Judged, Statuses

\* Services come and go, and nobody has noticed.
LEMMA ChangeIInv == ASSUME IInv, NEW s \in Services, Change(s) PROVE IInv'
<1>0. PICK f \in SUBSET Faults : faults' = [faults EXCEPT ![s] = f]
  BY EndpointsAssumption DEF Change
<1>1. TypeOK'
  BY <1>0 DEF Change, IInv, TypeOK
<1> QED
  BY <1>1, QuietIInv DEF Change

\* The poll cycle up to its last answer.
LEMMA ProbeIInv ==
  ASSUME IInv, PollStart \/ \E s \in Services : PollAnswer(s) PROVE IInv'
<1>1. UNCHANGED <<faults, listening, check, snapshots, gauge, saved>>
  BY DEF PollStart, PollAnswer
<1>2. probe' \in [Services -> {"none", "pending"} \cup Statuses]
  <2>1. CASE PollStart
    BY <2>1 DEF PollStart
  <2>2. ASSUME NEW s \in Services, PollAnswer(s)
        PROVE  probe' \in [Services -> {"none", "pending"} \cup Statuses]
    <3>1. PICK answer : probe' = [probe EXCEPT ![s] = Judged(answer)]
      BY <2>2 DEF PollAnswer
    <3> QED
      BY <3>1, JudgedIs DEF IInv, TypeOK
  <2> QED
    BY <2>1, <2>2
<1>3. TypeOK'
  BY <1>1, <1>2 DEF IInv, TypeOK
<1> QED
  BY <1>1, <1>3, QuietIInv

\* The poll cycle saves all.
LEMMA PollSaveIInv == ASSUME IInv, PollSave PROVE IInv'
<1> DEFINE answers == [s \in Services |-> probe[s]]
<1>1. answers \in [Services -> Statuses]
  BY DEF PollSave
<1>2. /\ snapshots' = [s \in Services |-> Saved(snapshots[s], answers[s])]
      /\ saved' = [s \in Services |-> Kept(saved[s], answers[s])]
      /\ probe' = [s \in Services |-> "none"] /\ listening' = TRUE
      /\ UNCHANGED <<faults, check, gauge>>
  BY DEF PollSave
<1> HIDE DEF answers
<1>3. \A s \in Services : snapshots[s] \in Seq(Statuses) /\ saved[s] \in Seq(Statuses) /\ answers[s] \in Statuses
  BY <1>1 DEF IInv, TypeOK
<1>4. \A s \in Services : Saved(snapshots[s], answers[s]) \in Seq(Statuses) /\ Kept(saved[s], answers[s]) \in Seq(Statuses)
  BY <1>3, SavedIs, KeptIs
<1>5. TypeOK'
  BY <1>2, <1>4 DEF IInv, TypeOK
<1>6. /\ snapshots' = [s \in Services |-> IF s \in Services THEN Saved(snapshots[s], answers[s]) ELSE snapshots[s]]
      /\ saved' = [s \in Services |-> IF s \in Services THEN Kept(saved[s], answers[s]) ELSE saved[s]]
  BY <1>2
<1> QED
  BY <1>1, <1>2, <1>5, <1>6, SaveIInv

\* A check by hand up to its answer.
LEMMA AskIInv ==
  ASSUME IInv, NEW c \in Checks, CheckAnswer(c) \/ \E s \in Services : CheckStart(c, s) PROVE IInv'
<1>1. UNCHANGED <<faults, listening, probe, snapshots, gauge, saved>>
  BY DEF CheckAnswer, CheckStart
<1>2. check' \in [Checks -> [service : Services \cup {NoService}, answer : {"none"} \cup Statuses]]
  <2> DEFINE Row == [service : Services \cup {NoService}, answer : {"none"} \cup Statuses]
  <2>1. check \in [Checks -> Row]
    BY DEF IInv, TypeOK
  <2>2. CASE CheckAnswer(c)
    <3>0. PICK answer : check' = [check EXCEPT ![c].answer = Judged(answer)]
      BY <2>2 DEF CheckAnswer
    <3> DEFINE row == [check[c] EXCEPT !.answer = Judged(answer)]
    <3>1. check' = [check EXCEPT ![c] = row]
      BY <3>0
    <3>2. check[c] \in Row /\ Judged(answer) \in {"none"} \cup Statuses
      BY <2>1, JudgedIs
    <3>3. row \in Row
      BY <3>2
    <3> HIDE DEF row
    <3> QED
      BY <2>1, <3>1, <3>3
  <2>3. ASSUME NEW s \in Services, CheckStart(c, s) PROVE check' \in [Checks -> Row]
    BY <2>1, <2>3 DEF CheckStart
  <2> QED
    BY <2>2, <2>3
<1>3. TypeOK'
  BY <1>1, <1>2 DEF IInv, TypeOK
<1> QED
  BY <1>1, <1>3, QuietIInv

\* A check by hand saves its answer.
LEMMA CheckSaveIInv == ASSUME IInv, NEW c \in Checks, CheckSave(c) PROVE IInv'
<1> DEFINE s == check[c].service
           some == {s} \cap Services
           answers == [x \in some |-> check[c].answer]
<1>1. /\ check[c].answer \in Statuses
      /\ snapshots' = [snapshots EXCEPT ![s] = Saved(@, check[c].answer)]
      /\ saved' = [saved EXCEPT ![s] = Kept(@, check[c].answer)]
      /\ check' = [check EXCEPT ![c] = [service |-> NoService, answer |-> "none"]]
      /\ UNCHANGED <<faults, listening, probe, gauge>>
  BY DEF CheckSave
<1>2. answers \in [some -> Statuses] /\ \A x \in some : x = s /\ answers[x] = check[c].answer
  BY <1>1
<1>3. /\ snapshots' = [x \in Services |-> IF x \in some THEN Saved(snapshots[x], answers[x]) ELSE snapshots[x]]
      /\ saved' = [x \in Services |-> IF x \in some THEN Kept(saved[x], answers[x]) ELSE saved[x]]
  BY <1>1, <1>2 DEF IInv, TypeOK
<1>4. \A x \in Services : snapshots[x] \in Seq(Statuses) /\ saved[x] \in Seq(Statuses)
  BY DEF IInv, TypeOK
<1>5. some \in SUBSET Services
  OBVIOUS
<1> HIDE DEF some, answers
<1>6. \A x \in some : Saved(snapshots[x], answers[x]) \in Seq(Statuses) /\ Kept(saved[x], answers[x]) \in Seq(Statuses)
  BY <1>2, <1>4, <1>5, SavedIs, KeptIs
<1>7. TypeOK'
  <2>1. snapshots' \in [Services -> Seq(Statuses)] /\ saved' \in [Services -> Seq(Statuses)]
    BY <1>3, <1>4, <1>6
  <2>2. check' \in [Checks -> [service : Services \cup {NoService}, answer : {"none"} \cup Statuses]]
    BY <1>1 DEF IInv, TypeOK
  <2> QED
    BY <1>1, <2>1, <2>2 DEF IInv, TypeOK
<1>8. answers \in [some -> Statuses] /\ (listening' => listening \/ some = Services)
  BY <1>1, <1>2
<1> QED
  BY <1>3, <1>5, <1>7, <1>8, SaveIInv

\* The gauges follow the history.
LEMMA MetricsIInv == ASSUME IInv, UpdateMetrics PROVE IInv'
<1>1. TypeOK'
  BY DEF UpdateMetrics, IInv, TypeOK
<1> QED
  BY <1>1, QuietIInv DEF UpdateMetrics

\* Every step keeps the invariant.
LEMMA NextIInv == ASSUME IInv, [Next]_vars PROVE IInv'
<1>1. CASE UNCHANGED vars
  <2>1. TypeOK'
    BY <1>1 DEF IInv, TypeOK, vars
  <2> QED
    BY <1>1, <2>1, QuietIInv DEF vars
<1>2. CASE Restart
  <2>1. faults' \in [Services -> SUBSET Faults]
    BY <1>2 DEF Restart, IInv, TypeOK
  <2> QED
    BY <1>2, <2>1, FreshIInv DEF Restart
<1>3. ASSUME NEW s \in Services, Change(s) PROVE IInv'
  BY <1>3, ChangeIInv
<1>4. ASSUME NEW c \in Checks, Check(c) \/ \E s \in Services : CheckStart(c, s) PROVE IInv'
  BY <1>4, AskIInv, CheckSaveIInv DEF Check
<1>5. CASE Poll \/ UpdateMetrics
  BY <1>5, ProbeIInv, PollSaveIInv, MetricsIInv DEF Poll
<1> QED
  BY <1>1, <1>2, <1>3, <1>4, <1>5 DEF Next

LEMMA Invariance == Spec => []IInv
BY InitIInv, NextIInv, PTL DEF Spec
--------------------------------------------------------------------------------
\* TypeOK holds in every reachable state.
THEOREM TypeCorrect == Spec => []TypeOK
BY Invariance, PTL DEF IInv

\* KeepsTheLatest: the history is the end of what was saved, by poll cycles and
\* by checks, and no longer than the limit.
THEOREM HistorySafe == Spec => []KeepsTheLatest
<1>1. ASSUME IInv PROVE KeepsTheLatest
  <2>1. ASSUME NEW s \in Services
        PROVE  /\ Len(snapshots[s]) <= MaxHistory /\ IsSuffix(snapshots[s], saved[s])
               /\ Len(saved[s]) <= MaxHistory => snapshots[s] = saved[s]
    <3>1. snapshots[s] \in Seq(Statuses) /\ saved[s] \in Seq(Statuses) /\ Ends(snapshots[s], saved[s])
      BY <1>1 DEF IInv, TypeOK, Tracks
    <3>2. Len(snapshots[s]) <= MaxHistory
      BY <3>1, LenProperties, MaxHistoryAssumption DEF Ends
    <3> QED
      BY <3>1, <3>2, EndsIsSuffix
  <2> QED
    BY <2>1 DEF KeepsTheLatest
<1> QED
  BY <1>1, Invariance, PTL

\* The server listens only when it has a snapshot of every service, and a
\* snapshot says healthy or unhealthy.
LEMMA KnownSafe ==
  ASSUME IInv, listening, NEW s \in Services
  PROVE  Latest(s) # "unknown"
<1>1. snapshots[s] \in Seq(Statuses) /\ snapshots[s] # <<>>
  BY DEF IInv, TypeOK, Heard
<1>2. Len(snapshots[s]) \in 1 .. Len(snapshots[s])
  BY <1>1, EmptySeq
<1>3. Last(snapshots[s]) \in Statuses
  BY <1>1, <1>2, ElementOfSeq DEF Last
<1> QED
  BY <1>1, <1>3 DEF Latest, Statuses

\* The verdict of a registry of fewer than 200 services: with 200 one that is
\* down would be rounded away.
LEMMA VerdictIs ==
  ASSUME Cardinality(Services) < 200
  PROVE  /\ Status = "healthy" => HealthyServices = Services
         /\ Status = "degraded" => CriticalServicesHealthy
         /\ Status \in {"healthy", "degraded", "unhealthy"}
<1>1. HealthyServices \subseteq Services
  BY DEF HealthyServices
<1>2. /\ Cardinality(HealthyServices) \in Nat /\ Cardinality(Services) \in Nat
      /\ Cardinality(HealthyServices) <= Cardinality(Services)
      /\ Cardinality(HealthyServices) = Cardinality(Services) => HealthyServices = Services
  BY <1>1, ServicesAssumption, FS_Subset, FS_CardinalityType
<1>3. HealthScore = 100 => HealthyServices = Services
  BY <1>2, ScoreIs DEF HealthScore
<1> QED
  BY <1>3 DEF Status, CriticalServicesHealthy

\* VerdictHonest: none that is down is rounded away, no critical one overlooked,
\* and nobody is told of a service that no probe has answered for.
THEOREM VerdictSafe ==
  ASSUME Cardinality(Services) < 200
  PROVE  Spec => []VerdictHonest
<1>1. IInv => VerdictHonest
  BY VerdictIs, KnownSafe DEF VerdictHonest
<1> QED
  BY <1>1, Invariance, PTL
--------------------------------------------------------------------------------
(* What is told of a service.                                               *)

\* The latest snapshot is the one that was saved last.
LEMMA LatestSaved ==
  ASSUME NEW list \in Seq(Statuses), NEW status \in Statuses
  PROVE  Saved(list, status) # <<>> /\ Last(Saved(list, status)) = status
<1> DEFINE new == Saved(list, status)
           m == Len(new)
<1>1. Len(list) \in Nat /\ new \in Seq(Statuses) /\ m \in 1 .. m
  BY SavedIs, LenProperties, MaxHistoryAssumption
<1>2. new[m] = Append(list, status)[Len(list) + 1 - m + m]
  BY <1>1, SavedIs
<1>3. Append(list, status)[Len(list) + 1] = status
  BY AppendProperties
<1>4. Len(list) + 1 - m + m = Len(list) + 1
  BY <1>1
<1> HIDE DEF new
<1>5. new # <<>> /\ Last(new) = status
  BY <1>1, <1>2, <1>3, <1>4, EmptySeq DEF Last
<1> QED
  BY <1>5 DEF new

\* Nothing is wrong with a service: a probe finds it healthy, although the ping of
\* its database may be too fast and be taken for a failure.
LEMMA WellAnswers ==
  ASSUME NEW s \in Serving \ TenantBound, faults[s] = {}, NEW answer \in ProbeAnswers(s)
  PROVE  Judged(answer) = "healthy"
<1>1. \A c \in Indicators, ms \in PingTimes : Outcome(c, {}, ms) \in {"up", "down"}
  BY DEF Indicators, PingTimes, Outcome, PingCheck, RedisIsHealthy, CheckHeap, CheckRSS, GrpcIsHealthy, Race
<1>2. \A c \in HealthChecks[s], ms \in PingTimes : Outcome(c, faults[s], ms) \in {"up", "down"}
  BY <1>1, EndpointsAssumption
<1>3. \A outcomes \in SUBSET {"up", "down"} : Replies(outcomes) = {"ok"}
  BY DEF Replies
<1>4. Answers(HealthChecks[s], faults[s]) \subseteq {"ok"}
  BY <1>2, <1>3 DEF Answers
<1> QED
  BY <1>4 DEF ProbeAnswers, Judged

\* Something fatal is: a probe finds it unhealthy, whatever hangs beside it.
LEMMA IllAnswers ==
  ASSUME NEW s \in Serving \ TenantBound, faults[s] \cap Fatal(s) # {}, NEW answer \in ProbeAnswers(s)
  PROVE  Judged(answer) = "unhealthy"
<1> DEFINE outcomes(ms) == {Outcome(c, faults[s], ms) : c \in HealthChecks[s]}
<1>1. ~("stopped" \in faults[s]) => \A ms \in PingTimes : "throws" \in outcomes(ms)
  <2> SUFFICES ASSUME ~("stopped" \in faults[s]), NEW ms \in PingTimes
               PROVE  \E c \in HealthChecks[s] : Outcome(c, faults[s], ms) = "throws"
    OBVIOUS
  <2>1. \/ "heap" \in HealthChecks[s] /\ "heap_high" \in faults[s]
        \/ "rss" \in HealthChecks[s] /\ "rss_high" \in faults[s]
    BY DEF Fatal
  <2>2. "heap_high" \in faults[s] => Outcome("heap", faults[s], ms) = "throws"
    BY DEF Outcome, CheckHeap
  <2>3. "rss_high" \in faults[s] => Outcome("rss", faults[s], ms) = "throws"
    BY DEF Outcome, CheckRSS
  <2> QED
    BY <2>1, <2>2, <2>3
<1>2. Answers(HealthChecks[s], faults[s]) \subseteq {"refused", "none", "error"}
  BY <1>1 DEF Answers, Replies
<1> QED
  BY <1>2 DEF ProbeAnswers, Judged

\* While every answer says the same of a service, what is told stays told.
LEMMA ToldKept ==
  ASSUME IInv, NEW s \in Serving \ TenantBound, NEW status \in Statuses, Told(s, status),
         \A answer \in ProbeAnswers(s) : Judged(answer) = status, [Next]_vars, listening'
  PROVE  Told(s, status)'
<1>0. /\ s \in Services /\ probe \in [Services -> {"none", "pending"} \cup Statuses]
      /\ check \in [Checks -> [service : Services \cup {NoService}, answer : {"none"} \cup Statuses]]
      /\ snapshots \in [Services -> Seq(Statuses)] /\ NoService # s
  BY EndpointsAssumption, ServicesAssumption DEF IInv, TypeOK
<1>1. CASE UNCHANGED <<probe, check, snapshots, gauge>>
  BY <1>1 DEF Told, Latest
<1>2. ~Restart
  BY DEF Restart, Booted
<1>3. CASE PollStart
  BY <1>0, <1>3 DEF PollStart, Told, Latest
<1>4. ASSUME NEW t \in Services, PollAnswer(t) PROVE Told(s, status)'
  BY <1>0, <1>4 DEF PollAnswer, Told, Latest
<1>5. CASE PollSave
  <2>1. /\ probe[s] = status /\ probe'[s] = "none" /\ gauge' = gauge /\ check' = check
        /\ snapshots'[s] = Saved(snapshots[s], status)
    BY <1>0, <1>5 DEF PollSave, Told, Statuses
  <2>2. Latest(s)' = status
    BY <1>0, <2>1, LatestSaved DEF Latest
  <2> QED
    BY <2>1, <2>2 DEF Told
<1>6. ASSUME NEW c \in Checks, NEW t \in Services, CheckStart(c, t) PROVE Told(s, status)'
  BY <1>0, <1>6 DEF CheckStart, Told, Latest
<1>7. ASSUME NEW c \in Checks, CheckAnswer(c) PROVE Told(s, status)'
  BY <1>0, <1>7 DEF CheckAnswer, Told, Latest
<1>8. ASSUME NEW c \in Checks, CheckSave(c) PROVE Told(s, status)'
  <2> DEFINE t == check[c].service
  <2>1. /\ probe' = probe /\ gauge' = gauge /\ check[c].answer \in Statuses
        /\ snapshots' = [snapshots EXCEPT ![t] = Saved(@, check[c].answer)]
        /\ check' = [check EXCEPT ![c] = [service |-> NoService, answer |-> "none"]]
    BY <1>8 DEF CheckSave
  <2>2. \A d \in Checks : check'[d].service = s => check'[d] = check[d]
    BY <1>0, <2>1
  <2>3. Latest(s)' = status
    <3>1. CASE t = s
      <4>1. check[c].answer = status
        BY <2>1, <3>1 DEF Told, Statuses
      <4>2. snapshots'[s] = Saved(snapshots[s], status)
        BY <1>0, <2>1, <3>1, <4>1
      <4> QED
        BY <1>0, <4>2, LatestSaved DEF Latest
    <3>2. CASE t # s
      BY <1>0, <2>1, <3>2 DEF Told, Latest
    <3> QED
      BY <3>1, <3>2
  <2> QED
    BY <2>1, <2>2, <2>3 DEF Told
<1>9. CASE UpdateMetrics
  BY <1>0, <1>9 DEF UpdateMetrics, Told, Latest, Statuses
<1>10. ASSUME NEW t \in Services, Change(t) PROVE Told(s, status)'
  BY <1>1, <1>10 DEF Change
<1>11. CASE UNCHANGED vars
  BY <1>1, <1>11 DEF vars
<1> QED
  BY <1>2, <1>3, <1>4, <1>5, <1>6, <1>7, <1>8, <1>9, <1>10, <1>11 DEF Next, Poll, Check

\* TellingStays: the safe half of EventuallyTold.  What is told of a service that
\* has nothing wrong, or something fatal, stays told, whatever overtakes what.
THEOREM TellingSafe == Spec => TellingStays
<1>1. IInv /\ [Next]_vars => [listening' => \A s \in Serving \ TenantBound :
        /\ Told(s, "healthy") /\ faults[s] = {} => Told(s, "healthy")'
        /\ Told(s, "unhealthy") /\ faults[s] \cap Fatal(s) # {} => Told(s, "unhealthy")']_vars
  BY ToldKept, WellAnswers, IllAnswers DEF Statuses
<1> QED
  BY <1>1, Invariance, PTL DEF Spec, TellingStays
--------------------------------------------------------------------------------
(* Services that no probe reaches.                                          *)

\* A service that does not serve HTTP, or wants a tenant: nothing that is known
\* or on its way says that it is healthy.
Beyond(s) == s \in Services /\ (s \notin Serving \/ s \in TenantBound)

Silent(s) ==
  /\ Latest(s) # "healthy" /\ probe[s] # "healthy"
  /\ \A c \in Checks : check[c].service = s => check[c].answer # "healthy"

\* No answer to a probe of it is ok.
LEMMA BeyondAnswers ==
  ASSUME NEW s, Beyond(s), NEW answer \in ProbeAnswers(s)
  PROVE  Judged(answer) = "unhealthy"
<1>1. "stopped" \in faults[s] => Answers(HealthChecks[s], faults[s]) = {"refused"}
  BY DEF Answers
<1> QED
  BY <1>1 DEF Beyond, ProbeAnswers, Judged

\* It stays silent.
LEMMA SilentKept == ASSUME IInv, NEW s, Beyond(s), Silent(s), [Next]_vars PROVE Silent(s)'
<1>0. /\ s \in Services /\ probe \in [Services -> {"none", "pending"} \cup Statuses]
      /\ check \in [Checks -> [service : Services \cup {NoService}, answer : {"none"} \cup Statuses]]
      /\ snapshots \in [Services -> Seq(Statuses)] /\ NoService # s
  BY ServicesAssumption DEF IInv, TypeOK, Beyond
<1>1. CASE UNCHANGED <<probe, check, snapshots>>
  BY <1>1 DEF Silent, Latest
<1>2. CASE Restart
  BY <1>0, <1>2 DEF Restart, Booted, Silent, Latest
<1>3. CASE PollStart
  BY <1>0, <1>3 DEF PollStart, Silent, Latest
<1>4. ASSUME NEW t \in Services, PollAnswer(t) PROVE Silent(s)'
  BY <1>0, <1>4, BeyondAnswers DEF PollAnswer, Silent, Latest
<1>5. CASE PollSave
  <2>1. /\ probe[s] \in Statuses /\ probe'[s] = "none" /\ check' = check
        /\ snapshots'[s] = Saved(snapshots[s], probe[s])
    BY <1>0, <1>5 DEF PollSave
  <2>2. Latest(s)' = probe[s]
    BY <1>0, <2>1, LatestSaved DEF Latest
  <2> QED
    BY <2>1, <2>2 DEF Silent
<1>6. ASSUME NEW c \in Checks, NEW t \in Services, CheckStart(c, t) PROVE Silent(s)'
  BY <1>0, <1>6 DEF CheckStart, Silent, Latest
<1>7. ASSUME NEW c \in Checks, CheckAnswer(c) PROVE Silent(s)'
  BY <1>0, <1>7, BeyondAnswers DEF CheckAnswer, Silent, Latest
<1>8. ASSUME NEW c \in Checks, CheckSave(c) PROVE Silent(s)'
  <2> DEFINE t == check[c].service
             answer == check[c].answer
  <2>1. /\ probe' = probe /\ answer \in Statuses
        /\ snapshots' = [snapshots EXCEPT ![t] = Saved(@, answer)]
        /\ check' = [check EXCEPT ![c] = [service |-> NoService, answer |-> "none"]]
    BY <1>8 DEF CheckSave
  <2>2. \A d \in Checks : check'[d].service = s => check'[d] = check[d]
    BY <1>0, <2>1
  <2>3. Latest(s)' # "healthy"
    <3>1. CASE t = s
      <4>1. answer # "healthy" /\ snapshots'[s] = Saved(snapshots[s], answer)
        BY <1>0, <2>1, <3>1 DEF Silent
      <4> QED
        BY <1>0, <2>1, <4>1, LatestSaved DEF Latest
    <3>2. CASE t # s
      BY <1>0, <2>1, <3>2 DEF Silent, Latest
    <3> QED
      BY <3>1, <3>2
  <2> QED
    BY <2>1, <2>2, <2>3 DEF Silent
<1>9. ASSUME NEW t \in Services, UpdateMetrics \/ Change(t) PROVE Silent(s)'
  BY <1>1, <1>9 DEF UpdateMetrics, Change
<1>10. CASE UNCHANGED vars
  BY <1>1, <1>10 DEF vars
<1> QED
  BY <1>0, <1>2, <1>3, <1>4, <1>5, <1>6, <1>7, <1>8, <1>9, <1>10 DEF Next, Poll, Check

\* With one service that no probe reaches the system is never called healthy; if
\* it is a critical one, the verdict is never anything but unhealthy.  As the
\* services of the registry are wired, that is so of each of them.
THEOREM NeverCalledHealthy ==
  ASSUME Cardinality(Services) < 200, NEW s, Beyond(s)
  PROVE  Spec => [](Status # "healthy" /\ (s \in Critical => Status = "unhealthy"))
<1>1. Init => Silent(s)
  BY DEF Init, Booted, Silent, Latest, Beyond
<1>2. IInv /\ Silent(s) /\ [Next]_vars => Silent(s)'
  BY SilentKept
<1>3. Silent(s) => Status # "healthy" /\ (s \in Critical => Status = "unhealthy")
  <2>1. Silent(s) => s \notin HealthyServices /\ s \in Services
    BY DEF Silent, HealthyServices, Beyond
  <2> QED
    BY <2>1, VerdictIs DEF CriticalServicesHealthy
<1> QED
  BY <1>1, <1>2, <1>3, Invariance, PTL DEF Spec
================================================================================
