-------------------------------- MODULE RowStore --------------------------------
(***************************************************************************)
(* What the tables of the employee-service promise, whatever requests pass *)
(* each other between a check and the write that follows it: an id is      *)
(* given out once, its row never changes owner and never comes back after  *)
(* its deletion; a row refers to rows that are there; and one step writes  *)
(* one row, but that a deletion takes its row out of the references of all *)
(* others.                                                                 *)
(***************************************************************************)
CONSTANTS Ids, Owners, NoOwner

VARIABLES
  life,   \* of each id: "absent", "live" or "gone"
  owner,  \* the owner of each row there is or was
  refs    \* the rows that a live row refers to

vars == <<life, owner, refs>>

Live == {i \in Ids : life[i] = "live"}

Init ==
  /\ life = [i \in Ids |-> "absent"]
  /\ owner = [i \in Ids |-> NoOwner]
  /\ refs = [i \in Ids |-> {}]

\* What i refers to changes, to rows that are there, and no other reference.
Refer(i) ==
  /\ refs' = [refs EXCEPT ![i] = refs'[i]]
  /\ refs'[i] \subseteq Live

Create == \E i \in Ids :
  /\ life[i] = "absent"
  /\ life' = [life EXCEPT ![i] = "live"]
  /\ \E o \in Owners : owner' = [owner EXCEPT ![i] = o]
  /\ Refer(i)

Update ==
  /\ UNCHANGED <<life, owner>>
  /\ \E i \in Live : Refer(i)

Delete == \E i \in Live :
  /\ life' = [life EXCEPT ![i] = "gone"]
  /\ refs' = [j \in Ids |-> IF j = i THEN {} ELSE refs[j] \ {i}]
  /\ UNCHANGED owner

Next == Create \/ Update \/ Delete

Spec == Init /\ [][Next]_vars
================================================================================
