---------------------------- MODULE MCPrimaryRecords ----------------------------
\* A small instance of PrimaryRecords: two employees of two tenants, two bank
\* accounts and two contacts.
EXTENDS PrimaryRecords, TLC

CONSTANTS ann, ben, acme, globex, b1, b2, c1, c2,
          MaxRows      \* bound: rows created in a behaviour

Employer == (ann :> acme) @@ (ben :> globex)
Kind == [i \in Ids |-> IF i \in {c1, c2} THEN "contact" ELSE "bank"]

Bounded == Cardinality({i \in Ids : owner[i] # NoOne}) <= MaxRows

\* The two employees may be exchanged, each with its tenant.
Symmetry ==
  Permutations(Requests) \cup Permutations({b1, b2}) \cup Permutations({c1, c2})
    \cup {(ann :> ben) @@ (ben :> ann) @@ (acme :> globex) @@ (globex :> acme)}
================================================================================
