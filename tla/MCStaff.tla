-------------------------------- MODULE MCStaff --------------------------------
\* A small instance of Staff: two tenants, each with an employee and a
\* department, and a position in the first one.
EXTENDS Staff, TLC

CONSTANTS ann, bob, dev, ops, cook, t1, t2, r1, r2

Tenant == [i \in Ids |-> IF i \in {bob, ops} THEN t2 ELSE t1]

P(d, p, m, s) == [dept |-> d, pos |-> p, manager |-> m, status |-> s]

\* A place, a place in the other tenant, a manager with a leave, a return.
Orders == {P(dev, cook, None, "keep"), P(ops, None, None, "keep"),
           P(None, None, bob, "off"), P(None, None, ann, "on")}
Symmetry == Permutations(Requests)
================================================================================
