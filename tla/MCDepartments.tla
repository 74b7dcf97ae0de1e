----------------------------- MODULE MCDepartments -----------------------------
\* Small instances of Departments.
EXTENDS Departments, TLC

CONSTANTS acme, globex, hr, ops

Symmetry == Permutations(Requests) \cup Permutations(Tenants) \cup Permutations(Depts)
================================================================================
