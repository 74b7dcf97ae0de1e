----------------------------- MODULE MCRegistration -----------------------------
\* A small instance of Registration: two replicas, two default roles, and an
\* e-mail address that two attempts compete for, of two clients or of one.
EXTENDS Registration

CONSTANTS p1, p2, r1, r2, ann, admin, employee, ghost

Defaults == <<admin, employee>>
AskedFor == {{}, {admin, ghost}, {ghost}}
================================================================================
