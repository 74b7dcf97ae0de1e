------------------------------ MODULE MCAuthTokens ------------------------------
\* Small instances of AuthTokens for TLC.
EXTENDS AuthTokens, TLC

CONSTANT MaxAnswers  \* bound: logins and refreshes committed, one more is seen

Bounded == answers <= MaxAnswers

\* Users and slots are interchangeable.
Symmetry == Permutations(Users) \cup Permutations(Requests)
================================================================================
