-------------------------------- MODULE Enrolment --------------------------------
(***************************************************************************)
(* What the registration of accounts promises to those who try, whatever   *)
(* becomes of replicas, transactions, connections and timeouts: an account *)
(* is made once, at one moment, by one attempt, which is for that account  *)
(* and still open; and what an attempt is told is what has become of it,   *)
(* or "unknown", which it may be told at any time.                         *)
(***************************************************************************)
CONSTANTS Attempts, Accounts, NoAccount

VARIABLES
  users,  \* the accounts there are
  open,   \* of each attempt: the account that it may yet make
  made,   \* of each attempt: the account that it has made
  told    \* of each attempt: what its client knows

vars == <<users, open, made, told>>

Answers == {"created", "refused", "unknown"}

Init ==
  /\ users = {}
  /\ open = [r \in Attempts |-> NoAccount]
  /\ made = [r \in Attempts |-> NoAccount]
  /\ told = [r \in Attempts |-> "nothing"]

\* A client that waits for nothing tries, or finds nobody who would.
Try(r) ==
  /\ told[r] # "waits" /\ open[r] = NoAccount
  /\ \E a \in Accounts : open' = [open EXCEPT ![r] = a]
  /\ made' = [made EXCEPT ![r] = NoAccount]
  /\ told' = [told EXCEPT ![r] = "waits"]
  /\ UNCHANGED users

TryInVain(r) ==
  /\ told[r] # "waits" /\ open[r] = NoAccount
  /\ made' = [made EXCEPT ![r] = NoAccount]
  /\ told' = [told EXCEPT ![r] = "unknown"]
  /\ UNCHANGED <<users, open>>

\* The account is made, whoever still waits for it...
Make(r) ==
  /\ open[r] # NoAccount /\ open[r] \notin users
  /\ users' = users \cup {open[r]}
  /\ made' = [made EXCEPT ![r] = open[r]]
  /\ open' = [open EXCEPT ![r] = NoAccount]
  /\ UNCHANGED told

\* ...or attempts come to nothing: several at once, with the process that they
\* have in common, and then their clients know no more than that.
GiveUp == \E S \in SUBSET Attempts :
  /\ open' = [r \in Attempts |-> IF r \in S THEN NoAccount ELSE open[r]]
  /\ told' \in {told, [r \in Attempts |-> IF r \in S /\ told[r] = "waits"
                                          THEN "unknown" ELSE told[r]]}
  /\ UNCHANGED <<users, made>>

Tell(r, answer) ==
  /\ told[r] = "waits"
  /\ answer = "created" => made[r] # NoAccount
  /\ answer = "refused" => made[r] = NoAccount /\ open[r] = NoAccount
  /\ told' = [told EXCEPT ![r] = answer]
  /\ UNCHANGED <<users, open, made>>

Next ==
  \/ GiveUp
  \/ \E r \in Attempts :
       \/ Try(r) \/ TryInVain(r) \/ Make(r)
       \/ \E answer \in Answers : Tell(r, answer)

Spec == Init /\ [][Next]_vars
================================================================================
