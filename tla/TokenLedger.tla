------------------------------ MODULE TokenLedger ------------------------------
(***************************************************************************)
(* What the token store of the auth service promises, whatever the         *)
(* interleaving of the requests that use it: a refresh token is issued at  *)
(* most once, lives until it is exchanged or logged out, and never comes   *)
(* back to life; one transaction touches the tokens of one user only.      *)
(***************************************************************************)
CONSTANTS Users, Token   \* every token of Token has a field sub in Users

VARIABLE life            \* of each token: "absent", "live" or "dead"

Init == life = [t \in Token |-> "absent"]

\* A login brings one token of one user to life.
Issue == \E t \in Token :
  /\ life[t] = "absent"
  /\ life' = [life EXCEPT ![t] = "live"]

\* A refresh kills the token it was given, which a competitor may already
\* have killed, and brings a new one of the same user to life.
Exchange == \E old, new \in Token :
  /\ life[old] # "absent"
  /\ life[new] = "absent"
  /\ old.sub = new.sub
  /\ life' = [life EXCEPT ![old] = "dead", ![new] = "live"]

\* A logout kills live tokens of one user.
Revoke == \E u \in Users :
  /\ life' \in [Token -> {"absent", "live", "dead"}]
  /\ \A t \in Token : life'[t] # life[t] =>
       t.sub = u /\ life[t] = "live" /\ life'[t] = "dead"

Next == Issue \/ Exchange \/ Revoke

Spec == Init /\ [][Next]_life
================================================================================
