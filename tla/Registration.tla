------------------------------ MODULE Registration ------------------------------
(***************************************************************************)
(* Registrations as their clients see them: POST /auth/register at the     *)
(* gateway, which calls Register of the auth-service, gives the call up    *)
(* after 30 seconds, and turns what the call ends with into a status.      *)
(*                                                                         *)
(* The composition of Accounts with the clients, the gateway and the       *)
(* connection between them: a call that is given up goes on in the         *)
(* service, a reply can be lost with the connection after the transaction  *)
(* has committed, and a client that was not told 201 may try again.        *)
(***************************************************************************)
EXTENDS Accounts

\* A request is an attempt of some client; one who tries again makes another.
VARIABLES
  attempt,  \* of each attempt: where it is, and at last the status
  made      \* history: of each attempt, the account it has created

regVars == <<vars, attempt, made>>
--------------------------------------------------------------------------------
Statuses == {"201", "408", "500", "503"}

\* "unsent", "waiting" for the service, or with a reply on its way back:
\* "created" or "refused".
Stages == {"unsent", "waiting", "created", "refused"}

\* What mapGrpcStatusToHttp makes of the replies.  Every exception of a handler
\* reaches the gateway as UNKNOWN: the service raises HTTP exceptions, which
\* the gRPC server does not know.
StatusOf(reply) == IF reply = "created" THEN "201" ELSE "500"

RegInit ==
  /\ Init
  /\ attempt = [r \in Requests |-> "unsent"]
  /\ made = [r \in Requests |-> NoAccount]

Told(r) == attempt[r] \notin Stages

\* The slot is free: nobody waits for it, and the service has done with it.
Free(r) == (attempt[r] = "unsent" \/ Told(r)) /\ req[r] = Idle

\* Where the attempt is now, and what it has created.
At(r, stage, account) ==
  /\ attempt' = [attempt EXCEPT ![r] = stage]
  /\ made' = [made EXCEPT ![r] = account]
--------------------------------------------------------------------------------
(* The gateway.                                                             *)

\* register: the call reaches a replica that serves.
Post(r, p, a, asked) ==
  /\ Free(r)
  /\ RegisterStart(r, p, a, asked)
  /\ At(r, "waiting", NoAccount)

\* No replica serves: the call ends with UNAVAILABLE.
Unreachable(r) ==
  /\ Free(r)
  /\ \A p \in Replicas : boot[p].pc # "up"
  /\ At(r, "503", NoAccount)
  /\ UNCHANGED vars

\* The reply arrives.
Deliver(r) ==
  /\ attempt[r] \in {"created", "refused"}
  /\ At(r, StatusOf(attempt[r]), made[r])
  /\ UNCHANGED vars

\* The connection is lost with the reply: UNAVAILABLE.
Lose(r) ==
  /\ attempt[r] \in {"created", "refused"}
  /\ At(r, "503", made[r])
  /\ UNCHANGED vars

\* TimeoutInterceptor: the client is told, the service is not.
Timeout(r) ==
  /\ attempt[r] \in {"waiting", "created", "refused"}
  /\ At(r, "408", made[r])
  /\ UNCHANGED vars
--------------------------------------------------------------------------------
(* The service.                                                             *)

\* The handler returns or throws; nobody may be waiting for it any more.
Reply(r, reply, account) == At(r, IF attempt[r] = "waiting" THEN reply ELSE attempt[r], account)

\* Where the attempt is after a step of its transaction before the commit: the
\* step may be the last.
Worked(r) ==
  IF req'[r] = Idle THEN Reply(r, "refused", NoAccount) ELSE UNCHANGED <<attempt, made>>

\* Mutant: the handler does not await its transaction.
Work_NotAwaited(r) ==
  /\ FindUser(r) \/ CreateUser(r) \/ FindRoles(r)
  /\ IF req'[r].pc = "roles" THEN Reply(r, "created", NoAccount) ELSE Worked(r)

Work(r) == (FindUser(r) \/ CreateUser(r) \/ FindRoles(r)) /\ Worked(r)

Abort(r) == Fail(r) /\ Worked(r)

Finish(r) == Commit(r) /\ Reply(r, "created", req[r].account)

\* The connections of a replica end with it.
Stop(p) ==
  /\ Crash(p)
  /\ attempt' = [r \in Requests |-> IF req[r].replica = p /\ attempt[r] = "waiting"
                                    THEN "503" ELSE attempt[r]]
  /\ UNCHANGED made

RegNext ==
  \/ \E p \in Replicas : (Boot(p) /\ UNCHANGED <<attempt, made>>) \/ Stop(p)
  \/ \E r \in Requests :
       \/ \E p \in Replicas, a \in Accounts, asked \in Asks : Post(r, p, a, asked)
       \/ Unreachable(r) \/ Deliver(r) \/ Lose(r) \/ Timeout(r)
       \/ Work(r) \/ Abort(r) \/ Finish(r)

RegSpec == RegInit /\ [][RegNext]_regVars

\* The fairness of Accounts; none is asked of the gateway.
RegFairSpec ==
  /\ RegSpec
  /\ \A r \in Requests : /\ WF_regVars(Work(r) \/ Finish(r))
                         /\ SF_regVars(Work(r) /\ CreateUser(r))
--------------------------------------------------------------------------------
RegTypeOK ==
  /\ TypeOK
  /\ attempt \in [Requests -> Stages \cup Statuses]
  /\ made \in [Requests -> Accounts \cup {NoAccount}]

\* What a client may conclude from its status.  Told 201, there is an account,
\* which this attempt created and no other; told 500, this attempt has created
\* nothing and will not.  Told 408 or 503, it may have created the account or
\* be about to, and a second attempt is told 500 for the client's own account.
ToldTheTruth == \A r \in Requests :
  /\ attempt[r] = "201" =>
       made[r] \in users /\ \A q \in Requests : made[q] = made[r] => q = r
  /\ attempt[r] = "500" => made[r] = NoAccount /\ req[r].pc = "idle"

\* What a client knows at a stage of its attempt, or from its status.
Known(stage) ==
  CASE stage = "unsent" -> "nothing"
    [] stage \in {"waiting", "created", "refused"} -> "waits"
    [] stage = "201" -> "created"
    [] stage = "500" -> "refused"
    [] stage \in {"408", "503"} -> "unknown"

Open == [r \in Requests |-> req[r].account]
Knows == [r \in Requests |-> Known(attempt[r])]

Enrol == INSTANCE Enrolment WITH Attempts <- Requests, open <- Open, told <- Knows

\* What registration promises, whatever replicas crash, replies are lost and
\* clients try again: an account is made once, by one attempt that is still
\* open, and what its client is told has become of it.
EnrolSpec == Enrol!Spec
================================================================================
