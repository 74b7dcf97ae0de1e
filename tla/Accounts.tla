--------------------------------- MODULE Accounts ---------------------------------
(***************************************************************************)
(* The accounts of the auth-service: the system roles that every replica   *)
(* creates while it starts, and the registrations that use them.           *)
(*                                                                         *)
(* A replica serves requests when its onModuleInit is over.  It looks for  *)
(* each default role and creates the ones it does not find, one statement  *)
(* after another; the unique key of a role does not bind the system roles, *)
(* whose tenant is null.  A registration is one transaction at Read        *)
(* Committed: what it writes is seen by others when it commits.            *)
(***************************************************************************)
EXTENDS Integers, Sequences, FiniteSets

CONSTANTS
  Replicas,      \* processes of the auth-service
  Requests,      \* slots for Register requests in flight
  Accounts,      \* pairs of a tenant and an e-mail address
  DefaultRoles,  \* the names of the default roles, in their order
  Employee,      \* the name of the role for those who ask for none
  Asks,          \* the sets of role names that clients ask for
  NoReplica, NoAccount

Names == {DefaultRoles[i] : i \in DOMAIN DefaultRoles}

ASSUME RolesAssumption == DefaultRoles \in Seq(Names) /\ Employee \in Names
ASSUME AsksAssumption == IsFiniteSet(UNION Asks)
ASSUME NoneAssumption == NoReplica \notin Replicas /\ NoAccount \notin Accounts

VARIABLES
  roles,     \* the rows of the roles; no code path deletes or renames one
  boot,      \* of each replica: where its onModuleInit is
  users,     \* the accounts that have a row
  userRoles, \* the rows that join them to roles
  req,       \* registrations in flight
  answers,   \* history: the registrations answered with success
  raced      \* history: two replicas have been creating roles at once

vars == <<roles, boot, users, userRoles, req, answers, raced>>
--------------------------------------------------------------------------------
\* A system role is known by its name and by the replica that created it, which
\* never creates it again.
RoleRow == [name : Names, by : Replicas]

RolesNamed(names) == {row \in roles : row.name \in names}

Down == [pc |-> "down", i |-> 1]
Idle == [pc |-> "idle", replica |-> NoReplica, account |-> NoAccount,
         asked |-> {}, ids |-> {}]

Init ==
  /\ roles = {} /\ users = {} /\ userRoles = {}
  /\ boot = [p \in Replicas |-> Down]
  /\ req = [r \in Requests |-> Idle]
  /\ answers = 0 /\ raced = FALSE

Tables == <<users, userRoles, req, answers>>
--------------------------------------------------------------------------------
(* onModuleInit: createDefaultSystemRoles.                                  *)

Booting(p) == boot[p].pc \in {"find", "create"}

BootStart(p) ==
  /\ boot[p].pc = "down"
  /\ boot' = [boot EXCEPT ![p] = [pc |-> "find", i |-> 1]]
  /\ raced' = (raced \/ \E q \in Replicas : Booting(q))
  /\ UNCHANGED <<roles, Tables>>

\* Mutant: one step too many.
Onward_Late(i) == IF i > Len(DefaultRoles) THEN [pc |-> "up", i |-> i]
                  ELSE [pc |-> "find", i |-> i + 1]

\* What follows the role at i.
Onward(i) == IF i = Len(DefaultRoles) THEN [pc |-> "up", i |-> i]
             ELSE [pc |-> "find", i |-> i + 1]

\* Mutant: where the first role is, the others are taken to be.
BootFind_FirstOnly(p) ==
  /\ boot[p].pc = "find"
  /\ boot' = [boot EXCEPT ![p] = IF RolesNamed({DefaultRoles[@.i]}) = {}
                                 THEN [@ EXCEPT !.pc = "create"]
                                 ELSE [@ EXCEPT !.pc = "up"]]
  /\ UNCHANGED <<roles, Tables, raced>>

\* Mutant: the roles are created without a look.
BootFind_NoLook(p) ==
  /\ boot[p].pc = "find"
  /\ boot' = [boot EXCEPT ![p].pc = "create"]
  /\ UNCHANGED <<roles, Tables, raced>>

BootFind(p) ==
  /\ boot[p].pc = "find"
  /\ boot' = [boot EXCEPT ![p] = IF RolesNamed({DefaultRoles[@.i]}) = {}
                                 THEN [@ EXCEPT !.pc = "create"]
                                 ELSE Onward(@.i)]
  /\ UNCHANGED <<roles, Tables, raced>>

BootCreate(p) ==
  /\ boot[p].pc = "create"
  /\ roles' = roles \cup {[name |-> DefaultRoles[boot[p].i], by |-> p]}
  /\ boot' = [boot EXCEPT ![p] = Onward(@.i)]
  /\ UNCHANGED <<Tables, raced>>

\* The process ends; its transactions are rolled back.
Crash(p) ==
  /\ boot[p].pc # "down"
  /\ boot' = [boot EXCEPT ![p] = Down]
  /\ req' = [r \in Requests |-> IF req[r].replica = p THEN Idle ELSE req[r]]
  /\ UNCHANGED <<roles, users, userRoles, answers, raced>>
--------------------------------------------------------------------------------
(* register                                                                 *)

Catalogue == <<roles, boot, raced>>

Move(r, next) ==
  /\ req' = [req EXCEPT ![r] = next]
  /\ UNCHANGED <<Catalogue, users, userRoles, answers>>

\* The password has passed validatePasswordStrength.
RegisterStart(r, p, a, asked) ==
  /\ req[r] = Idle /\ boot[p].pc = "up"
  /\ Move(r, [pc |-> "find", replica |-> p, account |-> a, asked |-> asked, ids |-> {}])

\* Mutant: an address that is taken is looked up again, not refused.
FindUser_Retry(r) ==
  /\ req[r].pc = "find"
  /\ \/ req[r].account \in users /\ Move(r, req[r])
     \/ /\ req[r].account \notin users
        /\ Move(r, [req[r] EXCEPT !.pc = "create"])

\* createUser: findByEmail, and then hashPassword.
FindUser(r) ==
  /\ req[r].pc = "find"
  /\ \/ /\ req[r].account \in users
        /\ Move(r, Idle)
     \/ /\ req[r].account \notin users
        /\ Move(r, [req[r] EXCEPT !.pc = "create"])

\* The transaction of q has inserted the row of a user and not yet committed.
Holds(q) == req[q].pc \in {"roles", "commit"}

\* Mutant: no unique key, the earlier look-up has to do.
CreateUser_NotUnique(r) ==
  /\ req[r].pc = "create"
  /\ Move(r, [req[r] EXCEPT !.pc = "roles"])

\* Mutant: the row is inserted on the connection outside the transaction.
CreateUser_NoTransaction(r) ==
  /\ req[r].pc = "create"
  /\ req[r].account \notin users
  /\ users' = users \cup {req[r].account}
  /\ req' = [req EXCEPT ![r].pc = "roles"]
  /\ UNCHANGED <<Catalogue, userRoles, answers>>

\* The insert waits for a transaction that has inserted the same key, and fails
\* when that one, or another, has committed it.
CreateUser(r) ==
  /\ req[r].pc = "create"
  /\ \A q \in Requests : Holds(q) => req[q].account # req[r].account
  /\ \/ /\ req[r].account \in users
        /\ Move(r, Idle)
     \/ /\ req[r].account \notin users
        /\ Move(r, [req[r] EXCEPT !.pc = "roles"])

\* getRoleIdsByNames, or findRoleByName of the default: the first row that the
\* database returns.  Names without a role are passed over, if one has a role.
FindRoles(r) ==
  /\ req[r].pc = "roles"
  /\ LET named == RolesNamed(req[r].asked)
         default == RolesNamed({Employee})
     IN  \/ /\ req[r].asked # {} /\ named = {}
            /\ Move(r, Idle)
         \/ /\ req[r].asked # {} /\ named # {}
            /\ Move(r, [req[r] EXCEPT !.pc = "commit", !.asked = {}, !.ids = named])
         \/ /\ req[r].asked = {} /\ default = {}
            /\ Move(r, [req[r] EXCEPT !.pc = "commit"])
         \/ /\ req[r].asked = {}
            /\ \E row \in default :
                 Move(r, [req[r] EXCEPT !.pc = "commit", !.ids = {row}])

\* assignRoles, and the end of the transaction.
Commit(r) ==
  /\ req[r].pc = "commit"
  /\ users' = users \cup {req[r].account}
  /\ userRoles' = userRoles \cup {[account |-> req[r].account, role |-> id] : id \in req[r].ids}
  /\ req' = [req EXCEPT ![r] = Idle]
  /\ answers' = answers + 1
  /\ UNCHANGED Catalogue

\* A statement fails, or the transaction takes longer than Prisma allows it.
Fail(r) == req[r].pc # "idle" /\ Move(r, Idle)

Boot(p) == BootStart(p) \/ BootFind(p) \/ BootCreate(p)

Register(r) == FindUser(r) \/ CreateUser(r) \/ FindRoles(r) \/ Commit(r)

Next ==
  \/ \E p \in Replicas : Boot(p) \/ Crash(p)
  \/ \E r \in Requests :
       \/ \E p \in Replicas, a \in Accounts, asked \in Asks :
            RegisterStart(r, p, a, asked)
       \/ Register(r) \/ Fail(r)

Spec == Init /\ [][Next]_vars

\* The database answers the statements of a registration.  An insert that waits
\* for a competitor gets its turn, however many competitors take theirs before.
FairSpec == Spec /\ \A r \in Requests : WF_vars(Register(r)) /\ SF_vars(CreateUser(r))
--------------------------------------------------------------------------------
TypeOK ==
  /\ roles \subseteq RoleRow
  /\ boot \in [Replicas -> [pc : {"down", "find", "create", "up"}, i : DOMAIN DefaultRoles]]
  /\ users \subseteq Accounts
  /\ userRoles \subseteq [account : users, role : roles]
  /\ req \in [Requests -> [pc : {"idle", "find", "create", "roles", "commit"},
                           replica : Replicas \cup {NoReplica},
                           account : Accounts \cup {NoAccount},
                           asked : Asks \cup {{}}, ids : SUBSET roles]]
  /\ answers \in Nat /\ raced \in BOOLEAN

\* A replica that serves requests finds every default role there, also when
\* the replica that was creating them has stopped half-way.
UpHasRoles == \A p \in Replicas : boot[p].pc = "up" =>
  \A n \in Names : RolesNamed({n}) # {}

\* Nobody has an account without a role: the user and its roles are one
\* transaction, and the roles were there before the first registration.
UsersHaveRoles == \A a \in users : \E ur \in userRoles : ur.account = a

\* Registrations that compete for an e-mail address: one is answered with
\* success, the others are refused.
OneAnswerPerUser == Cardinality(users) = answers

\* As long as no two replicas have been creating roles at once, a default role
\* is there once.  Two that start together can each create it, since the
\* unique key of a role does not bind a role without a tenant.
AloneRolesOnce == ~raced => \A x, y \in roles : x.name = y.name => x = y

\* What replicas and registrations achieve together, whichever of them crash,
\* fail and compete: the roles are complete where requests are served and single
\* unless replicas raced, and an account is given out once and has roles.
AccountsSound == UpHasRoles /\ AloneRolesOnce /\ UsersHaveRoles /\ OneAnswerPerUser

\* Every registration comes to an end: waiting for a competitor that holds the
\* same key is never waiting for ever.
EveryRegistrationEnds == \A r \in Requests : req[r].pc # "idle" ~> req[r].pc = "idle"
================================================================================
