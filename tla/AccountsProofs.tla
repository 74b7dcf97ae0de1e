----------------------------- MODULE AccountsProofs -----------------------------
(***************************************************************************)
(* The safety of Accounts, and of Registration which composes it with its  *)
(* clients, for any replicas, requests, addresses and default roles.       *)
(*                                                                         *)
(* The invariant IInv of Accounts has, beside the types, what the replicas *)
(* know of the roles (RoleInv), what a registration knows of the tables    *)
(* (Local), and that an address is held by one transaction at a time       *)
(* (HoldInv).  Every step of Registration is one of Accounts or leaves it  *)
(* alone, so it has IInv too, and LinkInv says what an attempt knows.      *)
(***************************************************************************)
EXTENDS Registration, FiniteSetTheorems, TLAPS

Present(rows, n) == \E row \in rows : row.name = n

\* A replica has seen to the roles before the one it is at.  As long as only
\* one replica at a time creates roles, the role it is about to create is absent.
RoleInv ==
  /\ \A p \in Replicas : Booting(p) =>
       \A j \in DOMAIN DefaultRoles : j < boot[p].i => Present(roles, DefaultRoles[j])
  /\ \A p \in Replicas : boot[p].pc = "up" => \A n \in Names : Present(roles, n)
  /\ ~raced => \A p, q \in Replicas : Booting(p) /\ Booting(q) => p = q
  /\ ~raced => \A p \in Replicas : boot[p].pc = "create" => ~Present(roles, DefaultRoles[boot[p].i])
  /\ AloneRolesOnce

UserInv == IsFiniteSet(users) /\ OneAnswerPerUser /\ UsersHaveRoles

\* A slot that is not in use is empty.  A registration runs in a replica that is up; it has found roles when it has
\* looked for them; and once it has inserted its user nobody else commits it.
Local(q) ==
  /\ q.pc = "idle" => q.account = NoAccount /\ q.replica = NoReplica
  /\ q.pc # "idle" => /\ q.replica \in Replicas /\ q.account \in Accounts
                      /\ boot[q.replica].pc = "up"
  /\ q.pc = "commit" => q.ids # {}
  /\ q.pc \in {"roles", "commit"} => q.account \notin users

HoldInv == \A q, r \in Requests :
  Holds(q) /\ Holds(r) /\ req[q].account = req[r].account => q = r

IInv == TypeOK /\ RoleInv /\ UserInv /\ (\A r \in Requests : Local(req[r])) /\ HoldInv
--------------------------------------------------------------------------------
\* The default roles are a sequence that is not empty.
LEMMA Defaults ==
  /\ Len(DefaultRoles) \in Nat \ {0}
  /\ DOMAIN DefaultRoles = 1 .. Len(DefaultRoles)
  /\ \A i \in DOMAIN DefaultRoles : DefaultRoles[i] \in Names
  /\ \A n \in Names : \E i \in DOMAIN DefaultRoles : n = DefaultRoles[i]
<1>1. Len(DefaultRoles) \in Nat /\ DOMAIN DefaultRoles = 1 .. Len(DefaultRoles)
  BY RolesAssumption
<1>2. \E i \in DOMAIN DefaultRoles : Employee = DefaultRoles[i]
  BY RolesAssumption DEF Names
<1> QED
  BY <1>1, <1>2 DEF Names

\* What follows a role is the next one, or the end.
LEMMA OnwardIs ==
  ASSUME NEW i \in DOMAIN DefaultRoles
  PROVE  \/ /\ i = Len(DefaultRoles) /\ Onward(i) = [pc |-> "up", i |-> i]
         \/ /\ i # Len(DefaultRoles) /\ i + 1 \in DOMAIN DefaultRoles
            /\ Onward(i) = [pc |-> "find", i |-> i + 1]
BY Defaults DEF Onward

\* A registration that is not there knows nothing, so nothing false.
LEMMA IdleIsLocal == Local(Idle)
BY DEF Local, Idle

\* No roles, no users, no replicas: the invariant holds.
LEMMA InitIInv == Init => IInv
<1> SUFFICES ASSUME Init PROVE IInv
  OBVIOUS
<1>1. TypeOK
  <2>1. boot \in [Replicas -> [pc : {"down", "find", "create", "up"}, i : DOMAIN DefaultRoles]]
    <3>1. 1 \in DOMAIN DefaultRoles
      BY Defaults
    <3> QED
      BY <3>1 DEF Init, Down
  <2>2. req \in [Requests -> [pc : {"idle", "find", "create", "roles", "commit"},
                           replica : Replicas \cup {NoReplica},
                           account : Accounts \cup {NoAccount},
                           asked : Asks \cup {{}}, ids : SUBSET roles]]
    BY DEF Init, Idle
  <2> QED
    BY <2>1, <2>2 DEF Init, TypeOK
<1>2. RoleInv
  BY DEF Init, RoleInv, AloneRolesOnce, Booting, Down
<1>3. UserInv
  BY FS_EmptySet DEF Init, UserInv, OneAnswerPerUser, UsersHaveRoles
<1>4. (\A r \in Requests : Local(req[r])) /\ HoldInv
  BY IdleIsLocal DEF Init, HoldInv, Holds, Idle
<1> QED
  BY <1>1, <1>2, <1>3, <1>4 DEF IInv
--------------------------------------------------------------------------------
(* The steps of the replicas.                                               *)

\* A replica that starts: from now on it may not be alone.
LEMMA BootStartIInv ==
  ASSUME IInv, NEW p \in Replicas, BootStart(p) PROVE IInv'
<1> USE DEF BootStart, Tables
<1>1. /\ boot[p].pc = "down" /\ boot' = [boot EXCEPT ![p] = [pc |-> "find", i |-> 1]]
      /\ raced \in BOOLEAN /\ boot \in [Replicas -> [pc : {"down", "find", "create", "up"}, i : DOMAIN DefaultRoles]]
  BY DEF IInv, TypeOK
<1>2. TypeOK'
  BY <1>1, Defaults DEF IInv, TypeOK
<1>3. RoleInv'
  <2>1. roles' = roles
    OBVIOUS
  <2>2. \A q \in Replicas : q # p => boot'[q] = boot[q]
    BY <1>1
  <2>3. boot'[p] = [pc |-> "find", i |-> 1]
    BY <1>1
  <2>4. ASSUME NEW q \in Replicas, Booting(q)', NEW j \in DOMAIN DefaultRoles, j < boot'[q].i
        PROVE  Present(roles', DefaultRoles[j])
    BY <2>1, <2>2, <2>3, <2>4, Defaults DEF IInv, RoleInv, Booting
  <2>5. \A q \in Replicas : boot'[q].pc = "up" => \A n \in Names : Present(roles', n)
    BY <1>1, <2>1, <2>2, <2>3 DEF IInv, RoleInv
  <2>6. raced' \/ \A q, s \in Replicas : Booting(q)' /\ Booting(s)' => q = s
    <3>1. SUFFICES ASSUME ~raced' PROVE \A q \in Replicas : Booting(q)' => q = p
      OBVIOUS
    <3>2. \A q \in Replicas : ~Booting(q)
      BY <1>1, <3>1
    <3> QED
      BY <2>2, <3>2 DEF Booting
  <2>7. raced' \/ \A q \in Replicas : boot'[q].pc = "create" => ~Present(roles', DefaultRoles[boot'[q].i])
    BY <1>1, <2>1, <2>2, <2>3 DEF IInv, RoleInv
  <2>8. AloneRolesOnce'
    BY <1>1 DEF IInv, RoleInv, AloneRolesOnce
  <2> QED
    BY <2>4, <2>5, <2>6, <2>7, <2>8 DEF RoleInv
<1>4. UserInv' /\ HoldInv'
  BY DEF IInv, UserInv, OneAnswerPerUser, UsersHaveRoles, HoldInv, Holds
<1>5. \A r \in Requests : Local(req[r])'
  BY <1>1 DEF IInv, Local
<1> QED
  BY <1>2, <1>3, <1>4, <1>5 DEF IInv

\* A replica that goes on from a role which is present now.
LEMMA OnwardIInv ==
  ASSUME IInv, NEW p \in Replicas, Booting(p),
         boot' = [boot EXCEPT ![p] = Onward(boot[p].i)],
         roles \subseteq roles', roles' \subseteq RoleRow,
         Present(roles', DefaultRoles[boot[p].i]),
         UNCHANGED <<Tables, raced>>,
         AloneRolesOnce'
  PROVE  IInv'
<1> DEFINE i == boot[p].i
<1> USE DEF Tables
<1>1. /\ i \in DOMAIN DefaultRoles
      /\ boot \in [Replicas -> [pc : {"down", "find", "create", "up"}, i : DOMAIN DefaultRoles]]
      /\ raced \in BOOLEAN
  BY DEF IInv, TypeOK
<1>2. \A q \in Replicas : boot'[q] = IF q = p THEN Onward(i) ELSE boot[q]
  BY <1>1
<1>3. TypeOK'
  <2>1. Onward(i) \in [pc : {"down", "find", "create", "up"}, i : DOMAIN DefaultRoles]
    BY <1>1, OnwardIs
  <2>2. boot' \in [Replicas -> [pc : {"down", "find", "create", "up"}, i : DOMAIN DefaultRoles]]
    BY <1>1, <2>1
  <2>3. /\ userRoles' \subseteq [account : users', role : roles']
        /\ req' \in [Requests -> [pc : {"idle", "find", "create", "roles", "commit"},
                           replica : Replicas \cup {NoReplica},
                           account : Accounts \cup {NoAccount},
                           asked : Asks \cup {{}}, ids : SUBSET roles']]
    BY DEF IInv, TypeOK
  <2> QED
    BY <2>2, <2>3 DEF IInv, TypeOK
<1>4. \A n : Present(roles, n) => Present(roles', n)
  BY DEF Present
<1>5. RoleInv'
  <2>1. ASSUME NEW q \in Replicas, Booting(q)', NEW j \in DOMAIN DefaultRoles, j < boot'[q].i
        PROVE  Present(roles', DefaultRoles[j])
    <3>1. CASE q # p
      BY <3>1, <2>1, <1>2, <1>4 DEF IInv, RoleInv, Booting
    <3>2. CASE q = p
      <4>0. boot'[q] = Onward(i) /\ Onward(i).pc # "up" /\ j < Onward(i).i
        BY <3>2, <2>1, <1>2 DEF Booting
      <4>1. j < i \/ j = i
        BY <4>0, <2>1, <1>1, OnwardIs, Defaults
      <4> QED
        BY <4>1, <1>4, <1>1 DEF IInv, RoleInv
    <3> QED
      BY <3>1, <3>2
  <2>2. ASSUME NEW q \in Replicas, boot'[q].pc = "up", NEW n \in Names
        PROVE  Present(roles', n)
    <3>1. CASE q # p
      BY <3>1, <2>2, <1>2, <1>4 DEF IInv, RoleInv, Present
    <3>2. CASE q = p
      <4>1. i = Len(DefaultRoles)
        BY <3>2, <2>2, <1>1, <1>2, OnwardIs
      <4>2. PICK j \in DOMAIN DefaultRoles : n = DefaultRoles[j]
        BY Defaults
      <4>3. j < i \/ j = i
        BY <4>1, <4>2, Defaults
      <4> QED
        BY <4>2, <4>3, <1>4, <1>1 DEF IInv, RoleInv
    <3> QED
      BY <3>1, <3>2
  <2>3. raced' \/ \A q, s \in Replicas : Booting(q)' /\ Booting(s)' => q = s
    BY <1>1, <1>2 DEF IInv, RoleInv, Booting
  <2>4. ASSUME ~raced', NEW q \in Replicas, boot'[q].pc = "create"
        PROVE  ~Present(roles', DefaultRoles[boot'[q].i])
    <3>1. q # p
      BY <2>4, <1>1, <1>2, OnwardIs
    <3>2. Booting(q) /\ ~raced
      BY <3>1, <2>4, <1>2 DEF Booting
    <3> QED
      BY <3>1, <3>2 DEF IInv, RoleInv
  <2> QED
    BY <2>1, <2>2, <2>3, <2>4 DEF RoleInv, Present
<1>6. UserInv' /\ HoldInv'
  BY DEF IInv, UserInv, OneAnswerPerUser, UsersHaveRoles, HoldInv, Holds
<1>7. \A r \in Requests : Local(req[r])'
  <2>1. boot[p].pc # "up"
    BY DEF Booting
  <2> QED
    BY <2>1, <1>2 DEF IInv, Local
<1> QED
  BY <1>3, <1>5, <1>6, <1>7 DEF IInv

\* A replica that looks for its role.
LEMMA BootFindIInv ==
  ASSUME IInv, NEW p \in Replicas, BootFind(p) PROVE IInv'
<1> DEFINE i == boot[p].i
<1> USE DEF BootFind
<1>1. /\ i \in DOMAIN DefaultRoles
      /\ boot \in [Replicas -> [pc : {"down", "find", "create", "up"}, i : DOMAIN DefaultRoles]]
      /\ raced \in BOOLEAN /\ roles \subseteq RoleRow
  BY DEF IInv, TypeOK
<1>2. CASE Present(roles, DefaultRoles[i])
  <2>1. boot' = [boot EXCEPT ![p] = Onward(boot[p].i)]
    BY <1>1, <1>2 DEF Present, RolesNamed
  <2>2. Booting(p) /\ Present(roles', DefaultRoles[i]) /\ AloneRolesOnce'
    BY <1>2 DEF Booting, Present, IInv, RoleInv, AloneRolesOnce
  <2> QED
    BY <1>1, <2>1, <2>2, OnwardIInv
<1>3. CASE ~Present(roles, DefaultRoles[i])
  <2>1. boot' = [boot EXCEPT ![p] = [boot[p] EXCEPT !.pc = "create"]]
    BY <1>1, <1>3 DEF Present, RolesNamed
  <2>2. /\ \A q \in Replicas : q # p => boot'[q] = boot[q]
        /\ boot'[p].pc = "create" /\ boot'[p].i = i
        /\ boot' \in [Replicas -> [pc : {"down", "find", "create", "up"}, i : DOMAIN DefaultRoles]]
    <3> DEFINE next == [boot[p] EXCEPT !.pc = "create"]
    <3>1. /\ next \in [pc : {"down", "find", "create", "up"}, i : DOMAIN DefaultRoles]
          /\ next.pc = "create" /\ next.i = i
      BY <1>1
    <3>2. boot' = [boot EXCEPT ![p] = next]
      BY <2>1
    <3> HIDE DEF next, BootFind
    <3> QED
      BY <1>1, <3>1, <3>2
  <2>3. TypeOK'
    <3>1. UNCHANGED <<roles, users, userRoles, req, answers, raced>>
      BY DEF Tables
    <3> QED
      BY <2>2, <3>1 DEF IInv, TypeOK
  <2>4. roles' = roles
    OBVIOUS
  <2>5. \A q \in Replicas : Booting(q)' <=> Booting(q)
    BY <2>2 DEF Booting
  <2>6. RoleInv'
    <3>0. \A q \in Replicas : boot'[q].i = boot[q].i
      BY <2>2
    <3>1. \A q \in Replicas : Booting(q)' =>
            \A j \in DOMAIN DefaultRoles : j < boot'[q].i => Present(roles', DefaultRoles[j])
      BY <2>4, <2>5, <3>0 DEF IInv, RoleInv
    <3>2. \A q \in Replicas : boot'[q].pc = "up" => \A n \in Names : Present(roles', n)
      BY <2>2, <2>4 DEF IInv, RoleInv, Present
    <3>3. raced' \/ \A q, s \in Replicas : Booting(q)' /\ Booting(s)' => q = s
      BY <2>5 DEF IInv, RoleInv
    <3>4. raced' \/ \A q \in Replicas : boot'[q].pc = "create" => ~Present(roles', DefaultRoles[boot'[q].i])
      <4>1. \A q \in Replicas : boot'[q].pc = "create" => q = p \/ boot[q].pc = "create"
        BY <2>2
      <4> QED
        BY <1>3, <2>4, <3>0, <4>1 DEF IInv, RoleInv
    <3> QED
      BY <3>1, <3>2, <3>3, <3>4 DEF IInv, RoleInv, AloneRolesOnce
  <2>7. UserInv' /\ HoldInv'
    BY DEF Tables, IInv, UserInv, OneAnswerPerUser, UsersHaveRoles, HoldInv, Holds
  <2>8. \A r \in Requests : Local(req[r])'
    BY <2>2 DEF Tables, IInv, Local
  <2> QED
    BY <2>3, <2>6, <2>7, <2>8 DEF IInv
<1> QED
  BY <1>2, <1>3

\* A replica that creates its role: the only one to do so, if none has raced it.
LEMMA BootCreateIInv ==
  ASSUME IInv, NEW p \in Replicas, BootCreate(p) PROVE IInv'
<1> DEFINE n == DefaultRoles[boot[p].i]
           new == [name |-> n, by |-> p]
<1> USE DEF BootCreate
<1>1. /\ roles' = roles \cup {new} /\ roles \subseteq RoleRow
      /\ new \in RoleRow
  BY Defaults DEF IInv, TypeOK, RoleRow
<1>2. Booting(p) /\ Present(roles', n)
  BY <1>1 DEF Booting, Present
<1>3. AloneRolesOnce'
  <2>1. SUFFICES ASSUME ~raced, NEW x \in roles', NEW y \in roles', x.name = y.name
                 PROVE  x = y
    BY DEF AloneRolesOnce
  <2>2. \A row \in roles : row.name # n
    BY <2>1 DEF IInv, RoleInv, Present
  <2> QED
    BY <1>1, <2>1, <2>2 DEF IInv, RoleInv, AloneRolesOnce
<1> QED
  BY <1>1, <1>2, <1>3, OnwardIInv

\* A replica that stops takes its registrations with it.
LEMMA CrashIInv ==
  ASSUME IInv, NEW p \in Replicas, Crash(p) PROVE IInv'
<1> USE DEF Crash
<1>1. /\ boot \in [Replicas -> [pc : {"down", "find", "create", "up"}, i : DOMAIN DefaultRoles]]
      /\ \A q \in Replicas : boot'[q] = IF q = p THEN Down ELSE boot[q]
      /\ \A r \in Requests : req'[r] = IF req[r].replica = p THEN Idle ELSE req[r]
  BY DEF IInv, TypeOK
<1>2. TypeOK'
  <2>1. Down \in [pc : {"down", "find", "create", "up"}, i : DOMAIN DefaultRoles]
    BY Defaults DEF Down
  <2>2. Idle \in [pc : {"idle", "find", "create", "roles", "commit"},
                  replica : Replicas \cup {NoReplica}, account : Accounts \cup {NoAccount},
                  asked : Asks \cup {{}}, ids : SUBSET roles]
    BY DEF Idle
  <2> QED
    BY <1>1, <2>1, <2>2 DEF IInv, TypeOK
<1>3. RoleInv'
  <2>1. roles' = roles
    OBVIOUS
  <2>2. \A q \in Replicas : (Booting(q)' => q # p) /\ (boot'[q].pc \in {"up", "create"} => q # p)
    BY <1>1 DEF Booting, Down
  <2>3. \A q \in Replicas : Booting(q)' =>
          \A j \in DOMAIN DefaultRoles : j < boot'[q].i => Present(roles', DefaultRoles[j])
    BY <1>1, <2>1, <2>2 DEF IInv, RoleInv, Booting
  <2>4. \A q \in Replicas : boot'[q].pc = "up" => \A n \in Names : Present(roles', n)
    BY <1>1, <2>1, <2>2 DEF IInv, RoleInv, Present
  <2>5. raced' \/ \A q, s \in Replicas : Booting(q)' /\ Booting(s)' => q = s
    BY <1>1, <2>2 DEF IInv, RoleInv, Booting
  <2>6. raced' \/ \A q \in Replicas : boot'[q].pc = "create" => ~Present(roles', DefaultRoles[boot'[q].i])
    BY <1>1, <2>1, <2>2 DEF IInv, RoleInv
  <2> QED
    BY <2>3, <2>4, <2>5, <2>6 DEF IInv, RoleInv, AloneRolesOnce
<1>4. UserInv'
  BY DEF IInv, UserInv, OneAnswerPerUser, UsersHaveRoles
<1>5. HoldInv'
  BY <1>1 DEF IInv, HoldInv, Holds, Idle
<1>6. ASSUME NEW r \in Requests PROVE Local(req[r])'
  <2>1. CASE req[r].replica = p
    <3>1. req'[r] = Idle
      BY <1>1, <2>1
    <3> QED
      BY <3>1 DEF Local, Idle
  <2>2. CASE req[r].replica # p
    <3>1. req'[r] = req[r] /\ Local(req[r]) /\ users' = users
      BY <1>1, <2>2 DEF IInv
    <3>2. req[r].pc # "idle" => boot'[req[r].replica] = boot[req[r].replica]
      BY <1>1, <2>2, <3>1 DEF Local
    <3> QED
      BY <3>1, <3>2 DEF Local
  <2> QED
    BY <2>1, <2>2
<1> QED
  BY <1>2, <1>3, <1>4, <1>5, <1>6 DEF IInv
--------------------------------------------------------------------------------
(* The steps of the registrations.                                          *)

RequestType == [pc : {"idle", "find", "create", "roles", "commit"},
                replica : Replicas \cup {NoReplica}, account : Accounts \cup {NoAccount},
                asked : Asks \cup {{}}, ids : SUBSET roles]

\* A step that changes only what the registration knows.
LEMMA MoveIInv ==
  ASSUME IInv, NEW r \in Requests, NEW next \in RequestType, Move(r, next), Local(next),
         next.pc \in {"roles", "commit"} => \A q \in Requests :
           q # r /\ Holds(q) => req[q].account # next.account
  PROVE  IInv'
<1> USE DEF Move, Catalogue
<1>1. /\ req \in [Requests -> RequestType]
      /\ req' = [req EXCEPT ![r] = next]
  BY DEF IInv, TypeOK, RequestType
<1>2. TypeOK'
  BY <1>1 DEF IInv, TypeOK, RequestType
<1>3. RoleInv' /\ UserInv'
  BY DEF IInv, RoleInv, AloneRolesOnce, Present, Booting,
         UserInv, OneAnswerPerUser, UsersHaveRoles
<1>4. HoldInv'
  BY <1>1 DEF IInv, HoldInv, Holds
<1>5. \A q \in Requests : Local(req[q])'
  <2>1. \A q \in Requests : Local(req'[q])
    BY <1>1 DEF IInv
  <2> QED
    BY <2>1 DEF Local
<1> QED
  BY <1>2, <1>3, <1>4, <1>5 DEF IInv

\* Every step of a registration but its commit.
LEMMA RegisterIInv ==
  ASSUME IInv, NEW r \in Requests,
         \/ \E p \in Replicas, a \in Accounts, asked \in Asks : RegisterStart(r, p, a, asked)
         \/ FindUser(r) \/ CreateUser(r) \/ FindRoles(r) \/ Fail(r)
  PROVE  IInv'
<1>0. /\ req[r] \in RequestType /\ Local(req[r])
      /\ Idle \in RequestType /\ Local(Idle) /\ Idle.pc = "idle"
  BY IdleIsLocal DEF IInv, TypeOK, RequestType, Idle
<1>1. ASSUME Move(r, Idle) PROVE IInv'
  BY <1>0, <1>1, MoveIInv
<1>2. ASSUME NEW p \in Replicas, NEW a \in Accounts, NEW asked \in Asks,
             RegisterStart(r, p, a, asked)
      PROVE  IInv'
  <2> DEFINE next == [pc |-> "find", replica |-> p, account |-> a, asked |-> asked, ids |-> {}]
  <2>1. next \in RequestType /\ Move(r, next) /\ Local(next)
    BY <1>2 DEF RegisterStart, RequestType, Local
  <2> QED
    BY <2>1, MoveIInv
<1>3. CASE FindUser(r)
  <2> DEFINE next == [req[r] EXCEPT !.pc = "create"]
  <2>1. CASE Move(r, next) /\ req[r].pc = "find"
    <3>1. next \in RequestType /\ Local(next) /\ next.pc = "create"
      BY <1>0, <2>1 DEF RequestType, Local
    <3> QED
      BY <2>1, <3>1, MoveIInv
  <2> QED
    BY <1>1, <1>3, <2>1 DEF FindUser
<1>4. CASE CreateUser(r)
  <2> DEFINE next == [req[r] EXCEPT !.pc = "roles"]
  <2>1. CASE Move(r, next) /\ req[r].account \notin users
    <3>1. next \in RequestType /\ Local(next) /\ next.account = req[r].account
      BY <1>0, <1>4, <2>1 DEF RequestType, Local, CreateUser
    <3> QED
      BY <1>4, <2>1, <3>1, MoveIInv DEF CreateUser
  <2> QED
    BY <1>1, <1>4, <2>1 DEF CreateUser
<1>5. CASE FindRoles(r)
  <2> DEFINE found(asked, ids) == [req[r] EXCEPT !.pc = "commit", !.asked = asked, !.ids = ids]
  <2>0. req[r].pc = "roles" /\ Holds(r)
    BY <1>5 DEF FindRoles, Holds
  <2>1. ASSUME NEW asked \in Asks \cup {{}}, NEW ids \in SUBSET roles, ids # {},
               Move(r, found(asked, ids))
        PROVE  IInv'
    <3>1. /\ found(asked, ids) \in RequestType /\ Local(found(asked, ids))
          /\ found(asked, ids).account = req[r].account
      BY <1>0, <2>0, <2>1 DEF RequestType, Local
    <3>2. \A q \in Requests : q # r /\ Holds(q) => req[q].account # req[r].account
      BY <2>0 DEF IInv, HoldInv
    <3> QED
      BY <2>1, <3>1, <3>2, MoveIInv
  <2>2. /\ RolesNamed({Employee}) # {} /\ RolesNamed({Employee}) \subseteq roles
        /\ RolesNamed(req[r].asked) \subseteq roles
    BY <1>0, <2>0, RolesAssumption DEF Local, IInv, RoleInv, Present, RolesNamed
  <2>3. CASE Move(r, found({}, RolesNamed(req[r].asked))) /\ RolesNamed(req[r].asked) # {}
    BY <2>1, <2>2, <2>3
  <2>4. ASSUME NEW row \in RolesNamed({Employee}),
               Move(r, [req[r] EXCEPT !.pc = "commit", !.ids = {row}])
        PROVE  IInv'
    <3>1. found(req[r].asked, {row}) = [req[r] EXCEPT !.pc = "commit", !.ids = {row}]
      BY <1>0 DEF RequestType
    <3>2. req[r].asked \in Asks \cup {{}} /\ {row} \in SUBSET roles /\ {row} # {}
      BY <1>0, <2>2 DEF RequestType
    <3>3. Move(r, found(req[r].asked, {row}))
      BY <2>4, <3>1
    <3> QED
      BY <2>1, <3>2, <3>3
  <2> QED
    BY <1>1, <1>5, <2>2, <2>3, <2>4 DEF FindRoles
<1>6. CASE Fail(r)
  BY <1>1, <1>6 DEF Fail
<1> QED
  BY <1>2, <1>3, <1>4, <1>5, <1>6

\* A registration that commits adds a user that was not there, with its roles.
LEMMA CommitIInv ==
  ASSUME IInv, NEW r \in Requests, Commit(r) PROVE IInv'
<1> DEFINE a == req[r].account
<1> USE DEF Commit, Catalogue
<1>1. /\ req \in [Requests -> RequestType] /\ Local(req[r]) /\ Holds(r)
      /\ req' = [req EXCEPT ![r] = Idle] /\ req[r].ids \subseteq roles
  BY DEF IInv, TypeOK, RequestType, Holds
<1>2. a \in Accounts /\ a \notin users /\ users' = users \cup {a}
  BY <1>1 DEF Local
<1>3. TypeOK'
  <2>1. Idle \in RequestType
    BY DEF Idle, RequestType
  <2>2. userRoles' \subseteq [account : users', role : roles']
    BY <1>1, <1>2 DEF IInv, TypeOK
  <2>3. answers' \in Nat
    BY DEF IInv, TypeOK
  <2> QED
    BY <1>1, <1>2, <2>1, <2>2, <2>3 DEF IInv, TypeOK, RequestType
<1>4. RoleInv'
  BY DEF IInv, RoleInv, AloneRolesOnce, Present, Booting
<1>5. UserInv'
  <2>1. IsFiniteSet(users') /\ OneAnswerPerUser'
    <3>1. /\ IsFiniteSet(users) /\ Cardinality(users) = answers
          /\ answers' = answers + 1
      BY DEF IInv, UserInv, OneAnswerPerUser
    <3>2. IsFiniteSet(users') /\ Cardinality(users') = Cardinality(users) + 1
      BY <1>2, <3>1, FS_AddElement
    <3> QED
      BY <3>1, <3>2 DEF OneAnswerPerUser
  <2>2. UsersHaveRoles'
    <3>1. PICK id : id \in req[r].ids
      BY <1>1 DEF Local
    <3>2. [account |-> a, role |-> id] \in userRoles'
      BY <3>1
    <3> QED
      BY <1>2, <3>2 DEF IInv, UserInv, UsersHaveRoles
  <2> QED
    BY <2>1, <2>2 DEF UserInv
<1>6. HoldInv'
  BY <1>1 DEF IInv, HoldInv, Holds, Idle
<1>7. ASSUME NEW q \in Requests PROVE Local(req[q])'
  <2>1. CASE q = r
    BY <2>1, <1>1 DEF Local, Idle
  <2>2. CASE q # r
    <3>1. req'[q] = req[q] /\ Local(req[q])
      BY <2>2, <1>1 DEF IInv
    <3>2. Holds(q) => req[q].account # a
      BY <2>2, <1>1 DEF IInv, HoldInv
    <3> QED
      BY <1>2, <3>1, <3>2 DEF Local, Holds
  <2> QED
    BY <2>1, <2>2
<1> QED
  BY <1>3, <1>4, <1>5, <1>6, <1>7 DEF IInv
--------------------------------------------------------------------------------
\* Every step keeps the invariant.
LEMMA NextIInv == IInv /\ [Next]_vars => IInv'
<1> SUFFICES ASSUME IInv, [Next]_vars PROVE IInv'
  OBVIOUS
<1>1. CASE UNCHANGED vars
  BY <1>1 DEF vars, IInv, TypeOK, RoleInv, AloneRolesOnce, Present,
     Booting, UserInv, OneAnswerPerUser, UsersHaveRoles, Local, HoldInv, Holds
<1>2. ASSUME NEW p \in Replicas, Boot(p) \/ Crash(p) PROVE IInv'
  BY <1>2, BootStartIInv, BootFindIInv, BootCreateIInv, CrashIInv DEF Boot
<1>3. ASSUME NEW r \in Requests,
             \/ \E p \in Replicas, a \in Accounts, asked \in Asks : RegisterStart(r, p, a, asked)
             \/ Register(r) \/ Fail(r)
      PROVE  IInv'
  BY <1>3, RegisterIInv, CommitIInv DEF Register
<1> QED
  BY <1>1, <1>2, <1>3 DEF Next

\* The invariant holds for ever.
LEMMA Invariance == Spec => []IInv
BY InitIInv, NextIInv, PTL DEF Spec

\* Types are kept, for any replicas, requests and default roles.
THEOREM TypeCorrect == Spec => []TypeOK
<1>1. IInv => TypeOK
  BY DEF IInv
<1> QED
  BY <1>1, Invariance, PTL

\* What the boots of the replicas achieve together: a replica that serves has
\* all the default roles, and there is one of each if no two boots overlapped.
THEOREM RolesSafe == Spec => [](UpHasRoles /\ AloneRolesOnce)
<1>1. IInv => UpHasRoles /\ AloneRolesOnce
  BY DEF IInv, RoleInv, UpHasRoles, Present, RolesNamed
<1> QED
  BY <1>1, Invariance, PTL

\* Replicas start one after the other.
Rolling == \A p, q \in Replicas : Booting(p) /\ Booting(q) => p = q

\* Each default role is there once.
RolesOnce == \A x, y \in roles : x.name = y.name => x = y

\* Where replicas start one after the other, each default role is there once,
\* however many of them crash between two roles: AloneRolesOnce excepts nothing
\* but what the boots of two replicas that overlap can do.
THEOREM RollingSafe == Spec /\ []Rolling => []RolesOnce
<1> DEFINE NeverRaced == raced = FALSE
<1>1. Init => NeverRaced
  BY DEF Init
<1>2. ASSUME IInv, NeverRaced, Rolling', [Next]_vars PROVE NeverRaced'
  <2>1. ASSUME NEW p \in Replicas, BootStart(p) PROVE raced' = FALSE
    <3>1. boot \in [Replicas -> [pc : {"down", "find", "create", "up"}, i : DOMAIN DefaultRoles]]
      BY <1>2 DEF IInv, TypeOK
    <3>2. boot'[p].pc = "find" /\ \A q \in Replicas \ {p} : boot'[q] = boot[q]
      BY <2>1, <3>1 DEF BootStart
    <3>3. \A q \in Replicas : ~Booting(q)
      BY <1>2, <2>1, <3>2 DEF Rolling, Booting, BootStart
    <3> QED
      BY <1>2, <2>1, <3>3 DEF BootStart
  <2>2. CASE UNCHANGED raced
    BY <1>2, <2>2
  <2> QED
    BY <1>2, <2>1, <2>2 DEF Next, vars, Boot, BootFind, BootCreate, Crash, RegisterStart, Register,
       FindUser, CreateUser, FindRoles, Commit, Fail, Move, Catalogue, Tables
<1>3. NeverRaced /\ UpHasRoles /\ AloneRolesOnce => RolesOnce
  BY DEF AloneRolesOnce, RolesOnce
<1> HIDE DEF NeverRaced
<1> QED
  BY <1>1, <1>2, <1>3, Invariance, RolesSafe, PTL DEF Spec

\* What registrations achieve: an address is given once, and with a role.
THEOREM UsersSafe == Spec => [](UsersHaveRoles /\ OneAnswerPerUser)
<1>1. IInv => UsersHaveRoles /\ OneAnswerPerUser
  BY DEF IInv, UserInv
<1> QED
  BY <1>1, Invariance, PTL
--------------------------------------------------------------------------------
(* The safety under EveryRegistrationEnds.                                  *)

\* How many statements a registration has before it at most.
StatementsLeft(pc) ==
  CASE pc = "find" -> 4 [] pc = "create" -> 3 [] pc = "roles" -> 2 [] pc = "commit" -> 1
    [] pc = "idle" -> 0

\* Each statement takes a registration nearer to its end, and no competitor and
\* no replica takes it back: an insert that has waited does not start anew.
EveryRegistrationNearer == [][\A r \in Requests : req'[r] # req[r] =>
  req[r].pc = "idle" \/ StatementsLeft(req'[r].pc) < StatementsLeft(req[r].pc)]_vars

\* EveryRegistrationNearer holds, for any number of registrations and replicas.
THEOREM NearerSafe == Spec => EveryRegistrationNearer
<1>1. ASSUME IInv, [Next]_vars, NEW r \in Requests, req'[r] # req[r], req[r].pc # "idle"
      PROVE  StatementsLeft(req'[r].pc) < StatementsLeft(req[r].pc)
  <2>0. req \in [Requests -> RequestType] /\ Idle.pc = "idle"
    BY <1>1 DEF IInv, TypeOK, RequestType, Idle
  <2>a. ASSUME NEW q \in Requests, NEW next, Move(q, next)
        PROVE  (q # r => req'[r] = req[r]) /\ (q = r => req'[r] = next)
    BY <2>0, <2>a DEF Move
  <2>1. ASSUME NEW p \in Replicas, Boot(p) \/ Crash(p)
        PROVE  req'[r] = Idle
    BY <1>1, <2>0, <2>1 DEF Boot, BootStart, BootFind, BootCreate, Crash, Tables
  <2>2. ASSUME NEW q \in Requests, NEW p \in Replicas, NEW a \in Accounts, NEW asked \in Asks,
               RegisterStart(q, p, a, asked)
        PROVE  FALSE
    BY <1>1, <2>0, <2>a, <2>2 DEF RegisterStart
  <2>3. ASSUME NEW q \in Requests, Register(q) \/ Fail(q), q # r PROVE FALSE
    <3>1. CASE Commit(q)
      BY <1>1, <2>0, <2>3, <3>1 DEF Commit
    <3> QED
      BY <1>1, <2>a, <2>3, <3>1 DEF Register, FindUser, CreateUser, FindRoles, Fail
  <2>4. req[r] \in RequestType
    BY <2>0
  <2>5. CASE FindUser(r)
    <3>1. [req[r] EXCEPT !.pc = "create"].pc = "create"
      BY <2>4 DEF RequestType
    <3>2. req[r].pc = "find" /\ req'[r].pc \in {"idle", "create"}
      BY <2>0, <2>a, <2>5, <3>1 DEF FindUser
    <3> QED
      BY <3>2 DEF StatementsLeft
  <2>6. CASE CreateUser(r)
    <3>1. [req[r] EXCEPT !.pc = "roles"].pc = "roles"
      BY <2>4 DEF RequestType
    <3>2. req[r].pc = "create" /\ req'[r].pc \in {"idle", "roles"}
      BY <2>0, <2>a, <2>6, <3>1 DEF CreateUser
    <3> QED
      BY <3>2 DEF StatementsLeft
  <2>7. CASE FindRoles(r)
    <3>1. ASSUME NEW asked, NEW ids
          PROVE  /\ [req[r] EXCEPT !.pc = "commit", !.asked = asked, !.ids = ids].pc = "commit"
                 /\ [req[r] EXCEPT !.pc = "commit", !.ids = ids].pc = "commit"
                 /\ [req[r] EXCEPT !.pc = "commit"].pc = "commit"
      BY <2>4 DEF RequestType
    <3>a. /\ req[r].pc = "roles"
          /\ \/ Move(r, Idle)
             \/ \E asked, ids : Move(r, [req[r] EXCEPT !.pc = "commit", !.asked = asked, !.ids = ids])
             \/ \E ids : Move(r, [req[r] EXCEPT !.pc = "commit", !.ids = ids])
             \/ Move(r, [req[r] EXCEPT !.pc = "commit"])
      BY <2>7 DEF FindRoles
    <3>b. PICK next : Move(r, next) /\ next.pc \in {"idle", "commit"}
      <4>1. CASE Move(r, Idle)
        BY <2>0, <4>1
      <4>2. ASSUME NEW asked, NEW ids,
                   Move(r, [req[r] EXCEPT !.pc = "commit", !.asked = asked, !.ids = ids])
            PROVE  \E next : Move(r, next) /\ next.pc \in {"idle", "commit"}
        BY <3>1, <4>2
      <4>3. ASSUME NEW ids, \/ Move(r, [req[r] EXCEPT !.pc = "commit", !.ids = ids])
                            \/ Move(r, [req[r] EXCEPT !.pc = "commit"])
            PROVE  \E next : Move(r, next) /\ next.pc \in {"idle", "commit"}
        BY <3>1, <4>3
      <4> QED
        BY <3>a, <4>1, <4>2, <4>3
    <3>2. req'[r].pc \in {"idle", "commit"}
      BY <2>a, <3>b
    <3>c. req[r].pc = "roles"
      BY <2>7 DEF FindRoles
    <3> QED
      BY <3>2, <3>c DEF StatementsLeft
  <2>8. CASE Commit(r) \/ Fail(r)
    <3>1. req[r].pc \in {"find", "create", "roles", "commit"} /\ req'[r].pc = "idle"
      BY <1>1, <2>0, <2>4, <2>8, <2>a DEF Commit, Fail, RequestType
    <3> QED
      BY <3>1 DEF StatementsLeft
  <2>9. CASE \E p \in Replicas : Boot(p) \/ Crash(p)
    <3>1. req[r].pc \in {"find", "create", "roles", "commit"} /\ req'[r].pc = "idle"
      BY <1>1, <2>0, <2>1, <2>4, <2>9 DEF RequestType
    <3> QED
      BY <3>1 DEF StatementsLeft
  <2> QED
    BY <1>1, <2>2, <2>3, <2>5, <2>6, <2>7, <2>8, <2>9 DEF Next, Register, vars
<1>2. IInv /\ [Next]_vars => [\A r \in Requests : req'[r] # req[r] =>
        req[r].pc = "idle" \/ StatementsLeft(req'[r].pc) < StatementsLeft(req[r].pc)]_vars
  BY <1>1
<1> QED
  BY <1>2, Invariance, PTL DEF Spec, EveryRegistrationNearer
--------------------------------------------------------------------------------
(* Registration.                                                            *)

\* A step of Registration is a step of Accounts, or leaves it alone.
LEMMA RegStep == [RegNext]_regVars => [Next]_vars
<1> SUFFICES ASSUME [RegNext]_regVars PROVE [Next]_vars
  OBVIOUS
<1>1. CASE UNCHANGED regVars
  BY <1>1 DEF regVars
<1>2. ASSUME NEW p \in Replicas, (Boot(p) /\ UNCHANGED <<attempt, made>>) \/ Stop(p)
      PROVE  [Next]_vars
  BY <1>2 DEF Stop, Next
<1>3. ASSUME NEW r \in Requests, NEW p \in Replicas, NEW a \in Accounts, NEW asked \in Asks,
             Post(r, p, a, asked)
      PROVE  [Next]_vars
  BY <1>3 DEF Post, Next
<1>4. ASSUME NEW r \in Requests,
             Unreachable(r) \/ Deliver(r) \/ Lose(r) \/ Timeout(r)
      PROVE  [Next]_vars
  BY <1>4 DEF Unreachable, Deliver, Lose, Timeout
<1>5. ASSUME NEW r \in Requests, Work(r) \/ Abort(r) \/ Finish(r)
      PROVE  [Next]_vars
  BY <1>5 DEF Work, Abort, Finish, Register, Next
<1> QED
  BY <1>1, <1>2, <1>3, <1>4, <1>5 DEF RegNext

\* The clients, the gateway and the connection add nothing to what Accounts
\* does: Registration implements Accounts.
THEOREM Composition == RegSpec => Spec
<1>1. RegInit => Init
  BY DEF RegInit
<1> QED
  BY <1>1, RegStep, PTL DEF RegSpec, Spec

\* AccountsSound: so what the boots and the registrations achieve holds in the composition.
THEOREM ComposedSafe == RegSpec => []AccountsSound
<1>1. UpHasRoles /\ AloneRolesOnce /\ UsersHaveRoles /\ OneAnswerPerUser => AccountsSound
  BY DEF AccountsSound
<1> QED
  BY <1>1, Composition, RolesSafe, UsersSafe, PTL

\* What an attempt knows: it is in flight only while somebody waits for it or
\* has given it up; it has created something exactly if it says so; and what it
\* has created is there.
Linked(stage, account, pc) ==
  /\ pc # "idle" => stage \in {"waiting", "408"} /\ account = NoAccount
  /\ stage \in {"unsent", "waiting", "refused", "500"} => account = NoAccount
  /\ stage \in {"created", "201"} => account # NoAccount
  /\ account # NoAccount => account \in users

Single == \A q, r \in Requests : made[q] # NoAccount /\ made[q] = made[r] => q = r

LinkInv ==
  /\ attempt \in [Requests -> Stages \cup Statuses]
  /\ made \in [Requests -> Accounts \cup {NoAccount}]
  /\ \A r \in Requests : Linked(attempt[r], made[r], req[r].pc)
  /\ Single

\* Nothing is sent and nothing created.
LEMMA InitLink == RegInit => LinkInv
BY DEF RegInit, Init, LinkInv, Linked, Single, Idle, Stages

\* A step of one attempt that creates nothing.
LEMMA AtLink ==
  ASSUME LinkInv, NEW r \in Requests, NEW stage \in Stages \cup Statuses,
         NEW account \in {NoAccount, made[r]}, At(r, stage, account),
         users' = users, \A q \in Requests : q # r => req'[q] = req[q],
         Linked(stage, account, req'[r].pc)
  PROVE  LinkInv'
<1>1. /\ attempt' = [attempt EXCEPT ![r] = stage] /\ made' = [made EXCEPT ![r] = account]
      /\ attempt \in [Requests -> Stages \cup Statuses]
      /\ made \in [Requests -> Accounts \cup {NoAccount}]
  BY DEF At, LinkInv
<1>2. /\ attempt' \in [Requests -> Stages \cup Statuses]
      /\ made' \in [Requests -> Accounts \cup {NoAccount}]
  BY <1>1
<1>3. ASSUME NEW q \in Requests PROVE Linked(attempt'[q], made'[q], req'[q].pc)
  <2>1. CASE q = r
    BY <1>1, <2>1
  <2>2. CASE q # r
    BY <1>1, <2>2 DEF LinkInv
  <2> QED
    BY <2>1, <2>2
<1>4. Single'
  <2>1. \A q \in Requests : made'[q] # NoAccount => made'[q] = made[q]
    BY <1>1
  <2> QED
    BY <2>1 DEF LinkInv, Single
<1> QED
  BY <1>2, <1>3, <1>4 DEF LinkInv, Linked

\* A request that Move has changed is the only one.
LEMMA MoveOther ==
  ASSUME TypeOK, NEW r \in Requests, NEW next, Move(r, next)
  PROVE  /\ users' = users /\ req'[r] = next
         /\ \A q \in Requests : q # r => req'[q] = req[q]
BY DEF Move, TypeOK

\* The steps of the gateway.
LEMMA GatewayLink ==
  ASSUME IInv, LinkInv, NEW r \in Requests,
         \/ \E p \in Replicas, a \in Accounts, asked \in Asks : Post(r, p, a, asked)
         \/ Unreachable(r) \/ Deliver(r) \/ Lose(r) \/ Timeout(r)
  PROVE  LinkInv'
<1>0. /\ TypeOK /\ Linked(attempt[r], made[r], req[r].pc)
      /\ NoAccount \in {NoAccount, made[r]} /\ made[r] \in {NoAccount, made[r]}
  BY DEF IInv, LinkInv
<1>1. ASSUME NEW p \in Replicas, NEW a \in Accounts, NEW asked \in Asks, Post(r, p, a, asked)
      PROVE  LinkInv'
  <2> DEFINE next == [pc |-> "find", replica |-> p, account |-> a, asked |-> asked, ids |-> {}]
  <2>1. Move(r, next) /\ At(r, "waiting", NoAccount) /\ next.pc = "find"
    BY <1>1 DEF Post, RegisterStart
  <2> HIDE DEF next
  <2>2. /\ users' = users /\ req'[r] = next
        /\ \A q \in Requests : q # r => req'[q] = req[q]
    BY <1>0, <2>1, MoveOther
  <2>3. Linked("waiting", NoAccount, req'[r].pc) /\ "waiting" \in Stages \cup Statuses
    BY <2>1, <2>2 DEF Linked, Stages
  <2> QED
    BY <1>0, <2>1, <2>2, <2>3, AtLink
<1>2. ASSUME NEW stage \in {"503", "408", "201", "500"}, NEW account \in {NoAccount, made[r]},
             At(r, stage, account), UNCHANGED vars, Linked(stage, account, req[r].pc)
      PROVE  LinkInv'
  <2>1. /\ users' = users /\ req' = req /\ stage \in Stages \cup Statuses
    BY <1>2 DEF vars, Statuses
  <2> QED
    BY <1>2, <2>1, AtLink
<1>3. CASE Unreachable(r)
  <2>1. Linked("503", NoAccount, req[r].pc)
    BY <1>3 DEF Unreachable, Free, Idle, Linked
  <2> QED
    BY <1>0, <1>2, <1>3, <2>1 DEF Unreachable
<1>4. CASE Deliver(r)
  <2>1. /\ StatusOf(attempt[r]) \in {"201", "500"}
        /\ Linked(StatusOf(attempt[r]), made[r], req[r].pc)
    BY <1>0, <1>4 DEF Deliver, StatusOf, Linked
  <2> QED
    BY <1>0, <1>2, <1>4, <2>1 DEF Deliver
<1>5. CASE Lose(r)
  <2>1. Linked("503", made[r], req[r].pc)
    BY <1>0, <1>5 DEF Lose, Linked
  <2> QED
    BY <1>0, <1>2, <1>5, <2>1 DEF Lose
<1>6. CASE Timeout(r)
  <2>1. Linked("408", made[r], req[r].pc)
    BY <1>0, <1>6 DEF Timeout, Linked
  <2> QED
    BY <1>0, <1>2, <1>6, <2>1 DEF Timeout
<1> QED
  BY <1>1, <1>3, <1>4, <1>5, <1>6

\* The steps of a transaction before its commit.
LEMMA WorkLink ==
  ASSUME IInv, LinkInv, NEW r \in Requests, Work(r) \/ Abort(r)
  PROVE  LinkInv'
<1>0. /\ TypeOK /\ Linked(attempt[r], made[r], req[r].pc)
      /\ attempt[r] \in Stages \cup Statuses /\ req[r].pc # "idle"
      /\ NoAccount \in {NoAccount, made[r]}
  BY DEF IInv, LinkInv, Work, Abort, FindUser, CreateUser, FindRoles, Fail
<1>1. \E next : Move(r, next)
  BY DEF Work, Abort, FindUser, CreateUser, FindRoles, Fail
<1>2. /\ users' = users
      /\ \A q \in Requests : q # r => req'[q] = req[q]
  BY <1>0, <1>1, MoveOther
<1>3. CASE req'[r] = Idle
  <2> DEFINE stage == IF attempt[r] = "waiting" THEN "refused" ELSE attempt[r]
  <2>1. At(r, stage, NoAccount)
    BY <1>3 DEF Work, Abort, Worked, Reply
  <2>2. stage \in Stages \cup Statuses /\ Linked(stage, NoAccount, req'[r].pc)
    BY <1>0, <1>3 DEF Stages, Linked, Idle
  <2> HIDE DEF stage
  <2> QED
    BY <1>0, <1>2, <2>1, <2>2, AtLink
<1>4. CASE req'[r] # Idle
  <2>1. UNCHANGED <<attempt, made>>
    BY <1>4 DEF Work, Abort, Worked
  <2>2. attempt[r] \in {"waiting", "408"} /\ made[r] = NoAccount
    BY <1>0 DEF Linked
  <2>3. ASSUME NEW q \in Requests PROVE Linked(attempt[q], made[q], req'[q].pc)
    <3>1. CASE q = r
      BY <2>2, <3>1 DEF Linked
    <3>2. CASE q # r
      BY <1>2, <3>2 DEF LinkInv
    <3> QED
      BY <3>1, <3>2
  <2> QED
    BY <1>2, <2>1, <2>3 DEF LinkInv, Linked, Single
<1> QED
  BY <1>3, <1>4

\* A commit: the account was nobody's, and is this attempt's.
LEMMA FinishLink ==
  ASSUME IInv, LinkInv, NEW r \in Requests, Finish(r) PROVE LinkInv'
<1> DEFINE a == req[r].account
           stage == IF attempt[r] = "waiting" THEN "created" ELSE attempt[r]
<1>1. /\ TypeOK /\ Local(req[r]) /\ req[r].pc = "commit"
      /\ Linked(attempt[r], made[r], req[r].pc)
      /\ attempt \in [Requests -> Stages \cup Statuses]
      /\ made \in [Requests -> Accounts \cup {NoAccount}]
  BY DEF IInv, LinkInv, Finish, Commit
<1>2. a \in Accounts /\ a \notin users /\ a # NoAccount
  BY <1>1, NoneAssumption DEF Local
<1>3. /\ users' = users \cup {a} /\ req' = [req EXCEPT ![r] = Idle]
      /\ attempt' = [attempt EXCEPT ![r] = stage] /\ made' = [made EXCEPT ![r] = a]
  BY DEF Finish, Commit, Reply, At
<1>4. stage \in {"created", "408"}
  BY <1>1 DEF Linked
<1> HIDE DEF a, stage
<1>5. /\ attempt' \in [Requests -> Stages \cup Statuses]
      /\ made' \in [Requests -> Accounts \cup {NoAccount}]
  BY <1>1, <1>2, <1>3, <1>4 DEF Stages, Statuses
<1>6. req'[r] = Idle /\ \A q \in Requests : q # r => req'[q] = req[q]
  BY <1>1, <1>3 DEF TypeOK
<1>7. ASSUME NEW q \in Requests PROVE Linked(attempt[q], made[q], req[q].pc)'
  <2>1. CASE q = r
    <3>1. attempt'[q] = stage /\ made'[q] = a /\ req'[q].pc = "idle"
      BY <1>1, <1>3, <1>6, <2>1 DEF Idle
    <3> QED
      BY <1>2, <1>3, <1>4, <3>1 DEF Linked
  <2>2. CASE q # r
    <3>1. attempt'[q] = attempt[q] /\ made'[q] = made[q] /\ req'[q] = req[q]
      BY <1>1, <1>3, <1>6, <2>2
    <3>2. Linked(attempt[q], made[q], req[q].pc)
      BY DEF LinkInv
    <3> QED
      BY <1>3, <3>1, <3>2 DEF Linked
  <2> QED
    BY <2>1, <2>2
<1>8. Single'
  <2>1. \A q \in Requests : made[q] # a
    BY <1>2 DEF LinkInv, Linked
  <2> QED
    BY <1>1, <1>3, <2>1 DEF LinkInv, Single
<1> QED
  BY <1>5, <1>7, <1>8 DEF LinkInv

\* A replica that boots changes nothing here; one that stops takes with it
\* attempts that have created nothing.
LEMMA ReplicaLink ==
  ASSUME IInv, LinkInv, NEW p \in Replicas,
         (Boot(p) /\ UNCHANGED <<attempt, made>>) \/ Stop(p)
  PROVE  LinkInv'
<1>1. CASE Boot(p) /\ UNCHANGED <<attempt, made>>
  <2>1. UNCHANGED <<users, req, attempt, made>>
    BY <1>1 DEF Boot, BootStart, BootFind, BootCreate, Tables
  <2> QED
    BY <2>1 DEF LinkInv, Linked, Single
<1>2. CASE Stop(p)
  <2>1. /\ UNCHANGED <<users, made>>
        /\ req' = [r \in Requests |-> IF req[r].replica = p THEN Idle ELSE req[r]]
        /\ attempt' = [r \in Requests |-> IF req[r].replica = p /\ attempt[r] = "waiting"
                                          THEN "503" ELSE attempt[r]]
    BY <1>2 DEF Stop, Crash
  <2>2. attempt' \in [Requests -> Stages \cup Statuses]
    BY <2>1 DEF LinkInv, Statuses
  <2>3. ASSUME NEW r \in Requests PROVE Linked(attempt'[r], made[r], req'[r].pc)
    BY <2>1 DEF LinkInv, Linked, Idle
  <2> QED
    BY <2>1, <2>2, <2>3 DEF LinkInv, Linked, Single
<1> QED
  BY <1>1, <1>2

\* Every step keeps the two invariants.
LEMMA NextLink == IInv /\ LinkInv /\ [RegNext]_regVars => LinkInv'
<1> SUFFICES ASSUME IInv, LinkInv, [RegNext]_regVars PROVE LinkInv'
  OBVIOUS
<1>1. CASE UNCHANGED regVars
  BY <1>1 DEF regVars, vars, LinkInv, Linked, Single
<1> QED
  BY <1>1, GatewayLink, WorkLink, FinishLink, ReplicaLink DEF RegNext

LEMMA RegInvariance == RegSpec => [](IInv /\ LinkInv)
BY Composition, Invariance, InitLink, NextLink, PTL DEF RegSpec

\* Types are kept in the composition.
THEOREM RegTypeCorrect == RegSpec => []RegTypeOK
<1>1. IInv /\ LinkInv => RegTypeOK
  BY DEF IInv, LinkInv, RegTypeOK
<1> QED
  BY <1>1, RegInvariance, PTL

\* What a client is told of its registration is true: created if 201, by this
\* attempt alone; nothing created, now and later, if 500.
THEOREM RegSafe == RegSpec => []ToldTheTruth
<1>1. IInv /\ LinkInv => ToldTheTruth
  <2> SUFFICES ASSUME IInv, LinkInv, NEW r \in Requests
               PROVE  /\ attempt[r] = "201" =>
                           made[r] \in users /\ \A q \in Requests : made[q] = made[r] => q = r
                      /\ attempt[r] = "500" => made[r] = NoAccount /\ req[r].pc = "idle"
    BY DEF ToldTheTruth
  <2>1. Linked(attempt[r], made[r], req[r].pc) /\ Single
    BY DEF LinkInv
  <2> QED
    BY <2>1 DEF Linked, Single
<1> QED
  BY <1>1, RegInvariance, PTL
--------------------------------------------------------------------------------
(* What registration promises.                                              *)

\* What a client knows, stage by stage.
LEMMA KnownIs ==
  ASSUME NEW stage \in Stages \cup Statuses
  PROVE  /\ stage = "unsent" => Known(stage) = "nothing"
         /\ stage \in {"waiting", "created", "refused"} <=> Known(stage) = "waits"
         /\ stage = "201" => Known(stage) = "created"
         /\ stage = "500" => Known(stage) = "refused"
         /\ stage \in {"408", "503"} => Known(stage) = "unknown"
BY DEF Known, Stages, Statuses

\* A step that changes one attempt changes what one client knows, and what one
\* attempt may yet make.
LEMMA EnrolOne ==
  ASSUME IInv, LinkInv, NEW r \in Requests, NEW stage,
         attempt' = [attempt EXCEPT ![r] = stage],
         \A q \in Requests : q # r => req'[q] = req[q]
  PROVE  /\ Knows' = [Knows EXCEPT ![r] = Known(stage)]
         /\ Open' = [Open EXCEPT ![r] = req'[r].account]
BY DEF LinkInv, Knows, Open

\* What an attempt is at, as the two invariants tell.
LEMMA EnrolAt ==
  ASSUME IInv, LinkInv, NEW r \in Requests
  PROVE  /\ Open[r] = req[r].account /\ Knows[r] = Known(attempt[r])
         /\ req[r].pc = "idle" => Open[r] = NoAccount
         /\ attempt[r] \in Stages \cup Statuses
         /\ Linked(attempt[r], made[r], req[r].pc)
BY DEF IInv, Local, LinkInv, Open, Knows

\* The steps of the gateway: a client tries, or is told.
LEMMA EnrolGateway ==
  ASSUME IInv, LinkInv, NEW r \in Requests,
         \/ \E p \in Replicas, a \in Accounts, asked \in Asks : Post(r, p, a, asked)
         \/ Unreachable(r) \/ Deliver(r) \/ Lose(r) \/ Timeout(r)
  PROVE  Enrol!Next
<1>0. /\ Open[r] = req[r].account /\ Knows[r] = Known(attempt[r])
      /\ req[r].pc = "idle" => Open[r] = NoAccount
      /\ attempt[r] \in Stages \cup Statuses
      /\ Linked(attempt[r], made[r], req[r].pc)
  BY EnrolAt
<1>1. (attempt[r] = "unsent" \/ Told(r)) => Knows[r] # "waits"
  BY <1>0, KnownIs DEF Told, Stages
<1>2. ASSUME NEW p \in Replicas, NEW a \in Accounts, NEW asked \in Asks, Post(r, p, a, asked)
      PROVE  Enrol!Try(r)
  <2> DEFINE next == [pc |-> "find", replica |-> p, account |-> a, asked |-> asked, ids |-> {}]
  <2>1. /\ Move(r, next) /\ At(r, "waiting", NoAccount) /\ next.account = a
        /\ Free(r) /\ req[r].pc = "idle"
    BY <1>2 DEF Post, RegisterStart, Idle
  <2> HIDE DEF next
  <2>2. /\ users' = users /\ req'[r] = next
        /\ \A q \in Requests : q # r => req'[q] = req[q]
    BY <2>1, MoveOther DEF IInv
  <2>3. Knows' = [Knows EXCEPT ![r] = Known("waiting")] /\ Open' = [Open EXCEPT ![r] = req'[r].account]
    BY <2>1, <2>2, EnrolOne DEF At
  <2>4. Known("waiting") = "waits"
    BY KnownIs DEF Stages
  <2> QED
    BY <1>0, <1>1, <2>1, <2>2, <2>3, <2>4 DEF Enrol!Try, Free, At
<1>3. ASSUME NEW stage \in Statuses, NEW account, At(r, stage, account), UNCHANGED vars
      PROVE  /\ Knows' = [Knows EXCEPT ![r] = Known(stage)] /\ UNCHANGED <<users, Open>>
             /\ made' = [made EXCEPT ![r] = account]
  BY <1>3, EnrolOne DEF At, vars, Open
<1>4. CASE Unreachable(r)
  BY <1>0, <1>1, <1>3, <1>4, KnownIs DEF Unreachable, Free, Idle, Statuses, Enrol!TryInVain, Enrol!Next
<1>5. ASSUME NEW stage \in Statuses, At(r, stage, made[r]), UNCHANGED vars,
             attempt[r] \in {"waiting", "created", "refused"},
             stage = "201" => attempt[r] = "created", stage = "500" => attempt[r] = "refused"
      PROVE  \E answer \in Enrol!Answers : Enrol!Tell(r, answer)
  <2>1. Knows[r] = "waits" /\ Known(stage) \in {"created", "refused", "unknown"}
    BY <1>0, <1>5, KnownIs DEF Statuses
  <2>2. Known(stage) = "created" => made[r] # NoAccount
    BY <1>0, <1>5, KnownIs DEF Statuses, Linked
  <2>3. Known(stage) = "refused" => made[r] = NoAccount /\ Open[r] = NoAccount
    BY <1>0, <1>5, KnownIs DEF Statuses, Linked
  <2>4. /\ Knows' = [Knows EXCEPT ![r] = Known(stage)] /\ UNCHANGED <<users, Open>> /\ made' = made
    BY <1>3, <1>5 DEF LinkInv
  <2> QED
    BY <2>1, <2>2, <2>3, <2>4 DEF Enrol!Answers, Enrol!Tell
<1>6. CASE Deliver(r) \/ Lose(r) \/ Timeout(r)
  BY <1>5, <1>6 DEF Deliver, Lose, Timeout, StatusOf, Statuses, Enrol!Next
<1> QED
  BY <1>2, <1>4, <1>6 DEF Enrol!Next

\* Attempts that come to nothing.
LEMMA EnrolGiveUp ==
  ASSUME NEW S \in SUBSET Requests, UNCHANGED <<users, made>>,
         Open' = [r \in Requests |-> IF r \in S THEN NoAccount ELSE Open[r]],
         Knows' \in {Knows, [r \in Requests |-> IF r \in S /\ Knows[r] = "waits"
                                               THEN "unknown" ELSE Knows[r]]}
  PROVE  Enrol!Next
BY DEF Enrol!GiveUp, Enrol!Next

\* A transaction before its commit, the end of which nobody knows yet.
LEMMA EnrolWork ==
  ASSUME IInv, LinkInv, NEW r \in Requests, Work(r) \/ Abort(r)
  PROVE  Enrol!Next \/ UNCHANGED Enrol!vars
<1>0. /\ Linked(attempt[r], made[r], req[r].pc) /\ req[r].pc # "idle"
      /\ attempt[r] \in {"waiting", "408"} /\ made[r] = NoAccount
  BY DEF LinkInv, Linked, Work, Abort, FindUser, CreateUser, FindRoles, Fail
<1>1. /\ users' = users
      /\ \A q \in Requests : q # r => req'[q] = req[q]
  <2>1. \E next : Move(r, next)
    BY DEF Work, Abort, FindUser, CreateUser, FindRoles, Fail
  <2> QED
    BY <2>1, MoveOther DEF IInv
<1>2. req'[r] = Idle \/ req'[r].account = req[r].account
  <2>0. req[r] \in RequestType
    BY DEF IInv, TypeOK, RequestType
  <2>1. req \in [Requests -> RequestType]
    BY DEF IInv, TypeOK, RequestType
  <2>2. CASE FindUser(r) \/ CreateUser(r)
    BY <2>0, <2>1, <2>2 DEF FindUser, CreateUser, Move, RequestType
  <2>3. CASE FindRoles(r)
    <3> DEFINE found(asked, ids) == [req[r] EXCEPT !.pc = "commit", !.asked = asked, !.ids = ids]
    <3>1. req'[r] = found({}, RolesNamed(req[r].asked)) => req'[r].account = req[r].account
      BY <2>0 DEF RequestType
    <3>2. req'[r] = [req[r] EXCEPT !.pc = "commit"] => req'[r].account = req[r].account
      BY <2>0 DEF RequestType
    <3>3. ASSUME NEW ids
          PROVE  req'[r] = [req[r] EXCEPT !.pc = "commit", !.ids = ids] => req'[r].account = req[r].account
      BY <2>0 DEF RequestType
    <3>4. ASSUME NEW next, Move(r, next) PROVE req'[r] = next
      BY <2>1, <3>4 DEF Move
    <3>5. \/ Move(r, Idle)
          \/ Move(r, found({}, RolesNamed(req[r].asked)))
          \/ Move(r, [req[r] EXCEPT !.pc = "commit"])
          \/ \E ids : Move(r, [req[r] EXCEPT !.pc = "commit", !.ids = ids])
      BY <2>3 DEF FindRoles
    <3>6. \/ req'[r] = Idle
          \/ req'[r] = found({}, RolesNamed(req[r].asked))
          \/ req'[r] = [req[r] EXCEPT !.pc = "commit"]
          \/ \E ids : req'[r] = [req[r] EXCEPT !.pc = "commit", !.ids = ids]
      BY <3>4, <3>5, Zenon
    <3> QED
      BY <3>1, <3>2, <3>3, <3>6, Zenon
  <2>4. CASE Fail(r)
    BY <2>1, <2>4 DEF Fail, Move
  <2> QED
    BY <2>2, <2>3, <2>4 DEF Work, Abort
<1>3. CASE req'[r] = Idle
  <2> DEFINE stage == IF attempt[r] = "waiting" THEN "refused" ELSE attempt[r]
  <2>1. At(r, stage, NoAccount)
    BY <1>3 DEF Work, Abort, Worked, Reply
  <2>2. stage \in Stages \cup Statuses /\ Known(stage) = Knows[r] /\ made' = made
    BY <1>0, <2>1, KnownIs DEF Stages, Statuses, Knows, At, LinkInv
  <2> HIDE DEF stage
  <2>3. Knows' = [Knows EXCEPT ![r] = Known(stage)] /\ Open' = [Open EXCEPT ![r] = req'[r].account]
    BY <1>1, <2>1, EnrolOne DEF At
  <2>4. Knows' = Knows
    BY <2>2, <2>3 DEF Knows
  <2>5. Open' = [q \in Requests |-> IF q \in {r} THEN NoAccount ELSE Open[q]]
    <3>1. req'[r].account = NoAccount
      BY <1>3 DEF Idle
    <3> QED
      BY <2>3, <3>1 DEF Open
  <2> QED
    BY <1>1, <2>2, <2>4, <2>5, EnrolGiveUp
<1>4. CASE req'[r] # Idle
  <2>1. UNCHANGED <<attempt, made>>
    BY <1>4 DEF Work, Abort, Worked
  <2> QED
    BY <1>1, <1>2, <1>4, <2>1 DEF Knows, Open, Enrol!vars
<1> QED
  BY <1>3, <1>4

\* A commit makes the account, which nobody has made before.
LEMMA EnrolFinish ==
  ASSUME IInv, LinkInv, NEW r \in Requests, Finish(r) PROVE Enrol!Make(r)
<1> DEFINE a == req[r].account
           stage == IF attempt[r] = "waiting" THEN "created" ELSE attempt[r]
<1>1. /\ a \notin users /\ a # NoAccount /\ Open[r] = a
      /\ attempt[r] \in {"waiting", "408"}
  BY NoneAssumption DEF IInv, Local, LinkInv, Linked, Finish, Commit, Open
<1>2. /\ users' = users \cup {a} /\ req'[r] = Idle /\ \A q \in Requests : q # r => req'[q] = req[q]
      /\ attempt' = [attempt EXCEPT ![r] = stage] /\ made' = [made EXCEPT ![r] = a]
  BY DEF Finish, Commit, Reply, At, IInv, TypeOK
<1>3. Known(stage) = Knows[r]
  BY <1>1, KnownIs DEF Stages, Statuses, Knows
<1> HIDE DEF stage, a
<1>4. Knows' = [Knows EXCEPT ![r] = Known(stage)] /\ Open' = [Open EXCEPT ![r] = req'[r].account]
  BY <1>2, EnrolOne
<1>5. Knows' = Knows /\ Open' = [Open EXCEPT ![r] = NoAccount]
  BY <1>2, <1>3, <1>4 DEF Knows, Idle
<1> QED
  BY <1>1, <1>2, <1>5 DEF Enrol!Make

\* A replica that stops: those who wait for it learn nothing of their attempts.
LEMMA EnrolReplica ==
  ASSUME IInv, LinkInv, NEW p \in Replicas,
         (Boot(p) /\ UNCHANGED <<attempt, made>>) \/ Stop(p)
  PROVE  Enrol!Next \/ UNCHANGED Enrol!vars
<1>1. CASE Boot(p) /\ UNCHANGED <<attempt, made>>
  BY <1>1 DEF Boot, BootStart, BootFind, BootCreate, Tables, Knows, Open, Enrol!vars
<1>2. CASE Stop(p)
  <2> DEFINE S == {r \in Requests : req[r].replica = p}
  <2>1. /\ UNCHANGED <<users, made>>
        /\ req' = [r \in Requests |-> IF r \in S THEN Idle ELSE req[r]]
        /\ attempt' = [r \in Requests |-> IF r \in S /\ attempt[r] = "waiting"
                                          THEN "503" ELSE attempt[r]]
    BY <1>2 DEF Stop, Crash
  <2>2. Open' = [r \in Requests |-> IF r \in S THEN NoAccount ELSE Open[r]]
    BY <2>1 DEF Open, Idle
  <2>3. ASSUME NEW r \in Requests
        PROVE  Known(attempt'[r]) = IF r \in S /\ Knows[r] = "waits" THEN "unknown" ELSE Knows[r]
    <3>1. r \in S => attempt[r] \in {"waiting", "408"}
      BY NoneAssumption DEF IInv, Local, LinkInv, Linked
    <3>2. attempt[r] \in Stages \cup Statuses /\ Knows[r] = Known(attempt[r])
      BY EnrolAt
    <3> QED
      BY <2>1, <3>1, <3>2, KnownIs DEF Stages, Statuses
  <2>4. Knows' = [r \in Requests |-> IF r \in S /\ Knows[r] = "waits" THEN "unknown" ELSE Knows[r]]
    BY <2>3 DEF Knows
  <2> HIDE DEF S
  <2> QED
    BY <2>1, <2>2, <2>4, EnrolGiveUp DEF S
<1> QED
  BY <1>1, <1>2

\* Every step is one that Enrolment allows, or none that it knows of.
LEMMA EnrolNext == IInv /\ LinkInv /\ [RegNext]_regVars => [Enrol!Next]_(Enrol!vars)
<1> SUFFICES ASSUME IInv, LinkInv, [RegNext]_regVars PROVE Enrol!Next \/ UNCHANGED Enrol!vars
  OBVIOUS
<1>1. CASE UNCHANGED regVars
  BY <1>1 DEF regVars, vars, Knows, Open, Enrol!vars
<1>2. ASSUME NEW r \in Requests, Finish(r) PROVE Enrol!Next
  BY <1>2, EnrolFinish DEF Enrol!Next
<1> QED
  BY <1>1, <1>2, EnrolGateway, EnrolWork, EnrolReplica DEF RegNext

\* EnrolSpec: crashes, transactions that are rolled back, lost replies and
\* timeouts taken together, an account is made once, by an attempt that is still
\* open, and what a client is told of its attempt is what has become of it.
THEOREM Refinement == RegSpec => EnrolSpec
<1>1. RegInit => Enrol!Init
  BY KnownIs DEF RegInit, Init, Idle, Open, Knows, Stages, Enrol!Init
<1> QED
  BY <1>1, EnrolNext, RegInvariance, PTL DEF RegSpec, EnrolSpec, Enrol!Spec
================================================================================
