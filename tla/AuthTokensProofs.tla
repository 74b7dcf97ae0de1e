---------------------------- MODULE AuthTokensProofs ----------------------------
(***************************************************************************)
(* The safety of AuthTokens for any users, any number of requests in       *)
(* flight, any lifetimes of the tokens and any bound on the clock.         *)
(*                                                                         *)
(* The invariant IInv has three parts beside the types: what the tables    *)
(* hold (StoreInv), what a request knows of the tables it has read, in     *)
(* spite of the requests that ran since (Local), and what it means to have *)
(* run alone (PeersInv).                                                   *)
(***************************************************************************)
EXTENDS AuthTokens, FiniteSetTheorems, TLAPS

\* The states of a refresh past the lookup of its row.
Signing == {"signAccess", "signRefresh", "commit"}

StoreInv ==
  /\ stored \subseteq RefreshToken
  /\ \A k \in held : k.type = "refresh" => k \in stored
  /\ \A s \in sessions : s.login \in stored /\ s.login.sub = s.token.sub
  /\ ExchangeKeepsKind
  /\ RevokedHasCause
  /\ SessionGoneWithToken
  /\ AloneLogoutWhole
  /\ AloneNeverForks

\* The pair a request has signed so far is for its user, and the row it is
\* going to revoke is there.
PairInv(q) ==
  /\ q.pc = "idle" <=> q.sub = NoUser
  /\ q.pc \in {"signRefresh", "commit"} =>
       q.access \in Token /\ q.access.sub = q.sub /\ q.access.type = "access"
  /\ q.pc = "commit" => q.refresh \in RefreshToken /\ q.refresh.sub = q.sub
  /\ q.old # NoToken => q.old.sub = q.sub
  /\ q.pc \in Signing /\ q.old # NoToken => q.old \in stored

\* Between its two statements a logout has in its hit set, or finds already
\* revoked, all that it is going to answer for.
LogoutInv(q) ==
  /\ \A k \in q.seen \cup q.hit : k \in stored /\ k.sub = q.sub
  /\ q.pc = "delete" => q.seen \subseteq q.hit \cup revoked
  /\ q.pc = "delete" /\ q.alone => \A s \in sessions :
       s.token.sub = q.sub => s.login \in q.hit \cup revoked

\* A request that is still alone is the first to exchange its token.
FirstInv(q) == \A e \in exchanged :
  q.pc \in Signing /\ q.old = e.old => ~e.alone /\ ~q.alone

Local(q) == PairInv(q) /\ LogoutInv(q) /\ FirstInv(q)

PeersInv == \A q, r \in Requests :
  q # r /\ req[r].sub # NoUser /\ req[q].sub = req[r].sub => ~req[r].alone

IInv == TypeOK /\ StoreInv /\ (\A r \in Requests : Local(req[r])) /\ PeersInv
--------------------------------------------------------------------------------
\* A request that has not begun knows nothing, so nothing false.
LEMMA IdleIsLocal == Idle \in Request /\ Local(Idle)
BY NoTokenAssumption DEF Idle, Request, Local, PairInv, LogoutInv, FirstInv, Signing

\* The empty tables satisfy the invariant.
LEMMA InitIInv == Init => IInv
<1> SUFFICES ASSUME Init PROVE IInv
  OBVIOUS
<1> USE DEF Init
<1>1. TypeOK
  BY IdleIsLocal, TimesAssumption DEF TypeOK
<1>2. StoreInv
  BY DEF StoreInv, RevokedHasCause, Spent, SessionGoneWithToken,
         AloneLogoutWhole, AloneNeverForks, ExchangeKeepsKind
<1>3. \A r \in Requests : Local(req[r])
  BY IdleIsLocal
<1>4. PeersInv
  BY DEF PeersInv, Idle
<1> QED
  BY <1>1, <1>2, <1>3, <1>4 DEF IInv

\* Two requests for one user are not alone, whichever of them is asked.
LEMMA NotAlone ==
  ASSUME IInv, NEW q \in Requests, NEW r \in Requests, q # r,
         req[r].pc # "idle", req[q].sub = req[r].sub
  PROVE  ~req[q].alone /\ ~req[r].alone
<1>1. req[r].sub # NoUser
  BY DEF IInv, Local, PairInv
<1> QED
  BY <1>1 DEF IInv, PeersInv

\* The step of a request that changes only what it knows.
LEMMA MoveIInv ==
  ASSUME IInv, NEW r \in Requests, NEW next \in Request, Move(r, next),
         Local(next),
         next = Idle \/ (next.sub = req[r].sub /\ next.alone = req[r].alone)
  PROVE  IInv'
<1> USE DEF Move, Tables, History
<1>1. req' = [req EXCEPT ![r] = next] /\ req \in [Requests -> Request]
  BY DEF IInv, TypeOK
<1>2. TypeOK'
  BY <1>1 DEF IInv, TypeOK
<1>3. StoreInv'
  BY DEF IInv, StoreInv, RevokedHasCause, Spent, SessionGoneWithToken,
         AloneLogoutWhole, AloneNeverForks, ExchangeKeepsKind
<1>4. ASSUME NEW q \in Requests PROVE Local(req[q])'
  <2>1. Local(req'[q])
    BY <1>1 DEF IInv
  <2> QED
    BY <2>1 DEF Local, PairInv, LogoutInv, FirstInv
<1>5. PeersInv'
  BY <1>1 DEF IInv, PeersInv, Idle
<1> QED
  BY <1>2, <1>3, <1>4, <1>5 DEF IInv

\* The first step of a request: its peers, if any, are not alone any more.
LEMMA BeginIInv ==
  ASSUME IInv, NEW r \in Requests, NEW u \in Users, NEW first \in Request,
         Begin(r, u, first),
         \A b \in BOOLEAN : Local([first EXCEPT !.sub = u, !.alone = b])
  PROVE  IInv'
<1> DEFINE mine == [first EXCEPT !.sub = u, !.alone = Peers(r, u) = {}]
<1> USE DEF Begin, Tables, History
<1>1. /\ req \in [Requests -> Request]
      /\ mine \in Request /\ mine.sub = u
      /\ mine.alone <=> Peers(r, u) = {}
  BY DEF IInv, TypeOK, Request
<1>2. /\ req' \in [Requests -> Request]
      /\ req'[r] = mine
      /\ \A q \in Requests \ {r} :
           req'[q] = IF q \in Peers(r, u) THEN [req[q] EXCEPT !.alone = FALSE]
                     ELSE req[q]
  <2>1. ASSUME NEW q \in Requests PROVE [req[q] EXCEPT !.alone = FALSE] \in Request
    <3>1. req[q] \in Request
      BY <1>1
    <3> QED
      BY <3>1 DEF Request
  <2> QED
    BY <1>1, <2>1
<1>3. TypeOK'
  BY <1>2 DEF IInv, TypeOK
<1>4. StoreInv'
  BY DEF IInv, StoreInv, RevokedHasCause, Spent, SessionGoneWithToken,
         AloneLogoutWhole, AloneNeverForks, ExchangeKeepsKind
<1>5. ASSUME NEW q \in Requests PROVE Local(req[q])'
  <2>1. Local(req'[q])
    <3>1. CASE q = r
      BY <3>1, <1>2, <1>1
    <3>2. CASE q # r
      <4>1. Local(req[q]) /\ req[q] \in Request
        BY <1>1 DEF IInv
      <4>2. Local([req[q] EXCEPT !.alone = FALSE])
        <5> DEFINE other == [req[q] EXCEPT !.alone = FALSE]
        <5>1. /\ other.alone = FALSE /\ other.pc = req[q].pc /\ other.sub = req[q].sub
              /\ other.old = req[q].old /\ other.access = req[q].access
              /\ other.refresh = req[q].refresh /\ other.hit = req[q].hit
              /\ other.seen = req[q].seen
          BY <4>1 DEF Request
        <5> HIDE DEF other
        <5>2. PairInv(other) /\ LogoutInv(other)
          BY <4>1, <5>1 DEF Local, PairInv, LogoutInv
        <5>3. FirstInv(other)
          BY <4>1, <5>1 DEF Local, FirstInv
        <5> QED
          BY <5>2, <5>3 DEF Local, other
      <4> QED
        BY <3>2, <4>1, <4>2, <1>2
    <3> QED
      BY <3>1, <3>2
  <2> QED
    BY <2>1 DEF Local, PairInv, LogoutInv, FirstInv
<1> HIDE DEF Begin, Tables, History, mine
<1>6. PeersInv'
  <2> SUFFICES ASSUME NEW p \in Requests, NEW q \in Requests, p # q,
                      req'[q].sub # NoUser, req'[p].sub = req'[q].sub
               PROVE  ~req'[q].alone
    BY DEF PeersInv
  <2>0. ASSUME NEW k \in Requests \ {r}
        PROVE  req'[k].sub = req[k].sub /\ (~req[k].alone => ~req'[k].alone)
    <3>1. req[k] \in Request /\ req'[k] \in {req[k], [req[k] EXCEPT !.alone = FALSE]}
      BY <1>1, <1>2
    <3> QED
      BY <3>1 DEF Request
  <2>1. \A k \in Requests \ {r} : req'[k].sub = req[k].sub
    BY <2>0
  <2>2. \A k \in Requests \ {r} : ~req[k].alone => ~req'[k].alone
    BY <2>0
  <2>3. ASSUME NEW k \in Peers(r, u) PROVE ~req'[k].alone
    <3>1. k \in Requests \ {r} /\ req[k] \in Request
      BY <1>1 DEF Peers
    <3>2. req'[k] = [req[k] EXCEPT !.alone = FALSE]
      BY <1>2, <3>1
    <3> QED
      BY <3>1, <3>2 DEF Request
  <2>4. CASE q = r
    <3>1. p \in Peers(r, u)
      BY <2>4, <2>1, <1>1, <1>2 DEF Peers
    <3> QED
      BY <3>1, <2>4, <1>1, <1>2
  <2>5. CASE q # r /\ p = r
    BY <2>5, <2>1, <2>3, <1>1, <1>2 DEF Peers
  <2>6. CASE q # r /\ p # r
    <3>1. req[q].sub # NoUser /\ req[p].sub = req[q].sub
      BY <2>6, <2>1
    <3>2. ~req[q].alone
      BY <3>1 DEF IInv, PeersInv
    <3> QED
      BY <2>6, <3>2, <2>2
  <2> QED
    BY <2>4, <2>5, <2>6
<1> QED
  BY <1>3, <1>4, <1>5, <1>6 DEF IInv
--------------------------------------------------------------------------------
\* Login: a fresh row and a session; any logout of the user that has already
\* taken its hit set is not alone.
LEMMA LoginCommitIInv ==
  ASSUME IInv, NEW r \in Requests, LoginCommit(r)
  PROVE  IInv'
<1> DEFINE s == [token |-> req[r].access, login |-> req[r].refresh]
<1> USE DEF LoginCommit, Answer
<1>1. /\ req \in [Requests -> Request]
      /\ req' = [req EXCEPT ![r] = Idle]
      /\ Local(req[r])
  BY DEF IInv, TypeOK
<1>2. /\ req[r].refresh \in RefreshToken /\ req[r].refresh.sub = req[r].sub
      /\ req[r].access \in Token /\ req[r].access.sub = req[r].sub
      /\ req[r].access.type = "access"
  BY <1>1 DEF Local, PairInv
<1>3. TypeOK'
  <2>1. s \in Session
    BY <1>2 DEF Session, RefreshToken
  <2>2. req' \in [Requests -> Request]
    BY <1>1, IdleIsLocal
  <2> QED
    BY <1>2, <2>1, <2>2 DEF IInv, TypeOK, RefreshToken
<1>4. StoreInv'
  <2> USE DEF IInv, StoreInv
  <2>1. (stored \subseteq RefreshToken)' /\ stored \subseteq stored'
    BY <1>2
  <2>2. (\A k \in held : k.type = "refresh" => k \in stored)'
    BY <1>2
  <2>3. (\A t \in sessions : t.login \in stored /\ t.login.sub = t.token.sub)'
    BY <1>2
  <2>4. (ExchangeKeepsKind /\ RevokedHasCause /\ AloneLogoutWhole /\ AloneNeverForks)'
    BY DEF ExchangeKeepsKind, RevokedHasCause, Spent, AloneLogoutWhole, AloneNeverForks
  <2>5. SessionGoneWithToken'
    BY DEF SessionGoneWithToken, TypeOK, FreshRefresh
  <2> QED
    BY <2>1, <2>2, <2>3, <2>4, <2>5
<1>5. ASSUME NEW q \in Requests PROVE Local(req[q])'
  <2>1. CASE q = r
    <3>1. req'[q] = Idle
      BY <2>1, <1>1
    <3> QED
      BY <3>1, NoTokenAssumption
         DEF Idle, Local, PairInv, LogoutInv, FirstInv, Signing
  <2>2. CASE q # r
    <3>1. req'[q] = req[q] /\ Local(req[q])
      BY <2>2, <1>1 DEF IInv
    <3>2. req[q].sub = req[r].sub => ~req[q].alone
      BY <2>2, NotAlone
    <3>3. PairInv(req[q])' /\ FirstInv(req[q])'
      BY <3>1 DEF Local, PairInv, FirstInv
    <3>4. LogoutInv(req[q])'
      BY <3>1, <3>2, <1>2 DEF Local, LogoutInv
    <3> QED
      BY <3>3, <3>4 DEF Local
  <2> QED
    BY <2>1, <2>2
<1>6. PeersInv'
  BY <1>1 DEF IInv, PeersInv, Idle
<1> QED
  BY <1>3, <1>4, <1>5, <1>6 DEF IInv

\* Refresh: the old row dies for one fresh row; a competitor for the old row
\* is a peer, so neither of the two was alone.
LEMMA RefreshCommitIInv ==
  ASSUME IInv, NEW r \in Requests, RefreshCommit(r)
  PROVE  IInv'
<1> DEFINE e == [old |-> req[r].old, new |-> req[r].refresh, alone |-> req[r].alone]
<1> USE DEF RefreshCommit, RevokeOld, Answer
<1>1. /\ req \in [Requests -> Request]
      /\ req' = [req EXCEPT ![r] = Idle]
      /\ Local(req[r])
      /\ req[r].alone \in BOOLEAN
  BY DEF IInv, TypeOK, Request
<1>2. /\ req[r].refresh \in RefreshToken /\ req[r].refresh.sub = req[r].sub
      /\ req[r].access \in Token /\ req[r].access.type = "access"
      /\ req[r].old \in stored /\ req[r].old.sub = req[r].sub
  BY <1>1 DEF Local, PairInv, Signing
<1>3. TypeOK'
  <2>1. req' \in [Requests -> Request]
    BY <1>1, IdleIsLocal
  <2> QED
    BY <1>1, <1>2, <2>1 DEF IInv, TypeOK, RefreshToken
<1>4. StoreInv'
  <2> USE DEF IInv, StoreInv
  <2>1. (stored \subseteq RefreshToken)' /\ stored \subseteq stored'
    BY <1>2
  <2>2. (\A k \in held : k.type = "refresh" => k \in stored)'
    BY <1>2
  <2>3. (\A t \in sessions : t.login \in stored /\ t.login.sub = t.token.sub)'
    BY <2>1
  <2>4. ExchangeKeepsKind'
    BY <1>2 DEF ExchangeKeepsKind, RefreshToken
  <2>5. RevokedHasCause'
    <3>1. Spent' = Spent \cup {req[r].old}
      <4>1. exchanged' = exchanged \cup {e} /\ e.old = req[r].old
        OBVIOUS
      <4>2. ASSUME NEW x PROVE x \in Spent' <=> x \in Spent \cup {req[r].old}
        <5> HIDE DEF e, RefreshCommit, RevokeOld, Answer
        <5> QED
          BY <4>1 DEF Spent
      <4> QED
        BY <4>2
    <3> QED
      BY <3>1 DEF RevokedHasCause
  <2>6. (SessionGoneWithToken /\ AloneLogoutWhole)'
    BY DEF SessionGoneWithToken, AloneLogoutWhole
  <2>7. AloneNeverForks'
    <3>1. \A f \in exchanged : f.old = req[r].old => ~f.alone /\ ~req[r].alone
      BY <1>1 DEF Local, FirstInv, Signing
    <3> QED
      BY <3>1 DEF AloneNeverForks
  <2> QED
    BY <2>1, <2>2, <2>3, <2>4, <2>5, <2>6, <2>7
<1>5. ASSUME NEW q \in Requests PROVE Local(req[q])'
  <2>1. CASE q = r
    <3>1. req'[q] = Idle
      BY <2>1, <1>1
    <3> QED
      BY <3>1, NoTokenAssumption
         DEF Idle, Local, PairInv, LogoutInv, FirstInv, Signing
  <2>2. CASE q # r
    <3>1. req'[q] = req[q] /\ Local(req[q])
      BY <2>2, <1>1 DEF IInv
    <3>2. PairInv(req[q])' /\ LogoutInv(req[q])'
      BY <3>1 DEF Local, PairInv, LogoutInv
    <3>3. req[q].old = req[r].old => ~req[q].alone /\ ~req[r].alone
      <4>1. req[q].old = req[r].old => req[q].sub = req[r].sub
        BY <3>1, <1>2 DEF Local, PairInv
      <4> QED
        BY <2>2, <4>1, NotAlone
    <3>4. FirstInv(req[q])'
      BY <3>1, <3>3 DEF Local, FirstInv
    <3> QED
      BY <3>2, <3>4 DEF Local
  <2> QED
    BY <2>1, <2>2
<1>6. PeersInv'
  BY <1>1 DEF IInv, PeersInv, Idle
<1> QED
  BY <1>3, <1>4, <1>5, <1>6 DEF IInv

\* Logout: what it revokes and the sessions it deletes belong to its user.
LEMMA LogoutDeleteIInv ==
  ASSUME IInv, NEW r \in Requests, LogoutDelete(r)
  PROVE  IInv'
<1> USE DEF LogoutDelete
<1>1. /\ req \in [Requests -> Request]
      /\ req' = [req EXCEPT ![r] = Idle]
      /\ Local(req[r])
      /\ req[r].alone \in BOOLEAN
  BY DEF IInv, TypeOK, Request
<1>2. /\ \A k \in req[r].hit : k \in stored /\ k.sub = req[r].sub
      /\ req[r].alone => \A s \in sessions :
           s.token.sub = req[r].sub => s.login \in req[r].hit \cup revoked
  BY <1>1 DEF Local, LogoutInv
<1>3. TypeOK'
  <2>1. req' \in [Requests -> Request]
    BY <1>1, IdleIsLocal
  <2>2. (destroyed \subseteq [session : Session, alone : BOOLEAN])'
    BY <1>1 DEF IInv, TypeOK, SessionsOf
  <2> QED
    BY <1>2, <2>1, <2>2 DEF IInv, TypeOK
<1>4. StoreInv'
  <2> USE DEF IInv, StoreInv
  <2>1. (/\ stored \subseteq RefreshToken
         /\ \A k \in held : k.type = "refresh" => k \in stored
         /\ \A s \in sessions : s.login \in stored /\ s.login.sub = s.token.sub
         /\ ExchangeKeepsKind /\ AloneNeverForks)'
    BY DEF ExchangeKeepsKind, AloneNeverForks
  <2>2. RevokedHasCause'
    BY DEF RevokedHasCause, Spent
  <2>3. SessionGoneWithToken'
    BY <1>2 DEF SessionGoneWithToken, SessionsOf
  <2>4. AloneLogoutWhole'
    BY <1>2 DEF AloneLogoutWhole, SessionsOf
  <2> QED
    BY <2>1, <2>2, <2>3, <2>4
<1>5. ASSUME NEW q \in Requests PROVE Local(req[q])'
  <2>1. CASE q = r
    <3>1. req'[q] = Idle
      BY <2>1, <1>1
    <3> QED
      BY <3>1, NoTokenAssumption
         DEF Idle, Local, PairInv, LogoutInv, FirstInv, Signing
  <2>2. CASE q # r
    <3>1. req'[q] = req[q] /\ Local(req[q])
      BY <2>2, <1>1 DEF IInv
    <3>2. sessions' \subseteq sessions /\ revoked \subseteq revoked'
      OBVIOUS
    <3> QED
      BY <3>1, <3>2 DEF Local, PairInv, LogoutInv, FirstInv
  <2> QED
    BY <2>1, <2>2
<1>6. PeersInv'
  BY <1>1 DEF IInv, PeersInv, Idle
<1> QED
  BY <1>3, <1>4, <1>5, <1>6 DEF IInv
--------------------------------------------------------------------------------
\* Every step keeps the invariant, one case per action; a failed, refused or
\* rejected request is the move to Idle of <1>9.
LEMMA NextIInv == IInv /\ [Next]_vars => IInv'
<1> SUFFICES ASSUME IInv, [Next]_vars PROVE IInv'
  OBVIOUS
<1> USE DEF IInv
<1>1. CASE Tick
  <2>1. TypeOK'
    BY <1>1, TimesAssumption DEF Tick, TypeOK, Tables, History
  <2> QED
    BY <1>1, <2>1 DEF Tick, Tables, History, StoreInv, Local, PairInv, LogoutInv,
       FirstInv, PeersInv, RevokedHasCause, Spent, SessionGoneWithToken,
       AloneLogoutWhole, AloneNeverForks, ExchangeKeepsKind
<1>2. ASSUME NEW r \in Requests, NEW u \in Users, LoginStart(r, u) PROVE IInv'
  <2> DEFINE first == [Idle EXCEPT !.pc = "signAccess"]
  <2>1. first \in Request
    BY IdleIsLocal DEF Request
  <2>2. \A b \in BOOLEAN : Local([first EXCEPT !.sub = u, !.alone = b])
    BY NoUserAssumption, NoTokenAssumption
       DEF Idle, Local, PairInv, LogoutInv, FirstInv, Signing, TypeOK
  <2> QED
    BY <1>2, <2>1, <2>2, BeginIInv DEF LoginStart
<1>3. ASSUME NEW r \in Requests, NEW t \in held, RefreshStart(r, t) PROVE IInv'
  <2> DEFINE first == [Idle EXCEPT !.pc = "check", !.old = t]
  <2>1. t \in Token /\ t.sub \in Users
    BY DEF TypeOK, Token
  <2>2. first \in Request
    BY <2>1, IdleIsLocal DEF Request
  <2>3. \A b \in BOOLEAN : Local([first EXCEPT !.sub = t.sub, !.alone = b])
    BY <2>1, NoUserAssumption
       DEF Idle, Local, PairInv, LogoutInv, FirstInv, Signing
  <2> QED
    BY <1>3, <2>1, <2>2, <2>3, BeginIInv DEF RefreshStart
<1>4. ASSUME NEW r \in Requests, NEW t \in held, LogoutStart(r, t) PROVE IInv'
  <2> DEFINE mine == {k \in held : k.sub = t.sub /\ k.type = "refresh"}
             first == [Idle EXCEPT !.pc = "revoke", !.seen = mine]
  <2>1. t \in Token /\ t.sub \in Users
    BY DEF TypeOK, Token
  <2>2. mine \subseteq stored /\ mine \subseteq Token
    BY DEF StoreInv, TypeOK
  <2>3. first \in Request
    BY <2>2, IdleIsLocal DEF Request
  <2>4. \A b \in BOOLEAN : Local([first EXCEPT !.sub = t.sub, !.alone = b])
    BY <2>1, <2>2, NoUserAssumption
       DEF Idle, Local, PairInv, LogoutInv, FirstInv, Signing
  <2> QED
    BY <1>4, <2>1, <2>3, <2>4, BeginIInv DEF LogoutStart
<1>5. ASSUME NEW r \in Requests, SignAccess(r) PROVE IInv'
  <2> DEFINE t == [sub |-> req[r].sub, type |-> "access", iat |-> now]
             next == [req[r] EXCEPT !.pc = "signRefresh", !.access = t]
  <2>1. req[r] \in Request /\ Local(req[r])
    BY DEF TypeOK
  <2>2. req[r].sub \in Users
    BY <1>5, <2>1 DEF SignAccess, Local, PairInv, Request
  <2>3. t \in Token
    BY <2>2 DEF Token, TypeOK
  <2>4. next \in Request
    BY <2>1, <2>3 DEF Request
  <2>5. Local(next)
    BY <1>5, <2>1, <2>3
       DEF SignAccess, Local, PairInv, LogoutInv, FirstInv, Signing, Request
  <2>6. next.sub = req[r].sub /\ next.alone = req[r].alone
    BY <2>1 DEF Request
  <2> QED
    BY <1>5, <2>4, <2>5, <2>6, MoveIInv DEF SignAccess
<1>6. ASSUME NEW r \in Requests, SignRefresh(r) PROVE IInv'
  <2> DEFINE t == [sub |-> req[r].sub, type |-> "refresh", iat |-> now]
             next == [req[r] EXCEPT !.pc = "commit", !.refresh = t]
  <2>1. req[r] \in Request /\ Local(req[r])
    BY DEF TypeOK
  <2>2. req[r].sub \in Users
    BY <1>6, <2>1 DEF SignRefresh, Local, PairInv, Request
  <2>3. t \in RefreshToken
    BY <2>2 DEF RefreshToken, Token, TypeOK
  <2>4. next \in Request
    BY <2>1, <2>3 DEF Request, RefreshToken
  <2>5. Local(next)
    BY <1>6, <2>1, <2>3
       DEF SignRefresh, Local, PairInv, LogoutInv, FirstInv, Signing, Request
  <2>6. next.sub = req[r].sub /\ next.alone = req[r].alone
    BY <2>1 DEF Request
  <2> QED
    BY <1>6, <2>4, <2>5, <2>6, MoveIInv DEF SignRefresh
<1>7. ASSUME NEW r \in Requests, RefreshCheck(r) PROVE IInv'
  <2> DEFINE next == [req[r] EXCEPT !.pc = "signAccess"]
  <2>1. req[r] \in Request /\ Local(req[r])
    BY DEF TypeOK
  <2>2. next \in Request /\ next.sub = req[r].sub /\ next.alone = req[r].alone
    BY <2>1 DEF Request
  <2>3. req[r].old \in stored /\ req[r].old \notin Spent
    BY <1>7 DEF RefreshCheck, Live, StoreInv, RevokedHasCause
  <2>4. FirstInv(next)
    BY <2>1, <2>3 DEF FirstInv, Spent, Request
  <2>5. PairInv(next) /\ LogoutInv(next)
    BY <1>7, <2>1, <2>3
       DEF RefreshCheck, Local, PairInv, LogoutInv, Signing, Request
  <2> QED
    BY <1>7, <2>2, <2>4, <2>5, MoveIInv DEF RefreshCheck, Local
<1>8. ASSUME NEW r \in Requests, LogoutRevoke(r) PROVE IInv'
  <2> DEFINE next == [req[r] EXCEPT !.pc = "delete", !.hit = Live(req[r].sub)]
  <2>1. req[r] \in Request /\ Local(req[r])
    BY DEF TypeOK
  <2>2. Live(req[r].sub) \subseteq stored /\ stored \subseteq Token
    BY DEF Live, TypeOK
  <2>3. next \in Request /\ next.sub = req[r].sub /\ next.alone = req[r].alone
    BY <2>1, <2>2 DEF Request
  <2>4. PairInv(next) /\ FirstInv(next)
    BY <1>8, <2>1
       DEF LogoutRevoke, Local, PairInv, FirstInv, Signing, Request
  <2>5. LogoutInv(next)
    BY <1>8, <2>1 DEF LogoutRevoke, Local, LogoutInv, Live, StoreInv, Request
  <2> QED
    BY <1>8, <2>3, <2>4, <2>5, MoveIInv DEF LogoutRevoke, Local
<1>9. ASSUME NEW r \in Requests, Move(r, Idle) PROVE IInv'
  BY <1>9, IdleIsLocal, MoveIInv
<1>10. CASE UNCHANGED vars
  BY <1>10 DEF vars, TypeOK, StoreInv, Local, PairInv, LogoutInv,
     FirstInv, PeersInv, RevokedHasCause, Spent, SessionGoneWithToken,
     AloneLogoutWhole, AloneNeverForks, ExchangeKeepsKind
<1> QED
  <2> HIDE DEF IInv
  <2> QED
    BY <1>1, <1>2, <1>3, <1>4, <1>5, <1>6, <1>7, <1>8, <1>9, <1>10,
       LoginCommitIInv, RefreshCommitIInv, LogoutDeleteIInv
       DEF Next, Start, Proceed, CommitRefused, RefreshRejected, Abort
--------------------------------------------------------------------------------
\* The invariant holds in every reachable state.
LEMMA Invariance == Spec => []IInv
BY InitIInv, NextIInv, PTL DEF Spec

\* The types, at any size of the system.
THEOREM TypeCorrect == Spec => []TypeOK
BY Invariance, PTL DEF IInv

\* A client whose requests never overlap gets rotation without forks and a
\* logout that is whole.
THEOREM AloneSafe == Spec => []AloneIsWhole
<1>1. IInv => AloneIsWhole
  BY DEF IInv, StoreInv, AloneIsWhole
<1> QED
  BY <1>1, Invariance, PTL

\* The requests of a user come one after the other.
Serial == \A q, r \in Requests :
  q # r /\ req[q].sub \in Users => req[q].sub # req[r].sub

\* What the documents say of rotation and logout: a refresh token is exchanged at
\* most once, and no logout destroys a session and leaves its refresh token alive.
RotationWhole ==
  /\ \A e, f \in exchanged : e.old = f.old => e = f
  /\ \A d \in destroyed : d.session.login \in revoked

\* Where the requests of a user come one after the other, rotation and logout
\* are whole, whatever fails in between: AloneIsWhole excepts nothing but what
\* requests of one user that overlap can do.
THEOREM SerialClientsSafe == Spec /\ []Serial => []RotationWhole
<1> DEFINE AllAlone == /\ \A r \in Requests : req[r].alone
                       /\ \A e \in exchanged : e.alone
                       /\ \A d \in destroyed : d.alone
<1>1. Init => AllAlone
  BY DEF Init, Idle
<1>2. ASSUME IInv, AllAlone, Serial', [Next]_vars PROVE AllAlone'
  <2>1. ASSUME NEW r \in Requests, NEW u \in Users, NEW first \in Request, Begin(r, u, first)
        PROVE  AllAlone'
    <3> DEFINE mine == [first EXCEPT !.sub = u, !.alone = Peers(r, u) = {}]
    <3>1. mine.sub = u /\ mine.alone = (Peers(r, u) = {})
      BY DEF Request
    <3> HIDE DEF mine
    <3>2. /\ req'[r] = mine
          /\ \A q \in Requests : q # r =>
               req'[q] = IF q \in Peers(r, u) THEN [req[q] EXCEPT !.alone = FALSE] ELSE req[q]
      BY <2>1 DEF Begin, mine
    <3>3. ASSUME NEW q \in Peers(r, u) PROVE FALSE
      <4>1. q \in Requests /\ q # r /\ req[q].sub = u /\ req[q] \in Request
        BY <1>2 DEF Peers, IInv, TypeOK
      <4>2. req'[q].sub = u
        BY <3>2, <4>1 DEF Request
      <4> QED
        BY <1>2, <3>1, <3>2, <4>1, <4>2 DEF Serial
    <3> QED
      BY <1>2, <2>1, <3>1, <3>2, <3>3 DEF Begin, History
  <2>2. ASSUME NEW r \in Requests, Start(r) PROVE AllAlone'
    <3>1. \A t \in held : t.sub \in Users /\ t \in Token
      BY <1>2 DEF IInv, TypeOK, Token
    <3>2. [Idle EXCEPT !.pc = "signAccess"] \in Request
      BY DEF Idle, Request
    <3>3. \A t \in held : [Idle EXCEPT !.pc = "check", !.old = t] \in Request
      BY <3>1 DEF Idle, Request
    <3>4. \A t \in held : [Idle EXCEPT !.pc = "revoke",
            !.seen = {k \in held : k.sub = t.sub /\ k.type = "refresh"}] \in Request
      BY <3>1 DEF Idle, Request
    <3> QED
      BY <2>1, <2>2, <3>1, <3>2, <3>3, <3>4 DEF Start, LoginStart, RefreshStart, LogoutStart
  <2>3. ASSUME NEW r \in Requests, Proceed(r) \/ Abort(r) PROVE AllAlone'
    <3>0. req \in [Requests -> Request] /\ Idle.alone = TRUE
      BY <1>2 DEF IInv, TypeOK, Idle
    <3>1. \A q \in Requests : req'[q].alone
      <4>1. PICK next : req' = [req EXCEPT ![r] = next] /\ next.alone
        <5>1. CASE Abort(r) \/ CommitRefused(r) \/ RefreshRejected(r) \/ LoginCommit(r)
                     \/ RefreshCommit(r) \/ LogoutDelete(r)
          BY <3>0, <5>1 DEF Abort, CommitRefused, RefreshRejected, LoginCommit, RefreshCommit,
             LogoutDelete, Answer, Move
        <5>2. CASE SignAccess(r) \/ SignRefresh(r) \/ RefreshCheck(r) \/ LogoutRevoke(r)
          <6>1. req[r] \in Request /\ req[r].alone
            BY <1>2, <3>0
          <6> QED
            BY <5>2, <6>1 DEF SignAccess, SignRefresh, RefreshCheck, LogoutRevoke, Move, Request
        <5> QED
          BY <2>3, <5>1, <5>2 DEF Proceed
      <4> QED
        BY <1>2, <3>0, <4>1
    <3>2. (\A e \in exchanged' : e.alone) /\ (\A d \in destroyed' : d.alone)
      BY <1>2, <2>3 DEF Proceed, Abort, Move, SignAccess, SignRefresh, LoginCommit, History,
         RefreshCommit, CommitRefused, RefreshCheck, RefreshRejected, LogoutRevoke, LogoutDelete
    <3> QED
      BY <3>1, <3>2
  <2>4. CASE Tick \/ UNCHANGED vars
    BY <1>2, <2>4 DEF Tick, vars, History
  <2> QED
    BY <1>2, <2>2, <2>3, <2>4 DEF Next
<1>3. AllAlone /\ AloneIsWhole => RotationWhole
  BY DEF AloneIsWhole, AloneNeverForks, AloneLogoutWhole, RotationWhole
<1> HIDE DEF AllAlone
<1> QED
  BY <1>1, <1>2, <1>3, Invariance, AloneSafe, PTL DEF Spec

\* Every answered login or refresh has a row of its own: what the unique
\* constraint refuses, and nothing else, keeps two answers apart.
THEOREM AnswersDistinct == Spec => []OneRowPerAnswer
<1> DEFINE Counted == IsFiniteSet(stored) /\ OneRowPerAnswer
<1>1. Init => Counted
  BY FS_EmptySet DEF Init, OneRowPerAnswer
<1>2. Counted /\ [Next]_vars => Counted'
  <2> SUFFICES ASSUME Counted, [Next]_vars PROVE Counted'
    OBVIOUS
  <2>1. CASE \E r \in Requests : LoginCommit(r) \/ RefreshCommit(r)
    <3>1. PICK k : k \notin stored /\ stored' = stored \cup {k} /\ answers' = answers + 1
      BY <2>1 DEF LoginCommit, RefreshCommit, Answer, FreshRefresh
    <3> QED
      BY <3>1, FS_AddElement DEF OneRowPerAnswer
  <2>2. CASE UNCHANGED <<stored, answers>>
    BY <2>2 DEF OneRowPerAnswer
  <2> QED
    BY <2>1, <2>2 DEF Next, Start, Proceed, Tick, Tables, History, vars,
       Begin, Move, LoginStart, RefreshStart, LogoutStart, SignAccess, SignRefresh,
       CommitRefused, RefreshCheck, RefreshRejected, LogoutRevoke, LogoutDelete, Abort
<1>3. Counted => OneRowPerAnswer
  OBVIOUS
<1> QED
  BY <1>1, <1>2, <1>3, PTL DEF Spec

\* TablesAgree: every answer has a token of its own; refresh tokens die of an
\* exchange or a logout only, an exchange stays with one user and kind, and no
\* session outlives the logout of its login.
THEOREM TokensSafe == Spec => []TablesAgree
<1>1. IInv /\ OneRowPerAnswer => TablesAgree
  BY DEF IInv, StoreInv, TablesAgree
<1> QED
  BY <1>1, Invariance, AnswersDistinct, PTL

\* When a logout commits, the refresh tokens its client already had are dead,
\* whatever ran beside it.
THEOREM LogoutSafe == Spec => LogoutKillsHeld
<1>1. IInv /\ [Next]_vars =>
        [\A r \in Requests : LogoutDelete(r) => req[r].seen \subseteq revoked']_vars
  <2> SUFFICES ASSUME IInv, NEW r \in Requests, LogoutDelete(r)
               PROVE  req[r].seen \subseteq revoked'
    OBVIOUS
  <2>1. req[r].pc = "delete" /\ Local(req[r])
    BY DEF IInv, LogoutDelete
  <2> QED
    BY <2>1 DEF LogoutDelete, Local, LogoutInv
<1> QED
  BY <1>1, Invariance, PTL DEF Spec, LogoutKillsHeld
--------------------------------------------------------------------------------
(* The refinement of TokenLedger.                                           *)

\* Empty tables are a ledger where every token is absent.
LEMMA LedgerInit == Init => Ledger!Init
BY DEF Init, Ledger!Init, Life

\* The three commits are the three steps of the ledger, all else stutters.
LEMMA LedgerNext == IInv /\ [Next]_vars => [Ledger!Next]_Life
<1> SUFFICES ASSUME IInv, [Next]_vars PROVE Ledger!Next \/ Life' = Life
  OBVIOUS
<1>0. stored \subseteq RefreshToken /\ revoked \subseteq stored
  BY DEF IInv, StoreInv, TypeOK
<1>1. ASSUME NEW r \in Requests, LoginCommit(r) PROVE Ledger!Next
  <2> DEFINE k == req[r].refresh
  <2>1. k \in RefreshToken /\ k \notin stored
    BY <1>1 DEF LoginCommit, FreshRefresh, IInv, Local, PairInv
  <2>2. Life[k] = "absent" /\ Life' = [Life EXCEPT ![k] = "live"]
    BY <1>0, <1>1, <2>1 DEF LoginCommit, Life
  <2> QED
    BY <2>1, <2>2 DEF Ledger!Next, Ledger!Issue
<1>2. ASSUME NEW r \in Requests, RefreshCommit(r) PROVE Ledger!Next
  <2> DEFINE old == req[r].old
             new == req[r].refresh
  <2>1. /\ new \in RefreshToken /\ new \notin stored
        /\ old \in stored /\ old.sub = new.sub
    BY <1>2 DEF RefreshCommit, FreshRefresh, IInv, Local, PairInv, Signing
  <2>2. Life[old] # "absent" /\ Life[new] = "absent"
    BY <1>0, <2>1 DEF Life
  <2>3. Life' = [Life EXCEPT ![old] = "dead", ![new] = "live"]
    BY <1>0, <1>2, <2>1 DEF RefreshCommit, RevokeOld, Life
  <2> QED
    BY <1>0, <2>1, <2>2, <2>3 DEF Ledger!Next, Ledger!Exchange
<1>3. ASSUME NEW r \in Requests, LogoutDelete(r) PROVE Ledger!Next
  <2> DEFINE u == req[r].sub
  <2>1. u \in Users
    BY <1>3 DEF LogoutDelete, IInv, TypeOK, Request, Local, PairInv
  <2>2. \A k \in req[r].hit : k \in stored /\ k.sub = u
    BY DEF IInv, Local, LogoutInv
  <2>3. Life' \in [RefreshToken -> {"absent", "live", "dead"}]
    BY DEF Life
  <2>4. \A t \in RefreshToken : Life'[t] # Life[t] =>
          t.sub = u /\ Life[t] = "live" /\ Life'[t] = "dead"
    BY <1>3, <2>2 DEF LogoutDelete, Life
  <2> QED
    BY <2>1, <2>3, <2>4 DEF Ledger!Next, Ledger!Revoke
<1>4. CASE UNCHANGED <<stored, revoked>>
  BY <1>4 DEF Life
<1> QED
  BY <1>1, <1>2, <1>3, <1>4 DEF Next, Start, Proceed, Tick, Tables, vars,
     Begin, Move, LoginStart, RefreshStart, LogoutStart, SignAccess, SignRefresh,
     CommitRefused, RefreshCheck, RefreshRejected, LogoutRevoke, Abort

\* The requests, their interleavings and the two tables together implement
\* the ledger, where each token has one life.
THEOREM Refinement == Spec => LedgerSpec
BY LedgerInit, LedgerNext, Invariance, PTL DEF Spec, LedgerSpec, Ledger!Spec
================================================================================
