----------------------------- MODULE Session_proofs -----------------------------
(***************************************************************************)
(* The role check ranks the roles, and overlapping sign-ups always leave a *)
(* superadmin, for any set of users (Accounts).  What the browser knows of *)
(* its user, for any number of users, POSTs and queries under way; and     *)
(* that the composition leaves to Accounts what has been proved about it   *)
(* (Session).                                                              *)
(***************************************************************************)
EXTENDS Session, FiniteSetTheorems, TLAPS

-----------------------------------------------------------------------------
(* Accounts *)

\* authorizedRole, written with includes and special cases, is a comparison of ranks.
LEMMA AuthorizedByRank ==
    ASSUME NEW x \in AppRole \cup {None}, NEW S \in SUBSET AppRole, S # {}
    PROVE  authorizedRole(x, S) <=> x # None /\ \E y \in S : Rank[x] >= Rank[y]
  <1>1. None \notin AppRole
    BY AccountsAssumption
  <1>2. /\ Rank[SUPERADMIN] = 3 /\ Rank[ADMIN] = 2 /\ Rank[USER] = 1
    BY DEF Rank, AppRole, SUPERADMIN, ADMIN, USER
  <1>3. CASE x = SUPERADMIN
    BY <1>1, <1>2, <1>3 DEF authorizedRole, AppRole
  <1>4. CASE x = ADMIN
    BY <1>1, <1>2, <1>4 DEF authorizedRole, AppRole, SUPERADMIN, ADMIN, USER
  <1>5. CASE x = USER
    BY <1>1, <1>2, <1>5 DEF authorizedRole, AppRole, SUPERADMIN, ADMIN, USER
  <1>6. CASE x = None
    BY <1>6 DEF authorizedRole
  <1> QED
    BY <1>3, <1>4, <1>5, <1>6 DEF AppRole

\* Whoever signs up while nobody is registered is made a superadmin.
LEMMA FirstSeesItself ==
    ASSUME NEW u \in Users, authUsers = {}
    PROVE  NewRole(u) = SUPERADMIN
  <1>1. SeenBy(u) = {u}
    BY DEF SeenBy
  <1> QED
    BY <1>1, FS_Singleton DEF NewRole

\* Until somebody is registered, every open sign-up is a superadmin's and no row exists;
\* from then on there is a superadmin's row, or a superadmin gave it up.  An open sign-up
\* keeps its row to itself.
SignUpInv ==
    /\ FirstIsSuperadmin
    /\ \A u \in Users : signup[u] # None => role[u] = None
    /\ authUsers = {} => 
         \A u \in Users : role[u] = None /\ signup[u] \in {None, SUPERADMIN}

IInv == TypeOK /\ SignUpInv /\ RunsWithRank

\* No role that sufficed is lost on the way from the check to the resolver, and no sign-up
\* leaves the first users without a superadmin.
LEMMA InductiveStep ==
    /\ Init => IInv
    /\ IInv /\ [Next]_vars => IInv'
  <1>1. Init => IInv
    <2> SUFFICES ASSUME Init PROVE IInv
      OBVIOUS
    <2>1. TypeOK
      BY DEF Init, TypeOK, NoRequest, Request
    <2>2. SignUpInv
      BY DEF Init, SignUpInv, FirstIsSuperadmin
    <2>3. RunsWithRank
      BY DEF Init, RunsWithRank, NoRequest
    <2> QED
      BY <2>1, <2>2, <2>3 DEF IInv
  <1>2. IInv /\ [Next]_vars => IInv'
    <2> SUFFICES ASSUME IInv, [Next]_vars PROVE IInv'
      OBVIOUS
    <2> USE DEF IInv, TypeOK
    <2>1. ASSUME NEW u \in Users, SignUp(u) PROVE IInv'
      <3>1. NewRole(u) \in AppRole
        BY DEF NewRole, AppRole
      <3>2. TypeOK'
        BY <2>1, <3>1 DEF SignUp
      <3>3. SignUpInv'
        BY <2>1, FirstSeesItself DEF SignUp, SignUpInv, FirstIsSuperadmin, Superadmin
      <3>4. RunsWithRank'
        BY <2>1 DEF SignUp, RunsWithRank
      <3> QED
        BY <3>2, <3>3, <3>4
    <2>2. ASSUME NEW u \in Users, Commit(u) PROVE IInv'
      <3>1. TypeOK'
        BY <2>2 DEF Commit
      <3>2. SignUpInv'
        <4>1. authUsers' # {} /\ UNCHANGED retired
          BY <2>2 DEF Commit
        <4>2. \A v \in Users : signup'[v] # None => role'[v] = None
          BY <2>2 DEF Commit, SignUpInv
        <4>3. FirstIsSuperadmin'
          <5>1. CASE authUsers = {}
            <6>1. role'[u] = SUPERADMIN
              BY <2>2, <5>1 DEF Commit, SignUpInv
            <6> QED
              BY <6>1 DEF FirstIsSuperadmin, Superadmin
          <5>2. CASE retired
            BY <4>1, <5>2 DEF FirstIsSuperadmin
          <5>3. CASE authUsers # {} /\ ~retired
            <6>1. PICK v \in Users : role[v] = SUPERADMIN
              BY <5>3 DEF SignUpInv, FirstIsSuperadmin, Superadmin
            <6>2. v # u
              BY <2>2, <6>1, AccountsAssumption DEF Commit, SignUpInv, AppRole
            <6>3. role'[v] = SUPERADMIN
              BY <2>2, <6>1, <6>2 DEF Commit
            <6> QED
              BY <6>3 DEF FirstIsSuperadmin, Superadmin
          <5> QED
            BY <5>1, <5>2, <5>3
        <4> QED
          BY <4>1, <4>2, <4>3 DEF SignUpInv
      <3>3. RunsWithRank'
        BY <2>2 DEF Commit, RunsWithRank
      <3> QED
        BY <3>1, <3>2, <3>3
    <2>3. ASSUME NEW u \in Users, Rollback(u) PROVE IInv'
      <3>1. TypeOK'
        BY <2>3 DEF Rollback
      <3>2. SignUpInv'
        BY <2>3 DEF Rollback, SignUpInv, FirstIsSuperadmin, Superadmin
      <3>3. RunsWithRank'
        BY <2>3 DEF Rollback, RunsWithRank
      <3> QED
        BY <3>1, <3>2, <3>3
    <2>4. ASSUME NEW a \in Users, NEW u \in Users, NEW after \in AppRole \cup {None}, 
                 ChangeRow(a, u, after)
          PROVE  IInv'
      <3>1. TypeOK'
        BY <2>4 DEF ChangeRow
      <3>2. SignUpInv'
        <4>1. authUsers # {} /\ authUsers' = authUsers
          BY <2>4 DEF ChangeRow, SignUpInv
        <4>2. \A v \in Users : signup'[v] # None => role'[v] = None
          BY <2>4 DEF ChangeRow, SignUpInv
        <4>3. FirstIsSuperadmin'
          <5>1. CASE retired \/ role[u] = SUPERADMIN
            BY <2>4, <5>1 DEF ChangeRow, FirstIsSuperadmin
          <5>2. CASE ~retired /\ role[u] # SUPERADMIN
            <6>1. PICK v \in Users : role[v] = SUPERADMIN
              BY <4>1, <5>2 DEF SignUpInv, FirstIsSuperadmin, Superadmin
            <6>2. role'[v] = SUPERADMIN
              BY <2>4, <5>2, <6>1 DEF ChangeRow
            <6> QED
              BY <6>2 DEF FirstIsSuperadmin, Superadmin
          <5> QED
            BY <5>1, <5>2
        <4> QED
          BY <4>1, <4>2, <4>3 DEF SignUpInv
      <3>3. RunsWithRank'
        BY <2>4 DEF ChangeRow, RunsWithRank
      <3> QED
        BY <3>1, <3>2, <3>3
    <2>5. ASSUME NEW r \in Requests, NEW u \in Users \cup {None}, NEW s \in BOOLEAN, Arrive(r, u, s)
          PROVE  IInv'
      <3>0. PICK new \in Request : request' = [request EXCEPT ![r] = new]
        <4> DEFINE n == [NoRequest EXCEPT !.pc = "cookie", !.user = u, !.serverAdmin = s]
        <4>1. n \in Request
          BY DEF NoRequest, Request
        <4>2. request' = [request EXCEPT ![r] = n]
          BY <2>5 DEF Arrive
        <4> QED
          BY <4>1, <4>2
      <3>1. TypeOK'
        <4>1. authUsers' \subseteq Users /\ retired' \in BOOLEAN /\ due' \in [Users -> AppRole \cup {None}]
          BY <2>5 DEF Arrive
        <4>2. role' \in [Users -> AppRole \cup {None}] /\ signup' \in [Users -> AppRole \cup {None}]
          BY <2>5 DEF Arrive
        <4> QED
          BY <3>0, <4>1, <4>2
      <3>2. SignUpInv'
        BY <2>5 DEF Arrive, SignUpInv, FirstIsSuperadmin, Superadmin
      <3>3. RunsWithRank'
        BY <2>5 DEF Arrive, RunsWithRank, NoRequest
      <3> QED
        BY <3>1, <3>2, <3>3
    <2>6. ASSUME NEW r \in Requests, FindUser(r) PROVE IInv'
      <3>1. TypeOK'
        <4> DEFINE u == request[r].user
                   found == IF u = None THEN None ELSE role[u]
        <4>1. found \in AppRole \cup {None} /\ request[r] \in Request
          BY DEF Request
        <4>2. NoRequest \in Request
          BY DEF NoRequest, Request
        <4>3. [request[r] EXCEPT !.pc = "context", !.role = found] \in Request
          BY <4>1 DEF Request
        <4>4. request' \in [Requests -> Request]
          BY <2>6, <4>2, <4>3 DEF FindUser
        <4> QED
          BY <2>6, <4>4 DEF FindUser
      <3>2. SignUpInv'
        BY <2>6 DEF FindUser, SignUpInv, FirstIsSuperadmin, Superadmin
      <3>3. RunsWithRank'
        BY <2>6 DEF FindUser, RunsWithRank, NoRequest
      <3> QED
        BY <3>1, <3>2, <3>3
    <2>7. ASSUME NEW r \in Requests, Respond(r) PROVE IInv'
      <3>1. TypeOK'
        BY <2>7 DEF Respond, NoRequest, Request
      <3>2. SignUpInv'
        BY <2>7 DEF Respond, SignUpInv, FirstIsSuperadmin, Superadmin
      <3>3. RunsWithRank'
        BY <2>7 DEF Respond, RunsWithRank, NoRequest
      <3> QED
        BY <3>1, <3>2, <3>3
    <2>8. ASSUME NEW r \in Requests, NEW needs \in (SUBSET AppRole) \ {{}}, Authorize(r, needs)
          PROVE  IInv'
      <3>1. TypeOK'
        <4> DEFINE after == IF authChecker(request[r], needs) 
                            THEN [request[r] EXCEPT !.pc = "resolver", !.needs = needs] ELSE NoRequest
        <4>1. request[r] \in Request /\ needs \in SUBSET AppRole
          BY <2>8
        <4>2. after \in Request
          BY <4>1 DEF NoRequest, Request
        <4>3. request' = [request EXCEPT ![r] = after] 
              /\ UNCHANGED <<authUsers, role, signup, retired, due>>
          BY <2>8 DEF Authorize
        <4> HIDE DEF after
        <4> QED
          BY <4>2, <4>3
      <3>2. SignUpInv'
        BY <2>8 DEF Authorize, SignUpInv, FirstIsSuperadmin, Superadmin
      <3>3. RunsWithRank'
        <4> SUFFICES ASSUME NEW q \in Requests, 
                            request'[q].pc = "resolver", ~request'[q].serverAdmin
                     PROVE  \E x \in request'[q].needs : 
                              request'[q].role # None /\ Rank[request'[q].role] >= Rank[x]
          BY DEF RunsWithRank
        <4>1. CASE q # r
          BY <2>8, <4>1 DEF Authorize, RunsWithRank
        <4>2. CASE q = r
          <5>1. authChecker(request[r], needs)
            BY <2>8, <4>2 DEF Authorize, NoRequest
          <5>2. request'[r] = [request[r] EXCEPT !.pc = "resolver", !.needs = needs]
            BY <2>8, <5>1 DEF Authorize
          <5>3. /\ request'[r].needs = needs /\ request'[r].role = request[r].role 
                /\ request'[r].serverAdmin = request[r].serverAdmin
            BY <5>2
          <5>4. authorizedRole(request[r].role, needs)
            BY <4>2, <5>1, <5>3 DEF authChecker
          <5>5. /\ request[r].role # None 
                /\ \E x \in needs : Rank[request[r].role] >= Rank[x]
            <6>1. request[r].role \in AppRole \cup {None}
              BY DEF Request
            <6>2. needs \in SUBSET AppRole /\ needs # {}
              BY <2>8
            <6> QED
              BY <5>4, <6>1, <6>2, AuthorizedByRank
          <5> QED
            BY <4>2, <5>3, <5>5
        <4> QED
          BY <4>1, <4>2
      <3> QED
        BY <3>1, <3>2, <3>3
    <2>9. CASE UNCHANGED vars
      BY <2>9 DEF vars, SignUpInv, FirstIsSuperadmin, Superadmin, RunsWithRank
    <2> QED
      BY <2>1, <2>2, <2>3, <2>4, <2>5, <2>6, <2>7, <2>8, <2>9 DEF Next
  <1> QED
    BY <1>1, <1>2

LEMMA Inductive == Spec => []IInv
BY InductiveStep, PTL DEF Spec

\* The state stays of its type: the trigger and the policies write roles, and a request
\* holds what FindUser read.
THEOREM TypeCorrect == Spec => []TypeOK
  <1>1. IInv => TypeOK
    BY DEF IInv
  <1> QED
    BY <1>1, Inductive, PTL

\* A resolver runs only for the trusted server, or for a role that ranks high enough.
THEOREM RankCorrect == Spec => []RunsWithRank
  <1>1. IInv => RunsWithRank
    BY DEF IInv
  <1> QED
    BY <1>1, Inductive, PTL

\* However many users sign up at once, and whichever of them are rolled back, there is a
\* superadmin once anybody is registered, until a superadmin gives it up.
THEOREM FirstCorrect == Spec => []FirstIsSuperadmin
  <1>1. IInv => FirstIsSuperadmin
    BY DEF IInv, SignUpInv
  <1> QED
    BY <1>1, Inductive, PTL

\* What a policy lets the user do who makes the change is rightful, if the roles so far were:
\* nobody's own role is exceeded, neither by the role taken nor by the one given.
LEMMA PolicyIsRightful ==
    ASSUME TypeOK, NoSelfPromotion, NEW a \in Users, NEW u \in Users, 
           NEW after \in AppRole \cup {None}, role[a] # None, Policy(role[a], role[u], after)
    PROVE  Rightful(a, role[u], after)
  <1>1. /\ Rank[SUPERADMIN] = 3 /\ Rank[ADMIN] = 2 /\ Rank[USER] = 1
    BY DEF Rank, AppRole, SUPERADMIN, ADMIN, USER
  <1>2. due[a] = role[a] /\ role[u] \in AppRole \cup {None}
    BY DEF NoSelfPromotion, TypeOK
  <1>3. CASE role[a] = SUPERADMIN
    BY <1>1, <1>2, <1>3 DEF Rightful, AppRole
  <1>4. CASE role[a] = ADMIN /\ role[u] # SUPERADMIN /\ after # SUPERADMIN
    BY <1>1, <1>2, <1>4 DEF Rightful, AppRole
  <1> QED
    BY <1>3, <1>4 DEF Policy

\* No sequence of row changes gives a role, or takes one, that is higher than the role of the
\* user who does it, on the own account or another's: every role comes from a sign-up, hand
\* by hand.
THEOREM PromotionCorrect == Spec => []NoSelfPromotion
  <1>1. Init => NoSelfPromotion
    BY DEF Init, NoSelfPromotion
  <1>2. TypeOK /\ NoSelfPromotion /\ [Next]_vars => NoSelfPromotion'
    <2> SUFFICES ASSUME TypeOK, NoSelfPromotion, [Next]_vars PROVE NoSelfPromotion'
      OBVIOUS
    <2>1. ASSUME NEW u \in Users, Commit(u) PROVE NoSelfPromotion'
      BY <2>1 DEF Commit, TypeOK, NoSelfPromotion
    <2>2. ASSUME NEW a \in Users, NEW u \in Users, NEW after \in AppRole \cup {None}, 
                 ChangeRow(a, u, after)
          PROVE  NoSelfPromotion'
      <3>1. Rightful(a, role[u], after)
        BY <2>2, PolicyIsRightful DEF ChangeRow
      <3> QED
        BY <2>2, <3>1 DEF ChangeRow, TypeOK, NoSelfPromotion
    <2>3. ASSUME UNCHANGED <<role, due>> PROVE NoSelfPromotion'
      BY <2>3 DEF NoSelfPromotion
    <2> QED
      BY <2>1, <2>2, <2>3 DEF Next, vars, SignUp, Rollback, Arrive, FindUser, Respond, Authorize
  <1> QED
    BY <1>1, <1>2, TypeCorrect, PTL DEF Spec

-----------------------------------------------------------------------------
(* Session *)

allVars == <<vars, sessionVars>>

\* Only a step of AccountsStep changes what Accounts is about, and it changes nothing else.
LEMMA StepsApart ==
    ASSUME [SessionNext]_allVars
    PROVE  \/ AccountsStep /\ UNCHANGED sessionVars
           \/ UNCHANGED vars
BY DEF SessionNext, AccountsStep, SignIn, AppUserFound, AppUserMissing, SignOut, TokenRefreshed,
       Notified, PostEnds, PostAnswered, PostFailed, Visit, Load, LeaveSettings, allVars

LEMMA AccountsSteps == SessionTypeOK /\ [SessionNext]_allVars => [Next]_vars
  <1> SUFFICES ASSUME SessionTypeOK, [SessionNext]_allVars, ~UNCHANGED vars PROVE Next
    OBVIOUS
  <1>1. AccountsStep
    BY StepsApart
  <1>2. cookie \in Users \cup {None}
    BY DEF SessionTypeOK
  <1>3. ASSUME NEW r \in Requests, SendRequest(r) PROVE Next
    BY <1>2, <1>3 DEF SendRequest, Next
  <1>4. ASSUME NEW r \in Requests, Arrive(r, None, TRUE) PROVE Next
    BY <1>4 DEF Next
  <1> QED
    BY <1>1, <1>3, <1>4 DEF AccountsStep, Next

-----------------------------------------------------------------------------
(* The events, and the requests that pass them on *)

\* What the listener of onAuthStateChange does: the event is one of three, and tells of the
\* user that the page takes for its own.
LEMMA EventsTell ==
    ASSUME SessionTypeOK, 
           (\E u \in Users : SignIn(u)) \/ SignOut \/ TokenRefreshed
    PROVE  \E u \in Users \cup {None}, e \in Event : 
             /\ Notified(e, u)
             /\ IF SetsCookie(e) THEN e.user = u ELSE u = user
             /\ e # NoEvent
  <1>1. ASSUME NEW u \in Users, SignIn(u) 
        PROVE  Notified(SignedIn(u), u) /\ SignedIn(u) \in Event /\ SignedIn(u) # NoEvent 
               /\ SetsCookie(SignedIn(u)) /\ SignedIn(u).user = u
    BY <1>1 DEF SignIn, Event, SignedIn, NoEvent, SetsCookie
  <1>2. ASSUME SignOut 
        PROVE  Notified(SignedOut, None) /\ SignedOut \in Event /\ SignedOut # NoEvent 
               /\ SetsCookie(SignedOut) /\ SignedOut.user = None
    BY <1>2 DEF SignOut, Event, SignedOut, NoEvent, SetsCookie
  <1>3. ASSUME TokenRefreshed
        PROVE  Notified(OtherEvent, user) /\ OtherEvent \in Event /\ OtherEvent # NoEvent 
               /\ ~SetsCookie(OtherEvent) /\ user \in Users \cup {None}
    BY <1>3 DEF TokenRefreshed, Event, OtherEvent, NoEvent, SetsCookie, SessionTypeOK
  <1> QED
    BY <1>1, <1>2, <1>3

LEMMA NoneSetsNothing == ~SetsCookie(NoEvent) /\ NoEvent \in Event
BY DEF SetsCookie, NoEvent, Event

LEMMA EventUsers == \A e \in Event : e.user \in Users \cup {None}
BY DEF Event, SignedIn, SignedOut, OtherEvent, NoEvent

\* A page is served, or the login is.
LEMMA ServedPages == 
    ASSUME NEW path \in Pages, NEW as
    PROVE  Served(path, as) \in Pages /\ (as = None => Served(path, as) = Login)
BY DEF Served, Pages

LEMMA PageAfterPages ==
    ASSUME SessionTypeOK, NEW e \in Event, NEW as
    PROVE  /\ PageAfter(e, as) \in Pages
           /\ e.user = None /\ SetsCookie(e) => PageAfter(e, as) = Login
           /\ ~SetsCookie(e) => PageAfter(e, as) = page
  <1>1. CASE e.event = "SIGNED_IN"
    <2>1. PageAfter(e, as) = Served(Home, as) /\ SetsCookie(e)
      BY <1>1 DEF PageAfter, SetsCookie
    <2>2. e.user \in Users
      BY <1>1 DEF Event, SignedIn, SignedOut, OtherEvent, NoEvent
    <2> QED
      BY <2>1, <2>2, ServedPages, AccountsAssumption DEF Pages
  <1>2. CASE e.event = "SIGNED_OUT"
    BY <1>2 DEF PageAfter, SetsCookie, Pages
  <1>3. CASE e.event \notin {"SIGNED_IN", "SIGNED_OUT"}
    BY <1>3 DEF PageAfter, SetsCookie, SessionTypeOK
  <1> QED
    BY <1>1, <1>2, <1>3

-----------------------------------------------------------------------------
(* The type invariant *)

LEMMA TypeStep == TypeOK /\ SessionTypeOK /\ [SessionNext]_allVars => SessionTypeOK'
  <1> SUFFICES ASSUME TypeOK, SessionTypeOK, [SessionNext]_allVars PROVE SessionTypeOK'
    OBVIOUS
  <1> USE DEF SessionTypeOK
  <1>1. CASE UNCHANGED sessionVars
    BY <1>1 DEF sessionVars
  <1>2. CASE (\E u \in Users : SignIn(u)) \/ SignOut \/ TokenRefreshed
    <2>1. PICK u \in Users \cup {None}, e \in Event : Notified(e, u)
      BY <1>2, EventsTell
    <2>2. /\ user' \in Users \cup {None} /\ appUser' \in [id : Users, role : AppRole] \cup {None}
          /\ queries' \in [Users -> 0..MaxQueries] /\ crossed' \in BOOLEAN
      <3>1. CASE SameUser(u)
        BY <3>1 DEF SameUser
      <3>2. CASE AnotherUser(u)
        <4>1. user' \in Users \cup {None} /\ crossed' \in BOOLEAN 
              /\ appUser' \in [id : Users, role : AppRole] \cup {None}
          BY <3>2 DEF AnotherUser
        <4>2. CASE u = None
          BY <3>2, <4>1, <4>2 DEF AnotherUser
        <4>3. CASE u # None
          <5>1. u \in Users /\ queries[u] \in 0..MaxQueries /\ queries[u] < MaxQueries
            BY <3>2, <4>3 DEF AnotherUser
          <5>2. queries[u] + 1 \in 0..MaxQueries
            BY <5>1, SessionAssumption
          <5>3. queries' = [queries EXCEPT ![u] = queries[u] + 1]
            BY <3>2, <4>3 DEF AnotherUser
          <5> QED
            BY <4>1, <5>1, <5>2, <5>3
        <4> QED
          BY <4>2, <4>3
      <3> QED
        BY <2>1, <3>1, <3>2 DEF Notified
    <2>3. posts' \in [Posts -> Event] /\ raced' \in BOOLEAN
      BY <2>1 DEF Notified, Sent
    <2>4. cookie' = cookie /\ page' = page
      BY <2>1 DEF Notified
    <2> QED
      BY <2>2, <2>3, <2>4
  <1>3. ASSUME NEW u \in Users, AppUserFound(u) \/ AppUserMissing(u) PROVE SessionTypeOK'
    <2>1. /\ queries' = [queries EXCEPT ![u] = queries[u] - 1]
          /\ queries[u] > 0 /\ queries[u] \in 0..MaxQueries
          /\ crossed' \in BOOLEAN
          /\ UNCHANGED <<user, posts, cookie, page, raced>>
      BY <1>3 DEF AppUserFound, AppUserMissing
    <2>2. queries[u] - 1 \in 0..MaxQueries
      BY <2>1, SessionAssumption
    <2>3. appUser' \in [id : Users, role : AppRole] \cup {None}
      BY <1>3 DEF AppUserFound, AppUserMissing, TypeOK
    <2> QED
      BY <2>1, <2>2, <2>3
  <1>4. ASSUME NEW p \in Posts, PostEnds(p) PROVE SessionTypeOK'
    <2>1. posts[p] \in Event
      OBVIOUS
    <2>2. /\ posts' = [posts EXCEPT ![p] = NoEvent]
          /\ raced' \in BOOLEAN
          /\ UNCHANGED <<user, appUser, queries, crossed>>
      BY <1>4 DEF PostEnds, PostAnswered, PostFailed
    <2>3. cookie' \in Users \cup {None}
      BY <1>4, <2>1, EventUsers DEF PostEnds, PostAnswered, PostFailed, CookieAfter
    <2>4. page' \in Pages
      BY <1>4, <2>1, PageAfterPages DEF PostEnds, PostAnswered, PostFailed
    <2> QED
      BY <2>2, <2>3, <2>4, NoneSetsNothing
  <1>5. ASSUME NEW path \in Pages, Visit(path) PROVE SessionTypeOK'
    BY <1>5, ServedPages DEF Visit
  <1>6. CASE LeaveSettings
    BY <1>6, ServedPages DEF LeaveSettings, Pages
  <1>7. ASSUME NEW path \in Pages, Load(path) PROVE SessionTypeOK'
    <2>1. page' \in Pages /\ user' = user /\ appUser' = None /\ crossed' = FALSE /\ raced' \in BOOLEAN
      BY <1>7, ServedPages DEF Load
    <2>2. cookie' \in Users \cup {None}
      BY <1>7, EventUsers DEF Load, CookieAfter
    <2>3. posts' \in [Posts -> Event]
      BY <1>7, NoneSetsNothing DEF Load
    <2>4. queries' \in [Users -> 0..MaxQueries]
      BY <1>7, SessionAssumption DEF Load
    <2> QED
      BY <2>1, <2>2, <2>3, <2>4
  <1> QED
    BY <1>1, <1>2, <1>3, <1>4, <1>5, <1>6, <1>7 DEF SessionNext, AccountsStep, allVars

LEMMA InitTypes == SessionInit => SessionTypeOK
  <1> SUFFICES ASSUME SessionInit PROVE SessionTypeOK
    OBVIOUS
  <1>1. posts \in [Posts -> Event] /\ queries \in [Users -> 0..MaxQueries]
    BY NoneSetsNothing, SessionAssumption DEF SessionInit
  <1> QED
    BY <1>1 DEF SessionInit, SessionTypeOK, Pages

-----------------------------------------------------------------------------
(* The invariants *)

\* Without a race at most one POST under way sets the cookie, and it tells of the user.
CookieInv ==
    ~raced =>
        /\ \A p, q \in Posts : SetsCookie(posts[p]) /\ SetsCookie(posts[q]) => p = q
        /\ \A p \in Posts : SetsCookie(posts[p]) => posts[p].user = user
        /\ (\A p \in Posts : ~SetsCookie(posts[p])) => 
              cookie = user /\ (user = None => page = Login)

\* Without a crossing all queries under way are for the user.
AppUserInv ==
    ~crossed =>
        /\ \A v \in Users : v # user => queries[v] = 0
        /\ user = None => appUser = None
        /\ user # None /\ queries[user] = 0 => appUser # None /\ appUser.id = user

LEMMA CookieStep == SessionTypeOK /\ CookieInv /\ [SessionNext]_allVars => CookieInv'
  <1> SUFFICES ASSUME SessionTypeOK, CookieInv, [SessionNext]_allVars PROVE CookieInv'
    OBVIOUS
  <1> USE DEF CookieInv
  <1>1. CASE UNCHANGED sessionVars
    BY <1>1 DEF sessionVars, SetsCookie
  <1>2. CASE (\E u \in Users : SignIn(u)) \/ SignOut \/ TokenRefreshed
    <2>1. PICK u \in Users \cup {None}, e \in Event : 
            Notified(e, u) /\ e # NoEvent /\ IF SetsCookie(e) THEN e.user = u ELSE u = user
      BY <1>2, EventsTell
    <2>2. PICK p \in Posts : posts[p] = NoEvent /\ posts' = [posts EXCEPT ![p] = e]
      BY <2>1 DEF Notified, Sent
    <2>3. posts'[p] = e /\ \A q \in Posts \ {p} : posts'[q] = posts[q]
      BY <2>2 DEF SessionTypeOK
    <2>4. user' = u /\ cookie' = cookie /\ page' = page
      BY <2>1 DEF Notified, SameUser, AnotherUser
    <2>5. CASE SetsCookie(e)
      <3> SUFFICES ASSUME ~raced' PROVE CookieInv'
        OBVIOUS
      <3>1. \A q \in Posts : ~SetsCookie(posts[q])
        BY <2>1, <2>5 DEF Notified, Sent
      <3>2. \A q \in Posts : SetsCookie(posts'[q]) => q = p
        BY <2>3, <3>1
      <3>3. \A q \in Posts : SetsCookie(posts[q])' <=> SetsCookie(posts'[q])
        BY DEF SetsCookie
      <3> QED
        BY <2>1, <2>3, <2>4, <2>5, <3>2, <3>3
    <2>6. CASE ~SetsCookie(e)
      <3>1. user' = user /\ raced' = raced
        BY <2>1, <2>4, <2>6 DEF Notified, Sent
      <3>2. \A q \in Posts : SetsCookie(posts'[q]) <=> SetsCookie(posts[q])
        BY <2>2, <2>3, <2>6, NoneSetsNothing
      <3>3. \A q \in Posts : SetsCookie(posts[q])' <=> SetsCookie(posts'[q])
        BY DEF SetsCookie
      <3>4. \A q \in Posts : SetsCookie(posts[q]) => posts'[q] = posts[q]
        BY <2>2, <2>3, NoneSetsNothing
      <3> QED
        BY <2>4, <3>1, <3>2, <3>3, <3>4
    <2> QED
      BY <2>5, <2>6
  <1>3. ASSUME NEW u \in Users, AppUserFound(u) \/ AppUserMissing(u) PROVE CookieInv'
    BY <1>3 DEF AppUserFound, AppUserMissing, SetsCookie
  <1>4. ASSUME NEW p \in Posts, PostEnds(p) PROVE CookieInv'
    <2> SUFFICES ASSUME ~raced' PROVE CookieInv'
      OBVIOUS
    <2>1. posts[p] \in Event /\ user' = user /\ posts' = [posts EXCEPT ![p] = NoEvent] /\ ~raced
      BY <1>4 DEF PostEnds, PostAnswered, PostFailed, SessionTypeOK
    <2>2. posts'[p] = NoEvent /\ \A q \in Posts \ {p} : posts'[q] = posts[q]
      BY <2>1 DEF SessionTypeOK
    <2>3. \A q \in Posts : SetsCookie(posts[q])' <=> SetsCookie(posts'[q])
      BY DEF SetsCookie
    <2>4. \A q \in Posts : SetsCookie(posts'[q]) => q # p /\ SetsCookie(posts[q]) /\ posts'[q] = posts[q]
      BY <2>2, NoneSetsNothing
    <2>5. CASE SetsCookie(posts[p])
      <3>1. PostAnswered(p)
        BY <1>4, <2>5 DEF PostEnds, PostFailed
      <3>2. \A q \in Posts : ~SetsCookie(posts'[q])
        BY <2>1, <2>4, <2>5
      <3>3. cookie' = user
        BY <2>1, <2>5, <3>1 DEF PostAnswered, CookieAfter
      <3>4. user = None => page' = Login
        BY <2>1, <2>5, <3>1, PageAfterPages DEF PostAnswered
      <3> QED
        BY <2>1, <2>3, <3>2, <3>3, <3>4
    <2>6. CASE ~SetsCookie(posts[p])
      <3>1. cookie' = cookie /\ page' = page
        BY <1>4, <2>1, <2>6, PageAfterPages DEF PostEnds, PostAnswered, PostFailed, CookieAfter
      <3>2. (\A q \in Posts : ~SetsCookie(posts'[q])) => \A q \in Posts : ~SetsCookie(posts[q])
        BY <2>2, <2>6
      <3> QED
        BY <2>1, <2>3, <2>4, <3>1, <3>2
    <2> QED
      BY <2>5, <2>6
  <1>5. ASSUME NEW path \in Pages, Visit(path) PROVE CookieInv'
    <2>1. page # Login /\ UNCHANGED <<user, posts, cookie, raced>>
      BY <1>5 DEF Visit
    <2> QED
      BY <2>1 DEF SetsCookie
  <1>6. CASE LeaveSettings
    <2>1. page # Login /\ UNCHANGED <<user, posts, cookie, raced>>
      BY <1>6 DEF LeaveSettings, Settings, Login
    <2> QED
      BY <2>1 DEF SetsCookie
  <1>7. ASSUME NEW path \in Pages, Load(path) PROVE CookieInv'
    <2> SUFFICES ASSUME ~raced' PROVE CookieInv'
      OBVIOUS
    <2>1. ~raced /\ user' = user /\ \A p \in Posts : ~SetsCookie(posts[p])
      BY <1>7 DEF Load
    <2>2. cookie' = cookie /\ page' = Served(path, cookie)
      BY <1>7, <2>1 DEF Load, CookieAfter
    <2>3. \A p \in Posts : ~SetsCookie(posts[p])'
      BY <1>7, NoneSetsNothing DEF Load, SetsCookie
    <2> QED
      BY <2>1, <2>2, <2>3, ServedPages
  <1> QED
    BY <1>1, <1>2, <1>3, <1>4, <1>5, <1>6, <1>7 DEF SessionNext, AccountsStep, allVars

LEMMA AppUserStep == TypeOK /\ SessionTypeOK /\ AppUserInv /\ [SessionNext]_allVars => AppUserInv'
  <1> SUFFICES ASSUME TypeOK, SessionTypeOK, AppUserInv, [SessionNext]_allVars PROVE AppUserInv'
    OBVIOUS
  <1> USE DEF AppUserInv
  <1>0. \A v \in Users : queries[v] \in Nat /\ v # None
    BY AccountsAssumption DEF SessionTypeOK
  <1>1. CASE UNCHANGED <<user, appUser, queries, crossed>>
    BY <1>1
  <1>2. CASE (\E u \in Users : SignIn(u)) \/ SignOut \/ TokenRefreshed
    <2>1. PICK u \in Users \cup {None} : SameUser(u) \/ AnotherUser(u)
      BY <1>2, EventsTell DEF Notified
    <2>2. CASE SameUser(u)
      BY <1>1, <2>2 DEF SameUser
    <2>3. CASE AnotherUser(u)
      <3> SUFFICES ASSUME ~crossed' PROVE AppUserInv'
        OBVIOUS
      <3>1. user' = u /\ \A v \in Users : v # u => queries[v] = 0
        BY <1>0, <2>3 DEF AnotherUser
      <3>2. CASE u = None
        BY <2>3, <3>1, <3>2 DEF AnotherUser
      <3>3. CASE u # None
        <4>1. u \in Users /\ queries' = [queries EXCEPT ![u] = queries[u] + 1]
          BY <2>3, <3>3 DEF AnotherUser
        <4>2. queries'[u] # 0 /\ \A v \in Users : v # u => queries'[v] = 0
          BY <1>0, <3>1, <4>1 DEF SessionTypeOK
        <4> QED
          BY <3>1, <3>3, <4>2
      <3> QED
        BY <3>2, <3>3
    <2> QED
      BY <2>1, <2>2, <2>3
  <1>3. ASSUME NEW u \in Users, AppUserFound(u) PROVE AppUserInv'
    <2> SUFFICES ASSUME ~crossed' PROVE AppUserInv'
      OBVIOUS
    <2>1. /\ ~crossed /\ user' = user /\ queries[u] > 0
          /\ appUser' = [id |-> u, role |-> role[u]]
          /\ queries' = [queries EXCEPT ![u] = queries[u] - 1]
      BY <1>3 DEF AppUserFound
    <2>2. u = user
      BY <1>0, <2>1
    <2>3. appUser' # None
      <3>1. role[u] \in AppRole
        BY <1>3 DEF AppUserFound, TypeOK
      <3> QED
        BY <2>1, <3>1, SessionAssumption
    <2>4. \A v \in Users : v # user' => queries'[v] = 0
      BY <2>1, <2>2 DEF SessionTypeOK
    <2> QED
      BY <1>0, <2>1, <2>2, <2>3, <2>4
  <1>4. ASSUME NEW u \in Users, AppUserMissing(u) PROVE AppUserInv'
    BY <1>4 DEF AppUserMissing
  <1>5. ASSUME NEW path \in Pages, Load(path) PROVE AppUserInv'
    BY <1>0, <1>5 DEF Load, SessionTypeOK
  <1> QED
    BY <1>1, <1>2, <1>3, <1>4, <1>5 
    DEF SessionNext, AccountsStep, PostEnds, PostAnswered, PostFailed, Visit, LeaveSettings, 
        sessionVars, allVars

\* What holds of every state that the composition reaches.
SessionIInv == IInv /\ SessionTypeOK /\ CookieInv /\ AppUserInv

LEMMA SessionInductive == SessionSpec => []SessionIInv
  <1>1. SessionInit => SessionIInv
    <2>1. SessionInit => CookieInv /\ AppUserInv
      BY NoneSetsNothing DEF SessionInit, CookieInv, AppUserInv
    <2> QED
      BY <2>1, InitTypes, InductiveStep DEF SessionInit, SessionIInv
  <1>2. SessionIInv /\ [SessionNext]_allVars => SessionIInv'
    <2> SUFFICES ASSUME SessionIInv, [SessionNext]_allVars PROVE SessionIInv'
      OBVIOUS
    <2>1. TypeOK
      BY DEF SessionIInv, IInv
    <2> QED
      BY <2>1, InductiveStep, AccountsSteps, TypeStep, CookieStep, AppUserStep DEF SessionIInv
  <1> QED
    BY <1>1, <1>2, PTL DEF SessionSpec, allVars

\* The composition implements Accounts: a browser sends its requests with the cookie of one
\* of the users, or with none, and changes no account by itself.  What is proved of Accounts
\* holds of the whole.
THEOREM AccountsKept == SessionSpec => Spec
  <1>1. SessionIInv => SessionTypeOK
    BY DEF SessionIInv
  <1>2. SessionInit => Init
    BY DEF SessionInit
  <1> QED
    BY <1>1, <1>2, AccountsSteps, SessionInductive, PTL DEF SessionSpec, Spec, allVars

\* The state stays of its type: events tell of users, POSTs leave the cookie of one, and the
\* queries under way never number less than none.
THEOREM SessionTypeCorrect == SessionSpec => []SessionTypeOK
  <1>1. SessionIInv => SessionTypeOK
    BY DEF SessionIInv
  <1> QED
    BY <1>1, SessionInductive, PTL

\* The cookie is the session's user, and a browser without a user is at the login page, once
\* all POSTs are answered, whatever the number of users and POSTs, unless they overlap or fail.
THEOREM CookieCorrect == SessionSpec => []CookieFollows
  <1>1. SessionIInv => CookieFollows
    BY NoneSetsNothing DEF SessionIInv, CookieInv, CookieFollows
  <1> QED
    BY <1>1, SessionInductive, PTL

\* The row that the page shows its user by is the session's user's, once all queries are
\* answered, unless queries for different users cross or one fails.
THEOREM AppUserCorrect == SessionSpec => []AppUserFollows
  <1>1. SessionIInv => AppUserFollows
    BY DEF SessionIInv, SessionTypeOK, AppUserInv, AppUserFollows
  <1> QED
    BY <1>1, SessionInductive, PTL
=============================================================================
