-------------------------------- MODULE Session --------------------------------
(***************************************************************************)
(* Who the browser takes its user for, on top of Accounts.  The page knows *)
(* a user three times over: supabase's session (hooks/useAuth.ts), the     *)
(* cookie that pages and GraphQL requests are served by (pages/api/auth),  *)
(* and the row of public.User (contexts/app_user.ts).  A change of the     *)
(* session is passed on to the other two by requests that may be answered  *)
(* in any order, or never.                                                 *)
(*                                                                         *)
(* supabase is external: it tells of sign-ins and sign-outs of any tab at  *)
(* any time, and of a refreshed token.                                     *)
(***************************************************************************)
EXTENDS Accounts

CONSTANTS
    Posts,         \* bound: the POSTs to /api/auth that may be under way
    MaxQueries     \* bound: the queries for one app user that may be

ASSUME SessionAssumption == MaxQueries \in Nat \ {0} /\ None \notin [id : Users, role : AppRole]

VARIABLES
    user,       \* the user of useAuth, and of supabase's session
    posts,      \* the event that each POST under way tells of
    cookie,     \* the user of the browser's cookie
    page,       \* the path of the page shown
    appUser,    \* the row that useAppUser has, or None
    queries,    \* per user, the queries of useAppUser under way
    raced,      \* ghost: POSTs have overlapped or failed since the last one alone
    crossed     \* ghost: the same of the queries, if for different users

sessionVars == <<user, posts, cookie, page, appUser, queries, raced, crossed>>

Login == "/login"
Home == "/"
Settings == "/settings"
Pages == {Login, Home, Settings}

\* Of the session, setAuthCookie takes the user of a sign-in.
SignedIn(u) == [event |-> "SIGNED_IN", user |-> u]
SignedOut == [event |-> "SIGNED_OUT", user |-> None]
OtherEvent == [event |-> "TOKEN_REFRESHED", user |-> None]
NoEvent == [event |-> "none", user |-> None]

Event == {SignedIn(u) : u \in Users} \cup {SignedOut, OtherEvent, NoEvent}

SessionTypeOK ==
    /\ user \in Users \cup {None} /\ cookie \in Users \cup {None}
    /\ posts \in [Posts -> Event]
    /\ page \in Pages
    /\ appUser \in [id : Users, role : AppRole] \cup {None}
    /\ queries \in [Users -> 0..MaxQueries]
    /\ raced \in BOOLEAN /\ crossed \in BOOLEAN

SessionInit ==
    /\ Init
    /\ user = None /\ cookie = None /\ appUser = None
    /\ posts = [p \in Posts |-> NoEvent]
    /\ page = Login
    /\ queries = [u \in Users |-> 0]
    /\ raced = FALSE /\ crossed = FALSE

-----------------------------------------------------------------------------
(* Pages *)

\* authServerSideProps sends a browser without a cookie to the login page.
Served(path, as) == IF as = None THEN Login ELSE path

IsAdmin(row) == row # None /\ row.role \in {SUPERADMIN, ADMIN}

\* The links of the sidebar, which only an admin has to the settings.
Visit(path) ==
    /\ page # Login /\ path # Login
    /\ path = Settings => IsAdmin(appUser)
    /\ page' = Served(path, cookie)
    /\ UNCHANGED <<vars, user, posts, cookie, appUser, queries, raced, crossed>>

\* The settings page sends those away whose role does not suffice.
LeaveSettings ==
    /\ page = Settings
    /\ appUser # None /\ appUser.role = USER
    /\ page' = Served(Home, cookie)
    /\ UNCHANGED <<vars, user, posts, cookie, appUser, queries, raced, crossed>>

-----------------------------------------------------------------------------
(* useAppUser *)

\* Mutant of AnotherUser: the app user is not reset.
AnotherUser_Kept(u) ==
    /\ u # None \/ user # None
    /\ user' = u
    /\ u # None => queries[u] < MaxQueries
    /\ queries' = IF u = None THEN queries ELSE [queries EXCEPT ![u] = @ + 1]
    /\ crossed' = \E v \in Users \ {u} : queries[v] > 0
    /\ UNCHANGED appUser

\* The effect on [user] runs: the user is another object, maybe of the same user.
AnotherUser(u) ==
    /\ u # None \/ user # None
    /\ user' = u
    /\ u # None => queries[u] < MaxQueries
    /\ queries' = IF u = None THEN queries ELSE [queries EXCEPT ![u] = @ + 1]
    /\ appUser' = IF u = None THEN None ELSE appUser
    /\ crossed' = \E v \in Users \ {u} : queries[v] > 0

\* It does not: setUser has been given what it had.
SameUser(u) == u = user /\ UNCHANGED <<user, queries, appUser, crossed>>

\* The answer for an earlier user is taken as any other.
AppUserFound(u) ==
    /\ queries[u] > 0
    /\ role[u] # None
    /\ queries' = [queries EXCEPT ![u] = @ - 1]
    /\ appUser' = [id |-> u, role |-> role[u]]
    /\ UNCHANGED <<vars, user, posts, cookie, page, raced, crossed>>

\* The request fails, or there is no such row: captureError, and no other try.
AppUserMissing(u) ==
    /\ queries[u] > 0
    /\ queries' = [queries EXCEPT ![u] = @ - 1]
    /\ crossed' = TRUE
    /\ UNCHANGED <<vars, user, posts, cookie, page, appUser, raced>>

-----------------------------------------------------------------------------
(* useAuth *)

SetsCookie(e) == e.event \in {"SIGNED_IN", "SIGNED_OUT"}

Sent(e) ==
    /\ \E p \in Posts : posts[p] = NoEvent /\ posts' = [posts EXCEPT ![p] = e]
    /\ raced' = IF SetsCookie(e) THEN \E p \in Posts : SetsCookie(posts[p]) ELSE raced

\* Mutant of Notified: the cookie is taken for a matter of signing in only.
Notified_NoSignOut(e, u) ==
    /\ (SameUser(u) \/ AnotherUser(u))
    /\ IF u = None THEN UNCHANGED <<posts, raced>> ELSE Sent(e)
    /\ UNCHANGED <<vars, cookie, page>>

\* onAuthStateChange.
Notified(e, u) == (SameUser(u) \/ AnotherUser(u)) /\ Sent(e) /\ UNCHANGED <<vars, cookie, page>>

SignIn(u) == u \in authUsers /\ Notified(SignedIn(u), u)

SignOut == 
    /\ user # None \/ page # Login
    /\ Notified(SignedOut, None)

TokenRefreshed == user # None /\ Notified(OtherEvent, user)

\* setAuthCookie of supabase's gotrue-js.
CookieAfter(e) == IF SetsCookie(e) THEN e.user ELSE cookie

\* Mutant of PageAfter: only a sign-in leads to another page.
PageAfter_OnlyIn(e, as) == IF e.event = "SIGNED_IN" THEN Served(Home, as) ELSE page

\* router.push when a POST is answered, whatever its status.
PageAfter(e, as) ==
    CASE e.event = "SIGNED_IN" -> Served(Home, as)
      [] e.event = "SIGNED_OUT" -> Login
      [] OTHER -> page

PostAnswered(p) ==
    /\ posts[p] # NoEvent
    /\ posts' = [posts EXCEPT ![p] = NoEvent]
    /\ cookie' = CookieAfter(posts[p])
    /\ page' = PageAfter(posts[p], CookieAfter(posts[p]))
    /\ UNCHANGED <<vars, user, appUser, queries, raced, crossed>>

\* The status is an error, or there is no answer; the rejection is not caught, and the
\* cookie stays as it is until the next event.
PostFailed(p) ==
    /\ posts[p] # NoEvent
    /\ posts' = [posts EXCEPT ![p] = NoEvent]
    /\ page' \in {page, PageAfter(posts[p], cookie)}
    /\ raced' = (raced \/ SetsCookie(posts[p]))
    /\ UNCHANGED <<vars, user, cookie, appUser, queries, crossed>>

\* A page is loaded anew, by its URL: what the old one had under way is lost on it, and a
\* POST may still have set the cookie.
Load(path) ==
    /\ page' = Served(path, cookie)
    /\ cookie' \in {cookie} \cup {CookieAfter(posts[p]) : p \in Posts}
    /\ posts' = [p \in Posts |-> NoEvent]
    /\ raced' = (raced \/ \E p \in Posts : SetsCookie(posts[p]))
    /\ appUser' = None
    /\ queries' = [u \in Users |-> IF u = user THEN 1 ELSE 0]
    /\ crossed' = FALSE
    /\ UNCHANGED <<vars, user>>

-----------------------------------------------------------------------------
(* The composition *)

\* A page sends a GraphQL request, with the cookie.
SendRequest(r) == page # Login /\ Arrive(r, cookie, FALSE)

AccountsStep ==
    /\ \/ \E u \in Users : SignUp(u) \/ Commit(u) \/ Rollback(u)
       \/ \E a, u \in Users, after \in AppRole \cup {None} : ChangeRow(a, u, after)
       \/ \E r \in Requests : SendRequest(r) \/ Arrive(r, None, TRUE) \/ FindUser(r) \/ Respond(r)
       \/ \E r \in Requests, needs \in (SUBSET AppRole) \ {{}} : Authorize(r, needs)
    /\ UNCHANGED sessionVars

PostEnds(p) == PostAnswered(p) \/ PostFailed(p)

SessionNext ==
    \/ AccountsStep
    \/ \E u \in Users : SignIn(u) \/ AppUserFound(u) \/ AppUserMissing(u)
    \/ SignOut \/ TokenRefreshed
    \/ \E p \in Posts : PostEnds(p)
    \/ \E path \in Pages : Visit(path) \/ Load(path)
    \/ LeaveSettings

\* Each POST is answered, or fails, in the end.
SessionFairness == \A p \in Posts : WF_<<vars, sessionVars>>(PostEnds(p))

SessionSpec == SessionInit /\ [][SessionNext]_<<vars, sessionVars>> /\ SessionFairness

-----------------------------------------------------------------------------
(* Properties *)

\* The comment of useAuth has the POSTs keep the cookies up to date.  They do, and a browser
\* that has signed out shows no page but the login, once all is answered, unless POSTs have
\* overlapped or failed; the next sign-in or sign-out whose POST is alone mends it.
CookieFollows ==
    (\A p \in Posts : posts[p] = NoEvent) /\ ~raced => 
        cookie = user /\ (user = None => page = Login)

\* What the page knows of its user is a row of the user who is signed in, once all queries
\* are answered, unless the answer for one user has come after the change to another, or a
\* query has failed.
AppUserFollows ==
    (\A u \in Users : queries[u] = 0) /\ ~crossed =>
        IF user = None THEN appUser = None ELSE appUser # None /\ appUser.id = user

\* A browser whose user has signed out ends up at the login page, however the events follow
\* each other, unless POSTs overlap or fail.
PageFollows == user = None /\ page # Login ~> page = Login \/ user # None \/ raced
=============================================================================
