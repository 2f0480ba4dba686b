------------------------------- MODULE Accounts -------------------------------
(***************************************************************************)
(* Who may do what: the sign-up trigger and the row policies of the User   *)
(* table (the init_db migration), the context that services/apollo.ts      *)
(* makes of a request, and the role check of services/auth.ts.  A sign-up  *)
(* is a transaction, and several may be open at once; a request reads the  *)
(* user's role once and acts on it later, whatever became of the role.     *)
(***************************************************************************)
EXTENDS Naturals, FiniteSets

CONSTANTS Users, Requests, None

SUPERADMIN == "SUPERADMIN"
ADMIN == "ADMIN"
USER == "USER"
AppRole == {SUPERADMIN, ADMIN, USER}

ASSUME AccountsAssumption == None \notin Users \cup AppRole

VARIABLES
    authUsers,   \* the committed rows of auth.users
    role,        \* the role of each row of public.User, None without a row
    signup,      \* per user, the role an open sign-up transaction has inserted, or None
    request,     \* Requests -> the GraphQL request in progress
    retired,     \* ghost: whether a superadmin has changed or removed a superadmin's row
    due          \* ghost: the role that each user has come by rightfully, or None

vars == <<authUsers, role, signup, request, retired, due>>

NoRequest == [pc |-> "idle", user |-> None, serverAdmin |-> FALSE, role |-> None, needs |-> {}]

Request == [pc : {"idle", "cookie", "context", "resolver"}, user : Users \cup {None}, 
            serverAdmin : BOOLEAN, role : AppRole \cup {None}, needs : SUBSET AppRole]

TypeOK ==
    /\ authUsers \subseteq Users
    /\ role \in [Users -> AppRole \cup {None}]
    /\ signup \in [Users -> AppRole \cup {None}]
    /\ request \in [Requests -> Request]
    /\ retired \in BOOLEAN
    /\ due \in [Users -> AppRole \cup {None}]

Init ==
    /\ authUsers = {}
    /\ role = [u \in Users |-> None]
    /\ signup = [u \in Users |-> None]
    /\ request = [r \in Requests |-> NoRequest]
    /\ retired = FALSE
    /\ due = [u \in Users |-> None]

-----------------------------------------------------------------------------
(* services/auth.ts *)

\* Mutant of authorizedRole: an admin passes for any role.
authorizedRole_AdminAlways(userRole, sufficientRoles) ==
    userRole # None /\ (userRole \in {SUPERADMIN, ADMIN} \/ userRole \in sufficientRoles)

authorizedRole(userRole, sufficientRoles) ==
    /\ userRole # None
    /\ \/ userRole = SUPERADMIN
       \/ userRole = ADMIN /\ USER \in sufficientRoles
       \/ userRole \in sufficientRoles

authChecker(context, sufficientRoles) ==
    context.serverAdmin \/ authorizedRole(context.role, sufficientRoles)

-----------------------------------------------------------------------------
(* The sign-up trigger.  auth.users is seen at read committed: the transaction's own row, *)
(* and those committed before the trigger's query.                                        *)

SeenBy(u) == authUsers \cup {u}

\* Mutant of NewRole: open sign-ups are counted as well.
NewRole_Dirty(u) ==
    IF SeenBy(u) \cup {v \in Users : signup[v] # None} = {u} THEN SUPERADMIN ELSE USER

\* handle_new_user: the row inserted is the only one.
NewRole(u) == IF Cardinality(SeenBy(u)) = 1 THEN SUPERADMIN ELSE USER

\* The transaction inserts into auth.users, and its trigger into public.User: a row that an
\* admin has put there makes it fail.
SignUp(u) ==
    /\ u \notin authUsers /\ signup[u] = None
    /\ role[u] = None
    /\ signup' = [signup EXCEPT ![u] = NewRole(u)]
    /\ UNCHANGED <<authUsers, role, request, retired, due>>

Commit(u) ==
    /\ signup[u] # None
    /\ authUsers' = authUsers \cup {u}
    /\ role' = [role EXCEPT ![u] = signup[u]]
    /\ due' = [due EXCEPT ![u] = signup[u]]
    /\ signup' = [signup EXCEPT ![u] = None]
    /\ UNCHANGED <<request, retired>>

Rollback(u) ==
    /\ signup[u] # None
    /\ signup' = [signup EXCEPT ![u] = None]
    /\ UNCHANGED <<authUsers, role, request, retired, due>>

-----------------------------------------------------------------------------
(* The row policies of public.User *)

\* Mutant of Policy: admins may write any role into the rows they may touch.
Policy_UncheckedNew(byRole, before, after) ==
    \/ byRole = SUPERADMIN
    \/ byRole = ADMIN /\ before # SUPERADMIN

\* Whether a user of that role may touch a row that has, or is to have, the given role; the
\* using expression of an update is applied to the new row too.
Policy(byRole, before, after) ==
    \/ byRole = SUPERADMIN
    \/ byRole = ADMIN /\ before # SUPERADMIN /\ after # SUPERADMIN

Rank == [x \in AppRole |-> IF x = SUPERADMIN THEN 3 ELSE IF x = ADMIN THEN 2 ELSE 1]

\* What a change needs for the ghost to follow it: the hand of an admin, whose own rightful
\* role is as high as the one taken and as the one given.
Rightful(a, before, after) ==
    /\ due[a] \in {SUPERADMIN, ADMIN}
    /\ \A x \in {before, after} \ {None} : Rank[x] <= Rank[due[a]]

\* An insert, update or delete by user a: None is the absence of the row.  An insert waits
\* for an open sign-up that has inserted the same row.
ChangeRow(a, u, after) ==
    /\ role[a] # None
    /\ role[u] # None \/ after # None
    /\ role[u] = None => signup[u] = None
    /\ Policy(role[a], role[u], after)
    /\ role' = [role EXCEPT ![u] = after]
    /\ retired' = (retired \/ role[u] = SUPERADMIN)
    /\ due' = IF Rightful(a, role[u], after) THEN [due EXCEPT ![u] = after] ELSE due
    /\ UNCHANGED <<authUsers, signup, request>>

-----------------------------------------------------------------------------
(* The requests: the context of services/apollo.ts, then the role check, then the resolver *)

\* getUserByCookie, and whether the server secret was sent; with neither it throws.
Arrive(r, u, serverAdmin) ==
    /\ request[r].pc = "idle"
    /\ u # None \/ serverAdmin
    /\ u # None => u \in authUsers
    /\ request' = [request EXCEPT ![r] = 
                     [NoRequest EXCEPT !.pc = "cookie", !.user = u, !.serverAdmin = serverAdmin]]
    /\ UNCHANGED <<authUsers, role, signup, retired, due>>

\* prisma.user.findUnique; without a row, and without the secret, it throws.
FindUser(r) ==
    /\ request[r].pc = "cookie"
    /\ LET u == request[r].user
           found == IF u = None THEN None ELSE role[u]
       IN  request' = [request EXCEPT ![r] = 
                         IF found = None /\ ~request[r].serverAdmin THEN NoRequest
                         ELSE [@ EXCEPT !.pc = "context", !.role = found]]
    /\ UNCHANGED <<authUsers, role, signup, retired, due>>

\* The field's @Authorized roles are checked; the resolver runs, or the request is refused.
Authorize(r, needs) ==
    /\ request[r].pc = "context"
    /\ request' = [request EXCEPT ![r] = 
                     IF authChecker(request[r], needs) 
                     THEN [@ EXCEPT !.pc = "resolver", !.needs = needs] ELSE NoRequest]
    /\ UNCHANGED <<authUsers, role, signup, retired, due>>

Respond(r) ==
    /\ request[r].pc = "resolver"
    /\ request' = [request EXCEPT ![r] = NoRequest]
    /\ UNCHANGED <<authUsers, role, signup, retired, due>>

Next ==
    \/ \E u \in Users : SignUp(u) \/ Commit(u) \/ Rollback(u)
    \/ \E a, u \in Users, after \in AppRole \cup {None} : ChangeRow(a, u, after)
    \/ \E r \in Requests, u \in Users \cup {None}, s \in BOOLEAN : Arrive(r, u, s)
    \/ \E r \in Requests : FindUser(r) \/ Respond(r)
    \/ \E r \in Requests, needs \in (SUBSET AppRole) \ {{}} : Authorize(r, needs)

Spec == Init /\ [][Next]_vars

-----------------------------------------------------------------------------
(* Properties *)

\* A resolver runs only for the trusted server, or for a user whose role, when the context
\* was made, ranks at least as high as the lowest role the field asks for.
RunsWithRank ==
    \A r \in Requests : request[r].pc = "resolver" /\ ~request[r].serverAdmin =>
        \E x \in request[r].needs : 
            request[r].role # None /\ Rank[request[r].role] >= Rank[x]

Superadmin(u) == role[u] = SUPERADMIN

\* The first registered user becomes a superadmin, says prisma/schema.prisma: as soon as
\* anybody is registered there is one, however sign-ups overlap or are rolled back, until a
\* superadmin gives it up.
FirstIsSuperadmin == authUsers # {} => retired \/ \E u \in Users : Superadmin(u)

\* No sequence of row changes, of any users who help each other, gives anybody a role that
\* is higher than the roles of those whose hands it came from, to themselves least of all, or
\* takes one from a user who ranks higher: every role in the table can be traced back, from
\* hand to hand, to sign-ups.  A superadmin above all is one by the hand of a superadmin, who
\* was one by another's, and so on to one who signed up as such.
NoSelfPromotion == \A u \in Users : role[u] = due[u]
=============================================================================
