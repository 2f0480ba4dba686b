----------------------------- MODULE MC_Session -----------------------------
(* Session on a small instance. *)
EXTENDS Session

AtRest == 
    /\ \A p \in Posts : posts[p] = NoEvent
    /\ \A u \in Users : queries[u] = 0

NothingOpen == 
    /\ \A u \in Users : signup[u] = None
    /\ \A r \in Requests : request[r] = NoRequest

\* The accounts and the browser take turns.  They meet where a user signs in, a query reads
\* a role, and a request is sent with a cookie; what else they do commutes, so a step in the
\* middle of the other's doings could as well have come before or after.  Nor do the accounts
\* depend on what the page has made of its queries.
TakeTurns == 
    /\ vars' # vars => AtRest /\ ~crossed
    /\ sessionVars' # sessionVars => NothingOpen

MCSpec == SessionInit /\ [][SessionNext /\ TakeTurns]_<<vars, sessionVars>> /\ SessionFairness
=============================================================================
