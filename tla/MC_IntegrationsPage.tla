------------------------- MODULE MC_IntegrationsPage -------------------------
(* IntegrationsPage on a small instance. *)
EXTENDS IntegrationsPage

Between(c) == call[c].pc \notin {"consent", "save", "answered"}

Shown == <<stored, secret = None>>

\* The page sees the tokens that are stored, and whether there are client credentials.  What
\* the backend and the handlers do besides, they may as well do before the page is shown or
\* after it is left, and the browser may as well wait for them to get that far.
TakeTurns == 
    /\ browserVars' # browserVars => \A c \in Callbacks : ~Between(c)
    /\ at = "page" /\ at' = "page" /\ vars' # vars => Shown' # Shown

MCSpec == 
    /\ PageInit /\ [][PageNext /\ TakeTurns]_<<vars, browserVars>>
    /\ HandlersGoOn
=============================================================================
