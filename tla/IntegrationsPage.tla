--------------------------- MODULE IntegrationsPage ---------------------------
(***************************************************************************)
(* The card of a provider with private credentials on the integrations     *)
(* page of one browser (frontend/components/IntegrationCard/user.tsx,      *)
(* UserIntegrationCard), composed with the OAuth callback that its Connect *)
(* leads to.  The card shows what Apollo has cached, for as long as the    *)
(* page is not loaded anew; the callback ends with such a load.            *)
(*                                                                         *)
(* External: Apollo, as in IntegrationCard, and sign-ins of other users,   *)
(* which lead to another page but load none.                               *)
(***************************************************************************)
EXTENDS OAuthCallback

ASSUME PageAssumption == {"page", "elsewhere"} \cap Callbacks = {} /\ "null" \notin Users

VARIABLES
    viewer,     \* the user who is signed in
    at,         \* "page", "elsewhere" in the app, or the callback that the browser is off to
    seen,       \* the answer to userApiCredential in the browser's cache, as a set
    card,       \* the state of the component, while it is on the page
    query,      \* its userApiCredential: "none", "sent", or what has been found
    urlQuery,   \* its publicGlobalApiCredential: "none", "sent", or whether there is an ID
    told,       \* ghost: the users whom this browser has been told to be connected
    borrowed    \* ghost: the cached answer may be another user's

browserVars == <<viewer, at, seen, card, query, urlQuery, told, borrowed>>

Blank == [connected |-> FALSE, url |-> None, error |-> FALSE]

BrowserTypeOK ==
    /\ viewer \in Users
    /\ at \in {"page", "elsewhere"} \cup Callbacks
    /\ seen \subseteq {"row", "noRow"} /\ (\A x, y \in seen : x = y)
    /\ card \in [connected : BOOLEAN, url : Users \cup {None, "null"}, error : BOOLEAN]
    /\ query \in {"none", "sent", "row", "noRow"}
    /\ urlQuery \in {"none", "sent", "id", "noID"}
    /\ told \subseteq Users
    /\ borrowed \in BOOLEAN
    /\ at # "page" => card = Blank /\ query = "none" /\ urlQuery = "none"

PageInit ==
    /\ Init
    /\ viewer \in Users
    /\ at = "elsewhere" /\ seen = {} /\ card = Blank /\ query = "none" /\ urlQuery = "none"
    /\ told = {} /\ borrowed = FALSE

-----------------------------------------------------------------------------
(* The page *)

\* The component mounts: the query may be cached, the lazy one is sent.
Mounted(cached) ==
    /\ at' = "page"
    /\ card' = [Blank EXCEPT !.connected = "row" \in cached]
    /\ query' = IF cached = {} THEN "sent" ELSE "none"
    /\ urlQuery' = "sent"

Gone == card' = Blank /\ query' = "none" /\ urlQuery' = "none"

Enter ==
    /\ connectType = "private"
    /\ at = "elsewhere"
    /\ Mounted(seen)
    /\ UNCHANGED <<vars, viewer, seen, told, borrowed>>

Leave ==
    /\ at = "page"
    /\ at' = "elsewhere" /\ Gone
    /\ UNCHANGED <<vars, viewer, seen, told, borrowed>>

Anew == seen' = {} /\ Mounted({}) /\ borrowed' = FALSE

\* The page is loaded anew, maybe instead of waiting for the callback.
Load ==
    /\ connectType = "private"
    /\ Anew
    /\ UNCHANGED <<vars, viewer, told>>

\* The callback redirects to the page.
Return(c) ==
    /\ at = c
    /\ At(c, "answered") /\ call[c].result # "crashed"
    /\ Anew
    /\ told' = told \cup (IF call[c].result = "success" THEN {call[c].user} ELSE {})
    /\ UNCHANGED <<vars, viewer>>

SignIn(u) ==
    /\ u # viewer
    /\ viewer' = u
    /\ IF at = "page" THEN at' = "elsewhere" ELSE UNCHANGED at
    /\ Gone
    /\ borrowed' = (seen # {})
    /\ UNCHANGED <<vars, seen, told>>

\* The button, whatever its label, goes where the URL leads, with the token in it.
Connect(c) ==
    /\ at = "page" /\ query = "none" /\ card.url \in Users
    /\ Consent(c, card.url)
    /\ at' = c /\ Gone
    /\ UNCHANGED <<viewer, seen, told, borrowed>>

-----------------------------------------------------------------------------
(* Its queries *)

Found(u) == IF stored[u] = None THEN "noRow" ELSE "row"

\* userApiCredential, for the user of the cookie; or the request is refused or lost.
Serve ==
    /\ query = "sent"
    /\ \/ /\ query' = Found(viewer)
          /\ UNCHANGED card
       \/ /\ query' = "none" 
          /\ card' = [card EXCEPT !.error = TRUE]
    /\ UNCHANGED <<vars, viewer, at, seen, urlQuery, told, borrowed>>

\* Mutant of Applied: the effect runs when the component mounts, and never again.
Applied_OnMount(found) == card

\* The effect on [provider, data].
Applied(found) == IF found = "row" THEN [card EXCEPT !.connected = TRUE] ELSE card

Arrive ==
    /\ query \in {"row", "noRow"}
    /\ seen' = {query}
    /\ card' = Applied(query)
    /\ query' = "none"
    /\ UNCHANGED <<vars, viewer, at, urlQuery, told, borrowed>>

\* Without data there is no client ID.  (If Apollo rejects the promise of a lazy query that
\* fails, nothing is set.)
ServeURL ==
    /\ urlQuery = "sent"
    /\ urlQuery' \in {IF secret = None THEN "noID" ELSE "id", "noID", "none"}
    /\ UNCHANGED <<vars, viewer, at, seen, card, query, told, borrowed>>

\* makeOAuthURL takes the token of the session as it is now.
ArriveURL ==
    /\ urlQuery \in {"id", "noID"}
    /\ card' = [card EXCEPT !.url = IF urlQuery = "id" THEN viewer ELSE "null"]
    /\ urlQuery' = "none"
    /\ UNCHANGED <<vars, viewer, at, seen, query, told, borrowed>>

-----------------------------------------------------------------------------
(* The composition *)

\* Consents of other browsers; those of the workspace come from the settings page.
ConsentElsewhere == \E c \in Callbacks, u \in Users : Consent(c, u)

Backend == 
    /\ ConsentElsewhere \/ Others \/ \E c \in Callbacks : Handler(c)
    /\ UNCHANGED browserVars

PageNext ==
    \/ Backend
    \/ Enter \/ Leave \/ Load
    \/ \E c \in Callbacks : Return(c) \/ Connect(c)
    \/ \E u \in Users : SignIn(u)
    \/ Serve \/ Arrive \/ ServeURL \/ ArriveURL

HandlersGoOn == \A c \in Callbacks : WF_<<vars, browserVars>>(Handler(c) /\ UNCHANGED browserVars)

PageSpec == PageInit /\ [][PageNext]_<<vars, browserVars>> /\ HandlersGoOn

-----------------------------------------------------------------------------
(* Properties *)

Settled == at = "page" /\ query = "none" /\ ~card.error

\* A card that has its answer never offers to disconnect a user who is not connected, and
\* never offers to connect one whom this browser has been told to be, in whichever order
\* callbacks, loads and pages follow each other; unless another user has signed in since
\* the page was loaded, for whom the card shows what it has cached.
CardShowsOwn ==
    Settled /\ ~borrowed =>
        /\ card.connected => stored[viewer] # None
        /\ viewer \in told => card.connected
=============================================================================
