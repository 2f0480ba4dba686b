--------------------------- MODULE IntegrationCard ---------------------------
(***************************************************************************)
(* The card of a provider with shared credentials on the settings page     *)
(* (frontend/components/IntegrationCard/global.tsx, GlobalIntegrationCard, *)
(* with useOAuthURL).  What the card shows is a copy of a copy: the state  *)
(* of the component is set from the answer of globalApiCredential, which   *)
(* Apollo caches for as long as the page is not loaded anew, while the     *)
(* database is written by this page, by its OAuth callback and by others.  *)
(*                                                                         *)
(* Apollo is external: a query is answered from its cache if it can be, a  *)
(* refetch asks the server, a later request replaces an earlier one, equal *)
(* data is not passed on again, and only queries on the page are           *)
(* refetched.  The lazy query of useOAuthURL always asks the server.       *)
(***************************************************************************)
EXTENDS Naturals, FiniteSets

CONSTANTS
    Values,     \* of the credential fields
    Null,
    MaxSaves    \* bound on the saves that are under way at the same time

ASSUME IntegrationCardAssumption ==
    /\ Null \notin Values
    /\ MaxSaves \in Nat \ {0}

VARIABLES
    role,       \* of the visitor: "ADMIN" or "SUPERADMIN"
    db,         \* the row: its credentials (Null: no row) and whether it has shared ones
    cache,      \* the cached answers to globalApiCredential: none or one
    card,       \* the component's state, while it is on the page
    query,      \* its globalApiCredential: nothing under way, sent, or answered
    queryError, \* whether the last one that ended has failed
    urlQuery,   \* its publicGlobalApiCredential: "none", "sent", or what follows from the answer
    saves,      \* upserts under way
    edited,     \* ghost: the form was typed in, or its saves overlapped, since it was last set
    stale       \* ghost: others wrote, or the page did not stay to see its own write

cardVars == <<role, db, cache, card, query, queryError, urlQuery, saves, edited, stale>>

Rows == [creds : Values \cup {Null}, shared : BOOLEAN]
Answers == [exists : BOOLEAN, valid : BOOLEAN, creds : Values \cup {Null}]

NoQuery == [at |-> "none", answer |-> Null]
Sent == [at |-> "sent", answer |-> Null]
Answered(a) == [at |-> "answered", answer |-> a]

Blank == [mounted |-> FALSE, exists |-> Null, valid |-> Null, form |-> Null, url |-> Null, toast |-> Null]
Fresh == [Blank EXCEPT !.mounted = TRUE]

Forms == {<<v>> : v \in Values \cup {Null}}

Cards == 
    [mounted : BOOLEAN, exists : BOOLEAN \cup {Null}, valid : BOOLEAN \cup {Null}, 
     form : Forms \cup {Null}, url : {Null, "null", "made"}, 
     toast : {Null, "saved", "pending", "failed"}]

\* null is no form and no truth value: a card that has got no answer is told from one that has.
ASSUME CardAssumption == Null \notin BOOLEAN /\ Null \notin Forms

CardTypeOK ==
    /\ role \in {"ADMIN", "SUPERADMIN"}
    /\ db \in Rows /\ (db.shared => db.creds # Null)
    /\ cache \subseteq Answers /\ Cardinality(cache) <= 1
    /\ card \in Cards
    /\ card.form # Null => card.exists # Null /\ card.valid # Null
    /\ query \in {NoQuery, Sent} \cup {Answered(a) : a \in Answers}
    /\ queryError \in BOOLEAN
    /\ urlQuery \in {"none", "sent", "null", "made"}
    /\ saves \subseteq [value : Values, state : {"sent", "served"}] /\ Cardinality(saves) <= MaxSaves
    /\ edited \in BOOLEAN /\ stale \in BOOLEAN

\* globalApiCredential
AnswerOf(row) == [exists |-> row.creds # Null, valid |-> row.shared, creds |-> row.creds]

\* The effect that copies the data of the query: the form has every field, empty or not.
Applied(c, answer) == 
    [c EXCEPT !.exists = answer.exists, !.valid = answer.valid, !.form = <<answer.creds>>]

-----------------------------------------------------------------------------
(* The page *)

\* The component mounts: the query may be cached, the lazy one is sent.
Mounted(cached) ==
    /\ card' = IF cached = {} THEN Fresh ELSE Applied(Fresh, CHOOSE a \in cached : TRUE)
    /\ query' = IF cached = {} THEN Sent ELSE NoQuery
    /\ queryError' = FALSE
    /\ urlQuery' = "sent"
    /\ edited' = FALSE

CardInit ==
    /\ role \in {"ADMIN", "SUPERADMIN"}
    /\ db \in {r \in Rows : r.shared => r.creds # Null}
    /\ cache = {} /\ card = Fresh /\ query = Sent /\ urlQuery = "sent" 
    /\ saves = {} /\ queryError = FALSE /\ edited = FALSE /\ stale = FALSE

Leave ==
    /\ card.mounted
    /\ card' = Blank /\ query' = NoQuery /\ queryError' = FALSE /\ urlQuery' = "none" /\ edited' = FALSE
    /\ stale' = (stale \/ saves # {} \/ ((query # NoQuery \/ queryError) /\ cache # {}))
    /\ UNCHANGED <<db, cache, saves>>

Enter ==
    /\ ~card.mounted
    /\ Mounted(cache)
    /\ UNCHANGED <<db, cache, saves, stale>>

\* The page is loaded anew: nothing is cached.  Requests that are open are cut off; the 
\* server may still serve them.
Load ==
    /\ cache' = {}
    /\ Mounted({})
    /\ saves' = {s \in saves : s.state = "sent"}
    /\ stale' = (saves' # {})
    /\ UNCHANGED db

\* Connect: the browser goes to the provider, and comes back from the callback.
Connect ==
    /\ card.mounted /\ card.exists = TRUE /\ card.url = "made"
    /\ saves = {}
    /\ cache' = {}
    /\ Mounted({})
    /\ stale' = FALSE
    /\ db' \in {db, [db EXCEPT !.shared = db.creds # Null]}
    /\ UNCHANGED saves

\* The inputs are for superadmins.
Type(v) ==
    /\ card.mounted /\ role = "SUPERADMIN"
    /\ card.form # Null /\ card.form # <<v>>
    /\ card' = [card EXCEPT !.form = <<v>>]
    /\ edited' = TRUE
    /\ UNCHANGED <<db, cache, query, queryError, urlQuery, saves, stale>>

\* The fields are required.
Save ==
    /\ card.mounted /\ role = "SUPERADMIN"
    /\ card.form # Null /\ card.form # <<Null>>
    /\ Cardinality(saves) < MaxSaves
    /\ saves' = saves \cup {[value |-> card.form[1], state |-> "sent"]}
    /\ edited' = (saves # {})
    /\ UNCHANGED <<db, cache, card, query, queryError, urlQuery, stale>>

-----------------------------------------------------------------------------
(* The server's side *)

\* The query is for superadmins.
ServeQuery ==
    /\ query = Sent /\ role = "SUPERADMIN"
    /\ query' = Answered(AnswerOf(db))
    /\ UNCHANGED <<db, cache, card, queryError, urlQuery, saves, edited, stale>>

\* A regular admin is refused.  For anybody the network may fail, or the server throw when it
\* decrypts the row: the effect finds no data, and the card stays as it is.
QueryFails ==
    /\ query = Sent
    /\ query' = NoQuery
    /\ queryError' = TRUE
    /\ UNCHANGED <<db, cache, card, urlQuery, saves, edited, stale>>

\* useOAuthURL: without a client ID there is no URL, and without data no client ID.  (If
\* Apollo rejects the promise of a lazy query that fails, nothing is set.)
ServeURL ==
    /\ urlQuery = "sent"
    /\ urlQuery' \in {IF db.creds # Null THEN "made" ELSE "null", "null", "none"}
    /\ UNCHANGED <<db, cache, card, query, queryError, saves, edited, stale>>

ServeSave(s) ==
    /\ s \in saves /\ s.state = "sent"
    /\ db' = [db EXCEPT !.creds = s.value]
    /\ saves' = (saves \ {s}) \cup {[s EXCEPT !.state = "served"]}
    /\ UNCHANGED <<cache, card, query, queryError, urlQuery, edited, stale>>

OtherAdmin ==
    /\ \/ \E v \in Values \ {db.creds} : db' = [db EXCEPT !.creds = v]
       \/ db.creds # Null /\ ~db.shared /\ db' = [db EXCEPT !.shared = TRUE]
    /\ stale' = TRUE
    /\ UNCHANGED <<cache, card, query, queryError, urlQuery, saves, edited>>

-----------------------------------------------------------------------------
(* The answers *)

\* Equal data is not passed on again, unless there was an error in between, perhaps.
Arrive ==
    /\ query.at = "answered"
    /\ query' = NoQuery
    /\ cache' = {query.answer}
    /\ queryError' = FALSE
    /\ \/ cache = {query.answer} /\ UNCHANGED <<card, edited>>
       \/ /\ cache # {query.answer} \/ queryError
          /\ card' = Applied(card, query.answer) /\ edited' = FALSE
    /\ UNCHANGED <<db, urlQuery, saves, stale>>

ArriveURL ==
    /\ urlQuery \in {"null", "made"}
    /\ urlQuery' = "none"
    /\ card' = [card EXCEPT !.url = IF @ = Null THEN urlQuery ELSE @]
    /\ UNCHANGED <<db, cache, query, queryError, saves, edited, stale>>

\* Mutant of Refetched: no query is named in refetchQueries.
Refetched_None == query

\* refetchQueries: only the queries on the page.
Refetched == IF card.mounted THEN Sent ELSE query

\* exists is set without waiting for the refetch.
SaveAnswered(s) ==
    /\ s \in saves /\ s.state = "served"
    /\ saves' = saves \ {s}
    /\ query' = Refetched
    /\ card' = IF card.mounted 
               THEN [card EXCEPT !.exists = TRUE, !.toast = IF card.valid = TRUE THEN "saved" ELSE "pending"]
               ELSE card
    /\ UNCHANGED <<db, cache, queryError, urlQuery, edited, stale>>

\* The save is refused, or its answer is lost.
SaveFails(s) ==
    /\ s \in saves
    /\ saves' = saves \ {s}
    /\ card' = IF card.mounted THEN [card EXCEPT !.toast = "failed"] ELSE card
    /\ edited' = card.mounted
    /\ stale' = (stale \/ s.state = "served")
    /\ UNCHANGED <<db, cache, query, queryError, urlQuery>>

Step ==
    \/ Leave \/ Enter \/ Load \/ Connect \/ Save \/ OtherAdmin
    \/ \E v \in Values : Type(v)
    \/ ServeQuery \/ QueryFails \/ ServeURL \/ Arrive \/ ArriveURL
    \/ \E s \in saves : ServeSave(s) \/ SaveAnswered(s) \/ SaveFails(s)

CardNext == Step /\ UNCHANGED role

CardSpec == CardInit /\ [][CardNext]_cardVars

-----------------------------------------------------------------------------
(* Properties *)

Settled == card.mounted /\ query = NoQuery /\ urlQuery = "none" /\ saves = {}

\* Once everything is over, a superadmin's card agrees with the row, unless somebody else has
\* written it or the page has not stayed to see its own write: in what exists, in whether it
\* is connected, and in the form as long as nobody has typed in it.  (Saves that overlap may
\* be served in either order, and the form is not set by equal data.)  If its last query has
\* failed, the card may be blank, or its form behind; but what it says of the row is true.
CardTellsTruth ==
    Settled /\ ~stale /\ role = "SUPERADMIN" =>
        \/ /\ card.exists = (db.creds # Null)
           /\ card.valid = db.shared
           /\ edited \/ queryError \/ card.form = <<db.creds>>
        \/ queryError /\ card.exists = Null /\ card.valid = Null /\ card.form = Null
=============================================================================
