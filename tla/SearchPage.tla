------------------------------ MODULE SearchPage ------------------------------
(***************************************************************************)
(* One visit of the search page (frontend/pages/index.tsx, Home) and the   *)
(* search resolver it asks (backend/src/resolvers/search.ts).  The user    *)
(* types, searches, and narrows the results with the filter buttons; the   *)
(* page keeps the query, the filters, the URL and the outcome of the last  *)
(* search, which have to stay in step while searches are on their way and  *)
(* documents are being indexed.                                            *)
(*                                                                         *)
(* The Apollo hook is external: it shows only the outcome of the last      *)
(* search, asks the server every time, and keeps what it shows while it    *)
(* asks again for the same variables.                                      *)
(***************************************************************************)
EXTENDS Naturals, FiniteSets

CONSTANTS
    Words,          \* what is searched for, without the spaces around it
    Providers,      \* the providers that documents are counted for
    None,
    MaxSearches,    \* bound on the searches of one visit
    MaxEdits,       \* bound on the edits after which a provider matches a word no more
    MaxBacks        \* bound on the uses of the Back button

ASSUME SearchPageAssumption ==
    /\ Providers # {} /\ None \notin Words
    /\ MaxSearches \in Nat \ {0} /\ MaxBacks \in Nat /\ MaxEdits \in Nat

VARIABLES
    matches,    \* Elasticsearch: per word, the providers with a document that matches it
    url,        \* the query parameter q of the URL
    visited,    \* the values of q in the browser's history
    page,       \* the state of Home
    request,    \* the last search, until its outcome is shown
    finals,     \* searches that are over and whose finally has not run
    toasted,    \* ghost: the last failure was reported
    searches, backs, edits

vars == <<matches, url, visited, page, request, finals, toasted, searches, backs, edits>>

\* What can be typed: a word or nothing, with or without spaces around it.
Inputs == [word : Words \cup {None}, padded : BOOLEAN]
Empty == [word |-> None, padded |-> FALSE]

Trim(input) == [input EXCEPT !.padded = FALSE]

\* Mutant of QuerySet: the page names what was typed.
QuerySet_AsTyped(input) == input

\* The query that the page names, and records in the URL, when input is searched for.
QuerySet(input) == Trim(input)

-----------------------------------------------------------------------------
(* The resolver: counts of all providers at once, then the items of one     *)
(* requested provider after the other.                                      *)

\* Mutant of NotCounted: the counts are not awaited.
NotCounted_Ignored(r) == {}

\* The counts that the resolver still waits for before it searches.
NotCounted(r) == Providers \ r.counted

ProviderRequested(filters, p) == filters = {} \/ p \in filters

Open == request # None /\ request.outcome = None

CountQuery(p) ==
    /\ Open /\ p \notin request.counted
    /\ request' = [request EXCEPT !.counted = @ \cup {p},
                                  !.counts = IF p \in matches[request.query.word] THEN @ \cup {p} ELSE @]
    /\ UNCHANGED <<matches, url, visited, page, finals, toasted, searches, backs, edits>>

SearchProvider(p) ==
    /\ Open /\ p \notin request.searched
    /\ NotCounted(request) = {}
    /\ request' = [request EXCEPT !.searched = @ \cup {p},
                                  !.items = IF ProviderRequested(request.filters, p) 
                                               /\ p \in matches[request.query.word]
                                            THEN @ \cup {p} ELSE @]
    /\ UNCHANGED <<matches, url, visited, page, finals, toasted, searches, backs, edits>>

Respond ==
    /\ Open /\ request.counted = Providers /\ request.searched = Providers
    /\ request' = [request EXCEPT !.outcome = "ok"]
    /\ UNCHANGED <<matches, url, visited, page, finals, toasted, searches, backs, edits>>

\* Elasticsearch or the network fails.
Fail ==
    /\ Open
    /\ request' = [request EXCEPT !.outcome = "error"]
    /\ UNCHANGED <<matches, url, visited, page, finals, toasted, searches, backs, edits>>

\* A message or a document is indexed.  It takes the place of an earlier version, which may
\* have been the provider's only match for a word that is edited out.
Indexed(p, words) ==
    LET lostWords == {w \in Words \ words : p \in matches[w]}
        awaited == Open /\ p \in request.counts \ request.searched
    IN  /\ matches' = [w \in Words |-> IF w \in words THEN matches[w] \cup {p} ELSE matches[w] \ {p}]
        /\ matches' # matches
        /\ edits' = IF lostWords = {} THEN edits ELSE edits + 1
        /\ edits' <= MaxEdits
        /\ request' = IF ~awaited THEN request
                      ELSE IF request.query.word \in words THEN [request EXCEPT !.lost = @ \ {p}]
                      ELSE [request EXCEPT !.lost = @ \cup {p}]
        /\ UNCHANGED <<url, visited, page, finals, toasted, searches, backs>>

-----------------------------------------------------------------------------
(* The page *)

\* lost is a ghost: the providers that have ceased to match between their count and their search.
Request(query, filters, final) ==
    [query |-> query, filters |-> filters, final |-> final, counted |-> {}, counts |-> {},
     searched |-> {}, items |-> {}, outcome |-> None, lost |-> {}]

RequestType == 
    [query : Inputs, filters : SUBSET Providers, final : BOOLEAN, 
     counted : SUBSET Providers, counts : SUBSET Providers,
     searched : SUBSET Providers, items : SUBSET Providers, outcome : {None, "ok", "error"},
     lost : SUBSET Providers]

Shown == [query : Inputs, filters : SUBSET Providers, counts : SUBSET Providers, items : SUBSET Providers,
          lost : SUBSET Providers]

\* null is no search and no outcome.
ASSUME OutcomeAssumption == None \notin RequestType /\ None \notin Shown

TypeOK ==
    /\ matches \in [Words -> SUBSET Providers]
    /\ url \in Inputs /\ visited \subseteq Inputs
    /\ page \in [input : Inputs, query : Inputs,
                 filters : SUBSET Providers, last : {<<>>} \cup (Inputs \X SUBSET Providers), 
                 shown : {None} \cup Shown, error : BOOLEAN, handledError : BOOLEAN]
    /\ request \in {None} \cup RequestType
    /\ finals \in 0..MaxSearches /\ searches \in 0..MaxSearches /\ backs \in 0..MaxBacks
    /\ edits \in 0..MaxEdits
    /\ toasted \in BOOLEAN

\* The page is loaded with a query parameter, which is searched for right away, or without.
Init ==
    /\ matches \in [Words -> SUBSET Providers]
    /\ url \in {i \in Inputs : i.word # None} \cup {Empty}
    /\ visited = {url}
    /\ page = [input |-> url, query |-> url, filters |-> {}, 
               last |-> IF url = Empty THEN <<>> ELSE <<url, {}>>,
               shown |-> None, error |-> FALSE, handledError |-> FALSE]
    /\ request = IF url = Empty THEN None ELSE Request(url, {}, FALSE)
    /\ finals = 0 /\ toasted = TRUE /\ backs = 0 /\ edits = 0
    /\ searches = IF url = Empty THEN 0 ELSE 1

Loading == request # None /\ page.shown = None /\ ~page.error

\* The effects that are due run before the user's next event.
ToastDue == page.error /\ ~page.handledError
PushDue == page.query # Empty /\ page.query # url
Idle == ~ToastDue /\ ~PushDue

\* performSearch(filters), in a handler that sets the filters of the page to newFilters.
PerformSearch(filters, newFilters) ==
    LET query == Trim(page.input)
        same == page.last = <<query, filters>>   \* the hook keeps what it shows
    IN  /\ searches < MaxSearches
        /\ IF query = Empty
           THEN /\ page' = [page EXCEPT !.filters = newFilters]
                /\ UNCHANGED <<request, finals, searches>>
           ELSE /\ page' = [page EXCEPT !.filters = newFilters, !.query = QuerySet(page.input),
                                        !.last = <<query, filters>>,
                                        !.shown = IF same THEN @ ELSE None,
                                        !.error = same /\ @]
                /\ finals' = IF request # None /\ request.final THEN finals + 1 ELSE finals
                /\ request' = Request(query, filters, TRUE)
                /\ searches' = searches + 1

Type(input) ==
    /\ Idle
    /\ page.input # input
    /\ page' = [page EXCEPT !.input = input]
    /\ UNCHANGED <<matches, url, visited, request, finals, toasted, searches, backs, edits>>

Enter ==
    /\ Idle
    /\ PerformSearch(page.filters, page.filters)
    /\ UNCHANGED <<matches, url, visited, toasted, backs, edits>>

\* The filter buttons stand beside the results.
ButtonsShown == ~Loading /\ page.query # Empty /\ page.shown # None /\ page.shown.items # {}

ClickAll ==
    /\ Idle /\ ButtonsShown
    /\ IF page.filters # {} 
       THEN PerformSearch({}, {}) 
       ELSE UNCHANGED <<page, request, finals, searches>>
    /\ UNCHANGED <<matches, url, visited, toasted, backs, edits>>

ClickFilter(p) ==
    /\ Idle /\ ButtonsShown
    /\ LET newProviders == IF p \in page.filters THEN page.filters \ {p} ELSE page.filters \cup {p}
       IN  PerformSearch(newProviders, newProviders)
    /\ UNCHANGED <<matches, url, visited, toasted, backs, edits>>

\* The outcome of the last search is shown.
Deliver ==
    /\ request # None /\ request.outcome # None
    /\ page' = IF request.outcome = "ok"
               THEN [page EXCEPT !.error = FALSE,
                                 !.shown = [query |-> request.query, filters |-> request.filters, 
                                            counts |-> request.counts, items |-> request.items,
                                            lost |-> request.lost]]
               ELSE [page EXCEPT !.error = TRUE, !.shown = None]
    /\ toasted' = (request.outcome = "ok")
    /\ finals' = IF request.final THEN finals + 1 ELSE finals
    /\ request' = None
    /\ UNCHANGED <<matches, url, visited, searches, backs, edits>>

\* Mutant of HandledAfter: the flag stays up for good.
HandledAfter_Kept(handledError) == handledError

HandledAfter(handledError) == FALSE

Finally ==
    /\ finals > 0
    /\ finals' = finals - 1
    /\ page' = [page EXCEPT !.handledError = HandledAfter(@)]
    /\ UNCHANGED <<matches, url, visited, request, toasted, searches, backs, edits>>

ToastEffect ==
    /\ ToastDue
    /\ page' = [page EXCEPT !.handledError = TRUE]
    /\ toasted' = TRUE
    /\ UNCHANGED <<matches, url, visited, request, finals, searches, backs, edits>>

\* Mutant of Pushed: the query is recorded only the first time it is searched for.
Pushed_Once(query) == IF query \in visited THEN url ELSE query

Pushed(query) == query

PushEffect ==
    /\ PushDue
    /\ url' = Pushed(page.query)
    /\ visited' = visited \cup {url'}
    /\ UNCHANGED <<matches, page, request, finals, toasted, searches, backs, edits>>

\* The Back button changes the URL; the page stays, and its effect pushes its query again.
Back ==
    /\ Idle
    /\ backs < MaxBacks
    /\ backs' = backs + 1
    /\ url' \in visited \ {url}
    /\ UNCHANGED <<matches, visited, page, request, finals, toasted, searches, edits>>

-----------------------------------------------------------------------------

Server == (\E p \in Providers : CountQuery(p) \/ SearchProvider(p)) \/ Respond \/ Fail
Effects == Deliver \/ Finally \/ ToastEffect \/ PushEffect
User == 
    \/ Enter \/ ClickAll \/ Back
    \/ \E i \in Inputs : Type(i)
    \/ \E p \in Providers : ClickFilter(p)

Next == Server \/ Effects \/ User \/ \E p \in Providers, words \in SUBSET Words : Indexed(p, words)

\* React runs the effects that are due.
Spec == Init /\ [][Next]_vars /\ WF_vars(PushEffect)

-----------------------------------------------------------------------------
(* Properties *)

\* While nothing is on its way, the results on the page are those of the query that the
\* page names above them, and of nothing typed or asked before.
ShownIsTheQuery == request = None /\ page.shown # None => page.shown.query = page.query

\* A provider that is counted and not filtered out has its items on the page, whatever is
\* indexed between the queries of one search, unless the documents that matched were edited
\* just then: what is indexed after the search has begun is never counted and not found.
CountedIsFound ==
    page.shown # None => 
        \A p \in page.shown.counts : 
            ProviderRequested(page.shown.filters, p) => p \in page.shown.items \cup page.shown.lost

\* However searches fail and overlap, each failure that the page ends with has been reported.
FailureIsToasted == page.error /\ request = None /\ finals = 0 /\ ~ToastDue => toasted

\* The URL comes to hold the query on the page, whatever was searched for before and however
\* often the user goes back.
UrlFollows == \A i \in Inputs \ {Empty} : page.query = i ~> (url = i \/ page.query # i)
=============================================================================
