-------------------------- MODULE SearchPage_proofs --------------------------
(***************************************************************************)
(* What the search page shows and reports, for any words, providers and    *)
(* number of searches; and what TimeText promises of the texts beside the  *)
(* results, for all times and every offset of the time zone.               *)
(***************************************************************************)
EXTENDS SearchPage, TimeText, TLAPS

-----------------------------------------------------------------------------
(* The search page *)

\* The search under way is for the query on the page, which is not blank.
QueryInv == request # None => request.query = page.query /\ request.query.word \in Words

\* What a search has found so far: what it has counted matches still, or has ceased to match
\* since, and the items are looked for after the counting.
FoundInv ==
    request # None =>
        /\ request.counts \subseteq request.counted
        /\ request.outcome = None =>
             request.counts \ request.searched \subseteq matches[request.query.word] \cup request.lost
        /\ request.searched # {} => request.counted = Providers
        /\ \A p \in request.searched \cap request.counts :
             ProviderRequested(request.filters, p) => p \in request.items \cup request.lost
        /\ request.outcome # None /\ request.outcome = "ok" => request.searched = Providers

\* Each search but the one of the first load has its finally, after its end.
FinalsInv ==
    /\ finals + (IF request # None /\ request.final THEN 1 ELSE 0) <= searches
    /\ request # None /\ ~request.final => ~page.error /\ ~page.handledError

\* A failure that is not reported yet is reported as soon as the flag of the one before it has
\* been lowered, by a finally that is still to come.
ToastInv == page.handledError /\ ~toasted => finals > 0

IInv == 
    TypeOK /\ QueryInv /\ FoundInv /\ FinalsInv /\ ToastInv /\ ShownIsTheQuery /\ CountedIsFound

\* What is searched for when something is typed: a word, unless it is blank.
LEMMA Trimmed ==
    /\ Empty \in Inputs
    /\ \A i \in Inputs : /\ Trim(i) \in Inputs 
                         /\ i # Empty /\ i = Trim(i) => i.word \in Words
                         /\ Trim(i) # Empty => i.word \in Words /\ Trim(i).word = i.word
  <1>1. Empty \in Inputs
    BY DEF Empty, Inputs
  <1>2. ASSUME NEW i \in Inputs
        PROVE  Trim(i) \in Inputs /\ Trim(i).word = i.word /\ Trim(i).padded = FALSE
    BY DEF Trim, Inputs
  <1>3. ASSUME NEW i \in Inputs, i.word = None, i.padded = FALSE
        PROVE  i = Empty
    BY <1>3 DEF Empty, Inputs
  <1>4. \A i \in Inputs : i.word \in Words \cup {None}
    BY DEF Inputs
  <1> QED
    BY <1>1, <1>2, <1>3, <1>4

\* A search that begins has found nothing.
Begun(query, filters, final) ==
    {r \in RequestType : /\ r # None
                         /\ r.query = query /\ r.filters = filters /\ r.final = final /\ r.outcome = None
                         /\ r.counts = {} /\ r.counted = {} /\ r.searched = {}}

LEMMA NewRequest ==
    ASSUME NEW query \in Inputs, NEW filters \in SUBSET Providers, NEW final \in BOOLEAN
    PROVE  Request(query, filters, final) \in Begun(query, filters, final)
  <1>1. Request(query, filters, final) \in RequestType
    BY DEF Request, RequestType
  <1> QED
    BY <1>1, OutcomeAssumption DEF Request, Begun

\* What a new search does to the page, whatever handler begins it.
LEMMA SearchBegins ==
    ASSUME IInv, NEW filters \in SUBSET Providers, NEW newFilters \in SUBSET Providers,
           PerformSearch(filters, newFilters), 
           UNCHANGED <<matches, url, visited, toasted, backs, edits>>
    PROVE  IInv'
  <1> DEFINE query == Trim(page.input)
             same == page.last = <<query, filters>>
             final == request # None /\ request.final
  <1> USE SearchPageAssumption, OutcomeAssumption DEF IInv, TypeOK
  <1>1. query \in Inputs /\ (query # Empty => query.word \in Words)
    BY Trimmed
  <1>2. CASE query = Empty
    <2>1. page' = [page EXCEPT !.filters = newFilters] /\ UNCHANGED <<request, finals, searches>>
      BY <1>2 DEF PerformSearch
    <2>2. TypeOK'
      BY <2>1
    <2>3. page'.query = page.query /\ page'.shown = page.shown /\ page'.error = page.error 
          /\ page'.handledError = page.handledError
      BY <2>1
    <2> QED
      BY <2>1, <2>2, <2>3 DEF QueryInv, FoundInv, FinalsInv, ToastInv, ShownIsTheQuery, CountedIsFound
  <1>3. CASE query # Empty
    <2>1. /\ page' = [page EXCEPT !.filters = newFilters, !.query = query, !.last = <<query, filters>>,
                                  !.shown = IF same THEN page.shown ELSE None,
                                  !.error = same /\ page.error]
          /\ finals' = IF final THEN finals + 1 ELSE finals
          /\ request' = Request(query, filters, TRUE)
          /\ searches' = searches + 1 /\ searches < MaxSearches
      BY <1>3 DEF PerformSearch, QuerySet
    <2>2. request' \in Begun(query, filters, TRUE)
      <3> HIDE DEF query
      <3> QED
        BY <1>1, <2>1, NewRequest, TRUE \in BOOLEAN
    <2>3. /\ request' \in RequestType /\ request' # None
          /\ request'.query = query /\ request'.filters = filters /\ request'.final = TRUE
          /\ request'.counts = {} /\ request'.counted = {} /\ request'.searched = {} 
          /\ request'.outcome = None
      BY <2>2 DEF Begun
    <2>4. /\ page'.query = query /\ page'.handledError = page.handledError
          /\ page'.shown = page.shown \/ page'.shown = None
      BY <2>1
    <2>5. TypeOK'
      <3>1. page' \in [input : Inputs, query : Inputs,
                       filters : SUBSET Providers, last : {<<>>} \cup (Inputs \X SUBSET Providers), 
                       shown : {None} \cup Shown, error : BOOLEAN, handledError : BOOLEAN]
        <4>1. (IF same THEN page.shown ELSE None) \in {None} \cup Shown
          OBVIOUS
        <4>2. (same /\ page.error) \in BOOLEAN
          OBVIOUS
        <4>3. <<query, filters>> \in {<<>>} \cup (Inputs \X SUBSET Providers)
          BY <1>1
        <4> HIDE DEF query, same
        <4> QED
          BY <1>1, <2>1, <4>1, <4>2, <4>3
      <3>2. finals' \in 0..MaxSearches /\ searches' \in 0..MaxSearches
        BY <2>1 DEF FinalsInv
      <3> QED
        BY <2>3, <3>1, <3>2
    <2>6. QueryInv' /\ FoundInv'
      BY <1>1, <1>3, <2>3, <2>4 DEF QueryInv, FoundInv
    <2>7. FinalsInv'
      <3>1. finals \in Nat /\ searches \in Nat /\ finals' + 1 <= searches'
        BY <2>1 DEF FinalsInv
      <3> QED
        BY <2>3, <3>1 DEF FinalsInv
    <2>8. ToastInv'
      BY <2>1, <2>4 DEF ToastInv
    <2>9. ShownIsTheQuery' /\ CountedIsFound'
      BY <2>3, <2>4 DEF ShownIsTheQuery, CountedIsFound
    <2> QED
      BY <2>5, <2>6, <2>7, <2>8, <2>9
  <1> QED
    BY <1>2, <1>3

\* What the resolver does to a search leaves its query, and is checked against the matches.
LEMMA ServerStep ==
    ASSUME IInv, request # None, request' \in RequestType,
           request'.query = request.query, request'.final = request.final,
           FoundInv', UNCHANGED <<matches, url, visited, page, finals, toasted, searches, backs, edits>>
    PROVE  IInv'
  <1>1. request' # None
    BY OutcomeAssumption
  <1> QED
    BY <1>1 DEF IInv, TypeOK, QueryInv, FinalsInv, ToastInv, ShownIsTheQuery, CountedIsFound

\* Every step keeps the invariant.
LEMMA Inductive == Spec => []IInv
  <1>1. Init => IInv
    <2> SUFFICES ASSUME Init PROVE IInv
      OBVIOUS
    <2> USE SearchPageAssumption, OutcomeAssumption DEF Init
    <2>1. url \in Inputs /\ (url # Empty => url.word \in Words) /\ (url = Empty => request = None)
      <3>1. \A i \in Inputs : i.word # None => i.word \in Words
        BY DEF Inputs
      <3> QED
        BY <3>1, Trimmed
    <2>2. url # Empty => request \in Begun(url, {}, FALSE)
      <3>1. url # Empty => request = Request(url, {}, FALSE)
        OBVIOUS
      <3> QED
        BY ONLY <2>1, <3>1, NewRequest, FALSE \in BOOLEAN, {} \in SUBSET Providers
    <2>3. TypeOK
      <3>1. url \in Inputs /\ request \in {None} \cup RequestType
        BY <2>1, <2>2 DEF Begun
      <3>2. page \in [input : Inputs, query : Inputs,
                      filters : SUBSET Providers, last : {<<>>} \cup (Inputs \X SUBSET Providers), 
                      shown : {None} \cup Shown, error : BOOLEAN, handledError : BOOLEAN]
        <4>1. (IF url = Empty THEN <<>> ELSE <<url, {}>>) \in {<<>>} \cup (Inputs \X SUBSET Providers)
          BY <3>1
        <4> HIDE DEF Empty, Inputs
        <4> QED
          BY <3>1, <4>1
      <3> QED
        <4>1. matches \in [Words -> SUBSET Providers] /\ visited \subseteq Inputs
          BY <3>1
        <4>2. finals \in 0..MaxSearches /\ searches \in 0..MaxSearches /\ backs \in 0..MaxBacks /\ edits \in 0..MaxEdits
          OBVIOUS
        <4>3. toasted \in BOOLEAN
          OBVIOUS
        <4> QED
          BY <3>1, <3>2, <4>1, <4>2, <4>3 DEF TypeOK
    <2>4. request # None => /\ request.query = url /\ request.final = FALSE /\ request.outcome = None
                            /\ request.counts = {} /\ request.counted = {} /\ request.searched = {}
      BY <2>1, <2>2 DEF Begun
    <2>5. page.query = url /\ page.shown = None /\ ~page.error /\ ~page.handledError
      OBVIOUS
    <2>6. QueryInv /\ FoundInv
      BY <2>1, <2>4, <2>5 DEF QueryInv, FoundInv
    <2>8. FinalsInv
      <3>1. finals = 0 /\ searches \in Nat
        OBVIOUS
      <3> QED
        BY ONLY <2>4, <2>5, <3>1 DEF FinalsInv
    <2>7. ToastInv /\ ShownIsTheQuery /\ CountedIsFound
      BY <2>5 DEF ToastInv, ShownIsTheQuery, CountedIsFound
    <2> QED
      BY <2>3, <2>6, <2>7, <2>8 DEF IInv
  <1>2. IInv /\ [Next]_vars => IInv'
    <2> SUFFICES ASSUME IInv, [Next]_vars PROVE IInv'
      OBVIOUS
    <2> USE SearchPageAssumption, OutcomeAssumption DEF IInv, TypeOK
    <2>1. ASSUME NEW p \in Providers, CountQuery(p) PROVE IInv'
      <3>1. request # None /\ request \in RequestType /\ request.outcome = None
        BY <2>1 DEF CountQuery, Open
      <3>2. request' \in RequestType /\ request'.query = request.query /\ request'.final = request.final
        BY <2>1, <3>1 DEF CountQuery, RequestType
      <3>3. /\ request'.counted = request.counted \cup {p}
            /\ request'.counts = IF p \in matches[request.query.word] THEN request.counts \cup {p} ELSE request.counts
            /\ request'.searched = request.searched /\ request'.items = request.items
            /\ request'.filters = request.filters /\ request'.outcome = request.outcome
            /\ request'.lost = request.lost
        BY <2>1, <3>1 DEF CountQuery, RequestType
      <3>4. p \notin request.counted /\ UNCHANGED matches
        BY <2>1 DEF CountQuery
      <3>5. FoundInv'
        BY <3>1, <3>2, <3>3, <3>4 DEF FoundInv
      <3> QED
        BY <2>1, <3>1, <3>2, <3>5, ServerStep DEF CountQuery
    <2>2. ASSUME NEW p \in Providers, SearchProvider(p) PROVE IInv'
      <3>1. request # None /\ request \in RequestType /\ request.outcome = None
        BY <2>2 DEF SearchProvider, Open
      <3>2. request' \in RequestType /\ request'.query = request.query /\ request'.final = request.final
        BY <2>2, <3>1 DEF SearchProvider, RequestType
      <3>3. /\ request'.searched = request.searched \cup {p}
            /\ request'.items = IF ProviderRequested(request.filters, p) /\ p \in matches[request.query.word]
                                THEN request.items \cup {p} ELSE request.items
            /\ request'.counted = request.counted /\ request'.counts = request.counts
            /\ request'.filters = request.filters /\ request'.outcome = request.outcome
            /\ request'.lost = request.lost
        BY <2>2, <3>1 DEF SearchProvider, RequestType
      <3>4. request.counted = Providers /\ UNCHANGED matches
        BY <2>2, <3>1 DEF SearchProvider, NotCounted, RequestType
      <3>5. FoundInv'
        BY <3>1, <3>2, <3>3, <3>4 DEF FoundInv
      <3> QED
        BY <2>2, <3>1, <3>2, <3>5, ServerStep DEF SearchProvider
    <2>3. ASSUME Respond \/ Fail PROVE IInv'
      <3>1. request # None /\ request \in RequestType /\ request.outcome = None
        BY <2>3 DEF Respond, Fail, Open
      <3>2. PICK outcome \in {"ok", "error"} : 
              request' = [request EXCEPT !.outcome = outcome] /\ (outcome = "ok" => request.searched = Providers)
        BY <2>3 DEF Respond, Fail
      <3>3. request' \in RequestType /\ request'.query = request.query /\ request'.final = request.final
        BY <3>1, <3>2 DEF RequestType
      <3>4. /\ request'.searched = request.searched /\ request'.items = request.items
            /\ request'.counted = request.counted /\ request'.counts = request.counts
            /\ request'.filters = request.filters /\ request'.outcome = outcome
            /\ request'.lost = request.lost
        BY <3>1, <3>2 DEF RequestType
      <3>5. UNCHANGED <<matches, url, visited, page, finals, toasted, searches, backs, edits>>
        BY <2>3 DEF Respond, Fail
      <3>6. FoundInv'
        BY <3>1, <3>2, <3>3, <3>4, <3>5 DEF FoundInv
      <3> QED
        BY <3>1, <3>3, <3>5, <3>6, ServerStep
    <2>4. ASSUME NEW p \in Providers, NEW words \in SUBSET Words, Indexed(p, words) PROVE IInv'
      <3> DEFINE awaited == Open /\ p \in request.counts \ request.searched
      <3>1. /\ matches' = [w \in Words |-> IF w \in words THEN matches[w] \cup {p} ELSE matches[w] \ {p}]
            /\ edits' \in 0..MaxEdits
            /\ UNCHANGED <<url, visited, page, finals, toasted, searches, backs>>
        BY <2>4 DEF Indexed
      <3>2. matches' \in [Words -> SUBSET Providers]
        BY <3>1
      <3>3. \A w \in Words : /\ matches[w] \ {p} \subseteq matches'[w]
                             /\ w \in words => p \in matches'[w]
        BY <3>1
      <3>4. CASE ~awaited
        <4>1. request' = request
          BY <2>4, <3>4 DEF Indexed
        <4>2. FoundInv'
          BY <3>2, <3>3, <3>4, <4>1 DEF FoundInv, QueryInv, Open
        <4> QED
          BY <3>1, <3>2, <4>1, <4>2 DEF QueryInv, FinalsInv, ToastInv, ShownIsTheQuery, CountedIsFound
      <3>5. CASE awaited
        <4>1. request # None /\ request \in RequestType /\ request.outcome = None
          BY <3>5 DEF Open
        <4>2. PICK lost \in SUBSET Providers : 
                /\ request' = [request EXCEPT !.lost = lost]
                /\ request.lost \ {p} \subseteq lost
                /\ request.query.word \notin words => p \in lost
          <5>1. request.lost \in SUBSET Providers
            BY <4>1 DEF RequestType
          <5>2. request' = IF request.query.word \in words 
                           THEN [request EXCEPT !.lost = @ \ {p}] ELSE [request EXCEPT !.lost = @ \cup {p}]
            BY <2>4, <3>5 DEF Indexed
          <5>3. CASE request.query.word \in words
            <6>1. request.lost \ {p} \in SUBSET Providers /\ request' = [request EXCEPT !.lost = request.lost \ {p}]
              BY <5>1, <5>2, <5>3
            <6> QED
              BY <5>3, <6>1
          <5>4. CASE request.query.word \notin words
            <6>1. request.lost \cup {p} \in SUBSET Providers /\ request' = [request EXCEPT !.lost = request.lost \cup {p}]
              BY <5>1, <5>2, <5>4
            <6> QED
              BY <5>4, <6>1
          <5> QED
            BY <5>3, <5>4
        <4>3. /\ request'.query = request.query /\ request'.filters = request.filters
              /\ request'.final = request.final
              /\ request'.counted = request.counted /\ request'.counts = request.counts
              /\ request'.searched = request.searched /\ request'.items = request.items
              /\ request'.outcome = request.outcome /\ request'.lost = lost
          BY <4>1, <4>2 DEF RequestType
        <4>4. request' \in RequestType /\ request' # None
          BY <4>1, <4>2 DEF RequestType
        <4>5. FoundInv'
          <5>1. request.query.word \in Words /\ p \notin request.searched
            BY <3>5, <4>1 DEF QueryInv
          <5>2. request'.counts \ request'.searched \subseteq matches'[request'.query.word] \cup request'.lost
            BY <3>3, <4>1, <4>2, <4>3, <5>1 DEF FoundInv
          <5>3. \A q \in request'.searched \cap request'.counts :
                  ProviderRequested(request'.filters, q) => q \in request'.items \cup request'.lost
            BY <4>1, <4>2, <4>3, <5>1 DEF FoundInv
          <5> QED
            BY <4>1, <4>3, <5>2, <5>3 DEF FoundInv
        <4> QED
          BY <3>1, <3>2, <4>1, <4>3, <4>4, <4>5
             DEF QueryInv, FinalsInv, ToastInv, ShownIsTheQuery, CountedIsFound
      <3> QED
        BY <3>4, <3>5
    <2>5. ASSUME NEW input \in Inputs, Type(input) PROVE IInv'
      <3>1. page' = [page EXCEPT !.input = input]
        BY <2>5 DEF Type
      <3>2. /\ page'.query = page.query /\ page'.shown = page.shown /\ page'.error = page.error
            /\ page'.handledError = page.handledError
        BY <3>1
      <3>3. TypeOK'
        BY <2>5, <3>1 DEF Type
      <3> QED
        BY <2>5, <3>2, <3>3 DEF Type, QueryInv, FoundInv, FinalsInv, ToastInv, ShownIsTheQuery, CountedIsFound
    <2>6. ASSUME Enter \/ ClickAll \/ \E p \in Providers : ClickFilter(p) PROVE IInv'
      <3>1. UNCHANGED <<matches, url, visited, toasted, backs, edits>>
        BY <2>6 DEF Enter, ClickAll, ClickFilter
      <3>2. CASE Enter
        <4>1. page.filters \in SUBSET Providers
          OBVIOUS
        <4> QED
          BY <3>1, <3>2, <4>1, SearchBegins DEF Enter
      <3>3. CASE ClickAll
        <4>1. CASE page.filters # {}
          <5>1. {} \in SUBSET Providers
            OBVIOUS
          <5> QED
            BY <3>1, <3>3, <4>1, <5>1, SearchBegins DEF ClickAll
        <4>2. CASE page.filters = {}
          <5>1. UNCHANGED vars
            BY <3>1, <3>3, <4>2 DEF ClickAll, vars
          <5> QED
            BY <5>1 DEF vars, QueryInv, FoundInv, FinalsInv, ToastInv, ShownIsTheQuery, CountedIsFound
        <4> QED
          BY <4>1, <4>2
      <3>4. ASSUME NEW p \in Providers, ClickFilter(p) PROVE IInv'
        <4> DEFINE newProviders == IF p \in page.filters THEN page.filters \ {p} ELSE page.filters \cup {p}
        <4>1. newProviders \in SUBSET Providers
          OBVIOUS
        <4>2. PerformSearch(newProviders, newProviders)
          BY <3>4 DEF ClickFilter
        <4> HIDE DEF newProviders
        <4> QED
          BY <3>1, <4>1, <4>2, SearchBegins
      <3> QED
        BY <2>6, <3>2, <3>3, <3>4
    <2>7. ASSUME Deliver PROVE IInv'
      <3> DEFINE answer == [query |-> request.query, filters |-> request.filters, 
                            counts |-> request.counts, items |-> request.items, 
                            lost |-> request.lost]
      <3>1. /\ request # None /\ request \in RequestType /\ request.outcome # None
            /\ request' = None /\ UNCHANGED <<matches, url, visited, searches, backs, edits>>
            /\ toasted' = (request.outcome = "ok")
            /\ finals' = IF request.final THEN finals + 1 ELSE finals
        BY <2>7 DEF Deliver
      <3>2. answer \in Shown
        BY <3>1 DEF RequestType, Shown
      <3>3. /\ page'.query = page.query /\ page'.handledError = page.handledError
            /\ request.outcome = "ok" => page'.shown = answer
            /\ request.outcome # "ok" => page'.shown = None
        BY <2>7 DEF Deliver
      <3>4. page' \in [input : Inputs, query : Inputs,
                       filters : SUBSET Providers, last : {<<>>} \cup (Inputs \X SUBSET Providers), 
                       shown : {None} \cup Shown, error : BOOLEAN, handledError : BOOLEAN]
        <4> HIDE DEF answer
        <4>1. page' = IF request.outcome = "ok" THEN [page EXCEPT !.error = FALSE, !.shown = answer]
                      ELSE [page EXCEPT !.error = TRUE, !.shown = None]
          BY <2>7 DEF Deliver, answer
        <4> QED
          BY <3>2, <4>1
      <3>5. TypeOK'
        BY <3>1, <3>4 DEF FinalsInv, RequestType
      <3>6. QueryInv' /\ FoundInv' /\ FinalsInv'
        BY <3>1 DEF QueryInv, FoundInv, FinalsInv, RequestType
      <3>7. ToastInv'
        BY <3>1, <3>3 DEF ToastInv, FinalsInv
      <3>8. ShownIsTheQuery'
        BY <3>1, <3>3 DEF ShownIsTheQuery, QueryInv
      <3>9. CountedIsFound'
        <4>1. CASE request.outcome = "ok"
          <5>1. \A p \in request.counts : ProviderRequested(request.filters, p) =>
                                            p \in request.items \cup request.lost
            BY <3>1, <4>1 DEF FoundInv, RequestType
          <5> QED
            BY <3>3, <4>1, <5>1 DEF CountedIsFound
        <4>2. CASE request.outcome # "ok"
          BY <3>3, <4>2 DEF CountedIsFound
        <4> QED
          BY <4>1, <4>2
      <3> QED
        BY <3>5, <3>6, <3>7, <3>8, <3>9
    <2>8. ASSUME Finally \/ ToastEffect PROVE IInv'
      <3>1. PICK handled \in BOOLEAN : page' = [page EXCEPT !.handledError = handled]
        BY <2>8 DEF Finally, ToastEffect, HandledAfter
      <3>2. /\ page'.query = page.query /\ page'.shown = page.shown /\ page'.error = page.error
            /\ page'.handledError = handled
        BY <3>1
      <3>3. UNCHANGED <<matches, url, visited, request, searches, backs, edits>>
        BY <2>8 DEF Finally, ToastEffect
      <3>4. finals' \in Nat /\ finals' <= finals
        BY <2>8 DEF Finally, ToastEffect
      <3>10. toasted' \in BOOLEAN
        BY <2>8 DEF Finally, ToastEffect
      <3>9. handled => toasted' /\ page.error
        <4>1. CASE Finally
          <5>1. page'.handledError = FALSE
            BY <4>1 DEF Finally, HandledAfter
          <5> QED
            BY <3>2, <5>1
        <4>2. CASE ToastEffect
          BY <4>2 DEF ToastEffect, ToastDue
        <4> QED
          BY <2>8, <4>1, <4>2
      <3>5. TypeOK'
        BY <3>1, <3>3, <3>4, <3>10
      <3>6. QueryInv' /\ FoundInv' /\ FinalsInv'
        BY <3>2, <3>3, <3>4, <3>9 DEF QueryInv, FoundInv, FinalsInv
      <3>7. ToastInv' /\ ShownIsTheQuery' /\ CountedIsFound'
        BY <3>2, <3>3, <3>4, <3>9 DEF ToastInv, ShownIsTheQuery, CountedIsFound
      <3> QED
        BY <3>5, <3>6, <3>7
    <2>9. ASSUME PushEffect \/ Back PROVE IInv'
      <3>1. UNCHANGED <<matches, page, request, finals, toasted, searches, edits>>
        BY <2>9 DEF PushEffect, Back
      <3>2. url' \in Inputs /\ visited' \subseteq Inputs /\ backs' \in 0..MaxBacks /\ edits' \in 0..MaxEdits
        BY <2>9 DEF PushEffect, Back, Pushed
      <3> QED
        BY <3>1, <3>2 DEF QueryInv, FoundInv, FinalsInv, ToastInv, ShownIsTheQuery, CountedIsFound
    <2>10. CASE UNCHANGED vars
      BY <2>10 DEF vars, QueryInv, FoundInv, FinalsInv, ToastInv, ShownIsTheQuery, CountedIsFound
    <2> QED
      BY <2>1, <2>2, <2>3, <2>4, <2>5, <2>6, <2>7, <2>8, <2>9, <2>10 DEF Next, Server, Effects, User
  <1> QED
    BY <1>1, <1>2, PTL DEF Spec

\* The type invariant, for any words, providers and number of searches.
THEOREM TypeCorrect == Spec => []TypeOK
  <1>1. IInv => TypeOK
    BY DEF IInv
  <1> QED
    BY <1>1, Inductive, PTL

\* However searches are replaced and answered, the results on the page are those of the query
\* that Home names above them.
THEOREM ShownCorrect == Spec => []ShownIsTheQuery
  <1>1. IInv => ShownIsTheQuery
    BY DEF IInv
  <1> QED
    BY <1>1, Inductive, PTL

\* Whatever is indexed or edited while the resolver searches, it has items of the providers
\* that it counts and that still match when it searches them.
THEOREM FoundCorrect == Spec => []CountedIsFound
  <1>1. IInv => CountedIsFound
    BY DEF IInv
  <1> QED
    BY <1>1, Inductive, PTL

\* However searches fail and their finally blocks overlap, the last failure was reported.
THEOREM ToastCorrect == Spec => []FailureIsToasted
  <1>1. IInv => FailureIsToasted
    BY DEF IInv, TypeOK, ToastInv, FailureIsToasted, ToastDue
  <1> QED
    BY <1>1, Inductive, PTL

-----------------------------------------------------------------------------
(* The dates beside the results *)

\* Two times less than a day apart, in this order, are on the same day exactly if they are on
\* the same day of the week: the next day is the only other one, and has another name.
LEMMA SameWeekday ==
    ASSUME NEW t \in Int, NEW at \in Int, t <= at, at - t < 86400
    PROVE  getDay(t) = getDay(at) <=> SameDay(t, at)
<1> DEFINE d == DayNumber(Local(t))
           e == DayNumber(Local(at))
<1>1. d \in Int /\ e \in Int /\ d <= e /\ e <= d + 1
  BY OffsetAssumption, SMTT(30) DEF DayNumber, Local, DAY_SECONDS, HOUR_SECONDS, MIN_SECONDS
<1>2. (d + 4) % 7 = (e + 4) % 7 <=> d = e
  <2> HIDE DEF d, e
  <2> QED BY <1>1, SMTT(30)
<1> QED BY <1>2 DEF getDay, SameDay

\* Times on the same day are less than a day apart.
LEMMA SameDayIsNear ==
    ASSUME NEW t \in Int, NEW at \in Int, SameDay(t, at)
    PROVE  at - t < 86400
BY OffsetAssumption, SMTT(30) DEF SameDay, DayNumber, Local, DAY_SECONDS, HOUR_SECONDS, MIN_SECONDS

\* conditionalDatetime shows the time alone for the messages of today and for no others: what
\* the age and the weekday tell is the date.
THEOREM TodayCorrect ==
    ASSUME NEW t \in Int, NEW at \in Int, t <= at
    PROVE  TimeAloneIsToday(t, at)
<1>1. IsToday(t, at) <=> SameDay(t, at)
  BY SameWeekday, SameDayIsNear DEF IsToday, secondsAgo
<1>2. getDay(t) # Omitted
  BY OffsetAssumption, SMTT(30) DEF getDay, DayNumber, Local, DAY_SECONDS, HOUR_SECONDS, MIN_SECONDS, Omitted
<1>3. CASE IsToday(t, at)
  BY <1>1, <1>3 DEF TimeAloneIsToday, conditionalDatetime
<1>4. CASE ~IsToday(t, at)
  <2>1. conditionalDatetime(t, at).day = getDay(t)
    BY <1>4 DEF conditionalDatetime, humanReadableDatetime, TimeOnly
  <2>2. TimeOnly(t).day = Omitted
    BY DEF TimeOnly
  <2> QED BY <1>1, <1>2, <1>4, <2>1, <2>2 DEF TimeAloneIsToday
<1> QED BY <1>3, <1>4

\* Rounding to a unit errs by half of it at most.
LEMMA RoundIsNearest ==
    ASSUME NEW n \in Int, NEW d \in {1, MIN_SECONDS, DAY_SECONDS, WEEK_SECONDS, YEAR_SECONDS}
    PROVE  /\ 2 * (n - Round(n, d) * d) <= d
           /\ -2 * (n - Round(n, d) * d) <= d
BY SMTT(30) DEF Round, MIN_SECONDS, HOUR_SECONDS, DAY_SECONDS, WEEK_SECONDS, YEAR_SECONDS

\* The units that humanReadableDuration shows: the one for hours is not among them, since its
\* condition compares minutes with 24 where they are 60 and more.
LEMMA UnitsShown ==
    ASSUME NEW date1 \in Int, NEW date2 \in Int, date1 < date2
    PROVE  \E unit \in {1, MIN_SECONDS, DAY_SECONDS, WEEK_SECONDS, YEAR_SECONDS} :
             humanReadableDuration(date1, date2) = InUnit(date2 - date1, unit)
<1> DEFINE s == date2 - date1
<1>1. s \in Int /\ s >= 1
  BY SMT
<1>2. (IF s > 1 THEN s ELSE 1) = s
  BY <1>1, SMT
<1> QED BY <1>1, <1>2, SMTT(30) DEF humanReadableDuration, MIN_SECONDS, HOUR_SECONDS, DAY_SECONDS, WEEK_SECONDS, YEAR_SECONDS

\* humanReadableDuration rounds to the unit it shows, for all durations.
THEOREM DurationCorrect ==
    ASSUME NEW date1 \in Int, NEW date2 \in Int, date1 < date2
    PROVE  DurationIsRounded(date1, date2)
<1>1. PICK unit \in {1, MIN_SECONDS, DAY_SECONDS, WEEK_SECONDS, YEAR_SECONDS} :
         humanReadableDuration(date1, date2) = InUnit(date2 - date1, unit)
  BY UnitsShown
<1>2. /\ 2 * ((date2 - date1) - Round(date2 - date1, unit) * unit) <= unit
      /\ -2 * ((date2 - date1) - Round(date2 - date1, unit) * unit) <= unit
  BY RoundIsNearest
<1> QED BY <1>1, <1>2 DEF DurationIsRounded, InUnit

\* A document that was updated an hour ago is shown as updated "0day ago", and so it stays
\* for half a day: the branch for hours is never taken.
THEOREM HoursAreLost ==
    ASSUME NEW date1 \in Int, NEW date2 \in Int,
           HOUR_SECONDS <= date2 - date1, date2 - date1 < 12 * HOUR_SECONDS
    PROVE  humanReadableDuration(date1, date2) = [count |-> 0, unit |-> DAY_SECONDS]
<1> DEFINE s == date2 - date1
<1>1. s \in Int /\ s >= 3600 /\ s < 43200
  BY SMT DEF HOUR_SECONDS, MIN_SECONDS
<1>2. humanReadableDuration(date1, date2) = InUnit(s, DAY_SECONDS)
  BY <1>1, SMTT(30) DEF humanReadableDuration, MIN_SECONDS, HOUR_SECONDS, DAY_SECONDS, WEEK_SECONDS
<1>3. Round(s, DAY_SECONDS) = 0
  BY <1>1, SMTT(30) DEF Round, MIN_SECONDS, HOUR_SECONDS, DAY_SECONDS
<1> QED BY <1>2, <1>3 DEF InUnit
=============================================================================
