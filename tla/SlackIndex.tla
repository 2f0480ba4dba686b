------------------------------ MODULE SlackIndex ------------------------------
(***************************************************************************)
(* How the messages of one Slack channel get into the search index         *)
(* (integrations/slack.ts).  A listener of the running app indexes each    *)
(* message as it arrives and forgets those it fails on; the batch job of   *)
(* services/job_queues.ts reads the history after the newest ts it logged, *)
(* page after page, and logs the newest ts of each page.  Channels have    *)
(* log rows and documents of their own, and do not meet.                   *)
(*                                                                         *)
(* Slack is external: it lists a history newest first, from one snapshot.  *)
(***************************************************************************)
EXTENDS Integers, FiniteSets

CONSTANTS
    Jobs,          \* batch jobs, one per worker
    PageSize,      \* the limit of a request
    MaxTS,         \* bound: the messages of the channel
    MaxFailures    \* bound: jobs that fail

ASSUME SlackAssumption == 
    PageSize \in Nat \ {0} /\ MaxTS \in Nat /\ MaxFailures \in Nat

VARIABLES
    posted,     \* external: how many messages there are, with ts 1, 2, ...
    byUser,     \* external: those with a user; the others are not indexed
    noLink,     \* external: those whose permalink Slack never gives
    events,     \* the messages the listener is working on
    es,         \* the messages in Elasticsearch, by the id channel:ts
    late,       \* the messages whose writes are under way although their job has failed
    latestTS,   \* the newest slackChannelIndexLog row of the channel, 0 for none
    job,        \* per job, the state of indexChannel
    failures,
    cut         \* ghost: a job has failed after its first page and before its end

vars == <<posted, byUser, noLink, events, es, late, latestTS, job, failures, cut>>

TS == 1..MaxTS
NoJob == [pc |-> "idle", oldest |-> 0, later |-> FALSE, rest |-> {}, page |-> {}]

JobState == [pc : {"idle", "first", "next", "index", "log"}, oldest : 0..MaxTS, later : BOOLEAN,
             rest : SUBSET TS, page : SUBSET TS]

TypeOK ==
    /\ posted \in 0..MaxTS
    /\ byUser \subseteq TS /\ noLink \subseteq TS
    /\ events \subseteq TS
    /\ es \subseteq TS /\ late \subseteq TS
    /\ latestTS \in 0..MaxTS
    /\ failures \in 0..MaxFailures /\ cut \in BOOLEAN
    /\ job \in [Jobs -> JobState]

Init ==
    /\ posted = 0
    /\ byUser = {} /\ noLink = {}
    /\ events = {}
    /\ es = {} /\ late = {}
    /\ latestTS = 0
    /\ job = [j \in Jobs |-> NoJob]
    /\ failures = 0 /\ cut = FALSE

At(j, pc) == job[j].pc = pc

-----------------------------------------------------------------------------
(* Slack *)

\* A message is posted, by a user or not, with a permalink or not; its event reaches a
\* connected app, or no app.
Post ==
    /\ posted < MaxTS
    /\ posted' = posted + 1
    /\ byUser' \in {byUser, byUser \cup {posted + 1}}
    /\ noLink' \in {noLink, noLink \cup (byUser' \ byUser)}
    /\ events' \in {events, events \cup (byUser' \ byUser)}
    /\ UNCHANGED <<es, late, latestTS, job, failures, cut>>

-----------------------------------------------------------------------------
(* The listener of attachListeners *)

Heard(ts) ==
    /\ ts \in events \ noLink
    /\ events' = events \ {ts}
    /\ es' = es \cup {ts}
    /\ UNCHANGED <<posted, byUser, noLink, late, latestTS, job, failures, cut>>

\* getPermalink or indexSlackMessage throws, or the process dies: the event is gone.
Dropped(ts) ==
    /\ ts \in events
    /\ events' = events \ {ts}
    /\ UNCHANGED <<posted, byUser, noLink, es, late, latestTS, job, failures, cut>>

-----------------------------------------------------------------------------
(* indexChannel *)

Start(j) ==
    /\ At(j, "idle")
    /\ job' = [job EXCEPT ![j] = [NoJob EXCEPT !.pc = "first", !.oldest = latestTS]]
    /\ UNCHANGED <<posted, byUser, noLink, events, es, late, latestTS, failures, cut>>

\* Mutant of After: it skips one.
After_OffByOne(oldest) == {ts \in 1..posted : ts > oldest + 1}

\* Messages after oldest, inclusive: false.
After(oldest) == {ts \in 1..posted : ts > oldest}

\* The listing whose next page the job asks for.
Listing(j) == IF At(j, "first") THEN After(job[j].oldest) ELSE job[j].rest

\* The first page of a listing, the newest messages: has_more says whether anything is left.
Page(listing) == {m \in listing : Cardinality({k \in listing : k > m}) < PageSize}

\* Mutant of Fetched: the app's nextCursor is dropped, so one page is all it reads.
Fetched_OnePage(j, listing) ==
    job' = [job EXCEPT ![j].pc = "index", ![j].oldest = 0, ![j].page = Page(listing) \cap byUser,
                       ![j].rest = {}]

\* The messages of a page that have a ts and a user, with their permalinks.
Fetched(j, listing) ==
    job' = [job EXCEPT ![j].pc = "index", ![j].oldest = 0, ![j].page = Page(listing) \cap byUser,
                       ![j].rest = listing \ Page(listing)]

\* Mutant of History: allSettled, and the messages without a permalink are left out.
History_AllSettled(j) ==
    /\ At(j, "first") \/ At(j, "next")
    /\ job' = [job EXCEPT ![j].pc = "index", ![j].oldest = 0, 
                          ![j].page = (Page(Listing(j)) \cap byUser) \ noLink,
                          ![j].rest = Listing(j) \ Page(Listing(j))]
    /\ UNCHANGED <<posted, byUser, noLink, events, es, late, latestTS, failures, cut>>

History(j) ==
    /\ At(j, "first") \/ At(j, "next")
    /\ Page(Listing(j)) \cap noLink = {}
    /\ Fetched(j, Listing(j))
    /\ UNCHANGED <<posted, byUser, noLink, events, es, late, latestTS, failures, cut>>

IndexSlackMessages(j) ==
    /\ At(j, "index")
    /\ es' = es \cup job[j].page
    /\ job' = [job EXCEPT ![j].pc = "log"]
    /\ UNCHANGED <<posted, byUser, noLink, events, late, latestTS, failures, cut>>

\* What one page makes of the newest log row: rows are added, and the newest counts.
Logged(page) ==
    CHOOSE m \in page \cup {latestTS} : \A x \in page \cup {latestTS} : x <= m

Log(j) ==
    /\ At(j, "log")
    /\ latestTS' = Logged(job[j].page)
    /\ job' = [job EXCEPT ![j] = IF job[j].rest = {} THEN NoJob 
                                 ELSE [@ EXCEPT !.pc = "next", !.later = TRUE, !.page = {}]]
    /\ UNCHANGED <<posted, byUser, noLink, events, es, late, failures, cut>>

\* One message of the page has no permalink: Promise.all rejects, and the loop is left.  It
\* happens to every job that gets such a page, so it is not among the bounded failures.
NoPermalink(j) ==
    /\ At(j, "first") \/ At(j, "next")
    /\ Page(Listing(j)) \cap noLink # {}
    /\ cut' = (cut \/ job[j].later)
    /\ job' = [job EXCEPT ![j] = NoJob]
    /\ UNCHANGED <<posted, byUser, noLink, events, es, late, latestTS, failures>>

\* A request fails for good, Elasticsearch or the database throws, or the worker dies.  When
\* a write fails others of its page have landed, and others still are on their way.
Fail(j) ==
    /\ ~At(j, "idle")
    /\ failures < MaxFailures
    /\ failures' = failures + 1
    /\ cut' = (cut \/ job[j].later)
    /\ \E part, sent \in SUBSET (IF At(j, "index") THEN job[j].page ELSE {}) : 
         es' = es \cup part /\ late' = late \cup sent
    /\ job' = [job EXCEPT ![j] = NoJob]
    /\ UNCHANGED <<posted, byUser, noLink, events, latestTS>>

Step(j) == Start(j) \/ History(j) \/ NoPermalink(j) \/ IndexSlackMessages(j) \/ Log(j)

-----------------------------------------------------------------------------
(* Elasticsearch *)

\* A write lands after its job has failed, or is lost.
Land(ts) ==
    /\ ts \in late
    /\ late' = late \ {ts}
    /\ es' \in {es, es \cup {ts}}
    /\ UNCHANGED <<posted, byUser, noLink, events, latestTS, job, failures, cut>>

Next ==
    \/ Post
    \/ \E ts \in TS : Heard(ts) \/ Dropped(ts) \/ Land(ts)
    \/ \E j \in Jobs : Step(j) \/ Fail(j)

\* Bull repeats the job, and a job that does not fail goes on.
Spec == Init /\ [][Next]_vars /\ \A j \in Jobs : WF_vars(Step(j))

-----------------------------------------------------------------------------
(* Properties *)

\* A job under way will still index the message.
WillIndex(j, ts) ==
    \/ At(j, "first") /\ ts > job[j].oldest
    \/ ts \in job[j].rest
    \/ At(j, "index") /\ ts \in job[j].page

\* services/job_queues.ts says of the job that it indexes the messages of all channels
\* since the last fetch: a message with a user that is not indexed is newer than the last
\* ts logged, so the next job asks for it, or a job under way will index it.  That holds
\* as long as no job fails after its first page: Slack lists the newest messages first, and
\* once their ts is logged the older ones are never asked for again.
NothingSkipped ==
    ~cut => \A ts \in byUser : ts \in es \/ ts > latestTS \/ \E j \in Jobs : WillIndex(j, ts)

\* Every message of a user is indexed in the end, whatever the listener misses or drops and
\* whichever job fails on its first page.  A message without a permalink may hold up those
\* that share its page and all older ones, but none that is a page or more newer.
EveryMessageIndexed == 
    \A ts \in TS : 
        ts \in byUser ~> (ts \in es \/ cut \/ \E m \in noLink : ts < m + PageSize)

\* The channel's part of the search index, as SearchIndex sees it: a message has one version.
Index == INSTANCE SearchIndex WITH
    Items <- TS,
    latest <- [ts \in TS |-> IF ts \in byUser THEN 1 ELSE 0],
    found <- [ts \in TS |-> IF ts \in es THEN 1 ELSE 0],
    asked <- {ts \in byUser : ts > latestTS \/ \E j \in Jobs : WillIndex(j, ts)},
    cut <- cut

\* The job and the listener keep what SearchIndex promises of every provider: what is found
\* stays found, and nothing drops out of what is asked for before it is found.
KeepsIndexPromise == Index!Spec

\* The same promise without the condition.
IndexedSinceLastFetch ==
    \A ts \in byUser : ts \in es \/ ts > latestTS \/ \E j \in Jobs : WillIndex(j, ts)
=============================================================================
