---------------------------- MODULE ConfCloudIndex ----------------------------
(***************************************************************************)
(* How Confluence pages get into the search index                          *)
(* (integrations/confluence_cloud.ts, indexContent).  A job of the         *)
(* incremental queue asks for what was modified since the newest           *)
(* confCloudIndexLog row less one day, a job of the full queue for         *)
(* everything; each fetches page after page, newest first, writes the      *)
(* documents to Elasticsearch, and logs a latestModified after every page. *)
(* Both queues run at the same time, and an error ends a job silently.     *)
(*                                                                         *)
(* The site is external: its documents are edited at any moment, also      *)
(* between two pages of one crawl.  Time is counted in ticks of a day.     *)
(***************************************************************************)
EXTENDS Integers, FiniteSets

CONSTANTS
    Docs,
    Jobs,          \* one per queue and worker
    FullJobs,      \* those of the full-index queue
    PageSize,      \* the limit of a request
    Day,           \* ticks per day
    Skew,          \* how much later the site reads a UTC time than meant: its time zone
    MaxSpan,       \* bound: ticks from a job's start to its end
    MaxTime,       \* bound: the last tick at which documents are edited
    MaxEdits,      \* bound: edits
    MaxFailures    \* bound: jobs that fail

\* Within a week the text of a Date starts with a weekday that tells its day.
ASSUME IndexAssumption == 
    /\ FullJobs \subseteq Jobs
    /\ PageSize \in Nat \ {0} /\ Day \in Nat \ {0}
    /\ MaxSpan \in Nat /\ MaxEdits \in Nat /\ MaxFailures \in Nat 
    /\ Skew \in Int
    /\ MaxTime \in 2 .. 7 * Day - 1

VARIABLES
    now,        \* external: the site's clock
    mod,        \* external: when each document was last modified, 0 before it exists
    es,         \* the version of each document in Elasticsearch, 0 for none
    late,       \* the writes under way although their job has failed
    logged,     \* the newest latestModified among the confCloudIndexLog rows, 0 for none
    job,        \* per job, the state of indexContent
    failures,
    cut,        \* ghost: a job has failed after its first page and before its end
    edits       \* external: how often documents have been edited

vars == <<now, mod, es, late, logged, job, failures, cut, edits>>

Time == 0..MaxTime
Version == [doc : Docs, ver : Time]

NoJob == [pc |-> "idle", since |-> 0, start |-> 0, later |-> FALSE, 
          todo |-> {}, page |-> {}]

JobState == [pc : {"idle", "first", "next", "write", "log"}, since : -Day..MaxTime, start : Time, 
             later : BOOLEAN, todo : SUBSET Version, page : SUBSET Version]

TypeOK ==
    /\ now \in Time
    /\ mod \in [Docs -> Time]
    /\ es \in [Docs -> Time] /\ late \subseteq Version
    /\ logged \in Time
    /\ failures \in 0..MaxFailures /\ cut \in BOOLEAN /\ edits \in 0..MaxEdits
    /\ job \in [Jobs -> JobState]

\* The documents that exist at first are older than any job.
Init ==
    /\ now = 2
    /\ mod \in [Docs -> {0, 1}]
    /\ es = [d \in Docs |-> 0] /\ late = {}
    /\ logged = 0
    /\ job = [j \in Jobs |-> NoJob]
    /\ failures = 0 /\ cut = FALSE /\ edits = 0

At(j, pc) == job[j].pc = pc
Current(d) == [doc |-> d, ver |-> mod[d]]

-----------------------------------------------------------------------------
(* The requests *)

\* Mutant of AfterModified: the day is not subtracted.
AfterModified_SameDay(full) == IF full THEN -Day ELSE logged

\* latestModified of the query: the newest row less one day, or 1970 without one.
AfterModified(full) == (IF full THEN 0 ELSE logged) - Day

\* lastmodified >= "...", read in the time zone of the site.
Matches(since) == {d \in Docs : mod[d] > 0 /\ mod[d] >= since + Skew}

\* The next page of a listing, newest first.
FirstOf(listing) ==
    {page \in SUBSET listing :
        /\ Cardinality(page) <= PageSize
        /\ page # listing => Cardinality(page) = PageSize
        /\ \A v \in page, u \in listing \ page : v.ver >= u.ver}

\* What such a page holds: the documents as they are now.  One edited since the listing was
\* made has moved to the front, and may be missing here.
Contents(page) ==
    LET edited == {v \in page : mod[v.doc] # v.ver}
    IN  {{Current(v.doc) : v \in page \ gone} : gone \in SUBSET edited}

\* The index after some documents have been written: the copy that comes last stays.
Written(docs) == 
    [d \in Docs |-> IF \E v \in docs : v.doc = d THEN (CHOOSE v \in docs : v.doc = d).ver ELSE es[d]]

-----------------------------------------------------------------------------
(* The text order of dates *)

\* Array.sort compares the texts of the dates: Fri < Mon < Sat < Sun < Thu < Tue < Wed, and
\* day 0 of 1970 was a Thursday.
NameRank == <<5, 1, 3, 4, 2, 6, 7>>
TextRank(t) == (NameRank[((t \div Day) % 7) + 1] * Day) + (t % Day)

\* docs.map(updated).sort().at(-1)
LatestModified(page) ==
    CHOOSE t \in {v.ver : v \in page} : \A v \in page : TextRank(v.ver) <= TextRank(t)

-----------------------------------------------------------------------------
(* indexContent *)

\* The newest row is read; the loop begins with nextURL = null.
Start(j) ==
    /\ At(j, "idle")
    /\ job' = [job EXCEPT ![j] = 
                 [NoJob EXCEPT !.pc = "first", !.since = AfterModified(j \in FullJobs), !.start = now]]
    /\ UNCHANGED <<now, mod, es, late, logged, failures, cut, edits>>

\* Mutant of Fetched: nextURL is not followed.
Fetched_OnePage(j, listing) ==
    \E page \in FirstOf(listing) : \E got \in Contents(page) :
       job' = [job EXCEPT ![j].pc = "write", ![j].since = 0, ![j].page = got, ![j].todo = {}]

Fetched(j, listing) ==
    \E page \in FirstOf(listing) : \E got \in Contents(page) :
       job' = [job EXCEPT ![j].pc = "write", ![j].since = 0, 
                          ![j].todo = listing \ page, ![j].page = got]

GetContentSummary(j) ==
    /\ At(j, "first")
    /\ Fetched(j, {Current(d) : d \in Matches(job[j].since)})
    /\ UNCHANGED <<now, mod, es, late, logged, failures, cut, edits>>

GetContentSummaryNext(j) ==
    /\ At(j, "next")
    /\ Fetched(j, job[j].todo)
    /\ UNCHANGED <<now, mod, es, late, logged, failures, cut, edits>>

\* indexConfCloudContent sends all documents of a page at once, and waits for them.
IndexConfCloudContent(j) ==
    /\ At(j, "write")
    /\ es' = Written(job[j].page)
    /\ job' = [job EXCEPT ![j].pc = "log"]
    /\ UNCHANGED <<now, mod, late, logged, failures, cut, edits>>

LogAndGoOn(j) ==
    /\ At(j, "log")
    /\ LET page == job[j].page
       IN  logged' = IF page # {} /\ LatestModified(page) > logged THEN LatestModified(page) 
                     ELSE logged
    /\ job' = [job EXCEPT ![j] = IF job[j].todo = {} THEN NoJob 
                                 ELSE [@ EXCEPT !.pc = "next", !.later = TRUE, !.page = {}]]
    /\ UNCHANGED <<now, mod, es, late, failures, cut, edits>>

\* A request gives null or throws, Elasticsearch or the database throws, or the process
\* dies: the job ends, and Bull is told it is done.  When a write fails others of its page
\* have landed, and others still are on their way.
Fail(j) ==
    /\ ~At(j, "idle")
    /\ failures < MaxFailures
    /\ failures' = failures + 1
    /\ cut' = (cut \/ job[j].later)
    /\ \E part, sent \in SUBSET (IF At(j, "write") THEN job[j].page ELSE {}) : 
         es' = Written(part) /\ late' = late \cup (sent \ part)
    /\ job' = [job EXCEPT ![j] = NoJob]
    /\ UNCHANGED <<now, mod, logged, edits>>

\* A write lands after its job has failed, or is lost.
Land(v) ==
    /\ v \in late
    /\ late' = late \ {v}
    /\ es' \in {es, Written({v})}
    /\ UNCHANGED <<now, mod, logged, job, failures, cut, edits>>

-----------------------------------------------------------------------------
(* The site *)

Edit(d) ==
    /\ mod[d] < now
    /\ edits < MaxEdits
    /\ edits' = edits + 1
    /\ mod' = [mod EXCEPT ![d] = now]
    /\ UNCHANGED <<now, es, late, logged, job, failures, cut>>

\* Bound: no job takes longer than MaxSpan, and no write longer than a tick.
Tick ==
    /\ now < MaxTime
    /\ late = {}
    /\ \A j \in Jobs : ~At(j, "idle") => now < job[j].start + MaxSpan
    /\ now' = now + 1
    /\ UNCHANGED <<mod, es, late, logged, job, failures, cut, edits>>

Step(j) == 
    Start(j) \/ GetContentSummary(j) \/ GetContentSummaryNext(j) \/ IndexConfCloudContent(j) 
    \/ LogAndGoOn(j)

Next ==
    \/ \E j \in Jobs : Step(j) \/ Fail(j)
    \/ \E d \in Docs : Edit(d)
    \/ \E v \in late : Land(v)
    \/ Tick

\* Bull repeats the jobs, and one that does not fail goes on.  It takes no more than that of
\* the full queue: an incremental job may stop anywhere, and a write may never land.
Spec == Init /\ [][Next]_vars /\ \A j \in FullJobs : WF_vars(Step(j))

-----------------------------------------------------------------------------
(* Properties *)

\* A job under way will still write the current version of a document.
WillIndex(j, d) ==
    \/ At(j, "first") /\ d \in Matches(job[j].since)
    \/ Current(d) \in job[j].todo
    \/ At(j, "write") /\ Current(d) \in job[j].page

Stale(d) == es[d] # mod[d]

\* The comment in indexContent has the one-day step back guarantee that nothing is missed:
\* a document whose latest version is not indexed is within reach of the next incremental
\* query, or a job under way will index it.  It takes jobs short enough for the day to cover
\* two of them and the time zone, and that do not fail after their first page: that page is
\* the newest, and once it is logged the query no longer reaches the older ones.
NothingMissed ==
    ~cut => \A d \in Docs : mod[d] > 0 /\ Stale(d) =>
              \/ d \in Matches(AfterModified(FALSE))
              \/ \E j \in Jobs : WillIndex(j, d)

\* Once editing stops, every document ends up in the index in its last version, in spite of
\* failures and of crawls that overtake each other: the full index repairs what they left.
EventuallyIndexed == <>[](\A d \in Docs : ~Stale(d))

\* The provider's part of the search index, as SearchIndex sees it.
Index == INSTANCE SearchIndex WITH
    Items <- Docs,
    latest <- mod,
    found <- es,
    asked <- {d \in Docs : mod[d] > 0 /\ (d \in Matches(AfterModified(FALSE)) 
                                         \/ \E j \in Jobs : WillIndex(j, d))},
    cut <- cut

\* Both queues together keep what SearchIndex promises of every provider, although they
\* overtake each other and write older versions over newer ones: whatever is written too
\* late is asked for again.
KeepsIndexPromise == Index!Spec
=============================================================================
