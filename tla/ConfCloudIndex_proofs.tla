------------------------- MODULE ConfCloudIndex_proofs -------------------------
(***************************************************************************)
(* One day back is enough, for any number of jobs and documents, any page  *)
(* size and any edits: if a day covers two jobs and the time zone, nothing *)
(* is missed that no job was cut off from.                                 *)
(***************************************************************************)
EXTENDS ConfCloudIndex, TLAPS, WellFoundedInduction

\* The day that the query goes back covers two jobs and the time zone.
ShortJobs == 2 * MaxSpan + Skew <= Day

-----------------------------------------------------------------------------
(* The text order of dates *)

\* A set of numbers up to a bound has a greatest one.
LEMMA GreatestExists ==
    ASSUME NEW n \in Nat, NEW S \in SUBSET (0..n), S # {}
    PROVE  \E m \in S : \A x \in S : x <= m
  <1> DEFINE T == {y \in Nat : n - y \in S}
             R == OpToRel(<, Nat)
  <1>1. T \subseteq Nat /\ T # {}
    <2>1. PICK x \in S : TRUE
      OBVIOUS
    <2>2. n - x \in Nat /\ n - (n - x) = x
      BY <2>1
    <2> QED
      BY <2>1, <2>2
  <1>2. IsWellFoundedOn(R, Nat)
    BY NatLessThanWellFounded
  <1>3. PICK t \in T : \A y \in T : ~(<<y, t>> \in R)
    <2> HIDE DEF R, T
    <2> QED
      BY <1>1, <1>2, WFMin
  <1>4. R = {ss \in Nat \X Nat : ss[1] < ss[2]}
    BY Zenon DEF OpToRel
  <1>5. ASSUME NEW y \in T PROVE t <= y
    <2>1. y \in Nat /\ t \in Nat /\ <<y, t>> \notin R
      BY <1>3
    <2> HIDE DEF R, T
    <2>2. ~(y < t)
      BY <2>1, <1>4
    <2> QED
      BY <2>1, <2>2
  <1>6. ASSUME NEW x \in S PROVE x <= n - t
    <2>1. x \in 0..n /\ n - x \in Nat /\ n - (n - x) = x
      OBVIOUS
    <2>2. n - x \in T
      BY <2>1
    <2> QED
      BY <1>1, <1>5, <2>1, <2>2
  <1> QED
    BY <1>6

\* The rank of a date's text is a number, if not the one of the date.
LEMMA TextRanks ==
    ASSUME NEW t \in Time
    PROVE  TextRank(t) \in 0..(8 * Day)
  <1>1. t \in Nat /\ Day \in Nat /\ Day > 0
    BY IndexAssumption DEF Time
  <1>2. t \div Day \in Int /\ t % Day \in 0..(Day - 1)
    BY <1>1
  <1>3. PICK i \in 1..7 : i = ((t \div Day) % 7) + 1
    BY <1>2
  <1>4. NameRank[i] \in {1, 2, 3, 4, 5, 6, 7}
    BY <1>3 DEF NameRank
  <1>5. NameRank[i] * Day \in Day..(7 * Day)
    BY <1>1, <1>4
  <1>6. PICK a \in Day..(7 * Day), b \in 0..(Day - 1) : TextRank(t) = a + b
    BY <1>2, <1>3, <1>5 DEF TextRank
  <1> QED
    BY <1>1, <1>6

\* Whichever date of a page its text order makes the last, it is one of the page.
LEMMA LatestIsOfPage ==
    ASSUME NEW page \in SUBSET Version, page # {}
    PROVE  LatestModified(page) \in {v.ver : v \in page}
  <1> DEFINE S == {TextRank(v.ver) : v \in page}
  <1>1. \A v \in page : v.ver \in Time
    BY DEF Version
  <1>2. S \in SUBSET (0..(8 * Day)) /\ S # {} /\ 8 * Day \in Nat
    BY <1>1, TextRanks, IndexAssumption
  <1>3. PICK m \in S : \A x \in S : x <= m
    BY <1>2, GreatestExists
  <1>4. \E t \in {v.ver : v \in page} : \A v \in page : TextRank(v.ver) <= TextRank(t)
    <2>1. PICK w \in page : m = TextRank(w.ver)
      BY <1>3
    <2> QED
      BY <1>3, <2>1
  <1> QED
    BY <1>4 DEF LatestModified

-----------------------------------------------------------------------------
(* The steps of a job *)

\* The four records a step makes of a job's.
Begun(s, t) == [NoJob EXCEPT !.pc = "first", !.since = s, !.start = t]
Read(r, page, todo) == [r EXCEPT !.pc = "write", !.since = 0, !.todo = todo, !.page = page]
Sent(r) == [r EXCEPT !.pc = "log"]
Turned(r) == [r EXCEPT !.pc = "next", !.later = TRUE, !.page = {}]

LEMMA JobStarts ==
    ASSUME NEW s \in -Day..MaxTime, NEW t \in Time
    PROVE  /\ NoJob \in JobState /\ NoJob.pc = "idle" /\ ~NoJob.later 
           /\ NoJob.todo = {} /\ NoJob.page = {}
           /\ Begun(s, t) \in JobState /\ Begun(s, t).pc = "first" /\ ~Begun(s, t).later
           /\ Begun(s, t).since = s /\ Begun(s, t).start = t
           /\ Begun(s, t).todo = {} /\ Begun(s, t).page = {}
  <1>1. 0 \in -Day..MaxTime /\ 0 \in Time
    BY IndexAssumption DEF Time
  <1>2. NoJob \in JobState
    BY <1>1 DEF NoJob, JobState
  <1>3. /\ Begun(s, t).pc = "first" /\ Begun(s, t).since = s /\ Begun(s, t).start = t
        /\ ~Begun(s, t).later /\ Begun(s, t).todo = {} /\ Begun(s, t).page = {}
    BY DEF Begun, NoJob
  <1>4. Begun(s, t) \in JobState
    <2> DEFINE p == [NoJob EXCEPT !.pc = "first", !.since = s]
    <2>1. p \in JobState
      BY <1>2 DEF JobState
    <2>2. Begun(s, t) = [p EXCEPT !.start = t]
      BY DEF Begun
    <2> HIDE DEF p
    <2> QED
      BY <2>1, <2>2 DEF JobState
  <1> QED
    BY <1>2, <1>3, <1>4 DEF NoJob

LEMMA JobReads ==
    ASSUME NEW r \in JobState, NEW page \in SUBSET Version, NEW todo \in SUBSET Version
    PROVE  /\ Read(r, page, todo) \in JobState /\ Read(r, page, todo).pc = "write"
           /\ Read(r, page, todo).later = r.later /\ Read(r, page, todo).start = r.start
           /\ Read(r, page, todo).todo = todo /\ Read(r, page, todo).page = page
  <1> DEFINE q == [r EXCEPT !.pc = "write", !.since = 0]
  <1>1. q \in JobState
    <2>1. 0 \in -Day..MaxTime
      BY IndexAssumption
    <2> QED
      BY <2>1 DEF JobState
  <1>2. Read(r, page, todo) = [q EXCEPT !.todo = todo, !.page = page]
    BY DEF Read
  <1>3. [q EXCEPT !.todo = todo, !.page = page] \in JobState
    <2> HIDE DEF q
    <2> QED
      BY <1>1 DEF JobState
  <1>4. /\ Read(r, page, todo).pc = "write" 
        /\ Read(r, page, todo).later = r.later /\ Read(r, page, todo).start = r.start
        /\ Read(r, page, todo).todo = todo /\ Read(r, page, todo).page = page
    BY DEF Read, JobState
  <1> QED
    BY <1>2, <1>3, <1>4

LEMMA JobGoesOn ==
    ASSUME NEW r \in JobState
    PROVE  /\ Sent(r) \in JobState /\ Sent(r).pc = "log" /\ Sent(r).later = r.later
           /\ Sent(r).start = r.start /\ Sent(r).todo = r.todo /\ Sent(r).page = r.page
           /\ Turned(r) \in JobState /\ Turned(r).pc = "next" /\ Turned(r).later
           /\ Turned(r).start = r.start /\ Turned(r).todo = r.todo /\ Turned(r).page = {}
BY DEF Sent, Turned, JobState

\* The answer to a request has documents of the listing, in their present version, and
\* leaves out no current one but for a later page.
LEMMA PageFetched ==
    ASSUME TypeOK, NEW j \in Jobs, NEW listing \in SUBSET Version, Fetched(j, listing)
    PROVE  \E got, todo \in SUBSET Version :
             /\ job' = [job EXCEPT ![j] = Read(job[j], got, todo)]
             /\ todo \subseteq listing
             /\ \A v \in got : v = Current(v.doc) /\ \E u \in listing : u.doc = v.doc
             /\ \A u \in listing : u = Current(u.doc) => u \in got \cup todo
  <1>0. PICK page \in FirstOf(listing) : \E got \in Contents(page) :
          job' = [job EXCEPT ![j].pc = "write", ![j].since = 0, 
                             ![j].todo = listing \ page, ![j].page = got]
    BY DEF Fetched
  <1>1. PICK got \in Contents(page) :
          job' = [job EXCEPT ![j].pc = "write", ![j].since = 0, 
                             ![j].todo = listing \ page, ![j].page = got]
    BY <1>0
  <1>2. page \subseteq listing
    BY DEF FirstOf
  <1>3. PICK gone \in SUBSET {v \in page : mod[v.doc] # v.ver} :
          got = {Current(v.doc) : v \in page \ gone}
    BY DEF Contents
  <1>4. \A v \in page : v.doc \in Docs /\ Current(v.doc) \in Version /\ Current(v.doc).doc = v.doc
    BY <1>2 DEF Version, Current, TypeOK
  <1>5. got \subseteq Version /\ \A v \in got : v = Current(v.doc) /\ \E u \in listing : u.doc = v.doc
    BY <1>2, <1>3, <1>4
  <1>6. ASSUME NEW u \in listing, u = Current(u.doc) PROVE u \in got \cup (listing \ page)
    <2>1. u \in page => u \notin gone
      BY <1>3, <1>6 DEF Current
    <2> QED
      BY <1>3, <1>6, <2>1
  <1>7. job' = [job EXCEPT ![j] = Read(job[j], got, listing \ page)]
    BY <1>1 DEF Read, TypeOK
  <1> QED
    BY <1>5, <1>6, <1>7

\* No two versions of one document.
OneVersion(docs) == \A v, w \in docs : v.doc = w.doc => v = w

LEMMA WrittenIs ==
    ASSUME TypeOK, NEW docs \in SUBSET Version, OneVersion(docs)
    PROVE  /\ Written(docs) \in [Docs -> Time]
           /\ \A v \in docs : Written(docs)[v.doc] = v.ver
           /\ \A d \in Docs : \/ Written(docs)[d] = es[d]
                              \/ \E v \in docs : v.doc = d
  <1>1. ASSUME NEW v \in docs PROVE Written(docs)[v.doc] = v.ver
    <2>1. v.doc \in Docs
      BY DEF Version
    <2>2. (CHOOSE w \in docs : w.doc = v.doc) = v
      BY DEF OneVersion
    <2> QED
      BY <2>1, <2>2 DEF Written
  <1>2. ASSUME NEW d \in Docs, ~\E v \in docs : v.doc = d PROVE Written(docs)[d] = es[d]
    BY <1>2 DEF Written
  <1>3. ASSUME NEW d \in Docs PROVE Written(docs)[d] \in Time
    <2>1. CASE \E v \in docs : v.doc = d
      BY <1>1, <2>1 DEF Version
    <2>2. CASE ~\E v \in docs : v.doc = d
      BY <1>2, <2>2 DEF TypeOK
    <2> QED
      BY <2>1, <2>2
  <1>4. Written(docs) = [d \in Docs |-> Written(docs)[d]]
    BY DEF Written
  <1>5. Written(docs) \in [Docs -> Time]
    BY <1>3, <1>4
  <1> QED
    BY <1>1, <1>2, <1>5

-----------------------------------------------------------------------------
(* The invariant *)

\* Nothing is newer than the clock, a job has run for no longer than it may, and it asks for
\* what an incremental job would ask for, or for more.
Clock ==
    /\ logged <= now
    /\ \A d \in Docs : mod[d] <= now /\ es[d] <= mod[d]
    /\ \A j \in Jobs : ~At(j, "idle") => job[j].start <= now /\ now <= job[j].start + MaxSpan
    /\ \A j \in Jobs : At(j, "first") => job[j].since <= logged - Day

\* A job has documents from its first answer on, and is past its first page from then on.
Phases ==
    \A j \in Jobs :
        /\ At(j, "idle") \/ At(j, "first") => ~job[j].later /\ job[j].page = {} /\ job[j].todo = {}
        /\ At(j, "next") => job[j].later

\* An old version is in a job's hands because the document has been edited since the job
\* began, and under way without a job because it has been edited MaxSpan ago at most.
Copies ==
    /\ \A j \in Jobs : OneVersion(job[j].page)
    /\ \A j \in Jobs : \A v \in job[j].page \cup job[j].todo :
         /\ 0 < v.ver /\ v.ver <= mod[v.doc]
         /\ v.ver # mod[v.doc] => job[j].start <= mod[v.doc]
    /\ \A v \in late :
         /\ 0 < v.ver /\ v.ver <= mod[v.doc]
         /\ v.ver # mod[v.doc] => now <= mod[v.doc] + MaxSpan

IInv == TypeOK /\ Clock /\ Phases /\ Copies

\* The numbers are numbers.
LEMMA Numbers ==
    ASSUME TypeOK
    PROVE  /\ Day \in Nat /\ Day > 0 /\ MaxSpan \in Nat /\ Skew \in Int /\ MaxTime \in Nat
           /\ now \in Nat /\ logged \in Nat
           /\ \A d \in Docs : mod[d] \in Nat /\ es[d] \in Nat
           /\ \A j \in Jobs : /\ job[j] \in JobState /\ job[j].start \in Nat /\ job[j].since \in Int
                              /\ job[j].page \subseteq Version /\ job[j].todo \subseteq Version
           /\ \A v \in Version : v.doc \in Docs /\ v.ver \in Nat
BY IndexAssumption DEF TypeOK, JobState, Version, Time

LEMMA InitHolds == Init => IInv
  <1> SUFFICES ASSUME Init PROVE IInv
    OBVIOUS
  <1>1. 0 \in Time /\ 1 \in Time /\ 2 \in Time /\ 0 \in -Day..MaxTime /\ MaxSpan \in Nat
    BY IndexAssumption DEF Time
  <1>2. NoJob \in JobState /\ NoJob.pc = "idle" /\ ~NoJob.later /\ NoJob.page = {} /\ NoJob.todo = {}
    BY <1>1, JobStarts
  <1>3. job \in [Jobs -> JobState] /\ \A j \in Jobs : job[j] = NoJob
    BY <1>2 DEF Init
  <1>4. mod \in [Docs -> Time] /\ es \in [Docs -> Time] 
        /\ \A d \in Docs : mod[d] \in {0, 1} /\ es[d] = 0
    BY <1>1 DEF Init
  <1>5. TypeOK
    <2>1. now \in Time /\ logged \in Time /\ late \subseteq Version /\ cut \in BOOLEAN
      BY <1>1 DEF Init
    <2>2. failures \in 0..MaxFailures /\ edits \in 0..MaxEdits
      BY IndexAssumption DEF Init
    <2> QED
      BY <1>3, <1>4, <2>1, <2>2 DEF TypeOK
  <1>6. Clock /\ Phases /\ Copies
    BY <1>2, <1>3, <1>4 DEF Init, Clock, Phases, Copies, At, OneVersion
  <1> QED
    BY <1>5, <1>6 DEF IInv

\* Every step keeps the invariant.
LEMMA StepHolds == IInv /\ [Next]_vars => IInv'
  <1> SUFFICES ASSUME IInv, [Next]_vars PROVE IInv'
    OBVIOUS
  <1> USE DEF IInv
  <1>0. /\ Day \in Nat /\ Day > 0 /\ MaxSpan \in Nat /\ Skew \in Int /\ MaxTime \in Nat
        /\ now \in Nat /\ logged \in Nat
        /\ \A d \in Docs : mod[d] \in Nat /\ es[d] \in Nat
        /\ \A j \in Jobs : /\ job[j] \in JobState /\ job[j].start \in Nat /\ job[j].since \in Int
                           /\ job[j].page \subseteq Version /\ job[j].todo \subseteq Version
        /\ \A v \in Version : v.doc \in Docs /\ v.ver \in Nat
    BY Numbers
  <1>1. ASSUME NEW j \in Jobs, Start(j) PROVE IInv'
    <2> DEFINE s == AfterModified(j \in FullJobs)
    <2>1. s \in -Day..MaxTime /\ s <= logged - Day
      BY <1>0 DEF AfterModified, TypeOK, Time
    <2>2. /\ job' = [job EXCEPT ![j] = Begun(s, now)]
          /\ UNCHANGED <<now, mod, es, late, logged, failures, cut, edits>>
      BY <1>1 DEF Start, Begun
    <2> HIDE DEF s
    <2>3. /\ job' \in [Jobs -> JobState] /\ job'[j].pc = "first" /\ ~job'[j].later
          /\ job'[j].since = s /\ job'[j].start = now /\ job'[j].page = {} /\ job'[j].todo = {}
          /\ \A k \in Jobs \ {j} : job'[k] = job[k]
      BY <2>1, <2>2, JobStarts DEF TypeOK
    <2>4. TypeOK'
      BY <2>2, <2>3 DEF TypeOK
    <2>5. Clock'
      BY <1>0, <2>1, <2>2, <2>3 DEF Clock, At
    <2>6. Phases' /\ Copies'
      BY <2>2, <2>3 DEF Phases, Copies, At, OneVersion
    <2> QED
      BY <2>4, <2>5, <2>6
  <1>2. ASSUME NEW j \in Jobs, GetContentSummary(j) \/ GetContentSummaryNext(j) PROVE IInv'
    <2>0. /\ At(j, "first") \/ At(j, "next")
          /\ UNCHANGED <<now, mod, es, late, logged, failures, cut, edits>>
      BY <1>2 DEF GetContentSummary, GetContentSummaryNext
    <2>1. PICK listing \in SUBSET Version :
            /\ Fetched(j, listing) 
            /\ \A v \in listing : /\ 0 < v.ver /\ v.ver <= mod[v.doc]
                                  /\ v.ver # mod[v.doc] => job[j].start <= mod[v.doc]
      <3>1. CASE GetContentSummary(j)
        <4> DEFINE l == {Current(d) : d \in Matches(job[j].since)}
        <4>1. \A d \in Matches(job[j].since) : d \in Docs /\ mod[d] > 0 /\ Current(d) \in Version
                /\ Current(d).doc = d /\ Current(d).ver = mod[d]
          BY DEF Matches, Current, Version, TypeOK
        <4>2. l \in SUBSET Version /\ \A v \in l : 0 < v.ver /\ v.ver = mod[v.doc]
          BY <4>1
        <4>3. Fetched(j, l)
          BY <3>1 DEF GetContentSummary
        <4> HIDE DEF l
        <4> QED
          BY <1>0, <4>2, <4>3
      <3>2. CASE GetContentSummaryNext(j)
        BY <1>0, <3>2 DEF GetContentSummaryNext, Copies
      <3> QED
        BY <1>2, <3>1, <3>2
    <2>2. PICK got, todo \in SUBSET Version :
            /\ job' = [job EXCEPT ![j] = Read(job[j], got, todo)]
            /\ todo \subseteq listing
            /\ \A v \in got : v = Current(v.doc) /\ \E u \in listing : u.doc = v.doc
      <3>1. \E got, todo \in SUBSET Version :
             /\ job' = [job EXCEPT ![j] = Read(job[j], got, todo)]
             /\ todo \subseteq listing
             /\ \A v \in got : v = Current(v.doc) /\ \E u \in listing : u.doc = v.doc
             /\ \A u \in listing : u = Current(u.doc) => u \in got \cup todo
        BY <2>1, PageFetched
      <3> QED
        BY <3>1
    <2>3. /\ job' \in [Jobs -> JobState] /\ job'[j].pc = "write" /\ job'[j].later = job[j].later
          /\ job'[j].start = job[j].start /\ job'[j].page = got /\ job'[j].todo = todo
          /\ \A k \in Jobs \ {j} : job'[k] = job[k]
      BY <1>0, <2>2, JobReads DEF TypeOK
    <2>4. TypeOK'
      BY <2>0, <2>3 DEF TypeOK
    <2>5. Clock'
      BY <2>0, <2>3 DEF Clock, At
    <2>6. Phases'
      BY <2>0, <2>3 DEF Phases, At
    <2>7. \A v \in got : 0 < v.ver /\ v.ver = mod[v.doc]
      <3> SUFFICES ASSUME NEW v \in got PROVE 0 < v.ver /\ v.ver = mod[v.doc]
        OBVIOUS
      <3>1. v.ver = mod[v.doc]
        BY <2>2 DEF Current
      <3>2. PICK u \in listing : u.doc = v.doc
        BY <2>2
      <3>3. u.ver \in Nat /\ mod[v.doc] \in Nat /\ 0 < u.ver /\ u.ver <= mod[v.doc]
        BY <1>0, <2>1, <3>2
      <3> QED
        BY <3>1, <3>3
    <2>8. OneVersion(got)
      BY <2>2 DEF OneVersion
    <2>9. Copies'
      <3>1. \A v \in got \cup todo : /\ 0 < v.ver /\ v.ver <= mod[v.doc]
                                     /\ v.ver # mod[v.doc] => job[j].start <= mod[v.doc]
        BY <1>0, <2>1, <2>2, <2>7
      <3> QED
        BY <2>0, <2>3, <2>8, <3>1 DEF Copies, OneVersion
    <2> QED
      BY <2>4, <2>5, <2>6, <2>9
  <1>3. ASSUME NEW j \in Jobs, IndexConfCloudContent(j) PROVE IInv'
    <2>1. /\ job[j].pc = "write" /\ es' = Written(job[j].page)
          /\ job' = [job EXCEPT ![j] = Sent(job[j])]
          /\ UNCHANGED <<now, mod, late, logged, failures, cut, edits>>
      BY <1>3 DEF IndexConfCloudContent, At, Sent, TypeOK
    <2>2. /\ job' \in [Jobs -> JobState] /\ job'[j].pc = "log" /\ job'[j].later = job[j].later
          /\ job'[j].start = job[j].start /\ job'[j].page = job[j].page /\ job'[j].todo = job[j].todo
          /\ \A k \in Jobs \ {j} : job'[k] = job[k]
      BY <1>0, <2>1, JobGoesOn DEF TypeOK
    <2>3. /\ es' \in [Docs -> Time]
          /\ \A d \in Docs : es'[d] = es[d] \/ \E v \in job[j].page : v.doc = d /\ es'[d] = v.ver
      BY <1>0, <2>1, WrittenIs DEF Copies
    <2>4. TypeOK'
      BY <2>1, <2>2, <2>3 DEF TypeOK
    <2>5. Clock'
      <3>1. \A d \in Docs : es'[d] <= mod[d]
        BY <2>3 DEF Clock, Copies
      <3> QED
        BY <2>1, <2>2, <3>1 DEF Clock, At
    <2>6. Phases' /\ Copies'
      BY <2>1, <2>2 DEF Phases, Copies, At, OneVersion
    <2> QED
      BY <2>4, <2>5, <2>6
  <1>4. ASSUME NEW j \in Jobs, LogAndGoOn(j) PROVE IInv'
    <2>1. /\ job[j].pc = "log"
          /\ \/ logged' = logged 
             \/ job[j].page # {} /\ logged' = LatestModified(job[j].page) /\ logged' > logged
          /\ job' = [job EXCEPT ![j] = NoJob] \/ job' = [job EXCEPT ![j] = Turned(job[j])]
          /\ UNCHANGED <<now, mod, es, late, failures, cut, edits>>
      <3>1. \/ logged' = logged 
            \/ job[j].page # {} /\ logged' = LatestModified(job[j].page) /\ logged' > logged
        BY <1>4, Zenon DEF LogAndGoOn
      <3>2. job' = [job EXCEPT ![j] = NoJob] \/ job' = [job EXCEPT ![j] = Turned(job[j])]
        <4>1. CASE job[j].todo = {}
          BY <1>4, <4>1, Zenon DEF LogAndGoOn
        <4>2. CASE job[j].todo # {}
          <5>1. job' = [job EXCEPT ![j] = [@ EXCEPT !.pc = "next", !.later = TRUE, !.page = {}]]
            BY <1>4, <4>2, Zenon DEF LogAndGoOn
          <5> QED
            BY <5>1 DEF Turned
        <4> QED
          BY <4>1, <4>2
      <3>3. job[j].pc = "log" /\ UNCHANGED <<now, mod, es, late, failures, cut, edits>>
        BY <1>4, Zenon DEF LogAndGoOn, At
      <3> QED
        BY <3>1, <3>2, <3>3
    <2>2. /\ job' \in [Jobs -> JobState] /\ job'[j].page = {} /\ job'[j].todo \subseteq job[j].todo
          /\ \/ job'[j].pc = "idle" /\ ~job'[j].later /\ job'[j].todo = {}
             \/ job'[j].pc = "next" /\ job'[j].later /\ job'[j].start = job[j].start
          /\ \A k \in Jobs \ {j} : job'[k] = job[k]
      <3>1. 0 \in -Day..MaxTime /\ 0 \in Time
        BY <1>0 DEF Time
      <3> QED
        BY <1>0, <2>1, <3>1, JobStarts, JobGoesOn DEF TypeOK
    <2>3. logged' \in Time /\ logged' <= now /\ logged <= logged'
      <3>1. CASE logged' = logged
        BY <1>0, <3>1 DEF TypeOK, Clock
      <3>2. CASE logged' # logged
        <4>1. PICK v \in job[j].page : logged' = v.ver
          BY <1>0, <2>1, <3>2, LatestIsOfPage
        <4>2. v \in Version /\ v.ver <= mod[v.doc] /\ mod[v.doc] <= now
          BY <1>0 DEF Copies, Clock
        <4> QED
          BY <1>0, <2>1, <3>2, <4>1, <4>2 DEF Version
      <3> QED
        BY <3>1, <3>2
    <2>4. TypeOK'
      BY <2>1, <2>2, <2>3 DEF TypeOK
    <2>5. Clock'
      <3>1. logged' \in Nat
        BY <2>3 DEF Time
      <3> QED
        BY <1>0, <2>1, <2>2, <2>3, <3>1 DEF Clock, At
    <2>6. Phases'
      BY <2>2 DEF Phases, At
    <2>7. Copies'
      <3>1. \A v \in job'[j].page \cup job'[j].todo : 
              v \in job[j].todo /\ job'[j].start = job[j].start
        BY <2>2
      <3> QED
        BY <2>1, <2>2, <3>1 DEF Copies, OneVersion
    <2> QED
      BY <2>4, <2>5, <2>6, <2>7
  <1>5. ASSUME NEW j \in Jobs, Fail(j) PROVE IInv'
    <2>1. PICK part, sent \in SUBSET job[j].page : es' = Written(part) /\ late' = late \cup (sent \ part)
      BY <1>5 DEF Fail
    <2>2. /\ job[j].pc # "idle" /\ failures' \in 0..MaxFailures
          /\ cut' = (cut \/ job[j].later) /\ job' = [job EXCEPT ![j] = NoJob]
          /\ UNCHANGED <<now, mod, logged, edits>>
      <3>1. /\ failures' = failures + 1 /\ failures < MaxFailures
            /\ failures \in 0..MaxFailures /\ MaxFailures \in Nat
        BY <1>5, IndexAssumption DEF Fail, TypeOK
      <3>2. failures' \in 0..MaxFailures
        BY <3>1
      <3> QED
        BY <1>5, <3>2 DEF Fail, At
    <2>3. /\ job' \in [Jobs -> JobState] /\ job'[j].pc = "idle" /\ ~job'[j].later 
          /\ job'[j].page = {} /\ job'[j].todo = {}
          /\ \A k \in Jobs \ {j} : job'[k] = job[k]
      <3>1. 0 \in -Day..MaxTime /\ 0 \in Time
        BY <1>0 DEF Time
      <3> QED
        BY <2>2, <3>1, JobStarts DEF TypeOK
    <2>4. /\ es' \in [Docs -> Time]
          /\ \A d \in Docs : es'[d] = es[d] \/ \E v \in job[j].page : v.doc = d /\ es'[d] = v.ver
      <3>1. part \in SUBSET Version /\ OneVersion(part)
        BY <1>0 DEF Copies, OneVersion
      <3> QED
        BY <2>1, <3>1, WrittenIs
    <2>5. TypeOK'
      <3>1. late' \subseteq Version /\ cut' \in BOOLEAN
        BY <1>0, <2>1, <2>2 DEF TypeOK
      <3> QED
        BY <2>2, <2>3, <2>4, <3>1 DEF TypeOK
    <2>6. Clock'
      <3>1. \A d \in Docs : es'[d] <= mod[d]
        BY <2>4 DEF Clock, Copies
      <3> QED
        BY <2>2, <2>3, <3>1 DEF Clock, At
    <2>7. Phases'
      BY <2>3 DEF Phases, At
    <2>8. Copies'
      <3>1. ASSUME NEW v \in sent 
            PROVE  /\ 0 < v.ver /\ v.ver <= mod[v.doc]
                   /\ v.ver # mod[v.doc] => now <= mod[v.doc] + MaxSpan
        <4>1. v \in job[j].page /\ v.doc \in Docs /\ mod[v.doc] \in Nat
          BY <1>0
        <4>2. job[j].start \in Nat /\ now <= job[j].start + MaxSpan
          BY <1>0, <2>2 DEF Clock, At
        <4> QED
          BY <1>0, <4>1, <4>2 DEF Copies
      <3> QED
        BY <2>1, <2>2, <2>3, <3>1 DEF Copies, OneVersion
    <2> QED
      BY <2>5, <2>6, <2>7, <2>8
  <1>6. ASSUME NEW v \in late, Land(v) PROVE IInv'
    <2>1. /\ es' = es \/ es' = Written({v}) 
          /\ late' \subseteq late
          /\ UNCHANGED <<now, mod, logged, job, failures, cut, edits>>
      BY <1>6 DEF Land
    <2>2. v \in Version /\ {v} \in SUBSET Version /\ OneVersion({v})
      BY DEF TypeOK, OneVersion
    <2>3. /\ es' \in [Docs -> Time]
          /\ \A d \in Docs : es'[d] = es[d] \/ (v.doc = d /\ es'[d] = v.ver)
      <3>1. CASE es' = es
        BY <3>1 DEF TypeOK
      <3>2. CASE es' = Written({v})
        <4>1. /\ Written({v}) \in [Docs -> Time] /\ Written({v})[v.doc] = v.ver
              /\ \A d \in Docs : Written({v})[d] = es[d] \/ \E w \in {v} : w.doc = d
          BY <2>2, WrittenIs
        <4>2. \A d \in Docs : es'[d] = es[d] \/ (v.doc = d /\ es'[d] = v.ver)
          BY <3>2, <4>1
        <4> QED
          BY <3>2, <4>1, <4>2
      <3> QED
        BY <2>1, <3>1, <3>2
    <2>4. TypeOK'
      BY <2>1, <2>3 DEF TypeOK
    <2>5. Clock'
      <3>1. \A d \in Docs : es'[d] <= mod[d]
        BY <2>3 DEF Clock, Copies
      <3> QED
        BY <2>1, <3>1 DEF Clock, At
    <2>6. Phases' /\ Copies'
      BY <2>1 DEF Phases, Copies, At, OneVersion
    <2> QED
      BY <2>4, <2>5, <2>6
  <1>7. ASSUME NEW d \in Docs, Edit(d) PROVE IInv'
    <2>1. /\ mod' = [mod EXCEPT ![d] = now] /\ edits' \in 0..MaxEdits
          /\ UNCHANGED <<now, es, late, logged, job, failures, cut>>
      <3>1. edits' = edits + 1 /\ edits < MaxEdits /\ edits \in 0..MaxEdits /\ MaxEdits \in Nat
        BY <1>7, IndexAssumption DEF Edit, TypeOK
      <3>2. edits' \in 0..MaxEdits
        BY <3>1
      <3> QED
        BY <1>7, <3>2 DEF Edit
    <2>2. mod' \in [Docs -> Time] /\ mod'[d] = now /\ \A e \in Docs \ {d} : mod'[e] = mod[e]
      BY <2>1 DEF TypeOK
    <2>3. TypeOK'
      BY <2>1, <2>2 DEF TypeOK
    <2>4. Clock'
      <3>1. \A e \in Docs : mod'[e] <= now /\ es[e] <= mod'[e]
        BY <1>0, <2>2 DEF Clock
      <3> QED
        BY <2>1, <3>1 DEF Clock, At
    <2>5. Phases'
      BY <2>1 DEF Phases, At
    <2>6. Copies'
      <3>1. ASSUME NEW j \in Jobs, NEW v \in job[j].page \cup job[j].todo
            PROVE  /\ 0 < v.ver /\ v.ver <= mod'[v.doc]
                   /\ v.ver # mod'[v.doc] => job[j].start <= mod'[v.doc]
        <4>1. v.doc \in Docs /\ v.ver \in Nat /\ 0 < v.ver /\ v.ver <= mod[v.doc] /\ mod[v.doc] <= now
          BY <1>0 DEF Copies, Clock
        <4>2. ~At(j, "idle")
          BY DEF Phases
        <4>3. job[j].start <= now
          BY <4>2 DEF Clock
        <4>4. CASE v.doc = d
          BY <1>0, <2>2, <4>1, <4>3, <4>4
        <4>5. CASE v.doc # d
          BY <2>2, <4>1, <4>5 DEF Copies
        <4> QED
          BY <4>4, <4>5
      <3>2. ASSUME NEW v \in late
            PROVE  /\ 0 < v.ver /\ v.ver <= mod'[v.doc]
                   /\ v.ver # mod'[v.doc] => now <= mod'[v.doc] + MaxSpan
        <4>1. v.doc \in Docs /\ v.ver \in Nat /\ 0 < v.ver /\ v.ver <= mod[v.doc] /\ mod[v.doc] <= now
          BY <1>0 DEF Copies, Clock, TypeOK
        <4>2. CASE v.doc = d
          BY <1>0, <2>2, <4>1, <4>2
        <4>3. CASE v.doc # d
          BY <2>2, <4>1, <4>3 DEF Copies
        <4> QED
          BY <4>2, <4>3
      <3> QED
        BY <2>1, <3>1, <3>2 DEF Copies, OneVersion
    <2> QED
      BY <2>3, <2>4, <2>5, <2>6
  <1>8. CASE Tick
    <2>1. /\ now' = now + 1 /\ now' \in Time /\ late = {}
          /\ \A j \in Jobs : ~At(j, "idle") => now < job[j].start + MaxSpan
          /\ UNCHANGED <<mod, es, late, logged, job, failures, cut, edits>>
      <3>1. now < MaxTime /\ now' = now + 1 /\ late = {}
        BY <1>8 DEF Tick
      <3>2. now' \in Time
        BY <1>0, <3>1 DEF Time
      <3> QED
        BY <1>8, <3>1, <3>2 DEF Tick
    <2>2. TypeOK'
      BY <2>1 DEF TypeOK
    <2>3. Clock'
      BY <1>0, <2>1 DEF Clock, At
    <2>4. Phases' /\ Copies'
      BY <2>1 DEF Phases, Copies, At, OneVersion
    <2> QED
      BY <2>2, <2>3, <2>4
  <1>9. CASE UNCHANGED vars
    BY <1>9 DEF vars, TypeOK, Clock, Phases, Copies, At, OneVersion
  <1> QED
    BY <1>1, <1>2, <1>3, <1>4, <1>5, <1>6, <1>7, <1>8, <1>9 DEF Next, Step

LEMMA Inductive == Spec => []IInv
BY InitHolds, StepHolds, PTL DEF Spec

\* The site's versions, the jobs and their dates keep their types.
THEOREM TypeCorrect == Spec => []TypeOK
BY Inductive, PTL DEF IInv

-----------------------------------------------------------------------------
(* Nothing is missed *)

\* A job will write the current version of a document, by a page it has or may still fetch.
Holds(j, d) ==
    \/ Current(d) \in job[j].todo
    \/ At(j, "write") /\ Current(d) \in job[j].page

\* A document is indexed, or a job that does not fail without setting cut holds it.
Kept(d) == es[d] = mod[d] \/ \E j \in Jobs : job[j].later /\ Holds(j, d)

\* Why the day is enough: what is not kept is within reach of the next query, and also of the
\* one after what a job under way may log, unless that job holds it itself.
NothingLost ==
    ~cut => \A d \in Docs : mod[d] > 0 =>
              /\ Kept(d) \/ logged - Day + Skew <= mod[d]
              /\ \A j \in Jobs : job[j].pc \in {"write", "log", "next"} =>
                   Kept(d) \/ Holds(j, d) \/ job[j].start + MaxSpan - Day + Skew <= mod[d]

\* A document whose older version is still under way has been modified recently enough for
\* every query that may come before the next tick.
LEMMA RecentInReach ==
    ASSUME ShortJobs, IInv, NEW d \in Docs, now <= mod[d] + MaxSpan
    PROVE  /\ logged - Day + Skew <= mod[d]
           /\ \A j \in Jobs : ~At(j, "idle") => job[j].start + MaxSpan - Day + Skew <= mod[d]
  <1>1. /\ Day \in Nat /\ MaxSpan \in Nat /\ Skew \in Int /\ now \in Nat /\ logged \in Nat
        /\ mod[d] \in Nat /\ \A j \in Jobs : job[j].start \in Nat
    BY Numbers DEF IInv
  <1>2. logged <= now /\ \A j \in Jobs : ~At(j, "idle") => job[j].start <= now
    BY DEF IInv, Clock
  <1> QED
    BY <1>1, <1>2 DEF ShortJobs

\* What a write does to the copies in Elasticsearch, by a job or after it.
LEMMA WriteKeeps ==
    ASSUME ShortJobs, IInv, NothingLost, ~cut, NEW docs \in SUBSET Version,
           \A v \in docs : v.ver # mod[v.doc] => now <= mod[v.doc] + MaxSpan,
           OneVersion(docs), es' = Written(docs), 
           UNCHANGED <<now, mod, logged>>, NEW d \in Docs
    PROVE  \/ es'[d] = mod[d]
           \/ es'[d] = es[d] /\ Current(d) \notin docs
           \/ now <= mod[d] + MaxSpan
  <1>1. CASE \E v \in docs : v.doc = d
    <2>1. PICK v \in docs : v.doc = d
      BY <1>1
    <2>2. es'[d] = v.ver
      BY <2>1, WrittenIs DEF IInv
    <2> QED
      BY <2>1, <2>2
  <1>2. CASE ~\E v \in docs : v.doc = d
    <2>1. es'[d] = es[d]
      BY <1>2, WrittenIs DEF IInv
    <2> QED
      BY <1>2, <2>1 DEF Current
  <1> QED
    BY <1>1, <1>2

\* Every step keeps it.
LEMMA NothingLostStep == 
    ASSUME ShortJobs, IInv, IInv', NothingLost, [Next]_vars
    PROVE  NothingLost'
  <1> SUFFICES ASSUME ~cut', NEW d \in Docs, mod'[d] > 0
               PROVE  /\ Kept(d)' \/ logged' - Day + Skew <= mod'[d]
                      /\ \A j \in Jobs : job'[j].pc \in {"write", "log", "next"} =>
                           Kept(d)' \/ Holds(j, d)' \/ job'[j].start + MaxSpan - Day + Skew <= mod'[d]
    BY DEF NothingLost
  <1>0. /\ Day \in Nat /\ Day > 0 /\ MaxSpan \in Nat /\ Skew \in Int 
        /\ now \in Nat /\ logged \in Nat /\ mod[d] \in Nat
        /\ \A j \in Jobs : job[j] \in JobState /\ job[j].start \in Nat
    BY Numbers DEF IInv
  <1>j. /\ job \in [Jobs -> JobState]
        /\ \A j \in Jobs : job[j].page \subseteq Version /\ job[j].todo \subseteq Version
    BY DEF IInv, TypeOK, JobState
  <1>r. now <= mod[d] + MaxSpan =>
          /\ logged - Day + Skew <= mod[d]
          /\ \A j \in Jobs : ~At(j, "idle") => job[j].start + MaxSpan - Day + Skew <= mod[d]
    BY RecentInReach
  <1>1. ASSUME NEW j \in Jobs, Start(j) 
        PROVE  /\ Kept(d)' \/ logged' - Day + Skew <= mod'[d]
               /\ \A k \in Jobs : job'[k].pc \in {"write", "log", "next"} =>
                    Kept(d)' \/ Holds(k, d)' \/ job'[k].start + MaxSpan - Day + Skew <= mod'[d]
    <2>1. /\ UNCHANGED <<now, mod, es, late, logged, failures, cut, edits>>
          /\ job[j].pc = "idle" /\ job'[j].pc = "first"
          /\ \A k \in Jobs \ {j} : job'[k] = job[k]
      BY <1>1, <1>j DEF Start, At, NoJob
    <2>2. ~job[j].later
      BY <2>1 DEF IInv, Phases, At
    <2>3. \A k \in Jobs \ {j} : Holds(k, d)' <=> Holds(k, d)
      BY <2>1 DEF Holds, Current, At
    <2>4. Kept(d) => Kept(d)'
      BY <2>1, <2>2, <2>3 DEF Kept
    <2> QED
      BY <2>1, <2>3, <2>4 DEF NothingLost
  <1>2. ASSUME NEW j \in Jobs, GetContentSummary(j) 
        PROVE  /\ Kept(d)' \/ logged' - Day + Skew <= mod'[d]
               /\ \A k \in Jobs : job'[k].pc \in {"write", "log", "next"} =>
                    Kept(d)' \/ Holds(k, d)' \/ job'[k].start + MaxSpan - Day + Skew <= mod'[d]
    <2>0. /\ UNCHANGED <<now, mod, es, late, logged, failures, cut, edits>>
          /\ job[j].pc = "first" /\ Fetched(j, {Current(e) : e \in Matches(job[j].since)})
      BY <1>2 DEF GetContentSummary, At
    <2>1. PICK listing \in SUBSET Version : 
            listing = {Current(e) : e \in Matches(job[j].since)} /\ Fetched(j, listing)
      <3>1. {Current(e) : e \in Matches(job[j].since)} \in SUBSET Version
        BY DEF Matches, Current, Version, IInv, TypeOK
      <3> QED
        BY <2>0, <3>1
    <2>2. \E got, todo \in SUBSET Version :
             /\ job' = [job EXCEPT ![j] = Read(job[j], got, todo)]
             /\ todo \subseteq listing
             /\ \A v \in got : v = Current(v.doc) /\ \E u \in listing : u.doc = v.doc
             /\ \A u \in listing : u = Current(u.doc) => u \in got \cup todo
      <3>1. TypeOK /\ Fetched(j, listing)
        BY <2>1 DEF IInv
      <3> QED
        BY <3>1, PageFetched
    <2>3. PICK got, todo \in SUBSET Version :
             /\ job' = [job EXCEPT ![j] = Read(job[j], got, todo)]
             /\ \A u \in listing : u = Current(u.doc) => u \in got \cup todo
      BY <2>2
    <2>4. /\ job'[j].pc = "write" /\ job'[j].page = got /\ job'[j].todo = todo
          /\ \A k \in Jobs \ {j} : job'[k] = job[k]
      BY <1>0, <1>j, <2>3, JobReads
    <2>5. ~job[j].later
      BY <2>0 DEF IInv, Phases, At
    <2>6. \A k \in Jobs \ {j} : Holds(k, d)' <=> Holds(k, d)
      BY <2>0, <2>4 DEF Holds, Current, At
    <2>7. Kept(d) => Kept(d)'
      BY <2>0, <2>4, <2>5, <2>6 DEF Kept
    <2>8. d \in Matches(job[j].since) => Holds(j, d)'
      <3> SUFFICES ASSUME d \in Matches(job[j].since) PROVE Holds(j, d)'
        OBVIOUS
      <3>1. Current(d) \in listing /\ Current(d).doc = d
        BY <2>1 DEF Current
      <3>2. Current(d) \in got \cup todo
        BY <2>3, <3>1
      <3> QED
        BY <2>0, <2>4, <3>2 DEF Holds, Current, At
    <2>9. d \notin Matches(job[j].since) => Kept(d)
      <3> SUFFICES ASSUME d \notin Matches(job[j].since), ~Kept(d) PROVE FALSE
        OBVIOUS
      <3>1. job[j].since <= logged - Day /\ job[j].since \in Int
        BY <2>0, <1>0 DEF IInv, Clock, At, JobState
      <3>2. ~(mod[d] >= job[j].since + Skew)
        BY <2>0 DEF Matches
      <3>3. logged - Day + Skew <= mod[d]
        BY <2>0 DEF NothingLost
      <3> QED
        BY <1>0, <3>1, <3>2, <3>3
    <2> QED
      BY <2>0, <2>4, <2>6, <2>7, <2>8, <2>9 DEF NothingLost
  <1>3. ASSUME NEW j \in Jobs, GetContentSummaryNext(j) 
        PROVE  /\ Kept(d)' \/ logged' - Day + Skew <= mod'[d]
               /\ \A k \in Jobs : job'[k].pc \in {"write", "log", "next"} =>
                    Kept(d)' \/ Holds(k, d)' \/ job'[k].start + MaxSpan - Day + Skew <= mod'[d]
    <2>0. /\ UNCHANGED <<now, mod, es, late, logged, failures, cut, edits>>
          /\ job[j].pc = "next" /\ Fetched(j, job[j].todo)
      BY <1>3 DEF GetContentSummaryNext, At
    <2>2. \E got, todo \in SUBSET Version :
             /\ job' = [job EXCEPT ![j] = Read(job[j], got, todo)]
             /\ todo \subseteq job[j].todo
             /\ \A v \in got : v = Current(v.doc) /\ \E u \in job[j].todo : u.doc = v.doc
             /\ \A u \in job[j].todo : u = Current(u.doc) => u \in got \cup todo
      <3>1. PICK listing \in SUBSET Version : listing = job[j].todo /\ Fetched(j, listing)
        BY <1>j, <2>0
      <3>t. TypeOK /\ Fetched(j, listing)
        BY <3>1 DEF IInv
      <3>2. \E got, todo \in SUBSET Version :
             /\ job' = [job EXCEPT ![j] = Read(job[j], got, todo)]
             /\ todo \subseteq listing
             /\ \A v \in got : v = Current(v.doc) /\ \E u \in listing : u.doc = v.doc
             /\ \A u \in listing : u = Current(u.doc) => u \in got \cup todo
        BY <3>t, PageFetched
      <3> QED
        BY <3>1, <3>2
    <2>3. PICK got, todo \in SUBSET Version :
             /\ job' = [job EXCEPT ![j] = Read(job[j], got, todo)]
             /\ \A u \in job[j].todo : u = Current(u.doc) => u \in got \cup todo
      BY <2>2
    <2>4. /\ job'[j].pc = "write" /\ job'[j].page = got /\ job'[j].todo = todo
          /\ job'[j].later = job[j].later /\ job'[j].start = job[j].start
          /\ \A k \in Jobs \ {j} : job'[k] = job[k]
      BY <1>0, <1>j, <2>3, JobReads
    <2>5. Holds(j, d) => Holds(j, d)'
      <3> SUFFICES ASSUME Current(d) \in job[j].todo PROVE Holds(j, d)'
        BY <2>0 DEF Holds, At
      <3>1. Current(d) \in got \cup todo
        BY <2>3 DEF Current
      <3> QED
        BY <2>0, <2>4, <3>1 DEF Holds, Current, At
    <2>6. \A k \in Jobs : Holds(k, d) => Holds(k, d)'
      BY <2>0, <2>4, <2>5 DEF Holds, Current, At
    <2>7. Kept(d) => Kept(d)'
      BY <2>0, <2>4, <2>6 DEF Kept
    <2> QED
      BY <2>0, <2>4, <2>6, <2>7 DEF NothingLost
  <1>4. ASSUME NEW j \in Jobs, IndexConfCloudContent(j) 
        PROVE  /\ Kept(d)' \/ logged' - Day + Skew <= mod'[d]
               /\ \A k \in Jobs : job'[k].pc \in {"write", "log", "next"} =>
                    Kept(d)' \/ Holds(k, d)' \/ job'[k].start + MaxSpan - Day + Skew <= mod'[d]
    <2>1. /\ UNCHANGED <<now, mod, late, logged, failures, cut, edits>>
          /\ job[j].pc = "write" /\ es' = Written(job[j].page)
          /\ job' = [job EXCEPT ![j] = Sent(job[j])]
      BY <1>4, <1>j DEF IndexConfCloudContent, At, Sent
    <2>2. /\ job'[j].pc = "log" /\ job'[j].page = job[j].page /\ job'[j].todo = job[j].todo
          /\ job'[j].later = job[j].later /\ job'[j].start = job[j].start
          /\ \A k \in Jobs \ {j} : job'[k] = job[k]
      BY <1>0, <1>j, <2>1, JobGoesOn
    <2>3. \A v \in job[j].page : v.ver # mod[v.doc] => now <= mod[v.doc] + MaxSpan
      <3> SUFFICES ASSUME NEW v \in job[j].page, v.ver # mod[v.doc] PROVE now <= mod[v.doc] + MaxSpan
        OBVIOUS
      <3>1. v.doc \in Docs /\ mod[v.doc] \in Nat
        BY <1>j, Numbers DEF Version, IInv
      <3>2. job[j].start <= mod[v.doc]
        BY DEF IInv, Copies
      <3>3. now <= job[j].start + MaxSpan
        BY <2>1 DEF IInv, Clock, At
      <3> QED
        BY <1>0, <3>1, <3>2, <3>3
    <2>4. \/ es'[d] = mod[d]
          \/ es'[d] = es[d] /\ Current(d) \notin job[j].page
          \/ now <= mod[d] + MaxSpan
      <3>1. OneVersion(job[j].page)
        BY DEF IInv, Copies
      <3>2. PICK docs \in SUBSET Version : docs = job[j].page
        BY <1>j
      <3> QED
        BY <2>1, <2>3, <3>1, <3>2, WriteKeeps
    <2>5. CASE es'[d] = mod[d]
      BY <2>1, <2>5 DEF Kept
    <2>6. CASE es'[d] = es[d] /\ Current(d) \notin job[j].page
      <3>1. \A k \in Jobs : Holds(k, d) => Holds(k, d)'
        BY <2>1, <2>2, <2>6 DEF Holds, Current, At
      <3>2. Kept(d) => Kept(d)'
        BY <2>1, <2>2, <2>6, <3>1 DEF Kept
      <3> QED
        BY <2>1, <2>2, <3>1, <3>2 DEF NothingLost
    <2>7. CASE now <= mod[d] + MaxSpan
      BY <1>r, <2>1, <2>2, <2>7 DEF At
    <2> QED
      BY <2>4, <2>5, <2>6, <2>7
  <1>5. ASSUME NEW j \in Jobs, LogAndGoOn(j) 
        PROVE  /\ Kept(d)' \/ logged' - Day + Skew <= mod'[d]
               /\ \A k \in Jobs : job'[k].pc \in {"write", "log", "next"} =>
                    Kept(d)' \/ Holds(k, d)' \/ job'[k].start + MaxSpan - Day + Skew <= mod'[d]
    <2>1. /\ UNCHANGED <<now, mod, es, late, failures, cut, edits>>
          /\ job[j].pc = "log" /\ logged' \in Nat /\ logged' <= now
          /\ \/ job[j].todo = {} /\ job' = [job EXCEPT ![j] = NoJob]
             \/ job' = [job EXCEPT ![j] = Turned(job[j])]
      <3>1. UNCHANGED <<now, mod, es, late, failures, cut, edits>> /\ job[j].pc = "log"
        BY <1>5, Zenon DEF LogAndGoOn, At
      <3>2. logged' \in Nat /\ logged' <= now
        BY <3>1 DEF IInv, Clock, TypeOK, Time
      <3>3. CASE job[j].todo = {}
        BY <1>5, <3>1, <3>2, <3>3, Zenon DEF LogAndGoOn
      <3>4. CASE job[j].todo # {}
        <4>1. job' = [job EXCEPT ![j] = [@ EXCEPT !.pc = "next", !.later = TRUE, !.page = {}]]
          BY <1>5, <3>4, Zenon DEF LogAndGoOn
        <4> QED
          BY <3>1, <3>2, <4>1 DEF Turned
      <3> QED
        BY <3>3, <3>4
    <2>2. /\ \A k \in Jobs \ {j} : job'[k] = job[k]
          /\ \/ job[j].todo = {} /\ job'[j].pc = "idle" 
             \/ /\ job'[j].pc = "next" /\ job'[j].later /\ job'[j].todo = job[j].todo
                /\ job'[j].start = job[j].start
      BY <1>0, <1>j, <2>1, JobGoesOn DEF NoJob
    <2>3. \A k \in Jobs : Holds(k, d) => Holds(k, d)' /\ (job[k].later => job'[k].later)
      BY <2>1, <2>2 DEF Holds, Current, At
    <2>4. Kept(d) => Kept(d)'
      BY <2>1, <2>3 DEF Kept
    <2>5. Holds(j, d) => Kept(d)'
      BY <2>1, <2>2, <2>3 DEF Kept, Holds, At
    <2>6. Kept(d) \/ Holds(j, d) \/ job[j].start + MaxSpan - Day + Skew <= mod[d]
      BY <2>1 DEF NothingLost
    <2>7. now <= job[j].start + MaxSpan
      BY <2>1 DEF IInv, Clock, At
    <2>8. Kept(d)' \/ logged' - Day + Skew <= mod[d]
      BY <1>0, <2>1, <2>4, <2>5, <2>6, <2>7
    <2> QED
      BY <2>1, <2>2, <2>3, <2>4, <2>6, <2>8 DEF NothingLost
  <1>6. ASSUME NEW j \in Jobs, Fail(j) 
        PROVE  /\ Kept(d)' \/ logged' - Day + Skew <= mod'[d]
               /\ \A k \in Jobs : job'[k].pc \in {"write", "log", "next"} =>
                    Kept(d)' \/ Holds(k, d)' \/ job'[k].start + MaxSpan - Day + Skew <= mod'[d]
    <2>1. /\ UNCHANGED <<now, mod, logged, edits>>
          /\ job[j].pc # "idle" /\ ~job[j].later /\ ~cut
          /\ job' = [job EXCEPT ![j] = NoJob]
          /\ \E part, sent \in SUBSET job[j].page : es' = Written(part)
      BY <1>6 DEF Fail, At
    <2>2. PICK part \in SUBSET job[j].page : es' = Written(part)
      BY <2>1
    <2>3. job'[j].pc = "idle" /\ \A k \in Jobs \ {j} : job'[k] = job[k]
      BY <1>j, <2>1 DEF NoJob
    <2>4. \A v \in part : v.ver # mod[v.doc] => now <= mod[v.doc] + MaxSpan
      <3> SUFFICES ASSUME NEW v \in part, v.ver # mod[v.doc] PROVE now <= mod[v.doc] + MaxSpan
        OBVIOUS
      <3>1. v.doc \in Docs /\ mod[v.doc] \in Nat
        BY <1>j, Numbers DEF Version, IInv
      <3>2. job[j].start <= mod[v.doc]
        BY DEF IInv, Copies
      <3>3. now <= job[j].start + MaxSpan
        BY <2>1 DEF IInv, Clock, At
      <3> QED
        BY <1>0, <3>1, <3>2, <3>3
    <2>5. \/ es'[d] = mod[d]
          \/ es'[d] = es[d]
          \/ now <= mod[d] + MaxSpan
      <3>1. OneVersion(part) /\ part \in SUBSET Version
        BY <1>j DEF IInv, Copies, OneVersion
      <3> QED
        BY <2>1, <2>2, <2>4, <3>1, WriteKeeps
    <2>6. CASE es'[d] = mod[d]
      BY <2>1, <2>6 DEF Kept
    <2>7. CASE es'[d] = es[d]
      <3>1. \A k \in Jobs \ {j} : Holds(k, d) => Holds(k, d)'
        BY <2>1, <2>3 DEF Holds, Current, At
      <3>2. Kept(d) => Kept(d)'
        BY <2>1, <2>3, <2>7, <3>1 DEF Kept
      <3> QED
        BY <2>1, <2>3, <3>1, <3>2 DEF NothingLost
    <2>8. CASE now <= mod[d] + MaxSpan
      BY <1>r, <2>1, <2>3, <2>8 DEF At
    <2> QED
      BY <2>5, <2>6, <2>7, <2>8
  <1>7. ASSUME NEW v \in late, Land(v) 
        PROVE  /\ Kept(d)' \/ logged' - Day + Skew <= mod'[d]
               /\ \A k \in Jobs : job'[k].pc \in {"write", "log", "next"} =>
                    Kept(d)' \/ Holds(k, d)' \/ job'[k].start + MaxSpan - Day + Skew <= mod'[d]
    <2>1. /\ es' = es \/ es' = Written({v}) 
          /\ UNCHANGED <<now, mod, logged, job, failures, cut, edits>>
      BY <1>7 DEF Land
    <2>2. v \in Version /\ {v} \in SUBSET Version /\ OneVersion({v})
      BY DEF IInv, TypeOK, OneVersion
    <2>3. \A w \in {v} : w.ver # mod[w.doc] => now <= mod[w.doc] + MaxSpan
      BY DEF IInv, Copies
    <2>4. es'[d] = es[d] \/ es'[d] = mod[d] \/ now <= mod[d] + MaxSpan
      <3>1. CASE es' = es
        BY <3>1
      <3>2. CASE es' = Written({v})
        BY <2>1, <2>2, <2>3, <3>2, WriteKeeps
      <3> QED
        BY <2>1, <3>1, <3>2
    <2>5. \A k \in Jobs : Holds(k, d)' <=> Holds(k, d)
      BY <2>1 DEF Holds, Current, At
    <2>6. CASE es'[d] = es[d]
      BY <2>1, <2>5, <2>6 DEF Kept, NothingLost
    <2>7. CASE es'[d] = mod[d]
      BY <2>1, <2>7 DEF Kept
    <2>8. CASE now <= mod[d] + MaxSpan
      BY <1>r, <2>1, <2>8 DEF At
    <2> QED
      BY <2>4, <2>6, <2>7, <2>8
  <1>8. ASSUME NEW e \in Docs, Edit(e) 
        PROVE  /\ Kept(d)' \/ logged' - Day + Skew <= mod'[d]
               /\ \A k \in Jobs : job'[k].pc \in {"write", "log", "next"} =>
                    Kept(d)' \/ Holds(k, d)' \/ job'[k].start + MaxSpan - Day + Skew <= mod'[d]
    <2>1. /\ mod' = [mod EXCEPT ![e] = now] 
          /\ UNCHANGED <<now, es, late, logged, job, failures, cut>>
      BY <1>8 DEF Edit
    <2>2. CASE d = e
      <3>1. mod'[d] = now /\ now <= now + MaxSpan
        BY <1>0, <2>1, <2>2 DEF IInv, TypeOK
      <3>2. logged <= now /\ \A k \in Jobs : ~At(k, "idle") => job[k].start <= now
        BY DEF IInv, Clock
      <3> QED
        BY <1>0, <2>1, <3>1, <3>2 DEF ShortJobs, At
    <2>3. CASE d # e
      <3>1. mod'[d] = mod[d]
        BY <2>1, <2>3 DEF IInv, TypeOK
      <3>2. \A k \in Jobs : Holds(k, d)' <=> Holds(k, d)
        BY <2>1, <3>1 DEF Holds, Current, At
      <3> QED
        BY <2>1, <3>1, <3>2 DEF Kept, NothingLost
    <2> QED
      BY <2>2, <2>3
  <1>9. CASE Tick \/ UNCHANGED vars
    <2>1. UNCHANGED <<mod, es, logged, job, cut>>
      BY <1>9 DEF Tick, vars
    <2>2. \A k \in Jobs : Holds(k, d)' <=> Holds(k, d)
      BY <2>1 DEF Holds, Current, At
    <2> QED
      BY <2>1, <2>2 DEF Kept, NothingLost
  <1> QED
    BY <1>1, <1>2, <1>3, <1>4, <1>5, <1>6, <1>7, <1>8, <1>9 DEF Next, Step

\* What is not indexed is asked for again or about to be written.
LEMMA LostIsMissed == TypeOK /\ NothingLost => NothingMissed
  <1> SUFFICES ASSUME TypeOK, NothingLost, ~cut, NEW d \in Docs, mod[d] > 0, es[d] # mod[d],
                      d \notin Matches(AfterModified(FALSE))
               PROVE  \E j \in Jobs : WillIndex(j, d)
    BY DEF NothingMissed, Stale
  <1>1. AfterModified(FALSE) = logged - Day
    BY DEF AfterModified
  <1>2. ~(logged - Day + Skew <= mod[d])
    BY <1>1, Numbers DEF Matches
  <1>3. PICK j \in Jobs : Holds(j, d)
    BY <1>2 DEF NothingLost, Kept
  <1> QED
    BY <1>3 DEF Holds, WillIndex

\* The comment in indexContent is right that one day back is enough, for any number of pages,
\* jobs and edits, whatever the order of the dates as texts, if a day covers two jobs and the
\* time zone and no job fails after its first page.
THEOREM MissedCorrect == 
  ASSUME ShortJobs
  PROVE  Spec => []NothingMissed
  <1>1. Init => NothingLost
    <2> SUFFICES ASSUME Init, NEW d \in Docs, mod[d] > 0 
                 PROVE  /\ logged - Day + Skew <= mod[d]
                        /\ \A j \in Jobs : job[j].pc = "idle"
      BY DEF NothingLost
    <2>1. /\ Day \in Nat /\ Day > 0 /\ MaxSpan \in Nat /\ Skew \in Int /\ mod[d] \in Nat
          /\ logged = 0 /\ \A j \in Jobs : job[j] = NoJob
      BY IndexAssumption DEF Init
    <2> QED
      BY <2>1 DEF ShortJobs, NoJob
  <1> QED
    BY <1>1, Inductive, NothingLostStep, LostIsMissed, PTL DEF Spec, IInv

-----------------------------------------------------------------------------
(* The promise of SearchIndex *)

\* What the jobs still ask for, as SearchIndex has it.
Asked == {d \in Docs : mod[d] > 0 /\ (d \in Matches(AfterModified(FALSE)) 
                                     \/ \E j \in Jobs : WillIndex(j, d))}

\* A step that only writes versions of documents, and asks for nothing more, is one of 
\* SearchIndex.
LEMMA WorkStep ==
    ASSUME TypeOK, TypeOK', NothingMissed', mod' = mod, Asked' \subseteq Asked, cut => cut',
           \A d \in Docs : es'[d] = es[d] \/ es'[d] \in 1..mod[d]
    PROVE  Index!Next
  <1>1. PICK S \in SUBSET Docs : S = {d \in Docs : es'[d] # es[d]}
    OBVIOUS
  <1>2. \A i \in Docs : es'[i] \in IF i \in S THEN 1..mod[i] ELSE {es[i]}
    BY <1>1
  <1>3. Index!Kept'
    <2>1. ASSUME ~cut', NEW d \in Docs, mod'[d] > 0 PROVE es'[d] = mod'[d] \/ d \in Asked'
      BY <2>1 DEF NothingMissed, Stale, Asked
    <2> QED
      BY <2>1 DEF Index!Kept, Index!Existing, Index!Current, Asked
  <1>4. Index!Work(S)
    BY <1>2, <1>3 DEF Index!Work, Asked
  <1> QED
    BY <1>4 DEF Index!Next

\* A step of a job leaves the others as they are: it is enough to look at its own documents.
LEMMA AskedByOne ==
    ASSUME TypeOK, TypeOK', NEW j \in Jobs, mod' = mod, logged <= logged',
           \A k \in Jobs \ {j} : job'[k] = job[k],
           \A d \in Docs : mod[d] > 0 /\ WillIndex(j, d)' => d \in Asked
    PROVE  Asked' \subseteq Asked
  <1> SUFFICES ASSUME NEW d \in Docs, d \in Asked' PROVE d \in Asked
    BY DEF Asked
  <1>1. /\ Day \in Nat /\ Skew \in Int /\ logged \in Nat /\ logged' \in Nat /\ mod[d] \in Nat
    BY IndexAssumption DEF TypeOK, Time
  <1>2. mod[d] > 0
    BY DEF Asked
  <1>3. CASE d \in Matches(AfterModified(FALSE))'
    BY <1>1, <1>2, <1>3 DEF Asked, Matches, AfterModified
  <1>4. CASE \E k \in Jobs : WillIndex(k, d)'
    BY <1>2, <1>4 DEF Asked, WillIndex, At, Current, Matches
  <1> QED
    BY <1>3, <1>4 DEF Asked

LEMMA StepRefines ==
    ASSUME ShortJobs, IInv, IInv', NothingMissed', [Next]_vars
    PROVE  [Index!Next]_(Index!vars)
  <1> SUFFICES Index!Next \/ UNCHANGED Index!vars
    OBVIOUS
  <1>0. /\ Day \in Nat /\ MaxSpan \in Nat /\ Skew \in Int /\ now \in Nat /\ logged \in Nat
        /\ \A d \in Docs : mod[d] \in Nat /\ es[d] \in Nat
        /\ \A j \in Jobs : job[j] \in JobState /\ job[j].start \in Nat
    BY Numbers DEF IInv
  <1>j. /\ job \in [Jobs -> JobState] /\ TypeOK /\ TypeOK'
        /\ \A j \in Jobs : job[j].page \subseteq Version /\ job[j].todo \subseteq Version
    BY DEF IInv, TypeOK, JobState
  <1>r. ASSUME NEW d \in Docs, mod[d] > 0, now <= mod[d] + MaxSpan PROVE d \in Asked
    <2>1. logged - Day + Skew <= mod[d]
      BY <1>r, RecentInReach
    <2> QED
      BY <1>0, <1>r, <2>1 DEF Asked, Matches, AfterModified
  <1>1. ASSUME NEW j \in Jobs, Start(j) PROVE Index!Next
    <2>1. /\ UNCHANGED <<mod, es, logged, cut>> /\ job[j].pc = "idle"
          /\ \A k \in Jobs \ {j} : job'[k] = job[k]
      BY <1>1, <1>j DEF Start, At
    <2>2. job[j].page = {} /\ job[j].todo = {}
      BY <2>1 DEF IInv, Phases, At
    <2>3. \A d \in Docs : \A k \in Jobs : WillIndex(k, d) => k # j /\ WillIndex(k, d)'
      BY <2>1, <2>2 DEF WillIndex, At, Current, Matches
    <2>4. Asked \subseteq Asked' /\ Asked' \subseteq {d \in Docs : mod[d] > 0}
      BY <2>1, <2>3 DEF Asked, Matches, AfterModified
    <2>5. Index!Ask
      BY <2>1, <2>4 DEF Index!Ask, Index!Existing, Asked
    <2> QED
      BY <2>5 DEF Index!Next
  <1>2. ASSUME NEW j \in Jobs, GetContentSummary(j) PROVE Index!Next
    <2>0. UNCHANGED <<mod, es, logged, cut>> /\ job[j].pc = "first"
      BY <1>2 DEF GetContentSummary, At
    <2>1. PICK listing \in SUBSET Version : 
            listing = {Current(e) : e \in Matches(job[j].since)} /\ Fetched(j, listing)
      <3>1. {Current(e) : e \in Matches(job[j].since)} \in SUBSET Version
        BY <1>j DEF Matches, Current, Version, TypeOK
      <3> QED
        BY <1>2, <3>1 DEF GetContentSummary
    <2>t. TypeOK /\ Fetched(j, listing)
      BY <1>j, <2>1
    <2>2. \E got, todo \in SUBSET Version :
             /\ job' = [job EXCEPT ![j] = Read(job[j], got, todo)]
             /\ todo \subseteq listing
             /\ \A v \in got : v = Current(v.doc) /\ \E u \in listing : u.doc = v.doc
             /\ \A u \in listing : u = Current(u.doc) => u \in got \cup todo
      BY <2>t, PageFetched
    <2>3. PICK got, todo \in SUBSET Version :
             /\ job' = [job EXCEPT ![j] = Read(job[j], got, todo)]
             /\ todo \subseteq listing
             /\ \A v \in got : v = Current(v.doc) /\ \E u \in listing : u.doc = v.doc
      BY <2>2
    <2>4. /\ job'[j].pc = "write" /\ job'[j].page = got /\ job'[j].todo = todo
          /\ \A k \in Jobs \ {j} : job'[k] = job[k]
      BY <1>0, <1>j, <2>3, JobReads
    <2>5. \A v \in listing : v.doc \in Matches(job[j].since)
      BY <2>1 DEF Current
    <2>6. \A d \in Docs : mod[d] > 0 /\ WillIndex(j, d)' => d \in Asked
      <3> SUFFICES ASSUME NEW d \in Docs, mod[d] > 0, WillIndex(j, d)' PROVE d \in Asked
        OBVIOUS
      <3>1. Current(d) \in got \cup todo
        BY <2>0, <2>4 DEF WillIndex, Current, At
      <3>2. d \in Matches(job[j].since)
        BY <2>3, <2>5, <3>1 DEF Current
      <3> QED
        BY <2>0, <3>2 DEF Asked, WillIndex, At
    <2>7. Asked' \subseteq Asked
      BY <1>0, <1>j, <2>0, <2>4, <2>6, AskedByOne
    <2> QED
      BY <1>j, <2>0, <2>7, WorkStep
  <1>3. ASSUME NEW j \in Jobs, GetContentSummaryNext(j) PROVE Index!Next
    <2>0. UNCHANGED <<mod, es, logged, cut>> /\ job[j].pc = "next"
      BY <1>3 DEF GetContentSummaryNext, At
    <2>1. PICK listing \in SUBSET Version : listing = job[j].todo /\ Fetched(j, listing)
      BY <1>j, <1>3 DEF GetContentSummaryNext
    <2>t. TypeOK /\ Fetched(j, listing)
      BY <1>j, <2>1
    <2>2. \E got, todo \in SUBSET Version :
             /\ job' = [job EXCEPT ![j] = Read(job[j], got, todo)]
             /\ todo \subseteq listing
             /\ \A v \in got : v = Current(v.doc) /\ \E u \in listing : u.doc = v.doc
             /\ \A u \in listing : u = Current(u.doc) => u \in got \cup todo
      BY <2>t, PageFetched
    <2>3. PICK got, todo \in SUBSET Version :
             /\ job' = [job EXCEPT ![j] = Read(job[j], got, todo)]
             /\ todo \subseteq listing
             /\ \A v \in got : v = Current(v.doc) /\ \E u \in listing : u.doc = v.doc
      BY <2>2
    <2>4. /\ job'[j].pc = "write" /\ job'[j].page = got /\ job'[j].todo = todo
          /\ \A k \in Jobs \ {j} : job'[k] = job[k]
      BY <1>0, <1>j, <2>3, JobReads
    <2>6. \A d \in Docs : mod[d] > 0 /\ WillIndex(j, d)' => d \in Asked
      <3> SUFFICES ASSUME NEW d \in Docs, mod[d] > 0, WillIndex(j, d)' PROVE d \in Asked
        OBVIOUS
      <3>1. Current(d) \in got \cup todo
        BY <2>0, <2>4 DEF WillIndex, Current, At
      <3>2. PICK u \in job[j].todo : u.doc = d
        BY <2>1, <2>3, <3>1 DEF Current
      <3>3. CASE u.ver = mod[d]
        <4>1. u = Current(d)
          BY <1>j, <3>2, <3>3 DEF Current, Version
        <4> QED
          BY <4>1 DEF Asked, WillIndex
      <3>4. CASE u.ver # mod[d]
        <4>1. job[j].start <= mod[d]
          BY <3>2, <3>4 DEF IInv, Copies
        <4>2. now <= job[j].start + MaxSpan
          BY <2>0 DEF IInv, Clock, At
        <4> QED
          BY <1>0, <1>r, <4>1, <4>2
      <3> QED
        BY <3>3, <3>4
    <2>7. Asked' \subseteq Asked
      BY <1>0, <1>j, <2>0, <2>4, <2>6, AskedByOne
    <2> QED
      BY <1>j, <2>0, <2>7, WorkStep
  <1>4. ASSUME NEW j \in Jobs, IndexConfCloudContent(j) \/ Fail(j) PROVE Index!Next
    <2>1. /\ UNCHANGED <<mod, logged>> /\ (cut => cut')
          /\ job'[j].pc \in {"idle", "log"} /\ job'[j].todo \subseteq job[j].todo
          /\ \A k \in Jobs \ {j} : job'[k] = job[k]
      <3>1. job' = [job EXCEPT ![j] = NoJob] \/ job' = [job EXCEPT ![j] = Sent(job[j])]
        BY <1>4, <1>j DEF Fail, IndexConfCloudContent, Sent
      <3>2. /\ \A k \in Jobs \ {j} : job'[k] = job[k]
            /\ job'[j] = NoJob \/ job'[j] = Sent(job[j])
        BY <1>j, <3>1
      <3>3. job'[j].pc \in {"idle", "log"} /\ job'[j].todo \subseteq job[j].todo
        BY <1>0, <3>2, JobGoesOn DEF NoJob
      <3>4. UNCHANGED <<mod, logged>> /\ (cut => cut')
        <4>1. CASE IndexConfCloudContent(j)
          BY <4>1 DEF IndexConfCloudContent
        <4>2. CASE Fail(j)
          BY <4>2 DEF Fail
        <4> QED
          BY <1>4, <4>1, <4>2
      <3> QED
        BY <3>2, <3>3, <3>4
    <2>2. PICK docs \in SUBSET Version : es' = Written(docs) /\ docs \subseteq job[j].page
      <3>1. CASE IndexConfCloudContent(j)
        BY <1>j, <3>1 DEF IndexConfCloudContent
      <3>2. CASE Fail(j)
        BY <1>j, <3>2 DEF Fail
      <3> QED
        BY <1>4, <3>1, <3>2
    <2>3. \A d \in Docs : es'[d] = es[d] \/ es'[d] \in 1..mod[d]
      <3> SUFFICES ASSUME NEW d \in Docs, NEW v \in docs, v.doc = d PROVE es'[d] \in 1..mod[d]
        BY <1>j, <2>2, WrittenIs DEF IInv, Copies, OneVersion
      <3>1. OneVersion(docs)
        BY <2>2 DEF IInv, Copies, OneVersion
      <3>2. es'[d] = v.ver
        BY <1>j, <2>2, <3>1, WrittenIs
      <3>3. 0 < v.ver /\ v.ver <= mod[d] /\ v.ver \in Nat
        BY <1>j, <2>2, Numbers DEF IInv, Copies
      <3> QED
        BY <1>0, <3>2, <3>3
    <2>4. \A d \in Docs : mod[d] > 0 /\ WillIndex(j, d)' => d \in Asked
      <3> SUFFICES ASSUME NEW d \in Docs, mod[d] > 0, WillIndex(j, d)' PROVE d \in Asked
        OBVIOUS
      <3>1. Current(d) \in job[j].todo
        BY <2>1 DEF WillIndex, At, Current
      <3> QED
        BY <3>1 DEF Asked, WillIndex
    <2>5. Asked' \subseteq Asked
      BY <1>0, <1>j, <2>1, <2>4, AskedByOne
    <2> QED
      BY <1>j, <2>1, <2>3, <2>5, WorkStep
  <1>5. ASSUME NEW j \in Jobs, LogAndGoOn(j) PROVE Index!Next
    <2>1. UNCHANGED <<mod, es, cut>> /\ logged <= logged'
      <3>1. UNCHANGED <<mod, es, cut>>
        BY <1>5 DEF LogAndGoOn
      <3>2. logged' = logged \/ logged' > logged
        BY <1>5, Zenon DEF LogAndGoOn
      <3>3. logged' \in Nat
        BY <1>0, <1>j DEF TypeOK, Time
      <3> QED
        BY <1>0, <3>1, <3>2, <3>3
    <2>2. /\ job'[j].pc \in {"idle", "next"} /\ job'[j].todo \subseteq job[j].todo
          /\ \A k \in Jobs \ {j} : job'[k] = job[k]
      <3>1. PICK r : job' = [job EXCEPT ![j] = r] /\ (r = NoJob \/ r = Turned(job[j]))
        <4>1. CASE job[j].todo = {}
          <5>1. job' = [job EXCEPT ![j] = NoJob]
            BY <1>5, <4>1, Zenon DEF LogAndGoOn
          <5> QED
            BY <5>1
        <4>2. CASE job[j].todo # {}
          <5>1. job' = [job EXCEPT ![j] = [@ EXCEPT !.pc = "next", !.later = TRUE, !.page = {}]]
            BY <1>5, <4>2, Zenon DEF LogAndGoOn
          <5> QED
            BY <5>1 DEF Turned
        <4> QED
          BY <4>1, <4>2
      <3>2. job'[j] = r /\ \A k \in Jobs \ {j} : job'[k] = job[k]
        BY <1>j, <3>1
      <3> QED
        BY <1>0, <3>1, <3>2, JobGoesOn DEF NoJob
    <2>4. \A d \in Docs : mod[d] > 0 /\ WillIndex(j, d)' => d \in Asked
      <3> SUFFICES ASSUME NEW d \in Docs, mod[d] > 0, WillIndex(j, d)' PROVE d \in Asked
        OBVIOUS
      <3>1. Current(d) \in job[j].todo
        BY <2>1, <2>2 DEF WillIndex, At, Current
      <3> QED
        BY <3>1 DEF Asked, WillIndex
    <2>5. Asked' \subseteq Asked
      BY <1>0, <1>j, <2>1, <2>2, <2>4, AskedByOne
    <2> QED
      BY <1>j, <2>1, <2>5, WorkStep
  <1>6. ASSUME NEW v \in late, Land(v) PROVE Index!Next
    <2>1. UNCHANGED <<mod, logged, job, cut>> /\ (es' = es \/ es' = Written({v}))
      BY <1>6 DEF Land
    <2>2. \A d \in Docs : es'[d] = es[d] \/ es'[d] \in 1..mod[d]
      <3>1. CASE es' = es
        BY <3>1
      <3>2. CASE es' = Written({v})
        <4>1. v \in Version /\ {v} \in SUBSET Version /\ OneVersion({v})
          BY <1>j DEF TypeOK, OneVersion
        <4>2. /\ Written({v})[v.doc] = v.ver
              /\ \A d \in Docs : Written({v})[d] = es[d] \/ \E w \in {v} : w.doc = d
          BY <1>j, <4>1, WrittenIs
        <4>3. 0 < v.ver /\ v.ver <= mod[v.doc] /\ v.ver \in Nat /\ mod[v.doc] \in Nat
          BY <1>0, <4>1 DEF IInv, Copies, Version, Time
        <4> QED
          BY <3>2, <4>2, <4>3
      <3> QED
        BY <2>1, <3>1, <3>2
    <2>3. Asked' \subseteq Asked
      BY <2>1 DEF Asked, Matches, AfterModified, WillIndex, At, Current
    <2> QED
      BY <1>j, <2>1, <2>2, <2>3, WorkStep
  <1>7. ASSUME NEW d \in Docs, Edit(d) PROVE Index!Next
    <2>1. /\ mod' = [mod EXCEPT ![d] = now] /\ mod[d] < now
          /\ UNCHANGED <<now, es, late, logged, job, failures, cut>>
      BY <1>7 DEF Edit
    <2>2. mod'[d] = now /\ mod'[d] > mod[d] /\ \A e \in Docs \ {d} : mod'[e] = mod[e]
      BY <1>0, <1>j, <2>1 DEF TypeOK
    <2>3. d \in Asked'
      <3>1. logged <= now /\ now > 0
        BY <1>0, <2>1 DEF IInv, Clock
      <3>2. now >= logged - Day + Skew
        BY <1>0, <3>1 DEF ShortJobs
      <3> QED
        BY <2>1, <2>2, <3>1, <3>2 DEF Asked, Matches, AfterModified
    <2>4. \A e \in Docs \ {d} : e \in Asked' <=> e \in Asked
      BY <2>1, <2>2 DEF Asked, Matches, AfterModified, WillIndex, At, Current
    <2>5. Asked' = Asked \cup {d}
      BY <2>3, <2>4 DEF Asked
    <2>6. Index!Change(d)
      BY <2>1, <2>2, <2>5 DEF Index!Change, Asked
    <2> QED
      BY <2>6 DEF Index!Next
  <1>8. CASE Tick \/ UNCHANGED vars
    <2>1. UNCHANGED <<mod, es, logged, job, cut>>
      BY <1>8 DEF Tick, vars
    <2> QED
      BY <2>1 DEF Index!vars, Matches, AfterModified, WillIndex, At, Current
  <1> QED
    BY <1>1, <1>2, <1>3, <1>4, <1>5, <1>6, <1>7, <1>8 DEF Next, Step

\* The crawls of confluence_cloud.ts implement SearchIndex: however the two queues overtake
\* each other, and write older versions over newer ones, what is written too late is asked
\* for again.
THEOREM PromiseCorrect == 
  ASSUME ShortJobs
  PROVE  Spec => KeepsIndexPromise
  <1>1. Init => Index!Init
    <2> SUFFICES ASSUME Init PROVE Index!Init
      OBVIOUS
    <2>1. /\ es = [d \in Docs |-> 0] /\ cut = FALSE /\ mod \in [Docs -> Nat]
          /\ Day \in Nat /\ Day > 0 /\ MaxSpan \in Nat /\ Skew \in Int /\ logged = 0
      BY IndexAssumption DEF Init
    <2>2. \A d \in Docs : mod[d] > 0 => d \in Matches(AfterModified(FALSE))
      BY <2>1 DEF Matches, AfterModified, ShortJobs
    <2>3. Asked = {d \in Docs : mod[d] > 0}
      BY <2>2 DEF Asked
    <2> QED
      BY <2>1, <2>3 DEF Index!Init, Index!Existing, Asked
  <1> QED
    BY <1>1, StepRefines, MissedCorrect, Inductive, PTL DEF Spec, KeepsIndexPromise, Index!Spec
=============================================================================
