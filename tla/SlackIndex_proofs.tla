--------------------------- MODULE SlackIndex_proofs ---------------------------
(***************************************************************************)
(* What the batch jobs of a channel never leave behind, for any number of  *)
(* jobs and messages, any page size and any failures that do not cut off a *)
(* job between two pages.                                                  *)
(***************************************************************************)
EXTENDS SlackIndex, TLAPS, WellFoundedInduction

\* A set of ts has a newest one.
LEMMA NewestExists ==
    ASSUME NEW n \in Nat, NEW S \in SUBSET (0..n), S # {}
    PROVE  \E m \in S : \A x \in S : x <= m
  <1> DEFINE T == {y \in Nat : n - y \in S}
             R == OpToRel(<, Nat)
  <1>1. T \subseteq Nat /\ T # {}
    <2>1. PICK x \in S : TRUE
      OBVIOUS
    <2>2. n - x \in Nat /\ n - (n - x) = x
      BY <2>1
    <2> QED
      BY <2>1, <2>2
  <1>2. IsWellFoundedOn(R, Nat)
    BY NatLessThanWellFounded
  <1>3. PICK t \in T : \A y \in T : ~(<<y, t>> \in R)
    <2> HIDE DEF R, T
    <2> QED
      BY <1>1, <1>2, WFMin
  <1>4. R = {ss \in Nat \X Nat : ss[1] < ss[2]}
    BY Zenon DEF OpToRel
  <1>5. ASSUME NEW y \in T PROVE t <= y
    <2>1. y \in Nat /\ t \in Nat /\ <<y, t>> \notin R
      BY <1>3
    <2> HIDE DEF R, T
    <2>2. ~(y < t)
      BY <2>1, <1>4
    <2> QED
      BY <2>1, <2>2
  <1>6. ASSUME NEW x \in S PROVE x <= n - t
    <2>1. x \in 0..n /\ n - x \in Nat /\ n - (n - x) = x
      OBVIOUS
    <2>2. n - x \in T
      BY <2>1
    <2> QED
      BY <1>1, <1>5, <2>1, <2>2
  <1> QED
    BY <1>6

\* The newest log row after a page: the old one or a message of the page, whichever is newer.
LEMMA LoggedIsNewest ==
    ASSUME TypeOK, NEW page \in SUBSET TS
    PROVE  /\ Logged(page) \in page \cup {latestTS}
           /\ Logged(page) \in 0..MaxTS /\ latestTS <= Logged(page)
  <1> DEFINE S == page \cup {latestTS}
  <1>1. S \in SUBSET (0..MaxTS) /\ S # {} /\ latestTS \in S
    BY DEF TypeOK, TS
  <1>2. \E m \in S : \A x \in S : x <= m
    BY <1>1, NewestExists, SlackAssumption
  <1>3. Logged(page) \in S /\ \A x \in S : x <= Logged(page)
    <2>1. Logged(page) = CHOOSE m \in S : \A x \in S : x <= m
      BY DEF Logged
    <2> HIDE DEF S
    <2> QED
      BY <1>2, <2>1
  <1> QED
    BY <1>1, <1>3

-----------------------------------------------------------------------------
(* The invariant *)

\* The message is indexed, or is still to be indexed by a job past its first page: such a
\* job cannot fail without being cut.
Kept(ts) ==
    \/ ts \in es
    \/ \E j \in Jobs : job[j].later /\ (ts \in job[j].rest \/ (At(j, "index") /\ ts \in job[j].page))

Held(j, ts) == Kept(ts) \/ ts \in job[j].rest \/ (At(j, "index") /\ ts \in job[j].page)

\* Nothing is newer than what has been posted, and a job starts at a row that was logged.
Bounds ==
    /\ latestTS <= posted
    /\ byUser \subseteq 1..posted
    /\ \A j \in Jobs : /\ job[j].page \subseteq 1..posted /\ job[j].rest \subseteq 1..posted
                       /\ job[j].oldest <= latestTS

\* A job has pages from its first answer on, and is past its first page from then on.
Phases ==
    \A j \in Jobs :
        /\ At(j, "idle") \/ At(j, "first") => ~job[j].later /\ job[j].page = {} /\ job[j].rest = {}
        /\ At(j, "next") => job[j].later

\* What is not newer than the log is kept; what is not newer than the pages of a job is kept
\* or one of the job's own.
NothingLost ==
    ~cut =>
        /\ \A ts \in byUser : ts <= latestTS => Kept(ts)
        /\ \A j \in Jobs : \A p \in job[j].page \cup job[j].rest : \A ts \in byUser :
             ts <= p => Held(j, ts)

IInv == TypeOK /\ Bounds /\ Phases /\ NothingLost

\* A step that adds to the index, and changes no job past its first page, keeps what is kept.
LEMMA KeptStays ==
    ASSUME NEW ts, es \subseteq es',
           \A j \in Jobs : job[j].later => job'[j] = job[j]
    PROVE  Kept(ts) => Kept(ts)'
BY DEF Kept, At

\* The four records a step makes of a job's.
Begun(ts) == [NoJob EXCEPT !.pc = "first", !.oldest = ts]
Read(r, page, rest) == [r EXCEPT !.pc = "index", !.oldest = 0, !.page = page, !.rest = rest]
Written(r) == [r EXCEPT !.pc = "log"]
Turned(r) == [r EXCEPT !.pc = "next", !.later = TRUE, !.page = {}]

LEMMA JobStarts ==
    ASSUME NEW ts \in 0..MaxTS
    PROVE  /\ NoJob \in JobState /\ NoJob.pc = "idle" /\ ~NoJob.later
           /\ NoJob.page = {} /\ NoJob.rest = {} /\ NoJob.oldest = 0
           /\ Begun(ts) \in JobState /\ Begun(ts).pc = "first" /\ ~Begun(ts).later
           /\ Begun(ts).page = {} /\ Begun(ts).rest = {} /\ Begun(ts).oldest = ts
  <1>1. 0 \in 0..MaxTS
    BY SlackAssumption
  <1>2. NoJob \in JobState
    BY <1>1 DEF NoJob, JobState
  <1>3. Begun(ts) \in JobState
    BY <1>1 DEF NoJob, Begun, JobState
  <1> QED
    BY <1>2, <1>3 DEF NoJob, Begun

LEMMA JobReads ==
    ASSUME NEW r \in JobState, NEW page \in SUBSET TS, NEW rest \in SUBSET TS
    PROVE  /\ Read(r, page, rest) \in JobState
           /\ Read(r, page, rest).pc = "index" /\ Read(r, page, rest).later = r.later
           /\ Read(r, page, rest).page = page /\ Read(r, page, rest).rest = rest
           /\ Read(r, page, rest).oldest = 0
  <1> DEFINE q == [r EXCEPT !.pc = "index", !.oldest = 0]
  <1>1. q \in JobState
    <2>1. 0 \in 0..MaxTS
      BY SlackAssumption
    <2> QED
      BY <2>1 DEF JobState
  <1>2. Read(r, page, rest) = [q EXCEPT !.page = page, !.rest = rest]
    BY DEF Read
  <1>3. [q EXCEPT !.page = page, !.rest = rest] \in JobState
    <2> HIDE DEF q
    <2> QED
      BY <1>1 DEF JobState
  <1>4. /\ Read(r, page, rest).pc = "index" /\ Read(r, page, rest).later = r.later
        /\ Read(r, page, rest).page = page /\ Read(r, page, rest).rest = rest
        /\ Read(r, page, rest).oldest = 0
    BY DEF Read, JobState
  <1> QED
    BY <1>2, <1>3, <1>4

LEMMA JobGoesOn ==
    ASSUME NEW r \in JobState
    PROVE  /\ Written(r) \in JobState /\ Written(r).pc = "log" /\ Written(r).later = r.later
           /\ Written(r).page = r.page /\ Written(r).rest = r.rest /\ Written(r).oldest = r.oldest
           /\ Turned(r) \in JobState /\ Turned(r).pc = "next" /\ Turned(r).later
           /\ Turned(r).page = {} /\ Turned(r).rest = r.rest /\ Turned(r).oldest = r.oldest
BY DEF Written, Turned, JobState

\* Every step keeps the invariant.
LEMMA Inductive == Spec => []IInv
  <1> USE SlackAssumption
  <1>1. Init => IInv
    <2> SUFFICES ASSUME Init PROVE IInv
      OBVIOUS
    <2>1. TypeOK
      <3>1. NoJob \in JobState
        BY JobStarts
      <3>2. /\ posted \in 0..MaxTS /\ latestTS \in 0..MaxTS /\ failures \in 0..MaxFailures
        BY SlackAssumption DEF Init
      <3>4. /\ byUser \subseteq TS /\ noLink \subseteq TS /\ events \subseteq TS 
            /\ es \subseteq TS /\ late \subseteq TS /\ cut \in BOOLEAN
        BY DEF Init
      <3>3. job \in [Jobs -> JobState]
        BY <3>1 DEF Init
      <3> QED
        BY <3>2, <3>3, <3>4 DEF TypeOK
    <2>2. Bounds /\ Phases /\ NothingLost
      BY DEF Init, Bounds, Phases, NothingLost, NoJob, At
    <2> QED
      BY <2>1, <2>2 DEF IInv
  <1>2. IInv /\ [Next]_vars => IInv'
    <2> SUFFICES ASSUME IInv, [Next]_vars PROVE IInv'
      OBVIOUS
    <2> USE DEF IInv
    <2>1. ASSUME Post PROVE IInv'
      <3>1. /\ posted' = posted + 1 /\ posted' \in 0..MaxTS 
            /\ byUser' \subseteq byUser \cup {posted + 1} /\ byUser' \subseteq TS
            /\ noLink' \subseteq TS /\ events' \subseteq TS
            /\ UNCHANGED <<es, late, latestTS, job, failures, cut>>
        BY <2>1 DEF Post, TypeOK, TS
      <3>2. TypeOK'
        BY <3>1 DEF TypeOK
      <3>3. Bounds'
        BY <3>1 DEF Bounds, TypeOK, JobState, TS
      <3>4. Phases'
        BY <3>1 DEF Phases, At
      <3>5. NothingLost'
        <4> SUFFICES ASSUME ~cut PROVE NothingLost'
          BY <3>1 DEF NothingLost
        <4>1. \A ts : Kept(ts)' = Kept(ts) /\ \A j \in Jobs : Held(j, ts)' = Held(j, ts)
          BY <3>1 DEF Kept, Held, At
        <4>2. latestTS < posted + 1 
              /\ \A j \in Jobs : \A p \in job[j].page \cup job[j].rest : p < posted + 1
          BY DEF Bounds, TypeOK
        <4> QED
          BY <3>1, <4>1, <4>2 DEF NothingLost, TypeOK, JobState, TS
      <3> QED
        BY <3>2, <3>3, <3>4, <3>5
    <2>2. ASSUME NEW ts \in TS, Heard(ts) \/ Dropped(ts) \/ Land(ts) PROVE IInv'
      <3>1. /\ es \subseteq es' /\ es' \subseteq TS /\ events' \subseteq TS /\ late' \subseteq TS
            /\ UNCHANGED <<posted, byUser, noLink, latestTS, job, failures, cut>>
        BY <2>2 DEF Heard, Dropped, Land, TypeOK
      <3>2. TypeOK' /\ Bounds' /\ Phases'
        BY <3>1 DEF TypeOK, Bounds, Phases, At
      <3>3. NothingLost'
        <4>1. \A x : Kept(x) => Kept(x)' 
          BY <3>1, KeptStays
        <4>2. \A x : \A j \in Jobs : Held(j, x) => Held(j, x)'
          BY <3>1, <4>1 DEF Held, At
        <4> QED
          BY <3>1, <4>1, <4>2 DEF NothingLost
      <3> QED
        BY <3>2, <3>3
    <2>3. ASSUME NEW j \in Jobs, Start(j) PROVE IInv'
      <3>1. /\ job[j].pc = "idle" /\ job' = [job EXCEPT ![j] = Begun(latestTS)]
            /\ UNCHANGED <<posted, byUser, noLink, events, es, late, latestTS, failures, cut>>
        BY <2>3 DEF Start, At, Begun
      <3>2. /\ job'[j] = Begun(latestTS) /\ Begun(latestTS) \in JobState
            /\ job'[j].pc = "first" /\ ~job'[j].later /\ job'[j].oldest = latestTS 
            /\ job'[j].page = {} /\ job'[j].rest = {}
            /\ \A k \in Jobs \ {j} : job'[k] = job[k]
        BY <3>1, JobStarts DEF TypeOK
      <3>3. TypeOK'
        BY <3>1, <3>2 DEF TypeOK
      <3>4. Bounds' /\ Phases'
        <4>1. latestTS \in Nat
          BY DEF TypeOK
        <4>2. Bounds'
          BY <3>1, <3>2, <4>1 DEF Bounds
        <4>3. Phases'
          BY <3>2 DEF Phases, At
        <4> QED
          BY <4>2, <4>3
      <3>5. NothingLost'
        <4>1. \A k \in Jobs : job[k].later => job'[k] = job[k]
          BY <3>1, <3>2 DEF Phases, At, TypeOK
        <4>2. \A x : Kept(x) => Kept(x)'
          BY <3>1, <4>1, KeptStays
        <4>3. \A x : \A k \in Jobs \ {j} : Held(k, x) => Held(k, x)'
          BY <3>2, <4>2 DEF Held, At, TypeOK
        <4>4. job'[j].page = {} /\ job'[j].rest = {} /\ \A k \in Jobs \ {j} : job'[k] = job[k]
          BY <3>2 DEF TypeOK
        <4> QED
          BY <3>1, <4>2, <4>3, <4>4 DEF NothingLost
      <3> QED
        BY <3>3, <3>4, <3>5
    <2>4. ASSUME NEW j \in Jobs, NEW listing \in SUBSET (1..posted), At(j, "first") \/ At(j, "next"),
                 Fetched(j, listing),
                 At(j, "first") => listing = After(job[j].oldest),
                 At(j, "next") => listing = job[j].rest,
                 UNCHANGED <<posted, byUser, noLink, events, es, late, latestTS, failures, cut>>
          PROVE  IInv'
      <3> DEFINE page == Page(listing) \cap byUser
                 rest == listing \ Page(listing)
      <3>1. /\ job' = [job EXCEPT ![j] = Read(job[j], page, rest)]
            /\ Page(listing) \subseteq listing
        BY <2>4 DEF Fetched, Read, Page, TypeOK
      <3>2. /\ page \subseteq listing /\ rest \subseteq listing
            /\ \A x \in byUser : x \in listing => x \in page \/ x \in rest
        BY <3>1
      <3> HIDE DEF page, rest
      <3>0. listing \subseteq TS /\ page \in SUBSET TS /\ rest \in SUBSET TS
        BY <3>2 DEF TypeOK, TS
      <3>3. /\ job'[j] = Read(job[j], page, rest) /\ Read(job[j], page, rest) \in JobState
            /\ job'[j].pc = "index" /\ job'[j].later = job[j].later /\ job'[j].oldest = 0
            /\ job'[j].page = page /\ job'[j].rest = rest
            /\ \A k \in Jobs \ {j} : job'[k] = job[k]
        BY <3>0, <3>1, JobReads DEF TypeOK
      <3>4. TypeOK'
        BY <2>4, <3>1, <3>3 DEF TypeOK
      <3>5. Bounds'
        <4>1. 0 <= latestTS
          BY DEF TypeOK
        <4> QED
          BY <2>4, <3>2, <3>3, <4>1 DEF Bounds
      <3>6. Phases'
        BY <2>4, <3>3 DEF Phases, At
      <3>7. \A x \in byUser : Kept(x) => Kept(x)'
        <4> SUFFICES ASSUME NEW x \in byUser, Kept(x) PROVE Kept(x)'
          OBVIOUS
        <4>1. CASE x \in es
          BY <2>4, <4>1 DEF Kept
        <4>2. CASE \E k \in Jobs \ {j} : job[k].later /\ (x \in job[k].rest \/ (At(k, "index") /\ x \in job[k].page))
          BY <3>3, <4>2 DEF Kept, At
        <4>3. CASE job[j].later /\ (x \in job[j].rest \/ (At(j, "index") /\ x \in job[j].page))
          <5>1. At(j, "next") /\ x \in listing
            BY <2>4, <4>3 DEF Phases, At
          <5> QED
            BY <3>2, <3>3, <4>3, <5>1 DEF Kept, At
        <4> QED
          BY <4>1, <4>2, <4>3 DEF Kept
      <3>8. \A x \in byUser : \A k \in Jobs \ {j} : Held(k, x) => Held(k, x)'
        BY <3>3, <3>7 DEF Held, At
      <3>9. ASSUME ~cut, NEW p \in listing, NEW x \in byUser, x <= p PROVE Held(j, x)'
        <4>1. CASE x \in listing
          BY <3>2, <3>3, <4>1 DEF Held, At
        <4>2. CASE x \notin listing /\ At(j, "next")
          BY <2>4, <3>7, <3>9, <4>2 DEF Held, NothingLost, At
        <4>3. CASE x \notin listing /\ At(j, "first")
          <5>1. x \in 1..posted /\ job[j].oldest \in Nat /\ latestTS \in Nat /\ posted \in Nat
            BY DEF TypeOK, Bounds, JobState, TS
          <5>2. x <= job[j].oldest
            BY <2>4, <4>3, <5>1 DEF After
          <5>3. x <= latestTS
            BY <5>1, <5>2 DEF Bounds
          <5> QED
            BY <3>7, <3>9, <5>3 DEF Held, NothingLost
        <4> QED
          BY <2>4, <4>1, <4>2, <4>3
      <3>10. NothingLost'
        <4> SUFFICES ASSUME ~cut PROVE NothingLost'
          BY <2>4 DEF NothingLost
        <4>1. \A x \in byUser' : x <= latestTS' => Kept(x)'
          BY <2>4, <3>7 DEF NothingLost
        <4>2. ASSUME NEW k \in Jobs, NEW p \in job'[k].page \cup job'[k].rest, NEW x \in byUser', x <= p
              PROVE  Held(k, x)'
          <5>1. CASE k = j
            BY <2>4, <3>2, <3>3, <3>9, <4>2, <5>1
          <5>2. CASE k # j
            <6>1. p \in job[k].page \cup job[k].rest /\ x \in byUser
              BY <2>4, <3>3, <4>2, <5>2
            <6>2. Held(k, x)
              BY <4>2, <6>1 DEF NothingLost
            <6> QED
              BY <3>8, <5>2, <6>1, <6>2
          <5> QED
            BY <5>1, <5>2
        <4> QED
          BY <4>1, <4>2 DEF NothingLost
      <3> QED
        BY <3>4, <3>5, <3>6, <3>10
    <2>5. ASSUME NEW j \in Jobs, History(j) PROVE IInv'
      <3>1. Listing(j) \in SUBSET (1..posted)
        BY DEF Listing, After, Bounds
      <3>2. /\ At(j, "first") => Listing(j) = After(job[j].oldest)
            /\ At(j, "next") => Listing(j) = job[j].rest
        BY DEF At, Listing
      <3> QED
        BY <2>4, <2>5, <3>1, <3>2 DEF History
    <2>6. ASSUME NEW j \in Jobs, IndexSlackMessages(j) PROVE IInv'
      <3>1. /\ job[j].pc = "index" /\ es' = es \cup job[j].page
            /\ job' = [job EXCEPT ![j] = Written(job[j])]
            /\ UNCHANGED <<posted, byUser, noLink, events, late, latestTS, failures, cut>>
        BY <2>6 DEF IndexSlackMessages, At, Written, TypeOK
      <3>2. /\ job'[j] = Written(job[j]) /\ Written(job[j]) \in JobState
            /\ job'[j].pc = "log" /\ job'[j].later = job[j].later
            /\ job'[j].page = job[j].page /\ job'[j].rest = job[j].rest
            /\ job'[j].oldest = job[j].oldest
            /\ \A k \in Jobs \ {j} : job'[k] = job[k]
        BY <3>1, JobGoesOn DEF TypeOK
      <3>3. TypeOK'
        <4>1. job[j].page \subseteq TS
          BY DEF TypeOK, JobState
        <4> QED
          BY <3>1, <3>2, <4>1 DEF TypeOK
      <3>4. Bounds' /\ Phases'
        BY <3>1, <3>2 DEF Bounds, Phases, At
      <3>5. \A x : Kept(x) => Kept(x)'
        BY <3>1, <3>2 DEF Kept, At
      <3>6. \A x : \A k \in Jobs : Held(k, x) => Held(k, x)'
        BY <3>1, <3>2, <3>5 DEF Held, Kept, At
      <3>7. \A k \in Jobs : job'[k].page = job[k].page /\ job'[k].rest = job[k].rest
        BY <3>2
      <3>8. NothingLost'
        BY <3>1, <3>5, <3>6, <3>7 DEF NothingLost
      <3> QED
        BY <3>3, <3>4, <3>8
    <2>7. ASSUME NEW j \in Jobs, Log(j) PROVE IInv'
      <3>1. /\ job[j].pc = "log" /\ latestTS' = Logged(job[j].page)
            /\ UNCHANGED <<posted, byUser, noLink, events, es, late, failures, cut>>
        BY <2>7 DEF Log, At
      <3>2. /\ job[j].rest = {} => job' = [job EXCEPT ![j] = NoJob]
            /\ job[j].rest # {} => job' = [job EXCEPT ![j] = Turned(job[j])]
        BY <2>7 DEF Log, Turned
      <3>3. /\ job' \in [Jobs -> JobState] /\ job'[j].page = {} /\ job'[j].rest = job[j].rest
            /\ job'[j].oldest = 0 \/ job'[j].oldest = job[j].oldest
            /\ job[j].rest = {} => job'[j].pc = "idle" /\ ~job'[j].later
            /\ job[j].rest # {} => job'[j].pc = "next" /\ job'[j].later
            /\ \A k \in Jobs \ {j} : job'[k] = job[k]
        <4>1. CASE job[j].rest = {}
          BY <3>2, <4>1, JobStarts DEF TypeOK
        <4>2. CASE job[j].rest # {}
          BY <3>2, <4>2, JobGoesOn DEF TypeOK
        <4> QED
          BY <4>1, <4>2
      <3>4. job[j].page \in SUBSET TS
        BY DEF TypeOK, JobState
      <3>5. /\ latestTS' \in job[j].page \cup {latestTS}
            /\ latestTS' \in 0..MaxTS /\ latestTS <= latestTS'
        BY <3>1, <3>4, LoggedIsNewest
      <3>7. TypeOK'
        BY <3>1, <3>3, <3>5 DEF TypeOK
      <3>8. Bounds'
        <4>1. latestTS' <= posted
          BY <3>5 DEF Bounds, TypeOK
        <4>2. ASSUME NEW k \in Jobs
              PROVE  job'[k].page \subseteq 1..posted /\ job'[k].rest \subseteq 1..posted 
                     /\ job'[k].oldest <= latestTS'
          <5>1. job[k].oldest \in Nat /\ latestTS \in Nat /\ latestTS' \in Nat
            BY <3>5 DEF TypeOK, JobState
          <5>2. job'[k].page \subseteq job[k].page /\ job'[k].rest \subseteq job[k].rest
            BY <3>3
          <5>3. job'[k].oldest \in Nat /\ job'[k].oldest <= job[k].oldest
            BY <3>3, <5>1
          <5> QED
            BY <3>5, <5>1, <5>2, <5>3 DEF Bounds
        <4> QED
          BY <3>1, <4>1, <4>2 DEF Bounds
      <3>9. Phases'
        BY <3>3 DEF Phases, At
      <3>10. \A x : Kept(x) => Kept(x)'
        <4>1. ASSUME NEW x, job[j].later, x \in job[j].rest PROVE job'[j].later /\ x \in job'[j].rest
          BY <3>3, <4>1
        <4> QED
          BY <3>1, <3>3, <4>1 DEF Kept, At
      <3>11. \A x : Held(j, x) => Kept(x)'
        <4>1. ASSUME NEW x, x \in job[j].rest PROVE job'[j].later /\ x \in job'[j].rest
          BY <3>3, <4>1
        <4> QED
          BY <3>1, <3>10, <4>1 DEF Kept, Held, At
      <3>12. \A x : \A k \in Jobs : Held(k, x) => Held(k, x)'
        BY <3>3, <3>10, <3>11 DEF Held, At
      <3>13. NothingLost'
        <4> SUFFICES ASSUME ~cut PROVE NothingLost'
          BY <3>1 DEF NothingLost
        <4>1. \A x \in byUser : x <= latestTS' => Kept(x)'
          BY <3>5, <3>10, <3>11 DEF NothingLost
        <4>2. \A k \in Jobs : job'[k].page \subseteq job[k].page /\ job'[k].rest \subseteq job[k].rest
          BY <3>3
        <4> QED
          BY <3>1, <3>12, <4>1, <4>2 DEF NothingLost
      <3> QED
        BY <3>7, <3>8, <3>9, <3>13
    <2>8. ASSUME NEW j \in Jobs, Fail(j) \/ NoPermalink(j) PROVE IInv'
      <3>1. /\ es \subseteq es' /\ es' \subseteq TS /\ late' \subseteq TS 
            /\ cut' = (cut \/ job[j].later)
            /\ failures' \in 0..MaxFailures
            /\ job' = [job EXCEPT ![j] = NoJob]
            /\ UNCHANGED <<posted, byUser, noLink, events, latestTS>>
        <4>1. job[j].page \subseteq TS
          BY DEF TypeOK, JobState
        <4>2. CASE Fail(j)
          BY <4>1, <4>2 DEF Fail, TypeOK
        <4>3. CASE NoPermalink(j)
          BY <4>3 DEF NoPermalink, TypeOK
        <4> QED
          BY <2>8, <4>2, <4>3
      <3>2. /\ job'[j] = NoJob /\ NoJob \in JobState
            /\ job'[j].pc = "idle" /\ ~job'[j].later /\ job'[j].oldest = 0
            /\ job'[j].page = {} /\ job'[j].rest = {}
            /\ \A k \in Jobs \ {j} : job'[k] = job[k]
        BY <3>1, JobStarts DEF TypeOK
      <3>3. TypeOK'
        BY <3>1, <3>2 DEF TypeOK
      <3>4. Bounds' /\ Phases'
        BY <3>1, <3>2 DEF Bounds, Phases, At, TypeOK
      <3>5. NothingLost'
        <4> SUFFICES ASSUME ~cut, ~job[j].later PROVE NothingLost'
          BY <3>1 DEF NothingLost
        <4>1. \A k \in Jobs : job[k].later => job'[k] = job[k]
          BY <3>2
        <4>2. \A x : Kept(x) => Kept(x)'
          BY <3>1, <4>1, KeptStays
        <4>3. \A x : \A k \in Jobs \ {j} : Held(k, x) => Held(k, x)'
          BY <3>2, <4>2 DEF Held, At
        <4>4. job'[j].page = {} /\ job'[j].rest = {} /\ \A k \in Jobs \ {j} : job'[k] = job[k]
          BY <3>2
        <4> QED
          BY <3>1, <4>2, <4>3, <4>4 DEF NothingLost
      <3> QED
        BY <3>3, <3>4, <3>5
    <2>9. CASE UNCHANGED vars
      BY <2>9 DEF vars, TypeOK, Bounds, Phases, NothingLost, Kept, Held, At
    <2> QED
      BY <2>1, <2>2, <2>3, <2>5, <2>6, <2>7, <2>8, <2>9 DEF Next, Step
  <1> QED
    BY <1>1, <1>2, PTL DEF Spec

-----------------------------------------------------------------------------
(* Theorems *)

\* The variables of the channel keep their types.
THEOREM TypeCorrect == Spec => []TypeOK
BY Inductive, PTL DEF IInv

\* indexChannel and the listeners, whatever they interleave: a message with a user is
\* indexed, newer than the newest ts logged, or in the hands of a job, unless a job has
\* failed between two of its pages.
THEOREM SkippedCorrect == Spec => []NothingSkipped
  <1>1. IInv => NothingSkipped
    BY DEF IInv, NothingLost, NothingSkipped, Kept, WillIndex, TypeOK, Bounds, TS
  <1> QED
    BY <1>1, Inductive, PTL

-----------------------------------------------------------------------------
(* The refinement of SearchIndex *)

\* Only messages with a user are on their way to the index.
OfUsers == events \cup late \subseteq byUser /\ \A j \in Jobs : job[j].page \subseteq byUser

LEMMA OfUsersInvariant == Spec => [](IInv /\ OfUsers)
  <1>1. Init => OfUsers
    BY DEF Init, OfUsers, NoJob
  <1>2. IInv /\ OfUsers /\ [Next]_vars => OfUsers'
    <2> SUFFICES ASSUME IInv, OfUsers, [Next]_vars PROVE OfUsers'
      OBVIOUS
    <2>1. CASE Post
      BY <2>1 DEF Post, OfUsers
    <2>2. ASSUME NEW ts \in TS, Heard(ts) \/ Dropped(ts) \/ Land(ts) PROVE OfUsers'
      BY <2>2 DEF Heard, Dropped, Land, OfUsers
    <2>3. ASSUME NEW j \in Jobs, Start(j) PROVE OfUsers'
      <3>1. job' = [job EXCEPT ![j] = Begun(latestTS)] /\ Begun(latestTS).page = {}
        BY <2>3, JobStarts DEF Start, Begun, IInv, TypeOK
      <3> QED
        BY <2>3, <3>1 DEF Start, OfUsers, IInv, TypeOK
    <2>4. ASSUME NEW j \in Jobs, History(j) PROVE OfUsers'
      <3>1. \A k \in Jobs : job'[k].page = job[k].page \/ job'[k].page \subseteq byUser
        BY <2>4 DEF History, Fetched, IInv, TypeOK, JobState
      <3> QED
        BY <2>4, <3>1 DEF History, OfUsers
    <2>5. ASSUME NEW j \in Jobs, IndexSlackMessages(j) \/ Log(j) PROVE OfUsers'
      <3>1. \A k \in Jobs : job'[k].page \subseteq job[k].page
        <4>1. job[j] \in JobState
          BY DEF IInv, TypeOK
        <4>2. job' = [job EXCEPT ![j] = Written(job[j])] \/ job' = [job EXCEPT ![j] = NoJob]
              \/ job' = [job EXCEPT ![j] = Turned(job[j])]
          BY <2>5 DEF IndexSlackMessages, Log, Written, Turned, IInv, TypeOK
        <4>3. NoJob.page = {} /\ Written(job[j]).page = job[j].page /\ Turned(job[j]).page = {}
          BY <4>1, JobGoesOn DEF NoJob
        <4> QED
          BY <4>2, <4>3 DEF IInv, TypeOK
      <3> QED
        BY <2>5, <3>1 DEF IndexSlackMessages, Log, OfUsers
    <2>6. ASSUME NEW j \in Jobs, Fail(j) \/ NoPermalink(j) PROVE OfUsers'
      <3>1. job' = [job EXCEPT ![j] = NoJob] /\ byUser' = byUser /\ events' = events
        BY <2>6 DEF Fail, NoPermalink
      <3>2. late' \subseteq late \cup job[j].page
        BY <2>6 DEF Fail, NoPermalink
      <3> QED
        BY <3>1, <3>2 DEF OfUsers, IInv, TypeOK, NoJob
    <2>7. CASE UNCHANGED vars
      BY <2>7 DEF vars, OfUsers
    <2> QED
      BY <2>1, <2>2, <2>3, <2>4, <2>5, <2>6, <2>7 DEF Next, Step
  <1> QED
    BY <1>1, <1>2, Inductive, PTL DEF Spec

\* What the jobs still ask for, as SearchIndex has it.
Asked == {ts \in byUser : ts > latestTS \/ \E j \in Jobs : WillIndex(j, ts)}

\* A step that only adds messages with a user to the index, and asks for nothing more, is
\* one of SearchIndex.
LEMMA WorkStep ==
    ASSUME NothingSkipped', byUser' = byUser, byUser \subseteq TS, es \subseteq es', 
           es' \ es \subseteq byUser, Asked' \subseteq Asked, cut => cut'
    PROVE  Index!Next
  <1>0. PICK S \in SUBSET TS : S = (es' \cap TS) \ es
    OBVIOUS
  <1> DEFINE latest == [ts \in TS |-> IF ts \in byUser THEN 1 ELSE 0]
             found == [ts \in TS |-> IF ts \in es THEN 1 ELSE 0]
  <1>1. \A i \in TS : found'[i] \in IF i \in S THEN 1..latest[i] ELSE {found[i]}
    BY <1>0
  <1>2. Index!Kept'
    <2>1. \A i \in TS : latest'[i] > 0 => i \in byUser'
      OBVIOUS
    <2>2. \A i \in TS : i \in byUser' /\ i \in es' => found'[i] = latest'[i]
      OBVIOUS
    <2> QED
      BY <2>1, <2>2 DEF NothingSkipped, Index!Kept, Index!Existing, Index!Current
  <1>3. Index!Work(S)
    BY <1>1, <1>2 DEF Index!Work, Asked
  <1> QED
    BY <1>3 DEF Index!Next

\* A step of a job leaves the others as they are: it is enough to look at its own messages.
LEMMA AskedByOne ==
    ASSUME IInv, NEW j \in Jobs, byUser' = byUser, latestTS \in Nat, latestTS' \in Nat,
           latestTS <= latestTS', \A k \in Jobs \ {j} : job'[k] = job[k],
           \A ts \in byUser : WillIndex(j, ts)' => ts \in Asked
    PROVE  Asked' \subseteq Asked
  <1> SUFFICES ASSUME NEW ts \in Asked' PROVE ts \in Asked
    OBVIOUS
  <1>1. ts \in byUser /\ ts \in Nat
    BY DEF Asked, IInv, TypeOK, TS
  <1>2. CASE ts > latestTS'
    BY <1>1, <1>2 DEF Asked
  <1>3. CASE \E k \in Jobs : WillIndex(k, ts)'
    BY <1>1, <1>3 DEF Asked, WillIndex, At
  <1> QED
    BY <1>2, <1>3 DEF Asked

LEMMA StepRefines == IInv /\ OfUsers /\ NothingSkipped' /\ [Next]_vars => [Index!Next]_(Index!vars)
  <1> SUFFICES ASSUME IInv, OfUsers, NothingSkipped', [Next]_vars 
               PROVE  Index!Next \/ UNCHANGED Index!vars
    OBVIOUS
  <1>0. byUser \subseteq TS /\ latestTS \in Nat /\ posted \in Nat
    BY DEF IInv, TypeOK
  <1>1. CASE Post
    <2>1. CASE byUser' = byUser
      BY <1>1, <2>1 DEF Post, Index!vars, WillIndex, At
    <2>2. CASE byUser' = byUser \cup {posted + 1}
      <3>0. posted + 1 \in TS
        BY <1>0, <1>1, SlackAssumption DEF Post, TS
      <3>1. /\ posted + 1 \in TS /\ posted + 1 \notin byUser /\ posted + 1 > latestTS
            /\ latestTS' = latestTS /\ job' = job /\ es' = es /\ cut' = cut
        BY <1>0, <1>1, <3>0 DEF Post, IInv, Bounds
      <3>2. \A j \in Jobs : \A ts : WillIndex(j, ts)' = WillIndex(j, ts)
        BY <3>1 DEF WillIndex, At
      <3>3. PICK ts \in TS : ts = posted + 1
        BY <3>1
      <3>4. Asked' = Asked \cup {ts}
        BY <2>2, <3>1, <3>2, <3>3 DEF Asked
      <3>5. Index!Change(ts)
        BY <2>2, <3>1, <3>3, <3>4 DEF Index!Change, Asked
      <3> QED
        BY <3>5 DEF Index!Next
    <2> QED
      BY <1>1, <2>1, <2>2 DEF Post
  <1>2. ASSUME NEW ts \in TS, Heard(ts) \/ Dropped(ts) \/ Land(ts) PROVE Index!Next
    <2>1. /\ UNCHANGED <<byUser, latestTS, job, cut>> /\ es \subseteq es' /\ es' \ es \subseteq byUser
      BY <1>2 DEF Heard, Dropped, Land, OfUsers
    <2>2. Asked' \subseteq Asked
      BY <2>1 DEF Asked, WillIndex, At
    <2> QED
      BY <1>0, <2>1, <2>2, WorkStep
  <1>3. ASSUME NEW j \in Jobs, Start(j) PROVE Index!Next
    <2>1. /\ job' = [job EXCEPT ![j] = Begun(latestTS)]
          /\ UNCHANGED <<byUser, es, latestTS, cut>>
      BY <1>3 DEF Start, Begun
    <2>2. /\ job'[j].oldest = latestTS /\ job'[j].rest = {} /\ job'[j].page = {}
          /\ \A k \in Jobs \ {j} : job'[k] = job[k]
      BY <2>1, JobStarts DEF IInv, TypeOK
    <2>3. \A ts \in byUser : WillIndex(j, ts)' => ts \in Asked
      BY <2>2 DEF WillIndex, Asked
    <2>4. Asked' \subseteq Asked
      BY <1>0, <2>1, <2>2, <2>3, AskedByOne
    <2> QED
      BY <1>0, <2>1, <2>4, WorkStep
  <1>4. ASSUME NEW j \in Jobs, History(j) PROVE Index!Next
    <2> DEFINE listing == Listing(j)
    <2>1. /\ job' = [job EXCEPT ![j] = Read(job[j], Page(listing) \cap byUser, listing \ Page(listing))]
          /\ UNCHANGED <<byUser, es, latestTS, cut>>
      BY <1>4 DEF History, Fetched, Read, IInv, TypeOK
    <2>2. Page(listing) \subseteq listing /\ listing \subseteq TS
      <3>1. 1..posted \subseteq TS /\ job[j].rest \subseteq TS
        BY SlackAssumption DEF IInv, TypeOK, JobState, TS
      <3> QED
        BY <3>1 DEF Page, Listing, After
    <2> HIDE DEF listing
    <2>3. /\ job'[j].pc = "index" /\ job'[j].rest = listing \ Page(listing) 
          /\ job'[j].page = Page(listing) \cap byUser
          /\ \A k \in Jobs \ {j} : job'[k] = job[k]
      BY <2>1, <2>2, JobReads DEF IInv, TypeOK
    <2>4. ASSUME NEW ts \in byUser, ts \in listing PROVE WillIndex(j, ts)
      BY <1>4, <2>4 DEF History, listing, Listing, After, WillIndex, At, IInv, TypeOK, JobState
    <2>5. \A ts \in byUser : WillIndex(j, ts)' => ts \in Asked
      BY <2>2, <2>3, <2>4 DEF WillIndex, Asked, At
    <2>6. Asked' \subseteq Asked
      BY <1>0, <2>1, <2>3, <2>5, AskedByOne
    <2> QED
      BY <1>0, <2>1, <2>6, WorkStep
  <1>5. ASSUME NEW j \in Jobs, IndexSlackMessages(j) PROVE Index!Next
    <2>1. /\ job' = [job EXCEPT ![j] = Written(job[j])] /\ es' = es \cup job[j].page
          /\ UNCHANGED <<byUser, latestTS, cut>>
      BY <1>5 DEF IndexSlackMessages, Written, IInv, TypeOK
    <2>2. /\ job'[j].pc = "log" /\ job'[j].rest = job[j].rest
          /\ \A k \in Jobs \ {j} : job'[k] = job[k]
      BY <2>1, JobGoesOn DEF IInv, TypeOK
    <2>3. \A ts \in byUser : WillIndex(j, ts)' => ts \in Asked
      BY <2>2 DEF WillIndex, Asked, At
    <2>4. Asked' \subseteq Asked
      BY <1>0, <2>1, <2>2, <2>3, AskedByOne
    <2> QED
      BY <1>0, <2>1, <2>4, WorkStep DEF OfUsers
  <1>6. ASSUME NEW j \in Jobs, Log(j) PROVE Index!Next
    <2>1. /\ job' = [job EXCEPT ![j] = NoJob] \/ job' = [job EXCEPT ![j] = Turned(job[j])]
          /\ latestTS' = Logged(job[j].page) /\ UNCHANGED <<byUser, es, cut>>
      BY <1>6 DEF Log, Turned
    <2>2. /\ job'[j].pc \in {"idle", "next"} /\ job'[j].rest \subseteq job[j].rest
          /\ \A k \in Jobs \ {j} : job'[k] = job[k]
      BY <2>1, JobGoesOn, JobStarts, <1>0 DEF IInv, TypeOK
    <2>3. \A ts \in byUser : WillIndex(j, ts)' => ts \in Asked
      BY <2>2 DEF WillIndex, Asked, At
    <2>4. latestTS' \in Nat /\ latestTS <= latestTS'
      <3>1. job[j].page \in SUBSET TS
        BY DEF IInv, TypeOK, JobState
      <3> QED
        BY <2>1, <3>1, LoggedIsNewest DEF IInv
    <2>5. Asked' \subseteq Asked
      BY <1>0, <2>1, <2>2, <2>3, <2>4, AskedByOne
    <2> QED
      BY <1>0, <2>1, <2>5, WorkStep
  <1>7. ASSUME NEW j \in Jobs, Fail(j) \/ NoPermalink(j) PROVE Index!Next
    <2>1. /\ job' = [job EXCEPT ![j] = NoJob] /\ es \subseteq es' /\ es' \subseteq es \cup job[j].page
          /\ cut => cut' 
          /\ UNCHANGED <<byUser, latestTS>>
      BY <1>7 DEF Fail, NoPermalink
    <2>2. /\ job'[j].pc = "idle" /\ job'[j].rest = {}
          /\ \A k \in Jobs \ {j} : job'[k] = job[k]
      BY <2>1 DEF NoJob, IInv, TypeOK
    <2>3. \A ts \in byUser : ~WillIndex(j, ts)'
      BY <2>2 DEF WillIndex, At
    <2>4. Asked' \subseteq Asked
      <3>1. latestTS' \in Nat /\ latestTS <= latestTS'
        BY <1>0, <2>1
      <3> QED
        BY <1>0, <2>1, <2>2, <2>3, <3>1, AskedByOne
    <2>5. es' \ es \subseteq byUser /\ byUser' = byUser
      BY <2>1 DEF OfUsers
    <2> QED
      BY <1>0, <2>1, <2>4, <2>5, WorkStep
  <1>8. CASE UNCHANGED vars
    BY <1>8 DEF vars, Index!vars, WillIndex, At
  <1> QED
    BY <1>1, <1>2, <1>3, <1>4, <1>5, <1>6, <1>7, <1>8 DEF Next, Step

\* The batch jobs and the listener of slack.ts implement SearchIndex: however they interleave
\* and fail, what a search finds stays, and a message that is not found is asked for, unless
\* a job has been cut off.
THEOREM PromiseCorrect == Spec => KeepsIndexPromise
  <1>1. Init => Index!Init
    <2> SUFFICES ASSUME Init PROVE Index!Init
      OBVIOUS
    <2>1. byUser = {} /\ es = {} /\ ~cut
      BY DEF Init
    <2> QED
      BY <2>1 DEF Init, Index!Init, Index!Existing
  <1>2. IInv => NothingSkipped
    BY DEF IInv, NothingLost, NothingSkipped, Kept, WillIndex, TypeOK, Bounds, TS
  <1> QED
    BY <1>1, <1>2, StepRefines, OfUsersInvariant, PTL DEF Spec, KeepsIndexPromise, Index!Spec
=============================================================================
