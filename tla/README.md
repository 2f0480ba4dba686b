# DocsHound in TLA+

DocsHound is a workplace search: a Node back end indexes Slack messages and Confluence
documents in Elasticsearch and answers a GraphQL search; a Next.js front end shows the
search page, the integration settings and the OAuth callbacks. This directory holds TLA+
models of it, TLC configurations that check them on small instances, and TLAPS proofs of
the properties that do not depend on the size of the instance. Paths below are relative to
`src/`; `be/` stands for `backend/src/` and `fe/` for `frontend/`.

## 1. The system

| Component | State it keeps | Operations | What is hard |
|---|---|---|---|
| Credential store (`be/shared/libs/credential.ts`, `be/services/crypto.ts`, `be/resolvers/*_api_credential.ts`) | rows of `GlobalApiCredential` (one IV, client credentials, shared user credentials, validity flag) and `UserApiCredential`; one IV per process | upserts, update of the shared credentials, marking invalid, queries | the IV changes with every restart; the update reads and writes in two steps |
| Confluence requests (`be/integrations/confluence_cloud.ts`, `makeRequest`, `fetchUpdateNewAccessToken`) | none of its own: the shared credentials | request, refresh, retry | refresh tokens rotate while two queues use them; answers get lost |
| Confluence indexing (same file, `indexContent`) | `ConfCloudIndexLog` rows, the index | incremental and full jobs, page by page | the checkpoint, local time zones, edits during a crawl, jobs that overtake each other, writes that land after their job has failed |
| Slack indexing (`be/integrations/slack.ts`) | `SlackChannelIndexLog` rows, the index | batch job, listener | the checkpoint, lost events, failures between pages, late writes, messages without a permalink |
| Main Slack app (same file, `getOrCreateMainApp`) | the module variable `app` | create, recreate on an upsert or an error | overlapping callers that re-read the variable after every await |
| Accounts (`be/services/auth.ts`, `apollo.ts`, the `init_db` migration) | `auth.users`, `public.User` | sign-up trigger, row policies, request context, role check | overlapping transactions, roles that change under a request |
| Startup (`be/index.ts`, `initIndices`, `scheduleBatchJobs`) | Elasticsearch indices, repeatable jobs in Redis | create and map indices, replace schedules | several servers starting at once, crashes and errors half way |
| Search (`be/resolvers/search.ts`, `fe/pages/index.tsx`) | the page's input, query, filters, results, URL, error flags | search, filter, Back | overlapping searches, an index that changes between queries, effects |
| Dates (`fe/shared/libs/time.ts`) | none | texts of dates and durations | boundaries of days, units |
| OAuth callback (`fe/shared/libs/integrations/callback.ts`) | the Apollo cache of the Next process | one request handler with many exits | failures after every step, a stale cache |
| Integration cards (`fe/components/IntegrationCard`) | copies of copies of the row | load, type, save, connect | answers that arrive around edits, saves and page changes |
| Session (`fe/hooks/useAuth.ts`, `fe/contexts/app_user.ts`, `fe/pages/api/auth.ts`, `authServerSideProps`) | supabase's user, the auth cookie, the page, the app user | auth events, POSTs, queries of the row, loads, redirections | POSTs and queries that overlap, fail, or are answered in another order; pages that know a user three times over |

The components meet in shared state. The card writes the client credentials through the
credential store, which forces the Slack app anew; the OAuth callback reads them through a
cache and writes the shared credentials; the Confluence jobs refresh these through the same
two-step update; startup schedules the jobs that fill the indices which it also maps; the
search reads what the jobs and the listener have written; a browser is served and authorised
by its cookie, which follows its session by way of requests, and shows a user by a row that
the row policies may have changed. What makes each one correct is
its list of properties in section 3; what could go wrong, with the line where it bites, is
the list of hazards in `PROJECT.json`.

## 2. The modules

One module per component, its actions named after the functions they translate. `PROJECT.json`
maps each definition to its lines. Operators of the form `Name_Mutant`, just before `Name`,
are plausible bugs of that code; they are used by no specification, and show that a property
would notice them.

| Module | State and actions against the code |
|---|---|
| `Credentials` | pure functions: `Encrypt`/`Decrypt` keep the IV as a tag, so that a wrong IV gives `Garbage` on which `JSON.parse` throws; the three writes of a row as functions of the row |
| `CredentialStore` | the tables, the IV of each process, the updates between read (`ReadIV`) and write (`WriteShared`); the upsert is one database statement and so one action; `Stop` loses what a process was doing |
| `ConfCloudTokens` | a job is in one `makeRequest`: `pc` tells the await it has reached, `retries` is the argument of the recursion; a token stands for one answer of the token endpoint, `live` are the refresh tokens the server still takes |
| `SharedCredential` | abstract: per provider the shared credentials last saved and the flag, with `Save` and `MarkInvalid`. What the rows promise and the jobs rely on: `CredentialStore` implements it with all of its upserts, IVs and overtaken updates, `ConfCloudTokens` with one provider and its tokens for values, so that each may be read with the row of the other |
| `ConfCloudIndex` | `job` is `indexContent` of one worker: listing, fetching, writing and logging a page; `es` has the version of each document; `late` are the writes that `Promise.all` left under way when it rejected; `AfterModified` is the query's date and `LatestModified` the sort of dates as texts |
| `SlackIndex` | the same for one channel, with the listener's `Heard` and `Dropped`; message n has ts n; a page with a message in `noLink` ends its job (`NoPermalink`), as `getPermalink` throws inside `Promise.all` |
| `SearchIndex` | abstract: per item the version that exists and the version that is found, and the items that are `asked` for. `Change`, `Ask` and `Work` are what a provider, a starting job and a working job may do; `ConfCloudIndex` and `SlackIndex` implement it, with `asked` refined to "the next query's range covers it, or a job still holds it" |
| `SlackApp` | `call` is an invocation of `getOrCreateMainApp` by the await it has reached, with `prev`; `status` is what became of each Bolt app |
| `Accounts` | `signup` holds the open transactions, `Policy` the row policies (the `using` expression of an update is applied to old and new row), `request` the context of a GraphQL request between reading the role and using it |
| `Session` | extends `Accounts` with one browser tab: `posts` are the POSTs of `useAuth` under way, with their events, `queries` those of `useAppUser`; `Notified` is the listener of `onAuthStateChange`, `Served` is `authServerSideProps`. Requests of `Accounts` come with the cookie |
| `Startup` | `server[s].pc` is where `main()` is, `at` the index or queue its loop has reached; an index is absent, empty, or has an explicit or a dynamic mapping. Each call of `initIndices` may be refused (`GetFails`, `CreateFails`, `PutMappingFails`), a failed write with or without its effect |
| `SearchPage` | `page` is the component's state, `request` the last search as the resolver works on it, `matches` the providers with a match for each word, which `Indexed` adds to and, when a document is edited, takes from; `finals` the `finally` blocks still to run; effects that are due run before the next event of the user |
| `TimeText` | functions of two times; no state |
| `OAuthCallback` | `call` is one run of the handler by its step, with the user whose token its `state` is; `cache` is Apollo's in the Next server; `stored` has the tokens of the workspace (`connectType` is shared, Confluence) or of each user (private, Slack) |
| `IntegrationsPage` | extends `OAuthCallback` with the card of a private provider in one browser: `at` is where the browser is, on the page, elsewhere in the app or off to a callback; `seen` is the browser's Apollo cache, which only a load empties. `Connect` is a `Consent` with the token that was current when the card made its URL, `Return` the redirect that ends it |
| `IntegrationCard` | the card of a shared provider on the settings page: `card` is the component's state, `query`, `urlQuery` and `saves` what is under way, `queryError` whether the last query failed (`QueryFails`: the network, or a row that the server cannot decrypt, as in finding 1), `db` the row |

`MC_*` modules add a symmetry set for TLC, `MC_SearchPage` an assumption over dates,
`MC_Session` and `MC_IntegrationsPage` a restriction of interleavings (see the bounds); the
other modules are checked as they are. `*_proofs` modules hold the theorems. Components that are
proved about together (section 4) have no definition name in common, which is why the actions of
`Startup` and `IntegrationCard` are collected in `StartupNext` and `CardNext`, and why these have
their own names for the type invariant.

**External behaviour.** What is not in the repository is modelled from how the code uses it,
and marked so in the map: the Atlassian authorisation server (a refresh token is good once,
any request may meet a 401, tokens may die at any time; the server may issue a token again
once nobody holds it, which keeps the model finite), Confluence (listings newest first; a
document edited during a crawl moves and may be missed), Slack (history newest first, from a
snapshot; an event may not be delivered), Elasticsearch (dynamic mapping on the first
document), Postgres at read committed, Apollo (cache first, a later request of a hook
replaces an earlier one, equal data is not passed on again), the browser's Back button, and
supabase (`onAuthStateChange` may tell of any sign-in, sign-out or refresh of any tab at any
time, of the same session twice too; `setAuthCookie` sets the cookie on `SIGNED_IN`, deletes
it on `SIGNED_OUT` and leaves it otherwise).

## 3. What is checked

Each component has one passing run over all of its faults. Where a property does not survive a
fault, it says so in its own condition, by a ghost variable that records the fault (`overlap`,
`startsOverlap`, `failed`, `unseen`, `halfway`, `rejected`, `cut`, `lost`, `stale`, `raced`,
`crossed`), rather than the
fault being left out of the run; the other properties of the run are checked in the states
after it all the same.

| Run | Instance | What it shows |
|---|---|---|
| `credentials` | 2 processes, 3 IVs, 2 updates, 1 provider, 1 user, 2 values | `SavedCredentialsReadBack`: client and user credentials always decrypt to what was saved. `SharedReadsBackUnderOneIV`: so do shared ones, as long as one IV has been used. `SharedLostOnlyByRekey`: they become unreadable only by an upsert under another IV, or an update overtaken by one. `InvalidUntilShared`: a lowered flag is raised only by new shared credentials. `KeepsRowPromise`: the rows implement `SharedCredential` |
| `tokens` | 2 jobs, 1 retry, 1 failure, 1 reconnect, 4 tokens | `RotationKeepsToken`: without failures or reconnects the live token is in the row or in the hands of the only writer. `FlagHonest`: without overlap a lowered flag means a dead token. `CallReturns`, `DeadIsFlagged`, `FalseAlarmHeals`: every call ends, dead credentials get flagged, a false alarm is taken back. `KeepsRowPromise`: the jobs and the admin use the row as `SharedCredential` says |
| `confluence_index` | 2 documents, an incremental and a full job, pages of 1, days of 3 ticks, time zone 1 tick, jobs of up to 1 tick, writes of less than one, 4 ticks, 2 edits, 1 failure | `NothingMissed`: a stale document is within the next incremental query or on a running job's list, unless a job was cut after its first page. `EventuallyIndexed`: once editing stops, everything ends up indexed, also after failures. `KeepsIndexPromise`: all of it implements `SearchIndex` |
| `slack_index` | 2 jobs, 3 messages, pages of 2, 1 failure besides those of permalinks | `NothingSkipped`, `EveryMessageIndexed`, `KeepsIndexPromise`: the same for messages, whatever the listener drops; a message without a permalink holds up its page and what is older, and nothing a page or more newer |
| `slack_app` | 3 calls, 4 apps | `AppNeverStopped`: the variable never holds an app that was stopped. `AppRuns`: without failures it holds a running one. `OneAppRuns`: without overlap it is the only one |
| `session` | 2 users, 1 request, 2 POSTs, 1 query per user under way | of the accounts, `FirstIsSuperadmin`: a superadmin exists as soon as anybody is registered. `NoSelfPromotion`: every role is rightful, by a sign-up or by the hands of admins who ranked as high by right themselves, whatever users do for each other. `RunsWithRank`: resolvers run with a sufficient role. Of the browser, `CookieFollows`: once the POSTs are answered, the cookie is the session's user, and without one the page is the login. `AppUserFollows`: once the queries are answered, the row is the session's user's. `PageFollows`: who has signed out ends up at the login page |
| `startup` | 2 servers, 2 deployments, 2 queues | `EveryQueueScheduled`, `OptionsTakeEffect`, `OneSchedule`: what is left scheduled after starts that overlap, fail or follow each other. `MappedInTheEnd`: an index gets its mapping although servers trip over each other, die and are refused, if another start looks after what one left out, no document comes first and no index was left created and unmapped |
| `search_page` | 1 word with and without spaces, 2 providers, 3 searches, 1 edit that loses a match, 1 Back | `ShownIsTheQuery`: settled results belong to the query that is named. `CountedIsFound`: what is counted is found, unless it was edited out between count and search. `FailureIsToasted`, `UrlFollows`: failures are reported and the URL follows, over overlapping searches and Back |
| `oauth_callback` | `IntegrationsPage` with 2 callbacks, 2 users, 2 client credentials, a shared and a private provider | `ConnectedIsStored`: after a success the token stored for the workspace, or for just this user, is that of a confirmed consent, whatever failed. `EveryCallbackEnds`: every browser gets an answer. `CardShowsOwn`: the card of a private provider never offers to disconnect a user without a token, nor to connect one who has been told to be connected, unless another user has signed in since the load |
| `card` | 2 values, 2 saves under way | `CardTellsTruth`: a settled card of a superadmin agrees with the row, unless somebody else wrote it; after a failed query it may be blank, or its form behind |
| `credentials_shared` | as `credentials` | finding 1 below |
| `slack_index_skipped` | 1 job | finding 2 below |

**Bounds.** They are named constants. Two processes and three IVs allow a restart between any
two writes; two updates overtake each other. Four tokens are one more than two jobs and the
row can hold, so that no step waits for a token; the admin's is taken from the same four.
Two pages are enough for "after the first page": a third repeats the second. In
`ConfCloudIndex`, a listing may be as old as the job (`MaxSpan`), the log row it compares
with may come from a job that started that much later, and the time zone adds `Skew`: the
day of the query covers them if `2 * MaxSpan + Skew <= Day`. The instance is at that limit;
with a day of two ticks TLC finds `NothingMissed` violated, with three it holds. In hours
this says that jobs of up to five hours in a zone of up to fourteen are safe. Two servers and
two deployments give every pair of interleaved starts; two queues tell the first from the
last of the loop. One edit that loses a match (`MaxEdits`) falls between any count and any
search. Three calls of `getOrCreateMainApp` allow one to overlap two that overlap
each other.

`Session` multiplies two state spaces that meet in three places: a sign-in needs a registered
user, a query reads a role, a request is sent with the cookie. `MC_Session` has the accounts
step only while the browser has nothing under way and no query has crossed (no step of theirs
reads what became of the queries), and the browser only while no transaction
or request is open; other steps of the two commute, so nothing is lost but interleavings that
differ in the order of independent steps. Rolled-back sign-ups and roles that change under a request are
still seen, since both are the accounts' own. The proofs are about `Session`
without that restriction. `MC_IntegrationsPage` does the same for the browser and the handler:
the page sees which tokens are stored and whether there are client credentials, so the steps
that change neither happen while the page is not shown, and the browser moves when no handler
is half way to its save. Two callbacks are a pair that saves for one owner or for two, or that
a restart cuts off together. Two POSTs are a pair that crosses; a third crosses one of them. A
write to Elasticsearch that outlives its job lands before a tick is over: `MaxSpan` bounds how
old what is written can be, and a write that could arrive at any later time would undo any
later job's.

**Fairness.** Bull repeats the jobs, and a job or a handler that is not cut off by a modelled
failure runs on: weak fairness of its steps, never of failures, users or external servers.
In `ConfCloudIndex` only the jobs of the full queue are fair: an incremental job may stop
anywhere and a late write may never land, and everything is indexed all the same. A late write
to the index of Slack may never land either. A POST is answered or fails in the end. The
liveness of handlers assumes that the services they call answer, or that the connection fails:
the `fetch` calls of the callback (`callback.ts:112`, `125`) and the refresh of a token
(`confluence_cloud.ts:73`) have no timeout, unlike the requests to Confluence
(`confluence_cloud.ts:136`), and a token endpoint that keeps a connection open and says nothing
would hold up `EveryCallbackEnds` and `CallReturns`. Startup
assumes that the process manager starts what is down, the page that React runs an
effect that is due. `ConfCloudTokens` also has strong fairness of a 401 (an access token
lasts an hour, so requests are refused again and again): dead refresh tokens can only be
noticed then. Deadlock is not checked where the system may stop for good: apps and callbacks
are used up, and no process need be running in the credential store.

## 4. What is proved

Every invariant and every action property without fairness that a run checks is a theorem, for
every value of the constants, those that bound the runs included: any number of processes,
jobs, users, requests, items, retries, failures. (Two theorems of `ConfCloudIndex` have
`ShortJobs` for their condition.) The type invariants are proved too, so no run repeats them.
The proofs are from the named assumptions of the modules alone:

* `null` is none of the values it stands beside, `Garbage` is no value, and the names of places
  are no callbacks: `CredentialsAssumption`, `PendingAssumption`, `AccountsAssumption`,
  `SlackAppAssumption`, `StartupAssumption`, `OAuthCallbackAssumption`, `PageAssumption`,
  `SearchPageAssumption`, `OutcomeAssumption`, `IntegrationCardAssumption`, `CardAssumption`,
  `SessionAssumption`, `TokensAssumption`;
* the bounds are numbers, and there is room for one queue, save, search, query, or item of a
  page: the same and `SlackAssumption`, `IndexAssumption`; there is a token
  (`TokensAssumption`);
* the offset of the time zone is an integer (`OffsetAssumption`).

Each component has an inductive invariant, the conjunction of the type invariant, the
properties themselves where they are inductive, and the parts named below.

* `CredentialStore_proofs`, the rows: `TypeCorrect`, `ReadBackCorrect`,
  `SharedReadBackCorrect`, `LossCorrect`, `FlagCorrect`, `RowPromiseCorrect`. What was saved
  can be read back because the row's IV is the one its client credentials were encrypted under;
  for the shared ones `IInv` adds that an update has a row (`UpdatesHaveRows`), that every IV
  in use was drawn (`IVsDrawn`), that an update not overtaken holds the row's IV
  (`CurrentUpdatesMatch`), and that the row keeps the last value under whichever IV
  (`SharedIsSaved`). The first three make the step of `WriteShared` go through, the last makes
  readability a question of the IV alone. `RowPromiseCorrect`: a step changes one row at most
  (`OneRow`), and it saves or marks the shared credentials there or leaves them alone
  (`RowStep`).
* `CredentialStore_proofs`, the card of a row: `CardTypeCorrect`, `TruthCorrect`.
  `CardTellsTruth` is about settled cards only and so says nothing of a step before. What is
  known on the way there: an answer under way or in the cache is the row's, or a save has been
  served whose own answer will have the query sent again (`CopiesInv`); the card is what the
  cache says, except that a save makes the row exist at once (`AppliedInv`); and a form that
  nobody has touched since is the cached one, that of the only save under way, or the row's
  (`FormInv`). The last is why overlapping saves set the ghost `edited`: of two, the one served
  last need not be the one on the screen.
* `ConfCloudTokens_proofs`: `TypeCorrect`, `RotationCorrect`, `FlagCorrect`,
  `RowPromiseCorrect`. A token that the server has issued is known to the one who got it alone
  until it is in the row (`UnsavedInv`), so no other job can use it up, and as long as
  one has a token to write the server accepts no other and grants no other; the write puts it
  in the row. For the flag, calls that do not overlap are one at most, and what this one
  posts is what the row still has (`AloneInv`), so a refusal is about the stored token; nobody
  can bring a dead token back to life while it is held. `RowPromiseCorrect` rests on one more
  invariant, `HasCreds`: a call that has read the credentials has read some, and there are some
  ever after. That is why the second `getAPICreds`, of a refresh, has no case for null in the
  model.
* `Session_proofs`, the accounts: `TypeCorrect`, `RankCorrect`, `FirstCorrect`,
  `PromotionCorrect`. The inductive invariant says besides the properties that while nobody is
  registered every open sign-up is one of a superadmin's, which is what makes overlapping first
  sign-ups harmless; `RankCorrect` rests on the lemma that `authorizedRole` respects the rank.
  `PromotionCorrect` compares the table with the ghost `due`, which follows a change only if it
  is `Rightful`, that is if the *rightful* role of the user who makes it is as high as the one
  taken and the one given: the invariant is inductive because every change that a policy allows
  is rightful as long as roles and rightful roles are the same (`PolicyIsRightful`).
* `Session_proofs`, the browser: `AccountsKept`, the composition implements `Accounts`, and so
  has all of its properties; `SessionTypeCorrect`, `CookieCorrect`, `AppUserCorrect`. Without a
  race at most one POST under way sets the cookie, it tells of the session's user, and without
  any the cookie is right already (`CookieInv`); without a crossing all queries under way are
  the user's, and once there are none the row is (`AppUserInv`).
* `Startup_proofs`, the schedules: `StartupTypeCorrect`, `ScheduledCorrect`, `OptionsCorrect`,
  `OneScheduleCorrect`. Why no queue is left empty whatever the servers remove of each other's:
  whoever removes a job will add one of its own, so that from the first addition on a job is
  there or on its way (`ScheduledInv`; a removal is covered by the remover, an addition by
  itself). Servers that start one after the other have emptied the queues behind them and know
  what is in the one they are at (`SerialInv`), so that what they add is alone; unless they
  fail it is there as well (`OptionsInv`). `SerialInv` does not ask for `~failed`: a server
  that dies leaves a queue with its jobs, or those of before, or none.
* `Startup_proofs`, the app: `AppTypeCorrect`, `StoppedCorrect`, `RunningCorrect`,
  `OneCorrect`. A call that has assigned the variable stops an app that is no longer in it,
  because constructed apps are new and nothing puts an app back (`PrevInv`); until a call
  fails, an app that does not run has a call that will start it (`StartInv`); calls that do not
  overlap have the one other running app for their previous one (`AloneInv`).
* `SearchPage_proofs`, the page: `TypeCorrect`, `ShownCorrect`, `FoundCorrect`, `ToastCorrect`.
  The search under way is for the query that the page names (`QueryInv`), as a new search
  changes both; what was counted still matches when the items are looked for, or is in the ghost
  `lost` because an edit came in between, and all providers are counted before the first is
  searched (`FoundInv`). A
  failure that is not reported because the flag of the one before is still up has a `finally`
  to come that lowers it (`ToastInv`); that the numbers of `finally` blocks and searches agree
  is `FinalsInv`.
* `SearchPage_proofs`, the texts: `TodayCorrect` (the age and the weekday together tell today,
  for all times), `DurationCorrect` (durations are rounded to within half of the unit shown)
  and `HoursAreLost` (from one hour to half a day the text is "0day").
* `OAuthCallback_proofs`: `TypeCorrect`, `StoredCorrect`, `PageTypeCorrect`, `CardCorrect`.
  Only a confirmed token of a known user gets as far as the save (`Proper`), and the callback
  that stands in a row was for this row's owner, has ended and does not end again
  (`StoredProper`). The composition implements the callback (`CallbackStep`); stored tokens may
  be replaced but never go (`TokensStay`), so an answer that says "connected" stays true. The
  other half of `CardShowsOwn` holds because a user is told by a load, which empties the cache:
  what is cached or on its way has been asked for after that (`PageInv`).
* `SlackIndex_proofs`: `TypeCorrect`, `SkippedCorrect`, `PromiseCorrect`. The invariant relates
  the messages to the pages of a job as well as to the log: what is not newer than a logged ts
  is indexed or held by a job past its first page, and what is not newer than a message a job
  still has is kept like that or held by this job (`NothingLost`); the step that logs a page
  turns the second statement into the first. That the newest ts of a page exists is the lemma
  `NewestExists`, by well-foundedness of the natural numbers. `PromiseCorrect` is the
  refinement of `SearchIndex`: every step is a `Change`, a `Work` or a stutter, since what is
  written or under way is a user's message (`OfUsers`), nothing enters what is asked for but
  what is posted, and `NothingSkipped` is the abstract `Kept`.
* `ConfCloudIndex_proofs`: `TypeCorrect` and, under `ShortJobs` (`2 * MaxSpan + Skew <= Day`),
  `MissedCorrect` and `PromiseCorrect`. `IInv` says how old what is under way can be: a version
  that a job holds and that is no longer the current one was replaced after the job began, and
  one that outlived its job was replaced `MaxSpan` ago at most (`Copies`). So a document that
  is overwritten with an older version has been modified so recently that the next query, and
  the one after whatever a running job may log, reaches it (`RecentInReach`); the rest is as
  for Slack (`NothingLost`). The proof needs of the logged date only that it is one of its page
  (`LatestIsOfPage`), not that it is the latest: the text order of dates, which sorts by the
  name of the weekday, makes jobs ask for too much and never for too little.

Only model-checked: all liveness (`CallReturns`, `DeadIsFlagged`, `FalseAlarmHeals`,
`EventuallyIndexed`, `EveryMessageIndexed`, `PageFollows`, `MappedInTheEnd`, `UrlFollows`,
`EveryCallbackEnds`), as fairness and `ENABLED` are beyond the prover, and that texts of dates
are not ambiguous (`MC_SearchPage`), which is a statement about a table of times. `TextRank` is
the order of the texts within one week, hence the bound of a week on `MaxTime` in
`IndexAssumption`.

## 5. Findings and observations

1. `credentials_shared`. `upsertGlobalApiCredential` (`be/resolvers/global_api_credential.ts:46`)
   stores the IV of its process and keeps `encryptedSharedUserCredentials`, encrypted under
   the IV of the process that stored them. After a restart they no longer decrypt, and every
   reader of the row throws. The test of the cipher (`crypto.test.ts:15`) has one IV per
   value; the row has one for two.
2. `slack_index_skipped`. Slack lists the newest messages first, and `indexChannel` logs the
   latest ts after every page (`be/integrations/slack.ts:319`): a job that fails between two
   pages leaves the older messages behind for good, against `job_queues.ts:59`, "since last
   fetch". `NothingSkipped` holds with the condition `~cut`.

The models show some more, which their properties carry as conditions:

* `confluence_cloud.ts:538` has the same checkpoint before the older pages; the comment at
  line 473 has the day's step back guarantee that nothing is missed. Here the full index
  repairs it (`~cut` in `NothingMissed`, none in `EventuallyIndexed`).
* A refresh refused because another job has used the same token marks the token that job has
  stored (`confluence_cloud.ts:91`; `~overlap` in `FlagHonest`, healed by `FalseAlarmHeals`).
* The flag `validSharedUserCredentials` is lowered "to re-prompt admin" (`schema.prisma:44`),
  but the credential queries answer from the presence of the credentials
  (`global_api_credential.ts:113`) and nothing else reads it.
* Of two overlapping calls of `getOrCreateMainApp` one leaks its app (`slack.ts:43`;
  `~overlap` in `OneAppRuns`).
* Two deployments that start together may leave the jobs of both (`job_queues.ts:120`;
  `~startsOverlap` in `OneSchedule`). A process that dies between `create` and `putMapping` leaves
  an index that later starts do not map (`elasticsearch.ts:155`; `halfway` in
  `MappedInTheEnd`), and so does an error of `putMapping`, which `main()` logs before it goes on.
  An error of `get` other than 404 passes over an index until the next start.
* The callback takes the client credentials from a cache that lives as long as the Next
  process (`callback.ts:70`): corrected ones are not used before a restart.
* `useOAuthURL` makes its URL once (`shared/libs/integrations/index.ts:56`); a card mounted
  before its app was enabled has a Connect button that leads nowhere until it is mounted
  anew. A regular admin gets no button: the query behind it is for superadmins
  (`global_api_credential.ts:85`, against the comment at `global.tsx:207`).
* The browser's Apollo cache is emptied by a load only (`apollo.ts:73`): the card of a user who
  signs in after another in the same page shows what the other one had (`~borrowed` in
  `CardShowsOwn`). Its button, "Disconnect" too, always leads to the provider's consent
  (`user.tsx:50`).
* When the query behind it fails, the front end's `globalCredentialMap` makes `{}` of the
  missing data (`fe/shared/libs/credential.ts:4`): the URL is null, as without a client ID, and
  the same card's Connect leads nowhere until it is mounted anew.
* When the query of the settings card fails (`global.tsx:56`), as it does after finding 1
  until shared credentials are stored anew, the card is as blank as for an app that was never enabled
  (`queryError` in `CardTellsTruth`).
* An edit that takes a word out of a document between the count and the search of its provider
  leaves a count without its items on the page (`search.ts:53`; `lost` in `CountedIsFound`).
* A filter that excludes every match makes the page say that nothing matches
  (`pages/index.tsx:405`), and a filter clicked over a blank input is highlighted without
  being applied (`pages/index.tsx:345`).
* The auth cookie is set by POSTs that nobody waits for or repeats (`useAuth.ts:22`): two that
  cross may leave the cookie of the session before, or none, and a failed one leaves it until
  the next event (`~raced` in `CookieFollows`; the comment at `useAuth.ts:7` has them "update
  our cookies"). An answered `SIGNED_IN` leads to `/` whatever its status, and the server
  sends a browser without a cookie back to the login page.
* The answer of an earlier user's query is taken like any other (`app_user.ts:19`): after a
  change of users the page may show, and offer the links of, the user before; a query that
  fails is not repeated, and the settings page spins until the next load (`~crossed` in
  `AppUserFollows`).
* One message whose permalink Slack refuses for good ends the job of its channel at its page,
  in every run (`slack.ts:281`; the TODO there considers `allSettled`). Nothing of that page or
  of the pages after it is indexed; and once newer messages have pushed it to a later page,
  the newest page is logged before the job ends at it, and the rest is never asked for again
  (the exceptions in `EveryMessageIndexed`).
* `mmmddyyyy` takes the year in UTC and the rest in local time (`time.ts:41`).

## 6. What is left out

Layout, theme, generated GraphQL types, logging, CORS, the environment check and deployment
have no state to check. `slack.ts` `search` is called by nobody. Data is abstracted to what
the properties tell apart: the fields of documents, highlighting and ranking, names that
Slack resolves, and the text of messages are left out. Of time, daylight saving and fractions
of a second are. Documents deleted in Confluence stay in the index: no code removes them, so
there is nothing to model. The disable mode of the cards has no action in the code. The card
of a shared provider on the integrations page (`shared.tsx`) tells whether there is a URL, and
the settings card of a private one asks the same queries as that of a shared one. In
`IntegrationsPage` the user of the cookie is the one who has signed in; `Session` has what
happens in between.

Known simplifications: one Slack channel stands for all. The channels of a job wait for each
other at its end only, and a job of the model may begin and end at any time; when one channel
rejects (`slack.ts:246`), the job is over for Bull while its other channels go on, which is the
second job of the model. A page of the `confluence_index` run has one document, so the text
order of dates is not exercised there; the proof covers pages of any size. One browser tab is
modelled; other tabs share its session and its cookie, and are in the run as events that come
from elsewhere. The login page keeps a loading flag while it calls supabase, and nothing
depends on it.

## 7. Plan

Done, in this order: credential store, tokens, Confluence and Slack indexing, Slack app,
accounts, startup, search page, dates, OAuth callback, cards, session; writes that outlive
their job, messages without a permalink, `SearchIndex` and its two refinements; private
providers in the OAuth callback and their card; proofs of all safety properties that runs
check, of the refinements of `SearchIndex` and of `SharedCredential` (two each) and of the two
compositions.

Next: `OAuthCallback` as a third user of the rows, through `SharedCredential`; and
`CredentialStore` composed with `ConfCloudTokens`, so that a refresh goes through the two-step
update and meets rows that it cannot decrypt.
