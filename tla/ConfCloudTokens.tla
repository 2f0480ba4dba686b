--------------------------- MODULE ConfCloudTokens ---------------------------
(***************************************************************************)
(* How the Confluence jobs use and refresh the shared OAuth credentials    *)
(* (integrations/confluence_cloud.ts, makeRequest and                      *)
(* fetchUpdateNewAccessToken).  The index and full-index queues run their  *)
(* jobs concurrently, each reads the stored credentials anew before every  *)
(* request and every refresh, and a refresh posts the stored refresh token *)
(* before it writes the one it got.                                        *)
(*                                                                         *)
(* A token stands for one answer of the authorisation server: an access    *)
(* token with its refresh token.  The server is external: it rotates a     *)
(* refresh token when it is used, and may expire either half at any time:  *)
(* any request may be answered with a 401.                                 *)
(* A token that nobody holds any more may be issued again, so that calls   *)
(* are not bounded in number.                                              *)
(***************************************************************************)
EXTENDS Integers

CONSTANTS
    Jobs,         \* the index jobs that run concurrently, one per queue and worker
    Tokens,
    None,
    MaxRetries,   \* the default of makeRequest's maxRetries
    MaxFailures,  \* bound: calls that fail, and jobs that crash
    Reconnects    \* bound: how often an admin goes through the OAuth consent again

ASSUME TokensAssumption == 
    /\ Tokens # {}
    /\ None \notin Tokens 
    /\ MaxRetries \in Nat 
    /\ MaxFailures \in Nat
    /\ Reconnects \in Nat

VARIABLES
    stored,   \* encryptedSharedUserCredentials of the row, decrypted; None when null
    valid,    \* validSharedUserCredentials of the row
    live,     \* external: the refresh tokens the server still accepts
    job,      \* per job, the makeRequest call it is in
    admin,    \* external: the token of an OAuth consent not saved yet, or None
    consents, \* how often the admin has gone through it
    failures,
    overlap   \* ghost: two jobs have been in a call at the same time

vars == <<stored, valid, live, job, admin, consents, failures, overlap>>

ghosts == <<failures, overlap>>

NoCall == [pc |-> "idle", retries |-> 0, cred |-> None, new |-> None]

PCs == {"idle", "creds", "request", "refresh", "post", "write", "mark"}

TypeOK ==
    /\ stored \in Tokens \cup {None}
    /\ valid \in BOOLEAN
    /\ live \subseteq Tokens
    /\ job \in [Jobs -> [pc : PCs, retries : -1..MaxRetries,
                         cred : Tokens \cup {None}, new : Tokens \cup {None}]]
    /\ admin \in Tokens \cup {None}
    /\ consents \in 0..Reconnects
    /\ failures \in 0..MaxFailures
    /\ overlap \in BOOLEAN

Init ==
    /\ stored \in {None, CHOOSE t \in Tokens : TRUE}
    /\ valid = TRUE
    /\ live = {stored} \ {None}
    /\ job = [j \in Jobs |-> NoCall]
    /\ admin = None
    /\ consents = 0
    /\ failures = 0
    /\ overlap = FALSE

Held == {stored, admin} \cup {job[j].cred : j \in Jobs} \cup {job[j].new : j \in Jobs}
Unheld == Tokens \ Held

\* The tokens that nobody holds are all alike, and the server may forget them.
Fresh == CHOOSE t \in Unheld : TRUE

At(j, pc) == job[j].pc = pc
Return(j) == job' = [job EXCEPT ![j] = NoCall]

-----------------------------------------------------------------------------
(* makeRequest *)

MakeRequest(j) ==
    /\ At(j, "idle")
    /\ job' = [job EXCEPT ![j] = [NoCall EXCEPT !.pc = "creds", !.retries = MaxRetries]]
    /\ overlap' = (overlap \/ \E k \in Jobs \ {j} : ~At(k, "idle"))
    /\ UNCHANGED <<stored, valid, live, admin, consents, failures>>

\* maxRetries < 0: "max retries exceeded", null.
GiveUp(j) ==
    /\ At(j, "creds")
    /\ job[j].retries < 0
    /\ Return(j)
    /\ UNCHANGED <<stored, valid, live, admin, consents, ghosts>>

\* Mutant of GetAPICreds: the request is made without looking whether there are credentials.
GetAPICreds_Unchecked(j) ==
    /\ At(j, "creds")
    /\ job[j].retries >= 0
    /\ job' = [job EXCEPT ![j].pc = "request", ![j].cred = stored]
    /\ UNCHANGED <<stored, valid, live, admin, consents, ghosts>>

\* getAPICreds: without shared credentials the call returns null.
GetAPICreds(j) ==
    /\ At(j, "creds")
    /\ job[j].retries >= 0
    /\ IF stored = None THEN Return(j)
       ELSE job' = [job EXCEPT ![j].pc = "request", ![j].cred = stored]
    /\ UNCHANGED <<stored, valid, live, admin, consents, ghosts>>

\* The two GETs succeed, or the space is not among the accessible resources: data or null.
Answered(j) ==
    /\ At(j, "request")
    /\ Return(j)
    /\ UNCHANGED <<stored, valid, live, admin, consents, ghosts>>

\* The access token has expired.
Unauthorized(j) ==
    /\ At(j, "request")
    /\ job' = [job EXCEPT ![j].pc = "refresh", ![j].cred = None]
    /\ UNCHANGED <<stored, valid, live, admin, consents, ghosts>>

-----------------------------------------------------------------------------
(* fetchUpdateNewAccessToken *)

ReadRefreshToken(j) ==
    /\ At(j, "refresh")
    /\ job' = [job EXCEPT ![j].pc = "post", ![j].cred = stored]
    /\ UNCHANGED <<stored, valid, live, admin, consents, ghosts>>

\* The server takes the refresh token, and never again: it answers with the next one.
Granted(j) ==
    /\ At(j, "post")
    /\ job[j].cred \in live
    /\ Unheld # {}
    /\ LET n == Fresh
       IN  /\ live' = ((live \cap Held) \ {job[j].cred}) \cup {n}
           /\ job' = [job EXCEPT ![j].pc = "write", ![j].cred = None, ![j].new = n]
    /\ UNCHANGED <<stored, valid, admin, consents, ghosts>>

\* Mutant of Refused: any failed refresh lowers the flag.
Refused_AnyError(j) ==
    /\ At(j, "post")
    /\ job' = [job EXCEPT ![j].pc = "mark", ![j].cred = None]
    /\ UNCHANGED <<stored, valid, live, admin, consents, ghosts>>

Refused(j) ==
    /\ At(j, "post")
    /\ job[j].cred \notin live
    /\ job' = [job EXCEPT ![j].pc = "mark", ![j].cred = None]
    /\ UNCHANGED <<stored, valid, live, admin, consents, ghosts>>

\* Mutant of NextTry: it forgets to count.
NextTry_Uncounted(retries) == retries

\* The retry of makeRequest after a refresh.
NextTry(retries) == retries - 1

\* Mutant of WriteToken: it keeps the refresh token the row had.
WriteToken_KeepsOld(j) ==
    /\ At(j, "write")
    /\ stored' = stored
    /\ valid' = TRUE
    /\ job' = [job EXCEPT ![j] = [NoCall EXCEPT !.pc = "creds", !.retries = NextTry(job[j].retries)]]
    /\ UNCHANGED <<live, admin, consents, ghosts>>

\* Mutant of WriteToken: the new tokens are saved without raising the flag.
WriteToken_LeavesFlag(j) ==
    /\ At(j, "write")
    /\ stored' = job[j].new
    /\ job' = [job EXCEPT ![j] = [NoCall EXCEPT !.pc = "creds", !.retries = NextTry(job[j].retries)]]
    /\ UNCHANGED <<valid, live, admin, consents, ghosts>>

\* updateGlobalSharedUserCredential, then the recursive makeRequest.
WriteToken(j) ==
    /\ At(j, "write")
    /\ stored' = job[j].new
    /\ valid' = TRUE
    /\ job' = [job EXCEPT ![j] = [NoCall EXCEPT !.pc = "creds", !.retries = NextTry(job[j].retries)]]
    /\ UNCHANGED <<live, admin, consents, ghosts>>

\* Mutant of MarkInvalid: the failed refresh is only logged.
MarkInvalid_LogsOnly(j) ==
    /\ At(j, "mark")
    /\ Return(j)
    /\ UNCHANGED <<stored, valid, live, admin, consents, ghosts>>

\* The 403 branch lowers the flag and returns false, so makeRequest throws the 401.
MarkInvalid(j) ==
    /\ At(j, "mark")
    /\ valid' = FALSE
    /\ Return(j)
    /\ UNCHANGED <<stored, live, admin, consents, ghosts>>

-----------------------------------------------------------------------------
(* Faults: an error other than a 401 or a 403 is thrown out of the call, with the answer  *)
(* of the server unseen or unwritten; a crash of the process ends the call the same way.  *)

Throw(j) ==
    /\ ~At(j, "idle")
    /\ failures < MaxFailures
    /\ failures' = failures + 1
    /\ Return(j)
    /\ UNCHANGED <<stored, valid, live, admin, consents, overlap>>

LostAnswer(j) ==
    /\ At(j, "post")
    /\ job[j].cred \in live
    /\ failures < MaxFailures
    /\ failures' = failures + 1
    /\ live' = live \ {job[j].cred}
    /\ Return(j)
    /\ UNCHANGED <<stored, valid, admin, consents, overlap>>

-----------------------------------------------------------------------------
(* The authorisation server and the admin *)

ExpireRefresh(t) ==
    /\ t \in live \cap Held
    /\ live' = live \ {t}
    /\ UNCHANGED <<stored, valid, job, admin, consents, ghosts>>

\* The OAuth callback exchanges the code, and then saves what it got.
Consent ==
    /\ consents < Reconnects
    /\ consents' = consents + 1
    /\ admin = None
    /\ Unheld # {}
    /\ LET n == Fresh
       IN  /\ admin' = n
           /\ live' = (live \cap Held) \cup {n}
    /\ UNCHANGED <<stored, valid, job, ghosts>>

SaveConsent ==
    /\ admin # None
    /\ stored' = admin
    /\ valid' = TRUE
    /\ admin' = None
    /\ UNCHANGED <<live, job, consents, ghosts>>

Call(j) ==
    \/ MakeRequest(j) \/ GiveUp(j) \/ GetAPICreds(j) \/ Answered(j) \/ Unauthorized(j)
    \/ ReadRefreshToken(j) \/ Granted(j) \/ Refused(j) \/ WriteToken(j) \/ MarkInvalid(j)

Next ==
    \/ \E j \in Jobs : Call(j) \/ Throw(j) \/ LostAnswer(j)
    \/ \E t \in Tokens : ExpireRefresh(t)
    \/ Consent \/ SaveConsent

\* Jobs are scheduled again and again and each call runs on; an access token lasts an hour,
\* so now and then a request is refused.
Fairness ==
    /\ \A j \in Jobs : WF_vars(Call(j))
    /\ SF_vars(\E j \in Jobs : Unauthorized(j))

Spec == Init /\ [][Next]_vars /\ Fairness

-----------------------------------------------------------------------------
(* Properties *)

Writer(j) == At(j, "write")

\* As long as nothing has failed and nobody has reconnected, the rotating refresh token is
\* never lost between two jobs: the one the server accepts is in the row, or is what the
\* single job about to write the row has just got.
RotationKeepsToken ==
    failures = 0 /\ consents = 0 =>
        /\ \A t \in live : t = stored \/ \E j \in Jobs : Writer(j) /\ job[j].new = t
        /\ \A j \in Jobs : Writer(j) => live \subseteq {job[j].new}

\* As long as no two jobs have overlapped and nobody has reconnected, a lowered flag tells
\* the truth, whatever failed: the stored refresh token is dead.  (The log message of the
\* 403 branch says as much: expired, or the password was changed.)  A job that overlaps
\* another is refused a token that the other has just replaced, and marks the new one.
FlagHonest == ~overlap /\ consents = 0 /\ ~valid => stored \notin live

\* Every makeRequest returns, however often the token it is given has expired: the
\* retries are counted down across refreshes.
CallReturns == \A j \in Jobs : ~At(j, "idle") ~> At(j, "idle")

\* Credentials that can no longer be refreshed are found out: a job marks them invalid,
\* unless another token takes their place.
DeadIsFlagged == (stored # None /\ stored \notin live) ~> (~valid \/ stored \in live)

\* And a false alarm does not last: credentials marked invalid while the server still takes
\* them (another job or an admin replaced the refused ones meanwhile) are marked valid by
\* the next refresh, unless they die first.
FalseAlarmHeals == (~valid /\ stored \in live) ~> (valid \/ stored \notin live)

\* The row that the jobs share, as SharedCredential sees it.
SharedRow == INSTANCE SharedCredential WITH
    Providers <- {"CONFLUENCE_CLOUD"},
    Vals <- Tokens,
    shared <- [p \in {"CONFLUENCE_CLOUD"} |-> stored],
    valid <- [p \in {"CONFLUENCE_CLOUD"} |-> valid]

\* The jobs and the admin use the row as CredentialStore offers it: whatever overlaps and
\* fails, what they write is a token that was issued, and no job marks as invalid, and none
\* takes for its refresh, credentials that are not there.  (So getAPICreds never returns null
\* to fetchUpdateNewAccessToken.)
KeepsRowPromise == SharedRow!Spec
=============================================================================
