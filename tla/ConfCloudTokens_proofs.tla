------------------------ MODULE ConfCloudTokens_proofs ------------------------
(***************************************************************************)
(* Where the rotating refresh token is, and when a lowered flag tells the  *)
(* truth, for any number of jobs, tokens, retries and faults.              *)
(***************************************************************************)
EXTENDS ConfCloudTokens, TLAPS

\* A call that has not returned to the start of makeRequest may retry once more, and only the
\* job that is about to write the row has a new token.
CallInv ==
    \A j \in Jobs :
        /\ job[j].pc \notin {"idle", "creds"} => job[j].retries >= 0
        /\ ~Writer(j) => job[j].new = None

\* A token that was got and is not saved yet is known to the one who got it alone: nobody
\* else can post it before it is in the row.
UnsavedInv ==
    /\ consents = 0 => admin = None
    /\ admin # None => \A j \in Jobs : job[j].new # admin /\ job[j].cred # admin
    /\ admin # None => stored # admin
    /\ \A j \in Jobs : Writer(j) =>
         /\ job[j].new \in Tokens
         /\ job[j].new # stored
         /\ \A k \in Jobs : job[k].cred # job[j].new
         /\ \A k \in Jobs : Writer(k) /\ job[k].new = job[j].new => k = j

\* Calls that do not overlap: there is one at most, and what it posts is what the row has.
AloneInv ==
    ~overlap =>
        /\ \A j, k \in Jobs : ~At(j, "idle") /\ ~At(k, "idle") => j = k
        /\ consents = 0 => \A j \in Jobs :
             /\ At(j, "post") => job[j].cred = stored
             /\ At(j, "mark") => stored \notin live

IInv == TypeOK /\ CallInv /\ UnsavedInv /\ RotationKeepsToken /\ AloneInv /\ FlagHonest

\* A call that is about to read the credentials, with so many retries left.
LEMMA CallType ==
    ASSUME NEW n \in -1..MaxRetries
    PROVE  [NoCall EXCEPT !.pc = "creds", !.retries = n]
             \in [pc : PCs, retries : -1..MaxRetries, cred : Tokens \cup {None}, new : Tokens \cup {None}]
  BY DEF NoCall, PCs

\* A token that the server issues is held by nobody.
LEMMA FreshIsNew ==
    ASSUME Unheld # {}
    PROVE  /\ Fresh \in Tokens /\ Fresh # stored /\ Fresh # admin
           /\ \A j \in Jobs : Fresh # job[j].cred /\ Fresh # job[j].new
  <1>1. Fresh \in Unheld
    BY DEF Fresh
  <1> QED
    BY <1>1 DEF Unheld, Held

\* Every step keeps the invariant.
LEMMA Inductive == Spec => []IInv
  <1>1. Init => IInv
    <2> SUFFICES ASSUME Init PROVE IInv
      OBVIOUS
    <2>1. /\ stored \in Tokens \cup {None} /\ None \notin Tokens
          /\ \A j \in Jobs : job[j] = [pc |-> "idle", retries |-> 0, cred |-> None, new |-> None]
      BY TokensAssumption DEF Init, NoCall
    <2>2. TypeOK
      <3>1. job \in [Jobs -> [pc : PCs, retries : -1..MaxRetries,
                             cred : Tokens \cup {None}, new : Tokens \cup {None}]]
        BY TokensAssumption DEF Init, PCs, NoCall
      <3>2. consents \in 0..Reconnects /\ failures \in 0..MaxFailures
        BY TokensAssumption DEF Init
      <3>3. valid \in BOOLEAN /\ overlap \in BOOLEAN
        BY DEF Init
      <3> QED
        BY <2>1, <3>1, <3>2, <3>3 DEF Init, TypeOK
    <2>3. CallInv /\ UnsavedInv /\ RotationKeepsToken
      BY <2>1 DEF Init, CallInv, UnsavedInv, RotationKeepsToken, Writer, At
    <2>4. AloneInv /\ FlagHonest
      BY <2>1 DEF Init, AloneInv, FlagHonest, At
    <2> QED
      BY <2>2, <2>3, <2>4 DEF IInv
  <1>2. IInv /\ [Next]_vars => IInv'
    <2> SUFFICES ASSUME IInv, [Next]_vars PROVE IInv'
      OBVIOUS
    <2> USE TokensAssumption DEF IInv, TypeOK, PCs, At, Writer, Return, NoCall, ghosts
    <2>1. ASSUME NEW j \in Jobs, MakeRequest(j) PROVE IInv'
      <3>1. TypeOK'
        <4>3. MaxRetries \in -1..MaxRetries
          BY <2>1 DEF MakeRequest
        <4>4. job' = [job EXCEPT ![j] = [NoCall EXCEPT !.pc = "creds", !.retries = MaxRetries]]
          BY <2>1 DEF MakeRequest
        <4>5. [NoCall EXCEPT !.pc = "creds", !.retries = MaxRetries]
                \in [pc : PCs, retries : -1..MaxRetries, cred : Tokens \cup {None}, new : Tokens \cup {None}]
          BY ONLY <4>3, CallType
        <4>1. job' \in [Jobs -> [pc : PCs, retries : -1..MaxRetries,
                                cred : Tokens \cup {None}, new : Tokens \cup {None}]]
          BY <4>4, <4>5
        <4>2. valid' \in BOOLEAN /\ overlap' \in BOOLEAN
          BY <2>1 DEF MakeRequest
        <4> QED
          BY <2>1, <4>1, <4>2 DEF MakeRequest
      <3>2. CallInv'
        BY <2>1 DEF MakeRequest, CallInv
      <3>3. UnsavedInv'
        BY <2>1 DEF MakeRequest, UnsavedInv, CallInv
      <3>4. RotationKeepsToken'
        BY <2>1 DEF MakeRequest, RotationKeepsToken, UnsavedInv, CallInv
      <3>5. AloneInv'
        BY <2>1 DEF MakeRequest, AloneInv, UnsavedInv
      <3>6. FlagHonest'
        BY <2>1 DEF MakeRequest, FlagHonest, AloneInv, UnsavedInv
      <3> QED
        BY <3>1, <3>2, <3>3, <3>4, <3>5, <3>6
    <2>2. ASSUME NEW j \in Jobs, GiveUp(j) PROVE IInv'
      <3>1. TypeOK'
        BY <2>2 DEF GiveUp
      <3>2. CallInv'
        BY <2>2 DEF GiveUp, CallInv
      <3>3. UnsavedInv'
        BY <2>2 DEF GiveUp, UnsavedInv, CallInv
      <3>4. RotationKeepsToken'
        BY <2>2 DEF GiveUp, RotationKeepsToken, UnsavedInv, CallInv
      <3>5. AloneInv'
        BY <2>2 DEF GiveUp, AloneInv, UnsavedInv
      <3>6. FlagHonest'
        BY <2>2 DEF GiveUp, FlagHonest, AloneInv, UnsavedInv
      <3> QED
        BY <3>1, <3>2, <3>3, <3>4, <3>5, <3>6
    <2>3. ASSUME NEW j \in Jobs, GetAPICreds(j) PROVE IInv'
      <3>1. TypeOK'
        BY <2>3 DEF GetAPICreds
      <3>2. CallInv'
        BY <2>3 DEF GetAPICreds, CallInv
      <3>3. UnsavedInv'
        BY <2>3 DEF GetAPICreds, UnsavedInv, CallInv
      <3>4. RotationKeepsToken'
        BY <2>3 DEF GetAPICreds, RotationKeepsToken, UnsavedInv, CallInv
      <3>5. AloneInv'
        BY <2>3 DEF GetAPICreds, AloneInv, UnsavedInv
      <3>6. FlagHonest'
        BY <2>3 DEF GetAPICreds, FlagHonest, AloneInv, UnsavedInv
      <3> QED
        BY <3>1, <3>2, <3>3, <3>4, <3>5, <3>6
    <2>4. ASSUME NEW j \in Jobs, Answered(j) PROVE IInv'
      <3>1. TypeOK'
        BY <2>4 DEF Answered
      <3>2. CallInv'
        BY <2>4 DEF Answered, CallInv
      <3>3. UnsavedInv'
        BY <2>4 DEF Answered, UnsavedInv, CallInv
      <3>4. RotationKeepsToken'
        BY <2>4 DEF Answered, RotationKeepsToken, UnsavedInv, CallInv
      <3>5. AloneInv'
        BY <2>4 DEF Answered, AloneInv, UnsavedInv
      <3>6. FlagHonest'
        BY <2>4 DEF Answered, FlagHonest, AloneInv, UnsavedInv
      <3> QED
        BY <3>1, <3>2, <3>3, <3>4, <3>5, <3>6
    <2>5. ASSUME NEW j \in Jobs, Unauthorized(j) PROVE IInv'
      <3>1. TypeOK'
        BY <2>5 DEF Unauthorized
      <3>2. CallInv'
        BY <2>5 DEF Unauthorized, CallInv
      <3>3. UnsavedInv'
        BY <2>5 DEF Unauthorized, UnsavedInv, CallInv
      <3>4. RotationKeepsToken'
        BY <2>5 DEF Unauthorized, RotationKeepsToken, UnsavedInv, CallInv
      <3>5. AloneInv'
        BY <2>5 DEF Unauthorized, AloneInv, UnsavedInv
      <3>6. FlagHonest'
        BY <2>5 DEF Unauthorized, FlagHonest, AloneInv, UnsavedInv
      <3> QED
        BY <3>1, <3>2, <3>3, <3>4, <3>5, <3>6
    <2>6. ASSUME NEW j \in Jobs, ReadRefreshToken(j) PROVE IInv'
      <3>1. TypeOK'
        BY <2>6 DEF ReadRefreshToken
      <3>2. CallInv'
        BY <2>6 DEF ReadRefreshToken, CallInv
      <3>3. UnsavedInv'
        BY <2>6 DEF ReadRefreshToken, UnsavedInv, CallInv
      <3>4. RotationKeepsToken'
        BY <2>6 DEF ReadRefreshToken, RotationKeepsToken, UnsavedInv, CallInv
      <3>5. AloneInv'
        BY <2>6 DEF ReadRefreshToken, AloneInv, UnsavedInv
      <3>6. FlagHonest'
        BY <2>6 DEF ReadRefreshToken, FlagHonest, AloneInv, UnsavedInv
      <3> QED
        BY <3>1, <3>2, <3>3, <3>4, <3>5, <3>6
    <2>7. ASSUME NEW j \in Jobs, Granted(j) PROVE IInv'
      <3>1. TypeOK'
        BY <2>7, FreshIsNew DEF Granted
      <3>2. CallInv'
        BY <2>7, FreshIsNew DEF Granted, CallInv
      <3>3. UnsavedInv'
        BY <2>7, FreshIsNew DEF Granted, UnsavedInv, CallInv
      <3>4. RotationKeepsToken'
        BY <2>7, FreshIsNew DEF Granted, RotationKeepsToken, UnsavedInv, CallInv
      <3>5. AloneInv'
        BY <2>7, FreshIsNew DEF Granted, AloneInv, UnsavedInv
      <3>6. FlagHonest'
        BY <2>7, FreshIsNew DEF Granted, FlagHonest, AloneInv, UnsavedInv
      <3> QED
        BY <3>1, <3>2, <3>3, <3>4, <3>5, <3>6
    <2>8. ASSUME NEW j \in Jobs, Refused(j) PROVE IInv'
      <3>1. TypeOK'
        BY <2>8 DEF Refused
      <3>2. CallInv'
        BY <2>8 DEF Refused, CallInv
      <3>3. UnsavedInv'
        BY <2>8 DEF Refused, UnsavedInv, CallInv
      <3>4. RotationKeepsToken'
        BY <2>8 DEF Refused, RotationKeepsToken, UnsavedInv, CallInv
      <3>5. AloneInv'
        BY <2>8 DEF Refused, AloneInv, UnsavedInv
      <3>6. FlagHonest'
        BY <2>8 DEF Refused, FlagHonest, AloneInv, UnsavedInv
      <3> QED
        BY <3>1, <3>2, <3>3, <3>4, <3>5, <3>6
    <2>9. ASSUME NEW j \in Jobs, WriteToken(j) PROVE IInv'
      <3>1. TypeOK'
        <4>3. NextTry(job[j].retries) \in -1..MaxRetries
          BY <2>9 DEF WriteToken, NextTry, CallInv
        <4>4. job' = [job EXCEPT ![j] = [NoCall EXCEPT !.pc = "creds", !.retries = NextTry(job[j].retries)]]
          BY <2>9 DEF WriteToken
        <4>5. [NoCall EXCEPT !.pc = "creds", !.retries = NextTry(job[j].retries)]
                \in [pc : PCs, retries : -1..MaxRetries, cred : Tokens \cup {None}, new : Tokens \cup {None}]
          BY ONLY <4>3, CallType
        <4>1. job' \in [Jobs -> [pc : PCs, retries : -1..MaxRetries,
                                cred : Tokens \cup {None}, new : Tokens \cup {None}]]
          BY <4>4, <4>5
        <4>2. valid' \in BOOLEAN /\ overlap' \in BOOLEAN
          BY <2>9 DEF WriteToken
        <4> QED
          BY <2>9, <4>1, <4>2 DEF WriteToken, NextTry, CallInv
      <3>2. CallInv'
        BY <2>9 DEF WriteToken, NextTry, CallInv
      <3>3. UnsavedInv'
        BY <2>9 DEF WriteToken, NextTry, UnsavedInv, CallInv
      <3>4. RotationKeepsToken'
        BY <2>9 DEF WriteToken, NextTry, RotationKeepsToken, UnsavedInv, CallInv
      <3>5. AloneInv'
        BY <2>9 DEF WriteToken, NextTry, AloneInv, UnsavedInv
      <3>6. FlagHonest'
        BY <2>9 DEF WriteToken, NextTry, FlagHonest, AloneInv, UnsavedInv
      <3> QED
        BY <3>1, <3>2, <3>3, <3>4, <3>5, <3>6
    <2>10. ASSUME NEW j \in Jobs, MarkInvalid(j) PROVE IInv'
      <3>1. TypeOK'
        <4>1. job' \in [Jobs -> [pc : PCs, retries : -1..MaxRetries,
                                cred : Tokens \cup {None}, new : Tokens \cup {None}]]
          BY <2>10 DEF MarkInvalid
        <4>2. valid' \in BOOLEAN /\ overlap' \in BOOLEAN
          BY <2>10 DEF MarkInvalid
        <4> QED
          BY <2>10, <4>1, <4>2 DEF MarkInvalid
      <3>2. CallInv'
        BY <2>10 DEF MarkInvalid, CallInv
      <3>3. UnsavedInv'
        BY <2>10 DEF MarkInvalid, UnsavedInv, CallInv
      <3>4. RotationKeepsToken'
        BY <2>10 DEF MarkInvalid, RotationKeepsToken, UnsavedInv, CallInv
      <3>5. AloneInv'
        BY <2>10 DEF MarkInvalid, AloneInv, UnsavedInv
      <3>6. FlagHonest'
        BY <2>10 DEF MarkInvalid, FlagHonest, AloneInv, UnsavedInv
      <3> QED
        BY <3>1, <3>2, <3>3, <3>4, <3>5, <3>6
    <2>11. ASSUME NEW j \in Jobs, Throw(j) PROVE IInv'
      <3>1. TypeOK'
        BY <2>11 DEF Throw
      <3>2. CallInv'
        BY <2>11 DEF Throw, CallInv
      <3>3. UnsavedInv'
        BY <2>11 DEF Throw, UnsavedInv, CallInv
      <3>4. RotationKeepsToken'
        BY <2>11 DEF Throw, RotationKeepsToken, UnsavedInv, CallInv
      <3>5. AloneInv'
        BY <2>11 DEF Throw, AloneInv, UnsavedInv
      <3>6. FlagHonest'
        BY <2>11 DEF Throw, FlagHonest, AloneInv, UnsavedInv
      <3> QED
        BY <3>1, <3>2, <3>3, <3>4, <3>5, <3>6
    <2>12. ASSUME NEW j \in Jobs, LostAnswer(j) PROVE IInv'
      <3>1. TypeOK'
        BY <2>12 DEF LostAnswer
      <3>2. CallInv'
        BY <2>12 DEF LostAnswer, CallInv
      <3>3. UnsavedInv'
        BY <2>12 DEF LostAnswer, UnsavedInv, CallInv
      <3>4. RotationKeepsToken'
        BY <2>12 DEF LostAnswer, RotationKeepsToken, UnsavedInv, CallInv
      <3>5. AloneInv'
        BY <2>12 DEF LostAnswer, AloneInv, UnsavedInv
      <3>6. FlagHonest'
        BY <2>12 DEF LostAnswer, FlagHonest, AloneInv, UnsavedInv
      <3> QED
        BY <3>1, <3>2, <3>3, <3>4, <3>5, <3>6
    <2>13. ASSUME NEW t \in Tokens, ExpireRefresh(t) PROVE IInv'
      <3>1. TypeOK'
        BY <2>13 DEF ExpireRefresh
      <3>2. CallInv'
        BY <2>13 DEF ExpireRefresh, CallInv
      <3>3. UnsavedInv'
        BY <2>13 DEF ExpireRefresh, UnsavedInv, CallInv
      <3>4. RotationKeepsToken'
        BY <2>13 DEF ExpireRefresh, RotationKeepsToken, UnsavedInv, CallInv
      <3>5. AloneInv'
        BY <2>13 DEF ExpireRefresh, AloneInv, UnsavedInv
      <3>6. FlagHonest'
        BY <2>13 DEF ExpireRefresh, FlagHonest, AloneInv, UnsavedInv
      <3> QED
        BY <3>1, <3>2, <3>3, <3>4, <3>5, <3>6
    <2>14. ASSUME Consent PROVE IInv'
      <3>1. TypeOK'
        BY <2>14, FreshIsNew DEF Consent
      <3>2. CallInv'
        BY <2>14, FreshIsNew DEF Consent, CallInv
      <3>3. UnsavedInv'
        BY <2>14, FreshIsNew DEF Consent, UnsavedInv, CallInv
      <3>4. RotationKeepsToken'
        BY <2>14, FreshIsNew DEF Consent, RotationKeepsToken, UnsavedInv, CallInv
      <3>5. AloneInv'
        BY <2>14, FreshIsNew DEF Consent, AloneInv, UnsavedInv
      <3>6. FlagHonest'
        BY <2>14, FreshIsNew DEF Consent, FlagHonest, AloneInv, UnsavedInv
      <3> QED
        BY <3>1, <3>2, <3>3, <3>4, <3>5, <3>6
    <2>15. ASSUME SaveConsent PROVE IInv'
      <3>1. TypeOK'
        BY <2>15 DEF SaveConsent
      <3>2. CallInv'
        BY <2>15 DEF SaveConsent, CallInv
      <3>3. UnsavedInv'
        BY <2>15 DEF SaveConsent, UnsavedInv, CallInv
      <3>4. RotationKeepsToken'
        BY <2>15 DEF SaveConsent, RotationKeepsToken, UnsavedInv, CallInv
      <3>5. AloneInv'
        BY <2>15 DEF SaveConsent, AloneInv, UnsavedInv
      <3>6. FlagHonest'
        BY <2>15 DEF SaveConsent, FlagHonest, AloneInv, UnsavedInv
      <3> QED
        BY <3>1, <3>2, <3>3, <3>4, <3>5, <3>6
    <2>16. CASE UNCHANGED vars
      BY <2>16 DEF vars, CallInv, UnsavedInv, RotationKeepsToken, AloneInv, FlagHonest
    <2> QED
      BY <2>1, <2>2, <2>3, <2>4, <2>5, <2>6, <2>7, <2>8, <2>9, <2>10, <2>11, <2>12, <2>13, <2>14, <2>15, <2>16 DEF Next, Call
  <1> QED
    BY <1>1, <1>2, PTL DEF Spec

\* The type invariant, for any number of jobs and tokens.
THEOREM TypeCorrect == Spec => []TypeOK
  <1>1. IInv => TypeOK
    BY DEF IInv
  <1> QED
    BY <1>1, Inductive, PTL

\* However the jobs overlap, the token that the server accepts is not lost between them.
THEOREM RotationCorrect == Spec => []RotationKeepsToken
  <1>1. IInv => RotationKeepsToken
    BY DEF IInv
  <1> QED
    BY <1>1, Inductive, PTL

\* Whatever fails, a flag that a job has lowered without another at its side tells the truth.
THEOREM FlagCorrect == Spec => []FlagHonest
  <1>1. IInv => FlagHonest
    BY DEF IInv
  <1> QED
    BY <1>1, Inductive, PTL

-----------------------------------------------------------------------------
(* The refinement of SharedCredential *)

\* A call that has read the credentials has read some, and there are some ever after.
HasCreds == \A j \in Jobs : job[j].pc \notin {"idle", "creds"} => stored # None

LEMMA CredsThere == Spec => []HasCreds
  <1>1. Init => HasCreds
    BY DEF Init, HasCreds, NoCall
  <1>2. IInv /\ HasCreds /\ [Next]_vars => HasCreds'
    <2> SUFFICES ASSUME IInv, HasCreds, [Next]_vars PROVE HasCreds'
      OBVIOUS
    <2> USE TokensAssumption DEF IInv, TypeOK, At, Return, NoCall, ghosts, HasCreds
    <2>1. ASSUME NEW j \in Jobs, MakeRequest(j) \/ GiveUp(j) \/ GetAPICreds(j) \/ Answered(j) \/ Unauthorized(j)
          PROVE  HasCreds'
      <3>1. CASE MakeRequest(j)
        BY <3>1 DEF MakeRequest
      <3>2. CASE GetAPICreds(j)
        BY <3>2 DEF GetAPICreds
      <3>3. CASE GiveUp(j) \/ Answered(j) \/ Unauthorized(j)
        BY <3>3 DEF GiveUp, Answered, Unauthorized
      <3> QED
        BY <2>1, <3>1, <3>2, <3>3
    <2>2. ASSUME NEW j \in Jobs, ReadRefreshToken(j) \/ Granted(j) \/ Refused(j) \/ MarkInvalid(j)
          PROVE  HasCreds'
      BY <2>2 DEF ReadRefreshToken, Granted, Refused, MarkInvalid
    <2>3. ASSUME NEW j \in Jobs, WriteToken(j) PROVE HasCreds'
      BY <2>3 DEF WriteToken, UnsavedInv, Writer
    <2>4. ASSUME NEW j \in Jobs, Throw(j) \/ LostAnswer(j) PROVE HasCreds'
      BY <2>4 DEF Throw, LostAnswer
    <2>5. ASSUME NEW t \in Tokens, ExpireRefresh(t) PROVE HasCreds'
      BY <2>5 DEF ExpireRefresh
    <2>6. CASE Consent \/ SaveConsent
      BY <2>6 DEF Consent, SaveConsent
    <2>7. CASE UNCHANGED vars
      BY <2>7 DEF vars
    <2> QED
      BY <2>1, <2>2, <2>3, <2>4, <2>5, <2>6, <2>7 DEF Next, Call
  <1> QED
    BY <1>1, <1>2, Inductive, PTL DEF Spec

\* What saving a token, and marking one, is to the row.
LEMMA SavesAndMarks ==
    /\ \A t \in Tokens : stored' = t /\ valid' = TRUE => SharedRow!Next
    /\ stored # None /\ valid' = FALSE /\ stored' = stored => SharedRow!Next
  BY DEF SharedRow!Next, SharedRow!Save, SharedRow!MarkInvalid

\* A write is a save, a marking is one, and everything else leaves the row alone.
LEMMA RowStep ==
    ASSUME IInv, HasCreds, [Next]_vars
    PROVE  [SharedRow!Next]_(SharedRow!vars)
  <1>1. ASSUME UNCHANGED <<stored, valid>> 
        PROVE  UNCHANGED SharedRow!vars
    BY <1>1 DEF SharedRow!vars
  <1>2. ASSUME NEW j \in Jobs, WriteToken(j) PROVE SharedRow!Next
    <2>1. job[j].new \in Tokens
      BY <1>2 DEF WriteToken, IInv, UnsavedInv, Writer
    <2> QED
      BY <1>2, <2>1, SavesAndMarks DEF WriteToken
  <1>3. ASSUME NEW j \in Jobs, MarkInvalid(j) PROVE SharedRow!Next
    <2>1. stored # None
      BY <1>3 DEF MarkInvalid, At, HasCreds
    <2> QED
      BY <1>3, <2>1, SavesAndMarks DEF MarkInvalid
  <1>4. ASSUME SaveConsent PROVE SharedRow!Next
    <2>1. admin \in Tokens
      BY <1>4 DEF SaveConsent, IInv, TypeOK
    <2> QED
      BY <1>4, <2>1, SavesAndMarks DEF SaveConsent
  <1>5. ASSUME NEW j \in Jobs, Call(j), ~WriteToken(j), ~MarkInvalid(j) PROVE UNCHANGED <<stored, valid>>
    BY <1>5 DEF Call, MakeRequest, GiveUp, GetAPICreds, Answered, Unauthorized, ReadRefreshToken, Granted, Refused
  <1>6. ASSUME NEW j \in Jobs, Throw(j) \/ LostAnswer(j) PROVE UNCHANGED <<stored, valid>>
    BY <1>6 DEF Throw, LostAnswer
  <1>7. ASSUME \/ \E t \in Tokens : ExpireRefresh(t) 
               \/ Consent 
               \/ UNCHANGED vars 
        PROVE  UNCHANGED <<stored, valid>>
    BY <1>7 DEF ExpireRefresh, Consent, vars
  <1> QED
    BY <1>1, <1>2, <1>3, <1>4, <1>5, <1>6, <1>7 DEF Next

\* The jobs and the admin use the row as SharedCredential says: they only ever save a token,
\* and mark as invalid only what is there.
THEOREM RowPromiseCorrect == Spec => KeepsRowPromise
  <1>1. Init => SharedRow!Init
    BY TokensAssumption DEF Init, SharedRow!Init
  <1> QED
    BY <1>1, RowStep, CredsThere, Inductive, PTL DEF Spec, KeepsRowPromise, SharedRow!Spec
=============================================================================
