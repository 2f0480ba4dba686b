------------------------ MODULE CredentialStore_proofs ------------------------
(***************************************************************************)
(* The safety of CredentialStore for any number of providers, users,       *)
(* processes and requests, and any set of IVs; and that of IntegrationCard *)
(* that shows a row of it, for any values and number of saves.             *)
(***************************************************************************)
EXTENDS CredentialStore, IntegrationCard, FiniteSetTheorems, TLAPS

\* Decrypting with the IV of the encryption gives the text back, with any other IV garbage:
\* what services/__tests__/crypto.test.ts checks on a few texts.
LEMMA RoundTrip ==
    ASSUME NEW val \in Vals, NEW i, NEW j
    PROVE  Decrypt(j, Encrypt(val, i)) = val <=> i = j
  BY CredentialsAssumption DEF Decrypt, Encrypt

\* The three writers of a row keep its shape.
LEMMA RowTypes ==
    ASSUME NEW row \in GlobalRow \cup {None}, NEW val \in Vals, NEW iv \in IVs
    PROVE  /\ UpsertedGlobal(row, val, iv) \in GlobalRow
           /\ row # None => UpdatedShared(row, val, iv) \in GlobalRow
           /\ UpsertedUser(val, iv) \in UserRow
  BY DEF UpsertedGlobal, UpdatedShared, UpsertedUser, GlobalRow, UserRow, Cipher, Encrypt

\* What an upsert of the client credentials leaves in the row.
LEMMA UpsertEffect ==
    ASSUME NEW row \in GlobalRow \cup {None}, NEW val \in Vals, NEW iv \in IVs
    PROVE  LET new == UpsertedGlobal(row, val, iv)
           IN  /\ new.iv = iv
               /\ new.creds = Encrypt(val, iv)
               /\ row # None => new.shared = row.shared
               /\ row = None => new.shared = None
               /\ row # None => new.valid = row.valid
  BY DEF UpsertedGlobal, GlobalRow

\* The inductive invariant holds in every reachable state: the rows, the processes, the
\* updates in progress and the last saved values stay in step.
LEMMA Inductive == Spec => []IInv
  <1>1. Init => IInv
    BY DEF Init, IInv, TypeOK, SavedCredentialsReadBack, UpdatesHaveRows, IVsDrawn,
           CurrentUpdatesMatch, SharedIsSaved
  <1>2. IInv /\ [Next]_vars => IInv'
    <2> SUFFICES ASSUME IInv, [Next]_vars PROVE IInv'
      OBVIOUS
    <2> USE DEF IInv, TypeOK
    <2>1. ASSUME NEW w \in Workers, Start(w) PROVE IInv'
      <3> USE <2>1 DEF Start
      <3>1. TypeOK'
        OBVIOUS
      <3>2. SavedCredentialsReadBack' /\ UpdatesHaveRows' /\ CurrentUpdatesMatch' /\ SharedIsSaved'
        BY DEF SavedCredentialsReadBack, UpdatesHaveRows, CurrentUpdatesMatch, SharedIsSaved
      <3>3. IVsDrawn'
        BY DEF IVsDrawn
      <3> QED
        BY <3>1, <3>2, <3>3
    <2>2. ASSUME NEW w \in Workers, Stop(w) PROVE IInv'
      <3> USE <2>2 DEF Stop
      <3>1. TypeOK'
        OBVIOUS
      <3>2. SavedCredentialsReadBack' /\ SharedIsSaved'
        BY DEF SavedCredentialsReadBack, SharedIsSaved
      <3>3. \A r \in Requests : update'[r] # None => update'[r] = update[r]
        OBVIOUS
      <3>4. UpdatesHaveRows' /\ CurrentUpdatesMatch'
        BY <3>3 DEF UpdatesHaveRows, CurrentUpdatesMatch
      <3>5. IVsDrawn'
        BY <3>3 DEF IVsDrawn
      <3> QED
        BY <3>1, <3>2, <3>4, <3>5
    <2>3. ASSUME NEW w \in Workers, NEW p \in Providers, NEW v \in Vals,
                 UpsertGlobalApiCredential(w, p, v)
          PROVE  IInv'
      <3> DEFINE new == UpsertedGlobal(globalRow[p], v, procIV[w])
      <3> USE <2>3 DEF UpsertGlobalApiCredential
      <3>1. /\ new \in GlobalRow /\ new # None 
            /\ procIV[w] \in IVs
            /\ new.iv = procIV[w] /\ new.creds = Encrypt(v, procIV[w])
            /\ globalRow[p] # None => new.shared = globalRow[p].shared
            /\ globalRow[p] = None => new.shared = None
        BY RowTypes, UpsertEffect, CredentialsAssumption
      <3>2. globalRow' = [globalRow EXCEPT ![p] = new]
        OBVIOUS
      <3>3. \A r \in Requests : 
              /\ update'[r] # None <=> update[r] # None
              /\ update[r] # None => 
                   /\ update'[r] \in Pending
                   /\ update'[r].iv = update[r].iv
                   /\ update'[r].provider = update[r].provider
                   /\ update'[r].current => 
                        /\ update[r].current 
                        /\ update[r].provider = p => globalRow[p].iv = procIV[w]
        BY PendingAssumption DEF Pending
      <3> HIDE DEF new
      <3>4. TypeOK'
        <4>1. update' \in [Requests -> Pending \cup {None}]
          BY <3>3
        <4> QED
          BY <3>1, <3>2, <4>1
      <3>5. SavedCredentialsReadBack'
        BY <3>1, <3>2, RoundTrip DEF SavedCredentialsReadBack
      <3>6. UpdatesHaveRows' /\ CurrentUpdatesMatch'
        <4> SUFFICES ASSUME NEW r \in Requests, update'[r] # None
                     PROVE  /\ globalRow'[update'[r].provider] # None
                            /\ update'[r].current => 
                                 update'[r].iv = globalRow'[update'[r].provider].iv
          BY DEF UpdatesHaveRows, CurrentUpdatesMatch
        <4>1. update[r] # None /\ update[r].provider \in Providers
          BY <3>3 DEF Pending
        <4> QED
          BY <3>1, <3>2, <3>3, <4>1 DEF UpdatesHaveRows, CurrentUpdatesMatch
      <3>7. IVsDrawn'
        BY <3>1, <3>2, <3>3 DEF IVsDrawn
      <3>8. SharedIsSaved'
        <4>1. saved'.shared = saved.shared
          OBVIOUS
        <4> QED
          BY <3>1, <3>2, <4>1 DEF SharedIsSaved
      <3> QED
        BY <3>4, <3>5, <3>6, <3>7, <3>8
    <2>4. ASSUME NEW r \in Requests, NEW w \in Workers, NEW p \in Providers, NEW v \in Vals,
                 ReadIV(r, w, p, v)
          PROVE  IInv'
      <3> DEFINE new == [worker |-> w, provider |-> p, val |-> v, 
                         iv |-> globalRow[p].iv, current |-> TRUE]
      <3> USE <2>4 DEF ReadIV, IVForUpdate
      <3>1. /\ globalRow[p] \in GlobalRow /\ globalRow[p].iv \in IVs
            /\ new \in Pending
        BY DEF GlobalRow, Pending
      <3>2. update' = [update EXCEPT ![r] = new]
        OBVIOUS
      <3>3. TypeOK' /\ SavedCredentialsReadBack' /\ SharedIsSaved'
        BY <3>1, <3>2 DEF SavedCredentialsReadBack, SharedIsSaved
      <3>4. UpdatesHaveRows' /\ CurrentUpdatesMatch'
        BY <3>1, <3>2 DEF UpdatesHaveRows, CurrentUpdatesMatch
      <3>5. IVsDrawn'
        BY <3>1, <3>2 DEF IVsDrawn
      <3> QED
        BY <3>3, <3>4, <3>5
    <2>5. ASSUME NEW r \in Requests, WriteShared(r) PROVE IInv'
      <3> DEFINE u == update[r]
                 new == UpdatedShared(globalRow[u.provider], u.val, u.iv)
      <3>1. /\ u \in Pending /\ u.provider \in Providers /\ u.val \in Vals /\ u.iv \in usedIV
            /\ globalRow[u.provider] \in GlobalRow /\ globalRow[u.provider] # None
        BY <2>5 DEF WriteShared, UpdatesHaveRows, IVsDrawn, Pending
      <3>2. /\ new \in GlobalRow /\ new # None
            /\ new.iv = globalRow[u.provider].iv /\ new.creds = globalRow[u.provider].creds
            /\ new.shared = Encrypt(u.val, u.iv) /\ new.shared # None
            /\ new.shared.iv = u.iv /\ new.shared.val = u.val
        <4>1. Encrypt(u.val, u.iv) \in Cipher
          BY <3>1 DEF Encrypt, Cipher
        <4>2. new = [globalRow[u.provider] EXCEPT !.shared = Encrypt(u.val, u.iv), !.valid = TRUE]
          BY DEF UpdatedShared
        <4>3. new \in GlobalRow
          BY <3>1, <4>1, <4>2 DEF GlobalRow
        <4>4. /\ new.iv = globalRow[u.provider].iv /\ new.creds = globalRow[u.provider].creds
              /\ new.shared = Encrypt(u.val, u.iv)
          BY <3>1, <4>2 DEF GlobalRow
        <4> QED
          BY <4>1, <4>3, <4>4, CredentialsAssumption DEF Encrypt
      <3>3. /\ globalRow' = [globalRow EXCEPT ![u.provider] = new]
            /\ saved' = [saved EXCEPT !.shared[u.provider] = u.val]
            /\ update' = [update EXCEPT ![r] = None]
            /\ UNCHANGED <<userRow, procIV, usedIV>>
        BY <2>5 DEF WriteShared
      <3> HIDE DEF new, u
      <3>4. TypeOK'
        <4>1. globalRow' \in [Providers -> GlobalRow \cup {None}]
          BY <3>1, <3>2, <3>3
        <4>2. update' \in [Requests -> Pending \cup {None}]
          BY <3>3
        <4>3. saved' \in [global : [Providers -> Vals \cup {None}],
                          shared : [Providers -> Vals \cup {None}],
                          user : [Users \X Providers -> Vals \cup {None}]]
          BY <3>1, <3>3
        <4> QED
          BY <3>3, <4>1, <4>2, <4>3
      <3>5. SavedCredentialsReadBack'
        BY <3>1, <3>2, <3>3 DEF SavedCredentialsReadBack
      <3>6. UpdatesHaveRows' /\ CurrentUpdatesMatch'
        <4> SUFFICES ASSUME NEW q \in Requests, update'[q] # None
                     PROVE  /\ globalRow'[update'[q].provider] # None
                            /\ update'[q].current => 
                                 update'[q].iv = globalRow'[update'[q].provider].iv
          BY DEF UpdatesHaveRows, CurrentUpdatesMatch
        <4>1. update'[q] = update[q] /\ update[q] # None /\ update[q].provider \in Providers
          BY <3>3 DEF Pending
        <4> QED
          BY <3>1, <3>2, <3>3, <4>1 DEF UpdatesHaveRows, CurrentUpdatesMatch
      <3>7. IVsDrawn'
        BY <3>1, <3>2, <3>3 DEF IVsDrawn
      <3>8. SharedIsSaved'
        BY <3>1, <3>2, <3>3 DEF SharedIsSaved
      <3> QED
        BY <3>4, <3>5, <3>6, <3>7, <3>8
    <2>6. ASSUME NEW w \in Workers, NEW p \in Providers, MarkInvalid(w, p) PROVE IInv'
      <3> DEFINE new == [globalRow[p] EXCEPT !.valid = FALSE]
      <3>1. /\ new \in GlobalRow /\ new # None /\ new.iv = globalRow[p].iv
            /\ new.creds = globalRow[p].creds /\ new.shared = globalRow[p].shared
            /\ globalRow[p] # None
        BY <2>6, CredentialsAssumption DEF MarkInvalid, GlobalRow
      <3>2. /\ globalRow' = [globalRow EXCEPT ![p] = new]
            /\ UNCHANGED <<userRow, procIV, usedIV, update, saved>>
        BY <2>6 DEF MarkInvalid
      <3> HIDE DEF new
      <3>3. TypeOK'
        BY <3>1, <3>2
      <3>4. SavedCredentialsReadBack'
        BY <3>1, <3>2 DEF SavedCredentialsReadBack
      <3>5. SharedIsSaved'
        BY <3>1, <3>2 DEF SharedIsSaved
      <3>6. UpdatesHaveRows' /\ CurrentUpdatesMatch'
        BY <3>1, <3>2 DEF UpdatesHaveRows, CurrentUpdatesMatch, Pending
      <3>7. IVsDrawn'
        BY <3>1, <3>2 DEF IVsDrawn
      <3> QED
        BY <3>3, <3>4, <3>5, <3>6, <3>7
    <2>7. ASSUME NEW w \in Workers, NEW u \in Users, NEW p \in Providers, NEW v \in Vals,
                 UpsertUserApiCredential(w, u, p, v)
          PROVE  IInv'
      <3> USE <2>7 DEF UpsertUserApiCredential
      <3>1. /\ UpsertedUser(v, procIV[w]) \in UserRow
            /\ Decrypt(UpsertedUser(v, procIV[w]).iv, UpsertedUser(v, procIV[w]).creds) = v
        BY RowTypes, RoundTrip DEF UpsertedUser
      <3>2. TypeOK'
        BY <3>1
      <3>3. SavedCredentialsReadBack'
        BY <3>1 DEF SavedCredentialsReadBack
      <3>4. UpdatesHaveRows' /\ CurrentUpdatesMatch' /\ IVsDrawn' /\ SharedIsSaved'
        BY DEF UpdatesHaveRows, CurrentUpdatesMatch, IVsDrawn, SharedIsSaved
      <3> QED
        BY <3>2, <3>3, <3>4
    <2>8. CASE UNCHANGED vars
      BY <2>8 DEF vars, SavedCredentialsReadBack, UpdatesHaveRows, IVsDrawn,
                  CurrentUpdatesMatch, SharedIsSaved
    <2> QED
      BY <2>1, <2>2, <2>3, <2>4, <2>5, <2>6, <2>7, <2>8 DEF Next
  <1> QED
    BY <1>1, <1>2, PTL DEF Spec

\* The variables keep their types.
THEOREM TypeCorrect == Spec => []TypeOK
  BY Inductive, PTL DEF IInv

\* Client and user credentials always read back as they were last saved.
THEOREM ReadBackCorrect == Spec => []SavedCredentialsReadBack
  BY Inductive, PTL DEF IInv

\* Under a single IV the shared credentials read back too.
THEOREM SharedReadBackCorrect == Spec => []SharedReadsBackUnderOneIV
  <1>1. IInv => SharedReadsBackUnderOneIV
    <2> SUFFICES ASSUME IInv, \A i, j \in usedIV : i = j, NEW p \in Providers,
                        globalRow[p] # None
                 PROVE  SharedOf(globalRow[p]) = saved.shared[p]
      BY DEF SharedReadsBackUnderOneIV, SharedIntact
    <2>1. globalRow[p].shared = None => saved.shared[p] = None
      BY DEF IInv, SharedIsSaved
    <2>2. globalRow[p].shared # None => /\ globalRow[p].shared.iv = globalRow[p].iv
                                        /\ globalRow[p].shared.val = saved.shared[p]
      BY DEF IInv, SharedIsSaved, IVsDrawn
    <2> QED
      BY <2>1, <2>2 DEF SharedOf, Decrypt
  <1> QED
    BY <1>1, Inductive, PTL

\* The two ways, and no other, in which shared credentials become unreadable.
THEOREM LossCorrect == Spec => SharedLostOnlyByRekey
  <1> DEFINE A == \A p \in Providers : SharedIntact(p) /\ ~SharedIntact(p)' =>
                    \/ globalRow'[p].iv # globalRow[p].iv
                    \/ \E r \in Requests : /\ update[r] # None 
                                           /\ update'[r] = None
                                           /\ update[r].provider = p 
                                           /\ ~update[r].current
  <1>1. IInv /\ [Next]_vars => [A]_vars
    <2> SUFFICES ASSUME IInv, Next, NEW p \in Providers, SharedIntact(p), ~SharedIntact(p)',
                        globalRow'[p].iv = globalRow[p].iv
                 PROVE  \E r \in Requests : /\ update[r] # None 
                                            /\ update'[r] = None
                                            /\ update[r].provider = p 
                                            /\ ~update[r].current
      OBVIOUS
    <2> USE DEF IInv, TypeOK, SharedIntact
    <2>1. ASSUME NEW w \in Workers, Start(w) \/ Stop(w) PROVE FALSE
      BY <2>1 DEF Start, Stop
    <2>2. ASSUME NEW w \in Workers, NEW q \in Providers, NEW v \in Vals,
                 UpsertGlobalApiCredential(w, q, v)
          PROVE  FALSE
      <3>1. CASE q # p
        BY <2>2, <3>1 DEF UpsertGlobalApiCredential
      <3>2. CASE q = p
        <4>1. /\ globalRow'[p] = UpsertedGlobal(globalRow[p], v, procIV[w])
              /\ procIV[w] \in IVs /\ saved'.shared = saved.shared
          BY <2>2, <3>2 DEF UpsertGlobalApiCredential
        <4>2. CASE globalRow[p] = None
          <5>1. globalRow'[p].shared = None
            BY <4>1, <4>2, UpsertEffect
          <5> QED
            BY <4>1, <4>2, <5>1 DEF SharedIsSaved, SharedOf
        <4>3. CASE globalRow[p] # None
          <5>1. globalRow'[p].shared = globalRow[p].shared
            BY <4>1, <4>3, UpsertEffect
          <5> QED
            BY <4>1, <4>3, <5>1 DEF SharedOf
        <4> QED
          BY <4>2, <4>3
      <3> QED
        BY <3>1, <3>2
    <2>3. ASSUME NEW r \in Requests, NEW w \in Workers, NEW q \in Providers, NEW v \in Vals,
                 ReadIV(r, w, q, v)
          PROVE  FALSE
      BY <2>3 DEF ReadIV
    <2>4. ASSUME NEW r \in Requests, WriteShared(r)
          PROVE  /\ update[r] # None /\ update'[r] = None
                 /\ update[r].provider = p /\ ~update[r].current
      <3>1. update[r] # None /\ update'[r] = None /\ update[r] \in Pending
        BY <2>4 DEF WriteShared
      <3>2. update[r].provider = p
        BY <2>4, <3>1 DEF WriteShared, Pending
      <3>3. /\ globalRow'[p] = UpdatedShared(globalRow[p], update[r].val, update[r].iv)
            /\ saved'.shared[p] = update[r].val
        BY <2>4, <3>1, <3>2 DEF WriteShared
      <3>4. /\ globalRow[p] \in GlobalRow
            /\ globalRow'[p].shared = Encrypt(update[r].val, update[r].iv)
            /\ globalRow'[p].iv = globalRow[p].iv
        BY <3>1, <3>2, <3>3 DEF UpdatedShared, GlobalRow, UpdatesHaveRows
      <3>5. SharedOf(globalRow'[p]) # update[r].val
        BY <3>3, <3>4
      <3>6. Encrypt(update[r].val, update[r].iv) # None
        BY <3>1, CredentialsAssumption DEF Encrypt, Cipher, Pending
      <3>7. Decrypt(globalRow[p].iv, Encrypt(update[r].val, update[r].iv)) # update[r].val
        BY <3>4, <3>5, <3>6 DEF SharedOf
      <3>8. update[r].iv # globalRow[p].iv
        BY <3>7 DEF Decrypt, Encrypt
      <3> QED
        BY <3>1, <3>2, <3>8 DEF CurrentUpdatesMatch, Pending
    <2>5. ASSUME NEW w \in Workers, NEW q \in Providers, MarkInvalid(w, q) PROVE FALSE
      BY <2>5 DEF MarkInvalid, SharedOf, GlobalRow
    <2>6. ASSUME NEW w \in Workers, NEW u \in Users, NEW q \in Providers, NEW v \in Vals,
                 UpsertUserApiCredential(w, u, q, v)
          PROVE  FALSE
      BY <2>6 DEF UpsertUserApiCredential
    <2> QED
      BY <2>1, <2>2, <2>3, <2>4, <2>5, <2>6 DEF Next
  <1> QED
    BY <1>1, Inductive, PTL DEF Spec, SharedLostOnlyByRekey

\* A lowered flag is raised by the end of an update alone.
THEOREM FlagCorrect == Spec => InvalidUntilShared
  <1> DEFINE A == \A p \in Providers : 
                    globalRow[p] # None /\ ~globalRow[p].valid /\ globalRow'[p].valid =>
                      \E r \in Requests : update[r] # None /\ update'[r] = None /\ update[r].provider = p
  <1>1. IInv /\ [Next]_vars => [A]_vars
    <2> SUFFICES ASSUME IInv, Next, NEW p \in Providers, 
                        globalRow[p] # None, ~globalRow[p].valid, globalRow'[p].valid
                 PROVE  \E r \in Requests : /\ update[r] # None 
                                            /\ update'[r] = None 
                                            /\ update[r].provider = p
      OBVIOUS
    <2> USE DEF IInv, TypeOK
    <2>1. ASSUME NEW w \in Workers, Start(w) \/ Stop(w) PROVE FALSE
      BY <2>1 DEF Start, Stop
    <2>2. ASSUME NEW w \in Workers, NEW q \in Providers, NEW v \in Vals,
                 UpsertGlobalApiCredential(w, q, v)
          PROVE  FALSE
      BY <2>2, UpsertEffect DEF UpsertGlobalApiCredential
    <2>3. ASSUME NEW r \in Requests, NEW w \in Workers, NEW q \in Providers, NEW v \in Vals,
                 ReadIV(r, w, q, v)
          PROVE  FALSE
      BY <2>3 DEF ReadIV
    <2>4. ASSUME NEW r \in Requests, WriteShared(r)
          PROVE  update[r] # None /\ update'[r] = None /\ update[r].provider = p
      BY <2>4 DEF WriteShared, Pending
    <2>5. ASSUME NEW w \in Workers, NEW q \in Providers, MarkInvalid(w, q) PROVE FALSE
      BY <2>5 DEF MarkInvalid, GlobalRow
    <2>6. ASSUME NEW w \in Workers, NEW u \in Users, NEW q \in Providers, NEW v \in Vals,
                 UpsertUserApiCredential(w, u, q, v)
          PROVE  FALSE
      BY <2>6 DEF UpsertUserApiCredential
    <2> QED
      BY <2>1, <2>2, <2>3, <2>4, <2>5, <2>6 DEF Next
  <1> QED
    BY <1>1, Inductive, PTL DEF Spec, InvalidUntilShared

-----------------------------------------------------------------------------
(* The refinement of SharedCredential *)

\* What SharedCredential sees of a row, as functions of the row alone.
SharedIn(row) == IF row = None \/ row.shared = None THEN None ELSE row.shared.val
ValidIn(row) == row = None \/ row.valid

\* A new row's flag is up.
LEMMA UpsertFlag ==
    ASSUME NEW val \in Vals, NEW iv \in IVs
    PROVE  UpsertedGlobal(None, val, iv).valid = TRUE
  BY DEF UpsertedGlobal

\* A step that changes one row at most, and what it has to do with it.
LEMMA OneRow ==
    ASSUME TypeOK, NEW p \in Providers, NEW row \in GlobalRow,
           globalRow' = [globalRow EXCEPT ![p] = row]
    PROVE  /\ SharedIn(row) = SharedIn(globalRow[p]) /\ ValidIn(row) = ValidIn(globalRow[p])
                => UNCHANGED SharedRow!vars
           /\ SharedIn(row) \in Vals /\ ValidIn(row) = TRUE => SharedRow!Next
           /\ /\ SharedIn(globalRow[p]) # None 
              /\ SharedIn(row) = SharedIn(globalRow[p]) 
              /\ ValidIn(row) = FALSE 
              => SharedRow!Next
  <1> DEFINE S == [q \in Providers |-> SharedIn(globalRow[q])]
             V == [q \in Providers |-> ValidIn(globalRow[q])]
  <1>1. /\ S' = [S EXCEPT ![p] = SharedIn(row)]
        /\ V' = [V EXCEPT ![p] = ValidIn(row)]
    <2>1. \A q \in Providers : globalRow'[q] = IF q = p THEN row ELSE globalRow[q]
      BY DEF TypeOK
    <2>2. /\ S' = [q \in Providers |-> SharedIn(globalRow'[q])]
          /\ V' = [q \in Providers |-> ValidIn(globalRow'[q])]
      BY DEF SharedIn, ValidIn
    <2>3. /\ [S EXCEPT ![p] = SharedIn(row)] = [q \in Providers |-> IF q = p THEN SharedIn(row) ELSE SharedIn(globalRow[q])]
          /\ [V EXCEPT ![p] = ValidIn(row)] = [q \in Providers |-> IF q = p THEN ValidIn(row) ELSE ValidIn(globalRow[q])]
      OBVIOUS
    <2> QED
      BY <2>1, <2>2, <2>3
  <1>2. S[p] = SharedIn(globalRow[p]) /\ V[p] = ValidIn(globalRow[p])
    OBVIOUS
  <1>3. [S EXCEPT ![p] = S[p]] = S /\ [V EXCEPT ![p] = V[p]] = V
    OBVIOUS
  <1>4. S' = S /\ V' = V => UNCHANGED SharedRow!vars
    BY DEF SharedRow!vars, SharedIn, ValidIn
  <1>5. ASSUME NEW v \in Vals, S' = [S EXCEPT ![p] = v], V' = [V EXCEPT ![p] = TRUE]
        PROVE  SharedRow!Next
    <2>1. SharedRow!Save(p, v)
      BY <1>5 DEF SharedRow!Save, SharedIn, ValidIn
    <2> QED
      BY <2>1 DEF SharedRow!Next
  <1>6. ASSUME S[p] # None, S' = S, V' = [V EXCEPT ![p] = FALSE]
        PROVE  SharedRow!Next
    <2>1. SharedRow!MarkInvalid(p)
      BY <1>6 DEF SharedRow!MarkInvalid, SharedIn, ValidIn
    <2> QED
      BY <2>1 DEF SharedRow!Next
  <1> HIDE DEF S, V
  <1>7. SharedIn(row) = SharedIn(globalRow[p]) /\ ValidIn(row) = ValidIn(globalRow[p])
          => UNCHANGED SharedRow!vars
    BY <1>1, <1>2, <1>3, <1>4
  <1>8. SharedIn(row) \in Vals /\ ValidIn(row) = TRUE => SharedRow!Next
    BY <1>1, <1>5
  <1>9. SharedIn(globalRow[p]) # None /\ SharedIn(row) = SharedIn(globalRow[p]) /\ ValidIn(row) = FALSE
          => SharedRow!Next
    BY <1>1, <1>2, <1>3, <1>6
  <1> QED
    BY <1>7, <1>8, <1>9

\* Every step saves or marks the credentials of one provider, or leaves all of them alone.
LEMMA RowStep ==
    ASSUME IInv, [Next]_vars
    PROVE  [SharedRow!Next]_(SharedRow!vars)
  <1> USE DEF IInv
  <1>1. ASSUME NEW w \in Workers, NEW p \in Providers, NEW v \in Vals, UpsertGlobalApiCredential(w, p, v)
        PROVE  UNCHANGED SharedRow!vars
    <2> DEFINE new == UpsertedGlobal(globalRow[p], v, procIV[w])
    <2>1. /\ procIV[w] \in IVs /\ globalRow[p] \in GlobalRow \cup {None}
          /\ globalRow' = [globalRow EXCEPT ![p] = new]
      BY <1>1 DEF UpsertGlobalApiCredential, TypeOK
    <2>2. /\ new \in GlobalRow /\ new # None
          /\ globalRow[p] # None => new.shared = globalRow[p].shared /\ new.valid = globalRow[p].valid
          /\ globalRow[p] = None => new.shared = None
      BY <2>1, RowTypes, UpsertEffect, CredentialsAssumption
    <2>4. globalRow[p] = None => new.valid = TRUE
      BY <2>1, UpsertFlag
    <2> HIDE DEF new
    <2>3. SharedIn(new) = SharedIn(globalRow[p]) /\ ValidIn(new) = ValidIn(globalRow[p])
      <3>1. new.valid \in BOOLEAN /\ (globalRow[p] # None => globalRow[p].valid \in BOOLEAN)
        BY <2>1, <2>2 DEF GlobalRow
      <3>2. CASE globalRow[p] = None
        BY <2>2, <2>4, <3>2 DEF SharedIn, ValidIn
      <3>3. CASE globalRow[p] # None
        BY <2>2, <3>3 DEF SharedIn, ValidIn
      <3> QED
        BY <3>2, <3>3
    <2> QED
      BY <2>1, <2>2, <2>3, OneRow
  <1>2. ASSUME NEW r \in Requests, WriteShared(r)
        PROVE  SharedRow!Next
    <2> DEFINE p == update[r].provider
               new == UpdatedShared(globalRow[p], update[r].val, update[r].iv)
    <2>1. /\ p \in Providers /\ update[r].val \in Vals /\ update[r].iv \in IVs
          /\ globalRow[p] \in GlobalRow /\ globalRow[p] # None
      BY <1>2 DEF WriteShared, TypeOK, Pending, UpdatesHaveRows
    <2>2. globalRow' = [globalRow EXCEPT ![p] = new] 
      BY <1>2 DEF WriteShared
    <2>3. new \in GlobalRow /\ new # None
      BY <2>1, RowTypes, CredentialsAssumption
    <2>4. new.shared = Encrypt(update[r].val, update[r].iv) /\ new.valid = TRUE
      BY <2>1 DEF UpdatedShared, GlobalRow
    <2>5. new.shared # None /\ new.shared.val = update[r].val
      BY <2>1, <2>4, CredentialsAssumption DEF Encrypt, Cipher
    <2> HIDE DEF p, new
    <2>6. SharedIn(new) = update[r].val /\ ValidIn(new) = TRUE
      BY <2>3, <2>4, <2>5 DEF SharedIn, ValidIn
    <2> QED
      BY <2>1, <2>2, <2>3, <2>6, OneRow
  <1>3. ASSUME NEW w \in Workers, NEW p \in Providers, MarkInvalid(w, p)
        PROVE  SharedRow!Next
    <2> DEFINE new == [globalRow[p] EXCEPT !.valid = FALSE]
    <2>1. /\ globalRow[p] \in GlobalRow /\ globalRow[p] # None /\ globalRow[p].shared # None
          /\ globalRow' = [globalRow EXCEPT ![p] = new]
      BY <1>3 DEF MarkInvalid, TypeOK
    <2>2. new \in GlobalRow /\ new # None /\ new.shared = globalRow[p].shared /\ new.valid = FALSE
      BY <2>1, CredentialsAssumption DEF GlobalRow
    <2>3. globalRow[p].shared.val # None
      BY <2>1, CredentialsAssumption DEF GlobalRow, Cipher
    <2> HIDE DEF new
    <2>4. SharedIn(globalRow[p]) # None /\ SharedIn(new) = SharedIn(globalRow[p]) /\ ValidIn(new) = FALSE
      BY <2>1, <2>2, <2>3 DEF SharedIn, ValidIn
    <2> QED
      BY <2>1, <2>2, <2>4, OneRow
  <1>4. ASSUME UNCHANGED globalRow
        PROVE  UNCHANGED SharedRow!vars
    BY <1>4 DEF SharedRow!vars
  <1>5. ASSUME NEW w \in Workers, Start(w) \/ Stop(w) PROVE UNCHANGED globalRow
    BY <1>5 DEF Start, Stop
  <1>6. ASSUME NEW r \in Requests, NEW w \in Workers, NEW p \in Providers, NEW v \in Vals, ReadIV(r, w, p, v)
        PROVE  UNCHANGED globalRow
    BY <1>6 DEF ReadIV
  <1>7. ASSUME NEW w \in Workers, NEW u \in Users, NEW p \in Providers, NEW v \in Vals,
               UpsertUserApiCredential(w, u, p, v)
        PROVE  UNCHANGED globalRow
    BY <1>7 DEF UpsertUserApiCredential
  <1>8. ASSUME UNCHANGED vars PROVE UNCHANGED globalRow
    BY <1>8 DEF vars
  <1> QED
    BY <1>1, <1>2, <1>3, <1>4, <1>5, <1>6, <1>7, <1>8 DEF Next

\* The credential store implements SharedCredential: nothing but updateGlobalSharedUserCredential
\* touches the shared credentials of a provider or raises its flag.
THEOREM RowPromiseCorrect == Spec => KeepsRowPromise
  <1>1. Init => SharedRow!Init
    BY DEF Init, SharedRow!Init
  <1> QED
    BY <1>1, RowStep, Inductive, PTL DEF Spec, KeepsRowPromise, SharedRow!Spec

-----------------------------------------------------------------------------
(* The card *)

Served == \E s \in saves : s.state = "served"

\* The form of a card on the page is set as soon as an answer is cached, and nothing is asked
\* for a card that is not there.  A row that was saved stays.
CardShape ==
    /\ card.mounted => (card.form # Null <=> cache # {})
    /\ ~card.mounted => card.form = Null /\ query = NoQuery
    /\ Served => db.creds # Null

\* What is known of the row is current, or a save was served whose answer will have the query
\* sent again, or the query has failed.  What does not depend on the saves is current always.
CopiesInv ==
    /\ query.at = "answered" => query.answer = AnswerOf(db) \/ Served
    /\ query.at = "answered" => query.answer.valid = db.shared
    /\ card.mounted /\ query.at = "none" /\ ~queryError => cache = {AnswerOf(db)} \/ Served
    /\ ~card.mounted => saves = {} /\ cache \subseteq {AnswerOf(db)}
    /\ \A a \in cache : a.valid = db.shared

\* The card shows what is cached, and knows that a row exists, or is about to: a save tells it
\* at once.  Until it has an answer it shows nothing, and nothing can be saved.
AppliedInv ==
    card.mounted =>
        /\ \A a \in cache : card.valid = a.valid
        /\ cache # {} => card.exists = (db.creds # Null) \/ Served
        /\ cache = {} => card.exists = Null /\ card.valid = Null /\ saves = {}

\* A form that nobody has typed in is that of the cached answer, of the only save under way,
\* or of the row.
FormInv ==
    card.mounted /\ ~edited /\ card.form # Null =>
        \/ \A a \in cache : card.form = <<a.creds>>
        \/ \E s \in saves : /\ saves = {s} /\ card.form = <<s.value>>
                            /\ s.state = "served" => db.creds = s.value
        \/ saves = {} /\ card.form = <<db.creds>>

\* For a superadmin, as long as nobody else writes the row.
TruthInv == role = "SUPERADMIN" /\ ~stale => CopiesInv /\ AppliedInv /\ FormInv

\* One answer is cached at most, and finitely many saves are under way.
SetsInv == (cache = {} \/ \E a \in cache : cache = {a}) /\ IsFiniteSet(saves)

CardIInv == CardTypeOK /\ SetsInv /\ CardShape /\ TruthInv

Saves == [value : Values, state : {"sent", "served"}]

\* The answer to a query tells of the row what it has.
LEMMA AnswerFacts ==
    ASSUME NEW row \in Rows
    PROVE  /\ AnswerOf(row) \in Answers /\ AnswerOf(row).creds = row.creds 
           /\ AnswerOf(row).valid = row.shared /\ AnswerOf(row).exists = (row.creds # Null)
  BY DEF AnswerOf, Answers, Rows

\* The effect sets what an answer has, and nothing else.
LEMMA AppliedFacts ==
    ASSUME NEW c \in Cards, NEW a \in Answers
    PROVE  LET d == Applied(c, a)
           IN  /\ d \in Cards /\ d.mounted = c.mounted
               /\ d.exists = a.exists /\ d.valid = a.valid /\ d.form = <<a.creds>>
               /\ d.exists # Null /\ d.valid # Null /\ d.form # Null
  <1>1. <<a.creds>> \in Forms /\ a.exists \in BOOLEAN /\ a.valid \in BOOLEAN
    BY DEF Answers, Forms
  <1> QED
    BY <1>1, CardAssumption DEF Applied, Cards

\* A card that has just been mounted, and one that is gone.
LEMMA NewCards ==
    /\ Fresh \in Cards /\ Fresh.mounted = TRUE /\ Fresh.form = Null /\ Fresh.exists = Null /\ Fresh.valid = Null
    /\ Blank \in Cards /\ Blank.mounted = FALSE /\ Blank.form = Null
  BY DEF Fresh, Blank, Cards

LEMMA Queries ==
    /\ NoQuery.at = "none" /\ Sent.at = "sent"
    /\ \A a : Answered(a).at = "answered" /\ Answered(a).answer = a
    /\ NoQuery # Sent /\ \A a : Answered(a) # Sent /\ Answered(a) # NoQuery
  BY DEF NoQuery, Sent, Answered

\* A set of saves that grows or changes by one.
LEMMA SavesCount ==
    ASSUME NEW S, IsFiniteSet(S), Cardinality(S) <= MaxSaves, NEW s
    PROVE  /\ IsFiniteSet(S \ {s}) /\ Cardinality(S \ {s}) <= MaxSaves
           /\ \A t : s \in S => IsFiniteSet((S \ {s}) \cup {t}) /\ Cardinality((S \ {s}) \cup {t}) <= MaxSaves
           /\ Cardinality(S) < MaxSaves => IsFiniteSet(S \cup {s}) /\ Cardinality(S \cup {s}) <= MaxSaves
  <1>1. Cardinality(S) \in Nat
    BY FS_CardinalityType
  <1>2. /\ IsFiniteSet(S \ {s}) 
        /\ Cardinality(S \ {s}) = IF s \in S THEN Cardinality(S) - 1 ELSE Cardinality(S)
    BY FS_RemoveElement
  <1>3. /\ IsFiniteSet(S \cup {s}) 
        /\ Cardinality(S \cup {s}) = IF s \in S THEN Cardinality(S) ELSE Cardinality(S) + 1
    BY FS_AddElement
  <1>4. ASSUME NEW t, s \in S
        PROVE  IsFiniteSet((S \ {s}) \cup {t}) /\ Cardinality((S \ {s}) \cup {t}) <= MaxSaves
    <2>1. /\ IsFiniteSet((S \ {s}) \cup {t})
          /\ Cardinality((S \ {s}) \cup {t}) 
               = IF t \in S \ {s} THEN Cardinality(S \ {s}) ELSE Cardinality(S \ {s}) + 1
      BY <1>2, FS_AddElement
    <2> QED
      BY <1>1, <1>2, <1>4, <2>1, IntegrationCardAssumption
  <1>5. Cardinality(S \ {s}) <= MaxSaves
    BY <1>1, <1>2, IntegrationCardAssumption
  <1>6. Cardinality(S) < MaxSaves => Cardinality(S \cup {s}) <= MaxSaves
    BY <1>1, <1>3, IntegrationCardAssumption
  <1> QED
    BY <1>2, <1>3, <1>4, <1>5, <1>6

\* What a step leaves alone: nothing but requests or their answers may be lost.
LEMMA Mounting ==
    ASSUME CardTypeOK, NEW cached \in SUBSET Answers, cached = {} \/ \E a \in Answers : cached = {a},
           Mounted(cached)
    PROVE  /\ card' \in Cards /\ card'.mounted = TRUE /\ edited' = FALSE /\ urlQuery' = "sent"
           /\ card'.form # Null => card'.exists # Null /\ card'.valid # Null
           /\ card'.form # Null <=> cached # {}
           /\ \A a \in cached : card'.exists = a.exists /\ card'.valid = a.valid /\ card'.form = <<a.creds>>
           /\ cached = {} => card'.exists = Null /\ card'.valid = Null
           /\ query' = IF cached = {} THEN Sent ELSE NoQuery
           /\ queryError' = FALSE
  <1>1. CASE cached = {}
    BY <1>1, NewCards DEF Mounted
  <1>2. ASSUME NEW a \in Answers, cached = {a}
        PROVE  card' = Applied(Fresh, a)
    BY <1>2 DEF Mounted
  <1>3. ASSUME NEW a \in Answers, cached = {a}
        PROVE  /\ card' \in Cards /\ card'.mounted = TRUE 
               /\ card'.form # Null /\ card'.exists # Null /\ card'.valid # Null
               /\ card'.exists = a.exists /\ card'.valid = a.valid /\ card'.form = <<a.creds>>
    <2>1. card' = Applied(Fresh, a)
      BY <1>2, <1>3
    <2> QED
      BY <2>1, NewCards, AppliedFacts
  <1>4. CASE cached # {}
    <2>1. PICK a \in Answers : cached = {a}
      BY <1>4
    <2> QED
      BY <1>3, <1>4, <2>1 DEF Mounted
  <1> QED
    BY <1>1, <1>4

\* The page is mounted with nothing cached: everything is asked for anew.
LEMMA FreshPage ==
    ASSUME CardIInv, Mounted({}), cache' = {}, role' = role,
           db' \in Rows, db'.shared => db'.creds # Null,
           IsFiniteSet(saves'), saves' \subseteq {s \in saves : s.state = "sent"}, 
           Cardinality(saves') <= MaxSaves, stale' \in BOOLEAN, ~stale' => saves' = {}
    PROVE  CardIInv'
  <1>1. /\ card' \in Cards /\ card'.mounted = TRUE /\ edited' = FALSE /\ urlQuery' = "sent"
        /\ card'.form = Null /\ query' = Sent /\ queryError' = FALSE
        /\ card'.exists = Null /\ card'.valid = Null
    BY Mounting, {} \in SUBSET Answers DEF CardIInv
  <1>2. CardTypeOK'
    <2>1. cache' \subseteq Answers /\ Cardinality(cache') <= 1
      BY FS_EmptySet
    <2> QED
      BY <1>1, <2>1 DEF CardIInv, CardTypeOK
  <1>3. SetsInv'
    BY DEF SetsInv
  <1>4. ~Served'
    BY DEF Served
  <1>5. CardShape'
    BY <1>1, <1>4 DEF CardShape
  <1>6. TruthInv'
    BY <1>1, Queries DEF TruthInv, CopiesInv, AppliedInv, FormInv
  <1> QED
    BY <1>2, <1>3, <1>5, <1>6 DEF CardIInv

\* Every step keeps the invariant.
LEMMA CardInductive == CardSpec => []CardIInv
  <1>1. CardInit => CardIInv
    <2> SUFFICES ASSUME CardInit PROVE CardIInv
      OBVIOUS
    <2>1. /\ card.mounted = TRUE /\ card.form = Null /\ card \in Cards /\ query = Sent /\ urlQuery = "sent"
          /\ card.exists = Null /\ card.valid = Null
          /\ cache = {} /\ saves = {}
      BY NewCards DEF CardInit
    <2>2. CardTypeOK
      <3>1. Cardinality(cache) <= 1 /\ Cardinality(saves) <= MaxSaves
        BY <2>1, FS_EmptySet, IntegrationCardAssumption
      <3>2. edited \in BOOLEAN /\ stale \in BOOLEAN /\ queryError \in BOOLEAN
        BY DEF CardInit
      <3> QED
        BY <2>1, <3>1, <3>2 DEF CardInit, CardTypeOK
    <2>3. SetsInv
      BY <2>1, FS_EmptySet DEF SetsInv
    <2>4. CardShape /\ TruthInv
      BY <2>1, Queries DEF CardShape, Served, TruthInv, CopiesInv, AppliedInv, FormInv
    <2> QED
      BY <2>2, <2>3, <2>4 DEF CardIInv
  <1>2. CardIInv /\ [CardNext]_cardVars => CardIInv'
    <2> SUFFICES ASSUME CardIInv, [CardNext]_cardVars PROVE CardIInv'
      OBVIOUS
    <2> USE DEF CardIInv
    <2>1. ASSUME Leave, role' = role PROVE CardIInv'
      <3>1. /\ card' = Blank /\ query' = NoQuery /\ urlQuery' = "none" /\ edited' = FALSE /\ queryError' = FALSE
            /\ stale' = (stale \/ saves # {} \/ ((query # NoQuery \/ queryError) /\ cache # {}))
            /\ UNCHANGED <<db, cache, saves>>
        BY <2>1 DEF Leave
      <3>2. CardTypeOK'
        BY <2>1, <3>1, NewCards DEF CardTypeOK
      <3>3. SetsInv' /\ CardShape'
        BY <3>1, NewCards DEF SetsInv, CardShape, Served
      <3>4. TruthInv'
        <4> SUFFICES ASSUME role = "SUPERADMIN", ~stale' PROVE CopiesInv' /\ AppliedInv' /\ FormInv'
          BY <2>1 DEF TruthInv
        <4>1. ~stale /\ saves = {} /\ ((query = NoQuery /\ ~queryError) \/ cache = {})
          BY <3>1
        <4>2. cache \subseteq {AnswerOf(db)}
          BY <2>1, <4>1, Queries DEF TruthInv, CopiesInv, Leave, Served
        <4> QED
          BY <2>1, <3>1, <4>1, <4>2, NewCards, Queries DEF TruthInv, CopiesInv, AppliedInv, FormInv
      <3> QED
        BY <3>2, <3>3, <3>4
    <2>2. ASSUME Enter, role' = role PROVE CardIInv'
      <3>1. ~card.mounted /\ Mounted(cache) /\ UNCHANGED <<db, cache, saves, stale>>
        BY <2>2 DEF Enter
      <3>2. cache \in SUBSET Answers /\ (cache = {} \/ \E a \in Answers : cache = {a})
        BY DEF CardTypeOK, SetsInv
      <3>3. /\ card' \in Cards /\ card'.mounted = TRUE /\ edited' = FALSE /\ urlQuery' = "sent"
            /\ card'.form # Null => card'.exists # Null /\ card'.valid # Null
            /\ card'.form # Null <=> cache # {}
            /\ \A a \in cache : card'.exists = a.exists /\ card'.valid = a.valid /\ card'.form = <<a.creds>>
            /\ cache = {} => card'.exists = Null /\ card'.valid = Null
            /\ query' = IF cache = {} THEN Sent ELSE NoQuery
            /\ queryError' = FALSE
        BY <3>1, <3>2, Mounting
      <3>4. CardTypeOK'
        BY <2>2, <3>1, <3>3 DEF CardTypeOK
      <3>5. SetsInv' /\ CardShape'
        BY <3>1, <3>3 DEF SetsInv, CardShape, Served
      <3>6. TruthInv'
        <4> SUFFICES ASSUME role = "SUPERADMIN", ~stale' PROVE CopiesInv' /\ AppliedInv' /\ FormInv'
          BY <2>2 DEF TruthInv
        <4>1. cache \subseteq {AnswerOf(db)} /\ saves = {}
          BY <3>1 DEF TruthInv, CopiesInv
        <4>2. AnswerOf(db).valid = db.shared /\ AnswerOf(db).exists = (db.creds # Null)
          BY AnswerFacts DEF CardTypeOK
        <4> QED
          BY <3>1, <3>3, <4>1, <4>2, Queries DEF CopiesInv, AppliedInv, FormInv
      <3> QED
        BY <3>4, <3>5, <3>6
    <2>3. ASSUME Load, role' = role PROVE CardIInv'
      <3>1. Mounted({}) /\ cache' = {} /\ saves' = {s \in saves : s.state = "sent"} /\ UNCHANGED db
            /\ stale' \in BOOLEAN /\ (~stale' => saves' = {})
        BY <2>3 DEF Load
      <3>2. IsFiniteSet(saves') /\ Cardinality(saves') <= MaxSaves
        <4>1. IsFiniteSet(saves) /\ Cardinality(saves) \in Nat /\ Cardinality(saves) <= MaxSaves
          BY FS_CardinalityType DEF SetsInv, CardTypeOK
        <4>2. IsFiniteSet(saves') /\ Cardinality(saves') \in Nat /\ Cardinality(saves') <= Cardinality(saves)
          BY <3>1, <4>1, FS_Subset, FS_CardinalityType
        <4> QED
          BY <4>1, <4>2, IntegrationCardAssumption
      <3>3. db' \in Rows /\ (db'.shared => db'.creds # Null)
        BY <3>1 DEF CardTypeOK
      <3> QED
        BY <2>3, <3>1, <3>2, <3>3, FreshPage
    <2>4. ASSUME Connect, role' = role PROVE CardIInv'
      <3>1. Mounted({}) /\ cache' = {} /\ saves = {} /\ saves' = {} /\ stale' = FALSE
            /\ db' \in {db, [db EXCEPT !.shared = db.creds # Null]}
        BY <2>4 DEF Connect
      <3>2. IsFiniteSet(saves') /\ Cardinality(saves') <= MaxSaves
        BY <3>1, FS_EmptySet, IntegrationCardAssumption
      <3>3. db' \in Rows /\ (db'.shared => db'.creds # Null)
        BY <3>1 DEF CardTypeOK, Rows
      <3> QED
        BY <2>4, <3>1, <3>2, <3>3, FreshPage
    <2>5. ASSUME NEW v \in Values, Type(v), role' = role PROVE CardIInv'
      <3>1. /\ card' = [card EXCEPT !.form = <<v>>] /\ edited' = TRUE 
            /\ card.mounted /\ card.form # Null
            /\ UNCHANGED <<db, cache, query, queryError, urlQuery, saves, stale>>
        BY <2>5 DEF Type
      <3>2. <<v>> \in Forms
        BY DEF Forms
      <3>3. /\ card' \in Cards /\ card'.mounted = card.mounted /\ card'.form # Null
            /\ card'.exists = card.exists /\ card'.valid = card.valid
        BY <3>1, <3>2, CardAssumption DEF CardTypeOK, Cards
      <3>4. CardTypeOK'
        BY <2>5, <3>1, <3>3 DEF CardTypeOK
      <3>5. SetsInv' /\ CardShape'
        BY <3>1, <3>3 DEF SetsInv, CardShape, Served
      <3>6. TruthInv'
        BY <2>5, <3>1, <3>3 DEF TruthInv, CopiesInv, AppliedInv, FormInv, Served
      <3> QED
        BY <3>4, <3>5, <3>6
    <2>6. ASSUME Save, role' = role PROVE CardIInv'
      <3> DEFINE new == [value |-> card.form[1], state |-> "sent"]
      <3>1. /\ card.mounted /\ card.form # Null /\ card.form # <<Null>>
            /\ Cardinality(saves) < MaxSaves
            /\ saves' = saves \cup {new} /\ edited' = (saves # {})
            /\ UNCHANGED <<db, cache, card, query, queryError, urlQuery, stale>>
        BY <2>6 DEF Save
      <3>2. PICK v \in Values : card.form = <<v>>
        BY <3>1 DEF CardTypeOK, Cards, Forms
      <3>3. new \in Saves /\ new.value = v /\ new.state = "sent"
        BY <3>2 DEF Saves
      <3> HIDE DEF new
      <3>4. IsFiniteSet(saves') /\ Cardinality(saves') <= MaxSaves
        BY <3>1, SavesCount DEF SetsInv, CardTypeOK
      <3>5. CardTypeOK'
        BY <2>6, <3>1, <3>3, <3>4 DEF CardTypeOK, Saves
      <3>6. Served' <=> Served
        BY <3>1, <3>3 DEF Served
      <3>7. SetsInv' /\ CardShape'
        BY <3>1, <3>4, <3>6 DEF SetsInv, CardShape
      <3>8. FormInv'
        BY <3>1, <3>2, <3>3 DEF FormInv
      <3>9. TruthInv'
        BY <2>6, <3>1, <3>6, <3>8 DEF CardShape, TruthInv, CopiesInv, AppliedInv
      <3> QED
        BY <3>5, <3>7, <3>9
    <2>7. ASSUME OtherAdmin, role' = role PROVE CardIInv'
      <3>1. stale' = TRUE /\ UNCHANGED <<cache, card, query, queryError, urlQuery, saves, edited>>
        BY <2>7 DEF OtherAdmin
      <3>2. db' \in Rows /\ (db'.shared => db'.creds # Null) /\ (db.creds # Null => db'.creds # Null)
        BY <2>7, IntegrationCardAssumption DEF OtherAdmin, CardTypeOK, Rows
      <3>3. CardTypeOK'
        BY <2>7, <3>1, <3>2 DEF CardTypeOK
      <3> QED
        BY <3>1, <3>2, <3>3 DEF SetsInv, CardShape, TruthInv, Served
    <2>8. ASSUME ServeQuery, role' = role PROVE CardIInv'
      <3>1. /\ query = Sent /\ UNCHANGED <<db, cache, card, queryError, urlQuery, saves, edited, stale>>
            /\ query' = Answered(AnswerOf(db))
        BY <2>8 DEF ServeQuery
      <3>2. AnswerOf(db) \in Answers /\ AnswerOf(db).valid = db.shared
        BY AnswerFacts DEF CardTypeOK
      <3>3. CardTypeOK'
        BY <2>8, <3>1, <3>2 DEF CardTypeOK
      <3>4. SetsInv' /\ CardShape'
        BY <3>1, Queries DEF SetsInv, CardShape, Served
      <3>5. TruthInv'
        BY <2>8, <3>1, <3>2, Queries DEF TruthInv, CopiesInv, AppliedInv, FormInv, Served
      <3> QED
        BY <3>3, <3>4, <3>5
    <2>16. ASSUME QueryFails, role' = role PROVE CardIInv'
      <3>1. /\ query = Sent /\ query' = NoQuery /\ queryError' = TRUE
            /\ UNCHANGED <<db, cache, card, urlQuery, saves, edited, stale>>
        BY <2>16 DEF QueryFails
      <3>2. CardTypeOK'
        BY <2>16, <3>1 DEF CardTypeOK
      <3>3. SetsInv' /\ CardShape'
        BY <3>1, Queries DEF SetsInv, CardShape, Served
      <3>4. TruthInv'
        BY <2>16, <3>1, Queries DEF TruthInv, CopiesInv, AppliedInv, FormInv, Served
      <3> QED
        BY <3>2, <3>3, <3>4
    <2>9. ASSUME ServeURL, role' = role PROVE CardIInv'
      <3>1. urlQuery' \in {"none", "sent", "null", "made"} /\ UNCHANGED <<db, cache, card, query, queryError, saves, edited, stale>>
        BY <2>9 DEF ServeURL
      <3> QED
        BY <2>9, <3>1 DEF CardTypeOK, SetsInv, CardShape, TruthInv, CopiesInv, AppliedInv, FormInv, Served
    <2>10. ASSUME NEW s \in saves, ServeSave(s), role' = role PROVE CardIInv'
      <3> DEFINE served == [s EXCEPT !.state = "served"]
      <3>1. /\ db' = [db EXCEPT !.creds = s.value]
            /\ saves' = (saves \ {s}) \cup {served}
            /\ UNCHANGED <<cache, card, query, queryError, urlQuery, edited, stale>>
        BY <2>10 DEF ServeSave
      <3>2. s \in Saves /\ served \in Saves /\ served.value = s.value /\ served.state = "served" /\ s.value \in Values
        BY DEF CardTypeOK, Saves
      <3> HIDE DEF served
      <3>3. db' \in Rows /\ db'.creds = s.value /\ db'.shared = db.shared /\ db'.creds # Null
        BY <3>1, <3>2, IntegrationCardAssumption DEF CardTypeOK, Rows
      <3>4. IsFiniteSet(saves') /\ Cardinality(saves') <= MaxSaves
        BY <3>1, SavesCount DEF SetsInv, CardTypeOK
      <3>5. CardTypeOK'
        BY <2>10, <3>1, <3>2, <3>3, <3>4 DEF CardTypeOK, Saves
      <3>6. Served'
        BY <3>1, <3>2 DEF Served
      <3>7. SetsInv' /\ CardShape'
        BY <3>1, <3>3, <3>4 DEF SetsInv, CardShape
      <3>8. ASSUME FormInv PROVE FormInv'
        BY <3>1, <3>2, <3>3, <3>8 DEF FormInv
      <3>9. ASSUME CopiesInv, AppliedInv PROVE CopiesInv' /\ AppliedInv'
        BY <3>1, <3>3, <3>6, <3>9 DEF CopiesInv, AppliedInv
      <3> QED
        BY <2>10, <3>1, <3>5, <3>7, <3>8, <3>9 DEF TruthInv
    <2>11. ASSUME Arrive, role' = role PROVE CardIInv'
      <3>1. /\ query.at = "answered" /\ query' = NoQuery /\ cache' = {query.answer} /\ queryError' = FALSE
            /\ UNCHANGED <<db, urlQuery, saves, stale>>
        BY <2>11 DEF Arrive
      <3>2. query.answer \in Answers /\ card.mounted
        BY <3>1, Queries DEF CardTypeOK, CardShape
      <3>3. Cardinality(cache') <= 1 /\ cache' \subseteq Answers
        <4>1. Cardinality({query.answer}) = 1
          BY FS_Singleton
        <4> QED
          BY <3>1, <3>2, <4>1
      <3>4. CASE cache = {query.answer} /\ UNCHANGED <<card, edited>>
        <4>1. UNCHANGED <<card, edited, cache>>
          BY <3>1, <3>4
        <4>2. CardTypeOK'
          BY <2>11, <3>1, <4>1 DEF CardTypeOK
        <4>3. SetsInv' /\ CardShape'
          BY <3>1, <3>2, <4>1 DEF SetsInv, CardShape, Served
        <4>4. TruthInv'
          BY <2>11, <3>1, <3>2, <3>4, <4>1, Queries DEF TruthInv, CopiesInv, AppliedInv, FormInv, Served
        <4> QED
          BY <4>2, <4>3, <4>4
      <3>5. CASE card' = Applied(card, query.answer) /\ edited' = FALSE
        <4>1. card' = Applied(card, query.answer) /\ edited' = FALSE
          BY <3>5
        <4>2. /\ card' \in Cards /\ card'.mounted = card.mounted
              /\ card'.exists = query.answer.exists /\ card'.valid = query.answer.valid 
              /\ card'.form = <<query.answer.creds>>
              /\ card'.exists # Null /\ card'.valid # Null /\ card'.form # Null
          BY <3>2, <4>1, AppliedFacts DEF CardTypeOK
        <4>3. CardTypeOK'
          BY <2>11, <3>1, <3>3, <4>1, <4>2 DEF CardTypeOK
        <4>4. SetsInv' /\ CardShape'
          BY <3>1, <3>2, <4>2 DEF SetsInv, CardShape, Served
        <4>5. TruthInv'
          <5>1. AnswerOf(db).valid = db.shared /\ AnswerOf(db).exists = (db.creds # Null)
            BY AnswerFacts DEF CardTypeOK
          <5> QED
            BY <2>11, <3>1, <3>2, <4>1, <4>2, <5>1, Queries DEF TruthInv, CopiesInv, AppliedInv, FormInv, Served
        <4> QED
          BY <4>3, <4>4, <4>5
      <3> QED
        BY <2>11, <3>4, <3>5 DEF Arrive
    <2>12. ASSUME ArriveURL, role' = role PROVE CardIInv'
      <3>1. PICK url \in {Null, "null", "made"} : card' = [card EXCEPT !.url = url]
        BY <2>12 DEF ArriveURL, CardTypeOK, Cards
      <3>2. urlQuery' = "none" /\ UNCHANGED <<db, cache, query, queryError, saves, edited, stale>>
        BY <2>12 DEF ArriveURL
      <3>3. /\ card' \in Cards /\ card'.mounted = card.mounted /\ card'.form = card.form
            /\ card'.exists = card.exists /\ card'.valid = card.valid
        BY <3>1 DEF CardTypeOK, Cards
      <3>4. CardTypeOK'
        BY <2>12, <3>2, <3>3 DEF CardTypeOK
      <3> QED
        BY <2>12, <3>2, <3>3, <3>4 DEF SetsInv, CardShape, TruthInv, CopiesInv, AppliedInv, FormInv, Served
    <2>13. ASSUME NEW s \in saves, SaveAnswered(s), role' = role PROVE CardIInv'
      <3>1. /\ s.state = "served" /\ saves' = saves \ {s} /\ query' = Refetched
            /\ UNCHANGED <<db, cache, queryError, urlQuery, edited, stale>>
        BY <2>13 DEF SaveAnswered
      <3>2. IsFiniteSet(saves') /\ Cardinality(saves') <= MaxSaves
        BY <3>1, SavesCount DEF SetsInv, CardTypeOK
      <3>3. db.creds # Null
        BY <3>1 DEF CardShape, Served
      <3>4. Served' => Served
        BY <3>1 DEF Served
      <3>5. CASE card.mounted
        <4>1. PICK toast \in {"saved", "pending"} : card' = [card EXCEPT !.exists = TRUE, !.toast = toast]
          BY <2>13, <3>5 DEF SaveAnswered
        <4>2. /\ card' \in Cards /\ card'.mounted = card.mounted /\ card'.form = card.form
              /\ card'.valid = card.valid /\ card'.exists = TRUE /\ card'.exists # Null
          BY <4>1, CardAssumption DEF CardTypeOK, Cards
        <4>3. query' = Sent
          BY <3>1, <3>5 DEF Refetched
        <4>4. CardTypeOK'
          BY <2>13, <3>1, <3>2, <4>2, <4>3 DEF CardTypeOK
        <4>5. SetsInv' /\ CardShape'
          BY <3>1, <3>2, <3>4, <3>5, <4>2, <4>3 DEF SetsInv, CardShape
        <4>6. ASSUME FormInv PROVE FormInv'
          BY <3>1, <4>2, <4>6 DEF FormInv
        <4>7. ASSUME AppliedInv PROVE AppliedInv'
          BY <3>1, <3>3, <4>2, <4>7 DEF AppliedInv
        <4>8. ASSUME CopiesInv PROVE CopiesInv'
          BY <3>1, <3>5, <4>2, <4>3, <4>8, Queries DEF CopiesInv
        <4> QED
          BY <2>13, <3>1, <4>4, <4>5, <4>6, <4>7, <4>8 DEF TruthInv
      <3>6. CASE ~card.mounted
        <4>1. UNCHANGED <<card, query>>
          BY <2>13, <3>1, <3>6 DEF SaveAnswered, Refetched
        <4>2. CardTypeOK'
          BY <2>13, <3>1, <3>2, <4>1 DEF CardTypeOK
        <4> QED
          BY <2>13, <3>1, <3>2, <3>4, <3>6, <4>1, <4>2 DEF SetsInv, CardShape, TruthInv, CopiesInv
      <3> QED
        BY <3>5, <3>6
    <2>14. ASSUME NEW s \in saves, SaveFails(s), role' = role PROVE CardIInv'
      <3>1. /\ saves' = saves \ {s} /\ edited' = card.mounted 
            /\ stale' = (stale \/ s.state = "served")
            /\ UNCHANGED <<db, cache, query, queryError, urlQuery>>
        BY <2>14 DEF SaveFails
      <3>2. IsFiniteSet(saves') /\ Cardinality(saves') <= MaxSaves
        BY <3>1, SavesCount DEF SetsInv, CardTypeOK
      <3>3. /\ card' \in Cards /\ card'.mounted = card.mounted /\ card'.form = card.form
            /\ card'.exists = card.exists /\ card'.valid = card.valid
        BY <2>14 DEF SaveFails, CardTypeOK, Cards
      <3>4. CardTypeOK'
        BY <2>14, <3>1, <3>2, <3>3 DEF CardTypeOK, Cards
      <3>5. (Served' => Served) /\ (~stale' => (Served' <=> Served))
        BY <3>1 DEF Served
      <3>6. SetsInv' /\ CardShape'
        BY <3>1, <3>2, <3>3, <3>5 DEF SetsInv, CardShape
      <3>7. TruthInv'
        BY <2>14, <3>1, <3>3, <3>5 DEF TruthInv, CopiesInv, AppliedInv, FormInv
      <3> QED
        BY <3>4, <3>6, <3>7
    <2>15. CASE UNCHANGED cardVars
      BY <2>15 DEF cardVars, CardTypeOK, SetsInv, CardShape, TruthInv, CopiesInv, AppliedInv, FormInv, Served
    <2> QED
      BY <2>1, <2>2, <2>3, <2>4, <2>5, <2>6, <2>7, <2>8, <2>9, <2>10, <2>11, <2>12, <2>13, <2>14, <2>15, <2>16
         DEF CardNext, Step
  <1> QED
    BY <1>1, <1>2, PTL DEF CardSpec

\* The type invariant, for any values and number of saves.
THEOREM CardTypeCorrect == CardSpec => []CardTypeOK
  <1>1. CardIInv => CardTypeOK
    BY DEF CardIInv
  <1> QED
    BY <1>1, CardInductive, PTL

\* However answers arrive, or fail to, around edits, saves and page changes, what
\* GlobalIntegrationCard ends up showing is true of the row, and it shows nothing only if its
\* query failed.
THEOREM TruthCorrect == CardSpec => []CardTellsTruth
  <1>1. CardIInv => CardTellsTruth
    <2> SUFFICES ASSUME CardIInv, Settled, ~stale, role = "SUPERADMIN"
                 PROVE  \/ /\ card.exists = (db.creds # Null)
                           /\ card.valid = db.shared
                           /\ edited \/ queryError \/ card.form = <<db.creds>>
                        \/ queryError /\ card.exists = Null /\ card.valid = Null /\ card.form = Null
      BY DEF CardTellsTruth
    <2>1. card.mounted /\ query.at = "none" /\ saves = {} /\ ~Served
      BY Queries DEF Settled, Served
    <2>2. AnswerOf(db).creds = db.creds
      BY AnswerFacts DEF CardIInv, CardTypeOK
    <2>3. CASE cache = {}
      <3>1. queryError
        BY <2>1, <2>3 DEF CardIInv, TruthInv, CopiesInv
      <3> QED
        BY <2>1, <2>3, <3>1 DEF CardIInv, CardShape, TruthInv, AppliedInv
    <2>4. CASE cache # {}
      <3>1. card.exists = (db.creds # Null) /\ card.valid = db.shared
        BY <2>1, <2>4 DEF CardIInv, TruthInv, CopiesInv, AppliedInv
      <3>2. edited \/ queryError \/ card.form = <<db.creds>>
        BY <2>1, <2>2, <2>4 DEF CardIInv, CardShape, TruthInv, CopiesInv, FormInv
      <3> QED
        BY <3>1, <3>2
    <2> QED
      BY <2>3, <2>4
  <1> QED
    BY <1>1, CardInductive, PTL
=============================================================================
