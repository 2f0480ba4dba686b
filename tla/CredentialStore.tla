--------------------------- MODULE CredentialStore ---------------------------
(***************************************************************************)
(* The credential tables of the database and the GraphQL operations that   *)
(* read and write them, run by several server processes that start and     *)
(* stop.  services/crypto.ts draws one random IV when a process loads it,  *)
(* so a restarted process encrypts with another IV than the rows it finds. *)
(* updateGlobalSharedUserCredential reads the row's IV, then writes: other *)
(* operations run in between.                                              *)
(***************************************************************************)
EXTENDS Credentials

CONSTANTS Providers, Users, Workers, Requests

VARIABLES
    globalRow,   \* Providers -> the GlobalApiCredential row, or None
    userRow,     \* Users \X Providers -> the UserApiCredential row, or None
    procIV,      \* Workers -> the IV_HEX of the running process, or None
    usedIV,      \* the IVs drawn so far: 16 random bytes never repeat
    update,      \* Requests -> the updateGlobalSharedUserCredential in progress, or None
    saved        \* ghost: what was last saved in each place

vars == <<globalRow, userRow, procIV, usedIV, update, saved>>

\* current is a ghost: no upsert has changed the row's IV since this update read it.
Pending == [worker : Workers, provider : Providers, val : Vals, iv : IVs, current : BOOLEAN]

ASSUME PendingAssumption == None \notin Pending

TypeOK ==
    /\ globalRow \in [Providers -> GlobalRow \cup {None}]
    /\ userRow \in [Users \X Providers -> UserRow \cup {None}]
    /\ procIV \in [Workers -> IVs \cup {None}]
    /\ usedIV \subseteq IVs
    /\ update \in [Requests -> Pending \cup {None}]
    /\ saved \in [global : [Providers -> Vals \cup {None}],
                  shared : [Providers -> Vals \cup {None}],
                  user : [Users \X Providers -> Vals \cup {None}]]

Init ==
    /\ globalRow = [p \in Providers |-> None]
    /\ userRow = [k \in Users \X Providers |-> None]
    /\ procIV = [w \in Workers |-> None]
    /\ usedIV = {}
    /\ update = [r \in Requests |-> None]
    /\ saved = [global |-> [p \in Providers |-> None],
                shared |-> [p \in Providers |-> None],
                user |-> [k \in Users \X Providers |-> None]]

-----------------------------------------------------------------------------
(* Processes *)

Start(w) ==
    /\ procIV[w] = None
    /\ \E iv \in IVs \ usedIV :
         /\ procIV' = [procIV EXCEPT ![w] = iv]
         /\ usedIV' = usedIV \cup {iv}
    /\ UNCHANGED <<globalRow, userRow, update, saved>>

\* An exit or a crash: what the process was doing is lost.
Stop(w) ==
    /\ procIV[w] # None
    /\ procIV' = [procIV EXCEPT ![w] = None]
    /\ update' = [r \in Requests |-> 
                    IF update[r] # None /\ update[r].worker = w THEN None ELSE update[r]]
    /\ UNCHANGED <<globalRow, userRow, usedIV, saved>>

-----------------------------------------------------------------------------
(* Operations *)

UpsertGlobalApiCredential(w, p, v) ==
    /\ procIV[w] # None
    /\ globalRow' = [globalRow EXCEPT ![p] = UpsertedGlobal(@, v, procIV[w])]
    /\ saved' = [saved EXCEPT !.global[p] = v]
    /\ update' = [r \in Requests |->
                    IF /\ update[r] # None 
                       /\ update[r].provider = p 
                       /\ globalRow[p].iv # procIV[w]
                    THEN [update[r] EXCEPT !.current = FALSE] ELSE update[r]]
    /\ UNCHANGED <<userRow, procIV, usedIV>>

\* The IV that updateGlobalSharedUserCredential encrypts with: the row's, not the process's.
IVForUpdate_OfProcess(w, p) == procIV[w]   \* mutant: the default argument of encrypt
IVForUpdate(w, p) == globalRow[p].iv

\* updateGlobalSharedUserCredential up to its first await; without a row it throws.
ReadIV(r, w, p, v) ==
    /\ procIV[w] # None
    /\ update[r] = None
    /\ globalRow[p] # None
    /\ update' = [update EXCEPT ![r] = 
                    [worker |-> w, provider |-> p, val |-> v, 
                     iv |-> IVForUpdate(w, p), current |-> TRUE]]
    /\ UNCHANGED <<globalRow, userRow, procIV, usedIV, saved>>

\* The rest of it: encrypt under the IV that was read, and update the row.
WriteShared(r) ==
    /\ update[r] # None
    /\ LET u == update[r]
       IN  /\ globalRow' = [globalRow EXCEPT ![u.provider] = UpdatedShared(@, u.val, u.iv)]
           /\ saved' = [saved EXCEPT !.shared[u.provider] = u.val]
    /\ update' = [update EXCEPT ![r] = None]
    /\ UNCHANGED <<userRow, procIV, usedIV>>

\* fetchUpdateNewAccessToken on a 403: it has read a row with shared credentials before.
MarkInvalid(w, p) ==
    /\ procIV[w] # None
    /\ globalRow[p] # None
    /\ globalRow[p].shared # None
    /\ globalRow' = [globalRow EXCEPT ![p].valid = FALSE]
    /\ UNCHANGED <<userRow, procIV, usedIV, update, saved>>

UpsertUserApiCredential(w, u, p, v) ==
    /\ procIV[w] # None
    /\ userRow' = [userRow EXCEPT ![<<u, p>>] = UpsertedUser(v, procIV[w])]
    /\ saved' = [saved EXCEPT !.user[<<u, p>>] = v]
    /\ UNCHANGED <<globalRow, procIV, usedIV, update>>

Next ==
    \/ \E w \in Workers : Start(w) \/ Stop(w)
    \/ \E w \in Workers, p \in Providers, v \in Vals : UpsertGlobalApiCredential(w, p, v)
    \/ \E r \in Requests, w \in Workers, p \in Providers, v \in Vals : ReadIV(r, w, p, v)
    \/ \E r \in Requests : WriteShared(r)
    \/ \E w \in Workers, p \in Providers : MarkInvalid(w, p)
    \/ \E w \in Workers, u \in Users, p \in Providers, v \in Vals : 
         UpsertUserApiCredential(w, u, p, v)

Spec == Init /\ [][Next]_vars

-----------------------------------------------------------------------------
(* Properties *)

SharedIntact(p) ==
    globalRow[p] # None => SharedOf(globalRow[p]) = saved.shared[p]

\* Client credentials and user credentials read back as they were last saved, whichever
\* processes, with whichever IVs, saved them: each upsert stores the IV it encrypted with.
SavedCredentialsReadBack ==
    /\ \A p \in Providers : globalRow[p] # None =>
         Decrypt(globalRow[p].iv, globalRow[p].creds) = saved.global[p]
    /\ \A k \in Users \X Providers : userRow[k] # None =>
         Decrypt(userRow[k].iv, userRow[k].creds) = saved.user[k]

\* As long as only one process ever encrypted anything, the shared credentials read back
\* too, whatever upserts fall between the read and the write of an update.
SharedReadsBackUnderOneIV ==
    (\A i, j \in usedIV : i = j) => \A p \in Providers : SharedIntact(p)

\* The shared credentials of a provider become unreadable in two ways only: an upsert by
\* a process whose IV is not the row's, and an update that finishes after such an upsert
\* came between its read and its write.
SharedLostOnlyByRekey ==
    [][\A p \in Providers : SharedIntact(p) /\ ~SharedIntact(p)' =>
         \/ globalRow'[p].iv # globalRow[p].iv
         \/ \E r \in Requests : /\ update[r] # None 
                                /\ update'[r] = None
                                /\ update[r].provider = p 
                                /\ ~update[r].current]_vars

\* A provider marked invalid is raised again only by an update that saves shared
\* credentials, never by an upsert of its client credentials.
InvalidUntilShared ==
    [][\A p \in Providers : 
         globalRow[p] # None /\ ~globalRow[p].valid /\ globalRow'[p].valid =>
           \E r \in Requests : update[r] # None /\ update'[r] = None /\ update[r].provider = p]_vars

\* The rows as SharedCredential sees them: the shared credentials under whichever IV.
SharedRow == INSTANCE SharedCredential WITH
    shared <- [p \in Providers |-> 
                 IF globalRow[p] = None \/ globalRow[p].shared = None THEN None 
                 ELSE globalRow[p].shared.val],
    valid <- [p \in Providers |-> globalRow[p] = None \/ globalRow[p].valid]

\* Upserts, restarts and updates that overtake each other keep what SharedCredential promises
\* of every row: no operation but a save, and none of another provider, touches the shared
\* credentials or raises the flag, and once there are some there always are.
KeepsRowPromise == SharedRow!Spec

(* The inductive invariant behind them *)

\* An update in progress has a row to write: rows are never deleted.
UpdatesHaveRows ==
    \A r \in Requests : update[r] # None => globalRow[update[r].provider] # None

\* Every IV in use was drawn by some process.
IVsDrawn ==
    /\ \A w \in Workers : procIV[w] # None => procIV[w] \in usedIV
    /\ \A r \in Requests : update[r] # None => update[r].iv \in usedIV
    /\ \A p \in Providers : globalRow[p] # None =>
         /\ globalRow[p].iv \in usedIV
         /\ globalRow[p].shared # None => globalRow[p].shared.iv \in usedIV

\* An update that no rekeying has overtaken holds the row's IV.
CurrentUpdatesMatch ==
    \A r \in Requests : update[r] # None /\ update[r].current =>
        update[r].iv = globalRow[update[r].provider].iv

\* Under whichever IV, the row holds the shared credentials last saved.
SharedIsSaved ==
    \A p \in Providers :
        /\ globalRow[p] = None => saved.shared[p] = None
        /\ globalRow[p] # None =>
             /\ globalRow[p].shared = None => saved.shared[p] = None
             /\ globalRow[p].shared # None => globalRow[p].shared.val = saved.shared[p]

\* Nothing is lost by an upsert, a rekeying or a race but readability: the inductive
\* invariant of all the operations.
IInv ==
    /\ TypeOK
    /\ SavedCredentialsReadBack
    /\ UpdatesHaveRows
    /\ IVsDrawn
    /\ CurrentUpdatesMatch
    /\ SharedIsSaved

-----------------------------------------------------------------------------
(* What a test says, and the code does not keep *)

\* services/__tests__/crypto.test.ts has what is encrypted decrypt to what it was:
\* whatever shared credentials were saved, reading the row gives them back.
SharedReadsBack == \A p \in Providers : SharedIntact(p)
=============================================================================
