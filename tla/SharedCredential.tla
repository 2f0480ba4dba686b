--------------------------- MODULE SharedCredential ---------------------------
(***************************************************************************)
(* What the rows of GlobalApiCredential promise of the credentials that a  *)
(* workspace shares, and what the jobs rely on that use them: they are     *)
(* replaced and never cleared, the flag is up after they were saved, and   *)
(* it is lowered only where there are some.  CredentialStore (the rows)    *)
(* and ConfCloudTokens (the jobs and the admin) both implement it.         *)
(***************************************************************************)
CONSTANTS Providers, Vals, None

VARIABLES
    shared,     \* Providers -> the shared credentials last saved, or None
    valid       \* Providers -> validSharedUserCredentials, TRUE before there is a row

vars == <<shared, valid>>

Init ==
    /\ shared \in [Providers -> Vals \cup {None}]
    /\ valid = [p \in Providers |-> TRUE]

Save(p, v) ==
    /\ shared' = [shared EXCEPT ![p] = v]
    /\ valid' = [valid EXCEPT ![p] = TRUE]

MarkInvalid(p) ==
    /\ shared[p] # None
    /\ valid' = [valid EXCEPT ![p] = FALSE]
    /\ UNCHANGED shared

Next == \E p \in Providers : MarkInvalid(p) \/ \E v \in Vals : Save(p, v)

Spec == Init /\ [][Next]_vars
=============================================================================
