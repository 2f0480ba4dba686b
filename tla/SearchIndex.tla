------------------------------ MODULE SearchIndex ------------------------------
(***************************************************************************)
(* What the indexers promise, whichever the provider: the search index     *)
(* holds no version that never was, never loses an item it has held, and   *)
(* an item it does not hold in its latest version is one that the jobs     *)
(* still ask for, unless a job has been cut off between two pages.         *)
(* ConfCloudIndex and SlackIndex implement it.                             *)
(***************************************************************************)
EXTENDS Naturals

CONSTANTS
    Items       \* documents or messages

VARIABLES
    latest,     \* the version of each item in the provider, 0 before it exists
    found,      \* the version that a search finds, 0 for none
    asked,      \* the items that the next job asks for, or a job under way will write
    cut         \* a job has been cut off between two pages

vars == <<latest, found, asked, cut>>

Existing == {i \in Items : latest[i] > 0}
Current(i) == found[i] = latest[i]

Kept == cut \/ \A i \in Existing : Current(i) \/ i \in asked

Init ==
    /\ latest \in [Items -> Nat]
    /\ found = [i \in Items |-> 0]
    /\ asked = Existing
    /\ cut = FALSE

\* An item is made or modified: it is asked for.
Change(i) ==
    /\ latest'[i] > latest[i]
    /\ \A k \in Items \ {i} : latest'[k] = latest[k]
    /\ asked' = asked \cup {i}
    /\ UNCHANGED <<found, cut>>

\* A job begins that asks for more than the next one would have.
Ask ==
    /\ asked \subseteq asked' /\ asked' \subseteq Existing
    /\ UNCHANGED <<latest, found, cut>>

\* Some items are written, maybe in an older version than they have by now, and some are
\* no longer asked for, because they are up to date or because a job is cut off.
Work(S) ==
    /\ \A i \in Items : found'[i] \in IF i \in S THEN 1..latest[i] ELSE {found[i]}
    /\ asked' \subseteq asked
    /\ cut => cut'
    /\ Kept'
    /\ UNCHANGED latest

Next == (\E i \in Items : Change(i)) \/ Ask \/ (\E S \in SUBSET Items : Work(S))

Spec == Init /\ [][Next]_vars
=============================================================================
