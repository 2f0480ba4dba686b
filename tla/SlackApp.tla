------------------------------- MODULE SlackApp -------------------------------
(***************************************************************************)
(* The main Slack app of a server process: getOrCreateMainApp of           *)
(* integrations/slack.ts and its callers.  The function keeps the app in a *)
(* module variable, which it reads again after every await; the startup,   *)
(* the search resolver, an upsert of the Slack credentials and the error   *)
(* handler of an app call it, the last two without waiting for it.         *)
(***************************************************************************)
EXTENDS Naturals

CONSTANTS
    Calls,        \* the calls of getOrCreateMainApp that may be in progress together
    Instances,    \* bound: the Bolt apps that may be constructed
    Null

ASSUME SlackAppAssumption == Null \notin Instances

VARIABLES
    app,          \* the module variable
    hasCreds,     \* whether the database has a row of Slack credentials
    status,       \* Instances -> "none", or what became of a constructed app
    handled,      \* the apps with the error handler
    call,         \* Calls -> where each call is, with its locals
    overlap,      \* ghost: a call has begun while another was in progress
    rejected      \* ghost: a call has failed

vars == <<app, hasCreds, status, handled, call, overlap, rejected>>

ghosts == <<overlap, rejected>>

Idle == [pc |-> "idle", prev |-> Null, creds |-> FALSE]

PCs == {"idle", "read", "assign", "attached", "started", "stop"}

TypeOK ==
    /\ app \in Instances \cup {Null}
    /\ hasCreds \in BOOLEAN
    /\ status \in [Instances -> {"none", "new", "running", "stopped"}]
    /\ handled \subseteq Instances
    /\ call \in [Calls -> [pc : PCs, prev : Instances \cup {Null}, creds : BOOLEAN]]
    /\ overlap \in BOOLEAN /\ rejected \in BOOLEAN

Init ==
    /\ app = Null
    /\ hasCreds \in BOOLEAN
    /\ status = [n \in Instances |-> "none"]
    /\ handled = {}
    /\ call = [c \in Calls |-> Idle]
    /\ overlap = FALSE /\ rejected = FALSE

At(c, pc) == call[c].pc = pc
Goto(c, pc) == call' = [call EXCEPT ![c].pc = pc]
Return(c) == call' = [call EXCEPT ![c] = Idle]

-----------------------------------------------------------------------------
(* The calls *)

\* The first lines of getOrCreateMainApp: an app that exists is returned unless forced.
Enter(c, forceCreate) ==
    /\ At(c, "idle")
    /\ app = Null \/ forceCreate
    /\ call' = [call EXCEPT ![c] = [Idle EXCEPT !.pc = "read", !.prev = app]]
    /\ overlap' = (overlap \/ \E d \in Calls \ {c} : ~At(d, "idle"))
    /\ UNCHANGED rejected

StartupOrSearch(c) ==
    /\ Enter(c, FALSE)
    /\ UNCHANGED <<app, hasCreds, status, handled>>

UpsertSlackCredentials(c) ==
    /\ hasCreds' = TRUE
    /\ Enter(c, TRUE)
    /\ UNCHANGED <<app, status, handled>>

OnError(c, n) ==
    /\ n \in handled /\ status[n] = "running"
    /\ Enter(c, TRUE)
    /\ UNCHANGED <<app, hasCreds, status, handled>>

-----------------------------------------------------------------------------
(* The body of getOrCreateMainApp *)

\* createApp reads the credentials.
ReadCreds(c) ==
    /\ At(c, "read")
    /\ call' = [call EXCEPT ![c].pc = "assign", ![c].creds = hasCreds]
    /\ UNCHANGED <<app, hasCreds, status, handled, ghosts>>

\* app = await createApp(prisma), and the listeners are attached to it; or app = null.
Assign(c) ==
    /\ At(c, "assign")
    /\ IF call[c].creds 
       THEN \E n \in Instances :
              /\ status[n] = "none"
              /\ app' = n
              /\ status' = [status EXCEPT ![n] = "new"]
              /\ Goto(c, "attached")
       ELSE /\ app' = Null
            /\ UNCHANGED status
            /\ Goto(c, "stop")
    /\ UNCHANGED <<hasCreds, handled, ghosts>>

\* Mutant of StartApp: it starts only the first app of the process.
StartApp_First(c) ==
    /\ At(c, "attached")
    /\ app # Null
    /\ handled' = handled \cup {app}
    /\ status' = IF call[c].prev = Null THEN [status EXCEPT ![app] = "running"] ELSE status
    /\ Goto(c, "started")
    /\ UNCHANGED <<app, hasCreds, ghosts>>

\* app.error(...) and app.start(), on whatever app is by now.
StartApp(c) ==
    /\ At(c, "attached")
    /\ app # Null
    /\ handled' = handled \cup {app}
    /\ status' = [status EXCEPT ![app] = "running"]
    /\ Goto(c, "started")
    /\ UNCHANGED <<app, hasCreds, ghosts>>

JoinChannels(c) ==
    /\ At(c, "started")
    /\ app # Null
    /\ Goto(c, "stop")
    /\ UNCHANGED <<app, hasCreds, status, handled, ghosts>>

\* Mutants of Previous: the module variable; nothing.
Previous_Variable(c) == {app} \ {Null}
Previous_Forgotten(c) == {}

\* What the last line stops: the app there was when the call began.
Previous(c) == {call[c].prev} \ {Null}

\* await prev?.stop()
StopPrevious(c) ==
    /\ At(c, "stop")
    /\ status' = [n \in Instances |-> IF n \in Previous(c) THEN "stopped" ELSE status[n]]
    /\ Return(c)
    /\ UNCHANGED <<app, hasCreds, handled, ghosts>>

\* Another call has set app to null meanwhile: a TypeError.
NullApp(c) ==
    /\ At(c, "attached") \/ At(c, "started")
    /\ app = Null
    /\ Return(c)
    /\ UNCHANGED <<app, hasCreds, status, handled, ghosts>>

\* The read, start, join or stop rejects.
Reject(c) ==
    /\ ~At(c, "idle") /\ ~At(c, "attached")
    /\ Return(c)
    /\ rejected' = TRUE
    /\ UNCHANGED <<app, hasCreds, status, handled, overlap>>

Body(c) == 
    ReadCreds(c) \/ Assign(c) \/ StartApp(c) \/ JoinChannels(c) \/ StopPrevious(c) \/ NullApp(c)

Next ==
    \E c \in Calls :
        \/ StartupOrSearch(c) \/ UpsertSlackCredentials(c)
        \/ \E n \in Instances : OnError(c, n)
        \/ Body(c) \/ Reject(c)

Spec == Init /\ [][Next]_vars

-----------------------------------------------------------------------------
(* Properties *)

Quiet == \A c \in Calls : At(c, "idle")

\* However calls overlap and fail, the app in the variable is not one that was stopped: a
\* call stops the app it found, never one that took its place.
AppNeverStopped == app # Null => status[app] # "stopped"

\* However calls overlap, as long as none fails, the app in the variable is running when no
\* call is in progress: some call has started whatever was assigned last.
AppRuns == ~rejected /\ Quiet /\ app # Null => status[app] = "running"

\* getOrCreateMainApp stops the previous instance, says its comment: when no call is in
\* progress, no app runs besides the one in the variable.  Calls keep to it as long as they
\* do not overlap and do not fail; of two that overlap, both take the same app for the
\* previous one, and the app of the first is never stopped.
OneAppRuns ==
    ~overlap /\ ~rejected /\ Quiet => \A n \in Instances : status[n] = "running" => n = app
=============================================================================
