------------------------------- MODULE Startup -------------------------------
(***************************************************************************)
(* What a server process does before it listens (src/index.ts): it starts  *)
(* the Slack app, sees to the two Elasticsearch indices (initIndices), and *)
(* schedules the batch jobs anew (scheduleBatchJobs).  Elasticsearch and   *)
(* Redis are shared by all processes, and several may start at once.  The  *)
(* job workers run from the moment a process is loaded, and the listener   *)
(* of the Slack app before the indices are seen to.                        *)
(*                                                                         *)
(* Elasticsearch is external: a document written to an index that does not *)
(* exist, or has no mapping yet, makes it map the fields dynamically.      *)
(***************************************************************************)
EXTENDS Naturals, FiniteSets

CONSTANTS
    Servers,
    Versions,       \* the repeat options of a deployment, which are the key of its jobs
    NQueues,        \* the length of repeatableQueues
    None

ASSUME StartupAssumption == 
    /\ NQueues \in Nat \ {0}
    /\ None \notin Versions

VARIABLES
    index,         \* per index: "none", "empty" (no mapping yet), "explicit" or "dynamic"
    repeatable,    \* Redis: per queue, the keys of its repeatable jobs
    server,        \* per server, where its main() is
    latest,        \* ghost: the version of the server that has last started to listen
    startsOverlap, \* ghost: a server has started while another was starting
    failed,        \* ghost: a process has died while starting, or Redis has refused a job
    unseen,        \* ghost: the indices to be created that a start has left out, and no other asked for
    halfway        \* ghost: the indices that stand empty since a start has created and not mapped them

startupVars == <<index, repeatable, server, latest, startsOverlap, failed, unseen, halfway>>

startGhosts == <<startsOverlap, failed, unseen, halfway>>

SlackMessages == 1
ConfCloudContent == 2
Indices == {SlackMessages, ConfCloudContent}
Queues == 1..NQueues

Down == [pc |-> "down", version |-> None, at |-> 0, keys |-> {}, toAdd |-> {}]

MainPCs == {"down", "slack", "get", "create", "mapping", "list", "remove", "add", "listening"}

StartupTypeOK ==
    /\ index \in [Indices -> {"none", "empty", "explicit", "dynamic"}]
    /\ repeatable \in [Queues -> SUBSET Versions]
    /\ server \in [Servers -> [pc : MainPCs, version : Versions \cup {None}, at : Indices \cup Queues \cup {0}, 
                               keys : SUBSET Versions, toAdd : SUBSET Queues]]
    /\ latest \in Versions \cup {None}
    /\ startsOverlap \in BOOLEAN /\ failed \in BOOLEAN
    /\ unseen \subseteq Indices /\ halfway \subseteq Indices

StartupInit ==
    /\ index = [i \in Indices |-> "none"]
    /\ repeatable = [q \in Queues |-> {}]
    /\ server = [s \in Servers |-> Down]
    /\ latest = None
    /\ startsOverlap = FALSE /\ failed = FALSE
    /\ unseen = {} /\ halfway = {}

MainAt(s, pc) == server[s].pc = pc
MainGoto(s, pc) == server' = [server EXCEPT ![s].pc = pc]
Settled == \A s \in Servers : MainAt(s, "down") \/ MainAt(s, "listening")

-----------------------------------------------------------------------------
(* main() *)

Boot(s, v) ==
    /\ MainAt(s, "down")
    /\ server' = [server EXCEPT ![s] = [Down EXCEPT !.pc = "slack", !.version = v]]
    /\ startsOverlap' = (startsOverlap \/ ~Settled)
    /\ UNCHANGED <<index, repeatable, latest, failed, unseen, halfway>>

\* getOrCreateMainApp is awaited; its errors are logged.
SlackReady(s) ==
    /\ MainAt(s, "slack")
    /\ server' = [server EXCEPT ![s].pc = "get", ![s].at = SlackMessages]
    /\ UNCHANGED <<index, repeatable, latest, startGhosts>>

-----------------------------------------------------------------------------
(* initIndices *)

\* What a start leaves out: the indices it still has before it, unless they exist.
Ahead(s) == 
    {i \in Indices : server[s].pc \in {"slack", "get", "create", "mapping"} /\ server[s].at <= i}

Abandoned(s) ==
    halfway \cup {i \in Indices : MainAt(s, "mapping") /\ server[s].at = i /\ index[i] = "empty"}

LeftOut(lost) == unseen \cup {i \in lost : index[i] = "none"}

\* The end of initIndices; an error in the catch block ends it too, and main() goes on.
LeaveIndices(s) == server' = [server EXCEPT ![s].pc = "list", ![s].at = 1]

NextIndex(s) ==
    IF server[s].at = SlackMessages 
    THEN server' = [server EXCEPT ![s].pc = "get", ![s].at = ConfCloudContent]
    ELSE LeaveIndices(s)

\* The index is there, or the answer is a 404.
GetIndex(s) ==
    /\ MainAt(s, "get")
    /\ IF index[server[s].at] = "none" THEN MainGoto(s, "create") ELSE NextIndex(s)
    /\ unseen' = unseen \ {server[s].at}
    /\ UNCHANGED <<index, repeatable, latest, startsOverlap, failed, halfway>>

\* Any other error is logged, and the index passed over.
GetFails(s) ==
    /\ MainAt(s, "get")
    /\ NextIndex(s)
    /\ unseen' = LeftOut({server[s].at})
    /\ UNCHANGED <<index, repeatable, latest, startsOverlap, failed, halfway>>

\* Another process may have created it since, and will see to what this one now leaves out;
\* a document may have, and nobody will.
CreateIndex(s) ==
    /\ MainAt(s, "create")
    /\ LET i == server[s].at
       IN  IF index[i] = "none" 
           THEN /\ index' = [index EXCEPT ![i] = "empty"] /\ MainGoto(s, "mapping")
                /\ unseen' = unseen \ {i}
           ELSE /\ UNCHANGED index /\ LeaveIndices(s)
                /\ unseen' = IF index[i] = "dynamic" THEN LeftOut(Ahead(s)) ELSE unseen
    /\ UNCHANGED <<repeatable, latest, startsOverlap, failed, halfway>>

\* Elasticsearch answers with another error, or not at all, with the index created or not.
CreateFails(s) ==
    /\ MainAt(s, "create")
    /\ LeaveIndices(s)
    /\ LET i == server[s].at
       IN  \/ UNCHANGED <<index, halfway>> /\ unseen' = LeftOut(Ahead(s))
           \/ /\ index[i] = "none"
              /\ index' = [index EXCEPT ![i] = "empty"]
              /\ halfway' = halfway \cup {i}
              /\ unseen' = LeftOut(Ahead(s)) \ {i}
    /\ UNCHANGED <<repeatable, latest, startsOverlap, failed>>

\* Mutant of PutMapping: the mapping is left to Elasticsearch.
PutMapping_Never(s) ==
    /\ MainAt(s, "mapping")
    /\ NextIndex(s)
    /\ UNCHANGED <<index, repeatable, latest, startGhosts>>

\* Fields that are mapped dynamically cannot be mapped otherwise any more.
PutMapping(s) ==
    /\ MainAt(s, "mapping")
    /\ LET i == server[s].at
       IN  IF index[i] = "dynamic" 
           THEN UNCHANGED index /\ LeaveIndices(s) /\ unseen' = LeftOut(Ahead(s))
           ELSE index' = [index EXCEPT ![i] = "explicit"] /\ NextIndex(s) /\ UNCHANGED unseen
    /\ UNCHANGED <<repeatable, latest, startsOverlap, failed, halfway>>

\* Elasticsearch answers with an error, or not at all, with the mapping put or not.
PutMappingFails(s) ==
    /\ MainAt(s, "mapping")
    /\ LeaveIndices(s)
    /\ unseen' = LeftOut(Ahead(s))
    /\ LET i == server[s].at
       IN  \/ index[i] = "empty" /\ index' = [index EXCEPT ![i] = "explicit"] /\ UNCHANGED halfway
           \/ UNCHANGED index /\ halfway' = Abandoned(s)
    /\ UNCHANGED <<repeatable, latest, startsOverlap, failed>>

\* A listener or a job of a running process indexes a document.
WriteDoc(i) ==
    /\ \E s \in Servers : ~MainAt(s, "down")
    /\ index[i] \in {"none", "empty"}
    /\ index' = [index EXCEPT ![i] = "dynamic"]
    /\ unseen' = unseen \ {i} /\ halfway' = halfway \ {i}
    /\ UNCHANGED <<repeatable, server, latest, startsOverlap, failed>>

-----------------------------------------------------------------------------
(* scheduleBatchJobs *)

\* Mutant of Listed: only the jobs with the options of this deployment.
Listed_Own(s) == repeatable[server[s].at] \cap {server[s].version}

\* The keys of getRepeatableJobs.
Listed(s) == repeatable[server[s].at]

List(s) ==
    /\ MainAt(s, "list")
    /\ server' = [server EXCEPT ![s].pc = "remove", ![s].keys = Listed(s)]
    /\ UNCHANGED <<index, repeatable, latest, startGhosts>>

RemoveByKey(s) ==
    /\ MainAt(s, "remove")
    /\ \E key \in server[s].keys :
         /\ repeatable' = [repeatable EXCEPT ![server[s].at] = @ \ {key}]
         /\ server' = [server EXCEPT ![s].keys = @ \ {key}]
    /\ UNCHANGED <<index, latest, startGhosts>>

MoreQueues(s) == server[s].at < NQueues

NextQueue(s) ==
    /\ MainAt(s, "remove")
    /\ server[s].keys = {}
    /\ server' = IF MoreQueues(s) 
                 THEN [server EXCEPT ![s].pc = "list", ![s].at = @ + 1]
                 ELSE [server EXCEPT ![s].pc = "add", ![s].at = 0, ![s].toAdd = Queues]
    /\ UNCHANGED <<index, repeatable, latest, startGhosts>>

\* The same options have the same key: adding them again changes nothing.
Added(s, q) == repeatable[q] \cup {server[s].version}

\* All queues at once; each answers on its own.
Add(s, q) ==
    /\ MainAt(s, "add")
    /\ q \in server[s].toAdd
    /\ repeatable' = [repeatable EXCEPT ![q] = Added(s, q)]
    /\ server' = [server EXCEPT ![s].toAdd = @ \ {q}]
    /\ UNCHANGED <<index, latest, startGhosts>>

\* allSettled: a queue that refuses its job is passed over.
AddRefused(s, q) ==
    /\ MainAt(s, "add")
    /\ q \in server[s].toAdd
    /\ server' = [server EXCEPT ![s].toAdd = @ \ {q}]
    /\ failed' = TRUE
    /\ UNCHANGED <<index, repeatable, latest, startsOverlap, unseen, halfway>>

\* Mutant of Listen: the jobs that are being added are not waited for.
Listen_NoAwait(s) ==
    /\ MainAt(s, "add")
    /\ MainGoto(s, "listening")
    /\ latest' = server[s].version
    /\ UNCHANGED <<index, repeatable, startGhosts>>

Listen(s) ==
    /\ MainAt(s, "add")
    /\ server[s].toAdd = {}
    /\ MainGoto(s, "listening")
    /\ latest' = server[s].version
    /\ UNCHANGED <<index, repeatable, startGhosts>>

-----------------------------------------------------------------------------

\* A listening server is stopped, or a process dies anywhere.
Stop(s) ==
    /\ ~MainAt(s, "down")
    /\ server' = [server EXCEPT ![s] = Down]
    /\ failed' = (failed \/ ~MainAt(s, "listening"))
    /\ unseen' = LeftOut(Ahead(s))
    /\ halfway' = Abandoned(s)
    /\ UNCHANGED <<index, repeatable, latest, startsOverlap>>

Main(s) ==
    \/ SlackReady(s) \/ GetIndex(s) \/ CreateIndex(s) \/ PutMapping(s)
    \/ List(s) \/ RemoveByKey(s) \/ NextQueue(s) \/ (\E q \in Queues : Add(s, q)) \/ Listen(s)

ElasticsearchFails(s) == GetFails(s) \/ CreateFails(s) \/ PutMappingFails(s)

StartupNext ==
    \/ \E s \in Servers : Main(s) \/ Stop(s) \/ ElasticsearchFails(s)
    \/ \E s \in Servers, v \in Versions : Boot(s, v)
    \/ \E s \in Servers, q \in Queues : AddRefused(s, q)
    \/ \E i \in Indices : WriteDoc(i)

\* The process manager starts what is down, and main() runs on.
StartupSpec == 
    /\ StartupInit /\ [][StartupNext]_startupVars 
    /\ \A s \in Servers : WF_startupVars(Main(s)) /\ WF_startupVars(\E v \in Versions : Boot(s, v))

-----------------------------------------------------------------------------
(* Properties *)

\* Servers that start at the same time get in each other's way: one finds the index another
\* has just created, and gives up the rest of initIndices.  An index gets the mapping of
\* initIndices all the same, whoever dies and whatever Elasticsearch refuses, if what was left
\* out is seen to by another start, and no document comes first.  What no start makes up for
\* is an index that was created and not mapped: the later ones find it and leave it alone.
MappedInTheEnd ==
    \A i \in Indices :
        [](index[i] # "dynamic" /\ i \notin halfway) /\ <>[](i \notin unseen) => <>(index[i] = "explicit")

\* Servers that remove and add the jobs at the same time never end with a queue that
\* nothing is scheduled for.
EveryQueueScheduled == 
    ~failed /\ Settled /\ latest # None => \A q \in Queues : repeatable[q] # {}

\* Servers that start one after the other: the options of the last are in force, alone.
OptionsTakeEffect ==
    ~failed /\ ~startsOverlap /\ Settled /\ latest # None => \A q \in Queues : repeatable[q] = {latest}

\* scheduleBatchJobs removes the jobs scheduled before, in case parameters changed: once
\* every server is up or down, no queue is left with the jobs of two deployments.  Crashes
\* and refused jobs do not harm it; servers that start at the same time do, since each may
\* list the jobs before the other adds its own.
OneSchedule == ~startsOverlap /\ Settled => \A q \in Queues : Cardinality(repeatable[q]) <= 1
=============================================================================
