---------------------------- MODULE Startup_proofs ----------------------------
(***************************************************************************)
(* What a server process brings up: the batch jobs that the processes      *)
(* together leave scheduled (Startup), and the app that getOrCreateMainApp *)
(* leaves in the variable of one of them (SlackApp), for any number of     *)
(* processes, deployments, queues, calls and apps.                         *)
(***************************************************************************)
EXTENDS Startup, SlackApp, FiniteSetTheorems, TLAPS

-----------------------------------------------------------------------------
(* Startup *)

Starting(s) == ~MainAt(s, "down") /\ ~MainAt(s, "listening")

\* The loops are where they can be: a server that sees to an index has one, one that removes
\* jobs has a queue, and every process that is up was deployed.
LoopInv ==
    \A s \in Servers :
        /\ server[s].pc \in {"get", "create", "mapping"} => server[s].at \in Indices
        /\ server[s].pc \in {"list", "remove"} => server[s].at \in Queues
        /\ ~MainAt(s, "down") => server[s].version \in Versions

\* A starting server that will still add its job to a queue, and one that has.
WillAdd(s, q) == Starting(s) /\ (MainAt(s, "add") => q \in server[s].toAdd)
HasAdded(s, q) == MainAt(s, "add") /\ q \notin server[s].toAdd

\* Whoever removes the job of another adds one of its own later: once a job was added to a
\* queue, one is there or is on its way.
ScheduledInv ==
    ~failed => \A q \in Queues :
        latest # None \/ (\E s \in Servers : HasAdded(s, q)) =>
            repeatable[q] # {} \/ \E s \in Servers : WillAdd(s, q)

\* The queues from q on are those that a starting server has not emptied yet.
Emptied(s, q) ==
    \/ server[s].pc \in {"list", "remove"} /\ q < server[s].at
    \/ MainAt(s, "add") /\ q \in server[s].toAdd

\* Servers that start one after the other: the one that starts has emptied the queues behind
\* it, knows what is in the queue it is at, and adds its job to empty queues; so there are
\* never the jobs of two deployments.
SerialInv ==
    ~startsOverlap =>
        /\ \A s, t \in Servers : Starting(s) /\ Starting(t) => s = t
        /\ \A s \in Servers, q \in Queues : 
             /\ Emptied(s, q) => repeatable[q] = {}
             /\ MainAt(s, "remove") /\ q = server[s].at => repeatable[q] = server[s].keys
             /\ HasAdded(s, q) => repeatable[q] \subseteq {server[s].version}
        /\ \A q \in Queues : \E v \in Versions \cup {None} : repeatable[q] \subseteq {v}

\* And as long as none of them fails, its own jobs are there in the end.
OptionsInv ==
    ~failed /\ ~startsOverlap =>
        /\ \A s \in Servers, q \in Queues : HasAdded(s, q) => repeatable[q] = {server[s].version}
        /\ Settled /\ latest # None => \A q \in Queues : repeatable[q] = {latest}

StartupIInv == 
    StartupTypeOK /\ LoopInv /\ ScheduledInv /\ SerialInv /\ OptionsInv

Early == {"slack", "get", "create", "mapping"}
ServerType == [pc : MainPCs, version : Versions \cup {None}, at : Indices \cup Queues \cup {0}, 
               keys : SUBSET Versions, toAdd : SUBSET Queues]

\* A server may be sent to the first index, or to the first queue.
LEMMA AtIndex ==
    ASSUME StartupTypeOK, NEW s \in Servers
    PROVE  /\ server' = [server EXCEPT ![s].pc = "get", ![s].at = SlackMessages] => server'[s] \in ServerType
           /\ server' = [server EXCEPT ![s].pc = "list", ![s].at = SlackMessages] => server'[s] \in ServerType
  <1>1. "get" \in MainPCs /\ "list" \in MainPCs
    BY DEF MainPCs
  <1>2. SlackMessages \in Indices \cup Queues \cup {0}
    BY DEF Indices
  <1>3. server \in [Servers -> ServerType]
    BY DEF StartupTypeOK, ServerType
  <1>4. ASSUME server' = [server EXCEPT ![s].pc = "get", ![s].at = SlackMessages] PROVE server'[s] \in ServerType
    BY <1>1, <1>2, <1>3, <1>4 DEF ServerType
  <1>5. ASSUME server' = [server EXCEPT ![s].pc = "list", ![s].at = SlackMessages] PROVE server'[s] \in ServerType
    BY <1>1, <1>2, <1>3, <1>5 DEF ServerType
  <1> QED
    BY <1>4, <1>5

\* The ghosts of initIndices hold indices.
LEMMA LostSets ==
    ASSUME StartupTypeOK
    PROVE  /\ \A s \in Servers : Ahead(s) \subseteq Indices /\ Abandoned(s) \subseteq Indices
           /\ \A lost : LeftOut(lost) \in SUBSET (Indices \cup lost)
           /\ \A s \in Servers : LeftOut(Ahead(s)) \subseteq Indices
BY DEF StartupTypeOK, Ahead, Abandoned, LeftOut

\* The part of main() before scheduleBatchJobs leaves what the invariant says of the queues.
LEMMA EarlyStep ==
    ASSUME StartupIInv, NEW s \in Servers, NEW r \in ServerType,
           server[s].pc \in Early, server' = [server EXCEPT ![s] = r],
           \/ r.pc \in Early \ {"slack"} /\ r.at \in Indices 
           \/ r.pc = "list" /\ r.at = 1,
           r.version = server[s].version,
           index' \in [Indices -> {"none", "empty", "explicit", "dynamic"}],
           unseen' \subseteq Indices, halfway' \subseteq Indices,
           UNCHANGED <<repeatable, latest, startsOverlap, failed>>
    PROVE  StartupIInv'
  <1> USE DEF StartupIInv, MainAt, startGhosts, Early
  <1>1. StartupTypeOK'
    BY DEF StartupTypeOK, ServerType
  <1>2. LoopInv'
    <2>1. r.pc = "list" => r.at \in Queues
      BY StartupAssumption DEF Queues
    <2> QED
      BY <2>1 DEF StartupTypeOK, LoopInv
  <1>3. \A t \in Servers : /\ Starting(t)' <=> Starting(t)
                           /\ \A q \in Queues : (WillAdd(t, q)' <=> WillAdd(t, q)) /\ (HasAdded(t, q)' <=> HasAdded(t, q))
    BY DEF StartupTypeOK, Starting, WillAdd, HasAdded
  <1>4. ScheduledInv'
    BY <1>3 DEF ScheduledInv
  <1>5. SerialInv'
    <2>1. \A t \in Servers, q \in Queues : Emptied(t, q)' <=> Emptied(t, q)
      BY DEF StartupTypeOK, Emptied, Queues
    <2> QED
      BY <1>3, <2>1 DEF StartupTypeOK, SerialInv
  <1>6. OptionsInv'
    BY <1>3 DEF StartupTypeOK, OptionsInv, Settled, Starting
  <1> QED
    BY <1>1, <1>2, <1>4, <1>5, <1>6

\* Every step keeps the invariant.
LEMMA StartupInductive == StartupSpec => []StartupIInv
  <1>1. StartupInit => StartupIInv
    <2> SUFFICES ASSUME StartupInit PROVE StartupIInv
      OBVIOUS
    <2> USE StartupAssumption DEF StartupInit, MainAt, Down
    <2>1. StartupTypeOK
      BY DEF StartupTypeOK, MainPCs
    <2>2. \A s \in Servers : server[s].pc = "down"
      OBVIOUS
    <2>3. LoopInv /\ ScheduledInv
      BY <2>2 DEF LoopInv, ScheduledInv, HasAdded
    <2>4. SerialInv /\ OptionsInv
      BY <2>2 DEF SerialInv, OptionsInv, Starting, Emptied, HasAdded
    <2> QED
      BY <2>1, <2>3, <2>4 DEF StartupIInv
  <1>2. StartupIInv /\ [StartupNext]_startupVars => StartupIInv'
    <2> SUFFICES ASSUME StartupIInv, [StartupNext]_startupVars PROVE StartupIInv'
      OBVIOUS
    <2> USE StartupAssumption DEF StartupIInv, StartupTypeOK, MainAt, MainGoto, startGhosts
    <2>1. ASSUME NEW s \in Servers, NEW v \in Versions, Boot(s, v) PROVE StartupIInv'
      <3>1. StartupTypeOK'
        BY <2>1 DEF Boot, Down, MainPCs
      <3>2. LoopInv'
        BY <2>1 DEF Boot, Down, LoopInv
      <3>3. ScheduledInv'
        BY <2>1 DEF Boot, Down, ScheduledInv, HasAdded, WillAdd, Starting
      <3>4. SerialInv'
        BY <2>1 DEF Boot, Down, SerialInv, HasAdded, Emptied, Starting, Settled, LoopInv
      <3>5. OptionsInv'
        BY <2>1 DEF Boot, Down, OptionsInv, SerialInv, HasAdded, Starting, Settled
      <3> QED
        BY <3>1, <3>2, <3>3, <3>4, <3>5
    <2>2. ASSUME NEW s \in Servers, SlackReady(s) PROVE StartupIInv'
      <3>1. /\ index' \in [Indices -> {"none", "empty", "explicit", "dynamic"}]
            /\ unseen' \subseteq Indices /\ halfway' \subseteq Indices
            /\ UNCHANGED <<repeatable, latest, startsOverlap, failed>>
            /\ server[s].pc \in Early
        BY <2>2 DEF SlackReady, Early
      <3> DEFINE r == server'[s]
      <3>2. server' = [server EXCEPT ![s] = r] /\ r.version = server[s].version
        BY <2>2 DEF SlackReady
      <3>3. \/ r.pc \in Early \ {"slack"} /\ r.at \in Indices 
            \/ r.pc = "list" /\ r.at = 1
        BY <2>2 DEF SlackReady, Early, Indices, SlackMessages, ConfCloudContent
      <3>4. r \in ServerType
        <4>1. server' = [server EXCEPT ![s].pc = "get", ![s].at = SlackMessages]
          BY <2>2 DEF SlackReady
        <4> QED
          BY <4>1, AtIndex
      <3> QED
        BY <3>1, <3>2, <3>3, <3>4, EarlyStep
    <2>3. ASSUME NEW s \in Servers, GetIndex(s) PROVE StartupIInv'
      <3>1. /\ index' \in [Indices -> {"none", "empty", "explicit", "dynamic"}]
            /\ unseen' \subseteq Indices /\ halfway' \subseteq Indices
            /\ UNCHANGED <<repeatable, latest, startsOverlap, failed>>
            /\ server[s].pc \in Early
        BY <2>3, LostSets DEF GetIndex, Early
      <3> DEFINE r == server'[s]
      <3>2. server' = [server EXCEPT ![s] = r] /\ r.version = server[s].version
        BY <2>3 DEF GetIndex, NextIndex, LeaveIndices
      <3>3. server[s].at \in Indices
        BY <3>1, <2>3 DEF LoopInv, GetIndex, Early
      <3>4. \/ r.pc \in Early \ {"slack"} /\ r.at \in Indices 
            \/ r.pc = "list" /\ r.at = 1
        BY <2>3, <3>3 DEF GetIndex, NextIndex, LeaveIndices, Early, Indices, SlackMessages, ConfCloudContent
      <3>5. r \in ServerType
        BY <2>3, <3>3 DEF GetIndex, NextIndex, LeaveIndices, ServerType, MainPCs, Indices, SlackMessages, ConfCloudContent
      <3> QED
        BY <3>1, <3>2, <3>4, <3>5, EarlyStep
    <2>4. ASSUME NEW s \in Servers, CreateIndex(s) PROVE StartupIInv'
      <3>1. /\ index' \in [Indices -> {"none", "empty", "explicit", "dynamic"}]
            /\ unseen' \subseteq Indices /\ halfway' \subseteq Indices
            /\ UNCHANGED <<repeatable, latest, startsOverlap, failed>>
            /\ server[s].pc \in Early
        BY <2>4, LostSets DEF CreateIndex, Early
      <3> DEFINE r == server'[s]
      <3>2. server' = [server EXCEPT ![s] = r] /\ r.version = server[s].version
        BY <2>4 DEF CreateIndex, LeaveIndices
      <3>3. server[s].at \in Indices
        BY <3>1, <2>4 DEF LoopInv, CreateIndex, Early
      <3>4. \/ r.pc \in Early \ {"slack"} /\ r.at \in Indices 
            \/ r.pc = "list" /\ r.at = 1
        BY <2>4, <3>3 DEF CreateIndex, LeaveIndices, Early, Indices, SlackMessages, ConfCloudContent
      <3>5. r \in ServerType
        BY <2>4, <3>3 DEF CreateIndex, LeaveIndices, ServerType, MainPCs, Indices, SlackMessages, ConfCloudContent
      <3> QED
        BY <3>1, <3>2, <3>4, <3>5, EarlyStep
    <2>5. ASSUME NEW s \in Servers, PutMapping(s) PROVE StartupIInv'
      <3>1. /\ index' \in [Indices -> {"none", "empty", "explicit", "dynamic"}]
            /\ unseen' \subseteq Indices /\ halfway' \subseteq Indices
            /\ UNCHANGED <<repeatable, latest, startsOverlap, failed>>
            /\ server[s].pc \in Early
        BY <2>5, LostSets DEF PutMapping, Early
      <3> DEFINE r == server'[s]
      <3>2. server' = [server EXCEPT ![s] = r] /\ r.version = server[s].version
        BY <2>5 DEF PutMapping, NextIndex, LeaveIndices
      <3>3. server[s].at \in Indices
        BY <3>1, <2>5 DEF LoopInv, PutMapping, Early
      <3>4. \/ r.pc \in Early \ {"slack"} /\ r.at \in Indices 
            \/ r.pc = "list" /\ r.at = 1
        BY <2>5, <3>3 DEF PutMapping, NextIndex, LeaveIndices, Early, Indices, SlackMessages, ConfCloudContent
      <3>5. r \in ServerType
        BY <2>5, <3>3 DEF PutMapping, NextIndex, LeaveIndices, ServerType, MainPCs, Indices, SlackMessages, ConfCloudContent
      <3> QED
        BY <3>1, <3>2, <3>4, <3>5, EarlyStep
    <2>6. ASSUME NEW i \in Indices, WriteDoc(i) PROVE StartupIInv'
      <3>1. StartupTypeOK'
        BY <2>6 DEF WriteDoc, MainPCs
      <3>2. LoopInv'
        BY <2>6 DEF WriteDoc, LoopInv
      <3>3. ScheduledInv'
        BY <2>6 DEF WriteDoc, ScheduledInv, HasAdded, WillAdd, Starting
      <3>4. SerialInv'
        BY <2>6 DEF WriteDoc, SerialInv, HasAdded, Emptied, Starting, Settled, LoopInv
      <3>5. OptionsInv'
        BY <2>6 DEF WriteDoc, OptionsInv, SerialInv, HasAdded, Starting, Settled
      <3> QED
        BY <3>1, <3>2, <3>3, <3>4, <3>5
    <2>7. ASSUME NEW s \in Servers, List(s) PROVE StartupIInv'
      <3>1. StartupTypeOK'
        <4>1. Listed(s) \in SUBSET Versions
          BY <2>7 DEF List, Listed, LoopInv
        <4>2. server' \in [Servers -> [pc : MainPCs, version : Versions \cup {None}, at : Indices \cup Queues \cup {0}, 
                                   keys : SUBSET Versions, toAdd : SUBSET Queues]]
          <5>1. server' = [server EXCEPT ![s].pc = "remove", ![s].keys = Listed(s)] /\ "remove" \in MainPCs
            BY <2>7 DEF List, MainPCs
          <5> HIDE DEF Listed
          <5> QED
            BY <4>1, <5>1
        <4> QED
          BY <2>7, <4>2 DEF List
      <3>2. LoopInv'
        BY <2>7 DEF List, Listed, LoopInv
      <3>3. ScheduledInv'
        BY <2>7 DEF List, Listed, ScheduledInv, HasAdded, WillAdd, Starting
      <3>4. SerialInv'
        BY <2>7 DEF List, Listed, SerialInv, HasAdded, Emptied, Starting, Settled, LoopInv
      <3>5. OptionsInv'
        BY <2>7 DEF List, Listed, OptionsInv, SerialInv, HasAdded, Starting, Settled
      <3> QED
        BY <3>1, <3>2, <3>3, <3>4, <3>5
    <2>8. ASSUME NEW s \in Servers, RemoveByKey(s) PROVE StartupIInv'
      <3>1. StartupTypeOK'
        <4>1. PICK key \in server[s].keys :
                /\ repeatable' = [repeatable EXCEPT ![server[s].at] = @ \ {key}]
                /\ server' = [server EXCEPT ![s].keys = @ \ {key}]
          BY <2>8 DEF RemoveByKey
        <4>2. server' \in [Servers -> [pc : MainPCs, version : Versions \cup {None}, at : Indices \cup Queues \cup {0}, 
                                   keys : SUBSET Versions, toAdd : SUBSET Queues]]
          <5>1. server[s].keys \ {key} \in SUBSET Versions
            OBVIOUS
          <5> QED
            BY <4>1, <5>1
        <4>3. repeatable' \in [Queues -> SUBSET Versions]
          <5>1. server[s].at \in Queues
            BY <2>8 DEF RemoveByKey, LoopInv
          <5>2. repeatable[server[s].at] \ {key} \in SUBSET Versions
            BY <5>1
          <5> QED
            BY <4>1, <5>2
        <4> QED
          BY <2>8, <4>2, <4>3 DEF RemoveByKey
      <3>2. LoopInv'
        BY <2>8 DEF RemoveByKey, LoopInv
      <3>3. ScheduledInv'
        BY <2>8 DEF RemoveByKey, ScheduledInv, HasAdded, WillAdd, Starting
      <3>4. SerialInv'
        <4>1. PICK key \in server[s].keys :
                /\ repeatable' = [repeatable EXCEPT ![server[s].at] = @ \ {key}]
                /\ server' = [server EXCEPT ![s].keys = @ \ {key}]
          BY <2>8 DEF RemoveByKey
        <4>2. MainAt(s, "remove") /\ startsOverlap' = startsOverlap /\ server[s].at \in Queues
          BY <2>8 DEF RemoveByKey, LoopInv
        <4>3. \A t \in Servers : /\ Starting(t)' <=> Starting(t)
                                 /\ t # s => server'[t] = server[t]
          BY <4>1 DEF Starting
        <4>4. \A q \in Queues : repeatable'[q] \subseteq repeatable[q]
          BY <4>1, <4>2
        <4>5. repeatable'[server[s].at] = repeatable[server[s].at] \ {key}
          BY <4>1, <4>2
        <4>6. /\ server'[s].keys = server[s].keys \ {key} 
              /\ \A t \in Servers : /\ server'[t].pc = server[t].pc /\ server'[t].at = server[t].at 
                                    /\ server'[t].toAdd = server[t].toAdd
                                    /\ server'[t].version = server[t].version
          BY <4>1
        <4>7. ASSUME ~startsOverlap, NEW t \in Servers, NEW q \in Queues, 
                     MainAt(t, "remove"), q = server[t].at
              PROVE  repeatable'[q] = server'[t].keys
          <5>1. t = s
            BY <4>2, <4>7 DEF SerialInv, Starting
          <5> QED
            BY <4>2, <4>5, <4>6, <4>7, <5>1 DEF SerialInv
        <4>8. ASSUME ~startsOverlap, NEW t \in Servers, NEW q \in Queues
              PROVE  /\ Emptied(t, q)' => repeatable'[q] = {}
                     /\ HasAdded(t, q)' => repeatable'[q] \subseteq {server'[t].version}
          BY <4>4, <4>6, <4>8 DEF SerialInv, Emptied, HasAdded
        <4>9. ASSUME ~startsOverlap, NEW q \in Queues
              PROVE  \E v \in Versions \cup {None} : repeatable'[q] \subseteq {v}
          BY <4>4, <4>9 DEF SerialInv
        <4> QED
          BY <4>2, <4>3, <4>6, <4>7, <4>8, <4>9 DEF SerialInv
      <3>5. OptionsInv'
        BY <2>8 DEF RemoveByKey, OptionsInv, SerialInv, HasAdded, Starting, Settled
      <3> QED
        BY <3>1, <3>2, <3>3, <3>4, <3>5
    <2>9. ASSUME NEW s \in Servers, NextQueue(s) PROVE StartupIInv'
      <3>1. StartupTypeOK'
        <4>1. server[s].at \in Queues /\ (MoreQueues(s) => server[s].at + 1 \in Queues)
          BY <2>9 DEF NextQueue, MoreQueues, LoopInv, Queues
        <4>2. server' \in [Servers -> [pc : MainPCs, version : Versions \cup {None}, at : Indices \cup Queues \cup {0}, 
                                   keys : SUBSET Versions, toAdd : SUBSET Queues]]
          <5>1. "list" \in MainPCs /\ "add" \in MainPCs
            BY DEF MainPCs
          <5>2. CASE MoreQueues(s)
            <6>1. server' = [server EXCEPT ![s].pc = "list", ![s].at = server[s].at + 1]
              BY <2>9, <5>2 DEF NextQueue
            <6>2. server[s].at + 1 \in Indices \cup Queues \cup {0}
              BY <4>1, <5>2
            <6>3. server'[s] \in ServerType
              BY <5>1, <6>1, <6>2 DEF ServerType
            <6>4. server' = [server EXCEPT ![s] = server'[s]]
              BY <6>1
            <6> QED
              BY <6>3, <6>4 DEF ServerType
          <5>3. CASE ~MoreQueues(s)
            <6>1. server' = [server EXCEPT ![s].pc = "add", ![s].at = 0, ![s].toAdd = Queues]
              BY <2>9, <5>3 DEF NextQueue
            <6>2. 0 \in Indices \cup Queues \cup {0}
              OBVIOUS
            <6>3. server'[s] \in ServerType
              BY <5>1, <6>1, <6>2 DEF ServerType
            <6>4. server' = [server EXCEPT ![s] = server'[s]]
              BY <6>1
            <6> QED
              BY <6>3, <6>4 DEF ServerType
          <5> QED
            BY <5>2, <5>3
        <4> QED
          BY <2>9, <4>2 DEF NextQueue
      <3>2. LoopInv'
        BY <2>9 DEF NextQueue, MoreQueues, LoopInv, Queues
      <3>3. ScheduledInv'
        BY <2>9 DEF NextQueue, MoreQueues, ScheduledInv, HasAdded, WillAdd, Starting, Queues
      <3>4. SerialInv'
        BY <2>9 DEF NextQueue, MoreQueues, SerialInv, HasAdded, Emptied, Starting, Settled, LoopInv, Queues
      <3>5. OptionsInv'
        BY <2>9 DEF NextQueue, MoreQueues, OptionsInv, SerialInv, HasAdded, Starting, Settled, Queues
      <3> QED
        BY <3>1, <3>2, <3>3, <3>4, <3>5
    <2>10. ASSUME NEW s \in Servers, NEW q \in Queues, Add(s, q) PROVE StartupIInv'
      <3>1. StartupTypeOK'
        <4>1. Added(s, q) \in SUBSET Versions
          BY <2>10 DEF Add, Added, LoopInv
        <4>2. repeatable' \in [Queues -> SUBSET Versions]
          BY <2>10, <4>1 DEF Add
        <4>3. server[s].toAdd \ {q} \in SUBSET Queues
          OBVIOUS
        <4>4. server' \in [Servers -> [pc : MainPCs, version : Versions \cup {None}, at : Indices \cup Queues \cup {0}, 
                                   keys : SUBSET Versions, toAdd : SUBSET Queues]]
          BY <2>10, <4>3 DEF Add
        <4> QED
          BY <2>10, <4>2, <4>4 DEF Add
      <3>2. LoopInv'
        BY <2>10 DEF Add, Added, LoopInv
      <3>3. ScheduledInv'
        <4>1. repeatable'[q] # {}
          BY <2>10 DEF Add, Added
        <4>2. ASSUME NEW p \in Queues, p # q
              PROVE  /\ repeatable'[p] = repeatable[p]
                     /\ \A t \in Servers : (WillAdd(t, p)' <=> WillAdd(t, p)) /\ (HasAdded(t, p)' <=> HasAdded(t, p))
          BY <2>10, <4>2 DEF Add, WillAdd, HasAdded, Starting
        <4>3. UNCHANGED <<latest, failed>>
          BY <2>10 DEF Add
        <4> QED
          BY <4>1, <4>2, <4>3 DEF ScheduledInv
      <3>4. SerialInv'
        BY <2>10 DEF Add, Added, SerialInv, HasAdded, Emptied, Starting, Settled, LoopInv
      <3>5. OptionsInv'
        <4>1. ASSUME ~failed, ~startsOverlap, NEW t \in Servers, NEW p \in Queues, HasAdded(t, p)'
              PROVE  repeatable'[p] = {server'[t].version}
          <5>1. t = s /\ server'[t].version = server[s].version
            BY <2>10, <4>1 DEF Add, SerialInv, Starting, HasAdded
          <5>2. CASE p = q
            <6>1. repeatable[q] = {}
              BY <2>10, <4>1 DEF Add, SerialInv, Emptied
            <6> QED
              BY <2>10, <5>1, <5>2, <6>1 DEF Add, Added
          <5>3. CASE p # q
            <6>1. HasAdded(s, p) /\ repeatable'[p] = repeatable[p]
              BY <2>10, <4>1, <5>1, <5>3 DEF Add, HasAdded
            <6> QED
              BY <4>1, <5>1, <6>1 DEF OptionsInv
          <5> QED
            BY <5>2, <5>3
        <4>2. ~Settled' /\ UNCHANGED <<failed, startsOverlap>>
          BY <2>10 DEF Add, Settled
        <4> QED
          BY <4>1, <4>2 DEF OptionsInv
      <3> QED
        BY <3>1, <3>2, <3>3, <3>4, <3>5
    <2>11. ASSUME NEW s \in Servers, NEW q \in Queues, AddRefused(s, q) PROVE StartupIInv'
      <3>1. StartupTypeOK'
        BY <2>11 DEF AddRefused, MainPCs
      <3>2. LoopInv'
        BY <2>11 DEF AddRefused, LoopInv
      <3>3. ScheduledInv'
        BY <2>11 DEF AddRefused, ScheduledInv, HasAdded, WillAdd, Starting
      <3>4. SerialInv'
        BY <2>11 DEF AddRefused, SerialInv, HasAdded, Emptied, Starting, Settled, LoopInv
      <3>5. OptionsInv'
        BY <2>11 DEF AddRefused, OptionsInv, SerialInv, HasAdded, Starting, Settled
      <3> QED
        BY <3>1, <3>2, <3>3, <3>4, <3>5
    <2>12. ASSUME NEW s \in Servers, Listen(s) PROVE StartupIInv'
      <3>1. StartupTypeOK'
        BY <2>12 DEF Listen, MainPCs
      <3>2. LoopInv'
        BY <2>12 DEF Listen, LoopInv
      <3>3. ScheduledInv'
        BY <2>12 DEF Listen, ScheduledInv, HasAdded, WillAdd, Starting
      <3>4. SerialInv'
        BY <2>12 DEF Listen, SerialInv, HasAdded, Emptied, Starting, Settled, LoopInv
      <3>5. OptionsInv'
        BY <2>12 DEF Listen, OptionsInv, SerialInv, HasAdded, Starting, Settled
      <3> QED
        BY <3>1, <3>2, <3>3, <3>4, <3>5
    <2>13. ASSUME NEW s \in Servers, Stop(s) PROVE StartupIInv'
      <3>1. StartupTypeOK'
        BY <2>13, LostSets DEF Stop, Down, MainPCs
      <3>2. LoopInv'
        BY <2>13 DEF Stop, Down, LoopInv
      <3>3. ScheduledInv'
        BY <2>13 DEF Stop, Down, ScheduledInv, HasAdded, WillAdd, Starting
      <3>4. SerialInv'
        BY <2>13 DEF Stop, Down, SerialInv, HasAdded, Emptied, Starting, Settled, LoopInv
      <3>5. OptionsInv'
        BY <2>13 DEF Stop, Down, OptionsInv, SerialInv, HasAdded, Starting, Settled
      <3> QED
        BY <3>1, <3>2, <3>3, <3>4, <3>5
    <2>15. ASSUME NEW s \in Servers, GetFails(s) PROVE StartupIInv'
      <3>1. server[s].pc \in Early /\ server[s].at \in Indices
        BY <2>15 DEF GetFails, LoopInv, Early
      <3>2. /\ index' \in [Indices -> {"none", "empty", "explicit", "dynamic"}]
            /\ unseen' \subseteq Indices /\ halfway' \subseteq Indices
            /\ UNCHANGED <<repeatable, latest, startsOverlap, failed>>
        BY <2>15, <3>1, LostSets DEF GetFails
      <3> DEFINE r == server'[s]
      <3>3. server' = [server EXCEPT ![s] = r] /\ r.version = server[s].version
        BY <2>15 DEF GetFails, NextIndex, LeaveIndices
      <3>4. \/ r.pc \in Early \ {"slack"} /\ r.at \in Indices 
            \/ r.pc = "list" /\ r.at = 1
        BY <2>15, <3>1 DEF GetFails, NextIndex, LeaveIndices, Early, Indices, SlackMessages, ConfCloudContent
      <3>5. r \in ServerType
        BY <2>15, <3>1 DEF GetFails, NextIndex, LeaveIndices, ServerType, MainPCs, Indices, SlackMessages, ConfCloudContent
      <3> QED
        BY <3>1, <3>2, <3>3, <3>4, <3>5, EarlyStep
    <2>16. ASSUME NEW s \in Servers, CreateFails(s) PROVE StartupIInv'
      <3>1. server[s].pc \in Early /\ server[s].at \in Indices
        BY <2>16 DEF CreateFails, LoopInv, Early
      <3>2. /\ index' \in [Indices -> {"none", "empty", "explicit", "dynamic"}]
            /\ unseen' \subseteq Indices /\ halfway' \subseteq Indices
            /\ UNCHANGED <<repeatable, latest, startsOverlap, failed>>
        BY <2>16, <3>1, LostSets DEF CreateFails
      <3> DEFINE r == server'[s]
      <3>0. server' = [server EXCEPT ![s].pc = "list", ![s].at = 1]
        BY <2>16 DEF CreateFails, LeaveIndices
      <3>3. server' = [server EXCEPT ![s] = r] /\ r.version = server[s].version
        BY <3>0
      <3>4. \/ r.pc \in Early \ {"slack"} /\ r.at \in Indices 
            \/ r.pc = "list" /\ r.at = 1
        BY <3>0
      <3>5. r \in ServerType
        BY <3>0, AtIndex DEF SlackMessages
      <3> QED
        BY <3>1, <3>2, <3>3, <3>4, <3>5, EarlyStep
    <2>17. ASSUME NEW s \in Servers, PutMappingFails(s) PROVE StartupIInv'
      <3>1. server[s].pc \in Early /\ server[s].at \in Indices
        BY <2>17 DEF PutMappingFails, LoopInv, Early
      <3>2. /\ index' \in [Indices -> {"none", "empty", "explicit", "dynamic"}]
            /\ unseen' \subseteq Indices /\ halfway' \subseteq Indices
            /\ UNCHANGED <<repeatable, latest, startsOverlap, failed>>
        BY <2>17, <3>1, LostSets DEF PutMappingFails
      <3> DEFINE r == server'[s]
      <3>0. server' = [server EXCEPT ![s].pc = "list", ![s].at = 1]
        BY <2>17 DEF PutMappingFails, LeaveIndices
      <3>3. server' = [server EXCEPT ![s] = r] /\ r.version = server[s].version
        BY <3>0
      <3>4. \/ r.pc \in Early \ {"slack"} /\ r.at \in Indices 
            \/ r.pc = "list" /\ r.at = 1
        BY <3>0
      <3>5. r \in ServerType
        BY <3>0, AtIndex DEF SlackMessages
      <3> QED
        BY <3>1, <3>2, <3>3, <3>4, <3>5, EarlyStep
    <2>14. CASE UNCHANGED startupVars
      BY <2>14 DEF startupVars, LoopInv, ScheduledInv, SerialInv, OptionsInv, HasAdded, WillAdd, 
                  Emptied, Starting, Settled
    <2> QED
      BY <2>1, <2>2, <2>3, <2>4, <2>5, <2>6, <2>7, <2>8, <2>9, <2>10, <2>11, <2>12, <2>13, <2>14, 
         <2>15, <2>16, <2>17 DEF StartupNext, Main, ElasticsearchFails
  <1> QED
    BY <1>1, <1>2, PTL DEF StartupSpec

\* The type invariant, for any number of servers, deployments and queues.
THEOREM StartupTypeCorrect == StartupSpec => []StartupTypeOK
  <1>1. StartupIInv => StartupTypeOK
    BY DEF StartupIInv
  <1> QED
    BY <1>1, StartupInductive, PTL

\* However the servers that schedule the batch jobs overlap, unless one fails they leave no
\* queue without a job.
THEOREM ScheduledCorrect == StartupSpec => []EveryQueueScheduled
  <1>1. StartupIInv => EveryQueueScheduled
    BY DEF StartupIInv, ScheduledInv, EveryQueueScheduled, Settled, WillAdd, Starting
  <1> QED
    BY <1>1, StartupInductive, PTL

\* The options of the server that has last started are in force, alone.
THEOREM OptionsCorrect == StartupSpec => []OptionsTakeEffect
  <1>1. StartupIInv => OptionsTakeEffect
    BY DEF StartupIInv, OptionsInv, OptionsTakeEffect
  <1> QED
    BY <1>1, StartupInductive, PTL

\* Servers that start one after the other never leave the jobs of two deployments, whatever
\* fails.
THEOREM OneScheduleCorrect == StartupSpec => []OneSchedule
  <1>1. StartupIInv => OneSchedule
    <2> SUFFICES ASSUME StartupIInv, ~startsOverlap, NEW q \in Queues
                 PROVE  Cardinality(repeatable[q]) <= 1
      BY DEF OneSchedule
    <2>1. PICK v \in Versions \cup {None} : repeatable[q] \subseteq {v}
      BY DEF StartupIInv, SerialInv
    <2>2. IsFiniteSet({v}) /\ Cardinality({v}) = 1
      BY FS_Singleton
    <2> QED
      BY <2>1, <2>2, FS_Subset
  <1> QED
    BY <1>1, StartupInductive, PTL

-----------------------------------------------------------------------------
(* SlackApp *)

Active(c) == ~At(c, "idle")

\* What a call knows of its previous app: it exists, and once the call has assigned the
\* variable, the variable holds another one, since nothing ever puts an app back.
PrevInv ==
    /\ app # Null => status[app] # "none"
    /\ \A c \in Calls :
         /\ call[c].prev # Null => status[call[c].prev] # "none"
         /\ call[c].pc \in {"attached", "started", "stop"} => call[c].prev # app \/ app = Null

\* Until a call fails, an app that does not run yet has a call that will start it.
StartInv ==
    ~rejected /\ app # Null => status[app] = "running" \/ \E c \in Calls : At(c, "attached")

\* Calls that do not overlap: one at a time, which finds the variable as it has left it, and
\* has the one other app that runs for its previous one.
AloneInv ==
    ~overlap =>
        /\ \A c, d \in Calls : Active(c) /\ Active(d) => c = d
        /\ \A c \in Calls :
             /\ call[c].pc \in {"read", "assign"} => call[c].prev = app
             /\ call[c].pc \in {"attached", "started"} => app # Null
        /\ ~rejected => \A n \in Instances : status[n] = "running" =>
                          n = app \/ \E c \in Calls : Active(c) /\ call[c].prev = n

AppIInv == TypeOK /\ AppNeverStopped /\ PrevInv /\ StartInv /\ AloneInv

\* Every step keeps the invariant.
LEMMA AppInductive == Spec => []AppIInv
  <1>1. Init => AppIInv
    <2> SUFFICES ASSUME Init PROVE AppIInv
      OBVIOUS
    <2>1. \A c \in Calls : call[c].pc = "idle" /\ call[c].prev = Null
      BY DEF Init, Idle
    <2>2. TypeOK
      BY DEF Init, TypeOK, PCs, Idle
    <2>3. AppNeverStopped /\ PrevInv /\ StartInv
      BY <2>1 DEF Init, AppNeverStopped, PrevInv, StartInv
    <2>4. AloneInv
      BY <2>1 DEF Init, AloneInv, Active, At
    <2> QED
      BY <2>2, <2>3, <2>4 DEF AppIInv
  <1>2. AppIInv /\ [Next]_vars => AppIInv'
    <2> SUFFICES ASSUME AppIInv, [Next]_vars PROVE AppIInv'
      OBVIOUS
    <2> USE SlackAppAssumption DEF AppIInv, TypeOK, PCs, AppNeverStopped, At, Goto, Return, Idle, ghosts
    <2>1. ASSUME NEW c \in Calls, NEW force \in BOOLEAN, Enter(c, force), 
                 hasCreds' \in BOOLEAN, UNCHANGED <<app, status, handled>>
          PROVE  AppIInv'
      <3>1. TypeOK'
        BY <2>1 DEF Enter
      <3>2. AppNeverStopped' /\ PrevInv' /\ StartInv'
        BY <2>1 DEF Enter, PrevInv, StartInv
      <3>3. AloneInv'
        BY <2>1 DEF Enter, AloneInv, Active
      <3> QED
        BY <3>1, <3>2, <3>3
    <2>2. ASSUME NEW c \in Calls, ReadCreds(c) PROVE AppIInv'
      <3>1. TypeOK'
        BY <2>2 DEF ReadCreds
      <3>2. AppNeverStopped' /\ PrevInv' /\ StartInv'
        BY <2>2 DEF ReadCreds, PrevInv, StartInv
      <3>3. AloneInv'
        BY <2>2 DEF ReadCreds, AloneInv, Active
      <3> QED
        BY <3>1, <3>2, <3>3
    <2>3. ASSUME NEW c \in Calls, Assign(c), NEW n \in Instances, status[n] = "none",
                 app' = n, status' = [status EXCEPT ![n] = "new"], Goto(c, "attached")
          PROVE  AppIInv'
      <3>1. TypeOK'
        BY <2>3 DEF Assign
      <3>2. AppNeverStopped' /\ PrevInv' /\ StartInv'
        BY <2>3 DEF Assign, PrevInv, StartInv
      <3>3. AloneInv'
        BY <2>3 DEF Assign, AloneInv, Active
      <3> QED
        BY <3>1, <3>2, <3>3
    <2>4. ASSUME NEW c \in Calls, Assign(c), app' = Null, UNCHANGED status, Goto(c, "stop")
          PROVE  AppIInv'
      <3>1. TypeOK'
        BY <2>4 DEF Assign
      <3>2. AppNeverStopped' /\ PrevInv' /\ StartInv'
        BY <2>4 DEF Assign, PrevInv, StartInv
      <3>3. AloneInv'
        BY <2>4 DEF Assign, AloneInv, Active
      <3> QED
        BY <3>1, <3>2, <3>3
    <2>5. ASSUME NEW c \in Calls, StartApp(c) PROVE AppIInv'
      <3>1. TypeOK'
        BY <2>5 DEF StartApp
      <3>2. AppNeverStopped' /\ PrevInv' /\ StartInv'
        BY <2>5 DEF StartApp, PrevInv, StartInv
      <3>3. AloneInv'
        BY <2>5 DEF StartApp, AloneInv, Active
      <3> QED
        BY <3>1, <3>2, <3>3
    <2>6. ASSUME NEW c \in Calls, JoinChannels(c) PROVE AppIInv'
      <3>1. TypeOK'
        BY <2>6 DEF JoinChannels
      <3>2. AppNeverStopped' /\ PrevInv' /\ StartInv'
        BY <2>6 DEF JoinChannels, PrevInv, StartInv
      <3>3. AloneInv'
        BY <2>6 DEF JoinChannels, AloneInv, Active
      <3> QED
        BY <3>1, <3>2, <3>3
    <2>7. ASSUME NEW c \in Calls, StopPrevious(c) PROVE AppIInv'
      <3>1. TypeOK'
        BY <2>7 DEF StopPrevious
      <3>2. app # Null => app \notin Previous(c)
        BY <2>7 DEF StopPrevious, PrevInv, Previous
      <3>3. AppNeverStopped' /\ PrevInv' /\ StartInv'
        BY <2>7, <3>2 DEF StopPrevious, PrevInv, StartInv
      <3>4. AloneInv'
        BY <2>7 DEF StopPrevious, AloneInv, Active, Previous
      <3> QED
        BY <3>1, <3>3, <3>4
    <2>8. ASSUME NEW c \in Calls, NullApp(c) PROVE AppIInv'
      <3>1. TypeOK'
        BY <2>8 DEF NullApp
      <3>2. AppNeverStopped' /\ PrevInv' /\ StartInv'
        BY <2>8 DEF NullApp, PrevInv, StartInv
      <3>3. AloneInv'
        BY <2>8 DEF NullApp, AloneInv, Active
      <3> QED
        BY <3>1, <3>2, <3>3
    <2>9. ASSUME NEW c \in Calls, Reject(c) PROVE AppIInv'
      <3>1. TypeOK'
        BY <2>9 DEF Reject
      <3>2. AppNeverStopped' /\ PrevInv' /\ StartInv'
        BY <2>9 DEF Reject, PrevInv, StartInv
      <3>3. AloneInv'
        BY <2>9 DEF Reject, AloneInv, Active
      <3> QED
        BY <3>1, <3>2, <3>3
    <2>10. CASE UNCHANGED vars
      BY <2>10 DEF vars, PrevInv, StartInv, AloneInv, Active
    <2>11. ASSUME NEW c \in Calls, Assign(c) PROVE AppIInv'
      BY <2>3, <2>4, <2>11 DEF Assign
    <2>12. ASSUME NEW c \in Calls, 
                  StartupOrSearch(c) \/ UpsertSlackCredentials(c) \/ \E n \in Instances : OnError(c, n)
           PROVE  AppIInv'
      <3>1. PICK force \in BOOLEAN : Enter(c, force)
        BY <2>12 DEF StartupOrSearch, UpsertSlackCredentials, OnError
      <3>2. hasCreds' \in BOOLEAN /\ UNCHANGED <<app, status, handled>>
        BY <2>12 DEF StartupOrSearch, UpsertSlackCredentials, OnError
      <3> QED
        BY <2>1, <3>1, <3>2
    <2> QED
      BY <2>2, <2>5, <2>6, <2>7, <2>8, <2>9, <2>10, <2>11, <2>12 DEF Next, Body
  <1> QED
    BY <1>1, <1>2, PTL DEF Spec

\* The type invariant, for any number of calls and apps.
THEOREM AppTypeCorrect == Spec => []TypeOK
  <1>1. AppIInv => TypeOK
    BY DEF AppIInv
  <1> QED
    BY <1>1, AppInductive, PTL

\* However calls overlap and fail, no call stops the app that is in the variable.
THEOREM StoppedCorrect == Spec => []AppNeverStopped
  <1>1. AppIInv => AppNeverStopped
    BY DEF AppIInv
  <1> QED
    BY <1>1, AppInductive, PTL

\* Until a call fails, the app in the variable runs whenever no call is in progress.
THEOREM RunningCorrect == Spec => []AppRuns
  <1>1. AppIInv => AppRuns
    BY DEF AppIInv, StartInv, AppRuns, Quiet, At
  <1> QED
    BY <1>1, AppInductive, PTL

\* Calls that neither overlap nor fail keep one app running at most.
THEOREM OneCorrect == Spec => []OneAppRuns
  <1>1. AppIInv => OneAppRuns
    BY DEF AppIInv, AloneInv, OneAppRuns, Quiet, Active
  <1> QED
    BY <1>1, AppInductive, PTL
=============================================================================
