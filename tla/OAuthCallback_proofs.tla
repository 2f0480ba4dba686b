-------------------------- MODULE OAuthCallback_proofs --------------------------
(***************************************************************************)
(* What a user may conclude from being told that the account is connected, *)
(* and from the card on the integrations page, for any number of callbacks,*)
(* users and client credentials.                                           *)
(***************************************************************************)
EXTENDS IntegrationsPage, TLAPS

\* A consent is that of a user.
Known(r) == (r.pc \in {"user", "query", "check", "exchange", "response", "save"} \/ r.result = "success")
              => r.user # None

\* A call's own part of the invariant: only what the provider has confirmed is saved.
Proper(r) ==
    /\ r \in CallState
    /\ r.pc = "answered" <=> r.result # None
    /\ Known(r)
    /\ r.pc = "save" => r.token

Saved(d, o) == 
    call[d].token /\ Owner(d) = o /\ call[d].result \in {"success", "notSaved", "crashed"}

\* What is in the database has been saved by a callback for that owner that has ended, and
\* no callback ends twice.
StoredProper ==
    /\ \A c \in Callbacks : call[c].result = "success" => stored[Owner(c)] # None
    /\ \A o \in Owners, d \in Callbacks : stored[o] = d => Saved(d, o)

IInv == TypeOK /\ (\A c \in Callbacks : Proper(call[c])) /\ StoredProper

-----------------------------------------------------------------------------
(* Updates of a call *)

Moved(r, pc) == [r EXCEPT !.pc = pc]
Consented(r, u) == [r EXCEPT !.pc = "user", !.user = u]
Queried(r, a) == [r EXCEPT !.pc = "check", !.creds = a]
Granted(r, t) == [r EXCEPT !.pc = "response", !.token = t]

\* A call that has not ended goes on, each way, as it should.
LEMMA ProperUpdates ==
    ASSUME NEW r, Proper(r), r.pc # "answered"
    PROVE  /\ \A pc \in PCs \ {"answered"} :
                r.pc # "consent" /\ (pc = "save" => r.token)
                  => Proper(Moved(r, pc))
           /\ \A result \in Results : (result = "success" => r.pc = "save")
                => /\ Proper(Ended(r, result)) /\ Ended(r, result).result = result
                   /\ Ended(r, result).token = r.token /\ Ended(r, result).user = r.user
           /\ \A u \in Users : Proper(Consented(r, u))
           /\ r.pc = "query" => \A a \in Secrets \cup {None} : Proper(Queried(r, a))
           /\ r.pc = "exchange" => \A t \in BOOLEAN : Proper(Granted(r, t))
  <1> USE OAuthCallbackAssumption DEF Proper, Known, CallState, PCs, Results
  <1>1. ASSUME NEW pc \in PCs \ {"answered"}, r.pc # "consent",
               pc = "save" => r.token
        PROVE  Proper(Moved(r, pc))
    BY <1>1 DEF Moved
  <1>2. ASSUME NEW result \in Results, result = "success" => r.pc = "save"
        PROVE  /\ Proper(Ended(r, result)) /\ Ended(r, result).result = result
               /\ Ended(r, result).token = r.token /\ Ended(r, result).user = r.user
    BY <1>2 DEF Ended
  <1>3. ASSUME NEW u \in Users PROVE Proper(Consented(r, u))
    BY <1>3 DEF Consented
  <1>4. ASSUME NEW a \in Secrets \cup {None}, r.pc = "query" PROVE Proper(Queried(r, a))
    BY <1>4 DEF Queried
  <1>5. ASSUME NEW t \in BOOLEAN, r.pc = "exchange" PROVE Proper(Granted(r, t))
    BY <1>5 DEF Granted
  <1> QED
    BY <1>1, <1>2, <1>3, <1>4, <1>5

\* A call that has ended, but not as the handler's last step, leaves the database as it is.
LEMMA OneCallMoves ==
    ASSUME IInv, NEW c \in Callbacks, call[c].pc # "answered",
           NEW r, Proper(r), r.result # "success",
           call' = [call EXCEPT ![c] = r], UNCHANGED <<connectType, stored>>
    PROVE  (\A d \in Callbacks : Proper(call[d]))' /\ StoredProper'
  <1>1. call[c].result = None
    BY DEF IInv, Proper
  <1>2. \A d \in Callbacks : call'[d] = IF d = c THEN r ELSE call[d]
    BY DEF IInv, TypeOK
  <1>3. \A d \in Callbacks \ {c} : Owner(d)' = Owner(d)
    BY <1>2 DEF Owner
  <1>4. \A o \in Owners : stored[o] # c
    BY <1>1, OAuthCallbackAssumption DEF IInv, StoredProper, Saved, Results
  <1>5. \A d \in Callbacks : Proper(call'[d])
    BY <1>2 DEF IInv
  <1>6. StoredProper'
    <2>1. ASSUME NEW d \in Callbacks, call'[d].result = "success" PROVE stored'[Owner(d)'] # None
      BY <2>1, <1>2, <1>3 DEF IInv, StoredProper
    <2>2. ASSUME NEW o \in Owners, NEW d \in Callbacks, stored'[o] = d PROVE Saved(d, o)'
      BY <2>2, <1>2, <1>3, <1>4 DEF IInv, StoredProper, Saved
    <2> QED
      BY <2>1, <2>2 DEF StoredProper
  <1> QED
    BY <1>5, <1>6

\* A call that has saved its token, and ends.
LEMMA OneCallSaves ==
    ASSUME IInv, NEW c \in Callbacks, At(c, "save"), NEW result \in {"success", "notSaved"},
           call' = [call EXCEPT ![c] = Ended(call[c], result)],
           stored' = [stored EXCEPT ![Owner(c)] = c], UNCHANGED connectType
    PROVE  /\ stored' \in [Owners -> Callbacks \cup {None}]
           /\ (\A d \in Callbacks : Proper(call[d]))' /\ StoredProper'
  <1> DEFINE r == Ended(call[c], result)
  <1>1. Proper(call[c]) /\ call[c].pc = "save" /\ call[c].result = None /\ call[c].token
    BY DEF IInv, At, Proper
  <1>2. Proper(r) /\ r.result = result /\ r.token /\ r.user = call[c].user
    BY <1>1, ProperUpdates DEF Results
  <1>3. Owner(c) \in Owners
    BY <1>1 DEF Owner, Owners, Proper, Known, CallState
  <1>4. \A d \in Callbacks : call'[d] = IF d = c THEN r ELSE call[d]
    BY DEF IInv, TypeOK
  <1>5. \A d \in Callbacks : Owner(d)' = Owner(d)
    BY <1>2, <1>4 DEF Owner
  <1>6. \A o \in Owners : stored'[o] = IF o = Owner(c) THEN c ELSE stored[o]
    BY <1>3 DEF IInv, TypeOK
  <1>7. \A o \in Owners : stored[o] # c
    BY <1>1, OAuthCallbackAssumption DEF IInv, StoredProper, Saved, Results
  <1>8. \A d \in Callbacks : Proper(call'[d])
    BY <1>2, <1>4 DEF IInv
  <1>9. StoredProper'
    <2>1. ASSUME NEW d \in Callbacks, call'[d].result = "success" 
          PROVE  stored'[Owner(d)'] # None
      <3>1. CASE d = c
        BY <3>1, <1>3, <1>5, <1>6, OAuthCallbackAssumption
      <3>2. CASE d # c
        <4>1. Owner(d) \in Owners
          BY <2>1, <3>2, <1>4 DEF IInv, Owner, Owners, Proper, Known, CallState
        <4> QED
          BY <2>1, <3>2, <4>1, <1>4, <1>5, <1>6, OAuthCallbackAssumption DEF IInv, StoredProper
      <3> QED
        BY <3>1, <3>2
    <2>2. ASSUME NEW o \in Owners, NEW d \in Callbacks, stored'[o] = d PROVE Saved(d, o)'
      <3>1. CASE o = Owner(c)
        BY <2>2, <3>1, <1>2, <1>4, <1>5, <1>6 DEF Saved
      <3>2. CASE o # Owner(c)
        <4>1. stored[o] = d /\ d # c
          BY <2>2, <3>2, <1>6, <1>7
        <4> QED
          BY <4>1, <1>4, <1>5 DEF IInv, StoredProper, Saved
      <3> QED
        BY <3>1, <3>2
    <2> QED
      BY <2>1, <2>2 DEF StoredProper
  <1> QED
    BY <1>3, <1>8, <1>9 DEF IInv, TypeOK

-----------------------------------------------------------------------------

LEMMA InitKeeps == Init => IInv
    BY OAuthCallbackAssumption 
       DEF Init, IInv, TypeOK, CallState, Proper, Known, StoredProper, Waiting, PCs, Results, Owner, Owners

\* Every step of the handler, and of those around it, keeps the invariant.
LEMMA StepKeeps == IInv /\ [Next]_vars => IInv'
  <1> SUFFICES ASSUME IInv, [Next]_vars PROVE IInv'
    OBVIOUS
  <1> DEFINE AllProper == \A d \in Callbacks : Proper(call[d])
             Rest == /\ connectType \in {"shared", "private"}
                     /\ secret \in Secrets \cup {None} /\ issued \in Secrets
                     /\ stored \in [Owners -> Callbacks \cup {None}]
                     /\ cache \subseteq Secrets \cup {None} /\ (\A x, y \in cache : x = y)
  <1>0. /\ Rest /\ call \in [Callbacks -> CallState] /\ AllProper
        /\ Rest' /\ call' = [d \in Callbacks |-> call'[d]] /\ AllProper' /\ StoredProper' => IInv'
    BY DEF IInv, TypeOK, Proper
  <1>1. ASSUME NEW s \in Secrets, Issue(s) \/ SaveSecret(s) PROVE IInv'
    <2>1. Rest' /\ UNCHANGED <<connectType, stored, call>>
      BY <1>0, <1>1 DEF Issue, SaveSecret
    <2> QED
      BY <1>0, <2>1 DEF IInv, StoredProper, Saved, Owner
  <1>2. ASSUME NEW c \in Callbacks, call[c].pc # "answered", 
               NEW r, Proper(r), r.result # "success", 
               call' = [call EXCEPT ![c] = r], UNCHANGED <<connectType, stored>>, Rest'
        PROVE  IInv'
    BY <1>0, <1>2, OneCallMoves
  <1>3. ASSUME NEW c \in Callbacks, Handler(c) \/ \E u \in Users : Consent(c, u)
        PROVE  /\ call[c].pc # "answered" /\ Proper(call[c]) /\ call[c].result = None
               /\ UNCHANGED <<connectType, secret, issued>>
    <2>1. call[c].pc # "answered" /\ UNCHANGED <<connectType, secret, issued>>
      BY <1>3 DEF Consent, Handler, GetUser, QueryCreds, QueryFails, CheckCreds, Exchange, 
                  CheckResponse, Save, SaveFails, Saveable, At
    <2> QED
      BY <2>1, <1>0 DEF Proper
  <1>4. ASSUME NEW c \in Callbacks, Handler(c) \/ \E u \in Users : Consent(c, u),
               NEW result \in Results \ {"success"}, Redirect(c, result), UNCHANGED <<stored, cache>>
        PROVE  IInv'
    <2>1. Proper(Ended(call[c], result)) /\ Ended(call[c], result).result = result
      BY <1>3, <1>4, ProperUpdates
    <2>2. call' = [call EXCEPT ![c] = Ended(call[c], result)]
      BY <1>0, <1>4 DEF Redirect, Ended
    <2> QED
      BY <1>0, <1>2, <1>3, <1>4, <2>1, <2>2
  <1>5. ASSUME NEW c \in Callbacks, Handler(c) \/ \E u \in Users : Consent(c, u),
               NEW pc \in PCs \ {"answered"}, Goto(c, pc), UNCHANGED <<stored, cache>>,
               call[c].pc # "consent", pc = "save" => call[c].token
        PROVE  IInv'
    <2>1. Proper(Moved(call[c], pc)) /\ Moved(call[c], pc).result = None
      BY <1>3, <1>5, ProperUpdates DEF Moved, Proper, CallState
    <2>2. call' = [call EXCEPT ![c] = Moved(call[c], pc)]
      BY <1>0, <1>5 DEF Goto, Moved
    <2> QED
      BY <1>0, <1>2, <1>3, <1>5, <2>1, <2>2, OAuthCallbackAssumption DEF Results
  <1>6. ASSUME NEW c \in Callbacks, NEW u \in Users, Consent(c, u) PROVE IInv'
    <2>1. CASE Redirect(c, "denied")
      BY <1>4, <1>6, <2>1 DEF Consent, Results
    <2>2. CASE call' = [call EXCEPT ![c].pc = "user", ![c].user = u]
      <3>1. call[c].pc # "answered" /\ Proper(call[c]) /\ call[c].result = None
        BY <1>3, <1>6
      <3>2. Proper(Consented(call[c], u)) /\ Consented(call[c], u).result = None
        BY <3>1, ProperUpdates DEF Consented, Proper, CallState
      <3>3. call' = [call EXCEPT ![c] = Consented(call[c], u)]
        BY <1>0, <2>2 DEF Consented
      <3>4. UNCHANGED <<connectType, stored>> /\ Rest'
        BY <1>0, <1>6 DEF Consent
      <3> QED
        BY <1>2, <3>1, <3>2, <3>3, <3>4, OAuthCallbackAssumption DEF Results
    <2> QED
      BY <1>6, <2>1, <2>2 DEF Consent
  <1>7. ASSUME NEW c \in Callbacks, GetUser(c) PROVE IInv'
    BY <1>4, <1>5, <1>7 DEF Handler, GetUser, At, PCs, Results
  <1>8. ASSUME NEW c \in Callbacks, QueryCreds(c) PROVE IInv'
    <2>1. Answer \in Secrets \cup {None}
      BY <1>0 DEF Answer
    <2>2. call[c].pc = "query" /\ Proper(call[c]) /\ call[c].result = None
      BY <1>3, <1>8 DEF Handler, QueryCreds, At
    <2>3. Proper(Queried(call[c], Answer)) /\ Queried(call[c], Answer).result = None
      BY <2>1, <2>2, ProperUpdates DEF Queried, Proper, CallState
    <2>4. call' = [call EXCEPT ![c] = Queried(call[c], Answer)]
      BY <1>0, <1>8 DEF QueryCreds, Queried
    <2>5. UNCHANGED <<connectType, stored>> /\ Rest'
      BY <1>0, <1>8, <2>1 DEF QueryCreds
    <2> QED
      BY <1>2, <2>2, <2>3, <2>4, <2>5, OAuthCallbackAssumption DEF Results
  <1>9. ASSUME NEW c \in Callbacks, QueryFails(c) \/ CheckCreds(c) PROVE IInv'
    BY <1>4, <1>5, <1>9 DEF Handler, QueryFails, CheckCreds, At, PCs, Results
  <1>10. ASSUME NEW c \in Callbacks, Exchange(c) PROVE IInv'
    <2>1. CASE Redirect(c, "crashed")
      BY <1>4, <1>10, <2>1 DEF Exchange, Handler, Results
    <2>2. ASSUME NEW t \in {call[c].creds = issued, FALSE},
                 call' = [call EXCEPT ![c].pc = "response", ![c].token = t]
          PROVE  IInv'
      <3>1. call[c].pc = "exchange" /\ Proper(call[c]) /\ call[c].result = None
        BY <1>3, <1>10 DEF Handler, Exchange, At
      <3>2. t \in BOOLEAN
        BY Zenon
      <3>3. Proper(Granted(call[c], t)) /\ Granted(call[c], t).result = None
        BY <3>1, <3>2, ProperUpdates DEF Granted, Proper, CallState
      <3>4. call' = [call EXCEPT ![c] = Granted(call[c], t)]
        BY <1>0, <2>2 DEF Granted
      <3>5. UNCHANGED <<connectType, stored>> /\ Rest'
        BY <1>0, <1>10 DEF Exchange
      <3> QED
        BY <1>2, <3>1, <3>3, <3>4, <3>5, OAuthCallbackAssumption DEF Results
    <2> QED
      BY <1>10, <2>1, <2>2 DEF Exchange
  <1>11. ASSUME NEW c \in Callbacks, CheckResponse(c) PROVE IInv'
    BY <1>4, <1>5, <1>11 DEF Handler, CheckResponse, Confirmed, At, PCs, Results
  <1>12. ASSUME NEW c \in Callbacks, Save(c) \/ SaveFails(c) PROVE IInv'
    <2>1. CASE UNCHANGED stored /\ SaveFails(c)
      BY <1>4, <2>1 DEF Handler, SaveFails, Results
    <2>2. ASSUME NEW result \in {"success", "notSaved"}, Redirect(c, result), 
                 stored' = [stored EXCEPT ![Owner(c)] = c], At(c, "save"), 
                 UNCHANGED <<connectType, secret, issued, cache>>
          PROVE  IInv'
      <3>1. call' = [call EXCEPT ![c] = Ended(call[c], result)]
        BY <1>0, <2>2 DEF Redirect, Ended
      <3>2. stored' \in [Owners -> Callbacks \cup {None}] /\ AllProper' /\ StoredProper'
        BY <2>2, <3>1, OneCallSaves
      <3>3. Rest'
        BY <1>0, <2>2, <3>2
      <3> QED
        BY <1>0, <3>1, <3>2, <3>3
    <2> QED
      BY <1>12, <2>1, <2>2 DEF Save, SaveFails, Saveable, Upserted
  <1>13. ASSUME Restart PROVE IInv'
    <2> DEFINE Ends(c) == call[c].pc \notin {"consent", "answered"}
    <2>1. \A c \in Callbacks : call'[c] = IF Ends(c) THEN Ended(call[c], "crashed") ELSE call[c]
      BY <1>13 DEF Restart, Ended
    <2>2. call' = [c \in Callbacks |-> call'[c]]
      BY <1>13 DEF Restart
    <2>3. Rest' /\ UNCHANGED connectType
      BY <1>0, <1>13 DEF Restart
    <2>4. ASSUME NEW c \in Callbacks
          PROVE  /\ Proper(call'[c])
                 /\ call'[c].token = call[c].token /\ call'[c].user = call[c].user
                 /\ ~Ends(c) => call'[c].result = call[c].result
                 /\ Ends(c) => (call[c].result = None /\ call'[c].result = "crashed")
      <3>1. CASE Ends(c)
        <4>1. Proper(call[c]) /\ call[c].pc # "answered" /\ call[c].result = None
          BY <3>1, <1>0 DEF Proper
        <4>2. "crashed" \in Results /\ "crashed" # "success"
          BY DEF Results
        <4> QED
          BY <3>1, <4>1, <4>2, <2>1, ProperUpdates
      <3>2. CASE ~Ends(c)
        BY <1>0, <2>1, <3>2
      <3> QED
        BY <3>1, <3>2
    <2>5. \A c \in Callbacks : Owner(c)' = Owner(c)
      BY <2>3, <2>4 DEF Owner
    <2>6. ASSUME NEW o \in Owners
          PROVE  \/ stored'[o] = stored[o] 
                 \/ \E c \in Callbacks : At(c, "save") /\ Owner(c) = o /\ stored'[o] = c
      BY <1>13 DEF Restart, Saveable
    <2>7. StoredProper'
      <3>1. ASSUME NEW c \in Callbacks, call'[c].result = "success" 
            PROVE  stored'[Owner(c)'] # None
        <4>1. call[c].result = "success" /\ Proper(call[c])
          BY <1>0, <2>4, <3>1
        <4>2. Owner(c) \in Owners
          BY <4>1 DEF Owner, Owners, Proper, Known, CallState
        <4>3. stored[Owner(c)] # None
          BY <4>1 DEF IInv, StoredProper
        <4> QED
          BY <2>5, <2>6, <4>2, <4>3, OAuthCallbackAssumption
      <3>2. ASSUME NEW o \in Owners, NEW d \in Callbacks, stored'[o] = d PROVE Saved(d, o)'
        <4>1. CASE stored[o] = d
          BY <4>1, <2>4, <2>5 DEF IInv, StoredProper, Saved
        <4>2. CASE At(d, "save") /\ Owner(d) = o
          <5>1. Ends(d) /\ call[d].token
            BY <1>0, <4>2 DEF At, Proper
          <5> QED
            BY <4>2, <5>1, <2>4, <2>5 DEF Saved
        <4> QED
          BY <3>2, <2>6, <4>1, <4>2
      <3> QED
        BY <3>1, <3>2 DEF StoredProper
    <2> QED
      BY <1>0, <2>2, <2>3, <2>4, <2>7
  <1>14. CASE UNCHANGED vars
    BY <1>0, <1>14 DEF vars, IInv, StoredProper, Saved, Owner
  <1> QED
    BY <1>1, <1>6, <1>7, <1>8, <1>9, <1>10, <1>11, <1>12, <1>13, <1>14 DEF Next, Handler, Others

LEMMA Inductive == Spec => []IInv
  BY InitKeeps, StepKeeps, PTL DEF Spec

\* The type invariant: in particular, a callback has been answered exactly if it has ended.
THEOREM TypeCorrect == Spec => []TypeOK
  <1>1. IInv => TypeOK
    BY DEF IInv
  <1> QED
    BY <1>1, Inductive, PTL

\* Once a user has been told so, a token of a confirmed consent is stored for the workspace,
\* or for this user.
THEOREM StoredCorrect == Spec => []ConnectedIsStored
  <1>1. IInv => ConnectedIsStored
    <2> SUFFICES ASSUME IInv, NEW c \in Callbacks, call[c].result = "success"
                 PROVE  /\ stored[Owner(c)] # None
                        /\ call[stored[Owner(c)]].token 
                        /\ Owner(stored[Owner(c)]) = Owner(c)
                        /\ call[stored[Owner(c)]].result \in {"success", "notSaved", "crashed"}
      BY DEF ConnectedIsStored
    <2>1. Owner(c) \in Owners
      BY DEF IInv, Owner, Owners, Proper, Known, CallState
    <2>2. stored[Owner(c)] \in Callbacks
      BY <2>1 DEF IInv, TypeOK, StoredProper
    <2> QED
      BY <2>1, <2>2, OAuthCallbackAssumption DEF IInv, StoredProper, Saved
  <1> QED
    BY <1>1, Inductive, PTL

-----------------------------------------------------------------------------
(* The integrations page *)

\* The composition implements the callback, its steps being the callback's or none.
LEMMA CallbackStep == [PageNext]_<<vars, browserVars>> => [Next]_vars
  <1> SUFFICES ASSUME PageNext, vars' # vars PROVE Next
    BY DEF vars
  <1>1. CASE Backend
    BY <1>1 DEF Backend, ConsentElsewhere, Next
  <1>2. ASSUME NEW c \in Callbacks, Connect(c) PROVE Next
    <2>1. card.url \in Users /\ Consent(c, card.url)
      BY <1>2 DEF Connect
    <2> QED
      BY <2>1 DEF Next
  <1>3. CASE ~Backend /\ ~\E c \in Callbacks : Connect(c)
    BY <1>3 DEF PageNext, Enter, Leave, Load, Return, SignIn, Serve, Arrive, ServeURL, ArriveURL
  <1> QED
    BY <1>1, <1>2, <1>3

LEMMA CallbackKept == PageSpec => []IInv
  <1>1. PageInit => IInv
    BY InitKeeps DEF PageInit
  <1>2. IInv /\ [PageNext]_<<vars, browserVars>> => IInv'
    BY CallbackStep, StepKeeps
  <1> QED
    BY <1>1, <1>2, PTL DEF PageSpec

\* What is stored for a user may be replaced, but never goes.
LEMMA TokensStay ==
    ASSUME IInv, [Next]_vars, NEW o \in Owners, stored[o] # None
    PROVE  stored'[o] # None
  <1>1. CASE Restart
    BY <1>1, OAuthCallbackAssumption DEF Restart
  <1>2. ASSUME NEW c \in Callbacks, stored' = [stored EXCEPT ![Owner(c)] = c] PROVE stored'[o] # None
    BY <1>2, OAuthCallbackAssumption DEF IInv, TypeOK
  <1>3. CASE UNCHANGED stored
    BY <1>3
  <1>4. ASSUME NEW c \in Callbacks, Handler(c) PROVE stored'[o] # None
    BY <1>2, <1>3, <1>4 
       DEF Handler, GetUser, QueryCreds, QueryFails, CheckCreds, Exchange, CheckResponse, Save, SaveFails, Upserted
  <1>5. ASSUME NEW c \in Callbacks, NEW u \in Users, Consent(c, u) PROVE stored'[o] # None
    BY <1>3, <1>5 DEF Consent
  <1>6. ASSUME NEW s \in Secrets, Issue(s) \/ SaveSecret(s) PROVE stored'[o] # None
    BY <1>3, <1>6 DEF Issue, SaveSecret
  <1>7. CASE UNCHANGED vars
    BY <1>3, <1>7 DEF vars
  <1> QED
    BY <1>1, <1>4, <1>5, <1>6, <1>7 DEF Next, Others

\* Whoever has been told to be connected is.  What is cached, or on its way, is an answer
\* about the viewer that was true when it was given, and was asked for since the load; the
\* card shows what is cached, and nothing is on its way then.
PageInv ==
    /\ at # "elsewhere" => connectType = "private"
    /\ \A u \in told : stored[u] # None
    /\ at = "page" => /\ card.connected <=> "row" \in seen
                      /\ query # "none" => seen = {}
                      /\ query = "none" /\ ~card.error => seen # {}
    /\ seen = {} => ~borrowed
    /\ ~borrowed => /\ "row" \in seen => stored[viewer] # None
                    /\ viewer \in told => "noRow" \notin seen
    /\ query = "row" => stored[viewer] # None
    /\ query = "noRow" => viewer \notin told

\* What the card is when it comes up.
LEMMA MountedCard ==
    ASSUME NEW cached, Mounted(cached)
    PROVE  /\ card' \in [connected : BOOLEAN, url : Users \cup {None, "null"}, error : BOOLEAN]
           /\ card'.connected <=> "row" \in cached
           /\ ~card'.error
           /\ at' = "page" /\ urlQuery' = "sent"
           /\ query' = IF cached = {} THEN "sent" ELSE "none"
  <1>1. CASE "row" \in cached
    <2>1. card' = [Blank EXCEPT !.connected = TRUE]
      BY <1>1, Zenon DEF Mounted
    <2> QED
      BY <1>1, <2>1 DEF Mounted, Blank
  <1>2. CASE "row" \notin cached
    <2>1. ("row" \in cached) = FALSE
      BY <1>2
    <2>2. card' = [Blank EXCEPT !.connected = FALSE]
      BY <2>1, Zenon DEF Mounted
    <2> QED
      BY <1>2, <2>2 DEF Mounted, Blank
  <1> QED
    BY <1>1, <1>2

PageIInv == BrowserTypeOK /\ PageInv

LEMMA PageInductive == PageSpec => []PageIInv
  <1>1. PageInit => PageIInv
    <2>1. PageInit => BrowserTypeOK
      <3>1. Blank \in [connected : BOOLEAN, url : Users \cup {None, "null"}, error : BOOLEAN]
        BY DEF Blank
      <3> QED
        BY <3>1 DEF PageInit, BrowserTypeOK
    <2>2. PageInit => PageInv
      BY DEF PageInit, PageInv
    <2> QED
      BY <2>1, <2>2 DEF PageIInv
  <1>2. IInv /\ PageIInv /\ [PageNext]_<<vars, browserVars>> => PageIInv'
    <2> SUFFICES ASSUME IInv, PageIInv, [PageNext]_<<vars, browserVars>> PROVE PageIInv'
      OBVIOUS
    <2> USE OAuthCallbackAssumption, PageAssumption DEF PageIInv, BrowserTypeOK, PageInv, Blank
    <2>0. /\ \A u \in Users : stored[u] # None => stored'[u] # None
          /\ connectType' = connectType
      <3>1. [Next]_vars
        BY CallbackStep
      <3>2. connectType' = connectType
        BY <3>1 DEF vars, Next, Others, Handler, Consent, GetUser, QueryCreds, QueryFails, CheckCreds,
                    Exchange, CheckResponse, Save, SaveFails, Issue, SaveSecret, Restart
      <3> QED
        BY <3>1, <3>2, TokensStay DEF Owners
    <2>1. CASE UNCHANGED browserVars
      BY <2>0, <2>1 DEF browserVars
    <2>2. CASE Enter
      BY <2>2, MountedCard DEF Enter, vars
    <2>3. CASE Leave
      BY <2>3 DEF Leave, Gone, vars
    <2>4. CASE Load
      BY <2>4, MountedCard DEF Load, Anew, vars
    <2>5. ASSUME NEW c \in Callbacks, Return(c) PROVE PageIInv'
      <3>1. ASSUME call[c].result = "success" 
            PROVE  call[c].user \in Users /\ stored[call[c].user] # None
        <4>1. Proper(call[c]) /\ connectType = "private" /\ stored[Owner(c)] # None
          BY <2>5, <3>1 DEF Return, IInv, StoredProper
        <4> QED
          BY <3>1, <4>1 DEF Proper, Known, CallState, Owner
      <3>2. told' \subseteq Users /\ \A u \in told' : stored[u] # None
        BY <2>5, <3>1 DEF Return
      <3>3. UNCHANGED vars /\ Anew /\ viewer' = viewer
        BY <2>5 DEF Return
      <3>4. UNCHANGED <<connectType, stored>>
        BY <3>3 DEF vars
      <3> QED
        BY <2>5, <3>2, <3>3, <3>4, MountedCard DEF Anew, Return
    <2>6. ASSUME NEW u \in Users, SignIn(u) PROVE PageIInv'
      BY <2>6 DEF SignIn, Gone, vars
    <2>7. ASSUME NEW c \in Callbacks, Connect(c) PROVE PageIInv'
      BY <2>0, <2>7 DEF Connect, Gone
    <2>8. CASE Serve
      BY <2>8 DEF Serve, Found, vars
    <2>9. CASE Arrive
      BY <2>9 DEF Arrive, Applied, vars
    <2>10. CASE ServeURL
      BY <2>10 DEF ServeURL, vars
    <2>11. CASE ArriveURL
      BY <2>11 DEF ArriveURL, vars
    <2> QED
      BY <2>1, <2>2, <2>3, <2>4, <2>5, <2>6, <2>7, <2>8, <2>9, <2>10, <2>11 DEF PageNext, Backend
  <1> QED
    BY <1>1, <1>2, CallbackKept, PTL DEF PageSpec

\* The page is what it is taken to be, however it is left and entered.
THEOREM PageTypeCorrect == PageSpec => []BrowserTypeOK
  <1>1. PageIInv => BrowserTypeOK
    BY DEF PageIInv
  <1> QED
    BY <1>1, PageInductive, PTL

\* The card of the user signed in since the load offers what the user has.
THEOREM CardCorrect == PageSpec => []CardShowsOwn
  <1>1. PageIInv => CardShowsOwn
    BY DEF PageIInv, PageInv, BrowserTypeOK, CardShowsOwn, Settled
  <1> QED
    BY <1>1, PageInductive, PTL
=============================================================================
