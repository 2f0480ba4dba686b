---------------------------- MODULE OAuthCallback ----------------------------
(***************************************************************************)
(* The OAuth callback of a provider, in the Next server                    *)
(* (frontend/shared/libs/integrations/callback.ts, callbackHandler), while *)
(* superadmins save other client credentials: wrong ones, or those that    *)
(* the provider has issued anew.  The handler asks the backend through the *)
(* one Apollo client of the process, whose cache answers a query that has  *)
(* been answered before.  The token is saved for the workspace, or for the *)
(* user who has consented, as the provider's connectType tells.            *)
(***************************************************************************)
EXTENDS Naturals

CONSTANTS
    Callbacks,      \* consents given; each redirects to the handler once
    Users,
    Secrets,        \* client credentials; the provider issues them in the order 1, 2, ...
    None

\* What the browser is told, or that Next answers in the handler's stead.
Results == {"denied", "noProfile", "noServer", "missing", "refused", "notSaved", "crashed", "success"}

ASSUME OAuthCallbackAssumption ==
    /\ Secrets \subseteq Nat \ {0} /\ 1 \in Secrets
    /\ None \notin Secrets /\ None \notin Callbacks /\ None \notin Results
    /\ None \notin Users /\ "workspace" \notin Users

\* Whose credentials a row holds.
Workspace == "workspace"
Owners == Users \cup {Workspace}

VARIABLES
    connectType, \* of the provider: "shared" or "private"
    secret,     \* the client credentials in the database, or None
    stored,     \* the tokens in the database, per owner: those of a callback, or None
    issued,     \* the client credentials that the provider accepts
    cache,      \* the answer that the Apollo cache of the Next server holds, as a set
    call        \* per callback, the state of its handler

vars == <<connectType, secret, stored, issued, cache, call>>

Waiting == [pc |-> "consent", user |-> None, creds |-> None, token |-> FALSE, result |-> None]

PCs == {"consent", "user", "query", "check", "exchange", "response", "save", "answered"}
CallState == [pc : PCs, user : Users \cup {None}, creds : Secrets \cup {None}, 
              token : BOOLEAN, result : Results \cup {None}]

TypeOK ==
    /\ connectType \in {"shared", "private"}
    /\ secret \in Secrets \cup {None} /\ issued \in Secrets
    /\ stored \in [Owners -> Callbacks \cup {None}]
    /\ cache \subseteq Secrets \cup {None} /\ (\A x, y \in cache : x = y)
    /\ call \in [Callbacks -> CallState]
    /\ \A c \in Callbacks : call[c].pc = "answered" <=> call[c].result # None

Init ==
    /\ connectType \in {"shared", "private"}
    /\ secret = None /\ stored = [o \in Owners |-> None] /\ issued = 1 /\ cache = {}
    /\ call = [c \in Callbacks |-> Waiting]

At(c, pc) == call[c].pc = pc
Goto(c, pc) == call' = [call EXCEPT ![c].pc = pc]

\* The handler returns, and what it knew is gone.
Ended(state, result) == [state EXCEPT !.pc = "answered", !.creds = None, !.result = result]

Redirect(c, result) == call' = [call EXCEPT ![c] = Ended(@, result)]

-----------------------------------------------------------------------------
(* External: the superadmin and the provider *)

\* The provider issues new client credentials, and the old ones are no longer accepted.
Issue(s) ==
    /\ s = issued + 1
    /\ issued' = s
    /\ UNCHANGED <<connectType, secret, stored, cache, call>>

\* upsertGlobalApiCredential
SaveSecret(s) ==
    /\ secret # s
    /\ secret' = s
    /\ UNCHANGED <<connectType, stored, issued, cache, call>>

\* A user consents, or does not, and is redirected to the handler.  The page makes the URL
\* of the provider from the client ID in the database, and has it pass on the user's token.
Consent(c, u) ==
    /\ At(c, "consent")
    /\ secret # None
    /\ \/ call' = [call EXCEPT ![c].pc = "user", ![c].user = u]
       \/ Redirect(c, "denied")
    /\ UNCHANGED <<connectType, secret, stored, issued, cache>>

-----------------------------------------------------------------------------
(* callbackHandler *)

\* supabase takes the token for the user's, until it has expired.
GetUser(c) ==
    /\ At(c, "user")
    /\ Goto(c, "query") \/ Redirect(c, "noProfile")
    /\ UNCHANGED <<connectType, secret, stored, issued, cache>>

\* client.query: what the cache holds, or what the backend answers.
Answer == IF cache # {} THEN CHOOSE s \in cache : TRUE ELSE secret

QueryCreds(c) ==
    /\ At(c, "query")
    /\ cache' = {Answer}
    /\ call' = [call EXCEPT ![c].pc = "check", ![c].creds = Answer]
    /\ UNCHANGED <<connectType, secret, stored, issued>>

QueryFails(c) ==
    /\ At(c, "query") /\ cache = {}
    /\ Redirect(c, "noServer")
    /\ UNCHANGED <<connectType, secret, stored, issued, cache>>

CheckCreds(c) ==
    /\ At(c, "check")
    /\ IF call[c].creds = None THEN Redirect(c, "missing") ELSE Goto(c, "exchange")
    /\ UNCHANGED <<connectType, secret, stored, issued, cache>>

\* The token endpoint, which refuses client credentials that it has replaced.  A request
\* that fails rejects, which nothing catches but Next, that answers with an error page.
Exchange(c) ==
    /\ At(c, "exchange")
    /\ \/ \E granted \in {call[c].creds = issued, FALSE} :
            call' = [call EXCEPT ![c].pc = "response", ![c].token = granted]
       \/ Redirect(c, "crashed")
    /\ UNCHANGED <<connectType, secret, stored, issued, cache>>

\* Mutant of Confirmed: the status of the response is not looked at.
Confirmed_Any(c) == TRUE

\* resp.ok, and for Slack the ok of its body.
Confirmed(c) == call[c].token

\* Mutant of CheckResponse: the browser is not redirected.
CheckResponse_NoRedirect(c) ==
    /\ At(c, "response")
    /\ Confirmed(c)
    /\ Goto(c, "save")
    /\ UNCHANGED <<connectType, secret, stored, issued, cache>>

\* The body may be cut off, too, or be no JSON.
CheckResponse(c) ==
    /\ At(c, "response")
    /\ \/ IF Confirmed(c) THEN Goto(c, "save") ELSE Redirect(c, "refused")
       \/ Redirect(c, "crashed")
    /\ UNCHANGED <<connectType, secret, stored, issued, cache>>

Owner(c) == IF connectType = "private" THEN call[c].user ELSE Workspace

\* updateGlobalSharedUserCredential, which needs the row, or upsertUserApiCredential.
Saveable(c) == At(c, "save") /\ (connectType = "private" \/ secret # None)

Upserted(c) == stored' = [stored EXCEPT ![Owner(c)] = c]

Save(c) ==
    /\ Saveable(c) /\ Upserted(c)
    /\ Redirect(c, "success")
    /\ UNCHANGED <<connectType, secret, issued, cache>>

\* The mutation fails, or its answer is lost.
SaveFails(c) ==
    /\ At(c, "save")
    /\ Redirect(c, "notSaved")
    /\ \/ UNCHANGED stored
       \/ Saveable(c) /\ Upserted(c)
    /\ UNCHANGED <<connectType, secret, issued, cache>>

\* The Next server is restarted, with an empty cache; open requests are cut off, and the
\* backend may have saved what they asked it to.
Restart ==
    /\ cache # {}
    /\ stored' \in [Owners -> Callbacks \cup {None}]
    /\ \A o \in Owners : stored'[o] = stored[o] 
                        \/ \E c \in Callbacks : Saveable(c) /\ Owner(c) = o /\ stored'[o] = c
    /\ cache' = {}
    /\ call' = [c \in Callbacks |-> IF call[c].pc \in {"consent", "answered"} THEN call[c]
                                    ELSE Ended(call[c], "crashed")]
    /\ UNCHANGED <<connectType, secret, issued>>

Handler(c) == 
    GetUser(c) \/ QueryCreds(c) \/ QueryFails(c) \/ CheckCreds(c) 
    \/ Exchange(c) \/ CheckResponse(c) \/ Save(c) \/ SaveFails(c)

Others == Restart \/ \E s \in Secrets : Issue(s) \/ SaveSecret(s)

Next ==
    \/ \E c \in Callbacks, u \in Users : Consent(c, u)
    \/ \E c \in Callbacks : Handler(c)
    \/ Others

Spec == Init /\ [][Next]_vars /\ \A c \in Callbacks : WF_vars(Handler(c))

-----------------------------------------------------------------------------
(* Properties *)

\* Whatever fails, a browser that comes back from the provider gets an answer.
EveryCallbackEnds == \A c \in Callbacks : At(c, "user") ~> At(c, "answered")

\* Once a user has been told that the account is connected, a token is stored for those
\* whom it is for, the workspace or just this user: that of a consent that the provider has
\* confirmed, given by the same user if tokens are the users' own, and answered, whatever
\* was issued, saved, lost or cut off in between.
ConnectedIsStored ==
    \A c \in Callbacks : call[c].result = "success" => 
        /\ stored[Owner(c)] # None
        /\ LET d == stored[Owner(c)]
           IN  /\ call[d].token /\ Owner(d) = Owner(c)
               /\ call[d].result \in {"success", "notSaved", "crashed"}
=============================================================================
