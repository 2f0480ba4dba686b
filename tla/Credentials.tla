----------------------------- MODULE Credentials -----------------------------
(***************************************************************************)
(* What services/crypto.ts and shared/libs/credential.ts do with one       *)
(* stored credential.  AES-CTR is abstracted to a tag: a ciphertext        *)
(* remembers the IV it was made with, and decrypting it with any other IV  *)
(* gives Garbage, on which the JSON.parse of the callers throws.  The      *)
(* secret key API_CRED_AES_KEY is one fixed key.                           *)
(***************************************************************************)
CONSTANTS
    Vals,      \* the credential contents that can be saved
    IVs,       \* the initialisation vectors a process can draw
    None,      \* null: no row, no shared credentials, no process
    Garbage    \* the plaintext a wrong IV gives

Encrypt(val, iv) == [iv |-> iv, val |-> val]

Decrypt(iv, content) == IF content.iv = iv THEN content.val ELSE Garbage

Cipher == [iv : IVs, val : Vals]

\* A row of GlobalApiCredential and one of UserApiCredential.
GlobalRow == [iv : IVs, creds : Cipher, shared : Cipher \cup {None}, valid : BOOLEAN]
UserRow == [iv : IVs, creds : Cipher]

\* null is no value, no ciphertext and no row; garbage is no JSON.
ASSUME CredentialsAssumption == 
    /\ Garbage \notin Vals \cup {None}
    /\ None \notin Vals \cup IVs
    /\ None \notin Cipher
    /\ None \notin GlobalRow
    /\ None \notin UserRow

SharedOf(row) == IF row.shared = None THEN None ELSE Decrypt(row.iv, row.shared)

\* getGlobalAPICredential returns null, throws in JSON.parse, or returns both parts.
GetGlobalAPICredential(row) ==
    IF row = None THEN [kind |-> "null"]
    ELSE IF Garbage \in {Decrypt(row.iv, row.creds), SharedOf(row)} THEN [kind |-> "throw"]
    ELSE [kind |-> "ok", globalCreds |-> Decrypt(row.iv, row.creds),
          sharedUserCreds |-> SharedOf(row)]

\* The validSharedUserCreds field of both credential queries: !!exist.sharedUserCreds.
ValidSharedUserCreds(row) ==
    LET exist == GetGlobalAPICredential(row)
    IN  exist.kind = "ok" /\ exist.sharedUserCreds # None

(***************************************************************************)
(* The three writes of a row.  upsertGlobalApiCredential replaces the IV   *)
(* and the client credentials and keeps the other two columns;             *)
(* updateGlobalSharedUserCredential writes the shared credentials, under   *)
(* the IV it read earlier, and raises the flag.                            *)
(***************************************************************************)
\* Mutants of UpsertedGlobal: the row keeps its IV; it is replaced whole; the flag is raised.
UpsertedGlobal_KeepsIV(row, val, iv) ==
    IF row = None 
    THEN [iv |-> iv, creds |-> Encrypt(val, iv), shared |-> None, valid |-> TRUE]
    ELSE [row EXCEPT !.creds = Encrypt(val, iv)]
UpsertedGlobal_Replaces(row, val, iv) ==
    [iv |-> iv, creds |-> Encrypt(val, iv), shared |-> None, valid |-> TRUE]
UpsertedGlobal_RaisesFlag(row, val, iv) ==
    IF row = None 
    THEN [iv |-> iv, creds |-> Encrypt(val, iv), shared |-> None, valid |-> TRUE]
    ELSE [row EXCEPT !.iv = iv, !.creds = Encrypt(val, iv), !.valid = TRUE]

UpsertedGlobal(row, val, iv) ==
    IF row = None 
    THEN [iv |-> iv, creds |-> Encrypt(val, iv), shared |-> None, valid |-> TRUE]
    ELSE [row EXCEPT !.iv = iv, !.creds = Encrypt(val, iv)]

UpdatedShared(row, val, readIV) == [row EXCEPT !.shared = Encrypt(val, readIV), !.valid = TRUE]

UpsertedUser(val, iv) == [iv |-> iv, creds |-> Encrypt(val, iv)]
=============================================================================
