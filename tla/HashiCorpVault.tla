---------------------------- MODULE HashiCorpVault ----------------------------
(***************************************************************************)
(* The one HashiCorp Vault definition of an installation                   *)
(* (api/auth/hashicorp_vault): requests that create, replace, patch and    *)
(* delete it while others do the same, each logging in to the vault        *)
(* between its read and its write, and a scanner that reads a secret.      *)
(*                                                                         *)
(* client_cert stands for the client certificate, the key and the CA       *)
(* certificate, which are treated alike.  "checked" is a history field: a  *)
(* login that succeeds leaves the metadata it was made with in the request, *)
(* and a save takes it along to the row.                                   *)
(***************************************************************************)
EXTENDS RestValues, Integers, FiniteSets

CONSTANT VaultRequests      \* the requests in progress at a time

MaxTokenId == 2             \* at most this many rows are ever inserted by POST

VARIABLES token,            \* the SecureToken row, or None
          next_id,          \* the primary key of the next new row
          vault_request,    \* per request: what it holds between its steps
          secret_reader     \* the row a scanner is reading a secret with

vaultVars == <<token, next_id, vault_request, secret_reader>>

DEFAULT_PORT == "8200"

MetadataFields == {"address", "port", "client_cert"}

\* "x!" is neither an address nor the base64 of anything.
FieldValues == [address |-> {"vault", "x!"}, port |-> {"8200", "8201"},
                client_cert |-> {"cert1", "cert2", "x!"}]

\* The bodies of requests with these fields.
Bodies(fields) == {b \in [fields -> UNION {FieldValues[f] : f \in fields}] :
                      \A f \in fields : b[f] \in FieldValues[f]}

FullBodies == Bodies(MetadataFields) \cup Bodies({"address", "client_cert"})

PatchBodies == UNION {Bodies(f) : f \in {g \in SUBSET MetadataFields : Cardinality(g) \in 1 .. 2}}

Metadata == [MetadataFields -> UNION {FieldValues[f] : f \in MetadataFields}]

TokenRows == [id : Nat, metadata : Metadata, checked : Metadata]

ASSUME VaultAssumption == None \notin TokenRows

Idle == [step |-> "idle"]

-----------------------------------------------------------------------------
\* The serializer's field checks, on what put or post hands to it.
ValidateFields(metadata) ==
    /\ {"address", "client_cert"} \subseteq DOMAIN metadata
    /\ metadata.address # "x!"
    /\ metadata.client_cert # "x!"

WithDefaultPort(metadata) ==
    [f \in DOMAIN metadata \cup {"port"} |-> Get(metadata, f, DEFAULT_PORT)]

\* hashicorp_vault_client gives a client only for certificates it can decode.
ClientFor(metadata) == metadata.client_cert # "x!"

\* Whether hashicorp_vault_authenticate succeeds is up to the vault.
Authenticate(metadata) == IF ClientFor(metadata) THEN BOOLEAN ELSE {FALSE}

Respond(r) == vault_request' = [vault_request EXCEPT ![r] = Idle]

\* put: a PATCH is merged with the metadata the request has read.
MergedMetadata(body, partial) ==
    IF partial THEN [f \in MetadataFields |-> Get(body, f, token.metadata[f])]
    ELSE WithDefaultPort(body)

-----------------------------------------------------------------------------
\* post, up to the login: 409 when there is a definition.
BeginPost(r) ==
    /\ vault_request[r] = Idle
    /\ token = None
    /\ \E body \in FullBodies :
        /\ ValidateFields(body)
        /\ vault_request' = [vault_request EXCEPT ![r] =
              [step |-> "login", instance |-> None, metadata |-> WithDefaultPort(body),
               checked |-> None]]
    /\ UNCHANGED <<token, next_id, secret_reader>>

\* put and patch, up to the login: 404 when there is no definition.
BeginPut(r) ==
    /\ vault_request[r] = Idle
    /\ token # None
    /\ \E partial \in BOOLEAN : \E body \in IF partial THEN PatchBodies ELSE FullBodies :
        LET metadata == MergedMetadata(body, partial)
        IN  /\ ValidateFields(metadata)
            /\ vault_request' = [vault_request EXCEPT ![r] =
                  [step |-> "login", instance |-> token, metadata |-> metadata, checked |-> None]]
    /\ UNCHANGED <<token, next_id, secret_reader>>

\* HashiCorpVaultSerializer.validate logs in: 400 when the login fails.
VaultLogin(r) ==
    /\ vault_request[r].step = "login"
    /\ \E success \in Authenticate(vault_request[r].metadata) :
        vault_request' = [vault_request EXCEPT ![r] =
            IF success
            THEN [step |-> "save", instance |-> @.instance, metadata |-> @.metadata,
                  checked |-> @.metadata]
            ELSE Idle]
    /\ UNCHANGED <<token, next_id, secret_reader>>

\* HashiCorpVaultSerializer.create: get_or_create, then the metadata.
SaveCreated(r) ==
    /\ vault_request[r].step = "save"
    /\ vault_request[r].instance = None
    /\ LET metadata == vault_request[r].metadata
           checked == vault_request[r].checked
       IN  IF token # None
           THEN /\ token' = [token EXCEPT !.metadata = metadata, !.checked = checked]
                /\ UNCHANGED next_id
           ELSE /\ next_id <= MaxTokenId
                /\ token' = [id |-> next_id, metadata |-> metadata, checked |-> checked]
                /\ next_id' = next_id + 1
    /\ Respond(r)
    /\ UNCHANGED secret_reader

InsertAnyway(instance) == TRUE

\* SecureToken.save runs full_clean: there is no other row of the name.
UniqueName(instance) == token = None \/ token.id = instance.id

MergeIntoRow(instance, metadata) ==
    IF token = None THEN metadata
    ELSE [f \in MetadataFields |->
            IF metadata[f] # instance.metadata[f] THEN metadata[f] ELSE token.metadata[f]]

\* HashiCorpVaultSerializer.update: the whole metadata, on the row it had read.
UpdatedMetadata(instance, metadata) == metadata

\* The save of the row that was read: an UPDATE, or the INSERT of a row that was
\* deleted in between.
SaveUpdated(r) ==
    /\ vault_request[r].step = "save"
    /\ vault_request[r].instance # None
    /\ LET instance == vault_request[r].instance
           metadata == vault_request[r].metadata
       IN  IF UniqueName(instance)
           THEN token' = [id |-> instance.id, checked |-> vault_request[r].checked,
                          metadata |-> UpdatedMetadata(instance, metadata)]
           ELSE UNCHANGED token
    /\ Respond(r)
    /\ UNCHANGED <<next_id, secret_reader>>

\* delete
DeleteVault ==
    /\ token # None
    /\ token' = None
    /\ UNCHANGED <<next_id, vault_request, secret_reader>>

\* read_vault_secret, in two steps: without a definition the scan fails, with one the scanner
\* logs in by it; ScanFailureError or the secret ends the read.
ReadSecret ==
    /\ secret_reader = None
    /\ token # None
    /\ secret_reader' = token
    /\ UNCHANGED <<token, next_id, vault_request>>

SecretRead ==
    /\ secret_reader # None
    /\ secret_reader' = None
    /\ UNCHANGED <<token, next_id, vault_request>>

VaultInit ==
    /\ token = None
    /\ next_id = 1
    /\ vault_request = [r \in VaultRequests |-> Idle]
    /\ secret_reader = None

VaultNext ==
    \/ \E r \in VaultRequests : BeginPost(r) \/ BeginPut(r) \/ VaultLogin(r)
                                \/ SaveCreated(r) \/ SaveUpdated(r)
    \/ DeleteVault \/ ReadSecret \/ SecretRead

VaultSpec == VaultInit /\ [][VaultNext]_vaultVars

-----------------------------------------------------------------------------
\* The stored definition, and the one a scanner works with, is as a whole one
\* with which a login has succeeded: two requests that overlap never leave a mixture
\* of their fields, and a PATCH is checked merged, not by itself (put, validate).
StoredConfigVerified ==
    \A row \in {token, secret_reader} \ {None} :
        /\ row.metadata = row.checked
        /\ DOMAIN row.metadata = MetadataFields
        /\ ClientFor(row.metadata)

\* A request that has read a definition which was deleted and created anew does
\* not write over the new one: only DELETE makes room for another row.
NewDefinitionNotOverwritten ==
    [][token # None /\ token' # None => token'.id = token.id]_vaultVars
=============================================================================
