--------------------------- MODULE CredentialForms ---------------------------
(***************************************************************************)
(* How one Credential row is written by the REST API: the type-specific    *)
(* serializers of api/credential/serializer.py (v2) and serializer_v1.py   *)
(* (v1), which are both routed, and Credential.save, which encrypts.       *)
(* An update fetches the row, validates against that copy and saves the    *)
(* whole copy, so two updates, or an update and a delete, can overlap.     *)
(*                                                                         *)
(* A field is None, blank, some text, a text that contains the marker of   *)
(* the ciphertexts, or a ciphertext.  become_method, become_user and       *)
(* vault_mount_point are left out: no rule reads them.                     *)
(***************************************************************************)
EXTENDS RestValues, FiniteSets, Integers

CONSTANTS MaxGiven,    \* at most this many fields are given in a request
          GivenValues  \* the values each field may be given

VARIABLES cred_type,   \* the type of the credential, fixed at creation
          credential,  \* the row, or None
          instance,    \* the copy an update in flight works on, or None
          vault_token, \* whether a HashiCorp Vault configuration is stored
          written      \* history: the API version of the last write

credentialVars == <<cred_type, credential, instance, vault_token, written>>

Blank == ""

Text == "text"

Encrypted == "$ANSIBLE_VAULT"

EncryptedTwice == "$ANSIBLE_VAULT of $ANSIBLE_VAULT"

Marked == "text with $ANSIBLE_VAULT"

ASSUME NoneIsNoText == None \notin {Blank, Text, Encrypted, EncryptedTwice, Marked}

ENCRYPTED_FIELDS == {"password", "ssh_passphrase", "ssh_key", "become_password", "auth_token"}

\* The optional type-specific fields; username and the vault_* ones are kept
\* in clear.
Fields == ENCRYPTED_FIELDS \cup
    {"ssh_keyfile", "username", "vault_secret_path", "vault_secret_key"}

EmptyRow == [f \in Fields |-> None]

\* self.instance of the serializer of a create
NoInstance == << >>

CredTypes == {"network", "openshift", "vcenter", "satellite", "ansible", "rhacs"}

(***************************************************************************)
(* Serializers: the fields each one reads, and the ones it requires.  The  *)
(* v2 ones also refuse a blank in a required field; all of them take None, *)
(* because every column is nullable and allow_null follows the column.     *)
(***************************************************************************)
AuthTokenSerializer == [fields |-> {"auth_token"}, required |-> {"auth_token"}]

UsernamePasswordSerializer ==
    [fields |-> {"username", "password"}, required |-> {"username", "password"}]

VaultSecretPathSerializer ==
    [fields   |-> {"vault_secret_path", "vault_secret_key"},
     required |-> {"vault_secret_path", "vault_secret_key"}]

\* ssh_keyfile is read only.
SshCredentialSerializer ==
    [fields   |-> {"username", "password", "ssh_key", "ssh_passphrase", "become_password"},
     required |-> {"username"}]

AuthTokenOrUserPassSerializer ==
    [fields   |-> {"auth_token", "username", "password"} \cup VaultSecretPathSerializer.fields,
     required |-> {}]

UsernamePasswordOrVaultSerializer ==
    [fields   |-> UsernamePasswordSerializer.fields \cup VaultSecretPathSerializer.fields,
     required |-> {}]

SerializerByType ==
    [network   |-> SshCredentialSerializer,
     openshift |-> AuthTokenOrUserPassSerializer,
     vcenter   |-> UsernamePasswordSerializer,
     satellite |-> UsernamePasswordSerializer,
     ansible   |-> UsernamePasswordOrVaultSerializer,
     rhacs     |-> AuthTokenSerializer]

NetworkCredentialSerializerV1 ==
    [fields   |-> SshCredentialSerializer.fields \cup {"ssh_keyfile"},
     required |-> {"username"}]

AuthTokenOrUserPassSerializerV1 ==
    [fields |-> {"auth_token", "username", "password"}, required |-> {}]

SerializerByTypeV1 ==
    [network   |-> NetworkCredentialSerializerV1,
     openshift |-> AuthTokenOrUserPassSerializerV1,
     vcenter   |-> UsernamePasswordSerializer,
     satellite |-> UsernamePasswordSerializer,
     ansible   |-> UsernamePasswordSerializer,
     rhacs     |-> AuthTokenSerializer]

-----------------------------------------------------------------------------
\* bool(attrs.get(f))
Truthy(attrs, f) == f \in DOMAIN attrs /\ attrs[f] \notin {None, Blank}

Take(attrs, fields) == [f \in DOMAIN attrs \cap fields |-> attrs[f]]

AllNone(fields) == [f \in fields |-> None]

HasRequired(serializer, attrs, partial) ==
    partial \/ serializer.required \subseteq DOMAIN attrs

\* The field checks of a v2 serializer.
FieldsValid(serializer, attrs, partial) ==
    /\ HasRequired(serializer, attrs, partial)
    /\ \A f \in serializer.required \cap DOMAIN attrs : attrs[f] # Blank

ClearedExceptVault(serializer, attrs) ==
    Over(AllNone(Fields \ (serializer.fields \cup {"vault_secret_path"})),
         Take(attrs, serializer.fields))

\* CredentialSerializerV2.validate: what another type would use is cleared.
Cleared(serializer, attrs) ==
    Over(AllNone(Fields \ serializer.fields), Take(attrs, serializer.fields))

ValidateSimple(serializer, attrs, partial) ==
    AcceptIf(FieldsValid(serializer, attrs, partial), Cleared(serializer, attrs))

ValidateVaultSecretPath(row, attrs, partial) ==
    {a \in ValidateSimple(VaultSecretPathSerializer, attrs, partial) :
        /\ Truthy(a, "vault_secret_key") \/ Truthy(row, "vault_secret_key")
        /\ vault_token}

HasPasswordOrSshKey(row, attrs, partial) ==
    LET given == {m \in {"password", "ssh_key"} : Truthy(attrs, m)}
    IN  IF partial /\ given = {}
        THEN {m \in {"password", "ssh_key"} : Truthy(row, m)}
        ELSE given

ValidateSsh(row, attrs, partial) ==
    LET has == HasPasswordOrSshKey(row, attrs, partial)
        other == IF "password" \in has THEN {"ssh_key", "ssh_passphrase"} ELSE {"password"}
        blankPhrase == {f \in DOMAIN attrs : f = "ssh_passphrase" /\ attrs[f] = Blank}
    IN  {Over(AllNone(other \cup blankPhrase \cup {"ssh_keyfile"}), a) :
            a \in {b \in ValidateSimple(SshCredentialSerializer, attrs, partial) :
                    /\ Cardinality(has) = 1
                    /\ Truthy(attrs, "ssh_passphrase") => "ssh_key" \in has}}

\* The modes named in an openshift or ansible request, by their serializer.
ProvidedAuth(attrs) ==
    (IF Truthy(attrs, "password") \/ Truthy(attrs, "username")
        THEN {UsernamePasswordSerializer} ELSE {}) \cup
    (IF Truthy(attrs, "auth_token") THEN {AuthTokenSerializer} ELSE {}) \cup
    (IF Truthy(attrs, "vault_secret_path") THEN {VaultSecretPathSerializer} ELSE {})

DetectProvidedAuth(row, attrs, partial) ==
    IF partial /\ ProvidedAuth(attrs) = {} THEN ProvidedAuth(row) ELSE ProvidedAuth(attrs)

\* The request must name one mode, and that mode's serializer has the last word.
ValidateOneOf(row, attrs, partial) ==
    LET modes == DetectProvidedAuth(row, attrs, partial)
    IN  UNION {IF mode = VaultSecretPathSerializer
                 THEN ValidateVaultSecretPath(row, attrs, partial)
                 ELSE ValidateSimple(mode, attrs, partial) :
               mode \in {m \in modes : Cardinality(modes) = 1}}

ValidateV2(row, attrs, partial) ==
    CASE cred_type = "network" -> ValidateSsh(row, attrs, partial)
      [] cred_type \in {"openshift", "ansible"} -> ValidateOneOf(row, attrs, partial)
      [] OTHER -> ValidateSimple(SerializerByType[cred_type], attrs, partial)

-----------------------------------------------------------------------------
\* NetworkCredentialSerializerV1.validate and prepare_data_for_update.  A blank
\* keyfile expands to a directory, which is not a file.
KeyMethods == {"password", "ssh_key", "ssh_keyfile"}

ValidateNetworkV1(row, attrs, partial) ==
    LET given == {m \in KeyMethods : Truthy(attrs, m)}
        keys == {"ssh_key", "ssh_keyfile"}
        valid == /\ HasRequired(NetworkCredentialSerializerV1, attrs, partial)
                 /\ "ssh_keyfile" \in DOMAIN attrs => attrs["ssh_keyfile"] # Blank
                 /\ Cardinality(given) <= 1
                 /\ partial \/ given # {}
                 /\ Truthy(attrs, "ssh_passphrase") =>
                      \E k \in keys : Truthy(attrs, k) \/ Truthy(row, k)
        other == IF row = NoInstance \/ given = {} THEN {} ELSE KeyMethods \ given
    IN  AcceptIf(valid, Over(AllNone(other), attrs))

\* AuthTokenOrUserPassSerializerV1.validate: the fields a partial request leaves
\* out come from the row.
ValidateOneOfV1(row, attrs, partial) ==
    LET modes  == DetectProvidedAuth(Take(row, AuthTokenOrUserPassSerializerV1.fields), attrs, partial)
        filled == IF partial
                  THEN Over(attrs, Take(row, AuthTokenOrUserPassSerializerV1.fields))
                  ELSE attrs
    IN  {Over(AllNone(AuthTokenOrUserPassSerializerV1.fields \ mode.fields), Take(filled, mode.fields)) :
            mode \in {m \in modes : Cardinality(modes) = 1 /\ HasRequired(m, filled, FALSE)}}

ValidateV1(row, attrs, partial) ==
    CASE cred_type = "network" -> ValidateNetworkV1(row, attrs, partial)
      [] cred_type = "openshift" -> ValidateOneOfV1(row, attrs, partial)
      [] OTHER -> AcceptIf(HasRequired(SerializerByTypeV1[cred_type], attrs, partial), attrs)

SerializerFields(api) ==
    IF api = "v1" THEN SerializerByTypeV1[cred_type].fields ELSE SerializerByType[cred_type].fields

Validate(api, row, data, partial) ==
    IF api = "v1"
    THEN ValidateV1(row, Take(data, SerializerFields(api)), partial)
    ELSE ValidateV2(row, Take(data, SerializerFields(api)), partial)

\* What a request may carry.
Requests(api) ==
    UNION {{data \in [given -> {None, Blank, Text, Marked}] : \A f \in given : data[f] \in GivenValues[f]} :
            given \in {g \in SUBSET SerializerFields(api) : Cardinality(g) <= MaxGiven}}

\* Credential.is_encrypted: the marker occurs in the value.
IsEncrypted(value) == value \in {Encrypted, EncryptedTwice, Marked}

EncryptAlways(row) ==
    [f \in Fields |-> IF f \notin ENCRYPTED_FIELDS \/ row[f] \in {None, Blank} THEN row[f]
                      ELSE IF row[f] = Text THEN Encrypted ELSE EncryptedTwice]

\* Credential.encrypt_fields: what is taken for ciphertext is left alone.
EncryptFields(row) ==
    [f \in Fields |-> IF f \in ENCRYPTED_FIELDS /\ Truthy(row, f) /\ ~IsEncrypted(row[f])
                      THEN Encrypted ELSE row[f]]

-----------------------------------------------------------------------------
CredentialInit ==
    /\ cred_type \in CredTypes
    /\ credential = None
    /\ instance = None
    /\ vault_token = FALSE
    /\ written = "v2"

\* POST: the serializer's save inserts the row.
CreateCredential ==
    /\ credential = None
    /\ \E api \in {"v1", "v2"} : \E data \in Requests(api) :
        \E attrs \in Validate(api, NoInstance, data, FALSE) :
            /\ credential' = EncryptFields(Over(attrs, EmptyRow))
            /\ written' = api
    /\ UNCHANGED <<cred_type, instance, vault_token>>

\* Model.save writes every column of the copy, and inserts it again if the row
\* has gone.
Save(copy, attrs) == EncryptFields(Over(attrs, copy))

\* PUT or PATCH of a copy of the row: validate against the copy, save the copy.
\* A request the serializer refuses answers 400 and saves nothing.
Saved(api, copy, partial) ==
    UNION {{Save(copy, attrs) : attrs \in Validate(api, copy, data, partial)} :
           data \in Requests(api)}

Update(copy) ==
    \E api \in {"v1", "v2"}, partial \in BOOLEAN :
        /\ credential' \in Saved(api, copy, partial)
        /\ written' = api

\* An update that nothing overlaps, get_object included.
UpdateCredential ==
    /\ credential # None
    /\ Update(credential)
    /\ UNCHANGED <<cred_type, instance, vault_token>>

\* An update that others overlap: get_object.
FetchCredential ==
    /\ credential # None
    /\ instance = None
    /\ instance' = credential
    /\ UNCHANGED <<cred_type, credential, vault_token, written>>

\* Its second half, later.  Of two updates in flight the one that saves first
\* may as well have fetched last, so one such copy shows every overlap of two.
FinishUpdate ==
    /\ instance # None
    /\ Update(instance)
    /\ instance' = None
    /\ UNCHANGED <<cred_type, vault_token>>

\* DELETE of a credential no source uses.
DestroyCredential ==
    /\ credential # None
    /\ credential' = None
    /\ UNCHANGED <<cred_type, instance, vault_token, written>>

\* The HashiCorp Vault configuration is stored or deleted; only the types with a
\* vault path look at it, so it stays put for the others.
ConfigureVault ==
    /\ "vault_secret_path" \in SerializerByType[cred_type].fields
    /\ vault_token' = ~vault_token
    /\ UNCHANGED <<cred_type, credential, instance, written>>

CredentialNext ==
    \/ CreateCredential
    \/ UpdateCredential
    \/ FetchCredential
    \/ FinishUpdate
    \/ DestroyCredential
    \/ ConfigureVault

CredentialSpec == CredentialInit /\ [][CredentialNext]_credentialVars

-----------------------------------------------------------------------------
Methods(row) ==
    {m \in KeyMethods \cup {"auth_token", "vault_secret_path"} : Truthy(row, m)}

\* However often the row is fetched and saved again, and by whichever version of
\* the API (the v1 serializer feeds the row's own ciphertext back), a secret is at
\* rest as ciphertext that was encrypted once.  The one text that is kept as it was
\* given is a text that contains the marker, which Credential.is_encrypted takes
\* for ciphertext.
SecretsEncryptedOnce ==
    credential # None =>
        \A f \in ENCRYPTED_FIELDS : credential[f] \in {None, Blank, Encrypted, Marked}

\* A credential has one authentication method at most, whatever mix of v1 and v2
\* requests wrote it and however they overlapped: one of password, ssh_key,
\* ssh_keyfile and auth_token ("exclusively", HC_PWD_OR_KEYFILE_OR_KEY; "not both",
\* TOKEN_OR_USER_PASS_NOT_BOTH) and, after a v2 write, the HashiCorp Vault path
\* counts too, even on a row where a v1 write, which does not know the vault
\* fields, had left two (CredentialSerializerV2.validate clears what it does not use).
OneMethod ==
    credential # None =>
        Cardinality(Methods(credential)
                    \ IF written = "v2" THEN {} ELSE {"vault_secret_path"}) <= 1
=============================================================================
