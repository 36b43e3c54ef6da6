---------------------------- MODULE Stores_proofs ----------------------------
(***************************************************************************)
(* What the credentials and three stores of the server promise while       *)
(* requests and tasks overlap: the Vault definition, the cached            *)
(* deployments report and the report row with its aggregate.  Each has an  *)
(* inductive invariant of its own (CredentialSafe, VaultSafe, CacheSafe,   *)
(* ReportSafe).                                                            *)
(***************************************************************************)
EXTENDS CredentialForms, HashiCorpVault, ReportCache, ReportRow, FiniteSetTheorems, TLAPS

-----------------------------------------------------------------------------
(***************************************************************************)
(* Dictionaries.                                                           *)
(***************************************************************************)
(* What the entries of one dictionary over another are (dict.update). *)
LEMMA OverFacts ==
    ASSUME NEW dict, NEW other
    PROVE  /\ DOMAIN Over(dict, other) = DOMAIN dict \cup DOMAIN other
           /\ \A k \in DOMAIN dict : Over(dict, other)[k] = dict[k]
           /\ \A k \in DOMAIN other \ DOMAIN dict : Over(dict, other)[k] = other[k]
  BY Zenon DEF Over, Has

(* The result is a dictionary of these entries and nothing else. *)
LEMMA OverFunction ==
    ASSUME NEW dict, NEW other
    PROVE  Over(dict, other) = [k \in DOMAIN Over(dict, other) |-> Over(dict, other)[k]]
  BY Zenon DEF Over, Has

(* A dictionary of one entry, and of none. *)
LEMMA EntryFacts ==
    ASSUME NEW key, NEW value
    PROVE  DOMAIN Entry(key, value) = {key} /\ Entry(key, value)[key] = value
  BY Zenon DEF Entry

(* The empty dictionary has no entry. *)
LEMMA NoEntries == DOMAIN << >> = {}
  OBVIOUS

-----------------------------------------------------------------------------
(***************************************************************************)
(* Credentials: for every sequence of v1 and v2 requests, overlapping or    *)
(* not, a secret is encrypted once and a row has one method.               *)
(***************************************************************************)
Values == {None, Blank, Text, Encrypted, Marked}

SavedValues == {None, Blank, Encrypted, Marked}

(* The fields that a serializer of either version can write. *)
Used == SerializerByType[cred_type].fields \cup SerializerByTypeV1[cred_type].fields

(* The methods that both versions know, and all of them. *)
Exclusive == KeyMethods \cup {"auth_token"}

AnyMethod == Exclusive \cup {"vault_secret_path"}

AtMostOne(rec, methods) == \A m, n \in methods : Truthy(rec, m) /\ Truthy(rec, n) => m = n

(* What holds of the row and of the copy of an update in flight: no secret is *)
(* a text without the marker, what the type has no use for is empty, and the  *)
(* methods that both versions know exclude each other.                      *)
RowSafe(rec) ==
    /\ rec \in [Fields -> Values]
    /\ \A f \in ENCRYPTED_FIELDS : rec[f] \in SavedValues
    /\ \A f \in Fields \ Used : rec[f] = None
    /\ AtMostOne(rec, Exclusive)

(* The inductive invariant. *)
CredentialSafe ==
    /\ cred_type \in CredTypes
    /\ credential # None =>
          RowSafe(credential) /\ (written = "v2" => AtMostOne(credential, AnyMethod))
    /\ instance # None => RowSafe(instance)

(* What each type of credential uses. *)
LEMMA Tables ==
    /\ cred_type = "network" =>
          /\ SerializerByType[cred_type] = SshCredentialSerializer
          /\ SerializerByTypeV1[cred_type] = NetworkCredentialSerializerV1
          /\ Used = {"username", "password", "ssh_key", "ssh_passphrase", "become_password",
                    "ssh_keyfile"}
    /\ cred_type = "openshift" =>
          /\ SerializerByType[cred_type] = AuthTokenOrUserPassSerializer
          /\ SerializerByTypeV1[cred_type] = AuthTokenOrUserPassSerializerV1
          /\ Used = {"auth_token", "username", "password", "vault_secret_path", "vault_secret_key"}
    /\ cred_type = "ansible" =>
          /\ SerializerByType[cred_type] = UsernamePasswordOrVaultSerializer
          /\ SerializerByTypeV1[cred_type] = UsernamePasswordSerializer
          /\ Used = {"username", "password", "vault_secret_path", "vault_secret_key"}
    /\ cred_type \in {"vcenter", "satellite"} =>
          /\ SerializerByType[cred_type] = UsernamePasswordSerializer
          /\ SerializerByTypeV1[cred_type] = UsernamePasswordSerializer
          /\ Used = {"username", "password"}
    /\ cred_type = "rhacs" =>
          /\ SerializerByType[cred_type] = AuthTokenSerializer
          /\ SerializerByTypeV1[cred_type] = AuthTokenSerializer
          /\ Used = {"auth_token"}
  <1> DEFINE t2 == SerializerByType
             t1 == SerializerByTypeV1
  <1>1. /\ t2["network"] = SshCredentialSerializer
        /\ t2["openshift"] = AuthTokenOrUserPassSerializer
        /\ t2["ansible"] = UsernamePasswordOrVaultSerializer
        /\ t2["vcenter"] = UsernamePasswordSerializer
        /\ t2["satellite"] = UsernamePasswordSerializer
        /\ t2["rhacs"] = AuthTokenSerializer
    BY DEF SerializerByType
  <1>2. /\ t1["network"] = NetworkCredentialSerializerV1
        /\ t1["openshift"] = AuthTokenOrUserPassSerializerV1
        /\ t1["ansible"] = UsernamePasswordSerializer
        /\ t1["vcenter"] = UsernamePasswordSerializer
        /\ t1["satellite"] = UsernamePasswordSerializer
        /\ t1["rhacs"] = AuthTokenSerializer
    BY DEF SerializerByTypeV1
  <1> HIDE DEF t1, t2
  <1>3. /\ SshCredentialSerializer.fields =
              {"username", "password", "ssh_key", "ssh_passphrase", "become_password"}
        /\ NetworkCredentialSerializerV1.fields =
              {"username", "password", "ssh_key", "ssh_passphrase", "become_password", "ssh_keyfile"}
        /\ AuthTokenOrUserPassSerializer.fields =
              {"auth_token", "username", "password", "vault_secret_path", "vault_secret_key"}
        /\ AuthTokenOrUserPassSerializerV1.fields = {"auth_token", "username", "password"}
        /\ UsernamePasswordOrVaultSerializer.fields =
              {"username", "password", "vault_secret_path", "vault_secret_key"}
        /\ UsernamePasswordSerializer.fields = {"username", "password"}
        /\ AuthTokenSerializer.fields = {"auth_token"}
    BY DEF SshCredentialSerializer, NetworkCredentialSerializerV1, AuthTokenOrUserPassSerializer,
           AuthTokenOrUserPassSerializerV1, UsernamePasswordOrVaultSerializer,
           UsernamePasswordSerializer, AuthTokenSerializer, VaultSecretPathSerializer
  <1>4. Used = t2[cred_type].fields \cup t1[cred_type].fields
    BY DEF Used, t1, t2
  <1>. QED BY <1>1, <1>2, <1>3, <1>4 DEF t1, t2

(* The attributes that a serializer of this type may hand to save. *)
Fits(attrs) ==
    /\ DOMAIN attrs \subseteq Fields
    /\ \A f \in DOMAIN attrs : attrs[f] \in Values /\ (f \notin Used => attrs[f] = None)

(* None and the texts of a field are different. *)
LEMMA TextsDiffer ==
    /\ None # Blank /\ None # Text /\ None # Encrypted /\ None # Marked
    /\ Blank # Text /\ Blank # Encrypted /\ Text # Encrypted /\ Blank # Marked /\ Text # Marked
  <1>1. Blank # Text /\ Blank # Encrypted /\ Text # Encrypted /\ Blank # Marked /\ Text # Marked
    BY DEF Blank, Text, Encrypted, Marked
  <1>2. None # Blank /\ None # Text /\ None # Encrypted /\ None # Marked
    BY NoneIsNoText, Zenon
  <1>. QED BY <1>1, <1>2, Zenon

(* Credential.save of attributes that fit the type: what is stored is safe, if the  *)
(* attributes over the row leave one method.                                *)
LEMMA StoredSafe ==
    ASSUME NEW rec, RowSafe(rec), NEW attrs, Fits(attrs),
           AtMostOne(Over(attrs, rec), Exclusive)
    PROVE  /\ RowSafe(EncryptFields(Over(attrs, rec)))
           /\ AtMostOne(Over(attrs, rec), AnyMethod) =>
                 AtMostOne(EncryptFields(Over(attrs, rec)), AnyMethod)
  <1> DEFINE all == Over(attrs, rec)
             saved == EncryptFields(all)
  <1>1. DOMAIN rec = Fields /\ \A f \in Fields : rec[f] \in Values
    BY Zenon DEF RowSafe
  <1>0. /\ DOMAIN all = DOMAIN attrs \cup DOMAIN rec
        /\ \A f \in DOMAIN attrs : all[f] = attrs[f]
        /\ \A f \in DOMAIN rec \ DOMAIN attrs : all[f] = rec[f]
    BY OverFacts, Zenon
  <1>2. DOMAIN all = Fields
    BY <1>0, <1>1, Zenon DEF Fits
  <1>3. \A f \in Fields : all[f] \in Values /\ (f \notin Used => all[f] = None)
    <2> TAKE f \in Fields
    <2>1. CASE f \in DOMAIN attrs
      BY <1>0, <2>1, Zenon DEF Fits
    <2>2. CASE f \notin DOMAIN attrs
      <3>1. all[f] = rec[f]
        BY <1>0, <1>1, <2>2, Zenon
      <3>. QED BY <1>1, <3>1, Zenon DEF RowSafe
    <2>. QED BY <2>1, <2>2, Zenon
  <1> HIDE DEF all
  <1>4. /\ DOMAIN saved = Fields
        /\ \A f \in Fields :
              saved[f] = IF f \in ENCRYPTED_FIELDS /\ Truthy(all, f) /\ ~IsEncrypted(all[f])
                         THEN Encrypted ELSE all[f]
    BY Zenon DEF EncryptFields
  <1>5. saved = [f \in Fields |-> saved[f]]
    BY <1>4, Zenon DEF EncryptFields
  <1> HIDE DEF saved
  <1>6. \A f \in Fields : saved[f] \in Values
    BY <1>3, <1>4, Zenon DEF Values
  <1>7. saved \in [Fields -> Values]
    BY <1>5, <1>6, Zenon
  <1>8. \A f \in ENCRYPTED_FIELDS : saved[f] \in SavedValues
    <2>1. ENCRYPTED_FIELDS \subseteq Fields
      BY Zenon DEF Fields
    <2> TAKE f \in ENCRYPTED_FIELDS
    <2>2. CASE Truthy(all, f) /\ ~IsEncrypted(all[f])
      BY <1>4, <2>1, <2>2, Zenon DEF SavedValues
    <2>3. CASE ~Truthy(all, f)
      <3>1. saved[f] = all[f] /\ all[f] \in {None, Blank}
        BY <1>2, <1>4, <2>1, <2>3, Zenon DEF Truthy
      <3>. QED BY <3>1, Zenon DEF SavedValues
    <2>4. CASE IsEncrypted(all[f])
      <3>1. saved[f] = all[f] /\ all[f] \in Values
        BY <1>3, <1>4, <2>1, <2>4, Zenon
      <3>2. all[f] # Text
        BY <2>4, TextsDiffer, Zenon DEF IsEncrypted, Text, EncryptedTwice
      <3>. QED BY <3>1, <3>2, Zenon DEF Values, SavedValues
    <2>. QED BY <2>2, <2>3, <2>4, Zenon
  <1>9. \A f \in Fields \ Used : saved[f] = None
    BY <1>3, <1>4, Zenon DEF Truthy
  <1>10. \A m : Truthy(saved, m) => Truthy(all, m)
    BY <1>2, <1>4, TextsDiffer, Zenon DEF Truthy
  <1>11. \A methods : AtMostOne(all, methods) => AtMostOne(saved, methods)
    BY <1>10, Zenon DEF AtMostOne
  <1>12. AtMostOne(all, Exclusive)
    BY Zenon DEF all
  <1>13. RowSafe(saved)
    BY <1>7, <1>8, <1>9, <1>11, <1>12, Zenon DEF RowSafe
  <1>. QED BY <1>11, <1>13, Zenon DEF all, saved

(* A request brings only fields of the serializer that reads it. *)
LEMMA Brought ==
    ASSUME NEW api \in {"v1", "v2"}, NEW data \in Requests(api)
    PROVE  LET attrs == Take(data, SerializerFields(api))
           IN  /\ DOMAIN attrs \subseteq SerializerFields(api)
               /\ \A f \in DOMAIN attrs : attrs[f] \in Values
  <1>1. \A f \in DOMAIN data : data[f] \in {None, Blank, Text, Marked}
    BY Zenon DEF Requests
  <1>2. /\ DOMAIN Take(data, SerializerFields(api)) = DOMAIN data \cap SerializerFields(api)
        /\ \A f \in DOMAIN data \cap SerializerFields(api) :
              Take(data, SerializerFields(api))[f] = data[f]
    BY Zenon DEF Take
  <1>. QED BY <1>1, <1>2, Zenon DEF Values

(* The fields of every serializer are columns. *)
LEMMA UsedFields ==
    ASSUME cred_type \in CredTypes
    PROVE  /\ Used \subseteq Fields
           /\ \A api \in {"v1", "v2"} : SerializerFields(api) \subseteq Used
  <1>1. Used \subseteq Fields
    <2>1. {"username", "password", "auth_token", "ssh_key", "ssh_passphrase", "become_password",
           "ssh_keyfile", "vault_secret_path", "vault_secret_key"} \subseteq Fields
      BY Zenon DEF Fields, ENCRYPTED_FIELDS
    <2>2. cred_type \in {"network", "openshift", "ansible", "vcenter", "satellite", "rhacs"}
      BY Zenon DEF CredTypes
    <2>. QED BY <2>1, <2>2, Tables, Zenon
  <1>2. \A api \in {"v1", "v2"} : SerializerFields(api) \subseteq Used
    BY Zenon DEF SerializerFields, Used
  <1>. QED BY <1>1, <1>2, Zenon

(* What CredentialSerializerV2.validate leaves of a request: everything is given or  *)
(* cleared, so that only the serializer's own fields can hold a value.        *)
LEMMA ClearedRow ==
    ASSUME NEW serializer, serializer.fields \subseteq Fields, cred_type \in CredTypes,
           NEW attrs, DOMAIN attrs \subseteq Used,
           \A f \in DOMAIN attrs : attrs[f] \in Values
    PROVE  LET a == Cleared(serializer, attrs)
           IN  /\ Fits(a)
               /\ Fields \ serializer.fields \subseteq DOMAIN a
               /\ \A f \in Fields \ serializer.fields : a[f] = None
  <1> DEFINE rest == AllNone(Fields \ serializer.fields)
             own  == Take(attrs, serializer.fields)
             a    == Over(rest, own)
  <1>1. DOMAIN rest = Fields \ serializer.fields /\ \A f \in DOMAIN rest : rest[f] = None
    BY Zenon DEF AllNone
  <1>2. /\ DOMAIN own = DOMAIN attrs \cap serializer.fields
        /\ \A f \in DOMAIN own : own[f] = attrs[f]
    BY Zenon DEF Take
  <1> HIDE DEF rest, own
  <1>3. /\ DOMAIN a = DOMAIN rest \cup DOMAIN own
        /\ \A f \in DOMAIN rest : a[f] = rest[f]
        /\ \A f \in DOMAIN own \ DOMAIN rest : a[f] = own[f]
    BY OverFacts, Zenon
  <1>4. a = Cleared(serializer, attrs)
    BY Zenon DEF Cleared, rest, own
  <1> HIDE DEF a
  <1>5. DOMAIN a \subseteq Fields
    BY <1>1, <1>2, <1>3, Zenon
  <1>6. \A f \in Fields \ serializer.fields : f \in DOMAIN a /\ a[f] = None
    BY <1>1, <1>3, Zenon
  <1>7. \A f \in DOMAIN a : a[f] \in Values /\ (f \notin Used => a[f] = None)
    <2> TAKE f \in DOMAIN a
    <2>1. CASE f \in DOMAIN rest
      BY <1>1, <1>3, <2>1, Zenon DEF Values
    <2>2. CASE f \notin DOMAIN rest
      BY <1>2, <1>3, <2>2, Zenon
    <2>. QED BY <2>1, <2>2, Zenon
  <1>8. Fits(a)
    BY <1>5, <1>7, Zenon DEF Fits
  <1>. QED BY <1>4, <1>6, <1>8, Zenon

(* Attributes that empty all methods but one leave that one. *)
LEMMA OthersEmptied ==
    ASSUME NEW rec, NEW attrs, NEW only,
           \A m \in AnyMethod \ {only} : m \in DOMAIN attrs /\ attrs[m] = None
    PROVE  AtMostOne(Over(attrs, rec), AnyMethod) /\ AtMostOne(Over(attrs, rec), Exclusive)
  <1>0. \A m \in DOMAIN attrs : Over(attrs, rec)[m] = attrs[m]
    BY OverFacts, Zenon
  <1>1. \A m \in AnyMethod \ {only} : Over(attrs, rec)[m] = None
    BY <1>0, Zenon
  <1>2. \A m \in AnyMethod : Truthy(Over(attrs, rec), m) => m = only
    BY <1>1, Zenon DEF Truthy
  <1>3. Exclusive \subseteq AnyMethod
    BY Zenon DEF AnyMethod
  <1>. QED BY <1>2, <1>3, Zenon DEF AtMostOne

(* The three serializers that one mode of authentication has. *)
Modes == {UsernamePasswordSerializer, AuthTokenSerializer, VaultSecretPathSerializer}

(* Their fields are columns, with one method of authentication among them. *)
LEMMA ModeFields ==
    ASSUME NEW mode \in Modes
    PROVE  /\ mode.fields \subseteq Fields
           /\ \E only : AnyMethod \cap mode.fields \subseteq {only}
  <1>1. CASE mode = UsernamePasswordSerializer
    <2>1. mode.fields = {"username", "password"}
      BY <1>1 DEF UsernamePasswordSerializer
    <2>2. AnyMethod \cap mode.fields \subseteq {"password"}
      BY <2>1 DEF AnyMethod, Exclusive, KeyMethods
    <2>. QED BY <2>1, <2>2, Zenon DEF Fields, ENCRYPTED_FIELDS
  <1>2. CASE mode = AuthTokenSerializer
    <2>1. mode.fields = {"auth_token"}
      BY <1>2 DEF AuthTokenSerializer
    <2>2. AnyMethod \cap mode.fields \subseteq {"auth_token"}
      BY <2>1, Zenon
    <2>. QED BY <2>1, <2>2, Zenon DEF Fields, ENCRYPTED_FIELDS
  <1>3. CASE mode = VaultSecretPathSerializer
    <2>1. mode.fields = {"vault_secret_path", "vault_secret_key"}
      BY <1>3 DEF VaultSecretPathSerializer
    <2>2. AnyMethod \cap mode.fields \subseteq {"vault_secret_path"}
      BY <2>1 DEF AnyMethod, Exclusive, KeyMethods
    <2>. QED BY <2>1, <2>2, Zenon DEF Fields, ENCRYPTED_FIELDS
  <1>. QED BY <1>1, <1>2, <1>3, Zenon DEF Modes

(* What a validation may hand to save: it fits the type and leaves one method of    *)
(* those its version of the API knows.                                      *)
Sound(attrs, rec, methods) ==
    /\ Fits(attrs)
    /\ AtMostOne(Over(attrs, rec), Exclusive)
    /\ AtMostOne(Over(attrs, rec), methods)

(* The v2 serializers of one mode. *)
LEMMA SimpleSound ==
    ASSUME NEW mode \in Modes, cred_type \in CredTypes,
           NEW attrs, DOMAIN attrs \subseteq Used,
           \A f \in DOMAIN attrs : attrs[f] \in Values,
           NEW rec, NEW partial, NEW a \in ValidateSimple(mode, attrs, partial)
    PROVE  Sound(a, rec, AnyMethod)
  <1>1. a = Cleared(mode, attrs)
    BY Zenon DEF ValidateSimple, AcceptIf
  <1>2. mode.fields \subseteq Fields
    BY ModeFields, Zenon
  <1>3. /\ Fits(a)
        /\ \A f \in Fields \ mode.fields : f \in DOMAIN a /\ a[f] = None
    BY <1>1, <1>2, ClearedRow, Zenon
  <1>4. PICK only : AnyMethod \cap mode.fields \subseteq {only}
    BY ModeFields, Zenon
  <1>5. AnyMethod \subseteq Fields
    BY Zenon DEF AnyMethod, Exclusive, KeyMethods, Fields, ENCRYPTED_FIELDS
  <1>6. \A m \in AnyMethod \ {only} : m \in DOMAIN a /\ a[m] = None
    BY <1>3, <1>4, <1>5, Zenon
  <1>. QED BY <1>3, <1>6, OthersEmptied, Zenon DEF Sound

(* SshCredentialSerializerV2.validate: the key file goes, and with a password the   *)
(* key, with a key the password.                                           *)
LEMMA SshSound ==
    ASSUME cred_type = "network", NEW attrs, DOMAIN attrs \subseteq Used,
           \A f \in DOMAIN attrs : attrs[f] \in Values,
           NEW rec, NEW old, NEW partial, NEW a \in ValidateSsh(old, attrs, partial)
    PROVE  Sound(a, rec, AnyMethod)
  <1> DEFINE has == HasPasswordOrSshKey(old, attrs, partial)
             other == IF "password" \in has THEN {"ssh_key", "ssh_passphrase"} ELSE {"password"}
             blankPhrase == {f \in DOMAIN attrs : f = "ssh_passphrase" /\ attrs[f] = Blank}
             gone == other \cup blankPhrase \cup {"ssh_keyfile"}
             kept == Cleared(SshCredentialSerializer, attrs)
  <1>0. cred_type \in CredTypes
    BY Zenon DEF CredTypes
  <1>1. a = Over(AllNone(gone), kept)
    BY Zenon DEF ValidateSsh, ValidateSimple, AcceptIf
  <1>2. SshCredentialSerializer.fields =
           {"username", "password", "ssh_key", "ssh_passphrase", "become_password"}
    BY DEF SshCredentialSerializer
  <1>3. SshCredentialSerializer.fields \subseteq Fields
    BY <1>2, Zenon DEF Fields, ENCRYPTED_FIELDS
  <1>4. /\ Fits(kept)
        /\ \A f \in Fields \ SshCredentialSerializer.fields : f \in DOMAIN kept /\ kept[f] = None
    BY <1>0, <1>3, ClearedRow, Zenon
  <1>5. gone \subseteq Fields
    BY Zenon DEF Fields, ENCRYPTED_FIELDS
  <1>6. DOMAIN AllNone(gone) = gone /\ \A f \in gone : AllNone(gone)[f] = None
    BY Zenon DEF AllNone
  <1>7. "ssh_keyfile" \in gone /\ ("ssh_key" \in gone \/ "password" \in gone)
    BY Zenon
  <1> HIDE DEF gone, kept
  <1>8. /\ DOMAIN a = gone \cup DOMAIN kept
        /\ \A f \in gone : a[f] = None
        /\ \A f \in DOMAIN kept \ gone : a[f] = kept[f]
    <2> DEFINE none == AllNone(gone)
    <2> HIDE DEF none
    <2>1. /\ DOMAIN Over(none, kept) = DOMAIN none \cup DOMAIN kept
          /\ \A f \in DOMAIN none : Over(none, kept)[f] = none[f]
          /\ \A f \in DOMAIN kept \ DOMAIN none : Over(none, kept)[f] = kept[f]
      BY OverFacts, Zenon
    <2>2. DOMAIN none = gone /\ \A f \in gone : none[f] = None
      BY <1>6, Zenon DEF none
    <2>3. a = Over(none, kept)
      BY <1>1, Zenon DEF none
    <2>. QED BY <2>1, <2>2, <2>3, Zenon
  <1>9. Fits(a)
    <2>1. DOMAIN a \subseteq Fields
      BY <1>4, <1>5, <1>8, Zenon DEF Fits
    <2>2. \A f \in DOMAIN a : a[f] \in Values /\ (f \notin Used => a[f] = None)
      BY <1>4, <1>8, Zenon DEF Fits, Values
    <2>. QED BY <2>1, <2>2, Zenon DEF Fits
  <1>10. \A f \in {"auth_token", "vault_secret_path", "ssh_keyfile"} : f \in DOMAIN a /\ a[f] = None
    <2>1. {"auth_token", "vault_secret_path"} \subseteq Fields \ SshCredentialSerializer.fields
      BY <1>2 DEF Fields, ENCRYPTED_FIELDS
    <2>. QED BY <1>4, <1>7, <1>8, <2>1, Zenon
  <1>11. CASE "ssh_key" \in gone
    <2>1. \A m \in AnyMethod \ {"password"} : m \in DOMAIN a /\ a[m] = None
      BY <1>8, <1>10, <1>11, Zenon DEF AnyMethod, Exclusive, KeyMethods
    <2>. QED BY <1>9, <2>1, OthersEmptied, Zenon DEF Sound
  <1>12. CASE "password" \in gone
    <2>1. \A m \in AnyMethod \ {"ssh_key"} : m \in DOMAIN a /\ a[m] = None
      BY <1>8, <1>10, <1>12, Zenon DEF AnyMethod, Exclusive, KeyMethods
    <2>. QED BY <1>9, <2>1, OthersEmptied, Zenon DEF Sound
  <1>. QED BY <1>7, <1>11, <1>12, Zenon

(* Every v2 serializer. *)
LEMMA V2Sound ==
    ASSUME cred_type \in CredTypes, NEW attrs, DOMAIN attrs \subseteq Used,
           \A f \in DOMAIN attrs : attrs[f] \in Values,
           NEW rec, NEW old, NEW partial, NEW a \in ValidateV2(old, attrs, partial)
    PROVE  Sound(a, rec, AnyMethod)
  <1>1. CASE cred_type = "network"
    <2>1. a \in ValidateSsh(old, attrs, partial)
      BY <1>1, Zenon DEF ValidateV2
    <2>. QED BY <1>1, <2>1, SshSound, Zenon
  <1>2. CASE cred_type \in {"openshift", "ansible"}
    <2>1. a \in ValidateOneOf(old, attrs, partial)
      BY <1>2 DEF ValidateV2
    <2>2. DetectProvidedAuth(old, attrs, partial) \subseteq Modes
      BY Zenon DEF DetectProvidedAuth, ProvidedAuth, Modes
    <2>3. PICK mode \in Modes : a \in ValidateSimple(mode, attrs, partial)
      BY <2>1, <2>2, Zenon DEF ValidateOneOf, ValidateVaultSecretPath, Modes
    <2>. QED BY <2>3, SimpleSound, Zenon
  <1>3. CASE cred_type \in {"vcenter", "satellite", "rhacs"}
    <2>1. a \in ValidateSimple(SerializerByType[cred_type], attrs, partial)
      BY <1>3 DEF ValidateV2
    <2>2. SerializerByType[cred_type] \in Modes
      BY <1>3, Tables, Zenon DEF Modes
    <2>. QED BY <2>1, <2>2, SimpleSound, Zenon
  <1>. QED BY <1>1, <1>2, <1>3, Zenon DEF CredTypes

(* Attributes that give no field outside Used, over a safe row, where the type has   *)
(* one of the exclusive methods.                                            *)
LEMMA OneExclusive ==
    ASSUME NEW rec, RowSafe(rec), NEW attrs, Fits(attrs), NEW only,
           Exclusive \cap Used \subseteq {only}
    PROVE  AtMostOne(Over(attrs, rec), Exclusive)
  <1>1. Exclusive \subseteq Fields
    BY Zenon DEF Exclusive, KeyMethods, Fields, ENCRYPTED_FIELDS
  <1>2. /\ \A f \in DOMAIN attrs : Over(attrs, rec)[f] = attrs[f]
        /\ \A f \in DOMAIN rec \ DOMAIN attrs : Over(attrs, rec)[f] = rec[f]
    BY OverFacts, Zenon
  <1>3. DOMAIN rec = Fields
    BY Zenon DEF RowSafe
  <1>4. \A m \in Exclusive \ Used : Over(attrs, rec)[m] = None
    BY <1>1, <1>2, <1>3, Zenon DEF RowSafe, Fits
  <1>5. \A m \in Exclusive : Truthy(Over(attrs, rec), m) => m = only
    BY <1>4, Zenon DEF Truthy
  <1>. QED BY <1>5, Zenon DEF AtMostOne

(* The row a serializer of v1 validates against: the copy of an update, or none for   *)
(* a create, which is never partial and saves over the empty row.             *)
Instance(old, rec, partial) ==
    old = rec \/ (old = NoInstance /\ rec = EmptyRow /\ ~partial)

(* A set of one element at most has no two. *)
LEMMA TwoOfOne ==
    ASSUME NEW S, IsFiniteSet(S), Cardinality(S) <= 1, NEW x \in S, NEW y \in S
    PROVE  x = y
  <1>1. CASE x # y
    <2>1. IsFiniteSet(S \ {x}) /\ Cardinality(S \ {x}) = Cardinality(S) - 1
      BY FS_RemoveElement, Zenon
    <2>2. y \in S \ {x}
      BY <1>1, Zenon
    <2>3. Cardinality(S \ {x}) # 0
      BY <2>1, <2>2, FS_EmptySet, Zenon
    <2>4. Cardinality(S) \in Nat /\ Cardinality(S \ {x}) \in Nat
      BY <2>1, FS_CardinalityType, Zenon
    <2>. QED BY <2>1, <2>3, <2>4
  <1>. QED BY <1>1, Zenon

(* NetworkCredentialSerializerV1.validate: at most one method is given, and the     *)
(* others are emptied when one is.                                         *)
LEMMA NetworkV1Sound ==
    ASSUME cred_type = "network", NEW attrs, DOMAIN attrs \subseteq Used,
           \A f \in DOMAIN attrs : attrs[f] \in Values,
           NEW rec, RowSafe(rec), NEW old, NEW partial, Instance(old, rec, partial),
           NEW a \in ValidateNetworkV1(old, attrs, partial)
    PROVE  Sound(a, rec, Exclusive)
  <1> DEFINE given == {m \in KeyMethods : Truthy(attrs, m)}
             other == IF old = NoInstance \/ given = {} THEN {} ELSE KeyMethods \ given
             none  == AllNone(other)
  <1>1. a = Over(none, attrs) /\ Cardinality(given) <= 1
    BY Zenon DEF ValidateNetworkV1, AcceptIf
  <1>2. DOMAIN none = other /\ \A f \in other : none[f] = None
    BY Zenon DEF AllNone
  <1>3. \A m \in KeyMethods : Truthy(attrs, m) <=> m \in given
    BY Zenon
  <1>4. other \subseteq KeyMethods /\ (old # NoInstance /\ given # {} => other = KeyMethods \ given)
    BY Zenon
  <1>5. \A m, n \in given : m = n
    <2>1. IsFiniteSet(KeyMethods)
      <3>1. IsFiniteSet({"password"} \cup {"ssh_key"}) /\ IsFiniteSet({"ssh_keyfile"})
        BY FS_Singleton, FS_Union, Zenon
      <3>2. KeyMethods = ({"password"} \cup {"ssh_key"}) \cup {"ssh_keyfile"}
        BY Zenon DEF KeyMethods
      <3>. QED BY <3>1, <3>2, FS_Union, Zenon
    <2>2. given \subseteq KeyMethods
      BY Zenon
    <2>3. IsFiniteSet(given)
      BY <2>1, <2>2, FS_Subset, Zenon
    <2> HIDE DEF given
    <2>. QED BY <1>1, <2>3, TwoOfOne, Zenon
  <1>6. other = {} \/ other = KeyMethods \ given
    BY Zenon
  <1> HIDE DEF given, other, none
  <1>7. /\ DOMAIN a = other \cup DOMAIN attrs
        /\ \A f \in other : a[f] = None
        /\ \A f \in DOMAIN attrs \ other : a[f] = attrs[f]
    <2>1. /\ DOMAIN Over(none, attrs) = DOMAIN none \cup DOMAIN attrs
          /\ \A f \in DOMAIN none : Over(none, attrs)[f] = none[f]
          /\ \A f \in DOMAIN attrs \ DOMAIN none : Over(none, attrs)[f] = attrs[f]
      BY OverFacts, Zenon
    <2>. QED BY <1>1, <1>2, <2>1, Zenon
  <1>8. Fits(a)
    <2>1. KeyMethods \subseteq Fields /\ Used \subseteq Fields
      BY UsedFields, Zenon DEF KeyMethods, Fields, ENCRYPTED_FIELDS, CredTypes
    <2>2. DOMAIN a \subseteq Fields
      BY <1>4, <1>7, <2>1, Zenon
    <2>3. \A f \in DOMAIN a : a[f] \in Values /\ (f \notin Used => a[f] = None)
      BY <1>7, Zenon DEF Values
    <2>. QED BY <2>2, <2>3, Zenon DEF Fits
  <1> DEFINE all == Over(a, rec)
  <1>9. /\ \A f \in DOMAIN a : all[f] = a[f]
        /\ \A f \in DOMAIN rec \ DOMAIN a : all[f] = rec[f]
    BY OverFacts, Zenon
  <1> HIDE DEF all
  <1>10. DOMAIN rec = Fields /\ KeyMethods \subseteq Fields /\ "auth_token" \in Fields
    BY Zenon DEF RowSafe, KeyMethods, Fields, ENCRYPTED_FIELDS
  <1>11. ~Truthy(all, "auth_token")
    <2>1. "auth_token" \notin Used
      BY Tables
    <2>2. "auth_token" \notin DOMAIN a
      <3>1. "auth_token" \notin KeyMethods
        BY DEF KeyMethods
      <3>. QED BY <1>4, <1>7, <2>1, <3>1, Zenon
    <2>3. all["auth_token"] = rec["auth_token"]
      BY <1>9, <1>10, <2>2, Zenon
    <2>. QED BY <1>10, <2>1, <2>3, Zenon DEF Truthy, RowSafe
  <1>12. \A m \in KeyMethods : Truthy(all, m) =>
            m \in given \/ (m \notin DOMAIN a /\ Truthy(rec, m))
    <2> SUFFICES ASSUME NEW m \in KeyMethods, Truthy(all, m), m \notin given
                 PROVE  m \notin DOMAIN a /\ Truthy(rec, m)
      BY Zenon
    <2>1. m \notin DOMAIN a
      <3>1. SUFFICES ASSUME m \in DOMAIN a PROVE FALSE
        BY Zenon
      <3>2. all[m] = a[m]
        BY <1>9, <3>1, Zenon
      <3>3. CASE m \in other
        BY <1>7, <3>2, <3>3, Zenon DEF Truthy
      <3>4. CASE m \notin other
        BY <1>3, <1>7, <3>1, <3>2, <3>4, Zenon DEF Truthy
      <3>. QED BY <3>3, <3>4, Zenon
    <2>2. all[m] = rec[m] /\ m \in DOMAIN rec
      BY <1>9, <1>10, <2>1, Zenon
    <2>. QED BY <2>1, <2>2, Zenon DEF Truthy
  <1>13. \A m, n \in KeyMethods : Truthy(all, m) /\ Truthy(all, n) => m = n
    <2> SUFFICES ASSUME NEW m \in KeyMethods, NEW n \in KeyMethods, Truthy(all, m), Truthy(all, n)
                 PROVE  m = n
      BY Zenon
    <2>1. CASE given = {}
      <3>1. Truthy(rec, m) /\ Truthy(rec, n)
        BY <1>12, <2>1, Zenon
      <3>. QED BY <3>1, Zenon DEF RowSafe, AtMostOne, Exclusive
    <2>2. CASE given # {} /\ old # NoInstance
      <3>1. KeyMethods \subseteq DOMAIN a \cup given
        BY <1>4, <1>7, <2>2, Zenon
      <3>2. m \in given /\ n \in given
        BY <1>12, <3>1, Zenon
      <3>. QED BY <1>5, <3>2, Zenon
    <2>3. CASE old = NoInstance
      <3>1. rec = EmptyRow
        <4>1. DOMAIN NoInstance # DOMAIN rec
          <5>1. DOMAIN NoInstance = {}
            BY DEF NoInstance
          <5>. QED BY <1>10, <5>1, Zenon
        <4>. QED BY <2>3, <4>1, Zenon DEF Instance
      <3>2. \A f \in Fields : rec[f] = None
        BY <3>1, Zenon DEF EmptyRow
      <3>3. m \in given /\ n \in given
        BY <1>10, <1>12, <3>2, Zenon DEF Truthy
      <3>. QED BY <1>5, <3>3, Zenon
    <2>. QED BY <2>1, <2>2, <2>3, Zenon
  <1>14. AtMostOne(all, Exclusive)
    BY <1>11, <1>13, Zenon DEF AtMostOne, Exclusive
  <1>. QED BY <1>8, <1>14, Zenon DEF Sound, all

(* AuthTokenOrUserPassSerializerV1.validate: a token empties the user's name and     *)
(* password, these empty the token, and what a partial request leaves out comes     *)
(* from the row.                                                          *)
LEMMA OneOfV1Sound ==
    ASSUME cred_type = "openshift", NEW attrs,
           DOMAIN attrs \subseteq AuthTokenOrUserPassSerializerV1.fields,
           \A f \in DOMAIN attrs : attrs[f] \in Values,
           NEW rec, RowSafe(rec), NEW old, NEW partial, Instance(old, rec, partial),
           NEW a \in ValidateOneOfV1(old, attrs, partial)
    PROVE  Sound(a, rec, Exclusive)
  <1> DEFINE fields == AuthTokenOrUserPassSerializerV1.fields
             mine   == Take(old, fields)
             filled == IF partial THEN Over(attrs, mine) ELSE attrs
             modes  == DetectProvidedAuth(mine, attrs, partial)
  <1>1. fields = {"auth_token", "username", "password"}
    BY DEF AuthTokenOrUserPassSerializerV1
  <1>2. DOMAIN mine = DOMAIN old \cap fields /\ \A f \in DOMAIN mine : mine[f] = old[f]
    BY Zenon DEF Take
  <1>3. PICK mode \in modes :
            a = Over(AllNone(fields \ mode.fields), Take(filled, mode.fields))
    BY Zenon DEF ValidateOneOfV1
  <1> HIDE DEF mine
  <1>4. \A f \in DOMAIN filled : f \in fields /\ filled[f] \in Values
    <2>1. CASE ~partial
      BY <2>1, Zenon
    <2>2. CASE partial
      <3>1. \A f \in DOMAIN mine : f \in fields /\ mine[f] \in Values
        <4>1. old = rec
          BY <2>2, Zenon DEF Instance
        <4>. QED BY <1>2, <4>1, Zenon DEF RowSafe
      <3>2. filled = Over(attrs, mine)
        BY <2>2, Zenon
      <3>3. /\ DOMAIN filled = DOMAIN attrs \cup DOMAIN mine
            /\ \A f \in DOMAIN attrs : filled[f] = attrs[f]
            /\ \A f \in DOMAIN mine \ DOMAIN attrs : filled[f] = mine[f]
        <4> DEFINE both == Over(attrs, mine)
        <4>1. /\ DOMAIN both = DOMAIN attrs \cup DOMAIN mine
              /\ \A f \in DOMAIN attrs : both[f] = attrs[f]
              /\ \A f \in DOMAIN mine \ DOMAIN attrs : both[f] = mine[f]
          BY OverFacts, Zenon
        <4> HIDE DEF both, filled
        <4>2. filled = both
          BY <3>2, Zenon DEF both
        <4>. QED BY <4>1, <4>2, Zenon
      <3> HIDE DEF filled
      <3>. QED BY <3>1, <3>3, Zenon
    <2>. QED BY <2>1, <2>2, Zenon
  <1>5. mode \in {UsernamePasswordSerializer, AuthTokenSerializer}
    <2>1. "vault_secret_path" \notin fields
      BY <1>1
    <2>2. ~Truthy(attrs, "vault_secret_path") /\ ~Truthy(mine, "vault_secret_path")
      BY <1>2, <2>1, Zenon DEF Truthy
    <2>. QED BY <2>2, Zenon DEF DetectProvidedAuth, ProvidedAuth
  <1> DEFINE none == AllNone(fields \ mode.fields)
             own  == Take(filled, mode.fields)
  <1>6. DOMAIN none = fields \ mode.fields /\ \A f \in DOMAIN none : none[f] = None
    BY Zenon DEF AllNone
  <1>7. DOMAIN own = DOMAIN filled \cap mode.fields /\ \A f \in DOMAIN own : own[f] = filled[f]
    BY Zenon DEF Take
  <1>8. a = Over(none, own)
    BY <1>3, Zenon
  <1> HIDE DEF none, own, filled, modes
  <1>9. /\ DOMAIN a = DOMAIN none \cup DOMAIN own
        /\ \A f \in DOMAIN none : a[f] = none[f]
        /\ \A f \in DOMAIN own \ DOMAIN none : a[f] = own[f]
    <2> DEFINE both == Over(none, own)
    <2>1. /\ DOMAIN both = DOMAIN none \cup DOMAIN own
          /\ \A f \in DOMAIN none : both[f] = none[f]
          /\ \A f \in DOMAIN own \ DOMAIN none : both[f] = own[f]
      BY OverFacts, Zenon
    <2>2. a = both
      BY <1>8, Zenon
    <2> HIDE DEF both
    <2>. QED BY <2>1, <2>2, Zenon
  <1>10. fields \subseteq Fields /\ fields \subseteq Used
    BY <1>1, Tables, Zenon DEF Fields, ENCRYPTED_FIELDS
  <1>11. \A f \in DOMAIN a : f \in fields /\ a[f] \in Values
    <2> TAKE f \in DOMAIN a
    <2>1. CASE f \in DOMAIN none
      BY <1>6, <1>9, <2>1, Zenon DEF Values
    <2>2. CASE f \notin DOMAIN none
      BY <1>4, <1>7, <1>9, <2>2, Zenon
    <2>. QED BY <2>1, <2>2, Zenon
  <1>12. Fits(a)
    BY <1>10, <1>11, Zenon DEF Fits
  <1> DEFINE all == Over(a, rec)
  <1>13. /\ \A f \in DOMAIN a : all[f] = a[f]
         /\ \A f \in DOMAIN rec \ DOMAIN a : all[f] = rec[f]
    BY OverFacts, Zenon
  <1> HIDE DEF all
  <1>14. \A m \in {"ssh_key", "ssh_keyfile"} : ~Truthy(all, m)
    <2>1. \A m \in {"ssh_key", "ssh_keyfile"} : m \in Fields \ Used /\ m \notin fields
      BY <1>1, Tables DEF Fields, ENCRYPTED_FIELDS
    <2>2. DOMAIN rec = Fields
      BY Zenon DEF RowSafe
    <2>3. \A m \in {"ssh_key", "ssh_keyfile"} : all[m] = None
      BY <1>11, <1>13, <2>1, <2>2, Zenon DEF RowSafe
    <2>. QED BY <2>3, Zenon DEF Truthy
  <1>15. ~Truthy(all, "password") \/ ~Truthy(all, "auth_token")
    <2>1. CASE mode = UsernamePasswordSerializer
      <3>1. "auth_token" \in fields \ mode.fields
        BY <1>1, <2>1 DEF UsernamePasswordSerializer
      <3>. QED BY <1>6, <1>9, <1>13, <3>1, Zenon DEF Truthy
    <2>2. CASE mode = AuthTokenSerializer
      <3>1. "password" \in fields \ mode.fields
        BY <1>1, <2>2 DEF AuthTokenSerializer
      <3>. QED BY <1>6, <1>9, <1>13, <3>1, Zenon DEF Truthy
    <2>. QED BY <1>5, <2>1, <2>2, Zenon
  <1>16. AtMostOne(all, Exclusive)
    BY <1>14, <1>15, Zenon DEF AtMostOne, Exclusive, KeyMethods
  <1>. QED BY <1>12, <1>16, Zenon DEF Sound, all

(* Every v1 serializer. *)
LEMMA V1Sound ==
    ASSUME cred_type \in CredTypes, NEW attrs,
           DOMAIN attrs \subseteq SerializerByTypeV1[cred_type].fields,
           \A f \in DOMAIN attrs : attrs[f] \in Values,
           NEW rec, RowSafe(rec), NEW old, NEW partial, Instance(old, rec, partial),
           NEW a \in ValidateV1(old, attrs, partial)
    PROVE  Sound(a, rec, Exclusive)
  <1>0. DOMAIN attrs \subseteq Used
    BY Zenon DEF Used
  <1>1. CASE cred_type = "network"
    <2>1. a \in ValidateNetworkV1(old, attrs, partial)
      BY <1>1, Zenon DEF ValidateV1
    <2>. QED BY <1>0, <1>1, <2>1, NetworkV1Sound, Zenon
  <1>2. CASE cred_type = "openshift"
    <2>1. a \in ValidateOneOfV1(old, attrs, partial)
      BY <1>2 DEF ValidateV1
    <2>2. DOMAIN attrs \subseteq AuthTokenOrUserPassSerializerV1.fields
      BY <1>2, Tables, Zenon
    <2>. QED BY <1>2, <2>1, <2>2, OneOfV1Sound, Zenon
  <1>3. CASE cred_type \in {"vcenter", "satellite", "ansible", "rhacs"}
    <2>1. a = attrs
      <3>1. a \in AcceptIf(HasRequired(SerializerByTypeV1[cred_type], attrs, partial), attrs)
        BY <1>3 DEF ValidateV1
      <3>. QED BY <3>1, Zenon DEF AcceptIf
    <2>2. Used \subseteq Fields
      BY UsedFields, Zenon
    <2>3. Fits(a)
      BY <1>0, <2>1, <2>2, Zenon DEF Fits
    <2>4. \E only : Exclusive \cap Used \subseteq {only}
      <3>1. CASE cred_type = "rhacs"
        <4>1. Exclusive \cap Used \subseteq {"auth_token"}
          BY <3>1, Tables, Zenon
        <4>. QED BY <4>1, Zenon
      <3>2. CASE cred_type # "rhacs"
        <4>1. Used \subseteq {"username", "password", "vault_secret_path", "vault_secret_key"}
          BY <1>3, <3>2, Tables, Zenon
        <4>2. Exclusive \cap {"username", "password", "vault_secret_path", "vault_secret_key"}
                \subseteq {"password"}
          BY DEF Exclusive, KeyMethods
        <4>3. Exclusive \cap Used \subseteq {"password"}
          BY <4>1, <4>2, Zenon
        <4>. QED BY <4>3, Zenon
      <3>. QED BY <3>1, <3>2, Zenon
    <2>5. AtMostOne(Over(a, rec), Exclusive)
      BY <2>3, <2>4, OneExclusive, Zenon
    <2>. QED BY <2>3, <2>5, Zenon DEF Sound
  <1>. QED BY <1>1, <1>2, <1>3, Zenon DEF CredTypes

(* Whatever the API and the request, what is saved over a safe row is a safe row,   *)
(* with one method of all after a v2 write.                                  *)
LEMMA SavedSafe ==
    ASSUME cred_type \in CredTypes, NEW api \in {"v1", "v2"}, NEW data \in Requests(api),
           NEW rec, RowSafe(rec), NEW old, NEW partial, Instance(old, rec, partial),
           NEW a \in Validate(api, old, data, partial)
    PROVE  /\ RowSafe(EncryptFields(Over(a, rec)))
           /\ api = "v2" => AtMostOne(EncryptFields(Over(a, rec)), AnyMethod)
  <1> DEFINE attrs == Take(data, SerializerFields(api))
  <1>1. DOMAIN attrs \subseteq SerializerFields(api) /\ \A f \in DOMAIN attrs : attrs[f] \in Values
    BY Brought, Zenon
  <1>2. CASE api = "v1"
    <2>1. a \in ValidateV1(old, attrs, partial)
      BY <1>2, Zenon DEF Validate
    <2>2. SerializerFields(api) = SerializerByTypeV1[cred_type].fields
      BY <1>2, Zenon DEF SerializerFields
    <2> HIDE DEF attrs
    <2>3. Sound(a, rec, Exclusive)
      BY <1>1, <2>1, <2>2, V1Sound, Zenon
    <2>4. api # "v2"
      BY <1>2
    <2>. QED BY <2>3, <2>4, StoredSafe, Zenon DEF Sound
  <1>3. CASE api = "v2"
    <2>1. a \in ValidateV2(old, attrs, partial)
      <3>1. api # "v1"
        BY <1>3
      <3>. QED BY <3>1, Zenon DEF Validate
    <2>2. DOMAIN attrs \subseteq Used
      BY <1>1, UsedFields, Zenon
    <2> HIDE DEF attrs
    <2>3. Sound(a, rec, AnyMethod)
      BY <1>1, <2>1, <2>2, V2Sound, Zenon
    <2>. QED BY <2>3, StoredSafe, Zenon DEF Sound
  <1>. QED BY <1>2, <1>3, Zenon

(* A new credential has nothing yet. *)
LEMMA EmptySafe == RowSafe(EmptyRow)
  <1>1. DOMAIN EmptyRow = Fields /\ \A f \in Fields : EmptyRow[f] = None
    BY Zenon DEF EmptyRow
  <1>2. EmptyRow \in [Fields -> Values]
    BY Zenon DEF EmptyRow, Values
  <1>3. ENCRYPTED_FIELDS \subseteq Fields
    BY Zenon DEF Fields
  <1>4. \A m : ~Truthy(EmptyRow, m)
    BY <1>1, Zenon DEF Truthy
  <1>. QED BY <1>1, <1>2, <1>3, <1>4, Zenon DEF RowSafe, SavedValues, AtMostOne

(* Every step keeps the row and the copy safe. *)
LEMMA CredentialStep == CredentialSafe /\ [CredentialNext]_credentialVars => CredentialSafe'
  <1> SUFFICES ASSUME CredentialSafe, [CredentialNext]_credentialVars PROVE CredentialSafe'
    BY Zenon
  <1>0. cred_type' = cred_type
    BY Zenon DEF CredentialNext, CreateCredential, UpdateCredential, FetchCredential,
                 FinishUpdate, DestroyCredential, ConfigureVault, credentialVars
  <1>1. cred_type \in CredTypes /\ cred_type' \in CredTypes
    BY <1>0, Zenon DEF CredentialSafe
  <1>2. Used' = Used
    BY <1>0, Zenon DEF Used
  <1> DEFINE Good(rec, api) == RowSafe(rec) /\ (api = "v2" => AtMostOne(rec, AnyMethod))
  <1>3. /\ Good(credential', written') => RowSafe(credential)' /\
                                          (written = "v2" => AtMostOne(credential, AnyMethod))'
        /\ RowSafe(instance') => RowSafe(instance)'
    BY <1>2, Zenon DEF RowSafe, AtMostOne
  <1>4. ASSUME NEW copy, RowSafe(copy), Update(copy) PROVE Good(credential', written')
    <2>1. PICK api \in {"v1", "v2"}, partial \in BOOLEAN :
             credential' \in Saved(api, copy, partial) /\ written' = api
      BY <1>4, Zenon DEF Update
    <2>2. PICK data \in Requests(api) : \E attrs \in Validate(api, copy, data, partial) :
             credential' = EncryptFields(Over(attrs, copy))
      BY <2>1, Zenon DEF Saved, Save
    <2>3. PICK attrs \in Validate(api, copy, data, partial) :
             credential' = EncryptFields(Over(attrs, copy))
      BY <2>2, Zenon
    <2>4. Instance(copy, copy, partial)
      BY Zenon DEF Instance
    <2>5. /\ RowSafe(EncryptFields(Over(attrs, copy)))
          /\ api = "v2" => AtMostOne(EncryptFields(Over(attrs, copy)), AnyMethod)
      BY <1>1, <1>4, <2>4, SavedSafe, Zenon
    <2>. QED BY <2>1, <2>3, <2>5, Zenon
  <1>5. CASE CreateCredential
    <2>0. PICK api \in {"v1", "v2"} : \E data \in Requests(api) :
             \E attrs \in Validate(api, NoInstance, data, FALSE) :
                 /\ credential' = EncryptFields(Over(attrs, EmptyRow))
                 /\ written' = api
      BY <1>5, Zenon DEF CreateCredential
    <2>1. PICK data \in Requests(api) :
             \E attrs \in Validate(api, NoInstance, data, FALSE) :
                 /\ credential' = EncryptFields(Over(attrs, EmptyRow))
                 /\ written' = api
      BY <2>0, Zenon
    <2>2. PICK attrs \in Validate(api, NoInstance, data, FALSE) :
             credential' = EncryptFields(Over(attrs, EmptyRow)) /\ written' = api
      BY <2>1, Zenon
    <2>3. Instance(NoInstance, EmptyRow, FALSE)
      BY Zenon DEF Instance
    <2>4. Good(credential', written')
      <3>1. /\ RowSafe(EncryptFields(Over(attrs, EmptyRow)))
            /\ api = "v2" => AtMostOne(EncryptFields(Over(attrs, EmptyRow)), AnyMethod)
        BY <1>1, <2>3, EmptySafe, SavedSafe, Zenon
      <3>. QED BY <2>2, <3>1, Zenon
    <2>5. instance' = instance
      BY <1>5, Zenon DEF CreateCredential
    <2> HIDE DEF Good
    <2>. QED BY <1>1, <1>3, <2>4, <2>5, Zenon DEF CredentialSafe
  <1>6. CASE UpdateCredential
    <2>1. RowSafe(credential) /\ Update(credential) /\ instance' = instance
      BY <1>6, Zenon DEF UpdateCredential, CredentialSafe
    <2>2. Good(credential', written')
      BY <1>4, <2>1, Zenon
    <2> HIDE DEF Good
    <2>. QED BY <1>1, <1>3, <2>1, <2>2, Zenon DEF CredentialSafe
  <1>7. CASE FinishUpdate
    <2>1. RowSafe(instance) /\ Update(instance) /\ instance' = None
      BY <1>7, Zenon DEF FinishUpdate, CredentialSafe
    <2>2. Good(credential', written')
      BY <1>4, <2>1, Zenon
    <2> HIDE DEF Good
    <2>. QED BY <1>1, <1>3, <2>1, <2>2, Zenon DEF CredentialSafe
  <1>8. CASE FetchCredential \/ DestroyCredential \/ ConfigureVault \/ UNCHANGED credentialVars
    <2>1. /\ credential' = None \/ (credential' = credential /\ written' = written)
          /\ instance' = instance \/ (instance' = credential /\ credential # None)
      BY <1>8, Zenon DEF FetchCredential, DestroyCredential, ConfigureVault, credentialVars
    <2>2. credential' # None => Good(credential', written')
      BY <2>1, Zenon DEF CredentialSafe
    <2>3. instance' # None => RowSafe(instance')
      BY <2>1, Zenon DEF CredentialSafe
    <2> HIDE DEF Good
    <2>. QED BY <1>1, <1>3, <2>2, <2>3, Zenon DEF CredentialSafe
  <1>. QED BY <1>5, <1>6, <1>7, <1>8, Zenon DEF CredentialNext

(* The row and the copy of an update are safe in every reachable state. *)
THEOREM CredentialInv == CredentialSpec => []CredentialSafe
  <1>1. CredentialInit => CredentialSafe
    BY Zenon DEF CredentialInit, CredentialSafe
  <1>. QED BY <1>1, CredentialStep, PTL DEF CredentialSpec

(* Every secret of a credential is stored encrypted once, for any requests of both    *)
(* versions and any overlap of an update with others, but for a text with the marker  *)
(* of the ciphertexts in it, which is kept as it is (Credential.encrypt_fields).      *)
THEOREM SecretsStayEncrypted == CredentialSpec => []SecretsEncryptedOnce
  <1>1. CredentialSafe => SecretsEncryptedOnce
    BY Zenon DEF CredentialSafe, SecretsEncryptedOnce, RowSafe, SavedValues
  <1>. QED BY <1>1, CredentialInv, PTL

(* A credential has one method of authentication at most, whatever mix of v1 and v2   *)
(* requests wrote it and however they overlapped; the vault path counts after a v2    *)
(* write (the validate methods of both versions' serializers).                 *)
THEOREM AlwaysOneMethod == CredentialSpec => []OneMethod
  <1>1. ASSUME NEW S, \A m, n \in S : m = n PROVE Cardinality(S) <= 1
    <2>1. CASE S = {}
      BY <2>1, FS_EmptySet
    <2>2. CASE S # {}
      <3>1. PICK m : m \in S
        BY <2>2, Zenon
      <3>2. S = {m}
        BY <1>1, <3>1, Zenon
      <3>3. Cardinality(S) = 1
        BY <3>2, FS_Singleton, Zenon
      <3>. QED BY <3>3
    <2>. QED BY <2>1, <2>2, Zenon
  <1>2. CredentialSafe => OneMethod
    <2> SUFFICES ASSUME CredentialSafe, credential # None
                 PROVE  Cardinality(Methods(credential)
                           \ IF written = "v2" THEN {} ELSE {"vault_secret_path"}) <= 1
      BY Zenon DEF OneMethod
    <2> DEFINE S == Methods(credential) \ IF written = "v2" THEN {} ELSE {"vault_secret_path"}
    <2>1. CASE written = "v2"
      <3>1. \A m, n \in S : m = n
        BY <2>1, Zenon DEF CredentialSafe, AtMostOne, AnyMethod, Exclusive, Methods
      <3> HIDE DEF S
      <3>2. Cardinality(S) <= 1
        BY <1>1, <3>1, Zenon
      <3>. QED BY <3>2, Zenon DEF S
    <2>2. CASE written # "v2"
      <3>1. \A m, n \in S : m = n
        BY <2>2, Zenon DEF CredentialSafe, RowSafe, AtMostOne, Exclusive, Methods
      <3> HIDE DEF S
      <3>2. Cardinality(S) <= 1
        BY <1>1, <3>1, Zenon
      <3>. QED BY <3>2, Zenon DEF S
    <2>. QED BY <2>1, <2>2, Zenon
  <1>. QED BY <1>2, CredentialInv, PTL

-----------------------------------------------------------------------------
(***************************************************************************)
(* For any number of requests that overlap: the stored Vault definition is  *)
(* as a whole one that a login was made with, and only a deletion makes     *)
(* room for another row.                                                   *)
(***************************************************************************)
(* What may be stored: complete metadata with which a login has succeeded. *)
Usable == {m \in Metadata : ClientFor(m)}

VerifiedRows == {t \in TokenRows : t.metadata = t.checked /\ ClientFor(t.metadata)}

RequestStates ==
    {Idle}
    \cup [step : {"login"}, instance : VerifiedRows \cup {None}, metadata : Metadata, checked : {None}]
    \cup {q \in [step : {"save"}, instance : VerifiedRows \cup {None}, metadata : Usable,
                 checked : Usable] : q.checked = q.metadata}

(* Every row that is stored or in use is verified, and what a request is      *)
(* about to save has passed the login.                                      *)
VaultSafe ==
    /\ token \in VerifiedRows \cup {None}
    /\ secret_reader \in VerifiedRows \cup {None}
    /\ vault_request \in [VaultRequests -> RequestStates]
    /\ next_id \in Nat

(* What post and put hand to the login is complete. *)
LEMMA BodiesAreMetadata ==
    /\ \A body \in FullBodies : WithDefaultPort(body) \in Metadata
    /\ \A body \in PatchBodies, m \in Metadata :
          [f \in MetadataFields |-> Get(body, f, m[f])] \in Metadata
  <1>. DEFINE V == UNION {FieldValues[f] : f \in MetadataFields}
  <1>1. /\ \A fields \in SUBSET MetadataFields : UNION {FieldValues[f] : f \in fields} \subseteq V
        /\ DEFAULT_PORT \in V
    BY Zenon DEF FieldValues, MetadataFields, DEFAULT_PORT
  <1>2. ASSUME NEW fields \in SUBSET MetadataFields, NEW body \in Bodies(fields)
        PROVE  body \in [fields -> V]
    BY <1>1, Zenon DEF Bodies
  <1>3. ASSUME NEW body \in FullBodies PROVE WithDefaultPort(body) \in Metadata
    <2>1. \/ body \in [MetadataFields -> V]
          \/ body \in [{"address", "client_cert"} -> V]
      BY <1>2, Zenon DEF FullBodies, MetadataFields
    <2>. QED BY <1>1, <2>1, Zenon DEF WithDefaultPort, Get, Has, Metadata, MetadataFields
  <1>4. ASSUME NEW body \in PatchBodies, NEW m \in Metadata
        PROVE  [f \in MetadataFields |-> Get(body, f, m[f])] \in Metadata
    <2>1. PICK fields \in SUBSET MetadataFields : body \in [fields -> V]
      BY <1>2 DEF PatchBodies
    <2>. QED BY <2>1, Zenon DEF Metadata, Get, Has
  <1>. QED BY <1>3, <1>4, Zenon

(* There is no definition at first. *)
LEMMA VaultBegins == VaultInit => VaultSafe
  BY DEF VaultInit, VaultSafe, RequestStates

(* A request goes on. *)
LEMMA RequestStep ==
    ASSUME VaultSafe, NEW r \in VaultRequests,
           BeginPost(r) \/ BeginPut(r) \/ VaultLogin(r) \/ SaveCreated(r) \/ SaveUpdated(r)
    PROVE  VaultSafe'
  <1>1. Idle \in RequestStates /\ None \notin VerifiedRows /\ Idle.step = "idle"
    BY VaultAssumption, Zenon DEF RequestStates, VerifiedRows, Idle
  <1>2. CASE BeginPost(r)
    <2>1. PICK body \in FullBodies : vault_request' = [vault_request EXCEPT ![r] =
             [step |-> "login", instance |-> None, metadata |-> WithDefaultPort(body),
              checked |-> None]]
      BY <1>2, Zenon DEF BeginPost
    <2>2. [step |-> "login", instance |-> None, metadata |-> WithDefaultPort(body), checked |-> None]
             \in RequestStates
      BY BodiesAreMetadata, Zenon DEF RequestStates
    <2>. QED BY <1>2, <2>1, <2>2, Zenon DEF BeginPost, VaultSafe
  <1>3. CASE BeginPut(r)
    <2>1. PICK partial \in BOOLEAN : \E body \in IF partial THEN PatchBodies ELSE FullBodies :
             vault_request' = [vault_request EXCEPT ![r] =
                [step |-> "login", instance |-> token,
                 metadata |-> MergedMetadata(body, partial), checked |-> None]]
      BY <1>3, Zenon DEF BeginPut
    <2>. PICK body \in IF partial THEN PatchBodies ELSE FullBodies :
             vault_request' = [vault_request EXCEPT ![r] =
                [step |-> "login", instance |-> token,
                 metadata |-> MergedMetadata(body, partial), checked |-> None]]
      BY <2>1, Zenon
    <2>2. token \in VerifiedRows /\ token.metadata \in Metadata
      BY <1>3, Zenon DEF BeginPut, VaultSafe, VerifiedRows, TokenRows
    <2>3. MergedMetadata(body, partial) \in Metadata
      BY <2>2, BodiesAreMetadata, Zenon DEF MergedMetadata
    <2>4. [step |-> "login", instance |-> token, metadata |-> MergedMetadata(body, partial),
           checked |-> None] \in RequestStates
      BY <2>2, <2>3, Zenon DEF RequestStates
    <2>. QED BY <1>3, <2>4, Zenon DEF BeginPut, VaultSafe
  <1>4. CASE VaultLogin(r)
    <2>1. vault_request[r]
             \in [step : {"login"}, instance : VerifiedRows \cup {None}, metadata : Metadata,
                  checked : {None}]
      BY <1>1, <1>4, Zenon DEF VaultLogin, VaultSafe, RequestStates
    <2>. DEFINE q == [step |-> "save", instance |-> vault_request[r].instance,
                      metadata |-> vault_request[r].metadata, checked |-> vault_request[r].metadata]
    <2>2. PICK success \in Authenticate(vault_request[r].metadata) :
             vault_request' = [vault_request EXCEPT ![r] = IF success THEN q ELSE Idle]
      BY <1>4, <2>1, Zenon DEF VaultLogin, VaultSafe
    <2>3. success => vault_request[r].metadata \in Usable
      BY <2>1, Zenon DEF Authenticate, Usable
    <2>4. success => /\ q \in [step : {"save"}, instance : VerifiedRows \cup {None},
                               metadata : Usable, checked : Usable]
                     /\ q.checked = q.metadata
      BY <2>1, <2>3, Zenon
    <2>. HIDE DEF q
    <2>5. (IF success THEN q ELSE Idle) \in RequestStates
      BY <1>1, <2>4, Zenon DEF RequestStates
    <2>. QED BY <1>4, <2>2, <2>5, Zenon DEF VaultLogin, VaultSafe
  <1>5. CASE SaveCreated(r) \/ SaveUpdated(r)
    <2>1. /\ vault_request[r] \in [step : {"save"}, instance : VerifiedRows \cup {None},
                                    metadata : Usable, checked : Usable]
          /\ vault_request[r].checked = vault_request[r].metadata
      BY <1>1, <1>5, Zenon DEF SaveCreated, SaveUpdated, VaultSafe, RequestStates
    <2>2. \A id \in Nat, m \in Usable :
             [id |-> id, metadata |-> m, checked |-> m] \in VerifiedRows
      BY Zenon DEF VerifiedRows, TokenRows, Usable
    <2>3. token' \in VerifiedRows \cup {None}
      <3>1. CASE SaveCreated(r) /\ token # None
        <4>1. token \in TokenRows
          BY <3>1, Zenon DEF VaultSafe, VerifiedRows
        <4>. DEFINE m == vault_request[r].metadata
        <4>2. token' = [id |-> token.id, metadata |-> m, checked |-> m]
          BY <2>1, <3>1, <4>1, Zenon DEF SaveCreated, TokenRows
        <4>. QED BY <2>1, <2>2, <4>1, <4>2, Zenon DEF TokenRows
      <3>2. CASE SaveCreated(r) /\ token = None
        <4>. DEFINE m == vault_request[r].metadata
        <4>1. token' = [id |-> next_id, metadata |-> m, checked |-> m] /\ next_id \in Nat
          BY <2>1, <3>2, Zenon DEF SaveCreated, VaultSafe
        <4>. QED BY <2>1, <2>2, <4>1, Zenon
      <3>3. CASE SaveUpdated(r)
        <4>1. vault_request[r].instance \in TokenRows
          BY <2>1, <3>3, Zenon DEF SaveUpdated, VerifiedRows
        <4>. DEFINE m == vault_request[r].metadata
        <4>2. \/ token' = [id |-> vault_request[r].instance.id, metadata |-> m, checked |-> m]
              \/ UNCHANGED token
          BY <2>1, <3>3, Zenon DEF SaveUpdated, UpdatedMetadata
        <4>. QED BY <2>1, <2>2, <4>1, <4>2 DEF TokenRows, VaultSafe
      <3>. QED BY <1>5, <3>1, <3>2, <3>3, Zenon
    <2>. QED BY <1>1, <1>5, <2>3 DEF SaveCreated, SaveUpdated, Respond, VaultSafe
  <1>. QED BY <1>2, <1>3, <1>4, <1>5, Zenon

(* Every step stores and hands out verified rows only. *)
LEMMA VaultSteps == VaultSafe /\ [VaultNext]_vaultVars => VaultSafe'
  <1>1. VaultSafe /\ (DeleteVault \/ ReadSecret \/ SecretRead \/ UNCHANGED vaultVars) => VaultSafe'
    BY Zenon DEF VaultSafe, DeleteVault, ReadSecret, SecretRead, vaultVars
  <1>. QED BY <1>1, RequestStep, Zenon DEF VaultNext

(* The inductive invariant holds in every reachable state. *)
THEOREM VaultInv == VaultSpec => []VaultSafe
  BY VaultBegins, VaultSteps, PTL DEF VaultSpec

(* The stored definition, and the one a scanner reads a secret with, is one    *)
(* that a login was made with as a whole (HashiCorpVaultSerializer.validate). *)
THEOREM StoredIsVerified == VaultSpec => []StoredConfigVerified
  <1>1. VaultSafe => StoredConfigVerified
    BY Zenon DEF VaultSafe, VerifiedRows, TokenRows, Metadata, StoredConfigVerified
  <1>. QED BY <1>1, VaultInv, PTL

(* A request that has read a definition which was deleted does not write over   *)
(* the one that has taken its place (SecureToken.save, full_clean).            *)
THEOREM NewDefinitionIsKept == VaultSpec => NewDefinitionNotOverwritten
  <1>1. ASSUME VaultSafe, [VaultNext]_vaultVars, token # None, token' # None
        PROVE  token'.id = token.id
    <2>1. token \in TokenRows
      BY <1>1, Zenon DEF VaultSafe, VerifiedRows
    <2>2. ASSUME NEW r \in VaultRequests, SaveCreated(r) \/ SaveUpdated(r)
          PROVE  token'.id = token.id
      <3>1. CASE SaveCreated(r)
        BY <1>1, <2>1, <3>1, Zenon DEF SaveCreated, TokenRows
      <3>2. CASE SaveUpdated(r)
        <4>1. CASE UniqueName(vault_request[r].instance)
          BY <1>1, <3>2, <4>1 DEF SaveUpdated, UniqueName
        <4>2. CASE ~UniqueName(vault_request[r].instance)
          BY <3>2, <4>2, Zenon DEF SaveUpdated
        <4>. QED BY <4>1, <4>2, Zenon
      <3>. QED BY <2>2, <3>1, <3>2, Zenon
    <2>. QED
      BY <1>1, <2>2, Zenon DEF VaultNext, vaultVars, BeginPost, BeginPut, VaultLogin, DeleteVault,
                        ReadSecret, SecretRead
  <1>. QED BY <1>1, VaultInv, PTL DEF VaultSpec, NewDefinitionNotOverwritten

-----------------------------------------------------------------------------
(***************************************************************************)
(* For any number of workers, losses of the files and waiting messages: a  *)
(* complete deployments report has a path for its fingerprints, although   *)
(* everyone saves the whole row from a copy of any age.  The row alone     *)
(* does not show it: every copy that is yet to be saved has to be sound.   *)
(***************************************************************************)
(* What may be stored: complete only with a path for the fingerprints. *)
SoundRows == {r \in Rows : r.status = "completed" => r.fingerprints # None}

WorkerStates ==
    {Resting}
    \cup [step : {"render"}, data : Paths]
    \cup [step : {"run"}, task : Tasks, after : SUBSET Tasks]
    \cup [step : {"save"}, task : Tasks \cup {"render"}, copy : SoundRows, after : SUBSET Tasks]
    \cup [step : {"failed"}, task : Tasks \cup {"render"}, after : SUBSET Tasks]

CacheTypeOK ==
    /\ row \in SoundRows \cup {None}
    /\ runner \in [step : {"start", "created", "processed", "aggregating", "done"},
                   copy : SoundRows]
    /\ worker \in [Workers -> WorkerStates]
    /\ queued \in [Tasks -> Nat]

(* Whoever works with the row, or is going to, has found one; there is none  *)
(* only before the fingerprint task has made it.                            *)
RowFirst ==
    row = None => /\ runner.step = "start"
                  /\ \A w \in Workers : worker[w] = Resting
                  /\ \A t \in Tasks : queued[t] = 0

CacheSafe == CacheTypeOK /\ RowFirst

(* Every way of saving a sound copy stores a sound row. *)
LEMMA SavesAreSound ==
    ASSUME NEW copy \in SoundRows
    PROVE  /\ Regenerated(copy) \in SoundRows
           /\ CsvGenerated(copy) \in SoundRows
           /\ CsvRendered(copy) \in SoundRows
           /\ Wiped(copy) \in SoundRows
           /\ [copy EXCEPT !.status = "failed"] \in SoundRows
           /\ [copy EXCEPT !.csv = None] \in SoundRows
           /\ \A s \in {"completed", "failed"} :
                 [copy EXCEPT !.status = s, !.fingerprints = "file"] \in SoundRows
  BY CacheAssumption, Zenon
  DEF SoundRows, Rows, Paths, Regenerated, CsvGenerated, CsvRendered, Wiped

(* Nothing is stored at first. *)
LEMMA CacheBegins == CacheInit => CacheSafe
  BY CacheAssumption
  DEF CacheInit, CacheSafe, CacheTypeOK, RowFirst, SoundRows, Rows, Paths, WorkerStates, Tasks

(* The fingerprint task saves its own copy. *)
LEMMA RunnerStep == CacheSafe /\ Runner => CacheSafe'
  <1>. SUFFICES ASSUME CacheSafe, Runner PROVE CacheSafe'
    BY Zenon
  <1>1. runner.copy \in SoundRows /\ None \notin SoundRows
    BY CacheAssumption, Zenon DEF CacheSafe, CacheTypeOK, SoundRows
  <1>2. CASE CreateRow
    BY <1>1, <1>2, Zenon DEF CacheSafe, CacheTypeOK, RowFirst, CreateRow
  <1>3. CASE ProcessDetailsReport
    <2>1. PICK status \in {"completed", "failed"} :
             LET copy == [runner.copy EXCEPT !.status = status, !.fingerprints = "file"]
             IN  row' = copy /\ runner' = [step |-> "processed", copy |-> copy]
      BY <1>3, Zenon DEF ProcessDetailsReport
    <2>2. row' \in SoundRows /\ runner' = [step |-> "processed", copy |-> row']
      BY <1>1, <2>1, SavesAreSound, Zenon
    <2>. QED BY <1>1, <1>3, <2>2, Zenon DEF CacheSafe, CacheTypeOK, RowFirst, ProcessDetailsReport
  <1>4. CASE SaveStatus
    BY <1>1, <1>4, Zenon DEF CacheSafe, CacheTypeOK, RowFirst, SaveStatus
  <1>5. CASE AggregateBuilt
    BY <1>1, <1>5, Zenon DEF CacheSafe, CacheTypeOK, RowFirst, AggregateBuilt
  <1>6. CASE TaskRaised
    BY <1>1, <1>6, SavesAreSound, Zenon DEF CacheSafe, CacheTypeOK, RowFirst, TaskRaised
  <1>. QED BY <1>2, <1>3, <1>4, <1>5, <1>6, Zenon DEF Runner

(* A worker that goes on to a state that is typed, where there is a row. *)
LEMMA WorkerGoes ==
    ASSUME CacheSafe, NEW w \in Workers, NEW s \in WorkerStates,
           worker' = [worker EXCEPT ![w] = s], row' \in SoundRows,
           queued' \in [Tasks -> Nat], UNCHANGED runner
    PROVE  CacheSafe'
  BY CacheAssumption, Zenon DEF CacheSafe, CacheTypeOK, RowFirst, SoundRows

(* .delay() adds at most a message. *)
LEMMA DelayType ==
    ASSUME CacheSafe, NEW t \in Tasks, Delay(t)
    PROVE  queued' \in [Tasks -> Nat]
  BY DEF CacheSafe, CacheTypeOK, Delay

(* The requests, the tasks and the command. *)
LEMMA WorkerStep ==
    ASSUME CacheSafe, NEW w \in Workers,
           \/ GetDeployments(w) \/ Command(w) \/ Goes(w)
           \/ \E t \in Tasks : TakeMessage(w, t)
    PROVE  CacheSafe'
  <1>1. Resting \in WorkerStates /\ Tasks = {"fingerprints", "csv"}
    BY Zenon DEF WorkerStates, Tasks
  <1>2. CASE GetDeployments(w)
    <2>1. row \in SoundRows /\ row.fingerprints \in Paths
      BY <1>2, Zenon DEF GetDeployments, CacheSafe, CacheTypeOK, SoundRows, Rows
    <2>2. CASE Delay("fingerprints") /\ UNCHANGED worker
      BY <1>1, <1>2, <2>1, <2>2, DelayType, CacheAssumption, Zenon
      DEF GetDeployments, CacheSafe, CacheTypeOK, RowFirst, SoundRows
    <2>3. CASE worker' = [worker EXCEPT ![w] = [step |-> "render", data |-> row.fingerprints]]
               /\ UNCHANGED queued
      BY <1>2, <2>1, <2>3, WorkerGoes, Zenon DEF GetDeployments, WorkerStates, CacheSafe, CacheTypeOK
    <2>. QED BY <1>2, <2>2, <2>3, Zenon DEF GetDeployments
  <1>3. CASE Command(w)
    <2>. DEFINE missing == {t \in Tasks : row[t] = "lost"}
                first == IF "fingerprints" \in missing THEN "fingerprints" ELSE "csv"
    <2>1. /\ row \in SoundRows /\ UNCHANGED <<row, runner, queued>>
          /\ worker' = [worker EXCEPT ![w] =
                           [step |-> "run", task |-> first, after |-> missing \ {first}]]
      BY <1>3, Zenon DEF Command, CacheSafe, CacheTypeOK
    <2>2. [step |-> "run", task |-> first, after |-> missing \ {first}] \in WorkerStates
      BY <1>1, Zenon DEF WorkerStates
    <2>. QED BY <2>1, <2>2, WorkerGoes, Zenon DEF CacheSafe, CacheTypeOK
  <1>4. CASE RenderCsv(w)
    <2>1. row \in SoundRows
      BY <1>4 DEF RenderCsv, Resting, CacheSafe, CacheTypeOK, RowFirst
    <2>2. queued' \in [Tasks -> Nat]
      BY <1>1, <1>4, DelayType, Zenon DEF RenderCsv, CacheSafe, CacheTypeOK
    <2>3. [step |-> "save", task |-> "render", copy |-> row, after |-> {}] \in WorkerStates
      BY <2>1, Zenon DEF WorkerStates
    <2>4. UNCHANGED <<row, runner>>
      BY <1>4, Zenon DEF RenderCsv
    <2>5. \E s \in WorkerStates : worker' = [worker EXCEPT ![w] = s]
      BY <1>1, <1>4, <2>3, Zenon DEF RenderCsv, Ends
    <2>. QED BY <2>1, <2>2, <2>4, <2>5, WorkerGoes, Zenon
  <1>5. CASE ReadRow(w)
    <2>1. row \in SoundRows
      BY <1>5 DEF ReadRow, Resting, CacheSafe, CacheTypeOK, RowFirst
    <2>2. worker[w] \in [step : {"run"}, task : Tasks, after : SUBSET Tasks]
      BY <1>5 DEF ReadRow, Resting, CacheSafe, CacheTypeOK, WorkerStates
    <2>3. [step |-> "save", task |-> worker[w].task, copy |-> row,
           after |-> worker[w].after] \in WorkerStates
      BY <2>1, <2>2, Zenon DEF WorkerStates
    <2>. QED BY <1>5, <2>1, <2>3, WorkerGoes, Zenon DEF ReadRow, CacheSafe, CacheTypeOK
  <1>6. CASE SaveRow(w)
    <2>1. worker[w] \in [step : {"save"}, task : Tasks \cup {"render"}, copy : SoundRows,
                         after : SUBSET Tasks]
      BY <1>6 DEF SaveRow, Resting, CacheSafe, CacheTypeOK, WorkerStates
    <2>2. row' \in SoundRows
      BY <1>1, <1>6, <2>1, SavesAreSound, Zenon DEF SaveRow
    <2>3. queued' \in [Tasks -> Nat]
      BY <1>1, <1>6, DelayType, Zenon DEF SaveRow, CacheSafe, CacheTypeOK
    <2>4. [step |-> "run", task |-> "csv", after |-> {}] \in WorkerStates
      BY <1>1, Zenon DEF WorkerStates
    <2>5. \E s \in WorkerStates : worker' = [worker EXCEPT ![w] = s]
      BY <1>1, <1>6, <2>4, Zenon DEF SaveRow, GoesOn, Ends
    <2>. QED BY <1>6, <2>2, <2>3, <2>5, WorkerGoes, Zenon DEF SaveRow
  <1>7. CASE Fails(w)
    <2>1. row \in SoundRows
      BY <1>7 DEF Fails, Resting, CacheSafe, CacheTypeOK, RowFirst
    <2>2. \/ worker[w] \in [step : {"run"}, task : Tasks, after : SUBSET Tasks]
          \/ worker[w] \in [step : {"save"}, task : Tasks \cup {"render"}, copy : SoundRows,
                            after : SUBSET Tasks]
      BY <1>7 DEF Fails, Resting, CacheSafe, CacheTypeOK, WorkerStates
    <2>3. [step |-> "failed", task |-> worker[w].task, after |-> worker[w].after] \in WorkerStates
      BY <2>2, Zenon DEF WorkerStates
    <2>4. row' \in SoundRows
      <3>1. worker[w].step = "save" => worker[w].copy \in SoundRows
        BY <2>2
      <3>. QED BY <1>7, <2>1, <3>1, SavesAreSound, Zenon DEF Fails
    <2>. QED BY <1>7, <2>3, <2>4, WorkerGoes, Zenon DEF Fails, CacheSafe, CacheTypeOK
  <1>8. CASE ReturnsFalse(w)
    <2>1. row \in SoundRows
      BY <1>8 DEF ReturnsFalse, Resting, CacheSafe, CacheTypeOK, RowFirst
    <2>2. [step |-> "run", task |-> "csv", after |-> {}] \in WorkerStates
      BY <1>1, Zenon DEF WorkerStates
    <2>3. \E s \in WorkerStates : worker' = [worker EXCEPT ![w] = s]
      BY <1>1, <1>8, <2>2, Zenon DEF ReturnsFalse, GoesOn, Ends
    <2>. QED BY <1>8, <2>1, <2>3, WorkerGoes, Zenon DEF ReturnsFalse, CacheSafe, CacheTypeOK
  <1>9. ASSUME NEW t \in Tasks, TakeMessage(w, t) PROVE CacheSafe'
    <2>1. row \in SoundRows
      BY <1>9 DEF TakeMessage, CacheSafe, CacheTypeOK, RowFirst
    <2>2. queued' \in [Tasks -> Nat]
      BY <1>9 DEF TakeMessage, CacheSafe, CacheTypeOK
    <2>3. [step |-> "run", task |-> t, after |-> {}] \in WorkerStates
      BY Zenon DEF WorkerStates
    <2>. QED BY <1>9, <2>1, <2>2, <2>3, WorkerGoes, Zenon DEF TakeMessage
  <1>. QED BY <1>2, <1>3, <1>4, <1>5, <1>6, <1>7, <1>8, <1>9, Zenon DEF Goes

(* The loss of the files leaves paths, in the row and in every copy. *)
LEMMA LossStep == CacheSafe /\ FilesLost => CacheSafe'
  <1>. SUFFICES ASSUME CacheSafe, FilesLost PROVE CacheSafe'
    BY Zenon
  <1>1. row \in SoundRows /\ row' \in SoundRows /\ UNCHANGED queued
    BY SavesAreSound, Zenon DEF FilesLost, CacheSafe, CacheTypeOK
  <1>2. runner' \in [step : {"start", "created", "processed", "aggregating", "done"},
                     copy : SoundRows]
    BY SavesAreSound, Zenon DEF FilesLost, CacheSafe, CacheTypeOK
  <1>3. ASSUME NEW w \in Workers, worker[w].step = "save"
        PROVE  [worker[w] EXCEPT !.copy = Wiped(@)] \in WorkerStates
    <2>1. worker[w] \in [step : {"save"}, task : Tasks \cup {"render"}, copy : SoundRows,
                         after : SUBSET Tasks]
      BY <1>3 DEF Resting, CacheSafe, CacheTypeOK, WorkerStates
    <2>2. [worker[w] EXCEPT !.copy = Wiped(@)]
             \in [step : {"save"}, task : Tasks \cup {"render"}, copy : SoundRows,
                  after : SUBSET Tasks]
      BY <2>1, SavesAreSound, Zenon
    <2>. QED BY <2>2, Zenon DEF WorkerStates
  <1>4. worker' \in [Workers -> WorkerStates]
    BY <1>3, Zenon DEF FilesLost, CacheSafe, CacheTypeOK
  <1>. QED BY <1>1, <1>2, <1>4, CacheAssumption, Zenon DEF CacheSafe, CacheTypeOK, RowFirst, SoundRows

(* Every step keeps the row and all the copies sound. *)
LEMMA CacheSteps == CacheSafe /\ [CacheNext]_cacheVars => CacheSafe'
  <1>1. CacheSafe /\ UNCHANGED cacheVars => CacheSafe'
    BY Zenon DEF cacheVars, CacheSafe, CacheTypeOK, RowFirst
  <1>. QED BY <1>1, RunnerStep, WorkerStep, LossStep, Zenon DEF CacheNext

(* The row, and every copy of it that may still be saved, is sound. *)
THEOREM CacheInv == CacheSpec => []CacheSafe
  BY CacheBegins, CacheSteps, PTL DEF CacheSpec

(* A complete deployments report has a path for its fingerprints, whichever   *)
(* of the tasks, the command and the requests saved its copy last.           *)
THEOREM CompleteKeepsFingerprints == CacheSpec => []CompleteHasFingerprints
  <1>1. CacheSafe => CompleteHasFingerprints
    BY Zenon DEF CacheSafe, CacheTypeOK, SoundRows, CompleteHasFingerprints
  <1>. QED BY <1>1, CacheInv, PTL

-----------------------------------------------------------------------------
(***************************************************************************)
(* For any number of requests: no aggregate counts a fingerprint twice, the *)
(* one that is left when the fingerprint task has succeeded counts them     *)
(* all, and the link to the deployments report is lost only to a request    *)
(* that had read the report before.                                        *)
(***************************************************************************)
TaskSteps == {"groups", "run", "linked", "aggregate", "done", "failed"}

Builds ==
    {AtRest}
    \cup [step : {"lookup"}, linked : BOOLEAN, updated_at : Nat]
    \cup [step : {"create"}, linked : BOOLEAN]
    \cup [step : {"delete"}, linked : BOOLEAN, id : Nat]
    \cup [step : {"count"}, linked : BOOLEAN, id : Nat, total : Nat]
    \cup [step : {"save"}, id : Nat, total : Nat]
    \cup [step : {"refresh"}, id : Nat]

ReportTypeOK ==
    /\ report \in ReportRows \cup {None}
    /\ fptask \in {[step |-> "start"]} \cup [step : TaskSteps, copy : ReportRows]
    /\ details \in {AtRest} \cup [step : {"csv"}, text : Texts]
                            \cup [step : {"save"}, text : Texts, copy : ReportRows]
    /\ aggregate \in AggregateRows \cup {None}
    /\ build \in [Builders -> Builds]
    /\ fingerprints \in 0 .. FingerprintCount
    /\ last_id \in Nat

(* The fingerprint task has got on as far as the rows show. *)
TaskOrder ==
    /\ report = None <=> fptask.step = "start"
    /\ report = None => details = AtRest /\ aggregate = None
                        /\ \A b \in Builders : build[b] = AtRest
    /\ fptask.step \in {"aggregate", "done"} => fingerprints = FingerprintCount
    /\ fptask.step \in {"start", "groups", "run", "linked"} => fingerprints < FingerprintCount
    /\ fptask.step # "start" => fptask.copy.cached_csv = None
    /\ build[Task] # AtRest => fptask.step = "aggregate"

(* Primary keys and dates have been given out. *)
Given ==
    /\ aggregate # None => /\ aggregate.id <= last_id
                           /\ aggregate.updated_at <= report.updated_at
    /\ \A b \in Builders :
          /\ build[b].step \in {"delete", "count", "save", "refresh"} => build[b].id <= last_id
          /\ build[b].step = "lookup" => build[b].updated_at <= report.updated_at

(* What was counted, stored or not yet: a builder counts on an object that has *)
(* counted nothing.                                                         *)
CountedOnce ==
    /\ NeverDoubleCounted
    /\ \A b \in Builders : build[b].step = "count" => build[b].total = 0
    /\ \A b \in Builders : build[b].step = "save" => build[b].total <= fingerprints
    /\ build[Task].step = "save" => build[Task].total = FingerprintCount

(* The task has inserted its aggregate. *)
TaskOwns == fptask.step = "done" \/ build[Task].step \in {"count", "save", "refresh"}

(* Unless the report is saved again, that row stays: it is as new as the      *)
(* report, and no request knows its key.                                    *)
Undisturbed ==
    TaskOwns /\ report.cached_csv = None =>
        /\ aggregate # None
        /\ aggregate.updated_at = report.updated_at
        /\ build[Task].step \in {"count", "save", "refresh"} => aggregate.id = build[Task].id
        /\ fptask.step = "done" \/ build[Task].step = "refresh" =>
               aggregate.total = FingerprintCount
        /\ \A b \in Readers : build[b].step \in {"delete", "count", "save"} =>
                                  build[b].id # aggregate.id

ReportSafe == ReportTypeOK /\ TaskOrder /\ Given /\ CountedOnce /\ Undisturbed

(* There is nothing at first. *)
LEMMA ReportBegins == ReportInit => ReportSafe
  BY ReportAssumption
  DEF ReportInit, ReportSafe, ReportTypeOK, TaskOrder, Given, CountedOnce, Undisturbed, TaskOwns,
      NeverDoubleCounted, AtRest, Builds, Builders, FingerprintCount

(* The fingerprint task, up to the aggregate. *)
LEMMA TaskStep ==
    ASSUME ReportSafe, CreateReportRow \/ SetGroups \/ LinkDeployments \/ PersistFingerprint
    PROVE  ReportSafe'
  <1>. USE ReportAssumption DEF FingerprintCount, TaskSteps
  <1>0. Task \in Builders /\ None \notin ReportRows /\ None \notin AggregateRows
        /\ AtRest.step = "idle"
    BY Zenon DEF Builders, AtRest
  <1>1. CASE CreateReportRow
    <2>1. PICK groups \in BOOLEAN :
            LET new == [groups |-> groups, linked |-> FALSE, cached_csv |-> None, updated_at |-> 0]
            IN  /\ report' = new
                /\ fptask' = [step |-> IF groups THEN "run" ELSE "groups", copy |-> new]
      BY <1>1, Zenon DEF CreateReportRow
    <2>2. report' \in ReportRows /\ fptask'.step \in {"run", "groups"}
          /\ fptask' \in [step : TaskSteps, copy : ReportRows] /\ fptask'.copy.cached_csv = None
      BY <2>1, Zenon DEF ReportRows
    <2>3. report = None /\ aggregate = None /\ \A b \in Builders : build[b] = AtRest
      BY <1>1, Zenon DEF CreateReportRow, ReportSafe, TaskOrder
    <2>. QED
      BY <1>0, <1>1, <2>2, <2>3, Zenon
      DEF CreateReportRow, ReportSafe, ReportTypeOK, TaskOrder, Given, CountedOnce, Undisturbed,
          TaskOwns, NeverDoubleCounted
  <1>2. CASE SetGroups
    <2>1. fptask \in [step : TaskSteps, copy : ReportRows] /\ report \in ReportRows
      BY <1>2 DEF SetGroups, ReportSafe, ReportTypeOK, TaskOrder
    <2>2. /\ report' \in ReportRows /\ report'.updated_at = report.updated_at
          /\ report'.cached_csv = report.cached_csv
          /\ fptask' \in [step : TaskSteps, copy : ReportRows] /\ fptask'.step = "run"
          /\ fptask'.copy.cached_csv = fptask.copy.cached_csv
      BY <1>2, <2>1, Zenon DEF SetGroups, ReportRows
    <2>. QED
      BY <1>0, <1>2, <2>1, <2>2, Zenon
      DEF SetGroups, ReportSafe, ReportTypeOK, TaskOrder, Given, CountedOnce, Undisturbed,
          TaskOwns, NeverDoubleCounted
  <1>3. CASE LinkDeployments
    <2>1. fptask \in [step : TaskSteps, copy : ReportRows] /\ report \in ReportRows
      BY <1>3 DEF LinkDeployments, ReportSafe, ReportTypeOK, TaskOrder
    <2>. DEFINE new == [fptask.copy EXCEPT !.linked = TRUE]
    <2>2. new \in ReportRows /\ new.cached_csv = fptask.copy.cached_csv
      BY <2>1, Zenon DEF ReportRows
    <2>3. /\ report' = [new EXCEPT !.updated_at = report.updated_at + 1]
          /\ fptask' = [fptask EXCEPT !.step = "linked", !.copy = new]
      BY <1>3, <2>1, Zenon DEF LinkDeployments, SaveReport
    <2>. HIDE DEF new
    <2>4. report' \in ReportRows /\ report'.updated_at = report.updated_at + 1
      BY <2>1, <2>2, <2>3 DEF ReportRows
    <2>5. /\ fptask' \in [step : TaskSteps, copy : ReportRows] /\ fptask'.step = "linked"
          /\ fptask'.copy.cached_csv = fptask.copy.cached_csv
      <3>. HIDE DEF TaskSteps
      <3>1. "linked" \in TaskSteps
        BY Zenon DEF TaskSteps
      <3>. QED BY <2>1, <2>2, <2>3, <3>1, Zenon
    <2>. QED
      BY <1>0, <1>3, <2>1, <2>4, <2>5
      DEF LinkDeployments, ReportSafe, ReportTypeOK, TaskOrder, Given, CountedOnce, Undisturbed,
          TaskOwns, NeverDoubleCounted, ReportRows, AggregateRows, Builds
  <1>4. CASE PersistFingerprint
    BY <1>0, <1>4
    DEF PersistFingerprint, ReportSafe, ReportTypeOK, TaskOrder, Given, CountedOnce, Undisturbed,
        TaskOwns, NeverDoubleCounted, AggregateRows, Builds
  <1>. QED BY <1>1, <1>2, <1>3, <1>4, Zenon

(* The request for the details CSV; after its save the text is stored. *)
LEMMA DetailsStep ==
    ASSUME ReportSafe, GetDetails \/ RenderDetails \/ SaveDetailsCsv
    PROVE  ReportSafe'
  <1>. USE ReportAssumption
  <1>0. Task \in Builders /\ None \notin ReportRows /\ None \notin AggregateRows
        /\ AtRest.step = "idle"
    BY Zenon DEF Builders, AtRest
  <1>1. CASE GetDetails
    <2>1. details' \in [step : {"csv"}, text : Texts] /\ report # None
      BY <1>1, Zenon DEF GetDetails, Texts
    <2>. QED
      BY <1>0, <1>1, <2>1, Zenon
      DEF GetDetails, ReportSafe, ReportTypeOK, TaskOrder, Given, CountedOnce, Undisturbed,
          TaskOwns, NeverDoubleCounted
  <1>2. CASE RenderDetails
    <2>1. report \in ReportRows /\ details \in [step : {"csv"}, text : Texts]
      BY <1>0, <1>2, Zenon DEF RenderDetails, ReportSafe, ReportTypeOK, TaskOrder
    <2>2. details' \in {AtRest} \cup [step : {"save"}, text : Texts, copy : ReportRows]
      BY <1>2, <2>1, Zenon DEF RenderDetails
    <2>. QED
      BY <1>0, <1>2, <2>1, <2>2, Zenon
      DEF RenderDetails, ReportSafe, ReportTypeOK, TaskOrder, Given, CountedOnce, Undisturbed,
          TaskOwns, NeverDoubleCounted
  <1>3. CASE SaveDetailsCsv
    <2>1. report \in ReportRows
          /\ details \in [step : {"save"}, text : Texts, copy : ReportRows]
      BY <1>0, <1>3, Zenon DEF SaveDetailsCsv, ReportSafe, ReportTypeOK, TaskOrder
    <2>. DEFINE new == WithCsv(details.copy)
    <2>2. new \in ReportRows /\ new.cached_csv \in Texts
      BY <2>1, Zenon DEF WithCsv, ReportRows
    <2>3. report' = [new EXCEPT !.updated_at = report.updated_at + 1] /\ details' = AtRest
      BY <1>3, Zenon DEF SaveDetailsCsv, SaveReport
    <2>. HIDE DEF new
    <2>4. /\ report' \in ReportRows /\ report'.updated_at = report.updated_at + 1
          /\ report'.cached_csv # None
      BY <2>1, <2>2, <2>3 DEF ReportRows
    <2>. QED
      BY <1>0, <1>3, <2>1, <2>3, <2>4
      DEF SaveDetailsCsv, ReportSafe, ReportTypeOK, TaskOrder, Given, CountedOnce, Undisturbed,
          TaskOwns, NeverDoubleCounted, ReportRows, AggregateRows, Builds
  <1>. QED BY <1>1, <1>2, <1>3, Zenon

(* A builder that reads, looks or deletes. *)
LEMMA BuilderLooks ==
    ASSUME ReportSafe, NEW b \in Builders, ReadReport(b) \/ LookupAggregate(b) \/ DeleteAggregate(b)
    PROVE  ReportSafe'
  <1>. USE ReportAssumption
  <1>0. Task \in Builders /\ None \notin ReportRows /\ None \notin AggregateRows
        /\ AtRest.step = "idle"
    BY Zenon DEF Builders, AtRest
  <1>1. report \in ReportRows
    BY <1>0, Zenon DEF ReadReport, LookupAggregate, DeleteAggregate, ReportSafe, ReportTypeOK, TaskOrder
  <1>2. CASE ReadReport(b)
    <2>1. [step |-> "lookup", linked |-> report.linked, updated_at |-> report.updated_at] \in Builds
      BY <1>1, Zenon DEF Builds, ReportRows
    <2>. QED
      BY <1>0, <1>1, <1>2, <2>1
      DEF ReadReport, ReportSafe, ReportTypeOK, TaskOrder, Given, CountedOnce, Undisturbed,
          TaskOwns, NeverDoubleCounted, Builders, ReportRows
  <1>3. CASE LookupAggregate(b)
    <2>1. build[b] \in [step : {"lookup"}, linked : BOOLEAN, updated_at : Nat]
      BY <1>0, <1>3, Zenon DEF LookupAggregate, ReportSafe, ReportTypeOK, Builds
    <2>2. CASE aggregate = None
      <3>1. /\ [step |-> "create", linked |-> build[b].linked] \in Builds
            /\ build' = [build EXCEPT ![b] = [step |-> "create", linked |-> build[b].linked]]
        BY <1>3, <2>1, <2>2, Zenon DEF LookupAggregate, Builds, ReportSafe, ReportTypeOK
      <3>. QED
        BY <1>0, <1>1, <1>3, <2>1, <2>2, <3>1
        DEF LookupAggregate, ReportSafe, ReportTypeOK, TaskOrder, Given, CountedOnce, Undisturbed,
            TaskOwns, NeverDoubleCounted, Builders
    <2>3. CASE aggregate # None /\ build[b].updated_at <= aggregate.updated_at /\ b # Task
      <3>1. build' = [build EXCEPT ![b] = AtRest] /\ AtRest \in Builds
        BY <1>3, <2>3, Zenon DEF LookupAggregate, Builds, ReportSafe, ReportTypeOK
      <3>. QED
        BY <1>0, <1>1, <1>3, <2>1, <2>3, <3>1
        DEF LookupAggregate, ReportSafe, ReportTypeOK, TaskOrder, Given, CountedOnce, Undisturbed,
            TaskOwns, NeverDoubleCounted, Builders
    <2>4. CASE aggregate # None /\ ~(build[b].updated_at <= aggregate.updated_at /\ b # Task)
      <3>. DEFINE new == [step |-> "delete", linked |-> build[b].linked, id |-> aggregate.id]
      <3>1. build' = [build EXCEPT ![b] = new] /\ new \in Builds
        BY <1>3, <2>1, <2>4, Zenon DEF LookupAggregate, Builds, ReportSafe, ReportTypeOK, AggregateRows
      <3>2. ReportTypeOK' /\ TaskOrder' /\ CountedOnce'
        BY <1>0, <1>1, <1>3, <2>1, <2>4, <3>1
        DEF LookupAggregate, ReportSafe, ReportTypeOK, TaskOrder, CountedOnce,
            NeverDoubleCounted, Builders
      <3>3. Given'
        BY <1>0, <1>1, <1>3, <2>1, <2>4, <3>1 DEF LookupAggregate, ReportSafe, ReportTypeOK, Given
      <3>4. CASE b = Task
        <4>1. Undisturbed'
          BY <1>0, <1>3, <2>1, <3>1, <3>4
          DEF LookupAggregate, ReportSafe, ReportTypeOK, TaskOrder, Undisturbed, TaskOwns, Builders
        <4>. QED BY <3>2, <3>3, <4>1, Zenon DEF ReportSafe
      <3>5. CASE b # Task /\ report.updated_at > aggregate.updated_at
        <4>1. Undisturbed'
          BY <1>0, <1>1, <1>3, <2>1, <2>4, <3>1, <3>5
          DEF LookupAggregate, ReportSafe, ReportTypeOK, Undisturbed, TaskOwns, Builders,
              ReportRows, AggregateRows
        <4>. QED BY <3>2, <3>3, <4>1, Zenon DEF ReportSafe
      <3>6. b # Task => report.updated_at > aggregate.updated_at
        BY <1>1, <2>1, <2>4 DEF ReportSafe, ReportTypeOK, Given, LookupAggregate, ReportRows, AggregateRows
      <3>. QED BY <3>4, <3>5, <3>6, Zenon
    <2>. QED BY <2>2, <2>3, <2>4, Zenon
  <1>4. CASE DeleteAggregate(b)
    <2>1. build[b] \in [step : {"delete"}, linked : BOOLEAN, id : Nat]
      BY <1>0, <1>4, Zenon DEF DeleteAggregate, ReportSafe, ReportTypeOK, Builds
    <2>2. /\ [step |-> "create", linked |-> build[b].linked] \in Builds
          /\ build' = [build EXCEPT ![b] = [step |-> "create", linked |-> build[b].linked]]
      BY <1>4, <2>1, Zenon DEF DeleteAggregate, Builds, ReportSafe, ReportTypeOK
    <2>3. ReportTypeOK' /\ TaskOrder' /\ Given' /\ CountedOnce'
      BY <1>0, <1>1, <1>4, <2>1, <2>2
      DEF DeleteAggregate, ReportSafe, ReportTypeOK, TaskOrder, Given, CountedOnce,
          NeverDoubleCounted, Builders
    <2>4. Undisturbed'
      BY <1>0, <1>1, <1>4, <2>1, <2>2
      DEF DeleteAggregate, ReportSafe, ReportTypeOK, TaskOrder, Undisturbed, TaskOwns, Builders
    <2>. QED BY <2>3, <2>4, Zenon DEF ReportSafe
  <1>. QED BY <1>2, <1>3, <1>4, Zenon

(* A builder that ends without touching the rows. *)
LEMMA BuilderRaises ==
    ASSUME ReportSafe, NEW b \in Builders, Raises(b), build[b] # AtRest,
           b = Task => fptask.step = "aggregate",
           UNCHANGED <<report, details, aggregate, fingerprints, last_id>>
    PROVE  ReportSafe'
  <1>1. Task \in Builders /\ None \notin ReportRows /\ AtRest.step = "idle" /\ AtRest \in Builds
    BY ReportAssumption, Zenon DEF Builders, AtRest, Builds
  <1>2. /\ build' = [build EXCEPT ![b] = AtRest]
        /\ report \in ReportRows /\ fptask \in [step : TaskSteps, copy : ReportRows]
    BY DEF Raises, ReportSafe, ReportTypeOK, TaskOrder
  <1>3. /\ fptask' \in [step : TaskSteps, copy : ReportRows]
        /\ fptask'.copy = fptask.copy
        /\ b # Task => fptask' = fptask
        /\ b = Task => fptask'.step = "failed"
    BY <1>2, Zenon DEF Raises, TaskSteps
  <1>4. ReportTypeOK' /\ Given' /\ CountedOnce'
    BY <1>1, <1>2, <1>3, ReportAssumption, Zenon
    DEF ReportSafe, ReportTypeOK, Given, CountedOnce, NeverDoubleCounted, Builders
  <1>5. TaskOrder'
    BY <1>1, <1>2, <1>3, Zenon DEF ReportSafe, ReportTypeOK, TaskOrder, TaskSteps
  <1>6. Undisturbed'
    BY <1>1, <1>2, <1>3, ReportAssumption, Zenon
    DEF ReportSafe, ReportTypeOK, TaskOrder, Undisturbed, TaskOwns, Builders
  <1>. QED BY <1>4, <1>5, <1>6, Zenon DEF ReportSafe

(* A builder that inserts its row, with a key nobody has seen, and counts. *)
LEMMA BuilderCounts ==
    ASSUME ReportSafe, NEW b \in Builders, CreateAggregate(b) \/ CountAggregate(b)
    PROVE  ReportSafe'
  <1>. USE ReportAssumption
  <1>0. Task \in Builders /\ None \notin ReportRows /\ None \notin AggregateRows
        /\ AtRest.step = "idle"
    BY Zenon DEF Builders, AtRest
  <1>1. report \in ReportRows /\ build[b] # AtRest /\ (b = Task => fptask.step = "aggregate")
    BY <1>0, Zenon DEF CreateAggregate, CountAggregate, ReportSafe, ReportTypeOK, TaskOrder
  <1>2. CASE CreateAggregate(b) /\ aggregate # None
    BY <1>1, <1>2, BuilderRaises, Zenon DEF CreateAggregate
  <1>3. CASE CreateAggregate(b) /\ aggregate = None
    <2>1. build[b] \in [step : {"create"}, linked : BOOLEAN]
      BY <1>0, <1>3, Zenon DEF CreateAggregate, ReportSafe, ReportTypeOK, Builds
    <2>. DEFINE new == [step |-> "count", linked |-> build[b].linked, id |-> last_id + 1, total |-> 0]
    <2>2. /\ build' = [build EXCEPT ![b] = new] /\ new \in Builds
          /\ last_id' = last_id + 1 /\ last_id \in Nat
          /\ aggregate' = [id |-> last_id + 1, total |-> 0, updated_at |-> report.updated_at]
          /\ aggregate' \in AggregateRows
          /\ UNCHANGED <<fptask, report, details, fingerprints>>
      BY <1>1, <1>3, <2>1 DEF CreateAggregate, Builds, ReportSafe, ReportTypeOK, AggregateRows, ReportRows
    <2>3. ReportTypeOK' /\ TaskOrder'
      BY <1>0, <1>1, <2>1, <2>2 DEF ReportSafe, ReportTypeOK, TaskOrder
    <2>4. Given' /\ CountedOnce'
      BY <1>0, <1>1, <2>1, <2>2
      DEF ReportSafe, ReportTypeOK, Given, CountedOnce, NeverDoubleCounted, FingerprintCount,
          ReportRows, Builds
    <2>5. \A c \in Builders : build[c].step \in {"delete", "count", "save"} =>
                                build[c].id # last_id + 1
      BY <2>2 DEF ReportSafe, ReportTypeOK, Given, Builds
    <2>6. Undisturbed'
      BY <1>0, <1>1, <1>3, <2>1, <2>2, <2>5, Zenon DEF ReportSafe, ReportTypeOK, Undisturbed, TaskOwns, Builders
    <2>. QED BY <2>3, <2>4, <2>6, Zenon DEF ReportSafe
  <1>4. CASE CountAggregate(b) /\ Raises(b)
    BY <1>1, <1>4, BuilderRaises, Zenon DEF CountAggregate
  <1>5. CASE CountAggregate(b) /\ ~Raises(b)
    <2>1. /\ build[b] \in [step : {"count"}, linked : BOOLEAN, id : Nat, total : Nat]
          /\ build[b].total = 0
      BY <1>0, <1>5, Zenon DEF CountAggregate, ReportSafe, ReportTypeOK, Builds, CountedOnce
    <2>. DEFINE new == [step |-> "save", id |-> build[b].id, total |-> fingerprints]
    <2>2. /\ build' = [build EXCEPT ![b] = new] /\ new \in Builds
          /\ UNCHANGED <<fptask, report, details, aggregate, fingerprints, last_id>>
      <3>1. Counted(b) = fingerprints /\ fingerprints \in Nat
        BY <2>1 DEF Counted, ReportSafe, ReportTypeOK, FingerprintCount
      <3>. QED BY <1>5, <2>1, <3>1, Zenon DEF CountAggregate, Builds
    <2>3. ReportTypeOK' /\ TaskOrder' /\ Given'
      BY <1>0, <1>1, <2>1, <2>2, Zenon DEF ReportSafe, ReportTypeOK, TaskOrder, Given
    <2>4. CountedOnce'
      BY <1>0, <1>1, <2>1, <2>2
      DEF ReportSafe, ReportTypeOK, TaskOrder, CountedOnce, NeverDoubleCounted, FingerprintCount
    <2>5. Undisturbed'
      BY <1>0, <1>1, <2>1, <2>2, Zenon DEF ReportSafe, ReportTypeOK, Undisturbed, TaskOwns, Builders
    <2>. QED BY <2>3, <2>4, <2>5, Zenon DEF ReportSafe
  <1>. QED BY <1>2, <1>3, <1>4, <1>5, Zenon

(* A builder that saves: only the row it has inserted, or where there is none. *)
LEMMA BuilderSaves ==
    ASSUME ReportSafe, NEW b \in Builders, SaveAggregate(b)
    PROVE  ReportSafe'
  <1>. USE ReportAssumption
  <1>0. Task \in Builders /\ None \notin ReportRows /\ None \notin AggregateRows
        /\ AtRest.step = "idle"
    BY Zenon DEF Builders, AtRest
  <1>1. report \in ReportRows /\ build[b] # AtRest /\ (b = Task => fptask.step = "aggregate")
    BY <1>0, Zenon DEF SaveAggregate, ReportSafe, ReportTypeOK, TaskOrder
  <1>2. CASE ~OwnPlace(b)
    BY <1>1, <1>2, BuilderRaises, Zenon DEF SaveAggregate
  <1>3. CASE OwnPlace(b)
    <2>1. build[b] \in [step : {"save"}, id : Nat, total : Nat]
      BY <1>0, Zenon DEF SaveAggregate, ReportSafe, ReportTypeOK, Builds
    <2>. DEFINE new == [step |-> "refresh", id |-> build[b].id]
    <2>2. /\ build' = [build EXCEPT ![b] = new] /\ new \in Builds
          /\ aggregate' = [id |-> build[b].id, total |-> build[b].total,
                           updated_at |-> report.updated_at]
          /\ aggregate' \in AggregateRows
          /\ UNCHANGED <<report, fptask, details, fingerprints, last_id>>
      BY <1>1, <1>3, <2>1 DEF SaveAggregate, Builds, AggregateRows, ReportRows
    <2>3. ReportTypeOK' /\ Given'
      BY <1>0, <1>1, <2>1, <2>2 DEF ReportSafe, ReportTypeOK, Given, SaveAggregate, ReportRows
    <2>4. TaskOrder'
      BY <1>0, <1>1, <2>1, <2>2, Zenon DEF ReportSafe, ReportTypeOK, TaskOrder
    <2>5. CountedOnce'
      BY <1>0, <1>1, <2>1, <2>2, Zenon
      DEF ReportSafe, ReportTypeOK, CountedOnce, NeverDoubleCounted, SaveAggregate
    <2>6. CASE b = Task
      <3>1. Undisturbed'
        BY <1>0, <1>1, <1>3, <2>1, <2>2, <2>6, Zenon
        DEF ReportSafe, ReportTypeOK, Undisturbed, TaskOwns, CountedOnce, SaveAggregate, Builders
      <3>. QED BY <2>3, <2>4, <2>5, <3>1, Zenon DEF ReportSafe
    <2>7. CASE b # Task
      <3>1. b \in Readers /\ build'[Task] = build[Task]
        BY <1>0, <2>2, <2>7, Zenon DEF Builders, ReportSafe, ReportTypeOK
      <3>2. ~(TaskOwns /\ report.cached_csv = None)
        BY <1>3, <2>1, <3>1, Zenon DEF ReportSafe, Undisturbed, OwnPlace, SaveAggregate
      <3>3. Undisturbed'
        BY <2>2, <3>1, <3>2, Zenon DEF Undisturbed, TaskOwns
      <3>. QED BY <2>3, <2>4, <2>5, <3>3, Zenon DEF ReportSafe
    <2>. QED BY <2>6, <2>7, Zenon
  <1>. QED BY <1>2, <1>3, Zenon

(* A builder that finds its row again has succeeded. *)
LEMMA BuilderRefreshes ==
    ASSUME ReportSafe, NEW b \in Builders, RefreshAggregate(b)
    PROVE  ReportSafe'
  <1>. USE ReportAssumption
  <1>0. Task \in Builders /\ None \notin ReportRows /\ AtRest.step = "idle" /\ AtRest \in Builds
    BY Zenon DEF Builders, AtRest, Builds
  <1>1. /\ report \in ReportRows /\ build[b] # AtRest /\ (b = Task => fptask.step = "aggregate")
        /\ fptask \in [step : TaskSteps, copy : ReportRows]
        /\ UNCHANGED <<report, details, aggregate, fingerprints, last_id>>
    BY <1>0 DEF RefreshAggregate, ReportSafe, ReportTypeOK, TaskOrder
  <1>2. CASE Raises(b)
    BY <1>1, <1>2, BuilderRaises, Zenon
  <1>3. CASE Returns(b)
    <2>1. /\ build' = [build EXCEPT ![b] = AtRest]
          /\ fptask' \in [step : TaskSteps, copy : ReportRows]
          /\ fptask'.copy = fptask.copy
          /\ b # Task => fptask' = fptask
          /\ b = Task => fptask'.step = "done"
      BY <1>1, <1>3, Zenon DEF Returns, TaskSteps
    <2>2. ReportTypeOK' /\ Given' /\ CountedOnce'
      BY <1>0, <1>1, <2>1, Zenon
      DEF ReportSafe, ReportTypeOK, Given, CountedOnce, NeverDoubleCounted
    <2>3. TaskOrder'
      BY <1>0, <1>1, <2>1, Zenon DEF ReportSafe, ReportTypeOK, TaskOrder, TaskSteps
    <2>4. Undisturbed'
      BY <1>0, <1>1, <2>1, Zenon
      DEF ReportSafe, ReportTypeOK, TaskOrder, Undisturbed, TaskOwns, RefreshAggregate, Builders
    <2>. QED BY <2>2, <2>3, <2>4, Zenon DEF ReportSafe
  <1>. QED BY <1>2, <1>3, Zenon DEF RefreshAggregate

(* Every step keeps the invariant. *)
LEMMA ReportSteps == ReportSafe /\ [ReportNext]_reportVars => ReportSafe'
  <1>1. ReportSafe /\ UNCHANGED reportVars => ReportSafe'
    BY Zenon DEF reportVars, ReportSafe, ReportTypeOK, TaskOrder, Given, CountedOnce, Undisturbed,
           TaskOwns, NeverDoubleCounted
  <1>. QED
    BY Zenon, <1>1, TaskStep, DetailsStep, BuilderLooks, BuilderCounts, BuilderSaves,
       BuilderRefreshes
    DEF ReportNext

(* The inductive invariant holds in every reachable state. *)
THEOREM ReportInv == ReportSpec => []ReportSafe
  BY ReportBegins, ReportSteps, PTL DEF ReportSpec

(* However many requests build the aggregate at once and start again, what is   *)
(* stored never counts a fingerprint twice: whoever counts has an object of      *)
(* its own that starts from zero (build_aggregate_report).                      *)
THEOREM AggregateNeverDoubled == ReportSpec => []NeverDoubleCounted
  BY ReportInv, PTL DEF ReportSafe, CountedOnce

(* When the fingerprint task has succeeded and the report was not saved       *)
(* again, the aggregate that is left counts all the fingerprints.            *)
THEOREM AggregateSettles == ReportSpec => []SettledAggregateCounts
  <1>1. ReportSafe => SettledAggregateCounts
    BY Zenon DEF ReportSafe, Undisturbed, TaskOwns, SettledAggregateCounts
  <1>. QED BY <1>1, ReportInv, PTL
=============================================================================
