---------------------------- MODULE RestApi_proofs ---------------------------
(***************************************************************************)
(* What the rows of sources and the options of scans promise, for any      *)
(* requests of both versions of the API (SourceSafe and ScanSafe are the   *)
(* inductive invariants), and with them and Stores_proofs everything that  *)
(* the REST API promises of the rows that stand side by side in RestApi.   *)
(***************************************************************************)
EXTENDS RestApi, Stores_proofs

-----------------------------------------------------------------------------
(***************************************************************************)
(* The rows of sources: partial updates never take a row away from what    *)
(* the type of its source asks for.                                        *)
(***************************************************************************)
SourceColumns == {"hosts", "port", "credentials", "exclude_hosts", "options"}

Allowed(type) == IF type \in HTTP_SOURCE_TYPES THEN valid_http_options ELSE valid_ssh_options

(* Options of a source of that type: None where another kind of source has *)
(* its own.                                                                *)
OptionsFit(type, options) ==
    /\ DOMAIN options = SSL_OPTIONS
    /\ \A o \in SSL_OPTIONS \ Allowed(type) : options[o] = None

OneHost(hosts) == Len(hosts) = 1 /\ hosts[1] \in {"ip", "hostname"}

RowFits(type, rec) ==
    /\ DOMAIN rec = SourceColumns
    /\ OptionsFit(type, rec.options)
    /\ type \in HTTP_SOURCE_TYPES => /\ OneHost(rec.hosts)
                                     /\ rec.exclude_hosts = None
                                     /\ rec.credentials = <<type>>

(* The attributes that pass the validation. *)
AttrsFit(type, attrs) ==
    type \in HTTP_SOURCE_TYPES => /\ Has(attrs, "hosts") => OneHost(attrs.hosts)
                                  /\ ~Has(attrs, "exclude_hosts")
                                  /\ Has(attrs, "credentials") => attrs.credentials = <<type>>

(* The inductive invariant. *)
SourceSafe == source # None => RowFits(source_type_, source)

(* The lists of a request. *)
LEMMA RequestLists ==
    ASSUME NEW data \in RequestAttrs
    PROVE  /\ Has(data, "hosts") => data.hosts \in Seq(STRING)
           /\ Has(data, "credentials") => data.credentials \in Seq(STRING)
  <1>1. PICK h \in {<< >>} \cup {Entry("hosts", l) : l \in HostLists},
             c \in {<< >>} \cup {Entry("credentials", l) : l \in CredLists},
             p \in {<< >>} \cup {Entry("port", q) : q \in Ports},
             e \in {<< >>, Entry("exclude_hosts", <<"ip">>)} :
                data = Over(Over(h, c), Over(p, e))
    BY DEF RequestAttrs
  <1> DEFINE hc == Over(h, c)
             pe == Over(p, e)
             both == Over(hc, pe)
  <1>2. DOMAIN h = {} \/ (DOMAIN h = {"hosts"} /\ h["hosts"] \in Seq(STRING))
    <2>1. CASE h = << >>
      BY <2>1, NoEntries, Zenon
    <2>2. CASE h \in {Entry("hosts", l) : l \in HostLists}
      <3>1. PICK l \in HostLists : h = Entry("hosts", l)
        BY <2>2, Zenon
      <3>2. DOMAIN Entry("hosts", l) = {"hosts"} /\ Entry("hosts", l)["hosts"] = l
        BY EntryFacts, Zenon
      <3>. QED BY <3>1, <3>2, ListsAreSequences, Zenon
    <2>. QED BY <2>1, <2>2, Zenon
  <1>3. DOMAIN c = {} \/ (DOMAIN c = {"credentials"} /\ c["credentials"] \in Seq(STRING))
    <2>1. CASE c = << >>
      BY <2>1, NoEntries, Zenon
    <2>2. CASE c \in {Entry("credentials", l) : l \in CredLists}
      <3>1. PICK l \in CredLists : c = Entry("credentials", l)
        BY <2>2, Zenon
      <3>2. DOMAIN Entry("credentials", l) = {"credentials"} /\ Entry("credentials", l)["credentials"] = l
        BY EntryFacts, Zenon
      <3>. QED BY <3>1, <3>2, ListsAreSequences, Zenon
    <2>. QED BY <2>1, <2>2, Zenon
  <1>4. DOMAIN p \subseteq {"port"}
    BY NoEntries, EntryFacts, Zenon
  <1>5. DOMAIN e \subseteq {"exclude_hosts"}
    BY NoEntries, EntryFacts, Zenon
  <1>6. /\ DOMAIN hc = DOMAIN h \cup DOMAIN c
        /\ \A k \in DOMAIN h : hc[k] = h[k]
        /\ \A k \in DOMAIN c \ DOMAIN h : hc[k] = c[k]
    BY OverFacts, Zenon
  <1>7. /\ DOMAIN pe = DOMAIN p \cup DOMAIN e
        /\ \A k \in DOMAIN p : pe[k] = p[k]
        /\ \A k \in DOMAIN e \ DOMAIN p : pe[k] = e[k]
    BY OverFacts, Zenon
  <1> HIDE DEF hc, pe
  <1>8. /\ DOMAIN both = DOMAIN hc \cup DOMAIN pe
        /\ \A k \in DOMAIN hc : both[k] = hc[k]
        /\ \A k \in DOMAIN pe \ DOMAIN hc : both[k] = pe[k]
    BY OverFacts, Zenon
  <1>9. data = both
    BY <1>1, Zenon DEF hc, pe
  <1> HIDE DEF both
  <1>10. /\ "hosts" # "credentials" /\ "hosts" # "port" /\ "hosts" # "exclude_hosts"
         /\ "credentials" # "port" /\ "credentials" # "exclude_hosts"
    OBVIOUS
  <1>11. /\ "hosts" \notin DOMAIN pe /\ "credentials" \notin DOMAIN pe
         /\ "hosts" \notin DOMAIN c /\ "credentials" \notin DOMAIN h
    BY <1>2, <1>3, <1>4, <1>5, <1>7, <1>10, Zenon
  <1>12. "hosts" \in DOMAIN both => both["hosts"] \in Seq(STRING)
    <2>1. "hosts" \in DOMAIN both => "hosts" \in DOMAIN h
      BY <1>6, <1>8, <1>11, Zenon
    <2>2. "hosts" \in DOMAIN h => both["hosts"] = h["hosts"]
      BY <1>6, <1>8, Zenon
    <2>3. "hosts" \in DOMAIN h => h["hosts"] \in Seq(STRING)
      BY <1>2, Zenon
    <2>. QED BY <2>1, <2>2, <2>3, Zenon
  <1>13. "credentials" \in DOMAIN both => both["credentials"] \in Seq(STRING)
    <2>1. "credentials" \in DOMAIN both => "credentials" \in DOMAIN c
      BY <1>6, <1>8, <1>11, Zenon
    <2>2. "credentials" \in DOMAIN c => both["credentials"] = c["credentials"]
      BY <1>6, <1>8, <1>11, Zenon
    <2>3. "credentials" \in DOMAIN c => c["credentials"] \in Seq(STRING)
      BY <1>3, Zenon
    <2>. QED BY <2>1, <2>2, <2>3, Zenon
  <1>. QED BY <1>9, <1>12, <1>13, Zenon DEF Has

(* The one element that is left of a list. *)
LEMMA OnlyOne ==
    ASSUME NEW s, s \in Seq(STRING), NEW S, Len(Only(s, S)) = 1
    PROVE  Only(s, S)[1] \in S /\ \E i \in DOMAIN s : Only(s, S)[1] = s[i]
  <1> DEFINE places == PlacesOf(s, S)
             order == InOrder(places)
             n == Cardinality(places)
  <1>1. places \subseteq 1 .. Len(s)
    BY DEF PlacesOf
  <1>2. IsFiniteSet(places) /\ n \in Nat
    <2>1. Len(s) \in Nat
      OBVIOUS
    <2>2. IsFiniteSet(1 .. Len(s))
      BY <2>1, FS_Interval
    <2> HIDE DEF places
    <2>3. IsFiniteSet(places)
      BY <1>1, <2>2, FS_Subset, Zenon
    <2>. QED BY <2>3, FS_CardinalityType, Zenon DEF n
  <1>3. Only(s, S) = [k \in 1 .. n |-> s[order[k]]]
    BY Zenon DEF Only
  <1> HIDE DEF order, n
  <1>4. Len([k \in 1 .. n |-> s[order[k]]]) = n
    BY <1>2
  <1>5. n = 1
    BY <1>3, <1>4, Zenon
  <1>6. PICK x : places = {x}
    <2> HIDE DEF places
    <2>. QED BY <1>2, <1>5, FS_Singleton, Zenon DEF n
  <1>7. order \in [1 .. n -> places]
    <2> HIDE DEF places
    <2> DEFINE f == [k \in 1 .. n |-> x]
    <2>1. f \in [1 .. n -> places]
      BY <1>6, Zenon
    <2>2. \A j, k \in 1 .. n : ~(j < k)
      BY <1>5
    <2>3. \A j, k \in DOMAIN f : j < k => f[j] < f[k]
      BY <2>2, Zenon
    <2> HIDE DEF f
    <2>4. \E g \in [1 .. n -> places] : \A j, k \in DOMAIN g : j < k => g[j] < g[k]
      BY <2>1, <2>3, Zenon
    <2>. QED BY <2>4, Zenon DEF order, InOrder, n
  <1>8. 1 \in 1 .. n
    BY <1>5
  <1>9. order[1] \in places
    BY <1>7, <1>8, Zenon
  <1>10. Only(s, S)[1] = s[order[1]]
    BY <1>3, <1>8, Zenon
  <1>. QED BY <1>9, <1>10, Zenon DEF PlacesOf

(* The default port adds nothing else to the attributes. *)
LEMMA PortOnly ==
    ASSUME NEW rec, NEW data, NEW k, k # "port"
    PROVE  LET attrs == SetDefaultPort(rec, data)
           IN  /\ Has(attrs, k) <=> Has(data, k)
               /\ Has(data, k) => attrs[k] = data[k]
  <1> DEFINE entry == Entry("port", DefaultPort)
             both == Over(entry, data)
  <1>1. DOMAIN entry = {"port"}
    BY EntryFacts, Zenon
  <1>2. SetDefaultPort(rec, data) \in {data, both}
    BY Zenon DEF SetDefaultPort
  <1> HIDE DEF entry
  <1>3. /\ DOMAIN both = DOMAIN entry \cup DOMAIN data
        /\ \A j \in DOMAIN entry : both[j] = entry[j]
        /\ \A j \in DOMAIN data \ DOMAIN entry : both[j] = data[j]
    BY OverFacts, Zenon
  <1> HIDE DEF both
  <1>4. /\ k \in DOMAIN both <=> k \in DOMAIN data
        /\ k \in DOMAIN data => both[k] = data[k]
    BY <1>1, <1>3, Zenon
  <1>. QED BY <1>2, <1>4, Zenon DEF Has

(* What ValidateSource lets through. *)
LEMMA ValidatedSource ==
    ASSUME NEW rec, NEW data \in RequestAttrs, NEW partial, NEW attrs \in ValidateSource(rec, data, partial)
    PROVE  /\ AttrsFit(source_type_, attrs)
           /\ ~partial => Has(attrs, "hosts") /\ Has(attrs, "credentials")
  <1> DEFINE norm == Normalized(data)
  <1>1. /\ attrs = SetDefaultPort(rec, norm)
        /\ FieldsAccepted(data, partial)
        /\ CredentialsFit(attrs)
        /\ source_type_ \in HTTP_SOURCE_TYPES => HttpFits(rec, attrs)
    BY Zenon DEF ValidateSource, AcceptIf
  <1>2. /\ DOMAIN norm = DOMAIN data
        /\ \A k \in DOMAIN data : norm[k] = IF k \in {"hosts", "exclude_hosts"} THEN NotBlank(data[k]) ELSE data[k]
    BY Zenon DEF Normalized
  <1> HIDE DEF norm
  <1>3. "hosts" # "port" /\ "credentials" # "port" /\ "credentials" \notin {"hosts", "exclude_hosts"}
    OBVIOUS
  <1> DEFINE set == SetDefaultPort(rec, norm)
  <1>4. /\ Has(set, "hosts") <=> Has(norm, "hosts")
        /\ Has(norm, "hosts") => set["hosts"] = norm["hosts"]
    BY <1>3, PortOnly, Zenon
  <1>5. /\ Has(set, "credentials") <=> Has(norm, "credentials")
        /\ Has(norm, "credentials") => set["credentials"] = norm["credentials"]
    BY <1>3, PortOnly, Zenon
  <1>6. /\ Has(attrs, "hosts") <=> Has(data, "hosts")
        /\ Has(data, "hosts") => attrs["hosts"] = NotBlank(data["hosts"])
    <2> HIDE DEF set
    <2>. QED BY <1>1, <1>2, <1>4, Zenon DEF Has, set
  <1>7. /\ Has(attrs, "credentials") <=> Has(data, "credentials")
        /\ Has(data, "credentials") => attrs["credentials"] = data["credentials"]
    <2>1. \A k \in DOMAIN data : k = "credentials" => norm[k] = data[k]
      BY <1>2, <1>3, Zenon
    <2> HIDE DEF set
    <2>. QED BY <1>1, <1>2, <1>5, <2>1, Zenon DEF Has, set
  <1>8. ~partial => Has(attrs, "hosts") /\ Has(attrs, "credentials")
    BY <1>1, <1>6, <1>7, Zenon DEF FieldsAccepted
  <1>9. ASSUME source_type_ \in HTTP_SOURCE_TYPES, Has(attrs, "hosts")
        PROVE  OneHost(attrs.hosts)
    <2> DEFINE s == data["hosts"]
               S == {s[i] : i \in DOMAIN s} \ {""}
    <2>1. s \in Seq(STRING)
      BY <1>6, <1>9, RequestLists, Zenon
    <2>2. attrs.hosts = Only(s, S)
      BY <1>6, <1>9, Zenon DEF NotBlank
    <2>3. Len(attrs.hosts) = 1 /\ attrs.hosts[1] \notin {"cidr", "range"}
      BY <1>1, <1>9, Zenon DEF HttpFits
    <2>4. \A i \in DOMAIN s : s[i] \in Addresses \cup {""}
      BY <1>1, <1>6, <1>9, Zenon DEF FieldsAccepted, ValidAddresses
    <2>5. "" \notin S
      BY Zenon
    <2> HIDE DEF s, S
    <2>6. Only(s, S)[1] \in S /\ \E i \in DOMAIN s : Only(s, S)[1] = s[i]
      <3>1. Len(Only(s, S)) = 1
        BY <2>2, <2>3, Zenon
      <3>. QED BY <2>1, <3>1, OnlyOne, Zenon
    <2>7. attrs.hosts[1] \in Addresses \cup {""} /\ attrs.hosts[1] # ""
      BY <2>2, <2>4, <2>5, <2>6, Zenon
    <2>8. attrs.hosts[1] \in {"ip", "hostname"}
      BY <2>3, <2>7, Zenon DEF Addresses
    <2>. QED BY <2>3, <2>8, Zenon DEF OneHost
  <1>10. ASSUME source_type_ \in HTTP_SOURCE_TYPES, Has(attrs, "credentials")
         PROVE  attrs.credentials = <<source_type_>>
    <2>1. attrs.credentials \in Seq(STRING)
      BY <1>7, <1>10, RequestLists, Zenon
    <2>2. Len(attrs.credentials) = 1
      BY <1>1, <1>10, Zenon DEF HttpFits
    <2>3. \A i \in DOMAIN attrs.credentials : attrs.credentials[i] = source_type_
      BY <1>1, <1>10, Zenon DEF CredentialsFit
    <2> DEFINE c == attrs.credentials
    <2> HIDE DEF c
    <2>4. c \in Seq(STRING) /\ Len(c) = 1 /\ \A i \in DOMAIN c : c[i] = source_type_
      BY <2>1, <2>2, <2>3, Zenon DEF c
    <2>5. c = <<source_type_>>
      <3>1. DOMAIN c = 1 .. 1 /\ c = [i \in 1 .. 1 |-> c[i]]
        BY <2>4
      <3>2. \A i \in 1 .. 1 : c[i] = source_type_
        BY <2>4, <3>1, Zenon
      <3>3. [i \in 1 .. 1 |-> c[i]] = [i \in 1 .. 1 |-> source_type_]
        BY <3>2, Zenon
      <3>4. \A t : [i \in 1 .. 1 |-> t] = <<t>>
        OBVIOUS
      <3>. QED BY <3>1, <3>3, <3>4, Zenon
    <2>. QED BY <2>5, Zenon DEF c
  <1>11. source_type_ \in HTTP_SOURCE_TYPES => ~Has(attrs, "exclude_hosts")
    BY <1>1, Zenon DEF HttpFits
  <1>12. AttrsFit(source_type_, attrs)
    BY <1>9, <1>10, <1>11, Zenon DEF AttrsFit
  <1>. QED BY <1>8, <1>12, Zenon

(* Options of the source's own kind, put over options that fit it. *)
LEMMA OverFits ==
    ASSUME NEW type, NEW given, DOMAIN given \subseteq Allowed(type),
           NEW options, OptionsFit(type, options)
    PROVE  OptionsFit(type, Over(given, options))
  <1> DEFINE both == Over(given, options)
  <1>1. /\ DOMAIN both = DOMAIN given \cup DOMAIN options
        /\ \A k \in DOMAIN given : both[k] = given[k]
        /\ \A k \in DOMAIN options \ DOMAIN given : both[k] = options[k]
    BY OverFacts, Zenon
  <1> HIDE DEF both
  <1>2. Allowed(type) \subseteq SSL_OPTIONS
    BY Zenon DEF Allowed, SSL_OPTIONS, valid_http_options, valid_ssh_options
  <1>3. DOMAIN both = SSL_OPTIONS
    BY <1>1, <1>2, Zenon DEF OptionsFit
  <1>4. \A o \in SSL_OPTIONS \ Allowed(type) : both[o] = None
    BY <1>1, Zenon DEF OptionsFit
  <1>5. OptionsFit(type, both)
    BY <1>3, <1>4, Zenon DEF OptionsFit
  <1>. QED BY <1>5, Zenon DEF both

(* No options fit every type. *)
LEMMA NoOptionsFit ==
    ASSUME NEW type
    PROVE  OptionsFit(type, NoOptions)
  BY Zenon DEF OptionsFit, NoOptions

(* The options that update_options and v2 look at are those with a value. *)
LEMMA NotNoneDomain ==
    ASSUME NEW options
    PROVE  DOMAIN NotNone(options) = {p \in DOMAIN options : options[p] # None}
  BY Zenon DEF NotNone

(* validate_opts asks for the options of the type. *)
LEMMA ValidOptionsAllowed == ValidOptions = Allowed(source_type_)
  BY Zenon DEF ValidOptions, Allowed

(* The options of the row that create_base inserts. *)
LEMMA BaseOptions ==
    ASSUME NEW attrs, NEW options, DOMAIN options \subseteq SSL_OPTIONS
    PROVE  LET o == CreateBase(attrs, options).options
           IN  /\ DOMAIN o = SSL_OPTIONS
               /\ options = << >> => OptionsFit(source_type_, o)
  <1> DEFINE http == source_type_ \in HTTP_SOURCE_TYPES
             entry == Entry("ssl_cert_verify", TRUE)
             more == Over(options, entry)
             verify == IF http /\ ~Has(options, "ssl_cert_verify") THEN more ELSE options
             stored == Over(verify, NoOptions)
             saved == IF NotNone(stored) = << >> /\ http
                      THEN [stored EXCEPT !["ssl_cert_verify"] = TRUE] ELSE stored
  <1>1. CreateBase(attrs, options).options = saved
    BY Zenon DEF CreateBase
  <1>2. DOMAIN entry = {"ssl_cert_verify"}
    BY EntryFacts, Zenon
  <1> HIDE DEF entry
  <1>3. /\ DOMAIN more = DOMAIN options \cup DOMAIN entry
        /\ \A k \in DOMAIN options : more[k] = options[k]
        /\ \A k \in DOMAIN entry \ DOMAIN options : more[k] = entry[k]
    BY OverFacts, Zenon
  <1> HIDE DEF more
  <1>4. DOMAIN NoOptions = SSL_OPTIONS /\ \A o \in SSL_OPTIONS : NoOptions[o] = None
    BY Zenon DEF NoOptions
  <1>5. "ssl_cert_verify" \in SSL_OPTIONS
    BY Zenon DEF SSL_OPTIONS
  <1>6. DOMAIN verify \subseteq SSL_OPTIONS
    BY <1>2, <1>3, <1>5, Zenon
  <1>7. options = << >> => DOMAIN verify \subseteq Allowed(source_type_)
    <2>1. http => "ssl_cert_verify" \in Allowed(source_type_)
      BY Zenon DEF Allowed, valid_http_options
    <2>. QED BY <1>2, <1>3, <2>1, NoEntries, Zenon
  <1> HIDE DEF verify
  <1>8. /\ DOMAIN stored = DOMAIN verify \cup DOMAIN NoOptions
        /\ \A k \in DOMAIN verify : stored[k] = verify[k]
        /\ \A k \in DOMAIN NoOptions \ DOMAIN verify : stored[k] = NoOptions[k]
    BY OverFacts, Zenon
  <1>9. DOMAIN stored = SSL_OPTIONS
    BY <1>4, <1>6, <1>8, Zenon
  <1>10. options = << >> => OptionsFit(source_type_, stored)
    BY <1>7, OverFits, NoOptionsFit, Zenon
  <1> HIDE DEF stored
  <1> DEFINE forced == [stored EXCEPT !["ssl_cert_verify"] = TRUE]
  <1>11. DOMAIN forced = SSL_OPTIONS /\ \A o \in SSL_OPTIONS \ {"ssl_cert_verify"} : forced[o] = stored[o]
    BY <1>9, Zenon
  <1>12. http => \A o \in SSL_OPTIONS \ Allowed(source_type_) : o # "ssl_cert_verify"
    BY Zenon DEF Allowed, valid_http_options
  <1> HIDE DEF forced
  <1>13. http /\ options = << >> => OptionsFit(source_type_, forced)
    BY <1>10, <1>11, <1>12, Zenon DEF OptionsFit
  <1>14. saved = stored \/ (http /\ saved = forced)
    BY Zenon DEF forced
  <1> HIDE DEF saved, http
  <1>15. DOMAIN saved = SSL_OPTIONS /\ (options = << >> => OptionsFit(source_type_, saved))
    BY <1>9, <1>10, <1>11, <1>13, <1>14, Zenon
  <1>. QED BY <1>1, <1>15, Zenon

(* The other columns of that row. *)
LEMMA BaseColumns ==
    ASSUME NEW attrs, NEW options
    PROVE  LET rec == CreateBase(attrs, options)
           IN  /\ DOMAIN rec = SourceColumns
               /\ rec.hosts = attrs.hosts
               /\ rec.credentials = attrs.credentials
               /\ ~Has(attrs, "exclude_hosts") => rec.exclude_hosts = None
  BY DEF CreateBase, SourceColumns

(* Writing the options column. *)
LEMMA OptionsSet ==
    ASSUME NEW rec, DOMAIN rec = SourceColumns, NEW v
    PROVE  /\ DOMAIN [rec EXCEPT !.options = v] = SourceColumns
           /\ [rec EXCEPT !.options = v].options = v
           /\ [rec EXCEPT !.options = v].hosts = rec.hosts
           /\ [rec EXCEPT !.options = v].credentials = rec.credentials
           /\ [rec EXCEPT !.options = v].exclude_hosts = rec.exclude_hosts
  BY DEF SourceColumns

(* A row keeps fitting its type when only its options are written. *)
LEMMA OptionsSetFits ==
    ASSUME NEW type, NEW rec, DOMAIN rec = SourceColumns,
           type \in HTTP_SOURCE_TYPES => /\ OneHost(rec.hosts)
                                         /\ rec.exclude_hosts = None
                                         /\ rec.credentials = <<type>>,
           NEW v, OptionsFit(type, v)
    PROVE  RowFits(type, [rec EXCEPT !.options = v])
  <1> DEFINE saved == [rec EXCEPT !.options = v]
  <1>1. /\ DOMAIN saved = SourceColumns
        /\ saved.options = v
        /\ saved.hosts = rec.hosts
        /\ saved.credentials = rec.credentials
        /\ saved.exclude_hosts = rec.exclude_hosts
    BY OptionsSet, Zenon
  <1> HIDE DEF saved
  <1>2. RowFits(type, saved)
    BY <1>1, Zenon DEF RowFits
  <1>. QED BY <1>2, Zenon DEF saved

(* A row that POST makes. *)
LEMMA CreatedFits ==
    ASSUME NEW attrs, AttrsFit(source_type_, attrs), Has(attrs, "hosts"), Has(attrs, "credentials"),
           NEW options, DOMAIN options \subseteq SSL_OPTIONS,
           NEW rec \in CreateV1(attrs, options) \cup CreateV2(attrs, options)
    PROVE  RowFits(source_type_, rec)
  <1>1. ASSUME NEW o
        PROVE  LET base == CreateBase(attrs, o)
               IN  /\ DOMAIN base = SourceColumns
                   /\ source_type_ \in HTTP_SOURCE_TYPES => /\ OneHost(base.hosts)
                                                            /\ base.exclude_hosts = None
                                                            /\ base.credentials = <<source_type_>>
    <2> DEFINE base == CreateBase(attrs, o)
    <2>1. /\ DOMAIN base = SourceColumns
          /\ base.hosts = attrs.hosts
          /\ base.credentials = attrs.credentials
          /\ ~Has(attrs, "exclude_hosts") => base.exclude_hosts = None
      BY BaseColumns, Zenon
    <2> HIDE DEF base
    <2>2. /\ DOMAIN base = SourceColumns
          /\ source_type_ \in HTTP_SOURCE_TYPES => /\ OneHost(base.hosts)
                                                   /\ base.exclude_hosts = None
                                                   /\ base.credentials = <<source_type_>>
      BY <2>1, Zenon DEF AttrsFit
    <2>. QED BY <2>2, Zenon DEF base
  <1>2. CASE rec \in CreateV1(attrs, options)
    <2> DEFINE base == CreateBase(attrs, << >>)
               all == ApplyDefaults(options)
               over == Over(all, NoOptions)
    <2>1. /\ DOMAIN base = SourceColumns
          /\ source_type_ \in HTTP_SOURCE_TYPES => /\ OneHost(base.hosts)
                                                   /\ base.exclude_hosts = None
                                                   /\ base.credentials = <<source_type_>>
      BY <1>1, Zenon
    <2>2. OptionsFit(source_type_, base.options)
      <3>1. DOMAIN << >> \subseteq SSL_OPTIONS
        BY NoEntries, Zenon
      <3>. QED BY <3>1, BaseOptions, Zenon
    <2>3. rec = base \/ (DOMAIN all \subseteq ValidOptions /\ rec = [base EXCEPT !.options = over])
      BY <1>2, Zenon DEF CreateV1, AcceptIf, ValidateOpts
    <2> HIDE DEF base, all
    <2>4. RowFits(source_type_, base)
      BY <2>1, <2>2, Zenon DEF RowFits
    <2>5. CASE DOMAIN all \subseteq ValidOptions /\ rec = [base EXCEPT !.options = over]
      <3>1. OptionsFit(source_type_, over)
        BY <2>5, ValidOptionsAllowed, OverFits, NoOptionsFit, Zenon
      <3> HIDE DEF over
      <3>2. RowFits(source_type_, [base EXCEPT !.options = over])
        BY <2>1, <3>1, OptionsSetFits, Zenon
      <3>. QED BY <2>5, <3>2, Zenon
    <2>. QED BY <2>3, <2>4, <2>5, Zenon
  <1>3. CASE rec \in CreateV2(attrs, options)
    <2> DEFINE base == CreateBase(attrs, options)
    <2>1. /\ DOMAIN base = SourceColumns
          /\ source_type_ \in HTTP_SOURCE_TYPES => /\ OneHost(base.hosts)
                                                   /\ base.exclude_hosts = None
                                                   /\ base.credentials = <<source_type_>>
      BY <1>1, Zenon
    <2>2. DOMAIN base.options = SSL_OPTIONS
      BY BaseOptions, Zenon
    <2>3. rec = base /\ DOMAIN NotNone(base.options) \subseteq ValidOptions
      BY <1>3, Zenon DEF CreateV2, AcceptIf, ValidateOpts
    <2> HIDE DEF base
    <2>4. \A o \in SSL_OPTIONS \ Allowed(source_type_) : base.options[o] = None
      BY <2>2, <2>3, NotNoneDomain, ValidOptionsAllowed, Zenon
    <2>. QED BY <2>1, <2>2, <2>3, <2>4, Zenon DEF RowFits, OptionsFit
  <1>. QED BY <1>2, <1>3, Zenon

(* A row that PUT or PATCH leaves. *)
LEMMA UpdatedFits ==
    ASSUME NEW attrs, AttrsFit(source_type_, attrs), NEW old, RowFits(source_type_, old),
           NEW options,
           NEW rec \in UpdateV1(old, attrs, options) \cup UpdateV2(old, attrs, options)
    PROVE  RowFits(source_type_, rec)
  <1> DEFINE base == UpdateBase(old, attrs)
  <1>1. /\ DOMAIN base = SourceColumns
        /\ \A f \in SourceColumns :
              base[f] = IF f # "options" /\ Has(attrs, f) THEN attrs[f] ELSE old[f]
    BY Zenon DEF UpdateBase, RowFits
  <1>2. {"hosts", "credentials", "exclude_hosts", "options"} \subseteq SourceColumns
    BY Zenon DEF SourceColumns
  <1> HIDE DEF base
  <1>3. /\ base["hosts"] \in {old["hosts"]} \/ (Has(attrs, "hosts") /\ base["hosts"] = attrs["hosts"])
        /\ base["credentials"] = old["credentials"]
           \/ (Has(attrs, "credentials") /\ base["credentials"] = attrs["credentials"])
        /\ ~Has(attrs, "exclude_hosts") => base["exclude_hosts"] = old["exclude_hosts"]
        /\ base["options"] = old["options"]
    BY <1>1, <1>2, Zenon
  <1>4. source_type_ \in HTTP_SOURCE_TYPES => /\ OneHost(base.hosts)
                                              /\ base.exclude_hosts = None
                                              /\ base.credentials = <<source_type_>>
    BY <1>3, Zenon DEF RowFits, AttrsFit
  <1>5. RowFits(source_type_, base) /\ OptionsFit(source_type_, base.options)
    BY <1>1, <1>3, <1>4, Zenon DEF RowFits
  <1>6. ASSUME NEW given, DOMAIN NotNone(given) \subseteq ValidOptions
        PROVE  RowFits(source_type_, UpdateOptions(given, base))
    <2> DEFINE some == NotNone(given)
               over == Over(some, base.options)
    <2>1. UpdateOptions(given, base) = [base EXCEPT !.options = over]
      <3>1. "options" \in DOMAIN base
        BY <1>1, <1>2, Zenon
      <3>. QED BY <3>1, Zenon DEF UpdateOptions
    <2>2. DOMAIN some \subseteq Allowed(source_type_)
      BY <1>6, ValidOptionsAllowed, Zenon
    <2> HIDE DEF some
    <2>3. OptionsFit(source_type_, over)
      BY <1>5, <2>2, OverFits, Zenon
    <2> HIDE DEF over
    <2>4. RowFits(source_type_, [base EXCEPT !.options = over])
      BY <1>1, <1>4, <2>3, OptionsSetFits, Zenon
    <2>. QED BY <2>1, <2>4, Zenon
  <1>7. CASE rec \in UpdateV1(old, attrs, options)
    <2> DEFINE all == ApplyDefaults(options)
    <2>1. rec = base \/ (DOMAIN all \subseteq ValidOptions /\ rec = UpdateOptions(all, base))
      BY <1>7, Zenon DEF UpdateV1, AcceptIf, ValidateOpts, base
    <2> HIDE DEF all
    <2>2. DOMAIN NotNone(all) \subseteq DOMAIN all
      BY NotNoneDomain, Zenon
    <2>3. CASE DOMAIN all \subseteq ValidOptions /\ rec = UpdateOptions(all, base)
      <3>1. DOMAIN NotNone(all) \subseteq ValidOptions
        BY <2>2, <2>3, Zenon
      <3>2. RowFits(source_type_, UpdateOptions(all, base))
        BY <3>1, <1>6, Zenon
      <3>. QED BY <2>3, <3>2, Zenon
    <2>. QED BY <1>5, <2>1, <2>3, Zenon
  <1>8. CASE rec \in UpdateV2(old, attrs, options)
    <2>1. DOMAIN NotNone(options) \subseteq ValidOptions /\ rec = UpdateOptions(options, base)
      BY <1>8, Zenon DEF UpdateV2, AcceptIf, ValidateOpts, base
    <2>2. RowFits(source_type_, UpdateOptions(options, base))
      BY <2>1, <1>6, Zenon
    <2>. QED BY <2>1, <2>2, Zenon
  <1>. QED BY <1>7, <1>8, Zenon

(* Every POST, PUT and PATCH keeps the row fitting its type. *)
LEMMA SourceStep == SourceSafe /\ [SourceNext]_sourceVars => SourceSafe'
  <1> SUFFICES ASSUME SourceSafe, [SourceNext]_sourceVars PROVE SourceSafe'
    BY Zenon
  <1>1. ASSUME NEW request \in SourceRequests
        PROVE  request[1] \in RequestAttrs /\ DOMAIN request[2] \subseteq SSL_OPTIONS
    <2>1. request[1] \in RequestAttrs /\ request[2] \in RequestOptions
      BY Zenon DEF SourceRequests
    <2>. QED BY <2>1, Zenon DEF RequestOptions
  <1>2. CASE CreateSourceRow
    <2>1. source_type_' = source_type_
      BY <1>2, Zenon DEF CreateSourceRow
    <2>2. PICK api \in {"v1", "v2"}, request \in SourceRequests :
             \E attrs \in ValidateSource(<< >>, request[1], FALSE) :
                source' \in IF api = "v1" THEN CreateV1(attrs, request[2])
                                          ELSE CreateV2(attrs, request[2])
      BY <1>2, Zenon DEF CreateSourceRow
    <2>3. PICK attrs \in ValidateSource(<< >>, request[1], FALSE) :
             source' \in IF api = "v1" THEN CreateV1(attrs, request[2])
                                       ELSE CreateV2(attrs, request[2])
      BY <2>2, Zenon
    <2>4. /\ AttrsFit(source_type_, attrs)
          /\ ~FALSE => Has(attrs, "hosts") /\ Has(attrs, "credentials")
      BY <1>1, ValidatedSource, Zenon
    <2>5. source' \in CreateV1(attrs, request[2]) \cup CreateV2(attrs, request[2])
      BY <2>3, Zenon
    <2>6. RowFits(source_type_, source')
      BY <1>1, <2>4, <2>5, CreatedFits, Zenon
    <2>. QED BY <2>1, <2>6, Zenon DEF SourceSafe
  <1>3. CASE UpdateSourceRow
    <2>1. source_type_' = source_type_
      BY <1>3, Zenon DEF UpdateSourceRow
    <2>2. RowFits(source_type_, source)
      BY <1>3, Zenon DEF UpdateSourceRow, SourceSafe
    <2>3. PICK api \in {"v1", "v2"}, partial \in BOOLEAN, request \in SourceRequests :
             \E attrs \in ValidateSource(source, request[1], partial) :
                source' \in IF api = "v1" THEN UpdateV1(source, attrs, request[2])
                                          ELSE UpdateV2(source, attrs, request[2])
      BY <1>3, Zenon DEF UpdateSourceRow
    <2>4. PICK attrs \in ValidateSource(source, request[1], partial) :
             source' \in IF api = "v1" THEN UpdateV1(source, attrs, request[2])
                                       ELSE UpdateV2(source, attrs, request[2])
      BY <2>3, Zenon
    <2>5. AttrsFit(source_type_, attrs)
      BY <1>1, ValidatedSource, Zenon
    <2>6. source' \in UpdateV1(source, attrs, request[2]) \cup UpdateV2(source, attrs, request[2])
      BY <2>4, Zenon
    <2>7. RowFits(source_type_, source')
      BY <2>2, <2>5, <2>6, UpdatedFits, Zenon
    <2>. QED BY <2>1, <2>7, Zenon DEF SourceSafe
  <1>4. CASE UNCHANGED sourceVars
    <2>1. source' = source /\ source_type_' = source_type_
      BY <1>4, Zenon DEF sourceVars
    <2>. QED BY <2>1, Zenon DEF SourceSafe
  <1>. QED BY <1>2, <1>3, <1>4, Zenon DEF SourceNext

(* The row fits the type of its source in every reachable state. *)
THEOREM SourceInv == SourceSpec => []SourceSafe
  <1>1. SourceInit => SourceSafe
    BY Zenon DEF SourceInit, SourceSafe
  <1>. QED BY <1>1, SourceStep, PTL DEF SourceSpec

(* A source reached over HTTP always has the one host, the one credential and the      *)
(* options that its scanner relies on, and a network source no option of TLS, whatever *)
(* the host lists, the credential lists and the versions of the requests that wrote    *)
(* it (SourceSerializerBase.validate and validate_opts).                               *)
THEOREM RowsFitTheirType == SourceSpec => []SourceFitsType
  <1>1. SourceSafe => SourceFitsType
    <2> SUFFICES ASSUME SourceSafe, source # None
                 PROVE  IF source_type_ \in HTTP_SOURCE_TYPES
                        THEN /\ Len(source.hosts) = 1 /\ source.hosts[1] \in {"ip", "hostname"}
                             /\ source.exclude_hosts = None
                             /\ source.credentials = <<source_type_>>
                             /\ source.options["use_paramiko"] = None
                        ELSE \A o \in {"ssl_cert_verify", "disable_ssl"} : source.options[o] = None
      BY Zenon DEF SourceFitsType
    <2>1. RowFits(source_type_, source)
      BY Zenon DEF SourceSafe
    <2>2. /\ "use_paramiko" \in SSL_OPTIONS \ valid_http_options
          /\ {"ssl_cert_verify", "disable_ssl"} \subseteq SSL_OPTIONS \ valid_ssh_options
      BY DEF SSL_OPTIONS, valid_http_options, valid_ssh_options
    <2>. QED BY <2>1, <2>2, Zenon DEF RowFits, OneHost, OptionsFit, Allowed
  <1>. QED BY <1>1, SourceInv, PTL

-----------------------------------------------------------------------------
(***************************************************************************)
(* The options of a scan: every mixture of POST, PUT and PATCH leaves      *)
(* columns that GET shows in a form PUT takes back, and PATCH changes only *)
(* what it names.                                                          *)
(***************************************************************************)
Columns == {"max_concurrency", "enabled_optional_products", "enabled_extended_product_search"}

DIRS == EXT_PRODUCT_SEARCH_DIRS

(* A dictionary of products and directories, as the column holds it. *)
SearchOK(search) ==
    /\ search = [k \in DOMAIN search |-> search[k]]
    /\ DOMAIN search \subseteq SUPPORTED_PRODUCTS \cup {DIRS}
    /\ \A p \in DOMAIN search \cap SUPPORTED_PRODUCTS : search[p] \in BOOLEAN
    /\ DIRS \in DOMAIN search => search[DIRS] \in Directories \cup {None}

OptionsOK(rec) ==
    /\ DOMAIN rec = Columns
    /\ rec.max_concurrency \in 1 .. UPPER_MAX_CONCURRENCY
    /\ rec.enabled_optional_products # None =>
          rec.enabled_optional_products \in [SUPPORTED_PRODUCTS -> BOOLEAN]
    /\ rec.enabled_extended_product_search # None => SearchOK(rec.enabled_extended_product_search)

(* The inductive invariant. *)
ScanSafe == scan # None => OptionsOK(scan)

(* The directories are no product. *)
LEMMA DirsNoProduct == DIRS \notin SUPPORTED_PRODUCTS /\ SUPPORTED_PRODUCTS # {}
  BY DEF DIRS, EXT_PRODUCT_SEARCH_DIRS, SUPPORTED_PRODUCTS, JBOSS_EAP, JBOSS_FUSE, JBOSS_WS

(* A column's dictionary is not None. *)
LEMMA DictNotNone ==
    ASSUME NEW search, SearchOK(search)
    PROVE  search # None
  <1> DEFINE d == DOMAIN search \cap SUPPORTED_PRODUCTS
             flags == [p \in d |-> search[p]]
  <1>1. d \in SUBSET SUPPORTED_PRODUCTS /\ flags \in [d -> BOOLEAN]
    BY Zenon DEF SearchOK
  <1>2. CASE DIRS \notin DOMAIN search
    <2>1. DOMAIN search = d
      BY <1>2, Zenon DEF SearchOK
    <2>2. search = flags
      BY <2>1, Zenon DEF SearchOK
    <2> HIDE DEF d, flags
    <2>. QED BY <1>1, <2>2, NoneIsNoDict, Zenon
  <1>3. CASE DIRS \in DOMAIN search
    <2> DEFINE entry == Entry(DIRS, search[DIRS])
               both == Over(flags, entry)
    <2>1. search[DIRS] \in Directories \cup {None}
      BY <1>3, Zenon DEF SearchOK
    <2>2. DOMAIN flags = d /\ \A p \in d : flags[p] = search[p]
      BY Zenon
    <2>3. DOMAIN entry = {DIRS} /\ entry[DIRS] = search[DIRS]
      BY EntryFacts, Zenon
    <2>4. DOMAIN search = d \cup {DIRS}
      BY <1>3, Zenon DEF SearchOK
    <2>5. both # None
      <3> HIDE DEF d, flags
      <3>. QED BY <1>1, <2>1, NoneIsNoDict, Zenon DEF DIRS
    <2> HIDE DEF flags, entry
    <2>6. /\ DOMAIN both = DOMAIN flags \cup DOMAIN entry
          /\ \A k \in DOMAIN flags : both[k] = flags[k]
          /\ \A k \in DOMAIN entry \ DOMAIN flags : both[k] = entry[k]
      BY OverFacts, Zenon
    <2>10. both = [k \in DOMAIN both |-> both[k]]
      BY OverFunction, Zenon
    <2> HIDE DEF both
    <2>7. DOMAIN both = DOMAIN search
      BY <2>2, <2>3, <2>4, <2>6, Zenon
    <2>8. \A k \in DOMAIN search : both[k] = search[k]
      <3>1. DIRS \notin d
        BY DirsNoProduct, Zenon
      <3>. QED BY <2>2, <2>3, <2>4, <2>6, <3>1, Zenon
    <2>9. both = search
      BY <2>7, <2>8, <2>10 DEF SearchOK
    <2>. QED BY <2>5, <2>9, Zenon
  <1>. QED BY <1>2, <1>3, Zenon

(* Writing one column. *)
LEMMA MaxSet ==
    ASSUME NEW rec, DOMAIN rec = Columns, NEW v
    PROVE  /\ DOMAIN [rec EXCEPT !.max_concurrency = v] = Columns
           /\ [rec EXCEPT !.max_concurrency = v].max_concurrency = v
           /\ [rec EXCEPT !.max_concurrency = v].enabled_optional_products = rec.enabled_optional_products
           /\ [rec EXCEPT !.max_concurrency = v].enabled_extended_product_search = rec.enabled_extended_product_search
  BY DEF Columns

(* The same for the optional products. *)
LEMMA OptionalSet ==
    ASSUME NEW rec, DOMAIN rec = Columns, NEW v
    PROVE  /\ DOMAIN [rec EXCEPT !.enabled_optional_products = v] = Columns
           /\ [rec EXCEPT !.enabled_optional_products = v].max_concurrency = rec.max_concurrency
           /\ [rec EXCEPT !.enabled_optional_products = v].enabled_optional_products = v
           /\ [rec EXCEPT !.enabled_optional_products = v].enabled_extended_product_search = rec.enabled_extended_product_search
  BY DEF Columns

(* The same for the extended search. *)
LEMMA SearchSet ==
    ASSUME NEW rec, DOMAIN rec = Columns, NEW v
    PROVE  /\ DOMAIN [rec EXCEPT !.enabled_extended_product_search = v] = Columns
           /\ [rec EXCEPT !.enabled_extended_product_search = v].max_concurrency = rec.max_concurrency
           /\ [rec EXCEPT !.enabled_extended_product_search = v].enabled_optional_products = rec.enabled_optional_products
           /\ [rec EXCEPT !.enabled_extended_product_search = v].enabled_extended_product_search = v
  BY DEF Columns

(* What the columns are after each setter. *)
MaxOf(rec, options) ==
    LET max == Get(options, "max_concurrency", None)
    IN  IF max = None THEN rec.max_concurrency ELSE max

Enabled(disabled) == [p \in SUPPORTED_PRODUCTS |-> ~convert_to_boolean(Get(disabled, p, FALSE))]

Searched(search) ==
    Over([p \in SUPPORTED_PRODUCTS |-> convert_to_boolean(Get(search, p, FALSE))],
         Entry(DIRS, Get(search, DIRS, None)))

(* The setter of max_concurrency. *)
LEMMA SetMaxColumns ==
    ASSUME NEW rec, DOMAIN rec = Columns, NEW options
    PROVE  LET r == SetMaxConcurrency(rec, options)
           IN  /\ DOMAIN r = Columns
               /\ r.max_concurrency = MaxOf(rec, options)
               /\ r.enabled_optional_products = rec.enabled_optional_products
               /\ r.enabled_extended_product_search = rec.enabled_extended_product_search
  <1> DEFINE new == Get(options, "max_concurrency", None)
             r == SetMaxConcurrency(rec, options)
             saved == [rec EXCEPT !.max_concurrency = new]
  <1>1. /\ DOMAIN saved = Columns
        /\ saved.max_concurrency = new
        /\ saved.enabled_optional_products = rec.enabled_optional_products
        /\ saved.enabled_extended_product_search =
              rec.enabled_extended_product_search
    <2> HIDE DEF new
    <2>. QED BY MaxSet, Zenon
  <1>2. CASE Get(options, "max_concurrency", None) = None
    <2>1. r = rec
      BY <1>2, Zenon DEF SetMaxConcurrency
    <2>. QED BY <1>2, <2>1, Zenon DEF MaxOf
  <1>3. CASE Get(options, "max_concurrency", None) # None
    <2>1. r = saved
      BY <1>3, Zenon DEF SetMaxConcurrency
    <2> HIDE DEF saved, r
    <2>. QED BY <1>1, <1>3, <2>1, Zenon DEF r, MaxOf
  <1>. QED BY <1>2, <1>3, Zenon

(* The setter of the optional products. *)
LEMMA SetOptionalColumns ==
    ASSUME NEW rec, DOMAIN rec = Columns, NEW options
    PROVE  LET r == SetOptional(rec, options)
               disabled == Get(options, "disabled_optional_products", None)
           IN  /\ DOMAIN r = Columns
               /\ r.max_concurrency = rec.max_concurrency
               /\ r.enabled_optional_products =
                     IF disabled = None THEN rec.enabled_optional_products ELSE Enabled(disabled)
               /\ r.enabled_extended_product_search = rec.enabled_extended_product_search
  <1> DEFINE new == Enabled(Get(options, "disabled_optional_products", None))
             r == SetOptional(rec, options)
             saved == [rec EXCEPT !.enabled_optional_products = new]
  <1>1. /\ DOMAIN saved = Columns
        /\ saved.max_concurrency = rec.max_concurrency
        /\ saved.enabled_optional_products = new
        /\ saved.enabled_extended_product_search =
              rec.enabled_extended_product_search
    <2> HIDE DEF new
    <2>. QED BY OptionalSet, Zenon
  <1>2. CASE Get(options, "disabled_optional_products", None) = None
    <2>1. r = rec
      BY <1>2, Zenon DEF SetOptional
    <2>. QED BY <1>2, <2>1, Zenon
  <1>3. CASE Get(options, "disabled_optional_products", None) # None
    <2>1. r = saved
      BY <1>3, Zenon DEF SetOptional, Enabled
    <2> HIDE DEF saved, r
    <2>. QED BY <1>1, <1>3, <2>1, Zenon DEF r
  <1>. QED BY <1>2, <1>3, Zenon

(* The setter of the extended search. *)
LEMMA SetExtendedColumns ==
    ASSUME NEW rec, DOMAIN rec = Columns, NEW options
    PROVE  LET r == SetExtended(rec, options)
               search == Get(options, "enabled_extended_product_search", None)
           IN  /\ DOMAIN r = Columns
               /\ r.max_concurrency = rec.max_concurrency
               /\ r.enabled_optional_products = rec.enabled_optional_products
               /\ r.enabled_extended_product_search =
                     IF search = None THEN rec.enabled_extended_product_search ELSE Searched(search)
  <1> DEFINE new == Searched(Get(options, "enabled_extended_product_search", None))
             r == SetExtended(rec, options)
             saved == [rec EXCEPT !.enabled_extended_product_search = new]
  <1>1. /\ DOMAIN saved = Columns
        /\ saved.max_concurrency = rec.max_concurrency
        /\ saved.enabled_optional_products = rec.enabled_optional_products
        /\ saved.enabled_extended_product_search =
              new
    <2> HIDE DEF new
    <2>. QED BY SearchSet, Zenon
  <1>2. CASE Get(options, "enabled_extended_product_search", None) = None
    <2>1. r = rec
      BY <1>2, Zenon DEF SetExtended
    <2>. QED BY <1>2, <2>1, Zenon
  <1>3. CASE Get(options, "enabled_extended_product_search", None) # None
    <2>1. r = saved
      BY <1>3, Zenon DEF SetExtended, Searched, DIRS
    <2> HIDE DEF saved, r
    <2>. QED BY <1>1, <1>3, <2>1, Zenon DEF r
  <1>. QED BY <1>2, <1>3, Zenon

(* The options setter. *)
LEMMA SetOptionsColumns ==
    ASSUME NEW rec, DOMAIN rec = Columns, NEW options
    PROVE  LET r == SetOptions(rec, options)
               disabled == Get(options, "disabled_optional_products", None)
               search == Get(options, "enabled_extended_product_search", None)
           IN  /\ DOMAIN r = Columns
               /\ r.max_concurrency = MaxOf(rec, options)
               /\ r.enabled_optional_products =
                     IF disabled = None THEN rec.enabled_optional_products ELSE Enabled(disabled)
               /\ r.enabled_extended_product_search =
                     IF search = None THEN rec.enabled_extended_product_search ELSE Searched(search)
  <1> DEFINE r1 == SetMaxConcurrency(rec, options)
             r2 == SetOptional(r1, options)
             r3 == SetExtended(r2, options)
             disabled == Get(options, "disabled_optional_products", None)
             search == Get(options, "enabled_extended_product_search", None)
  <1>1. /\ DOMAIN r1 = Columns
        /\ r1.max_concurrency = MaxOf(rec, options)
        /\ r1.enabled_optional_products = rec.enabled_optional_products
        /\ r1.enabled_extended_product_search = rec.enabled_extended_product_search
    BY SetMaxColumns, Zenon
  <1> HIDE DEF r1
  <1>2. /\ DOMAIN r2 = Columns
        /\ r2.max_concurrency = r1.max_concurrency
        /\ r2.enabled_optional_products =
              IF disabled = None THEN r1.enabled_optional_products ELSE Enabled(disabled)
        /\ r2.enabled_extended_product_search = r1.enabled_extended_product_search
    BY <1>1, SetOptionalColumns, Zenon
  <1> HIDE DEF r2
  <1>3. /\ DOMAIN r3 = Columns
        /\ r3.max_concurrency = r2.max_concurrency
        /\ r3.enabled_optional_products = r2.enabled_optional_products
        /\ r3.enabled_extended_product_search =
              IF search = None THEN r2.enabled_extended_product_search ELSE Searched(search)
    BY <1>2, SetExtendedColumns, Zenon
  <1>4. r3 = SetOptions(rec, options)
    BY Zenon DEF SetOptions, r1, r2
  <1> HIDE DEF r3, disabled, search
  <1>5. /\ DOMAIN r3 = Columns
        /\ r3.max_concurrency = MaxOf(rec, options)
        /\ r3.enabled_optional_products =
              IF disabled = None THEN rec.enabled_optional_products ELSE Enabled(disabled)
        /\ r3.enabled_extended_product_search =
              IF search = None THEN rec.enabled_extended_product_search ELSE Searched(search)
    BY <1>1, <1>2, <1>3, Zenon
  <1>. QED BY <1>4, <1>5, Zenon DEF disabled, search

(* The columns after update_options, reached by PATCH. *)
MergedProducts(stored, disabled) ==
    IF Empty(stored) THEN Enabled(disabled)
    ELSE [p \in SUPPORTED_PRODUCTS |->
             IF Get(disabled, p, None) # None THEN ~convert_to_boolean(Get(disabled, p, None))
             ELSE stored[p]]

GivenFlags(search) == {p \in SUPPORTED_PRODUCTS : Get(search, p, None) # None}

SearchUpdate(stored, search) ==
    LET flags == [p \in GivenFlags(search) |-> convert_to_boolean(search[p])]
        dirs  == Get(search, DIRS, None)
        keep  == IF Empty(stored) THEN dirs \notin {None, << >>} ELSE dirs # None
    IN  IF keep THEN Over(flags, Entry(DIRS, dirs)) ELSE flags

(* update_options writes these columns and no others. *)
LEMMA UpdateOptionsColumns ==
    ASSUME NEW rec, DOMAIN rec = Columns, NEW options
    PROVE  LET r == update_options(rec, options)
               disabled == Get(options, "disabled_optional_products", None)
               search == Get(options, "enabled_extended_product_search", None)
               optional == rec.enabled_optional_products
               stored == rec.enabled_extended_product_search
           IN  /\ DOMAIN r = Columns
               /\ r.max_concurrency = MaxOf(rec, options)
               /\ r.enabled_optional_products =
                     IF Empty(disabled) THEN optional ELSE MergedProducts(optional, disabled)
               /\ r.enabled_extended_product_search =
                     IF Empty(search) THEN stored
                     ELSE IF Empty(stored) THEN SearchUpdate(stored, search)
                     ELSE Over(SearchUpdate(stored, search), stored)
  <1> DEFINE disabled == Get(options, "disabled_optional_products", None)
             search == Get(options, "enabled_extended_product_search", None)
             r1 == SetMaxConcurrency(rec, options)
             r2 == IF Empty(disabled) THEN r1 ELSE update_optional_products(r1, disabled)
             r3 == IF Empty(search) THEN r2 ELSE update_enabled_extended_product_search(r2, search)
  <1>1. /\ DOMAIN r1 = Columns
        /\ r1.max_concurrency = MaxOf(rec, options)
        /\ r1.enabled_optional_products = rec.enabled_optional_products
        /\ r1.enabled_extended_product_search = rec.enabled_extended_product_search
    BY SetMaxColumns, Zenon
  <1>4. r3 = update_options(rec, options)
    BY Zenon DEF update_options
  <1> HIDE DEF r1
  <1>2. /\ DOMAIN r2 = Columns
        /\ r2.max_concurrency = r1.max_concurrency
        /\ r2.enabled_optional_products =
              IF Empty(disabled) THEN r1.enabled_optional_products
              ELSE MergedProducts(r1.enabled_optional_products, disabled)
        /\ r2.enabled_extended_product_search = r1.enabled_extended_product_search
    <2> HIDE DEF disabled
    <2>1. update_optional_products(r1, disabled) =
             [r1 EXCEPT !.enabled_optional_products = MergedProducts(r1.enabled_optional_products, disabled)]
      BY Zenon DEF update_optional_products, MergedProducts, Enabled
    <2> DEFINE new == MergedProducts(r1.enabled_optional_products, disabled)
               saved == [r1 EXCEPT !.enabled_optional_products = new]
    <2>2. /\ DOMAIN saved = Columns
          /\ saved.max_concurrency = r1.max_concurrency
          /\ saved.enabled_optional_products = new
          /\ saved.enabled_extended_product_search = r1.enabled_extended_product_search
      <3> HIDE DEF new
      <3>. QED BY <1>1, OptionalSet, Zenon
    <2>3. r2 = IF Empty(disabled) THEN r1 ELSE saved
      BY <2>1, Zenon
    <2> HIDE DEF saved, r2
    <2>. QED BY <1>1, <2>2, <2>3, Zenon
  <1> HIDE DEF r2
  <1>3. /\ DOMAIN r3 = Columns
        /\ r3.max_concurrency = r2.max_concurrency
        /\ r3.enabled_optional_products = r2.enabled_optional_products
        /\ r3.enabled_extended_product_search =
              IF Empty(search) THEN r2.enabled_extended_product_search
              ELSE IF Empty(r2.enabled_extended_product_search)
              THEN SearchUpdate(r2.enabled_extended_product_search, search)
              ELSE Over(SearchUpdate(r2.enabled_extended_product_search, search),
                        r2.enabled_extended_product_search)
    <2> HIDE DEF search
    <2> DEFINE stored == r2.enabled_extended_product_search
               new == IF Empty(stored) THEN SearchUpdate(stored, search)
                      ELSE Over(SearchUpdate(stored, search), stored)
    <2>1. update_enabled_extended_product_search(r2, search) =
             [r2 EXCEPT !.enabled_extended_product_search = new]
      BY Zenon DEF update_enabled_extended_product_search, SearchUpdate, GivenFlags, DIRS
    <2> HIDE DEF new
    <2>2. /\ DOMAIN r3 = Columns
          /\ r3.max_concurrency = r2.max_concurrency
          /\ r3.enabled_optional_products = r2.enabled_optional_products
          /\ r3.enabled_extended_product_search =
                IF Empty(search) THEN r2.enabled_extended_product_search ELSE new
      <3> DEFINE saved == [r2 EXCEPT !.enabled_extended_product_search = new]
      <3>1. /\ DOMAIN saved = Columns
            /\ saved.max_concurrency = r2.max_concurrency
            /\ saved.enabled_optional_products = r2.enabled_optional_products
            /\ saved.enabled_extended_product_search = new
        BY <1>2, SearchSet, Zenon
      <3>2. r3 = IF Empty(search) THEN r2 ELSE saved
        BY <2>1, Zenon
      <3> HIDE DEF saved, r3
      <3>. QED BY <1>2, <3>1, <3>2, Zenon
    <2>. QED BY <2>2, Zenon DEF new
  <1> HIDE DEF r3, disabled, search
  <1>5. /\ DOMAIN r3 = Columns
        /\ r3.max_concurrency = MaxOf(rec, options)
        /\ r3.enabled_optional_products =
              IF Empty(disabled) THEN rec.enabled_optional_products
              ELSE MergedProducts(rec.enabled_optional_products, disabled)
        /\ r3.enabled_extended_product_search =
              IF Empty(search) THEN rec.enabled_extended_product_search
              ELSE IF Empty(rec.enabled_extended_product_search)
              THEN SearchUpdate(rec.enabled_extended_product_search, search)
              ELSE Over(SearchUpdate(rec.enabled_extended_product_search, search),
                        rec.enabled_extended_product_search)
    BY <1>1, <1>2, <1>3, Zenon
  <1>. QED BY <1>4, <1>5, Zenon DEF disabled, search

(* Each way of writing a column leaves what OptionsOK says of it. *)
LEMMA EnabledOK ==
    ASSUME NEW disabled
    PROVE  Enabled(disabled) \in [SUPPORTED_PRODUCTS -> BOOLEAN]
  <1>1. \A flag : (~convert_to_boolean(flag)) \in BOOLEAN
    BY DEF convert_to_boolean
  <1>. QED BY <1>1, Zenon DEF Enabled

(* The optional products that a PATCH merges. *)
LEMMA MergedOK ==
    ASSUME NEW disabled, NEW stored, stored # None => stored \in [SUPPORTED_PRODUCTS -> BOOLEAN]
    PROVE  MergedProducts(stored, disabled) \in [SUPPORTED_PRODUCTS -> BOOLEAN]
  <1>1. CASE Empty(stored)
    BY <1>1, EnabledOK, Zenon DEF MergedProducts
  <1>2. CASE ~Empty(stored)
    <2>1. \A p \in SUPPORTED_PRODUCTS : stored[p] \in BOOLEAN
      BY <1>2, Zenon DEF Empty
    <2>2. \A flag : (~convert_to_boolean(flag)) \in BOOLEAN
      BY DEF convert_to_boolean
    <2>. QED BY <1>2, <2>1, <2>2, Zenon DEF MergedProducts
  <1>. QED BY <1>1, <1>2, Zenon

(* The search column that the setter writes: a flag for every product, and directories. *)
LEMMA SearchedFacts ==
    ASSUME NEW search
    PROVE  /\ Searched(search) = [k \in DOMAIN Searched(search) |-> Searched(search)[k]]
           /\ DOMAIN Searched(search) = SUPPORTED_PRODUCTS \cup {DIRS}
           /\ \A p \in SUPPORTED_PRODUCTS :
                 Searched(search)[p] = convert_to_boolean(Get(search, p, FALSE))
           /\ Searched(search)[DIRS] = Get(search, DIRS, None)
  <1> DEFINE flags == [p \in SUPPORTED_PRODUCTS |-> convert_to_boolean(Get(search, p, FALSE))]
             dirs == Entry(DIRS, Get(search, DIRS, None))
             both == Over(flags, dirs)
  <1>1. /\ DOMAIN flags = SUPPORTED_PRODUCTS
        /\ \A p \in SUPPORTED_PRODUCTS : flags[p] = convert_to_boolean(Get(search, p, FALSE))
    BY Zenon
  <1>2. DOMAIN dirs = {DIRS} /\ dirs[DIRS] = Get(search, DIRS, None)
    BY EntryFacts, Zenon
  <1>3. Searched(search) = both
    BY Zenon DEF Searched
  <1> HIDE DEF flags, dirs
  <1>4. /\ DOMAIN both = DOMAIN flags \cup DOMAIN dirs
        /\ \A k \in DOMAIN flags : both[k] = flags[k]
        /\ \A k \in DOMAIN dirs \ DOMAIN flags : both[k] = dirs[k]
    BY OverFacts, Zenon
  <1>5. both = [k \in DOMAIN both |-> both[k]]
    BY OverFunction, Zenon
  <1> HIDE DEF both
  <1>6. both[DIRS] = Get(search, DIRS, None)
    BY <1>1, <1>2, <1>4, DirsNoProduct, Zenon
  <1>7. DOMAIN both = SUPPORTED_PRODUCTS \cup {DIRS}
    BY <1>1, <1>2, <1>4, Zenon
  <1>8. \A p \in SUPPORTED_PRODUCTS : both[p] = convert_to_boolean(Get(search, p, FALSE))
    BY <1>1, <1>4, Zenon
  <1>. QED BY <1>3, <1>5, <1>6, <1>7, <1>8, Zenon

(* It has the form of the column. *)
LEMMA SearchedOK ==
    ASSUME NEW search, ValidSearchDirectories(Get(search, DIRS, None))
    PROVE  SearchOK(Searched(search))
  <1> DEFINE s == Searched(search)
  <1>1. /\ s = [k \in DOMAIN s |-> s[k]]
        /\ DOMAIN s = SUPPORTED_PRODUCTS \cup {DIRS}
        /\ \A p \in SUPPORTED_PRODUCTS : s[p] = convert_to_boolean(Get(search, p, FALSE))
        /\ s[DIRS] = Get(search, DIRS, None)
    BY SearchedFacts, Zenon
  <1> HIDE DEF s
  <1>2. \A flag : convert_to_boolean(flag) \in BOOLEAN
    BY DEF convert_to_boolean
  <1>3. \A p \in SUPPORTED_PRODUCTS : s[p] \in BOOLEAN
    BY <1>1, <1>2, Zenon
  <1>4. s[DIRS] \in Directories \cup {None}
    BY <1>1, Zenon DEF ValidSearchDirectories
  <1>5. SearchOK(s)
    BY <1>1, <1>3, <1>4, Zenon DEF SearchOK
  <1>. QED BY <1>5, Zenon DEF s

(* What a PATCH writes of the search: the flags it gives, in the form of the column. *)
LEMMA SearchUpdateFacts ==
    ASSUME NEW stored, NEW search, ValidSearchDirectories(Get(search, DIRS, None))
    PROVE  /\ SearchOK(SearchUpdate(stored, search))
           /\ DOMAIN SearchUpdate(stored, search) \cap SUPPORTED_PRODUCTS = GivenFlags(search)
  <1> DEFINE flags == [p \in GivenFlags(search) |-> convert_to_boolean(search[p])]
             dirs == Get(search, DIRS, None)
             entry == Entry(DIRS, dirs)
             both == Over(flags, entry)
             keep == IF Empty(stored) THEN dirs \notin {None, << >>} ELSE dirs # None
  <1>1. DOMAIN flags = GivenFlags(search) /\ flags = [p \in DOMAIN flags |-> flags[p]]
    BY Zenon
  <1>2. \A p \in DOMAIN flags : flags[p] \in BOOLEAN
    <2>1. \A flag : convert_to_boolean(flag) \in BOOLEAN
      BY DEF convert_to_boolean
    <2>. QED BY <2>1, Zenon
  <1>3. GivenFlags(search) \subseteq SUPPORTED_PRODUCTS
    BY Zenon DEF GivenFlags
  <1>4. DOMAIN entry = {DIRS} /\ entry[DIRS] = dirs
    BY EntryFacts, Zenon
  <1>5. SearchUpdate(stored, search) = IF keep THEN both ELSE flags
    BY Zenon DEF SearchUpdate
  <1>6. keep => dirs # None
    BY Zenon
  <1>7. dirs # None => dirs \in Directories
    BY Zenon DEF ValidSearchDirectories
  <1> HIDE DEF flags, dirs, entry, keep
  <1>8. /\ DOMAIN both = DOMAIN flags \cup DOMAIN entry
        /\ \A k \in DOMAIN flags : both[k] = flags[k]
        /\ \A k \in DOMAIN entry \ DOMAIN flags : both[k] = entry[k]
    BY OverFacts, Zenon
  <1>9. both = [k \in DOMAIN both |-> both[k]]
    BY OverFunction, Zenon
  <1> HIDE DEF both
  <1>10. SearchOK(flags) /\ DOMAIN flags \cap SUPPORTED_PRODUCTS = GivenFlags(search)
    <2>1. DIRS \notin DOMAIN flags
      BY <1>1, <1>3, DirsNoProduct, Zenon
    <2>. QED BY <1>1, <1>2, <1>3, <2>1, Zenon DEF SearchOK
  <1>11. CASE dirs # None
    <2>1. DOMAIN both = GivenFlags(search) \cup {DIRS}
      BY <1>1, <1>4, <1>8, Zenon
    <2>2. both[DIRS] \in Directories
      BY <1>1, <1>3, <1>4, <1>7, <1>8, <1>11, DirsNoProduct, Zenon
    <2>3. \A p \in DOMAIN both \cap SUPPORTED_PRODUCTS : p \in GivenFlags(search) /\ both[p] \in BOOLEAN
      BY <1>1, <1>2, <1>8, <2>1, DirsNoProduct, Zenon
    <2>4. DOMAIN both \cap SUPPORTED_PRODUCTS = GivenFlags(search)
      BY <1>3, <2>1, <2>3, Zenon
    <2>5. SearchOK(both)
      BY <1>3, <1>9, <2>1, <2>2, <2>3, Zenon DEF SearchOK
    <2>. QED BY <1>5, <1>10, <2>4, <2>5, Zenon
  <1>12. CASE dirs = None
    BY <1>5, <1>6, <1>10, <1>12, Zenon
  <1>. QED BY <1>11, <1>12, Zenon

(* One search written over another. *)
LEMMA OverOK ==
    ASSUME NEW a, NEW b, SearchOK(a), SearchOK(b)
    PROVE  SearchOK(Over(a, b))
  <1> DEFINE both == Over(a, b)
  <1>1. /\ DOMAIN both = DOMAIN a \cup DOMAIN b
        /\ \A k \in DOMAIN a : both[k] = a[k]
        /\ \A k \in DOMAIN b \ DOMAIN a : both[k] = b[k]
    BY OverFacts, Zenon
  <1>2. both = [k \in DOMAIN both |-> both[k]]
    BY OverFunction, Zenon
  <1> HIDE DEF both
  <1>3. \A k \in DOMAIN both : (k \in DOMAIN a /\ both[k] = a[k]) \/ (k \in DOMAIN b /\ both[k] = b[k])
    BY <1>1, Zenon
  <1>4. DOMAIN both \subseteq SUPPORTED_PRODUCTS \cup {DIRS}
    BY <1>1, Zenon DEF SearchOK
  <1>5. \A p \in DOMAIN both \cap SUPPORTED_PRODUCTS : both[p] \in BOOLEAN
    BY <1>3, Zenon DEF SearchOK
  <1>6. DIRS \in DOMAIN both => both[DIRS] \in Directories \cup {None}
    BY <1>3, Zenon DEF SearchOK
  <1>7. SearchOK(both)
    BY <1>2, <1>4, <1>5, <1>6, Zenon DEF SearchOK
  <1>. QED BY <1>7, Zenon DEF both

(* What validate_options lets through. *)
LEMMA Validated ==
    ASSUME NEW options, validate_options(options), NEW rec, OptionsOK(rec)
    PROVE  LET search == Get(options, "enabled_extended_product_search", None)
           IN  /\ MaxOf(rec, options) \in 1 .. UPPER_MAX_CONCURRENCY
               /\ search # None => ValidSearchDirectories(Get(search, DIRS, None))
  <1>1. MaxOf(rec, options) \in 1 .. UPPER_MAX_CONCURRENCY
    BY Zenon DEF MaxOf, validate_options, ValidMaxConcurrency, OptionsOK
  <1>2. LET search == Get(options, "enabled_extended_product_search", None)
        IN  search # None => ValidSearchDirectories(Get(search, DIRS, None))
    BY Zenon DEF validate_options, ValidExtendedSearch, DIRS
  <1>. QED BY <1>1, <1>2, Zenon

(* POST and PUT leave columns in form. *)
LEMMA SetOptionsOK ==
    ASSUME NEW options, validate_options(options), NEW rec, OptionsOK(rec)
    PROVE  OptionsOK(SetOptions(rec, options))
  <1> DEFINE r == SetOptions(rec, options)
             disabled == Get(options, "disabled_optional_products", None)
             search == Get(options, "enabled_extended_product_search", None)
  <1>1. /\ DOMAIN r = Columns
        /\ r.max_concurrency = MaxOf(rec, options)
        /\ r.enabled_optional_products =
              IF disabled = None THEN rec.enabled_optional_products ELSE Enabled(disabled)
        /\ r.enabled_extended_product_search =
              IF search = None THEN rec.enabled_extended_product_search ELSE Searched(search)
    BY SetOptionsColumns, Zenon DEF OptionsOK
  <1>2. /\ MaxOf(rec, options) \in 1 .. UPPER_MAX_CONCURRENCY
        /\ search # None => ValidSearchDirectories(Get(search, DIRS, None))
    BY Validated, Zenon
  <1> HIDE DEF r, disabled, search
  <1>3. r.enabled_optional_products # None =>
           r.enabled_optional_products \in [SUPPORTED_PRODUCTS -> BOOLEAN]
    BY <1>1, EnabledOK, Zenon DEF OptionsOK
  <1>4. r.enabled_extended_product_search # None => SearchOK(r.enabled_extended_product_search)
    BY <1>1, <1>2, SearchedOK, Zenon DEF OptionsOK
  <1>5. OptionsOK(r)
    BY <1>1, <1>2, <1>3, <1>4, Zenon DEF OptionsOK
  <1>. QED BY <1>5, Zenon DEF r

(* PATCH leaves columns in form. *)
LEMMA UpdateOptionsOK ==
    ASSUME NEW options, validate_options(options), NEW rec, OptionsOK(rec)
    PROVE  OptionsOK(update_options(rec, options))
  <1> DEFINE r == update_options(rec, options)
             disabled == Get(options, "disabled_optional_products", None)
             search == Get(options, "enabled_extended_product_search", None)
             optional == rec.enabled_optional_products
             stored == rec.enabled_extended_product_search
  <1>1. /\ DOMAIN r = Columns
        /\ r.max_concurrency = MaxOf(rec, options)
        /\ r.enabled_optional_products =
              IF Empty(disabled) THEN optional ELSE MergedProducts(optional, disabled)
        /\ r.enabled_extended_product_search =
              IF Empty(search) THEN stored
              ELSE IF Empty(stored) THEN SearchUpdate(stored, search)
              ELSE Over(SearchUpdate(stored, search), stored)
    BY UpdateOptionsColumns, Zenon DEF OptionsOK
  <1>2. /\ MaxOf(rec, options) \in 1 .. UPPER_MAX_CONCURRENCY
        /\ search # None => ValidSearchDirectories(Get(search, DIRS, None))
    BY Validated, Zenon
  <1>3. /\ optional # None => optional \in [SUPPORTED_PRODUCTS -> BOOLEAN]
        /\ stored # None => SearchOK(stored)
    BY Zenon DEF OptionsOK
  <1> HIDE DEF r, disabled, search, optional, stored
  <1>4. r.enabled_optional_products # None =>
           r.enabled_optional_products \in [SUPPORTED_PRODUCTS -> BOOLEAN]
    BY <1>1, <1>3, MergedOK, Zenon
  <1>5. r.enabled_extended_product_search # None => SearchOK(r.enabled_extended_product_search)
    <2>1. CASE Empty(search)
      BY <1>1, <1>3, <2>1, Zenon
    <2>2. CASE ~Empty(search)
      <3>1. SearchOK(SearchUpdate(stored, search))
        BY <1>2, <2>2, SearchUpdateFacts, Zenon DEF Empty
      <3>2. ~Empty(stored) => SearchOK(stored)
        BY <1>3, Zenon DEF Empty
      <3>. QED BY <1>1, <2>2, <3>1, <3>2, OverOK, Zenon
    <2>. QED BY <2>1, <2>2, Zenon
  <1>6. OptionsOK(r)
    BY <1>1, <1>2, <1>4, <1>5, Zenon DEF OptionsOK
  <1>. QED BY <1>6, Zenon DEF r

(* A scan that was just created. *)
LEMMA FreshOK == OptionsOK(FreshScan)
  <1>1. DOMAIN FreshScan = Columns
    BY DEF FreshScan, Columns
  <1>2. FreshScan.max_concurrency \in 1 .. UPPER_MAX_CONCURRENCY
    BY DEF FreshScan, DEFAULT_MAX_CONCURRENCY, UPPER_MAX_CONCURRENCY
  <1>3. /\ FreshScan.enabled_optional_products = None
        /\ FreshScan.enabled_extended_product_search = None
    BY DEF FreshScan
  <1>. QED BY <1>1, <1>2, <1>3, Zenon DEF OptionsOK

(* The columns stay in form. *)
THEOREM ScanInv == ScanOptionsSpec => []ScanSafe
  <1>1. ScanOptionsInit => ScanSafe
    BY Zenon DEF ScanOptionsInit, ScanSafe
  <1>2. ScanSafe /\ [ScanOptionsNext]_scan => ScanSafe'
    <2> SUFFICES ASSUME ScanSafe, [ScanOptionsNext]_scan PROVE ScanSafe'
      BY Zenon
    <2>1. CASE CreateScanOptions
      <3>1. PICK options \in OptionRequests :
               validate_options(options) /\ scan' = SetOptions(FreshScan, options)
        BY <2>1, Zenon DEF CreateScanOptions
      <3>2. OptionsOK(SetOptions(FreshScan, options))
        BY <3>1, FreshOK, SetOptionsOK, Zenon
      <3>. QED BY <3>1, <3>2, Zenon DEF ScanSafe, OptionsOK, SearchOK
    <2>2. CASE FullUpdateScanOptions
      <3>1. PICK options \in OptionRequests :
               validate_options(options) /\ scan' = SetOptions(scan, options)
        BY <2>2, Zenon DEF FullUpdateScanOptions
      <3>2. OptionsOK(scan)
        BY <2>2, Zenon DEF FullUpdateScanOptions, ScanSafe
      <3>3. OptionsOK(SetOptions(scan, options))
        BY <3>1, <3>2, SetOptionsOK, Zenon
      <3>. QED BY <3>1, <3>3, Zenon DEF ScanSafe, OptionsOK, SearchOK
    <2>3. CASE PartialUpdateScanOptions
      <3>1. PICK options \in OptionRequests :
               validate_options(options) /\ scan' = update_options(scan, options)
        BY <2>3, Zenon DEF PartialUpdateScanOptions
      <3>2. OptionsOK(scan)
        BY <2>3, Zenon DEF PartialUpdateScanOptions, ScanSafe
      <3>3. OptionsOK(update_options(scan, options))
        BY <3>1, <3>2, UpdateOptionsOK, Zenon
      <3>. QED BY <3>1, <3>3, Zenon DEF ScanSafe, OptionsOK, SearchOK
    <2>4. CASE UNCHANGED scan
      BY <2>4, Zenon DEF ScanSafe, OptionsOK, SearchOK
    <2>. QED BY <2>1, <2>2, <2>3, <2>4, Zenon DEF ScanOptionsNext
  <1>. QED BY <1>1, <1>2, PTL DEF ScanOptionsSpec

(* What GET shows of a column, and what the playbook is told of it. *)
Shown(search) ==
    Over([p \in SUPPORTED_PRODUCTS |-> Get(search, p, FALSE)],
         EntryUnless(Get(search, DIRS, None) = None, DIRS, Get(search, DIRS, None)))

Disabled(optional) == [p \in DOMAIN optional |-> ~optional[p]]

Wanted(optional) ==
    [p \in SUPPORTED_PRODUCTS |-> IF optional = None THEN TRUE ELSE Get(optional, p, TRUE)]

Extended(search) ==
    [p \in SUPPORTED_PRODUCTS |-> IF search = None THEN FALSE ELSE Get(search, p, FALSE)]

(* The entries of what GET shows. *)
LEMMA GetOptionsEntries ==
    ASSUME NEW rec
    PROVE  LET search == rec.enabled_extended_product_search
               optional == rec.enabled_optional_products
           IN  /\ Get(GetOptions(rec), "max_concurrency", None) = rec.max_concurrency
               /\ Get(GetOptions(rec), "enabled_extended_product_search", None) =
                     IF Empty(search) THEN None ELSE Shown(search)
               /\ Get(GetOptions(rec), "disabled_optional_products", None) =
                     IF Empty(optional) THEN None ELSE Disabled(optional)
  <1> DEFINE search == rec.enabled_extended_product_search
             optional == rec.enabled_optional_products
             k1 == "max_concurrency"
             k2 == "enabled_extended_product_search"
             k3 == "disabled_optional_products"
             shown == Shown(search)
             disabled == Disabled(optional)
             e1 == Entry(k1, rec.max_concurrency)
             e2 == EntryUnless(Empty(search), k2, shown)
             e3 == EntryUnless(Empty(optional), k3, disabled)
             inner == Over(e2, e3)
             all == Over(e1, inner)
  <1>1. k1 # k2 /\ k1 # k3 /\ k2 # k3
    OBVIOUS
  <1>2. GetOptions(rec) = all
    BY Zenon DEF GetOptions, Shown, Disabled, DIRS
  <1> HIDE DEF shown, disabled, k1, k2, k3, search, optional
  <1>3. DOMAIN e1 = {k1} /\ e1[k1] = rec.max_concurrency
    BY EntryFacts, Zenon
  <1>11. DOMAIN Entry(k2, shown) = {k2} /\ Entry(k2, shown)[k2] = shown
    BY EntryFacts, Zenon
  <1>12. DOMAIN Entry(k3, disabled) = {k3} /\ Entry(k3, disabled)[k3] = disabled
    BY EntryFacts, Zenon
  <1>4. /\ Empty(search) => DOMAIN e2 = {}
        /\ ~Empty(search) => DOMAIN e2 = {k2} /\ e2[k2] = shown
    BY <1>11, NoEntries, Zenon DEF EntryUnless
  <1>5. /\ Empty(optional) => DOMAIN e3 = {}
        /\ ~Empty(optional) => DOMAIN e3 = {k3} /\ e3[k3] = disabled
    BY <1>12, NoEntries, Zenon DEF EntryUnless
  <1> HIDE DEF e1, e2, e3
  <1>6. /\ DOMAIN inner = DOMAIN e2 \cup DOMAIN e3
        /\ \A k \in DOMAIN e2 : inner[k] = e2[k]
        /\ \A k \in DOMAIN e3 \ DOMAIN e2 : inner[k] = e3[k]
    BY OverFacts, Zenon
  <1> HIDE DEF inner
  <1>7. /\ DOMAIN all = DOMAIN e1 \cup DOMAIN inner
        /\ \A k \in DOMAIN e1 : all[k] = e1[k]
        /\ \A k \in DOMAIN inner \ DOMAIN e1 : all[k] = inner[k]
    BY OverFacts, Zenon
  <1> HIDE DEF all
  <1>8. Get(all, k1, None) = rec.max_concurrency
    BY <1>3, <1>7, Zenon DEF Get, Has
  <1>9. Get(all, k2, None) = IF Empty(search) THEN None ELSE shown
    <2>1. k2 \in DOMAIN all <=> ~Empty(search)
      BY <1>1, <1>3, <1>4, <1>5, <1>6, <1>7, Zenon
    <2>2. ~Empty(search) => all[k2] = shown
      BY <1>1, <1>3, <1>4, <1>6, <1>7, Zenon
    <2>. QED BY <2>1, <2>2, Zenon DEF Get, Has
  <1>10. Get(all, k3, None) = IF Empty(optional) THEN None ELSE disabled
    <2>1. k3 \in DOMAIN all <=> ~Empty(optional)
      BY <1>1, <1>3, <1>4, <1>5, <1>6, <1>7, Zenon
    <2>2. k3 \notin DOMAIN e1 /\ k3 \notin DOMAIN e2
      BY <1>1, <1>3, <1>4, Zenon
    <2>3. ~Empty(optional) => all[k3] = disabled
      BY <1>5, <1>6, <1>7, <2>2, Zenon
    <2>. QED BY <2>1, <2>3, Zenon DEF Get, Has
  <1>. QED BY <1>2, <1>8, <1>9, <1>10, Zenon DEF k1, k2, k3, search, optional, shown, disabled

(* What GET shows of the search column: its flags and its directories. *)
LEMMA ShownFacts ==
    ASSUME NEW search
    PROVE  /\ Shown(search) = [k \in DOMAIN Shown(search) |-> Shown(search)[k]]
           /\ SUPPORTED_PRODUCTS \subseteq DOMAIN Shown(search)
           /\ \A p \in SUPPORTED_PRODUCTS : Shown(search)[p] = Get(search, p, FALSE)
           /\ Get(Shown(search), DIRS, None) = Get(search, DIRS, None)
           /\ DOMAIN Shown(search) \subseteq SUPPORTED_PRODUCTS \cup {DIRS}
  <1> DEFINE flags == [p \in SUPPORTED_PRODUCTS |-> Get(search, p, FALSE)]
             dirs == Get(search, DIRS, None)
             none == dirs = None
             entry == EntryUnless(none, DIRS, dirs)
             both == Over(flags, entry)
  <1>1. DOMAIN flags = SUPPORTED_PRODUCTS /\ \A p \in SUPPORTED_PRODUCTS : flags[p] = Get(search, p, FALSE)
    BY Zenon
  <1>2. Shown(search) = both
    BY Zenon DEF Shown
  <1> HIDE DEF flags, dirs, none
  <1>11. DOMAIN Entry(DIRS, dirs) = {DIRS} /\ Entry(DIRS, dirs)[DIRS] = dirs
    BY EntryFacts, Zenon
  <1>3. /\ none => DOMAIN entry = {}
        /\ ~none => DOMAIN entry = {DIRS} /\ entry[DIRS] = dirs
    BY <1>11, NoEntries, Zenon DEF EntryUnless
  <1> HIDE DEF entry
  <1>4. /\ DOMAIN both = DOMAIN flags \cup DOMAIN entry
        /\ \A k \in DOMAIN flags : both[k] = flags[k]
        /\ \A k \in DOMAIN entry \ DOMAIN flags : both[k] = entry[k]
    BY OverFacts, Zenon
  <1>5. both = [k \in DOMAIN both |-> both[k]]
    BY OverFunction, Zenon
  <1> HIDE DEF both
  <1>6. DIRS \notin DOMAIN flags
    BY <1>1, DirsNoProduct, Zenon
  <1>7. DIRS \in DOMAIN both <=> ~none
    BY <1>3, <1>4, <1>6, Zenon
  <1>12. ~none => both[DIRS] = dirs
    BY <1>3, <1>4, <1>6, Zenon
  <1>8. Get(both, DIRS, None) = dirs
    BY <1>7, <1>12, Zenon DEF Get, Has, none
  <1>9. /\ SUPPORTED_PRODUCTS \subseteq DOMAIN both
        /\ \A p \in SUPPORTED_PRODUCTS : both[p] = Get(search, p, FALSE)
    BY <1>1, <1>4, Zenon
  <1>10. DOMAIN both \subseteq SUPPORTED_PRODUCTS \cup {DIRS}
    BY <1>1, <1>3, <1>4, Zenon
  <1>. QED BY <1>2, <1>5, <1>8, <1>9, <1>10, Zenon DEF dirs

(* What GET shows of the search column can be stored, and storing it leaves *)
(* the same flags and directories.                                          *)
LEMMA StoredAgain ==
    ASSUME NEW search, SearchOK(search)
    PROVE  LET again == Searched(Shown(search))
           IN  /\ ValidExtendedSearch(Shown(search))
               /\ ~Empty(again)
               /\ again # None
               /\ \A p \in SUPPORTED_PRODUCTS : Get(again, p, FALSE) = Get(search, p, FALSE)
               /\ Get(again, DIRS, None) = Get(search, DIRS, None)
  <1> DEFINE shown == Shown(search)
             again == Searched(shown)
  <1>1. /\ SUPPORTED_PRODUCTS \subseteq DOMAIN shown
        /\ \A p \in SUPPORTED_PRODUCTS : shown[p] = Get(search, p, FALSE)
        /\ Get(shown, DIRS, None) = Get(search, DIRS, None)
    BY ShownFacts, Zenon
  <1>2. Get(search, DIRS, None) \in Directories \cup {None}
    BY Zenon DEF SearchOK, Get, Has
  <1>3. \A p \in SUPPORTED_PRODUCTS : Get(search, p, FALSE) \in BOOLEAN
    BY Zenon DEF SearchOK, Get, Has
  <1> HIDE DEF shown
  <1>4. \A p \in SUPPORTED_PRODUCTS : /\ Get(shown, p, None) = Get(search, p, FALSE)
                                      /\ Get(shown, p, FALSE) = Get(search, p, FALSE)
    BY <1>1, Zenon DEF Get, Has
  <1>5. ValidExtendedSearch(shown)
    <2>1. \A p \in SUPPORTED_PRODUCTS : Get(shown, p, None) \in {TRUE, FALSE, None}
      BY <1>3, <1>4, Zenon
    <2>2. ValidSearchDirectories(Get(shown, DIRS, None))
      BY <1>1, <1>2, Zenon DEF ValidSearchDirectories
    <2>. QED BY <2>1, <2>2, Zenon DEF ValidExtendedSearch, ValidFlags, DIRS
  <1>6. /\ again = [k \in DOMAIN again |-> again[k]]
        /\ DOMAIN again = SUPPORTED_PRODUCTS \cup {DIRS}
        /\ \A p \in SUPPORTED_PRODUCTS : again[p] = convert_to_boolean(Get(shown, p, FALSE))
        /\ again[DIRS] = Get(shown, DIRS, None)
    BY SearchedFacts, Zenon
  <1>7. SearchOK(again)
    <2>1. ValidSearchDirectories(Get(shown, DIRS, None))
      BY <1>1, <1>2, Zenon DEF ValidSearchDirectories
    <2>. QED BY <2>1, SearchedOK, Zenon
  <1> HIDE DEF again
  <1>8. again # None
    BY <1>7, DictNotNone, Zenon
  <1>9. ~Empty(again)
    BY <1>6, <1>8, Zenon DEF Empty
  <1>10. \A b \in BOOLEAN : convert_to_boolean(b) = b
    BY DEF convert_to_boolean
  <1>11. \A p \in SUPPORTED_PRODUCTS : again[p] = Get(search, p, FALSE)
    BY <1>3, <1>4, <1>6, <1>10, Zenon
  <1>12. \A p \in SUPPORTED_PRODUCTS : Get(again, p, FALSE) = Get(search, p, FALSE)
    BY <1>6, <1>11, Zenon DEF Get, Has
  <1>13. Get(again, DIRS, None) = Get(search, DIRS, None)
    BY <1>1, <1>6, Zenon DEF Get, Has
  <1>. QED BY <1>5, <1>8, <1>9, <1>12, <1>13, Zenon DEF again, shown

(* The same for the optional products, shown as disabled. *)
LEMMA EnabledAgain ==
    ASSUME NEW optional \in [SUPPORTED_PRODUCTS -> BOOLEAN]
    PROVE  /\ ~Empty(optional) => Enabled(Disabled(optional)) = optional
           /\ ValidDisabledProducts(Disabled(optional))
  <1>1. DOMAIN optional = SUPPORTED_PRODUCTS /\ \A p \in SUPPORTED_PRODUCTS : optional[p] \in BOOLEAN
    BY Zenon
  <1> DEFINE disabled == Disabled(optional)
  <1>2. DOMAIN disabled = SUPPORTED_PRODUCTS /\ \A p \in SUPPORTED_PRODUCTS : disabled[p] = ~optional[p]
    BY <1>1, Zenon DEF Disabled
  <1> HIDE DEF disabled
  <1>3. \A p \in SUPPORTED_PRODUCTS : /\ Get(disabled, p, FALSE) = ~optional[p]
                                      /\ Get(disabled, p, None) = ~optional[p]
    BY <1>2, Zenon DEF Get, Has
  <1>4. \A b \in BOOLEAN : (~convert_to_boolean(~b)) = b /\ (~b) \in {TRUE, FALSE, None}
    BY DEF convert_to_boolean
  <1>5. \A p \in SUPPORTED_PRODUCTS : (~convert_to_boolean(Get(disabled, p, FALSE))) = optional[p]
    BY <1>1, <1>3, <1>4, Zenon
  <1>6. Enabled(disabled) = [p \in SUPPORTED_PRODUCTS |-> optional[p]]
    BY <1>5, Zenon DEF Enabled
  <1>7. optional = [p \in SUPPORTED_PRODUCTS |-> optional[p]]
    BY Zenon
  <1>8. ValidDisabledProducts(disabled)
    BY <1>1, <1>3, <1>4, Zenon DEF ValidDisabledProducts, ValidFlags
  <1>. QED BY <1>6, <1>7, <1>8, Zenon DEF disabled

(* What GET shows passes the validation of a PUT. *)
LEMMA ShownIsValid ==
    ASSUME NEW rec, OptionsOK(rec)
    PROVE  validate_options(GetOptions(rec))
  <1> DEFINE search == rec.enabled_extended_product_search
             optional == rec.enabled_optional_products
             options == GetOptions(rec)
  <1>1. /\ Get(options, "max_concurrency", None) = rec.max_concurrency
        /\ Get(options, "enabled_extended_product_search", None) =
              IF Empty(search) THEN None ELSE Shown(search)
        /\ Get(options, "disabled_optional_products", None) =
              IF Empty(optional) THEN None ELSE Disabled(optional)
    BY GetOptionsEntries, Zenon
  <1>2. /\ rec.max_concurrency \in 1 .. UPPER_MAX_CONCURRENCY
        /\ ~Empty(optional) => optional \in [SUPPORTED_PRODUCTS -> BOOLEAN]
        /\ ~Empty(search) => SearchOK(search)
    BY Zenon DEF OptionsOK, Empty
  <1> HIDE DEF search, optional, options
  <1>3. ValidExtendedSearch(IF Empty(search) THEN None ELSE Shown(search))
    <2>1. ~Empty(search) => ValidExtendedSearch(Shown(search))
      BY <1>2, StoredAgain, Zenon
    <2>. QED BY <2>1, Zenon DEF ValidExtendedSearch
  <1>4. ValidDisabledProducts(IF Empty(optional) THEN None ELSE Disabled(optional))
    <2>1. ~Empty(optional) => ValidDisabledProducts(Disabled(optional))
      BY <1>2, EnabledAgain, Zenon
    <2>. QED BY <2>1, Zenon DEF ValidDisabledProducts
  <1>5. validate_options(options)
    BY <1>1, <1>2, <1>3, <1>4, Zenon DEF validate_options, ValidMaxConcurrency
  <1>. QED BY <1>5, Zenon DEF options

(* GET and the playbook read of a search column no more than its flags and *)
(* its directories.                                                        *)
SameSearch(one, other) ==
    \/ one = other
    \/ /\ ~Empty(one)
       /\ ~Empty(other)
       /\ \A p \in SUPPORTED_PRODUCTS : Get(one, p, FALSE) = Get(other, p, FALSE)
       /\ Get(one, DIRS, None) = Get(other, DIRS, None)

(* Rows that differ in nothing else look the same to both. *)
LEMMA SameSearchSameView ==
    ASSUME NEW one, NEW other,
           one.max_concurrency = other.max_concurrency,
           one.enabled_optional_products = other.enabled_optional_products,
           SameSearch(one.enabled_extended_product_search, other.enabled_extended_product_search)
    PROVE  GetOptions(one) = GetOptions(other) /\ get_extra_vars(one) = get_extra_vars(other)
  <1> DEFINE s == one.enabled_extended_product_search
             t == other.enabled_extended_product_search
  <1>1. CASE s = t
    BY <1>1, Zenon DEF GetOptions, get_extra_vars
  <1>2. CASE s # t
    <2>1. /\ ~Empty(s)
          /\ ~Empty(t)
          /\ \A p \in SUPPORTED_PRODUCTS : Get(s, p, FALSE) = Get(t, p, FALSE)
          /\ Get(s, DIRS, None) = Get(t, DIRS, None)
      BY <1>2, Zenon DEF SameSearch
    <2> HIDE DEF s, t
    <2>2. [p \in SUPPORTED_PRODUCTS |-> Get(s, p, FALSE)] = [p \in SUPPORTED_PRODUCTS |-> Get(t, p, FALSE)]
      BY <2>1, Zenon
    <2>3. s # None /\ t # None
      BY <2>1, Zenon DEF Empty
    <2>4. Shown(s) = Shown(t)
      BY <2>1, <2>2, Zenon DEF Shown
    <2>5. \A rec : GetOptions(rec) =
             Over(Entry("max_concurrency", rec.max_concurrency),
                  Over(EntryUnless(Empty(rec.enabled_extended_product_search),
                                   "enabled_extended_product_search",
                                   Shown(rec.enabled_extended_product_search)),
                       EntryUnless(Empty(rec.enabled_optional_products),
                                   "disabled_optional_products",
                                   Disabled(rec.enabled_optional_products))))
      BY Zenon DEF GetOptions, Shown, Disabled, DIRS
    <2>6. EntryUnless(Empty(s), "enabled_extended_product_search", Shown(s)) =
          EntryUnless(Empty(t), "enabled_extended_product_search", Shown(t))
      BY <2>1, <2>4, Zenon DEF EntryUnless
    <2>7. GetOptions(one) = GetOptions(other)
      BY <2>5, <2>6, Zenon DEF s, t
    <2>8. /\ get_extra_vars(one).extended = get_extra_vars(other).extended
          /\ get_extra_vars(one).search = get_extra_vars(other).search
          /\ get_extra_vars(one).collect = get_extra_vars(other).collect
      BY <2>1, <2>2, <2>3, Zenon DEF get_extra_vars, s, t, DIRS
    <2>9. \A rec : get_extra_vars(rec) = [collect |-> get_extra_vars(rec).collect,
                                          extended |-> get_extra_vars(rec).extended,
                                          search |-> get_extra_vars(rec).search]
      BY Zenon DEF get_extra_vars
    <2>. QED BY <2>7, <2>8, <2>9, Zenon
  <1>. QED BY <1>1, <1>2, Zenon

(* A row whose columns are in form survives being read and sent back. *)
LEMMA ReadBack ==
    ASSUME NEW rec, OptionsOK(rec)
    PROVE  LET again == SetOptions(rec, GetOptions(rec))
           IN  /\ get_extra_vars(again) = get_extra_vars(rec)
               /\ again.max_concurrency = rec.max_concurrency
               /\ GetOptions(again) = GetOptions(rec)
  <1> DEFINE search == rec.enabled_extended_product_search
             optional == rec.enabled_optional_products
             options == GetOptions(rec)
             disabled == Get(options, "disabled_optional_products", None)
             asked == Get(options, "enabled_extended_product_search", None)
             again == SetOptions(rec, options)
  <1>1. /\ Get(options, "max_concurrency", None) = rec.max_concurrency
        /\ asked = IF Empty(search) THEN None ELSE Shown(search)
        /\ disabled = IF Empty(optional) THEN None ELSE Disabled(optional)
    BY GetOptionsEntries, Zenon
  <1>2. DOMAIN rec = Columns
    BY Zenon DEF OptionsOK
  <1>3. /\ again.max_concurrency = MaxOf(rec, options)
        /\ again.enabled_optional_products = IF disabled = None THEN optional ELSE Enabled(disabled)
        /\ again.enabled_extended_product_search = IF asked = None THEN search ELSE Searched(asked)
    <2> HIDE DEF options
    <2>. QED BY <1>2, SetOptionsColumns, Zenon
  <1>4. /\ ~Empty(optional) => optional \in [SUPPORTED_PRODUCTS -> BOOLEAN]
        /\ ~Empty(search) => SearchOK(search)
    BY Zenon DEF OptionsOK, Empty
  <1>5. again.max_concurrency = rec.max_concurrency
    BY <1>1, <1>3, Zenon DEF MaxOf
  <1> HIDE DEF search, optional, options, disabled, asked, again
  <1>6. again.enabled_optional_products = optional
    <2>1. CASE Empty(optional)
      BY <1>1, <1>3, <2>1, Zenon
    <2>2. CASE ~Empty(optional)
      <3>1. Enabled(Disabled(optional)) = optional
        BY <1>4, <2>2, EnabledAgain, Zenon
      <3>. QED BY <1>1, <1>3, <2>2, <3>1, Zenon
    <2>. QED BY <2>1, <2>2, Zenon
  <1>7. SameSearch(again.enabled_extended_product_search, search)
    <2>1. CASE Empty(search)
      BY <1>1, <1>3, <2>1, Zenon DEF SameSearch
    <2>2. CASE ~Empty(search)
      <3> DEFINE stored == Searched(Shown(search))
      <3>1. /\ ~Empty(stored)
            /\ \A p \in SUPPORTED_PRODUCTS : Get(stored, p, FALSE) = Get(search, p, FALSE)
            /\ Get(stored, DIRS, None) = Get(search, DIRS, None)
        BY <1>4, <2>2, StoredAgain, Zenon
      <3> HIDE DEF stored
      <3>2. SameSearch(stored, search)
        BY <2>2, <3>1, Zenon DEF SameSearch
      <3>3. again.enabled_extended_product_search \in {search, stored}
        BY <1>1, <1>3, <2>2, Zenon DEF stored
      <3>. QED BY <3>2, <3>3, Zenon DEF SameSearch
    <2>. QED BY <2>1, <2>2, Zenon
  <1>8. GetOptions(again) = GetOptions(rec) /\ get_extra_vars(again) = get_extra_vars(rec)
    BY <1>5, <1>6, <1>7, SameSearchSameView, Zenon DEF search, optional
  <1>. QED BY <1>5, <1>8, Zenon DEF again, options

(* Whatever mixture of POST, PUT and PATCH stored the options of a scan, what GET shows *)
(* of them is accepted by PUT and changes neither what GET shows nor what the playbook  *)
(* is told (the options getter and setter, get_extra_vars).                             *)
THEOREM ReadingBackIsNeutral == ScanOptionsSpec => []GetThenPutIsNeutral
  <1>1. ScanSafe => GetThenPutIsNeutral
    <2> SUFFICES ASSUME ScanSafe, scan # None
                 PROVE  /\ validate_options(GetOptions(scan))
                        /\ LET again == SetOptions(scan, GetOptions(scan))
                           IN  /\ get_extra_vars(again) = get_extra_vars(scan)
                               /\ again.max_concurrency = scan.max_concurrency
                               /\ GetOptions(again) = GetOptions(scan)
      BY Zenon DEF GetThenPutIsNeutral
    <2>1. OptionsOK(scan)
      BY Zenon DEF ScanSafe
    <2>. QED BY <2>1, ShownIsValid, ReadBack, Zenon
  <1>. QED BY <1>1, ScanInv, PTL

(* What the playbook collects, out of what is wanted. *)
Collect(wanted) ==
    [p \in SUPPORTED_PRODUCTS |->
        IF p = JBOSS_EAP THEN wanted[JBOSS_FUSE] \/ wanted[JBOSS_EAP] \/ wanted[JBOSS_WS]
        ELSE wanted[p]]

(* get_extra_vars in these terms. *)
LEMMA ExtraVars ==
    ASSUME NEW rec
    PROVE  /\ get_extra_vars(rec).collect = Collect(Wanted(rec.enabled_optional_products))
           /\ get_extra_vars(rec).extended = Extended(rec.enabled_extended_product_search)
  <1> DEFINE optional == rec.enabled_optional_products
             search == rec.enabled_extended_product_search
             wanted == [p \in SUPPORTED_PRODUCTS |-> Get(optional, p, TRUE)]
             eap == wanted[JBOSS_FUSE] \/ wanted[JBOSS_EAP] \/ wanted[JBOSS_WS]
  <1>1. {JBOSS_EAP, JBOSS_FUSE, JBOSS_WS} \subseteq SUPPORTED_PRODUCTS
    BY Zenon DEF SUPPORTED_PRODUCTS
  <1>2. CASE optional = None
    <2>1. get_extra_vars(rec).collect = [p \in SUPPORTED_PRODUCTS |-> TRUE]
      BY <1>2, Zenon DEF get_extra_vars, DefaultExtraVars
    <2>2. \A p \in SUPPORTED_PRODUCTS : Wanted(optional)[p] = TRUE
      BY <1>2, Zenon DEF Wanted
    <2> HIDE DEF optional
    <2> DEFINE w == Wanted(optional)
    <2>3. \A p \in SUPPORTED_PRODUCTS : (IF p = JBOSS_EAP THEN w[JBOSS_FUSE] \/ w[JBOSS_EAP] \/ w[JBOSS_WS]
                                         ELSE w[p]) = TRUE
      BY <1>1, <2>2, Zenon
    <2>4. Collect(w) = [p \in SUPPORTED_PRODUCTS |-> TRUE]
      BY <2>3, Zenon DEF Collect
    <2>. QED BY <2>1, <2>4, Zenon DEF get_extra_vars, DefaultExtraVars, Extended, optional
  <1>3. CASE optional # None
    <2>1. get_extra_vars(rec).collect = [wanted EXCEPT ![JBOSS_EAP] = eap]
      BY <1>3, Zenon DEF get_extra_vars
    <2>2. Wanted(optional) = wanted
      BY <1>3, Zenon DEF Wanted
    <2>3. DOMAIN wanted = SUPPORTED_PRODUCTS
      BY Zenon
    <2>4. [wanted EXCEPT ![JBOSS_EAP] = eap] = Collect(wanted)
      <3> HIDE DEF wanted
      <3>. QED BY <2>3, Zenon DEF Collect
    <2>. QED BY <2>1, <2>2, <2>4, Zenon DEF get_extra_vars, DefaultExtraVars, Extended
  <1>. QED BY <1>2, <1>3, Zenon

(* A flag that a PATCH does not give. *)
LEMMA NotGiven ==
    ASSUME NEW dict, NEW p \in SUPPORTED_PRODUCTS \ GivenFlags(dict)
    PROVE  convert_to_boolean(Get(dict, p, FALSE)) = FALSE
  <1>1. Get(dict, p, None) = None
    BY Zenon DEF GivenFlags
  <1>2. convert_to_boolean(None) = FALSE /\ convert_to_boolean(FALSE) = FALSE
    BY NoneIsNoDict DEF convert_to_boolean
  <1>3. CASE p \in DOMAIN dict
    BY <1>1, <1>2, <1>3, Zenon DEF Get, Has
  <1>4. CASE p \notin DOMAIN dict
    BY <1>2, <1>4, Zenon DEF Get, Has
  <1>. QED BY <1>3, <1>4, Zenon

(* PATCH keeps the wish for every product it does not name. *)
LEMMA WantedKept ==
    ASSUME NEW stored, stored # None => stored \in [SUPPORTED_PRODUCTS -> BOOLEAN], NEW disabled
    PROVE  \A p \in SUPPORTED_PRODUCTS \ GivenFlags(disabled) :
              Wanted(MergedProducts(stored, disabled))[p] = Wanted(stored)[p]
  <1> SUFFICES ASSUME NEW p \in SUPPORTED_PRODUCTS \ GivenFlags(disabled)
               PROVE  Wanted(MergedProducts(stored, disabled))[p] = Wanted(stored)[p]
    BY Zenon
  <1> DEFINE merged == MergedProducts(stored, disabled)
  <1>1. merged \in [SUPPORTED_PRODUCTS -> BOOLEAN]
    BY MergedOK, Zenon
  <1>2. merged # None
    BY <1>1, NoneIsNoDict, Zenon
  <1> HIDE DEF merged
  <1>3. Wanted(merged)[p] = merged[p]
    BY <1>1, <1>2, Zenon DEF Wanted, Get, Has
  <1>4. CASE Empty(stored)
    <2>1. stored = None
      BY <1>4, DirsNoProduct, Zenon DEF Empty
    <2>2. merged = Enabled(disabled)
      BY <1>4, Zenon DEF merged, MergedProducts
    <2>3. Enabled(disabled)[p] = ~convert_to_boolean(Get(disabled, p, FALSE))
      BY Zenon DEF Enabled
    <2>4. Enabled(disabled)[p] = TRUE
      BY <2>3, NotGiven, Zenon
    <2>5. Wanted(stored)[p] = TRUE
      BY <2>1, Zenon DEF Wanted
    <2>. QED BY <1>3, <2>2, <2>4, <2>5, Zenon DEF merged
  <1>5. CASE ~Empty(stored)
    <2>1. merged[p] = stored[p]
      BY <1>5, Zenon DEF merged, MergedProducts, GivenFlags
    <2>2. Wanted(stored)[p] = stored[p]
      BY <1>5, Zenon DEF Wanted, Empty, Get, Has
    <2>. QED BY <1>3, <2>1, <2>2, Zenon DEF merged
  <1>. QED BY <1>4, <1>5, Zenon

(* And the extended search of every product it does not name. *)
LEMMA ExtendedKept ==
    ASSUME NEW stored, stored # None => SearchOK(stored),
           NEW search, ValidSearchDirectories(Get(search, DIRS, None))
    PROVE  LET update == SearchUpdate(stored, search)
               saved == IF Empty(stored) THEN update ELSE Over(update, stored)
           IN  \A p \in SUPPORTED_PRODUCTS \ GivenFlags(search) : Extended(saved)[p] = Extended(stored)[p]
  <1> DEFINE update == SearchUpdate(stored, search)
             both == Over(update, stored)
  <1>1. SearchOK(update) /\ DOMAIN update \cap SUPPORTED_PRODUCTS = GivenFlags(search)
    BY SearchUpdateFacts, Zenon
  <1> HIDE DEF update
  <1>2. /\ DOMAIN both = DOMAIN update \cup DOMAIN stored
        /\ \A k \in DOMAIN update : both[k] = update[k]
        /\ \A k \in DOMAIN stored \ DOMAIN update : both[k] = stored[k]
    BY OverFacts, Zenon
  <1>3. CASE Empty(stored)
    <2>1. update # None
      BY <1>1, DictNotNone, Zenon
    <2>2. \A p \in SUPPORTED_PRODUCTS \ GivenFlags(search) : Extended(update)[p] = FALSE
      BY <1>1, <2>1, Zenon DEF Extended, Get, Has
    <2>3. \A p \in SUPPORTED_PRODUCTS : Extended(stored)[p] = FALSE
      BY <1>3, Zenon DEF Extended, Empty, Get, Has
    <2>. QED BY <1>3, <2>2, <2>3, Zenon DEF update
  <1>4. CASE ~Empty(stored)
    <2>1. stored # None /\ SearchOK(stored)
      BY <1>4, Zenon DEF Empty
    <2>2. both # None
      <3>1. SearchOK(both)
        BY <1>1, <2>1, OverOK, Zenon
      <3> HIDE DEF both
      <3>. QED BY <3>1, DictNotNone, Zenon
    <2> HIDE DEF both
    <2>3. \A p \in SUPPORTED_PRODUCTS \ GivenFlags(search) :
             /\ p \in DOMAIN both <=> p \in DOMAIN stored
             /\ p \in DOMAIN stored => both[p] = stored[p]
      BY <1>1, <1>2, Zenon
    <2>4. \A p \in SUPPORTED_PRODUCTS \ GivenFlags(search) : Get(both, p, FALSE) = Get(stored, p, FALSE)
      BY <2>3, Zenon DEF Get, Has
    <2>5. \A p \in SUPPORTED_PRODUCTS \ GivenFlags(search) : Extended(both)[p] = Extended(stored)[p]
      BY <2>1, <2>2, <2>4, Zenon DEF Extended
    <2>. QED BY <1>4, <2>5, Zenon DEF both, update
  <1>. QED BY <1>3, <1>4, Zenon

(* What a PATCH keeps of a row whose columns are in form. *)
LEMMA PatchKeeps ==
    ASSUME NEW rec, OptionsOK(rec), NEW options, validate_options(options)
    PROVE  LET before   == get_extra_vars(rec)
               after    == get_extra_vars(update_options(rec, options))
               disabled == NamedIn(options, "disabled_optional_products")
               searched == NamedIn(options, "enabled_extended_product_search")
           IN  /\ \A p \in SUPPORTED_PRODUCTS \ (disabled \cup {JBOSS_EAP}) :
                     after.collect[p] = before.collect[p]
               /\ disabled = {} => after.collect = before.collect
               /\ \A p \in SUPPORTED_PRODUCTS \ searched :
                     after.extended[p] = before.extended[p]
  <1> DEFINE r == update_options(rec, options)
             disabled == Get(options, "disabled_optional_products", None)
             search == Get(options, "enabled_extended_product_search", None)
             optional == rec.enabled_optional_products
             stored == rec.enabled_extended_product_search
             named == NamedIn(options, "disabled_optional_products")
             searched == NamedIn(options, "enabled_extended_product_search")
             before == get_extra_vars(rec)
             after == get_extra_vars(r)
  <1>1. /\ r.enabled_optional_products =
              IF Empty(disabled) THEN optional ELSE MergedProducts(optional, disabled)
        /\ r.enabled_extended_product_search =
              IF Empty(search) THEN stored
              ELSE IF Empty(stored) THEN SearchUpdate(stored, search)
              ELSE Over(SearchUpdate(stored, search), stored)
    BY UpdateOptionsColumns, Zenon DEF OptionsOK
  <1>2. search # None => ValidSearchDirectories(Get(search, DIRS, None))
    BY Validated, Zenon
  <1>3. /\ optional # None => optional \in [SUPPORTED_PRODUCTS -> BOOLEAN]
        /\ stored # None => SearchOK(stored)
    BY Zenon DEF OptionsOK
  <1>4. /\ ~Empty(disabled) => named = GivenFlags(disabled)
        /\ ~Empty(search) => searched = GivenFlags(search)
    BY Zenon DEF NamedIn, GivenFlags, Empty
  <1>5. /\ before.collect = Collect(Wanted(optional))
        /\ before.extended = Extended(stored)
    BY ExtraVars, Zenon
  <1> HIDE DEF r, named, searched, before
  <1>6. /\ after.collect = Collect(Wanted(r.enabled_optional_products))
        /\ after.extended = Extended(r.enabled_extended_product_search)
    BY ExtraVars, Zenon
  <1> HIDE DEF disabled, search, optional, stored, after
  <1> DEFINE old == Wanted(optional)
             new == Wanted(r.enabled_optional_products)
  <1>7. \A p \in SUPPORTED_PRODUCTS \ named : new[p] = old[p]
    <2>1. CASE Empty(disabled)
      BY <1>1, <2>1, Zenon
    <2>2. CASE ~Empty(disabled)
      <3> DEFINE merged == MergedProducts(optional, disabled)
      <3>1. \A p \in SUPPORTED_PRODUCTS \ GivenFlags(disabled) : Wanted(merged)[p] = Wanted(optional)[p]
        BY <1>3, WantedKept, Zenon
      <3>2. r.enabled_optional_products = merged
        BY <1>1, <2>2, Zenon
      <3> HIDE DEF merged
      <3>. QED BY <1>4, <2>2, <3>1, <3>2, Zenon
    <2>. QED BY <2>1, <2>2, Zenon
  <1>8. /\ old = [p \in SUPPORTED_PRODUCTS |-> old[p]]
        /\ new = [p \in SUPPORTED_PRODUCTS |-> new[p]]
    BY Zenon DEF Wanted
  <1>9. \A p \in SUPPORTED_PRODUCTS \ searched : after.extended[p] = before.extended[p]
    <2>1. CASE Empty(search)
      BY <1>1, <1>5, <1>6, <2>1, Zenon
    <2>2. CASE ~Empty(search)
      <3>1. ValidSearchDirectories(Get(search, DIRS, None))
        BY <1>2, <2>2, Zenon DEF Empty
      <3> DEFINE update == SearchUpdate(stored, search)
                 saved == IF Empty(stored) THEN update ELSE Over(update, stored)
      <3>2. \A p \in SUPPORTED_PRODUCTS \ GivenFlags(search) : Extended(saved)[p] = Extended(stored)[p]
        BY <1>3, <3>1, ExtendedKept, Zenon
      <3>3. r.enabled_extended_product_search = saved
        BY <1>1, <2>2, Zenon
      <3> HIDE DEF saved
      <3>. QED BY <1>4, <1>5, <1>6, <2>2, <3>2, <3>3, Zenon
    <2>. QED BY <2>1, <2>2, Zenon
  <1> HIDE DEF old, new
  <1>10. \A p \in SUPPORTED_PRODUCTS \ (named \cup {JBOSS_EAP}) : Collect(new)[p] = Collect(old)[p]
    BY <1>7, Zenon DEF Collect
  <1>11. named = {} => new = old
    BY <1>7, <1>8, Zenon
  <1>12. /\ \A p \in SUPPORTED_PRODUCTS \ (named \cup {JBOSS_EAP}) :
               after.collect[p] = before.collect[p]
         /\ named = {} => after.collect = before.collect
    BY <1>5, <1>6, <1>10, <1>11, Zenon DEF old, new
  <1>. QED BY <1>9, <1>12, Zenon DEF named, searched, before, after, r

(* A PATCH of any stored scan leaves what the playbook does for the products it does    *)
(* not name, EAP following Fuse and Web Server (update_options).                        *)
THEOREM PatchingKeepsOthers == ScanOptionsSpec => []PatchKeepsOthers
  <1>1. ScanSafe => PatchKeepsOthers
    BY PatchKeeps, Zenon DEF ScanSafe, PatchKeepsOthers
  <1>. QED BY <1>1, ScanInv, PTL

-----------------------------------------------------------------------------
(***************************************************************************)
(* The resources side by side: a step of RestApi is a step of the one that *)
(* the behaviour is about, and no other resource notices it.               *)
(***************************************************************************)
(* A request or a task writes the rows of one resource. *)
LEMMA RestSteps ==
    [Next]_vars => /\ [CredentialNext]_credentialVars
                   /\ [SourceNext]_sourceVars
                   /\ [ScanOptionsNext]_scan
                   /\ [VaultNext]_vaultVars
                   /\ [CacheNext]_cacheVars
                   /\ [ReportNext]_reportVars
  <1> SUFFICES ASSUME [Next]_vars
               PROVE  /\ [CredentialNext]_credentialVars
                      /\ [SourceNext]_sourceVars
                      /\ [ScanOptionsNext]_scan
                      /\ [VaultNext]_vaultVars
                      /\ [CacheNext]_cacheVars
                      /\ [ReportNext]_reportVars
    BY Zenon
  <1>1. CASE Next
    <2>1. CASE CredentialNext /\ UNCHANGED <<sourceVars, scan, storeVars>>
      BY <2>1, Zenon DEF storeVars
    <2>2. CASE SourceNext /\ UNCHANGED <<credentialVars, scan, storeVars>>
      BY <2>2, Zenon DEF storeVars
    <2>3. CASE ScanOptionsNext /\ UNCHANGED <<credentialVars, sourceVars, storeVars>>
      BY <2>3, Zenon DEF storeVars
    <2>4. CASE VaultNext /\ UNCHANGED <<formVars, cacheVars, reportVars>>
      BY <2>4, Zenon DEF formVars
    <2>5. CASE CacheNext /\ UNCHANGED <<formVars, vaultVars, reportVars>>
      BY <2>5, Zenon DEF formVars
    <2>6. CASE ReportNext /\ UNCHANGED <<formVars, vaultVars, cacheVars>>
      BY <2>6, Zenon DEF formVars
    <2>. QED BY <1>1, <2>1, <2>2, <2>3, <2>4, <2>5, <2>6, Zenon DEF Next
  <1>2. CASE UNCHANGED vars
    BY <1>2, Zenon DEF vars, formVars, storeVars
  <1>. QED BY <1>1, <1>2, Zenon

(* Every resource of RestApi behaves as its own module says. *)
THEOREM RestParts ==
    Spec => /\ CredentialSpec
            /\ SourceSpec
            /\ ScanOptionsSpec
            /\ VaultSpec
            /\ ReportSpec
            /\ CacheInit /\ [][CacheNext]_cacheVars
  <1>1. Init => /\ CredentialInit /\ SourceInit /\ ScanOptionsInit
                /\ VaultInit /\ CacheInit /\ ReportInit
    BY Zenon DEF Init
  <1>. QED BY <1>1, RestSteps, PTL
           DEF Spec, CredentialSpec, SourceSpec, ScanOptionsSpec, VaultSpec, ReportSpec

(* What RestApi's run checks of the rows holds for every size of the sets of requests, *)
(* workers and readers: no request, whatever version of the API serves it, and no      *)
(* task leaves a credential, a source, a scan, the Vault definition, the cached        *)
(* deployments or the report's aggregate in a state their readers do not expect.       *)
THEOREM RowsStaySound ==
    Spec => /\ []SecretsEncryptedOnce
            /\ []OneMethod
            /\ []SourceFitsType
            /\ []GetThenPutIsNeutral
            /\ []PatchKeepsOthers
            /\ []StoredConfigVerified
            /\ []CompleteHasFingerprints
            /\ []NeverDoubleCounted
            /\ []SettledAggregateCounts
            /\ NewDefinitionNotOverwritten
  <1>1. CacheSafe => CompleteHasFingerprints
    BY Zenon DEF CacheSafe, CacheTypeOK, SoundRows, CompleteHasFingerprints
  <1>2. CacheInit /\ [][CacheNext]_cacheVars => []CompleteHasFingerprints
    BY <1>1, CacheBegins, CacheSteps, PTL
  <1>. QED BY <1>2, RestParts, SecretsStayEncrypted, AlwaysOneMethod, RowsFitTheirType,
              ReadingBackIsNeutral, PatchingKeepsOthers, StoredIsVerified, AggregateNeverDoubled,
              AggregateSettles, NewDefinitionIsKept, PTL
=============================================================================
