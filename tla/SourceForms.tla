----------------------------- MODULE SourceForms -----------------------------
(***************************************************************************)
(* How one Source row is written by the REST API: SourceSerializerBase and *)
(* its v1 and v2 subclasses (api/source/serializer.py), which one view     *)
(* chooses by the version in the URL.                                      *)
(*                                                                         *)
(* A host is represented by the form of its address, a credential by its   *)
(* type.  ssl_protocol stands with disable_ssl: both are plain HTTP        *)
(* options.  The name, proxy_url and most_recent_connect_scan are left     *)
(* out.                                                                    *)
(***************************************************************************)
EXTENDS RestValues, Selection

CONSTANTS Ports,       \* the ports a request may give, None among them
          HostLists,   \* the host lists a request may give
          CredLists,   \* the lists of credential types a request may give
          MaxKeys      \* at most this many keys in a request

ASSUME ListsAreSequences == HostLists \subseteq Seq(STRING) /\ CredLists \subseteq Seq(STRING)

VARIABLES source_type_, \* the type of the source, fixed at creation
          source        \* the row, or None

sourceVars == <<source_type_, source>>

HTTP_SOURCE_TYPES == {"rhacs", "ansible", "openshift", "satellite", "vcenter"}

SSH_SOURCE_TYPES == {"network"}

SSL_OPTIONS == {"ssl_cert_verify", "disable_ssl", "use_paramiko"}

valid_ssh_options == {"use_paramiko"}

valid_http_options == {"ssl_cert_verify", "disable_ssl"}

MIN_PORT == 0

MAX_PORT == 65536

NoOptions == [o \in SSL_OPTIONS |-> None]

\* bool(getattr(instance, "port", None) or attrs.get("port")) reads each like this
PortSet(data) == data # None /\ "port" \in DOMAIN data /\ data.port \notin {None, 0}

-----------------------------------------------------------------------------
\* validate_addresses: the blanks go, and what is left must be addresses of a
\* known form.
Addresses == {"ip", "hostname", "cidr", "range"}

NotBlank(addresses) == Only(addresses, {addresses[i] : i \in DOMAIN addresses} \ {""})

ValidAddresses(addresses) ==
    /\ NotBlank(addresses) # << >>
    /\ \A i \in DOMAIN addresses : addresses[i] \in Addresses \cup {""}

ValidPort(port) == port = None \/ port \in MIN_PORT .. MAX_PORT

FieldsAccepted(data, partial) ==
    /\ partial \/ (Has(data, "hosts") /\ Has(data, "credentials"))
    /\ \A h \in {"hosts", "exclude_hosts"} : Has(data, h) => ValidAddresses(data[h])
    /\ Has(data, "credentials") => data.credentials # << >>
    /\ Has(data, "port") => ValidPort(data.port)

\* to_internal_value followed by the validate_* methods
Normalized(data) ==
    [k \in DOMAIN data |->
        IF k \in {"hosts", "exclude_hosts"} THEN NotBlank(data[k]) ELSE data[k]]

DefaultPort ==
    CASE source_type_ = "network" -> 22
      [] source_type_ = "openshift" -> 6443
      [] OTHER -> 443

\* _set_default_port: the stored port wins over the given one when deciding
\* whether a default is needed.
SetDefaultPort(row, data) ==
    IF PortSet(row) \/ PortSet(data) THEN data
    ELSE Over(Entry("port", DefaultPort), data)

CredentialsFit(data) ==
    Has(data, "credentials") =>
        \A i \in DOMAIN data.credentials : data.credentials[i] = source_type_

HttpFitsOnCreate(row, data) ==
    row = << >> =>
        /\ Has(data, "hosts") => Len(data.hosts) = 1 /\ data.hosts[1] \notin {"cidr", "range"}
        /\ ~Has(data, "exclude_hosts")
        /\ Has(data, "credentials") => Len(data.credentials) = 1

\* _validate_number_hosts_and_credentials
HttpFits(row, data) ==
    /\ Has(data, "hosts") => Len(data.hosts) = 1 /\ data.hosts[1] \notin {"cidr", "range"}
    /\ ~Has(data, "exclude_hosts")
    /\ Has(data, "credentials") => Len(data.credentials) = 1

\* SourceSerializerBase.validate: the attributes to save, if the request passes.
ValidateSource(row, data, partial) ==
    LET attrs == SetDefaultPort(row, Normalized(data))
        valid == /\ FieldsAccepted(data, partial)
                 /\ CredentialsFit(attrs)
                 /\ source_type_ \in HTTP_SOURCE_TYPES => HttpFits(row, attrs)
    IN  AcceptIf(valid, attrs)

-----------------------------------------------------------------------------

ValidOptions ==
    IF source_type_ \in HTTP_SOURCE_TYPES THEN valid_http_options ELSE valid_ssh_options

\* validate_opts: no option of another kind of source.
ValidateOpts(options) == DOMAIN options \subseteq ValidOptions

\* Its apply_defaults, which every v1 call leaves on.
ApplyDefaults(options) ==
    IF source_type_ \in HTTP_SOURCE_TYPES
    THEN Over(options, Entry("ssl_cert_verify", TRUE)) ELSE options

NotNone(options) == [o \in {p \in DOMAIN options : options[p] # None} |-> options[o]]

\* update_options
UpdateOptions(options, row) ==
    [row EXCEPT !.options = Over(NotNone(options), @)]

\* create_base: the row as it is inserted, its own options validated.
CreateBase(attrs, options) ==
    LET verify == IF source_type_ \in HTTP_SOURCE_TYPES /\ ~Has(options, "ssl_cert_verify")
                  THEN Over(options, Entry("ssl_cert_verify", TRUE)) ELSE options
        stored == Over(verify, NoOptions)
    IN  [hosts |-> attrs.hosts, port |-> attrs.port, credentials |-> attrs.credentials,
         exclude_hosts |-> IF Has(attrs, "exclude_hosts") THEN attrs.exclude_hosts ELSE None,
         options |-> IF NotNone(stored) = << >> /\ source_type_ \in HTTP_SOURCE_TYPES
                     THEN [stored EXCEPT !["ssl_cert_verify"] = TRUE] ELSE stored]

\* update_base: only what the request gives is replaced.
UpdateBase(row, attrs) ==
    [f \in DOMAIN row |-> IF f # "options" /\ Has(attrs, f) THEN attrs[f] ELSE row[f]]

\* SourceSerializerV1.create and update: the four columns are set from the
\* options given, None where one is missing, on a create.
CreateV1(attrs, options) ==
    LET row == CreateBase(attrs, << >>)
        all == ApplyDefaults(options)
    IN  IF options = << >> THEN {row}
        ELSE AcceptIf(ValidateOpts(all), [row EXCEPT !.options = Over(all, NoOptions)])

UpdateV1(row, attrs, options) ==
    LET all == ApplyDefaults(options)
    IN  IF options = << >> THEN {UpdateBase(row, attrs)}
        ELSE AcceptIf(ValidateOpts(all), UpdateOptions(all, UpdateBase(row, attrs)))

\* SourceSerializerV2.create and update.
CreateV2(attrs, options) ==
    LET row == CreateBase(attrs, options)
    IN  AcceptIf(ValidateOpts(NotNone(row.options)), row)

UpdateV2(row, attrs, options) ==
    AcceptIf(ValidateOpts(NotNone(options)), UpdateOptions(options, UpdateBase(row, attrs)))

-----------------------------------------------------------------------------
\* A request: the attributes it gives and, apart from them, the SSL options.
RequestAttrs ==
    {Over(Over(h, c), Over(p, e)) :
        h \in {<< >>} \cup {Entry("hosts", l) : l \in HostLists},
        c \in {<< >>} \cup {Entry("credentials", l) : l \in CredLists},
        p \in {<< >>} \cup {Entry("port", q) : q \in Ports},
        e \in {<< >>, Entry("exclude_hosts", <<"ip">>)}}

RequestOptions == UNION {[d -> {TRUE, FALSE, None}] : d \in SUBSET SSL_OPTIONS}

SourceRequests ==
    {r \in RequestAttrs \X RequestOptions :
        Cardinality(DOMAIN r[1]) + Cardinality(DOMAIN r[2]) <= MaxKeys}

SourceInit ==
    /\ source_type_ \in {"network", "openshift", "vcenter"}
    /\ source = None

\* POST
CreateSourceRow ==
    /\ source = None
    /\ \E api \in {"v1", "v2"}, request \in SourceRequests :
        \E attrs \in ValidateSource(<< >>, request[1], FALSE) :
            source' \in IF api = "v1" THEN CreateV1(attrs, request[2])
                                      ELSE CreateV2(attrs, request[2])
    /\ UNCHANGED source_type_

\* PUT or PATCH.  A request that names source_type is refused.
UpdateSourceRow ==
    /\ source # None
    /\ \E api \in {"v1", "v2"}, partial \in BOOLEAN, request \in SourceRequests :
        \E attrs \in ValidateSource(source, request[1], partial) :
            source' \in IF api = "v1" THEN UpdateV1(source, attrs, request[2])
                                      ELSE UpdateV2(source, attrs, request[2])
    /\ UNCHANGED source_type_

SourceNext == CreateSourceRow \/ UpdateSourceRow

SourceSpec == SourceInit /\ [][SourceNext]_sourceVars

-----------------------------------------------------------------------------
\* A row fits the type of its source, whatever partial updates it went through.
\* One that is reached over HTTP has one host, which is neither a network nor a
\* range, no excluded hosts and one credential of its own type (SOURCE_ONE_HOST,
\* SOURCE_ONE_CRED): the scanners take hosts[0] and single_credential without
\* looking further.  No SSL option reaches a network source, nor paramiko an HTTP
\* one, through v1's "options" or v2's own fields.
SourceFitsType ==
    source # None =>
        IF source_type_ \in HTTP_SOURCE_TYPES
        THEN /\ Len(source.hosts) = 1 /\ source.hosts[1] \in {"ip", "hostname"}
             /\ source.exclude_hosts = None
             /\ source.credentials = <<source_type_>>
             /\ source.options["use_paramiko"] = None
        ELSE \A o \in {"ssl_cert_verify", "disable_ssl"} : source.options[o] = None
=============================================================================
