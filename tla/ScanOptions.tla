----------------------------- MODULE ScanOptions -----------------------------
(***************************************************************************)
(* The options of a scan: how the REST API stores them (ScanSerializer in  *)
(* api/scan/serializer.py), gives them back and turns them into the extra  *)
(* variables of the Ansible playbook (Scan in api/scan/model.py).          *)
(*                                                                         *)
(* The API speaks of DISABLED optional products, the row stores ENABLED    *)
(* ones, and a product nobody named has a default.  Flags are booleans or  *)
(* None: the strings "true" and "false" convert to them.  The name, the    *)
(* sources and the scan type are left out.                                 *)
(***************************************************************************)
EXTENDS RestValues, Integers, FiniteSets

CONSTANTS Concurrency,    \* the values of max_concurrency a request may give
          Directories,    \* the search directories a request may give
          MaxEntries,     \* at most this many entries in a request
          NotBoolean      \* a flag that is neither a boolean nor None

VARIABLE scan             \* the columns of the scan's options, or None

JBOSS_EAP == "jboss_eap"

JBOSS_FUSE == "jboss_fuse"

JBOSS_WS == "jboss_ws"

SUPPORTED_PRODUCTS == {JBOSS_EAP, JBOSS_FUSE, JBOSS_WS}

EXT_PRODUCT_SEARCH_DIRS == "search_directories"

DEFAULT_MAX_CONCURRENCY == 25

UPPER_MAX_CONCURRENCY == 200

\* None is neither a flag nor a dictionary.
ASSUME NoneIsNoDict ==
    /\ None \notin BOOLEAN
    /\ \A d \in SUBSET SUPPORTED_PRODUCTS : \A flags \in [d -> BOOLEAN] :
          /\ None # flags
          /\ \A l \in Directories \cup {None} :
                None # Over(flags, Entry(EXT_PRODUCT_SEARCH_DIRS, l))

\* not dict, for a column that may be null
Empty(dict) == dict = None \/ DOMAIN dict = {}

\* of a flag that passed the validation
convert_to_boolean(flag) == flag = TRUE

-----------------------------------------------------------------------------
\* validate_options and the checks it makes.  A list of directories is a member
\* of Directories or has one that is not absolute.
ValidMaxConcurrency(max) == max # None => max \in 1 .. UPPER_MAX_CONCURRENCY

ValidFlags(dict) == \A p \in SUPPORTED_PRODUCTS : Get(dict, p, None) \in {TRUE, FALSE, None}

ValidDisabledProducts(disabled) == disabled # None => ValidFlags(disabled)

ValidSearchDirectories(directories) == directories # None => directories \in Directories

ValidExtendedSearch(search) ==
    search # None =>
        /\ ValidFlags(search)
        /\ ValidSearchDirectories(Get(search, EXT_PRODUCT_SEARCH_DIRS, None))

validate_options(options) ==
    /\ ValidMaxConcurrency(Get(options, "max_concurrency", None))
    /\ ValidDisabledProducts(Get(options, "disabled_optional_products", None))
    /\ ValidExtendedSearch(Get(options, "enabled_extended_product_search", None))

\* The options setter, by which POST and PUT store them.
SetMaxConcurrency(row, options) ==
    LET max == Get(options, "max_concurrency", None)
    IN  IF max = None THEN row ELSE [row EXCEPT !.max_concurrency = max]

SetOptional(row, options) ==
    LET disabled == Get(options, "disabled_optional_products", None)
        enabled  == [p \in SUPPORTED_PRODUCTS |-> ~convert_to_boolean(Get(disabled, p, FALSE))]
    IN  IF disabled = None THEN row ELSE [row EXCEPT !.enabled_optional_products = enabled]

SetExtended(row, options) ==
    LET search  == Get(options, "enabled_extended_product_search", None)
        enabled == [p \in SUPPORTED_PRODUCTS |-> convert_to_boolean(Get(search, p, FALSE))]
        dirs    == Entry(EXT_PRODUCT_SEARCH_DIRS, Get(search, EXT_PRODUCT_SEARCH_DIRS, None))
    IN  IF search = None THEN row
        ELSE [row EXCEPT !.enabled_extended_product_search = Over(enabled, dirs)]

SetOptions(row, options) ==
    SetExtended(SetOptional(SetMaxConcurrency(row, options), options), options)

-----------------------------------------------------------------------------
UpdateOptionalOver(row, disabled) ==
    [row EXCEPT !.enabled_optional_products =
        [p \in SUPPORTED_PRODUCTS |-> ~convert_to_boolean(Get(disabled, p, FALSE))]]

\* update_optional_products, reached by PATCH
update_optional_products(row, disabled) ==
    LET stored == row.enabled_optional_products
        fresh  == [p \in SUPPORTED_PRODUCTS |-> ~convert_to_boolean(Get(disabled, p, FALSE))]
        merged == [p \in SUPPORTED_PRODUCTS |->
                      LET flag == Get(disabled, p, None)
                      IN  IF flag # None THEN ~convert_to_boolean(flag) ELSE stored[p]]
    IN  [row EXCEPT !.enabled_optional_products = IF Empty(stored) THEN fresh ELSE merged]

\* update_enabled_extended_product_search, reached by PATCH.  An empty list of
\* directories is not stored in a column that was empty.
update_enabled_extended_product_search(row, search) ==
    LET stored == row.enabled_extended_product_search
        given  == {p \in SUPPORTED_PRODUCTS : Get(search, p, None) # None}
        flags  == [p \in given |-> convert_to_boolean(search[p])]
        dirs   == Get(search, EXT_PRODUCT_SEARCH_DIRS, None)
        keep   == IF Empty(stored) THEN dirs \notin {None, << >>} ELSE dirs # None
        update == IF keep THEN Over(flags, Entry(EXT_PRODUCT_SEARCH_DIRS, dirs)) ELSE flags
    IN  [row EXCEPT !.enabled_extended_product_search =
            IF Empty(stored) THEN update ELSE Over(update, stored)]

\* update_options
update_options(row, options) ==
    LET disabled == Get(options, "disabled_optional_products", None)
        search   == Get(options, "enabled_extended_product_search", None)
        limited  == SetMaxConcurrency(row, options)
        optional == IF Empty(disabled) THEN limited
                    ELSE update_optional_products(limited, disabled)
    IN  IF Empty(search) THEN optional
        ELSE update_enabled_extended_product_search(optional, search)

-----------------------------------------------------------------------------
\* The options getter: what GET shows.
GetOptionsAsStored(row) ==
    LET search   == row.enabled_extended_product_search
        optional == row.enabled_optional_products
    IN  Over(Entry("max_concurrency", row.max_concurrency),
             Over(EntryUnless(Empty(search), "enabled_extended_product_search", search),
                  EntryUnless(Empty(optional), "disabled_optional_products", optional)))

GetOptions(row) ==
    LET search   == row.enabled_extended_product_search
        dirs     == Get(search, EXT_PRODUCT_SEARCH_DIRS, None)
        shown    == Over([p \in SUPPORTED_PRODUCTS |-> Get(search, p, FALSE)],
                         EntryUnless(dirs = None, EXT_PRODUCT_SEARCH_DIRS, dirs))
        optional == row.enabled_optional_products
        disabled == [p \in DOMAIN optional |-> ~optional[p]]
    IN  Over(Entry("max_concurrency", row.max_concurrency),
             Over(EntryUnless(Empty(search), "enabled_extended_product_search", shown),
                  EntryUnless(Empty(optional), "disabled_optional_products", disabled)))

\* get_default_extra_vars: "collect" for the products, "extended" for their
\* _ext names.
DefaultExtraVars == [collect  |-> [p \in SUPPORTED_PRODUCTS |-> TRUE],
                     extended |-> [p \in SUPPORTED_PRODUCTS |-> FALSE],
                     search   |-> None]

\* get_extra_vars.  EAP is collected for the sake of Fuse and of Web Server.
get_extra_vars(row) ==
    LET optional == row.enabled_optional_products
        search   == row.enabled_extended_product_search
        wanted   == [p \in SUPPORTED_PRODUCTS |-> Get(optional, p, TRUE)]
    IN  [collect  |-> IF optional = None THEN DefaultExtraVars.collect
                      ELSE [wanted EXCEPT ![JBOSS_EAP] =
                               wanted[JBOSS_FUSE] \/ wanted[JBOSS_EAP] \/ wanted[JBOSS_WS]],
         extended |-> IF search = None THEN DefaultExtraVars.extended
                      ELSE [p \in SUPPORTED_PRODUCTS |-> Get(search, p, FALSE)],
         search   |-> IF search = None THEN None
                      ELSE Get(search, EXT_PRODUCT_SEARCH_DIRS, None)]

-----------------------------------------------------------------------------
Flags == {<< >>} \cup UNION {[d -> {TRUE, FALSE, None, NotBoolean}] : d \in SUBSET SUPPORTED_PRODUCTS}

Searches == {Over(f, d) : f \in Flags,
                          d \in {<< >>} \cup {Entry(EXT_PRODUCT_SEARCH_DIRS, l) :
                                                 l \in Directories \cup {None, <<"not absolute">>}}}

\* The options of a request.
OptionRequests ==
    LET Size(dict) == Cardinality(DOMAIN dict)
    IN  {<< >>} \cup {Entry("max_concurrency", c) : c \in Concurrency}
        \cup {Entry("disabled_optional_products", f) : f \in {g \in Flags : Size(g) <= MaxEntries}}
        \cup {Entry("enabled_extended_product_search", s) :
                 s \in {t \in Searches : Size(t) <= MaxEntries}}
        \cup {Over(Entry("disabled_optional_products", p[1]),
                   Entry("enabled_extended_product_search", p[2])) :
                 p \in {q \in Flags \X Searches : Size(q[1]) + Size(q[2]) <= MaxEntries}}

FreshScan == [max_concurrency |-> DEFAULT_MAX_CONCURRENCY,
              enabled_optional_products |-> None, enabled_extended_product_search |-> None]

ScanOptionsInit == scan = None

\* ScanSerializer.create
CreateScanOptions ==
    /\ scan = None
    /\ \E options \in OptionRequests :
        /\ validate_options(options)
        /\ scan' = SetOptions(FreshScan, options)

\* _do_full_update: a PUT without options leaves them as they are.
FullUpdateScanOptions ==
    /\ scan # None
    /\ \E options \in OptionRequests :
        /\ validate_options(options)
        /\ scan' = SetOptions(scan, options)

\* _do_partial_update
PartialUpdateScanOptions ==
    /\ scan # None
    /\ \E options \in OptionRequests :
        /\ validate_options(options)
        /\ scan' = update_options(scan, options)

ScanOptionsNext == CreateScanOptions \/ FullUpdateScanOptions \/ PartialUpdateScanOptions

ScanOptionsSpec == ScanOptionsInit /\ [][ScanOptionsNext]_scan

-----------------------------------------------------------------------------
\* The products a request gives a flag for, under one of its keys.
NamedIn(options, key) ==
    LET dict == Get(options, key, None)
    IN  IF dict = None THEN {} ELSE {p \in SUPPORTED_PRODUCTS : Get(dict, p, None) # None}

\* A PATCH changes what the playbook will do for the products it names and for
\* no others, except that EAP follows Fuse and Web Server: a product left out is
\* not put back to a default, whatever was stored before (update_options).
PatchKeepsOthers ==
    scan # None =>
        \A options \in {o \in OptionRequests : validate_options(o)} :
            LET before   == get_extra_vars(scan)
                after    == get_extra_vars(update_options(scan, options))
                disabled == NamedIn(options, "disabled_optional_products")
                searched == NamedIn(options, "enabled_extended_product_search")
            IN  /\ \A p \in SUPPORTED_PRODUCTS \ (disabled \cup {JBOSS_EAP}) :
                      after.collect[p] = before.collect[p]
                /\ disabled = {} => after.collect = before.collect
                /\ \A p \in SUPPORTED_PRODUCTS \ searched :
                      after.extended[p] = before.extended[p]

\* Sending back what GET shows changes nothing that a scan does: the options
\* getter and setter turn enabled into disabled and back, fill in defaults and
\* drop a missing directory list in step with each other, whichever mixture of
\* POST, PUT and PATCH stored the row.
GetThenPutIsNeutral ==
    scan # None =>
        /\ validate_options(GetOptions(scan))
        /\ LET again == SetOptions(scan, GetOptions(scan))
           IN  /\ get_extra_vars(again) = get_extra_vars(scan)
               /\ again.max_concurrency = scan.max_concurrency
               /\ GetOptions(again) = GetOptions(scan)
=============================================================================
