------------------------------ MODULE RestValues ------------------------------
(***************************************************************************)
(* What the modules of the REST API have in common: Python's None, which   *)
(* is also SQL's null and a row that does not exist, and dictionaries,     *)
(* which are functions.                                                    *)
(***************************************************************************)
CONSTANT None

Has(dict, key) == key \in DOMAIN dict

\* dict.get
Get(dict, key, default) == IF Has(dict, key) THEN dict[key] ELSE default

\* {key: value}
Entry(key, value) == [k \in {key} |-> value]

EntryUnless(missing, key, value) == IF missing THEN << >> ELSE Entry(key, value)

\* The entries of one dictionary, and those of another for its other keys: what
\* other.update(dict) leaves.
Over(dict, other) ==
    [k \in DOMAIN dict \cup DOMAIN other |-> IF Has(dict, k) THEN dict[k] ELSE other[k]]

\* A validation gives the set of what is to be saved: nothing if it refuses.
AcceptIf(valid, attrs) == IF valid THEN {attrs} ELSE {}
=============================================================================
