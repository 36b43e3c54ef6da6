------------------------------ MODULE Selection -----------------------------
(* Some of the elements of a sequence, in their order (a comprehension with a  *)
(* condition), and the number of rows with a value.                         *)
EXTENDS Integers, FiniteSets, Sequences

(* The places of the elements of S in a sequence, in their order. *)
PlacesOf(s, S) == {i \in DOMAIN s : s[i] \in S}

InOrder(places) ==
    CHOOSE f \in [1 .. Cardinality(places) -> places] :
        \A j, k \in DOMAIN f : j < k => f[j] < f[k]

(* The elements of a sequence that are in S. *)
Only(s, S) ==
    LET order == InOrder(PlacesOf(s, S))
    IN  [k \in 1 .. Cardinality(PlacesOf(s, S)) |-> s[order[k]]]

(* How many rows of a list have that name, or that status. *)
Named(rows, s) == Cardinality({i \in DOMAIN rows : rows[i].name = s})
WithStatus(rows, result) == Cardinality({i \in DOMAIN rows : rows[i].status = result})

=============================================================================
