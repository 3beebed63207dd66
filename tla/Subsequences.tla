---------------------------- MODULE Subsequences ----------------------------
(* Parts of a sequence, in its order. *)
EXTENDS Naturals, FiniteSets

(* The k-th smallest of a set of numbers. *)
Nth(places, k) ==
    CHOOSE place \in places : Cardinality({other \in places : other <= place}) = k

(* What a sequence has at some places. *)
Subsequence(sequence, places) ==
    [k \in 1 .. Cardinality(places) |-> sequence[Nth(places, k)]]

(* A sequence without some of its elements. *)
Without(sequence, elements) ==
    Subsequence(sequence, {place \in DOMAIN sequence : sequence[place] \notin elements})
=============================================================================
