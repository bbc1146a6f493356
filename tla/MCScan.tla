------------------------------- MODULE MCScan -------------------------------
(* Instances of Scan: one region with every content of one of the Sizes   *)
(* over two values, and two regions that are always the same, one of them  *)
(* not readable.                                                           *)
EXTENDS Scan

CONSTANT Sizes

Contents == UNION {[1 .. n -> {0, 1}] : n \in Sizes}
Region(b, r, d) == [base |-> b, readable |-> r, data |-> d]
AnyTable == {<<Region(10, TRUE, d), Region(20, FALSE, <<0>>), Region(30, TRUE, <<0, 1>>)>> : d \in Contents}
AnyPattern == {<<>>, <<0>>, <<1, 1>>, <<1, Wild>>, <<0, Wild, 0>>}
AnyRange == {<<0, 0>>, <<20, 40>>}
=============================================================================
