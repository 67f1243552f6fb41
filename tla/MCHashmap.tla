------------------------------ MODULE MCHashmap ------------------------------
(* An instance of Hashmap for TLC: few entries where there are many keys. *)
EXTENDS Hashmap

MCMaxEntries == [n \in KeyBits |-> CASE n <= 2 -> 4
                                     [] n = 3 -> 3
                                     [] OTHER -> 2]
=============================================================================
