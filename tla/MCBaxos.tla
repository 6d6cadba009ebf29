------------------------------ MODULE MCBaxos ------------------------------
(***************************************************************************)
(* Baxos with four items and five queries, two of them the same and one    *)
(* for no item, for every way the keys hash to two bins.                   *)
(***************************************************************************)
EXTENDS Baxos

MCInputs == <<"a", "b", "c", "d">>
MCQueries == <<"c", "x", "a", "d", "c">>
=============================================================================
