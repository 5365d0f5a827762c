------------------------------ MODULE MCRetriever ------------------------------
(***************************************************************************)
(* Retriever on a corpus of one state's document, another's and the        *)
(* general one.                                                            *)
(***************************************************************************)
EXTENDS Retriever, TLC

MCDocument == [CA |-> <<"CA-1">>, NY |-> <<"NY-1">>, general |-> <<"G-1", "G-2">>]

MCChildrenOf == [p \in {"CA-1", "NY-1", "G-1", "G-2"} |-> IF p = "CA-1" THEN 2 ELSE 1]

Symmetry == Permutations(Threads)
===============================================================================
