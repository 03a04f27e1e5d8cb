------------------------------ MODULE MCArena ------------------------------
EXTENDS Arena, TLC

CONSTANTS t1, t2, request1, request2

(* Every thread has its request's arena ... *)
RequestUsers == (request1 :> {t1}) @@ (request2 :> {t2})

(* ... and all of them share the server's. *)
ServerUsers == [a \in Arenas |-> Threads]

(* Nothing, less than a word, one word, and more than a word. *)
Sizes == {0, 1, 8, 9}
=============================================================================
