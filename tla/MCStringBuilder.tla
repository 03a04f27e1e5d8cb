-------------------------- MODULE MCStringBuilder --------------------------
(* A request's thread builds texts in its arena, one after the other, and   *)
(* allocates in between; capacities are scaled down, with a limit that is   *)
(* no power of two times the initial one.                                   *)
EXTENDS StringBuilder, TLC

CONSTANTS t1, request1

(* The arena is its own. *)
RequestUsers == (request1 :> {t1})

(* Nothing, and more than a word. *)
Sizes == {0, 9}

(* Nothing, texts that fit, one that just fits into the first buffer, and   *)
(* some that need one or several doublings.                                 *)
Lengths == {0, 1, 7, 8, 20}
=============================================================================
