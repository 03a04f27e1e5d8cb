----------------------------- MODULE MCConnPool -----------------------------
(* More threads than connections, so that requests give up; the pool starts *)
(* at or below its bound, and one struct more than MaxSize exists, so that  *)
(* a pool that outgrew its bound would be seen.                              *)
EXTENDS ConnPool
=============================================================================
