----------------------------- MODULE MCDatabase -----------------------------
(* Two requests; the second statement is one the server always rejects.    *)
EXTENDS Database
=============================================================================
