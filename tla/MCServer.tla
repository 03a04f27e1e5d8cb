----------------------------- MODULE MCServer -----------------------------
EXTENDS Server

CONSTANTS main, a, w1, w2, f1, f2, s, lib
=============================================================================
