----------------------------- MODULE MCApiTrace -----------------------------
(* Instances of ApiTrace for TLC.  The output is as long as the history, so  *)
(* the bounds are on calls and system calls.  The functions are f, traced    *)
(* only, g, traced and watched, and h, watched only.                        *)
EXTENDS ApiTrace
=============================================================================
