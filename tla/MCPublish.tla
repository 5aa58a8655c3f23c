----------------------------- MODULE MCPublish -----------------------------
(***************************************************************************)
(* Two threads publish through the pipe of the bootstrap.                  *)
(***************************************************************************)
EXTENDS Publish

CONSTANTS t1, t2

MCThreads == {t1, t2}
=============================================================================
