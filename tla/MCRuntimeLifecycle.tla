------------------------ MODULE MCRuntimeLifecycle ------------------------
(* Two runtimes, one after the other or at once, for TLC.                  *)
EXTENDS RuntimeLifecycle
=============================================================================
