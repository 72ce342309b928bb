------------------------------- MODULE MCStatics -------------------------------
(* Instances for checking the statics with TLC. *)
EXTENDS StaticsInvariant

\* One the garbage collector spares, and the one the API server completes.
Two == {SCC, "DaemonSet"}
=============================================================================
