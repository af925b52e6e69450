--------------------------- MODULE MCCommandServer ---------------------------
(***************************************************************************)
(* Values for model checking CommandServer.                                *)
(***************************************************************************)
EXTENDS CommandServer, TLC

\* One command of each class that behaves differently.
OneOfEach == {"up", "move", "stop", "save", "height", "quit"}

\* Every branch of dispatch; up and down, move and preset, info and status differ in
\* the bytes only.
EveryBranch == OneOfEach \cup {"stats", "status", "unknown"}

\* Connections are interchangeable; used by the run without liveness only.
Connections == Permutations(Requests)
=============================================================================
