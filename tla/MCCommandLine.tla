--------------------------- MODULE MCCommandLine ---------------------------
(***************************************************************************)
(* Values for model checking CommandLine.                                  *)
(***************************************************************************)
EXTENDS CommandLine

\* One command of each class that matters to a client: what it waits for (a motion, a
\* write, an answer of the desk, nothing).
EveryWait == {"up", "move", "stop", "height", "quit"}
=============================================================================
