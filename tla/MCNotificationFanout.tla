------------------------ MODULE MCNotificationFanout ------------------------
(***************************************************************************)
(* NotificationFanout for TLC.                                             *)
(***************************************************************************)
EXTENDS NotificationFanout, TLC

\* Nothing distinguishes the calls before they are made.
Interchangeable == Permutations(Calls)
=============================================================================
