----------------------------- MODULE MCLaunches -----------------------------
(***************************************************************************)
(* A small instance of Launches for TLC.                                   *)
(***************************************************************************)
EXTENDS Launches

\* Two columns of one table and one of another.
MCAdditions == <<{"customer_total", "internal_note"}, {"mode"}>>
=============================================================================
