--------------------------- MODULE MCProjectForm ----------------------------
(***************************************************************************)
(* A small instance of ProjectForm for TLC.                                *)
(***************************************************************************)
EXTENDS ProjectForm, TLC

\* Ties of four tomans: 62.5 % is 2.5, 2 for the server and 3 for the page; the default of
\* 87.5 % is 3.5, 4 for both.
MCPercents == {625000}
MCDefault  == 875000

Interchangeable == Permutations(Workers)
=============================================================================
