------------------------------- MODULE Books --------------------------------
(***************************************************************************)
(* What a start promises for the projects and their customer totals,       *)
(* however it is carried out: while the program runs its users change      *)
(* them; while it does not run the only things that may happen to them     *)
(* are that those of an older installation arrive where there are none,    *)
(* and that old projects are given a total.  In particular there is no     *)
(* crash here: wherever a start is cut short, the projects are as if it    *)
(* had come to one of these steps or had not.                              *)
(***************************************************************************)
EXTENDS Tables

CONSTANTS Projects, Totals

VARIABLES
    books,      \* project -> customer total
    old,        \* the same of the older installation
    open        \* the program runs

booksVars == <<books, old, open>>

BooksInit ==
    /\ IsTable(books, Projects, Totals) /\ IsTable(old, Projects, Totals)
    /\ open = FALSE

\* The UPDATE of migrate: a total of zero becomes the labor amount.
Filled(total) == [p \in DOMAIN total |-> IF total[p] = "zero" THEN "labor" ELSE total[p]]

\* The program comes up, and may have filled the totals in: of all projects at once.
OpenBooks ==
    /\ ~open /\ open' = TRUE
    /\ books' \in {books, Filled(books)}
    /\ UNCHANGED old

CloseBooks == open /\ open' = FALSE /\ UNCHANGED <<books, old>>

\* All projects of the older installation, and only where there is none yet.
Import ==
    /\ ~open /\ DOMAIN books = {}
    /\ books' = old
    /\ UNCHANGED <<old, open>>

\* Projects of the version without totals: all are given the default.
GiveTotals ==
    /\ ~open /\ \A p \in DOMAIN books : books[p] = "none"
    /\ books' = [p \in DOMAIN books |-> "zero"]
    /\ UNCHANGED <<old, open>>

\* A user saves or deletes a project.
Change ==
    /\ open
    /\ \E p \in Projects :
          \/ \E t \in Totals \ {"none"} : books' = Put(books, p, t)
          \/ books' = Without(books, {p})
    /\ UNCHANGED <<old, open>>

BooksNext == OpenBooks \/ CloseBooks \/ Import \/ GiveTotals \/ Change

BooksSpec == BooksInit /\ [][BooksNext]_booksVars
=============================================================================
