------------------------------- MODULE Shares -------------------------------
(***************************************************************************)
(* The arithmetic of a share (payroll/utils.py): what part of a project's  *)
(* labor amount one worker earns, as the server computes it and as the     *)
(* project form shows it while it is typed (static/js/app.js).             *)
(*                                                                         *)
(* parse_percent keeps four decimals, so a percent is a natural number of  *)
(* PercentUnits.  The code multiplies and divides in binary floating       *)
(* point; for amounts far below 2^53 the quotient is correctly rounded     *)
(* before round() sees it, and this module takes it as exact.              *)
(***************************************************************************)
EXTENDS Integers

PercentUnit == 10000                 \* units in one percent
Hundred     == 100 * PercentUnit     \* one hundred percent

\* Python's round(): the nearest integer, a tie going to the even one.
RoundHalfEven(num, den) ==
    LET q == num \div den
        r == num % den
    IN  IF 2 * r > den \/ (2 * r = den /\ q % 2 = 1) THEN q + 1 ELSE q

\* JavaScript's Math.round(): the nearest integer, a tie going up.
RoundHalfUp(num, den) == (2 * num + den) \div (2 * den)

\* The share of a percent of the labor amount, rounded to whole tomans.
worker_share(labor, percent) == RoundHalfEven(labor * percent, Hundred)

\* What if the page left the fraction out.
live_share_down(labor, percent) == (labor * percent) \div Hundred

\* The share the form shows in its live calculation.
live_share(labor, percent) == RoundHalfUp(labor * percent, Hundred)

\* The percent a fixed amount stands for, shown beside it.
equivalent_percent(amount, labor) ==
    IF labor = 0 THEN 0 ELSE RoundHalfEven(amount * Hundred, labor)

(***************************************************************************)
(* A row of the project form is a worker paid by percent or by a fixed     *)
(* amount.                                                                 *)
(***************************************************************************)
Entries(Percents, Amounts) ==
    [mode : {"percent"}, value : Percents] \cup [mode : {"fixed"}, value : Amounts]

row_share(labor, row) ==
    IF row.mode = "fixed" THEN row.value ELSE worker_share(labor, row.value)

customer_status(total, received) ==
    CASE received <= 0    -> "not_received"
      [] 0 < received /\ received < total -> "partial"
      [] OTHER            -> "received"
=============================================================================
