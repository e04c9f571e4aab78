----------------------------- MODULE MCCalendar -----------------------------
(***************************************************************************)
(* Days to begin with for Calendar: the turn of the Jalali years 1370 and  *)
(* 1470 (the years around 2000 and 2100, a leap year and none), and of     *)
(* 979, where the program's count of days begins.                          *)
(***************************************************************************)
EXTENDS Calendar

MCFirstDays ==
    {<<<<1991, 3, 21>>, <<1370, 1, 1>>>>, <<<<2091, 3, 21>>, <<1470, 1, 1>>>>,
     <<<<1600, 3, 20>>, <<979, 1, 1>>>>}
=============================================================================
