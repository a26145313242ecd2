------------------------------- MODULE Figures -------------------------------
(***************************************************************************)
(* Counts of lines and what is asked of their percentages                  *)
(* (internal/test/measure, rows.go and record.go).  A figure is the lines  *)
(* covered of a total; percentages are compared as a report displays them, *)
(* in tenths of a point, and stay fractions of counts until then.          *)
(***************************************************************************)
EXTENDS Naturals

Rounded(n, d) == (2 * n + d) \div (2 * d)

Below(e, b) == e.covered * b.total < b.covered * e.total

RegressedBeyond(e, b, tolerance) ==
    Below(e, b) /\
    Rounded(1000 * (b.covered * e.total - e.covered * b.total), b.total * e.total) > tolerance

(* The baseline's percentage, over the size the component is now.           *)
AtPercentOf(b, total) == Rounded(b.covered * total, b.total)

ToleratedDip(e, b, tolerance) == Below(e, b) /\ ~RegressedBeyond(e, b, tolerance)

(* coverage.floor, in tenths: 0 is no floor.                                *)
Meets(e, floor) == Rounded(1000 * e.covered, e.total) >= floor
==============================================================================
