---------------------------- MODULE MCMatchReview ----------------------------
(* TLC instances of MatchReview. *)
EXTENDS MatchReview

CONSTANTS m1, m2, u1, u2, plain, sequel

\* Release 1 has the plain title, release 2 the same with a year; the sequel is a
\* good match of 2 only.
Scores == [p \in {plain, sequel} \X {1, 2} |->
              CASE p = <<plain, 1>>  -> 100
                [] p = <<plain, 2>>  -> 80
                [] p = <<sequel, 1>> -> 70
                [] p = <<sequel, 2>> -> 90]
\* Both entries of one user, or one of each.
Whose  == {[m \in {m1, m2} |-> u1], [m \in {m1, m2} |-> IF m = m1 THEN u1 ELSE u2]}
Years  == {<<plain, 2>>}
Known  == {<<m2, 2>>}
=============================================================================
