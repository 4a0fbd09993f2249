----------------------------- MODULE MCCheckins -----------------------------
(* Instances of Checkins for TLC: three scores, of which the mock verdict   *)
(* gives the lower two.                                                     *)
EXTENDS Checkins

CONSTANTS t1, s1, a1, c1, m1

OnTask == [s \in Submits |-> t1]
OnFirst == [a \in Appeals |-> s1]
One == {1}

\* A review with and without its numbers, and forms the service refuses.
Plain == [review |-> TRUE, minutes |-> {}, asked |-> {}, right |-> {}, accuracy |-> {},
          evidence |-> {}]
Counted == [Plain EXCEPT !.minutes = {30}, !.asked = {20}, !.right = {20}, !.accuracy = {100},
                         !.evidence = {"own and ready"}]
Sent == {Plain, Counted, [Plain EXCEPT !.review = FALSE], [Counted EXCEPT !.right = {21}],
         [Counted EXCEPT !.minutes = {-1}], [Counted EXCEPT !.accuracy = {101}],
         [Counted EXCEPT !.evidence = {"own and ready", "foreign"}]}
Written == {[reason |-> 8, facts |-> 10], [reason |-> 7, facts |-> 10], [reason |-> 8, facts |-> 9]}
=============================================================================
