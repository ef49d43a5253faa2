------------------------------ MODULE MCClock ------------------------------
EXTENDS Clock

\* 31/12/2016 19:59 and 1/1/2101 09:10: the ends of a leap year and of one that
\* is none, two centuries; an hour after the first the hours take their other form.
MCStamp == {24720239, 68900230}
\* A morning and an evening.
MCBootStamp == {24278400, 26297130}
MCTransfers == {2, Whole}
MCWhole     == {Whole}
\* Lengths of a month, and the most a byte holds.
MCBeyond    == [k \in 24 .. 267 |-> IF k % 8 = 1 THEN 31 ELSE 255]
=============================================================================
