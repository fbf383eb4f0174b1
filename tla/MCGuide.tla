------------------------------- MODULE MCGuide -------------------------------
EXTENDS Guide, TLC

CONSTANTS t1, t2, s1

TwoTuners == {t1, t2}
SerialNumbers == t1 :> 7 @@ t2 :> 8
OneService == {s1}
\* 03:14:07 and 03:14:08, and a time left open.
SomeTimes == {<<3, 14, 7>>, <<3, 14, 8>>, NoTime}
\* 2038-01-19, on which 2^31 seconds are over.
LastInts == {65442}
\* 1959-12-31 to 2038-01-19, and from there to the last day of 16 bits.
TwoStarts == {36933, 65443}
TwoEnds == {65442, 65535}
=============================================================================
