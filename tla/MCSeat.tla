------------------------------- MODULE MCSeat -------------------------------
\* Instances of Seat for TLC.
EXTENDS Seat

\* 40 ms between keys, or no repetition
SomeRates == {25, 0}

=============================================================================
