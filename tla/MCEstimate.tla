------------------------------- MODULE MCEstimate -------------------------------
EXTENDS Analysis

\* A target far below what the timer's precision asks for.
MCSettings ==
  {[target |-> 1000, shortest |-> 0, fewest |-> 1, most |-> 10000000]}

MCObservation == {[iterations |-> 1, base |-> 600, candidate |-> 600]}
=============================================================================
