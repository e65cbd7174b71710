----------------------------- MODULE MCLpnMatch -----------------------------
EXTENDS LpnMatch
\* Letters and digits, a plate without digits, plates of unequal length, and
\* plates that agree in the letters but not in the digits, or the reverse.
MCPlates ==
  {<<"A", "B", "1", "2">>, <<"A", "B", "2", "1">>, <<"1", "B", "1", "B">>,
   <<"1", "A", "2", "A">>, <<"B", "1", "2">>, <<"A", "B">>, <<"A", "A", "B", "1", "3">>}
MCDigits == {"1", "2", "3"}
=============================================================================
