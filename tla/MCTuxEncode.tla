----------------------------- MODULE MCTuxEncode -----------------------------
EXTENDS TuxEncode

\* Masks in which every display and every decimal point is both on and off.
MCMasks == {0, 5, 10, 15}

\* Every hex digit in every display position, under every mask pair.
MCLedArgs ==
  {d * 16 ^ k + m * 2 ^ 16 + p * 2 ^ 24 :
     d \in 0 .. 15, k \in 0 .. 3, m \in MCMasks, p \in MCMasks}

\* Button bytes have bit 7 set and four live bits; every combination.
MCPackets == {[b |-> 128 + x, c |-> 128 + y] : x \in 0 .. 15, y \in 0 .. 15}
==============================================================================
