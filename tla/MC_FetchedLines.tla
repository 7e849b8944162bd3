-------------------------- MODULE MC_FetchedLines --------------------------
EXTENDS FetchedLines

\* Every depth below 2^12 and above 2^24 - 2^12, every power of two and its
\* neighbours, and the digit-edge depths of DepthEncoders.
MC_DepthValues ==
    (0..4095) \cup (16773120..16777215) \cup {2^i : i \in 0..23}
    \cup {2^i - 1 : i \in 1..24} \cup {2^i + 1 : i \in 1..23}
    \cup {65280, 1193046, 8421504}
=============================================================================
