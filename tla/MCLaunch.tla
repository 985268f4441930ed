------------------------------ MODULE MCLaunch ------------------------------
\* For TLC: the lookup table, the mints, their seed, the pools, the hand-over
\* of minting.  The hand-over builds on the mints alone: the programs would
\* execute it before the seed.
EXTENDS Launch

MCNeeds == <<{}, {}, {2}, {1, 3}, {2}>>
=============================================================================
