------------------------------ MODULE MCTeams -------------------------------
EXTENDS Teams

\* Orbits that meet, 3 -> 10 -> 5 -> 16 -> 8 -> 4 -> 2 -> 1 and
\* 6 -> 3, in one contest; a smaller contest after it for what is left.
MCNumber == {1, 2, 3, 4, 5, 6, 8, 10, 16}
MCInputs == <<<<5, 3, 10>>, <<3>>>>
MCThread == 1..3
MCChild  == 1..3
=============================================================================
