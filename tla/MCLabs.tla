------------------------------- MODULE MCLabs -------------------------------
EXTENDS Labs

\* The matrix of the main methods.
MCDefinition(r, c) ==
    LET a == 2 * c + 1 IN (r + 1) * ((a % 4) - 2) * a
=============================================================================
