------------------------------ MODULE Collatz -------------------------------
(***************************************************************************)
(* The numbers of a contest and the length of their Collatz orbits         *)
(* (Zaliczeniowe_3/collatz.hpp).                                           *)
(***************************************************************************)
EXTENDS Naturals

CONSTANT Number   \* the numbers the orbits of the inputs pass through

Successor(n) == IF n % 2 = 1 THEN 3 * n + 1 ELSE n \div 2

calcCollatz[n \in Number] ==
    IF n = 1 THEN 0 ELSE calcCollatz[Successor(n)] + 1

ASSUME NumberAssumption ==
    /\ Number \subseteq Nat \ {0}
    /\ 1 \in Number
    /\ \A n \in Number \ {1} : Successor(n) \in Number

\* The loop of calcCollatz ends for each of these numbers, as the program
\* takes for granted of all.
ASSUME CollatzAssumption ==
    \A n \in Number :
        /\ calcCollatz[n] \in Nat
        /\ calcCollatz[n] = IF n = 1 THEN 0 ELSE calcCollatz[Successor(n)] + 1
=============================================================================
