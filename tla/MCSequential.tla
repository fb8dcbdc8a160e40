---------------------------- MODULE MCSequential ----------------------------
(***************************************************************************)
(* The two parts that no thread shares, InfInt.h and Tree_sequential.c: a  *)
(* behaviour is a sequence of calls of one of them.                        *)
(***************************************************************************)
EXTENDS InfInt, TLC

CONSTANTS Address, Name, NULL, MaxLength

VARIABLES node, root, last

treeVars == <<node, root, last>>

SequentialTree == INSTANCE SequentialTree

\* Around the powers of ten and of the base, squares, and the ends of the
\* types of C.
Magnitudes == {0, 1, 2, 3, 9, 10, 16, 27, 99, 100, 101, 255, 256, 511, 999, 1000,
               9900, 9999, 10000, 10001, 12321, 131071, 131072, 262143,
               990000, 999999, 1000000, 1000100}
MCSamples == Magnitudes \cup {-n : n \in Magnitudes}

\* Addresses are only compared.
AddressSymmetry == Permutations(Address)

Untouched == last.call = SequentialTree!NoCall

SequentialInit == Init /\ SequentialTree!tree_new

SequentialNext ==
    \/ Untouched /\ Next /\ UNCHANGED treeVars
    \/ Init /\ SequentialTree!Next /\ UNCHANGED vars

SequentialSpec == SequentialInit /\ [][SequentialNext]_<<vars, treeVars>>

\* Tree_sequential.c does what FileTree promises: see SequentialTree.
AgreesWithFileTree == SequentialTree!AgreesWithFileTree
=============================================================================
