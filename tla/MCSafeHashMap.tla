---------------------------- MODULE MCSafeHashMap ----------------------------
EXTENDS SafeHashMap, TLC

CONSTANTS k1, k2

\* Two keys in one list, and an empty list before it.
CollidingHash == k1 :> 1 @@ k2 :> 1
=============================================================================
