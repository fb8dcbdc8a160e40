------------------------------- MODULE MCCube -------------------------------
EXTENDS CubeSolid

CONSTANTS t1, t2, t3

\* Both sides of one axis, one side of another, and the show.
TwoAxes == {Rotation(FRONT, 0), Rotation(FRONT, 1), Rotation(BACK, 0),
            Rotation(TOP, 0), Show}

\* The same with a single layer.
OneLayer == {Rotation(FRONT, 0), Rotation(BACK, 0), Rotation(TOP, 0), Show}

AllRotations == {Rotation(s, k) : s \in Side, k \in LayerIndex}
=============================================================================
