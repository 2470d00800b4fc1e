------------------------------ MODULE MCRoster ------------------------------
EXTENDS Roster
CONSTANTS w1, w2, w3, p1, p2, m1, m2, lo, hi

Handles      == {w1, w2}
ThreeHandles == {w1, w2, w3}
Pids         == {p1, p2}
Models       == {m1, m2}
OneModel     == {m1}
Efforts      == {lo, hi}
OneEffort    == {lo}
=============================================================================
