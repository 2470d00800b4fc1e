------------------------------ MODULE MCLaunch ------------------------------
EXTENDS Launch
CONSTANTS l1, l2, l3, p1, p2, p3, dispatcher, entry1, entry2, name1

Three == {l1, l2, l3}
Two   == {l1, l2}
Pids  == {p1, p2, p3, dispatcher}
Bases == {name1}
Entries == {entry1, entry2}

SameBase == [l \in Launcher |-> name1]
\* The first two launch the same entry; the third reaches its name by --handle.
Mixed    == [l \in Launcher |-> IF l = l3 THEN entry2 ELSE entry1]
OwnPid   == [l \in Launcher |-> IF l = l1 THEN p1 ELSE IF l = l2 THEN p2 ELSE p3]

\* The first launch is made inside a dispatcher, the third inside the session that
\* the first one started.
Nested == [l \in Launcher |-> IF l = l1 THEN dispatcher ELSE IF l = l2 THEN NoPid ELSE p1]
=============================================================================
