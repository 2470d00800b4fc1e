----------------------------- MODULE MCMailbox ------------------------------
EXTENDS Mailbox, TLC
CONSTANTS h1, h2, c1, c2

TwoHandles == {h1, h2}
TwoConns   == {c1, c2}
AllOnOne   == [c \in Conn |-> h1]
FirstConn  == {c1}
FirstMsg   == {1}
=============================================================================
