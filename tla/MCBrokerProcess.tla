-------------------------- MODULE MCBrokerProcess ---------------------------
EXTENDS BrokerProcess, TLC
CONSTANTS b1, b2, b3, b4, s1, s2

Three == {b1, b2, b3}
Four  == {b1, b2, b3, b4}
Nobody == {}
OneShell == {s1}
OtherShell == {s2}
Shells == {s1, s2}
LastBroker == {b3}
FirstBroker == {b1}

Symmetry == Permutations(Broker)
=============================================================================
