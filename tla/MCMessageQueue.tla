--------------------------- MODULE MCMessageQueue ---------------------------
EXTENDS MessageQueue

CONSTANT far

OneRemote == {far}
NoRemote == {}
SecondOverflows == {2}
SpacedOverflows == {2, 5}

=============================================================================
