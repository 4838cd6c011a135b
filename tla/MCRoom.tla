------------------------------- MODULE MCRoom -------------------------------
\* Two nicks, one of which also arrives with surrounding blanks, and the two
\* strings that must not become a nick or a text.
EXTENDS Room

CONSTANTS a, b, aPadded, blank, blanks

MCRaw == {a, b, aPadded, blank, blanks}

MCTrimSpace == [s \in MCRaw |-> CASE s = aPadded -> a
                                  [] s = blanks -> blank
                                  [] OTHER -> s]

MCIdentity == [s \in Raw |-> s]

MCText == {a, blanks}

MCLimits == {-1, 0, 1, 5}
=============================================================================
