------------------------------ MODULE MCWSConn ------------------------------
\* One room, up to two nicks, one other connection and HTTP.
EXTENDS WSConn

CONSTANTS room, n1, n2, blank

MCRaw1 == {n1, blank}
MCRaw2 == {n1, n2, blank}

Trim(S) == [s \in S |-> s]
MCTrim1 == Trim(MCRaw1)
MCTrim2 == Trim(MCRaw2)

F(type, nick) == [type |-> type, room |-> room, nick |-> nick]
Lost(type) == [type |-> type, room |-> NoRoom, nick |-> n1]

\* Presence: joins and leaves under the nicks of the run.
MCPresence1 == {F("join", n1), F("leave", blank), F("leave", n1), F("message", blank)}
MCPresence2 == {F("join", n1), F("join", n2), F("leave", blank)}

\* Everything a frame can be.
MCEverything == {F("join", n1), F("join", blank), F("leave", blank), F("message", blank),
                 F("query", blank), F("ping", blank), Lost("join"), Lost("query")}
=============================================================================
