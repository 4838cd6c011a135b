----------------------------- MODULE MCRegistry -----------------------------
\* Two rooms, one of which also arrives with surrounding blanks, one nick.
EXTENDS Registry, TLC

CONSTANTS r1, r2, r1Padded, n, blank

\* Callers are interchangeable; room actors are not, CHOOSE picks their addresses.
Callers == Permutations(Client)

MCRaw == {r1, r2, r1Padded, n, blank}

MCTrimSpace == [s \in MCRaw |-> IF s = r1Padded THEN r1 ELSE s]

MCRoomID == {r1, r1Padded, r2, blank}

Req(op, room) == [op |-> op, room |-> room, name |-> n, text |-> n, conn |-> NoConn]

\* Mutations of one room, traffic for another, and both ways down.
MCLifecycle == {Req("create", r1), Req("join", r1), Req("leave", r1), Req("unload", r1),
                Req("message", r1), Req("join", r2), Req("count", blank), Req("drain", blank)}

MCPadded == {Req("join", r1), Req("join", r1Padded), Req("unload", r1Padded)}

MCDrain == {Req("join", r1), Req("join", r2), Req("drain", blank)}
=============================================================================
