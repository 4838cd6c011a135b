------------------------------- MODULE MCApp -------------------------------
\* One room, one nick, one HTTP caller, one connection, and main.
EXTENDS App

CONSTANTS room, user, blank

MCRaw == {room, user, blank}

MCTrimSpace == [s \in MCRaw |-> s]

MCRoomID == {room, blank}

Web(op, id) == [op |-> op, room |-> id, name |-> user, text |-> user, conn |-> NoConn]
Ws(op) == [op |-> op, room |-> room, name |-> user, text |-> user, conn |-> CHOOSE c \in Conn : TRUE]

MCRequest == {Web("create", room), Web("create", blank), Web("unload", room), Web("drain", blank),
              Ws("join"), Ws("leave")}
=============================================================================
