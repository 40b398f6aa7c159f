--------------------------- MODULE CursorSessions ---------------------------
(***************************************************************************)
(* What the driver promises of open result sets, with connections, sockets *)
(* and lists left out: a MongoCursor that has more results to fetch holds  *)
(* a session, the pair of the link to the server that was queried and the  *)
(* cursor id it answered with.  A session stays what it is until it is     *)
(* closed or lost, belongs to one MongoCursor, and is lost together with   *)
(* every other session over its link when that goes.  Several links may    *)
(* lead to one server.                                                     *)
(***************************************************************************)
CONSTANTS Cursors, Servers, Links, ServerOf, CursorIds, NoSession

VARIABLES
    session,   \* of every MongoCursor: <<link, cursor id>> or NoSession
    issued     \* the cursor ids servers have allotted so far: <<server, cursor id>>

Session == Links \X CursorIds

\* What the server knows of a session.
OnItsServer(p) == <<ServerOf[p[1]], p[2]>>

Init ==
    /\ session = [c \in Cursors |-> NoSession]
    /\ issued = {}

\* A query answered with a cursor id: always a new session.
Open(c, p) ==
    /\ session[c] = NoSession
    /\ OnItsServer(p) \notin issued
    /\ session' = [session EXCEPT ![c] = p]
    /\ issued' = issued \cup {OnItsServer(p)}

\* The cursor is exhausted, reset, rewound or destroyed.
Close(c) ==
    /\ session' = [session EXCEPT ![c] = NoSession]
    /\ UNCHANGED issued

Over(c, S) == session[c] # NoSession /\ session[c][1] \in S

\* The links of S go, and all sessions over them at once;
\* an answer on its way may have opened a cursor nobody will know of.
Lose(S) ==
    /\ session' = [c \in Cursors |-> IF Over(c, S) THEN NoSession ELSE session[c]]
    /\ \/ UNCHANGED issued
       \/ \E p \in S \X CursorIds :
            OnItsServer(p) \notin issued /\ issued' = issued \cup {OnItsServer(p)}

Next ==
    \/ \E c \in Cursors : Close(c) \/ \E p \in Session : Open(c, p)
    \/ \E S \in SUBSET Links : Lose(S)

Spec == Init /\ [][Next]_<<session, issued>>

\* Two MongoCursors never hold the same cursor of a server, over whichever links.
NotShared ==
    \A c, d \in Cursors :
        c # d /\ session[c] # NoSession /\ session[d] # NoSession =>
            OnItsServer(session[c]) # OnItsServer(session[d])
=============================================================================
