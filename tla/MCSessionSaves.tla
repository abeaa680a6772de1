--------------------------- MODULE MCSessionSaves ---------------------------
(***************************************************************************)
(* ResourceSessions with the history of what each session's application    *)
(* has had of its file: the content it was issued for, what it was sent    *)
(* and what it has saved itself.  The history changes nothing; it tells a  *)
(* content the application knows from one that the session took from       *)
(* somebody else (advanceAfterSave).                                       *)
(***************************************************************************)
EXTENDS ResourceSessions

VARIABLE had    \* per session: contents

Published(u) == At(u, "ready") /\ use'[u] # None /\ use'[u].phase = "published"
Streamed(u) == At(u, "streaming") /\ use'[u] = None /\ ~use[u].aborted

SavesInit == SessionsInit /\ had = [s \in SessionIds |-> {}]

SavesNext ==
    /\ SessionsNext
    /\ had' = [s \in SessionIds |->
           IF s \in DOMAIN sessions' \ DOMAIN sessions
           THEN {sessions'[s].base}
           ELSE had[s] \cup {use[u].new : u \in {x \in UseIds : Published(x) /\ use[x].session = s}}
                       \cup {use[u].base : u \in {x \in UseIds : Streamed(x) /\ use[x].session = s}}]

SavesSpec == SavesInit /\ [][SavesNext]_<<sessionVars, had>>

\* Claimed by src/docs/Biunivers Resource Session Protocol v1 设计.md:234 and
\* :248: a session never silently overwrites what another client has written;
\* what a save replaces, the session was issued for, has sent or has saved.
SaveReplacesWhatWasSeen ==
    [][\A u \in UseIds : Published(u) => content[use[u].file] \in had[use[u].session]]_<<sessionVars, had>>
=============================================================================
