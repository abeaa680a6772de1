------------------------------ MODULE MCAccess ------------------------------
(***************************************************************************)
(* The four registries of the Desktop Server that hand out short-lived     *)
(* access, in one run.  They share nothing but the main Workspace, whose   *)
(* other clients each of them meets as OtherCommit or Revise, so a         *)
(* behaviour is one of a single registry: "part" says of which, and the    *)
(* others stay as they were.                                               *)
(***************************************************************************)
EXTENDS FileCapabilities, ResourceSessions, OpenResourceLaunches, BwaBrowserSessions, TLC

CONSTANT SessionClock   \* bound of the clock for the sessions

VARIABLE part

capabilityState == <<instances, handles, transfers, job>>
sessionState == <<active, sessions, use, ask>>
launchState == <<offers, launches, byTargetApp, page, claims, handed>>

AccessInit ==
    /\ part \in {"capabilities", "sessions", "launches", "browser"}
    /\ CapabilitiesInit /\ SessionsInit /\ LaunchesInit /\ BrowserSessionsInit
    \* launches and browser sessions do not look at the contents
    /\ part \in {"launches", "browser"} => content = [f \in Files |-> Unborn]

AccessNext ==
    \/ /\ part = "capabilities" /\ CapabilitiesNext
       /\ UNCHANGED <<sessionState, launchState, browserVars>>
    \/ /\ part = "sessions" /\ SessionsNext /\ clock' <= SessionClock
       /\ UNCHANGED <<capabilityState, launchState, browserVars>>
    \/ /\ part = "launches" /\ LaunchesNext
       /\ UNCHANGED <<capabilityState, sessionState, browserVars>>
    \/ /\ part = "browser" /\ BrowserSessionsNext
       /\ UNCHANGED <<mainFiles, capabilityState, sessionState, launchState>>

accessVars == <<mainFiles, capabilityState, sessionState, launchState, browserVars, part>>

AccessSpec == AccessInit /\ [][AccessNext /\ part' = part]_accessVars

\* Neither an upload by a file handle nor a save of a resource session
\* replaces a content other than the one its request found in the handle or
\* the session when it began, whoever writes the file between its check and
\* its publication (expectedContentFidHex, compareAndSwap).
SavesReplaceTheirBase == NoBlindOverwrite /\ SaveReplacesItsBase

\* The configuration names the sessions, transfers, launches, tickets and
\* cookies alike, and the files, applications and Instances, so that one small group
\* of permutations serves them all.
AccessSymmetry ==
    Permutations(SessionIds) \cup Permutations(TargetApps) \cup Permutations(Contents)
=============================================================================
