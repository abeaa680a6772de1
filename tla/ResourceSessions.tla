-------------------------- MODULE ResourceSessions --------------------------
(***************************************************************************)
(* Resource sessions (ResourceSessionRegistry, ResourceSessionService,     *)
(* ResourceContentService behind resourceContentRouter, the claim of an    *)
(* open-resource launch, and the control routes that revoke sessions): an  *)
(* application is given a lease on a file, renews it, reads a snapshot and *)
(* saves against the content it last had.                                  *)
(*                                                                         *)
(* Every handler runs to its next await; an issue, a claim, a read and a   *)
(* write are sequences of steps, and the lease's clock, the owner who      *)
(* disables an application, and other writers come between them.           *)
(***************************************************************************)
EXTENDS MainFiles

CONSTANTS
    Apps,           \* installed applications
    SessionIds,
    UseIds,         \* requests for a session's content
    LeaseTtl,       \* leaseTtlMs, 300 s
    MaxSessions     \* #maxSessions, 4096

\* Ids are random and of a fixed length: there are finitely many.
ASSUME SessionsAssumption ==
    /\ {LeaseTtl, MaxSessions} \subseteq Nat \ {0}
    /\ IsFiniteSet(Files) /\ IsFiniteSet(SessionIds)

VARIABLES
    active,         \* applications with status "active" in the app store
    sessions,       \* #sessions: id -> record
    use,            \* a request for content, or None
    ask             \* per application: the issue it waits for, or None

sessionVars == <<clock, content, revision, active, sessions, use, ask>>

Access == {"read", "edit"}
Session == [app : Apps, access : Access, file : Files, pending : BOOLEAN,
            base : Contents \cup {Unborn}, rev : 0..MaxRevision, expires : Nat,
            uses : SUBSET UseIds]
Use == [session : SessionIds, app : Apps, put : BOOLEAN, file : Files, pending : BOOLEAN,
        base : Contents \cup {Unborn}, rev : 0..MaxRevision, aborted : BOOLEAN,
        phase : {"check", "upload", "stored", "loaded", "ready", "published", "streaming"},
        loaded : 0..MaxRevision, new : Contents \cup {None}]
\* What an application is about to be issued, after #activeApp found it
\* active: a file chosen by the owner, or the files of a launch it claimed.
\* issuedAtRevision is kept for a save target, the only one it is read of.
Ask == [files : (SUBSET Files) \ {{}}, pending : BOOLEAN, access : Access,
        rev : 0..MaxRevision \cup {None}, checked : BOOLEAN]

\* One type invariant for the sessions and the requests.
SessionsTypeOK ==
    /\ MainFilesTypeOK
    /\ active \subseteq Apps
    /\ DOMAIN sessions \subseteq SessionIds
    /\ Cardinality(DOMAIN sessions) <= MaxSessions
    /\ \A s \in DOMAIN sessions : sessions[s] \in Session
    /\ use \in [UseIds -> Use \cup {None}]
    /\ ask \in [Apps -> Ask \cup {None}]

SessionsInit ==
    /\ MainFilesInit
    /\ active = Apps
    /\ sessions = << >>
    /\ use = [u \in UseIds |-> None]
    /\ ask = [a \in Apps |-> None]

-----------------------------------------------------------------------------
(* The registry of sessions.                                               *)

Expired(s) == sessions[s].expires <= clock
Idle(s) == sessions[s].uses = {}

\* Mutant of PrunedSessions: every session whose lease has run out.
LeasedSessions == Drop(sessions, {s \in DOMAIN sessions : Expired(s)})

\* prune: a session that serves a request outlives its lease.
PrunedSessions == Drop(sessions, {s \in DOMAIN sessions : Expired(s) /\ Idle(s)})

Lease(s, map) == [map EXCEPT ![s].expires = clock + LeaseTtl]

\* #abortAndDelete: the requests of a session are told by their signal.
AbortAndDelete(S) ==
    /\ sessions' = Drop(sessions, S)
    /\ use' = [u \in UseIds |->
                  IF use[u] # None /\ \E s \in S : u \in sessions[s].uses
                  THEN [use[u] EXCEPT !.aborted = TRUE]
                  ELSE use[u]]

Owned(a) == {s \in DOMAIN sessions : sessions[s].app = a}
FreshSession(s) == s \notin DOMAIN sessions /\ \A u \in UseIds : use[u] # None => use[u].session # s

\* Mutant of Renew: the lease is extended without a look at it.
RenewAnyLease(s) ==
    /\ s \in DOMAIN sessions /\ sessions[s].app \in active
    /\ sessions' = Lease(s, sessions)
    /\ UNCHANGED <<clock, content, revision, active, use, ask>>

\* touch (metadata) and renew: a lease that has run out is not revived.
Renew(s) ==
    /\ s \in DOMAIN sessions /\ sessions[s].app \in active
    /\ IF ~Expired(s) THEN sessions' = Lease(s, sessions)
       ELSE Idle(s) /\ sessions' = Drop(sessions, {s})
    /\ UNCHANGED <<clock, content, revision, active, use, ask>>

Release(s) ==
    /\ s \in DOMAIN sessions
    /\ AbortAndDelete({s})
    /\ UNCHANGED <<clock, content, revision, active, ask>>

-----------------------------------------------------------------------------
(* Issuing: #validateTarget, #activeApp, the index, the registry.          *)

\* The owner chose a file, or a free name, in the application's dialog.
AskForFile(a, f, access) ==
    /\ ask[a] = None
    /\ \/ Exists(f)
       \/ content[f] = Unborn /\ access = "edit"
    /\ ask' = [ask EXCEPT ![a] = [files |-> {f}, pending |-> ~Exists(f), access |-> access,
                                  rev |-> None, checked |-> FALSE]]
    /\ UNCHANGED <<clock, content, revision, active, sessions, use>>

\* claimResourceSession: a launch made for these files has been consumed; one
\* made at an earlier revision is refused here without an effect.
AskForLaunch(a, files, access) ==
    /\ ask[a] = None
    /\ \A f \in files : Exists(f)
    /\ access = "edit" => Cardinality(files) = 1
    /\ ask' = [ask EXCEPT ![a] = [files |-> files, pending |-> FALSE, access |-> access,
                                  rev |-> revision, checked |-> FALSE]]
    /\ UNCHANGED <<clock, content, revision, active, sessions, use>>

NoAsk(a) == ask' = [ask EXCEPT ![a] = None]

\* #validateTarget compares the revision, #activeApp reads the app store; an
\* inactive application loses its sessions on this occasion.
CheckAsk(a) ==
    /\ ask[a] # None /\ ~ask[a].checked
    /\ IF a \in active
       THEN /\ IF ask[a].rev \in {None, revision}
               THEN ask' = [ask EXCEPT ![a].checked = TRUE,
                                       ![a].rev = IF Cardinality(ask[a].files) > 1 THEN @ ELSE None]
               ELSE NoAsk(a)
            /\ UNCHANGED <<sessions, use>>
       ELSE NoAsk(a) /\ AbortAndDelete(Owned(a))
    /\ UNCHANGED <<clock, content, revision, active>>

\* The index is loaded, and its files issued together or not at all.  Only a
\* launch of several files is held to its revision a second time.
Issue(a, ids) ==
    /\ ask[a] # None /\ ask[a].checked
    /\ LET x == ask[a]
           usable == /\ \A f \in x.files : IF x.pending THEN content[f] = Unborn ELSE Exists(f)
                     /\ x.rev \in {None, revision}
           room == Cardinality(DOMAIN PrunedSessions) + Cardinality(x.files) <= MaxSessions
           given == CHOOSE g \in [ids -> x.files] : \A f \in x.files : \E s \in ids : g[s] = f
       IN  IF usable /\ room
           THEN /\ \A s \in ids : FreshSession(s)
                /\ Cardinality(ids) = Cardinality(x.files)
                /\ sessions' = [s \in DOMAIN PrunedSessions \cup ids |->
                       IF s \in ids
                       THEN [app |-> a, access |-> x.access, file |-> given[s],
                             pending |-> x.pending, base |-> content[given[s]],
                             rev |-> IF x.pending THEN revision ELSE 0,
                             expires |-> clock + LeaseTtl, uses |-> {}]
                       ELSE sessions[s]]
           ELSE ids = {} /\ sessions' = IF usable THEN PrunedSessions ELSE sessions
    /\ NoAsk(a)
    /\ UNCHANGED <<clock, content, revision, active, use>>

\* Disabled or uninstalled, or updated and active throughout: the control
\* routes change the app store first, then take its sessions away.
Revoke(a, still) ==
    /\ a \in active
    /\ active' = IF still THEN active ELSE active \ {a}
    /\ AbortAndDelete(Owned(a))
    /\ UNCHANGED <<clock, content, revision, ask>>

Enable(a) ==
    /\ a \notin active
    /\ active' = active \cup {a}
    /\ UNCHANGED <<clock, content, revision, sessions, use, ask>>

-----------------------------------------------------------------------------
(* Reading and writing: ResourceContentService behind its router.          *)

BeginUse(u, s, put) ==
    /\ use[u] = None
    /\ s \in DOMAIN sessions /\ sessions[s].app \in active /\ ~Expired(s)
    /\ IF put THEN sessions[s].access = "edit" ELSE ~sessions[s].pending
    /\ use' = [use EXCEPT ![u] =
           [session |-> s, app |-> sessions[s].app, put |-> put, file |-> sessions[s].file,
            pending |-> sessions[s].pending, base |-> sessions[s].base, rev |-> sessions[s].rev,
            aborted |-> FALSE, loaded |-> 0, new |-> None,
            phase |-> IF ~put THEN "streaming"
                      ELSE IF sessions[s].pending THEN "upload" ELSE "check"]]
    /\ sessions' = [sessions EXCEPT ![s].uses = @ \cup {u}]
    /\ UNCHANGED <<clock, content, revision, active, ask>>

At(u, phase) == use[u] # None /\ use[u].phase = phase

\* finishUse: success renews the lease, a failure drops a session that is
\* only kept for its requests.
FinishUse(u, ok, map) ==
    LET s == use[u].session
        left == [map EXCEPT ![s].uses = @ \ {u}]
    IN  /\ use' = [use EXCEPT ![u] = None]
        /\ sessions' = IF s \notin DOMAIN map THEN map
                       ELSE IF ok THEN Lease(s, left)
                       ELSE IF map[s].expires <= clock /\ left[s].uses = {} THEN Drop(map, {s})
                       ELSE left
        /\ UNCHANGED <<clock, active, ask>>

FailUse(u) == FinishUse(u, FALSE, sessions) /\ UNCHANGED <<content, revision>>

AdvanceUse(u, phase) ==
    /\ use' = [use EXCEPT ![u].phase = phase]
    /\ UNCHANGED <<clock, content, revision, active, sessions, ask>>

\* The whole snapshot is sent, or the signal or the client ends it.
StreamContent(u) ==
    /\ At(u, "streaming")
    /\ \/ ~use[u].aborted /\ FinishUse(u, TRUE, sessions) /\ UNCHANGED <<content, revision>>
       \/ FailUse(u)

CheckCurrentSession(u) ==
    /\ At(u, "check")
    /\ IF content[use[u].file] = use[u].base THEN AdvanceUse(u, "upload") ELSE FailUse(u)

StoreSave(u) ==
    /\ At(u, "upload")
    /\ \/ /\ ~use[u].aborted
          /\ \E c \in Contents : use' = [use EXCEPT ![u].phase = "stored", ![u].new = c]
          /\ UNCHANGED <<clock, content, revision, active, sessions, ask>>
       \/ FailUse(u)

\* A save target is held to the revision it was issued at, a file only to
\* its content.
LoadForSave(u) ==
    /\ At(u, "stored")
    /\ IF Applies(use[u].file, use[u].base) /\ (use[u].pending => use[u].rev = revision)
       THEN /\ use' = [use EXCEPT ![u].phase = "loaded", ![u].loaded = revision]
            /\ UNCHANGED <<clock, content, revision, active, sessions, ask>>
       ELSE FailUse(u)

\* beforePublish is the last look at the signal.
BeforePublish(u) ==
    /\ At(u, "loaded")
    /\ IF use[u].aborted THEN FailUse(u) ELSE AdvanceUse(u, "ready")

PublishSave(u) ==
    /\ At(u, "ready")
    /\ \/ /\ Publish(use[u].file, use[u].new, use[u].loaded)
          /\ use' = [use EXCEPT ![u].phase = "published"]
          /\ UNCHANGED <<clock, active, sessions, ask>>
       \/ revision # use[u].loaded /\ FailUse(u)

\* The index is loaded again and the session takes what it finds:
\* advanceAfterSave, which asks for a session that has not expired.
AdvanceAfterSave(u) ==
    /\ At(u, "published")
    /\ LET s == use[u].session
           f == use[u].file
       IN  IF StillThere(f) /\ s \in DOMAIN sessions /\ ~Expired(s)
           THEN /\ FinishUse(u, TRUE, [sessions EXCEPT ![s].base = content[f], ![s].rev = 0,
                                                    ![s].pending = FALSE])
                /\ UNCHANGED <<content, revision>>
           ELSE FailUse(u)

-----------------------------------------------------------------------------
ServeUse(u) ==
    \/ \E s \in SessionIds, put \in BOOLEAN : BeginUse(u, s, put)
    \/ StreamContent(u) \/ CheckCurrentSession(u) \/ StoreSave(u) \/ LoadForSave(u)
    \/ BeforePublish(u) \/ PublishSave(u) \/ AdvanceAfterSave(u)

Issuing(a) ==
    \/ \E f \in Files, access \in Access : AskForFile(a, f, access)
    \/ \E files \in (SUBSET Files) \ {{}}, access \in Access :
          AskForLaunch(a, files, access)
    \/ CheckAsk(a)
    \/ \E ids \in SUBSET SessionIds : Issue(a, ids)

SessionsNext ==
    \/ \E s \in SessionIds : Renew(s) \/ Release(s)
    \/ \E a \in Apps : Issuing(a) \/ Enable(a) \/ \E still \in BOOLEAN : Revoke(a, still)
    \/ \E u \in UseIds : ServeUse(u)
    \/ /\ Tick \/ OtherCommit
       /\ UNCHANGED <<active, sessions, use, ask>>

SessionsSpec == SessionsInit /\ [][SessionsNext]_sessionVars

-----------------------------------------------------------------------------
(* Properties.                                                             *)

\* Every running request is in the uses of its live session, or has been
\* told to stop: whoever removes a session for any reason (a lease that ran
\* out, a release, a disabled application, a full registry) does not leave
\* a request behind that goes on reading or saving (prune, finishUse).
RequestIsTrackedOrAborted ==
    \A u \in UseIds : use[u] # None =>
        \/ use[u].aborted
        \/ /\ use[u].session \in DOMAIN sessions
           /\ u \in sessions[use[u].session].uses

\* The registry of sessions in every state: within its limit, and in step
\* with the requests that are running (prune, #register).
SessionsInvariant == SessionsTypeOK /\ RequestIsTrackedOrAborted

\* A lease that has run out is not revived by a renewal or a look at the
\* metadata, only by a request that began in time and ends well
\* (#require, renew, finishUse).
ExpiredLeaseIsNotRevived ==
    [][\A s \in DOMAIN sessions :
          (Expired(s) /\ s \in DOMAIN sessions' /\ sessions'[s].expires > sessions[s].expires)
             => \E u \in sessions[s].uses : use'[u] = None]_sessionVars

\* A save replaces the content its request found in the session, whatever
\* other clients do between the first check and the compare-and-swap; a
\* save target only ever creates its file.  What the session had taken after
\* an earlier save may be another client's (MCSessionSaves).
SaveReplacesItsBase ==
    [][\A u \in UseIds : (At(u, "ready") /\ use'[u] # None /\ use'[u].phase = "published")
            => content[use[u].file] = use[u].base]_sessionVars

\* Claimed by src/docs/Biunivers Resource Session Protocol v1 设计.md (5.2,
\* 7): a request that began in time may end after the lease, and a save that
\* is published moves its session to what it saved, if nobody has written
\* the file since and the application has not been disabled.
PublishedSaveAdvancesItsSession ==
    [][\A u \in UseIds : (/\ At(u, "published") /\ ~use[u].aborted /\ use'[u] = None
                          /\ content[use[u].file] = use[u].new)
            => /\ use[u].session \in DOMAIN sessions'
               /\ sessions'[use[u].session].base = use[u].new]_sessionVars

-----------------------------------------------------------------------------
(* What the proofs need to know of the requests.                           *)

\* A request is in the uses of its session exactly as long as the session is
\* there, and aborted from then on; it carries what it has stored; and the one
\* that is about to publish found, at the revision it loaded, the content it
\* may replace.
UsesMatchTheSessions ==
    \A u \in UseIds : use[u] # None =>
        /\ IF use[u].session \in DOMAIN sessions
           THEN u \in sessions[use[u].session].uses
           ELSE use[u].aborted
        /\ use[u].phase \in {"stored", "loaded", "ready", "published"} => use[u].new \in Contents
        /\ use[u].phase \in {"loaded", "ready"} =>
              /\ use[u].loaded <= revision
              /\ use[u].loaded = revision => content[use[u].file] = use[u].base

\* The inductive invariant.
SessionsInductive == SessionsTypeOK /\ UsesMatchTheSessions
=============================================================================
