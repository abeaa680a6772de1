-------------------------- MODULE FileCapabilities --------------------------
(***************************************************************************)
(* File capabilities and transfers (FileCapabilityRegistry, FileHostService*)
(* FileTransferService, fileTransferRouter): a page's window holds an      *)
(* instance token, a token holds file handles, a handle is turned into     *)
(* transfers, and a transfer is served once.  The three maps are functions *)
(* whose domain is the set of live tokens; a token is random, so an id is  *)
(* only issued again when nothing refers to it.                            *)
(*                                                                         *)
(* Node runs a handler to its next await: serving a transfer is a sequence *)
(* of steps (job), and between two of them the clock advances, a window    *)
(* closes, and other clients change the file.                              *)
(***************************************************************************)
EXTENDS MainFiles

CONSTANTS
    Windows,        \* instance tokens
    HandleIds,
    TransferIds,
    InstanceTtl, HandleTtl, TransferTtl,
    MaxInstances, MaxHandles, MaxTransfers

ASSUME CapabilitiesAssumption ==
    /\ {InstanceTtl, HandleTtl, TransferTtl} \subseteq Nat \ {0}
    /\ {MaxInstances, MaxHandles, MaxTransfers} \subseteq Nat \ {0}

VARIABLES
    instances,      \* #instances: token -> when it expires
    handles,        \* #handles
    transfers,      \* #transfers
    job             \* per transfer: the request that serves it, or None

registry == <<instances, handles, transfers>>
capsVars == <<clock, content, revision, instances, handles, transfers, job>>

\* A handle issued for a free name is pending until its first save.
Handle == [window : Windows, file : Files, pending : BOOLEAN,
           writable : BOOLEAN, base : Contents \cup {Unborn}, expires : Nat]
Transfer == [window : Windows, handle : HandleIds, method : {"GET", "PUT"},
             expires : Nat, active : BOOLEAN]
Phase == {"check", "upload", "stored", "loaded", "published", "streaming"}
Job == [window : Windows, handle : HandleIds, file : Files, pending : BOOLEAN,
        base : Contents \cup {Unborn}, put : BOOLEAN, phase : Phase,
        loaded : 0..MaxRevision, new : Contents \cup {None}]

\* One type invariant: the three maps, and the phase of every request.
CapabilitiesTypeOK ==
    /\ MainFilesTypeOK
    /\ DOMAIN instances \subseteq Windows
    /\ DOMAIN handles \subseteq HandleIds
    /\ DOMAIN transfers \subseteq TransferIds
    /\ \A w \in DOMAIN instances : instances[w] \in Nat
    /\ \A h \in DOMAIN handles : handles[h] \in Handle
    /\ \A t \in DOMAIN transfers : transfers[t] \in Transfer
    /\ job \in [TransferIds -> Job \cup {None}]

Serving(t) == job[t] # None

CapabilitiesInit ==
    /\ MainFilesInit
    /\ instances = << >> /\ handles = << >> /\ transfers = << >>
    /\ job = [t \in TransferIds |-> None]

-----------------------------------------------------------------------------
(* The registry.                                                           *)

OpenWindow(w) == w \in DOMAIN instances /\ instances[w] > clock
ValidHandle(h) == h \in DOMAIN handles /\ handles[h].expires > clock

\* prune: expired windows, then what they or their own expiry take with them.
ExpiredWindows == {w \in DOMAIN instances : instances[w] <= clock}
PrunedInstances == Drop(instances, ExpiredWindows)
PrunedHandles ==
    Drop(handles, {h \in DOMAIN handles : \/ handles[h].expires <= clock
                                             \/ handles[h].window \in ExpiredWindows})
PrunedTransfers ==
    Drop(transfers, {t \in DOMAIN transfers :
                           \/ transfers[t].expires <= clock
                           \/ transfers[t].window \notin DOMAIN PrunedInstances
                           \/ transfers[t].handle \notin DOMAIN PrunedHandles})

\* Mutant of Close: the transfers are left until they expire.
CloseHandles(w) ==
    /\ instances' = Drop(instances, {w})
    /\ handles' = Drop(handles, {h \in DOMAIN handles : handles[h].window = w})
    /\ UNCHANGED transfers

\* A window, and everything issued to it.
Close(w) ==
    /\ instances' = Drop(instances, {w})
    /\ handles' = Drop(handles, {h \in DOMAIN handles : handles[h].window = w})
    /\ transfers' = Drop(transfers, {t \in DOMAIN transfers : transfers[t].window = w})

CreateInstance(w) ==
    /\ w \notin DOMAIN instances
    /\ \A t \in TransferIds : ~(Serving(t) /\ job[t].window = w)
    /\ Cardinality(DOMAIN PrunedInstances) < MaxInstances
    /\ instances' = Bind(PrunedInstances, w, clock + InstanceTtl)
    /\ handles' = PrunedHandles
    /\ transfers' = PrunedTransfers
    /\ UNCHANGED <<clock, content, revision, job>>

CloseInstance(w) ==
    /\ w \in DOMAIN instances   \* requireInstance closes an expired one as well
    /\ Close(w)
    /\ UNCHANGED <<clock, content, revision, job>>

FreshHandle(h) ==
    /\ h \notin DOMAIN handles
    /\ \A t \in TransferIds : ~(Serving(t) /\ job[t].handle = h)
    /\ \A t \in DOMAIN transfers : transfers[t].handle # h

NewHandle(w, h, f, pending, writable) ==
    /\ OpenWindow(w)
    /\ FreshHandle(h)
    /\ Cardinality(DOMAIN PrunedHandles) < MaxHandles
    /\ handles' = Bind(PrunedHandles, h,
                      [window |-> w, file |-> f, pending |-> pending, writable |-> writable,
                       base |-> content[f], expires |-> clock + HandleTtl])
    /\ instances' = PrunedInstances
    /\ transfers' = PrunedTransfers
    /\ UNCHANGED <<clock, content, revision, job>>

\* FileHostService: a chosen file that exists, or a free name to save under.
IssueHandle(w, h, f, writable) == Exists(f) /\ NewHandle(w, h, f, FALSE, writable)
IssueSaveHandle(w, h, f) == content[f] = Unborn /\ NewHandle(w, h, f, TRUE, TRUE)

ReleaseHandle(h) ==
    /\ h \in DOMAIN handles /\ OpenWindow(handles[h].window)
    /\ handles' = Drop(handles, {h})
    /\ transfers' = Drop(transfers, {t \in DOMAIN transfers : transfers[t].handle = h})
    /\ UNCHANGED <<clock, content, revision, instances, job>>

\* authorizeHandle, in metadata, a new transfer or a transfer that begins,
\* drops a handle that has expired, and nothing else.
DropExpiredHandle(h) ==
    /\ h \in DOMAIN handles /\ OpenWindow(handles[h].window)
    /\ handles[h].expires <= clock
    /\ handles' = Drop(handles, {h})
    /\ UNCHANGED <<clock, content, revision, instances, transfers, job>>

IssueTransfer(h, t, method) ==
    /\ ValidHandle(h) /\ OpenWindow(handles[h].window)
    /\ IF method = "PUT" THEN handles[h].writable ELSE ~handles[h].pending
    /\ t \notin DOMAIN transfers /\ job[t] = None
    /\ Cardinality(DOMAIN PrunedTransfers) < MaxTransfers
    /\ transfers' = Bind(PrunedTransfers, t,
                        [window |-> handles[h].window, handle |-> h, method |-> method,
                         expires |-> clock + TransferTtl, active |-> FALSE])
    /\ instances' = PrunedInstances
    /\ handles' = PrunedHandles
    /\ UNCHANGED <<clock, content, revision, job>>

\* A call that is refused at a limit has pruned all the same.
PruneAtLimit ==
    /\ \/ Cardinality(DOMAIN PrunedInstances) >= MaxInstances
       \/ Cardinality(DOMAIN PrunedHandles) >= MaxHandles
       \/ Cardinality(DOMAIN PrunedTransfers) >= MaxTransfers
    /\ instances' = PrunedInstances
    /\ handles' = PrunedHandles
    /\ transfers' = PrunedTransfers
    /\ UNCHANGED <<clock, content, revision, job>>

\* inspectTransfer, for a preflight or at the head of a request.
DropExpiredTransfer(t) ==
    /\ t \in DOMAIN transfers /\ ~transfers[t].active
    /\ \/ /\ transfers[t].expires <= clock
          /\ transfers' = Drop(transfers, {t})
          /\ UNCHANGED <<instances, handles>>
       \/ /\ transfers[t].expires > clock
          /\ ~OpenWindow(transfers[t].window)
          /\ instances' = PrunedInstances
          /\ handles' = PrunedHandles
          /\ transfers' = PrunedTransfers
    /\ UNCHANGED <<clock, content, revision, job>>

-----------------------------------------------------------------------------
(* Serving a transfer: read and write of FileTransferService.              *)

\* inspectTransfer and beginTransfer: from here on nobody else may begin it.
BeginTransfer(t) ==
    /\ t \in DOMAIN transfers /\ ~transfers[t].active
    /\ transfers[t].expires > clock
    /\ OpenWindow(transfers[t].window)
    /\ ValidHandle(transfers[t].handle)
    /\ LET x == transfers[t]
           h == handles[x.handle]
       IN  job' = [job EXCEPT ![t] =
               [window |-> x.window, handle |-> x.handle, file |-> h.file,
                pending |-> h.pending, base |-> h.base, put |-> x.method = "PUT",
                phase |-> IF h.pending THEN "upload" ELSE "check",
                loaded |-> 0, new |-> None]]
    /\ transfers' = [transfers EXCEPT ![t].active = TRUE]
    /\ UNCHANGED <<clock, content, revision, instances, handles>>

\* The request leaves the service, by an answer or an error: finishTransfer
\* forgets the token, unless prune or closeInstance was there first.
FinishTransfer(t) ==
    /\ job' = [job EXCEPT ![t] = None]
    /\ transfers' = Drop(transfers, {t})
    /\ UNCHANGED <<clock, instances>>

AdvanceTransfer(t, phase) ==
    /\ job' = [job EXCEPT ![t].phase = phase]
    /\ UNCHANGED <<clock, content, revision, instances, handles, transfers>>

FailTransfer(t) ==
    /\ FinishTransfer(t)
    /\ UNCHANGED <<content, revision, handles>>

\* The file must still have the content the handle was issued for.
CheckCurrentHandle(t) ==
    /\ Serving(t) /\ job[t].phase = "check"
    /\ IF content[job[t].file] = job[t].base
       THEN AdvanceTransfer(t, IF job[t].put THEN "upload" ELSE "streaming")
       ELSE FailTransfer(t)

\* The body is stored, or it is too long or broken off, or the answer's
\* reader is gone (the generator's finally block).
StoreUpload(t) ==
    /\ Serving(t) /\ job[t].phase = "upload"
    /\ \/ \E c \in Contents :
             /\ job' = [job EXCEPT ![t].phase = "stored", ![t].new = c]
             /\ UNCHANGED <<clock, content, revision, instances, handles, transfers>>
       \/ FailTransfer(t)

StreamBody(t) ==
    /\ Serving(t) /\ job[t].phase = "streaming"
    /\ FinishTransfer(t)
    /\ UNCHANGED <<content, revision, handles>>

LoadForTransfer(t) ==
    /\ Serving(t) /\ job[t].phase = "stored"
    /\ IF Applies(job[t].file, job[t].base)
       THEN /\ job' = [job EXCEPT ![t].phase = "loaded", ![t].loaded = revision]
            /\ UNCHANGED <<clock, content, revision, instances, handles, transfers>>
       ELSE FailTransfer(t)

PublishFile(t) ==
    /\ Serving(t) /\ job[t].phase = "loaded"
    /\ \/ /\ Publish(job[t].file, job[t].new, job[t].loaded)
          /\ job' = [job EXCEPT ![t].phase = "published"]
          /\ UNCHANGED <<clock, instances, handles, transfers>>
       \/ /\ revision # job[t].loaded
          /\ FailTransfer(t)

\* The published file is looked up again: a save target's handle becomes a
\* handle of the file, with the content found by now.
ReadBack(t) ==
    /\ Serving(t) /\ job[t].phase = "published"
    /\ LET j == job[t]
           mayCommit == /\ OpenWindow(j.window)
                        /\ j.handle \in DOMAIN handles
                        /\ handles[j.handle].window = j.window
                        /\ handles[j.handle].pending
       IN  IF StillThere(j.file) /\ (j.pending => mayCommit)
           THEN /\ handles' = IF j.pending
                              THEN [handles EXCEPT ![j.handle].pending = FALSE,
                                                   ![j.handle].base = content[j.file]]
                              ELSE handles
                /\ FinishTransfer(t)
           ELSE \/ /\ j.window \in ExpiredWindows /\ StillThere(j.file)
                   /\ Close(j.window)      \* requireInstance
                   /\ job' = [job EXCEPT ![t] = None]
                \/ /\ j.window \notin ExpiredWindows \/ ~StillThere(j.file)
                   /\ FinishTransfer(t)
                   /\ UNCHANGED handles
    /\ UNCHANGED <<clock, content, revision>>

-----------------------------------------------------------------------------
RegistryStep ==
    \/ \E w \in Windows : CreateInstance(w) \/ CloseInstance(w)
    \/ \E w \in Windows, h \in HandleIds, f \in Files :
         \/ \E writable \in BOOLEAN : IssueHandle(w, h, f, writable)
         \/ IssueSaveHandle(w, h, f)
    \/ \E h \in HandleIds : ReleaseHandle(h) \/ DropExpiredHandle(h)
    \/ \E h \in HandleIds, t \in TransferIds, m \in {"GET", "PUT"} : IssueTransfer(h, t, m)
    \/ \E t \in TransferIds : DropExpiredTransfer(t)
    \/ PruneAtLimit

ServeTransfer(t) ==
    \/ BeginTransfer(t) \/ CheckCurrentHandle(t) \/ StoreUpload(t) \/ StreamBody(t)
    \/ LoadForTransfer(t) \/ PublishFile(t) \/ ReadBack(t)

CapabilitiesNext ==
    \/ RegistryStep
    \/ \E t \in TransferIds : ServeTransfer(t)
    \/ (Tick \/ OtherCommit) /\ UNCHANGED <<registry, job>>

-----------------------------------------------------------------------------
(* Properties.                                                             *)

\* Closing a window, by its page or by its expiry, takes every handle and
\* transfer issued to it along: none is left that a later window, or a
\* request already on its way, could use (closeInstance, prune).
CredentialsBelongToAnOpenWindow ==
    /\ \A h \in DOMAIN handles : handles[h].window \in DOMAIN instances
    /\ \A t \in DOMAIN transfers : transfers[t].window \in DOMAIN instances

\* A transfer that is marked active is the one of a request that still runs:
\* whichever way a request ends, also by an error, its token has left the
\* registry, which would otherwise fill up with tokens nobody can use
\* (finishTransfer).  That a request ends is not claimed.
ActiveTransferIsServed ==
    \A t \in DOMAIN transfers : transfers[t].active => Serving(t)

\* The registry of handles and transfers in every state: each entry belongs
\* to a window that is open, and to a request if it is marked as in use.
CapabilitiesInvariant ==
    CapabilitiesTypeOK /\ CredentialsBelongToAnOpenWindow /\ ActiveTransferIsServed

\* A save replaces exactly the content its request found in the handle when it
\* began, however many windows and other clients write the file between the
\* first check and the compare-and-swap; a save target only ever creates its
\* file.  What the handle was given after an earlier save may be another
\* client's.
NoBlindOverwrite ==
    [][\A t \in TransferIds :
          (Serving(t) /\ job[t].phase = "loaded" /\ job'[t] # None /\ job'[t].phase = "published")
             => content[job[t].file] = job[t].base]_capsVars

CapabilitiesSpec == CapabilitiesInit /\ [][CapabilitiesNext]_capsVars

-----------------------------------------------------------------------------
(* What the proofs need to know of the requests.                           *)

\* None is not a request.
ASSUME NoneIsNoJob == None \notin Job

\* A request that has stored its upload carries it; the one that is about to
\* publish found, at the revision it loaded, the content it may replace; and
\* its token, as long as it is registered, is of its window.
JobsMatchTheRegistry ==
    \A t \in TransferIds : Serving(t) =>
        /\ job[t].phase \in {"stored", "loaded", "published"} => job[t].new \in Contents
        /\ job[t].phase = "loaded" =>
              /\ job[t].loaded <= revision
              /\ job[t].loaded = revision => content[job[t].file] = job[t].base
        /\ t \in DOMAIN transfers => transfers[t].window = job[t].window

\* The inductive invariant.
CapabilitiesInductive == CapabilitiesInvariant /\ JobsMatchTheRegistry
=============================================================================
