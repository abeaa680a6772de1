------------------------ MODULE OpenResourceLaunches ------------------------
(***************************************************************************)
(* Open-resource launches (OpenResourceResolver, OpenResourceLaunch-       *)
(* Service, OpenResourceLaunchRegistry): the file manager asks which       *)
(* application opens a file, makes a launch for one of them, and the       *)
(* window of that application claims it.  A target has one launch at a     *)
(* time; the two maps of the registry must agree, or it stays busy.        *)
(*                                                                         *)
(* Making and claiming a launch await the index and the app store, while   *)
(* the file system changes and applications are updated and closed.        *)
(***************************************************************************)
EXTENDS MainFiles

CONSTANTS
    TargetApps,
    LaunchIds,
    LaunchTtl,
    MaxLaunches

\* Launch ids are random and of a fixed length: there are finitely many.
ASSUME LaunchesAssumption ==
    /\ {LaunchTtl, MaxLaunches} \subseteq Nat \ {0}
    /\ IsFiniteSet(LaunchIds)

VARIABLES
    offers,         \* app store: what the handlers of an active application do
                    \* with the files at hand; nothing for an inactive one
    launches,       \* #launches
    byTargetApp,    \* #byTargetApp
    page,           \* the file manager's request to open something, or None
    claims,         \* per launch: the claim it was handed to, or None
    handed          \* history: which launch was handed to which application

launchVars == <<clock, content, revision, offers, launches, byTargetApp, page, claims, handed>>
OutsideLaunches == <<clock, content, revision>>

\* Several files are opened together, like one, and never edited.
Actions == {"open", "edit"}
Page == [action : Actions, target : TargetApps, rev : 0..MaxRevision, checked : BOOLEAN]
Launch == [target : TargetApps, action : Actions, rev : 0..MaxRevision, expires : Nat]
Claim == [target : TargetApps, action : Actions, rev : 0..MaxRevision, checked : BOOLEAN]

\* One type invariant for the registry and the requests.
LaunchesTypeOK ==
    /\ MainFilesTypeOK
    /\ offers \in [TargetApps -> SUBSET Actions]
    /\ DOMAIN launches \subseteq LaunchIds /\ DOMAIN byTargetApp \subseteq TargetApps
    /\ \A l \in DOMAIN launches : launches[l] \in Launch
    /\ Cardinality(DOMAIN launches) <= MaxLaunches
    /\ page \in Page \cup {None}
    /\ claims \in [LaunchIds -> Claim \cup {None}]
    /\ handed \subseteq LaunchIds \X TargetApps

LaunchesInit ==
    /\ MainFilesInit
    /\ offers = [a \in TargetApps |-> Actions]
    /\ launches = << >> /\ byTargetApp = << >>
    /\ page = None
    /\ claims = [l \in LaunchIds |-> None]
    /\ handed = {}

-----------------------------------------------------------------------------
\* candidatesFor, candidatesForMany
Candidates(action) == {a \in TargetApps : action \in offers[a]}

\* resolve: with nobody to edit a file it is opened.
EffectiveAction(action) ==
    IF action = "edit" /\ Candidates(action) = {} THEN "open" ELSE action

\* resolve and resolveMany; the page then asks for a launch with one of the
\* candidates, at the revision it displays.
Resolve ==
    /\ page = None
    /\ \E action \in Actions :
         \E a \in Candidates(EffectiveAction(action)) :
            page' = [action |-> EffectiveAction(action), target |-> a, rev |-> revision,
                     checked |-> FALSE]
    /\ UNCHANGED <<OutsideLaunches, offers, launches, byTargetApp, claims, handed>>

\* #validateTarget, #validateManyTarget: the index first.
CheckTarget ==
    /\ page # None /\ ~page.checked
    /\ page' = IF page.rev = revision THEN [page EXCEPT !.checked = TRUE] ELSE None
    /\ UNCHANGED <<OutsideLaunches, offers, launches, byTargetApp, claims, handed>>

ExpiredLaunches == {l \in DOMAIN launches : launches[l].expires <= clock}

\* #delete
ForgetLaunches(L) ==
    /\ launches' = Drop(launches, L)
    /\ byTargetApp' = Drop(byTargetApp, {a \in DOMAIN byTargetApp :
                              byTargetApp[a] \in L /\ launches[byTargetApp[a]].target = a})

UnusedLaunch(l) == l \notin DOMAIN launches /\ claims[l] = None /\ \A a \in TargetApps : <<l, a>> \notin handed

Room(kept) == Cardinality(DOMAIN kept) < MaxLaunches

\* create, once the app store has been read: expired launches go, a target
\* with a launch is busy, and their number is limited.
CreateLaunch(l) ==
    /\ page # None /\ page.checked
    /\ LET kept == Drop(launches, ExpiredLaunches)
           targets == Drop(byTargetApp, {b \in DOMAIN byTargetApp : byTargetApp[b] \in ExpiredLaunches})
       IN  IF page.action \notin offers[page.target]
           THEN UNCHANGED <<launches, byTargetApp>>
           ELSE IF page.target \notin DOMAIN targets /\ Room(kept)
           THEN /\ UnusedLaunch(l)
                /\ launches' = Bind(kept, l, [target |-> page.target, action |-> page.action,
                                              rev |-> page.rev, expires |-> clock + LaunchTtl])
                /\ byTargetApp' = Bind(targets, page.target, l)
           ELSE /\ launches' = kept
                /\ byTargetApp' = targets
    /\ page' = None
    /\ UNCHANGED <<OutsideLaunches, offers, claims, handed>>

\* Mutant of ClaimLaunch: the launch is left until it expires.
ClaimAndKeep(l, a) ==
    /\ l \in DOMAIN launches \ ExpiredLaunches /\ launches[l].target = a
    /\ claims' = [claims EXCEPT ![l] = [target |-> a, action |-> launches[l].action,
                                        rev |-> launches[l].rev, checked |-> FALSE]]
    /\ UNCHANGED <<OutsideLaunches, offers, launches, byTargetApp, page, handed>>

\* consume: an expired launch only goes, one of another target is not found.
ClaimLaunch(l, a) ==
    /\ l \in DOMAIN launches
    /\ l \in ExpiredLaunches \/ launches[l].target = a
    /\ ForgetLaunches({l})
    /\ claims' = IF l \in ExpiredLaunches THEN claims
                 ELSE [claims EXCEPT ![l] = [target |-> a, action |-> launches[l].action,
                                             rev |-> launches[l].rev, checked |-> FALSE]]
    /\ UNCHANGED <<OutsideLaunches, offers, page, handed>>

\* claim, claimResourceSession: validated once more; what fails is lost.
CheckClaim(l) ==
    /\ claims[l] # None /\ ~claims[l].checked
    /\ claims' = [claims EXCEPT ![l] = IF claims[l].rev = revision
                                       THEN [claims[l] EXCEPT !.checked = TRUE] ELSE None]
    /\ UNCHANGED <<OutsideLaunches, offers, launches, byTargetApp, page, handed>>

HandOver(l) ==
    /\ claims[l] # None /\ claims[l].checked
    /\ handed' = IF claims[l].action \in offers[claims[l].target]
                 THEN handed \cup {<<l, claims[l].target>>} ELSE handed
    /\ claims' = [claims EXCEPT ![l] = None]
    /\ UNCHANGED <<OutsideLaunches, offers, launches, byTargetApp, page>>

CancelTarget(a) ==
    IF a \in DOMAIN byTargetApp THEN ForgetLaunches({byTargetApp[a]})
    ELSE UNCHANGED <<launches, byTargetApp>>

\* A window of the application is closed, or its record in the app store
\* changes (update, enable, disable, uninstall): its launch is cancelled.
CloseWindow(a) ==
    /\ CancelTarget(a)
    /\ UNCHANGED <<OutsideLaunches, offers, page, claims, handed>>

ChangeApp(a) ==
    /\ \E h \in {{}, {"open"}, Actions} : offers' = [offers EXCEPT ![a] = h]
    /\ CancelTarget(a)
    /\ UNCHANGED <<OutsideLaunches, page, claims, handed>>

\* Anybody's commit: a launch is only for the revision its page displayed.
Revise ==
    /\ revision < MaxRevision
    /\ revision' = revision + 1
    /\ UNCHANGED <<clock, content>>

LaunchesNext ==
    \/ Resolve \/ CheckTarget
    \/ \E l \in LaunchIds : CreateLaunch(l) \/ CheckClaim(l) \/ HandOver(l)
    \/ \E l \in LaunchIds, a \in TargetApps : ClaimLaunch(l, a)
    \/ \E a \in TargetApps : CloseWindow(a) \/ ChangeApp(a)
    \/ (Tick \/ Revise) /\ UNCHANGED <<offers, launches, byTargetApp, page, claims, handed>>

LaunchesSpec == LaunchesInit /\ [][LaunchesNext]_launchVars

-----------------------------------------------------------------------------
\* The two maps agree, whichever of expiry, claim, closing and update takes a
\* launch away: a target is busy exactly while a launch for it is pending
\* (otherwise it could never be opened again, or would have two).
BusyMeansPending ==
    /\ \A l \in DOMAIN launches : launches[l].target \in DOMAIN byTargetApp
                                  /\ byTargetApp[launches[l].target] = l
    /\ \A a \in DOMAIN byTargetApp : byTargetApp[a] \in DOMAIN launches
                                     /\ launches[byTargetApp[a]].target = a

\* A launch is handed to one window, of the application it was made for,
\* however many windows claim it while the claims await the index (consume):
\* from then on it is nobody's.
HandedOverOnce ==
    \A l \in LaunchIds, a \in TargetApps : <<l, a>> \in handed =>
       /\ l \notin DOMAIN launches
       /\ \A b \in TargetApps : <<l, b>> \in handed => a = b

\* The registry of launches in every state.
LaunchesInvariant == LaunchesTypeOK /\ BusyMeansPending /\ HandedOverOnce

\* A launch that is being claimed has left the registry and was not handed
\* over before: no second claim can find it.
ClaimsAreTaken ==
    \A l \in LaunchIds : claims[l] # None =>
        l \notin DOMAIN launches /\ \A a \in TargetApps : <<l, a>> \notin handed

\* The inductive invariant.
LaunchesInductive == LaunchesInvariant /\ ClaimsAreTaken
=============================================================================
