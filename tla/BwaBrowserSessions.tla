------------------------- MODULE BwaBrowserSessions -------------------------
(***************************************************************************)
(* Browser sessions of the applications that run in a container            *)
(* (BwaBrowserSessionRegistry, the bwa runtime proxies, and open and       *)
(* deleteInstance of BwaManagerControlService): opening an Instance gives  *)
(* its page a ticket, the ticket becomes a session cookie on the origin of *)
(* the Instance, and the proxy lets a request with the cookie through to   *)
(* the Run, whose address it asks the Compute Runtime for.                 *)
(***************************************************************************)
EXTENDS Naturals, FiniteSets, Functions

CONSTANTS
    Instances,      \* ids are random: a deleted one never comes back
    TicketIds, SessionKeys,
    TicketTtl, SessionIdle,
    MaxTickets, MaxBrowserSessions,
    NoRequest,
    MaxTime         \* bound of the clock

ASSUME BrowserSessionsAssumption ==
    /\ {TicketTtl, SessionIdle, MaxTickets, MaxBrowserSessions} \subseteq Nat \ {0}
    /\ MaxTime \in Nat
    /\ NoRequest \notin Instances
    \* random, of a fixed length
    /\ IsFiniteSet(TicketIds) /\ IsFiniteSet(SessionKeys)

VARIABLES
    time,           \* #now()
    present,        \* Instances in the control database
    running,        \* Instances with a Run that is RUNNING
    enabled,        \* Instances whose Application is enabled
    removing,       \* Instances whose secrets deleteInstance is removing
    forgotten,      \* history: Instances whose secrets could not be removed
    tickets,        \* #tickets
    cookies,        \* #sessions
    proxied         \* the request that waits for the address of a Run

browserState == <<time, present, running, enabled, removing, forgotten>>
browserVars == <<browserState, tickets, cookies, proxied>>

\* A session says, as history, from which ticket it came.
BrowserSessionsTypeOK ==
    /\ time \in 0..MaxTime
    /\ \A i \in {present, running, enabled, removing, forgotten} : i \subseteq Instances
    /\ \A t \in DOMAIN tickets : tickets[t] \in [instance : Instances, expires : Nat]
    /\ \A s \in DOMAIN cookies :
          cookies[s] \in [instance : Instances, touched : Nat, ticket : TicketIds]
    /\ Cardinality(DOMAIN tickets) <= MaxTickets
    /\ Cardinality(DOMAIN cookies) <= MaxBrowserSessions
    /\ proxied \in Instances \cup {NoRequest}

BrowserSessionsInit ==
    /\ time = 0
    /\ present = Instances /\ running = {} /\ enabled = Instances
    /\ removing = {} /\ forgotten = {}
    /\ tickets = << >> /\ cookies = << >>
    /\ proxied = NoRequest

-----------------------------------------------------------------------------
Without(map, keys) == Restrict(map, DOMAIN map \ keys)
With(map, key, value) == [x \in DOMAIN map \cup {key} |-> IF x = key THEN value ELSE map[x]]

\* prune
LiveTickets == Without(tickets, {t \in DOMAIN tickets : tickets[t].expires <= time})
LiveSessions == Without(cookies, {s \in DOMAIN cookies : cookies[s].touched + SessionIdle <= time})

FreshTicket(t) == t \notin DOMAIN tickets /\ \A s \in DOMAIN cookies : cookies[s].ticket # t

\* open of a running Instance, and issueBootstrap.
OpenInstance(i, t) ==
    /\ i \in present /\ i \in running
    /\ IF Cardinality(DOMAIN LiveTickets) < MaxTickets
       THEN /\ FreshTicket(t)
            /\ tickets' = With(LiveTickets, t, [instance |-> i, expires |-> time + TicketTtl])
       ELSE tickets' = LiveTickets
    /\ cookies' = LiveSessions
    /\ UNCHANGED <<browserState, proxied>>

\* resolveHostTarget: only the origin of an Instance that is there.
Served(i) == i \in present /\ i \in enabled

\* consumeBootstrap, on the origin of Instance i: the ticket is gone in any
\* case, also when it is another Instance's or no session is free.
ConsumeBootstrap(i, t, s) ==
    /\ Served(i) /\ t \in DOMAIN tickets
    /\ tickets' = Without(LiveTickets, {t})
    /\ IF /\ t \in DOMAIN LiveTickets /\ tickets[t].instance = i
          /\ Cardinality(DOMAIN LiveSessions) < MaxBrowserSessions
       THEN /\ s \notin DOMAIN cookies
            /\ cookies' = With(LiveSessions, s, [instance |-> i, touched |-> time, ticket |-> t])
       ELSE cookies' = LiveSessions
    /\ UNCHANGED <<browserState, proxied>>

\* authorize, for a request or a WebSocket on the origin of Instance i: an
\* idle session is dropped, another one lives on, whether or not a Run is
\* then found; with one the request waits for resolveBwaEndpoint.
Authorize(i, s) ==
    /\ Served(i) /\ proxied = NoRequest
    /\ s \in DOMAIN cookies /\ cookies[s].instance = i
    /\ IF s \in DOMAIN LiveSessions
       THEN /\ cookies' = [cookies EXCEPT ![s].touched = time]
            /\ proxied' = IF i \in running THEN i ELSE NoRequest
       ELSE /\ cookies' = Without(cookies, {s})
            /\ UNCHANGED proxied
    /\ UNCHANGED <<browserState, tickets>>

\* The address arrives, or the Run is gone: the request is passed on or fails.
ProxyRequest ==
    /\ proxied # NoRequest
    /\ proxied' = NoRequest
    /\ UNCHANGED <<browserState, tickets, cookies>>

\* start and stop leave tickets and sessions alone, and so does disabling.
StartOrStop(i) ==
    /\ i \in present
    /\ running' = (running \ {i}) \cup ({i} \ running)
    /\ UNCHANGED <<time, present, enabled, removing, forgotten, tickets, cookies, proxied>>

SetEnabled(i) ==
    /\ i \in present
    /\ enabled' = (enabled \ {i}) \cup ({i} \ enabled)
    /\ UNCHANGED <<time, present, running, removing, forgotten, tickets, cookies, proxied>>

\* deleteInstance of a stopped Instance: out of the database at once ...
DeleteInstance(i) ==
    /\ i \in present /\ i \notin running
    /\ present' = present \ {i}
    /\ removing' = removing \cup {i}
    /\ UNCHANGED <<time, running, enabled, forgotten, tickets, cookies, proxied>>

\* Mutant of RevokeInstance: only the sessions.
RevokeSessions(i) ==
    /\ cookies' = Without(cookies, {s \in DOMAIN cookies : cookies[s].instance = i})
    /\ UNCHANGED tickets

\* revokeInstance
RevokeInstance(i) ==
    /\ tickets' = Without(tickets, {t \in DOMAIN tickets : tickets[t].instance = i})
    /\ cookies' = Without(cookies, {s \in DOMAIN cookies : cookies[s].instance = i})

\* ... and, when its secrets are gone, revoked.  If they cannot be removed
\* the rest of deleteInstance does not happen.
FinishDelete(i) ==
    /\ i \in removing
    /\ removing' = removing \ {i}
    /\ \/ RevokeInstance(i) /\ UNCHANGED forgotten
       \/ forgotten' = forgotten \cup {i} /\ UNCHANGED <<tickets, cookies>>
    /\ UNCHANGED <<time, present, running, enabled, proxied>>

PassTime ==
    /\ time < MaxTime
    /\ time' = time + 1
    /\ UNCHANGED <<present, running, enabled, removing, forgotten, tickets, cookies, proxied>>

BrowserSessionsNext ==
    \/ \E i \in Instances : StartOrStop(i) \/ SetEnabled(i) \/ DeleteInstance(i) \/ FinishDelete(i)
    \/ \E i \in Instances, t \in TicketIds : OpenInstance(i, t)
    \/ \E i \in Instances, t \in TicketIds, s \in SessionKeys : ConsumeBootstrap(i, t, s)
    \/ \E i \in Instances, s \in SessionKeys : Authorize(i, s)
    \/ ProxyRequest
    \/ PassTime

BrowserSessionsSpec == BrowserSessionsInit /\ [][BrowserSessionsNext]_browserVars

-----------------------------------------------------------------------------
\* A ticket opens one session, however often its address is presented and
\* whatever Instance it is presented at (consumeBootstrap).
OneSessionPerTicket ==
    /\ \A s, t \in DOMAIN cookies : cookies[s].ticket = cookies[t].ticket => s = t
    /\ \A s \in DOMAIN cookies : cookies[s].ticket \notin DOMAIN tickets

\* Nothing leads into a deleted Instance once deleteInstance is done with it,
\* although pages open, consume and use its credentials until then; only a
\* failure to remove its secrets leaves some behind.
DeletedInstanceIsRevoked ==
    \A i \in Instances \ (present \cup removing \cup forgotten) :
       /\ \A t \in DOMAIN tickets : tickets[t].instance # i
       /\ \A s \in DOMAIN cookies : cookies[s].instance # i

\* The registry of tickets and sessions in every state, at its limits.
BrowserSessionsInvariant ==
    BrowserSessionsTypeOK /\ OneSessionPerTicket /\ DeletedInstanceIsRevoked

\* The inductive invariant: it says of the two maps that their keys are
\* tickets and session keys, so that they can be counted.
BrowserSessionsInductive ==
    /\ BrowserSessionsInvariant
    /\ DOMAIN tickets \subseteq TicketIds
    /\ DOMAIN cookies \subseteq SessionKeys
=============================================================================
