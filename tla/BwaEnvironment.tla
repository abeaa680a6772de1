--------------------------- MODULE BwaEnvironment ---------------------------
(***************************************************************************)
(* The environment of a BWA Application and of its Instances               *)
(* (BwaRegistryService).  The control database holds the names, and the    *)
(* values that are not sensitive; one file, BwaSecretStore, holds the      *)
(* sensitive values of every scope.  The two cannot change together, and   *)
(* an edit of the file reads the whole document, awaits, and writes the    *)
(* whole document, with no lock between the edits.                         *)
(***************************************************************************)
EXTENDS FiniteSets

CONSTANTS
    EnvInstances,  \* Instances of the Application
    TheApp,        \* the scope of the Application's own variables
    Names,         \* names of variables
    Calls,         \* requests the manager is serving
    NoScope        \* not a scope

ASSUME EnvironmentAssumption == TheApp \notin EnvInstances /\ NoScope \notin EnvInstances \cup {TheApp}

Scopes == EnvInstances \cup {TheApp}

VARIABLES
    exists,     \* the scopes that have a row in the control database
    variables,  \* per scope and name: absent, ordinary or sensitive
    stored,     \* the secret file: per scope, the names that have a value
    call,       \* per request: what it does and how far it is
    overlapped, \* history: a request began before another had ended
    torn        \* history: a request ended half-way and nothing made up for it

environmentVars == <<exists, variables, stored, call, overlapped, torn>>

Variable  == {"absent", "ordinary", "sensitive"}
Given     == [Names -> Variable]
Nothing   == [n \in Names |-> "absent"]
Documents == [Scopes -> SUBSET Names]
Empty     == [s \in Scopes |-> {}]
Sensitive(given) == {n \in Names : given[n] = "sensitive"}

\* given: the variables of a replace; document: the file as the request read it.
CallRows == [kind : {"none", "replace", "remove"}, step : {"read", "write", "register"},
             scope : Scopes \cup {NoScope}, given : Given, document : Documents]
NoCall == [kind |-> "none", step |-> "read", scope |-> NoScope, given |-> Nothing,
           document |-> Empty]

AtTheFile(c) == call[c].kind # "none" /\ call[c].step # "register"
Quiet        == \A c \in Calls : call[c] = NoCall

EnvironmentInit ==
    /\ exists = Scopes
    /\ variables = [s \in Scopes |-> Nothing]
    /\ stored = Empty
    /\ call = [c \in Calls |-> NoCall]
    /\ overlapped = FALSE
    /\ torn = FALSE
-----------------------------------------------------------------------------
Begin(c, kind, s, given) ==
    /\ call[c] = NoCall
    /\ call' = [call EXCEPT ![c] =
          [NoCall EXCEPT !.kind = kind, !.scope = s, !.given = given]]
    /\ overlapped' = (overlapped \/ ~Quiet)

\* replaceEnvironment, replaceApplicationEnvironment: the file comes first,
\* whether or not the scope exists.
Replace(c, s) ==
    /\ \E given \in Given : Begin(c, "replace", s, given)
    /\ UNCHANGED <<exists, variables, stored, torn>>

\* deleteInstancePreservingWorkspace and uninstall: the database comes first.
Delete(c, s) ==
    /\ s \in exists
    /\ s = TheApp => exists = {TheApp}
    /\ exists' = exists \ {s}
    /\ variables' = [variables EXCEPT ![s] = Nothing]
    /\ Begin(c, "remove", s, Nothing)
    /\ UNCHANGED <<stored, torn>>

\* The Application is installed again, under the same id.
Install ==
    /\ TheApp \notin exists
    /\ exists' = exists \cup {TheApp}
    /\ UNCHANGED <<variables, stored, call, overlapped, torn>>

ReadDocument(c) ==
    /\ call[c].kind # "none" /\ call[c].step = "read"
    /\ call' = [call EXCEPT ![c].step = "write", ![c].document = stored]
    /\ UNCHANGED <<exists, variables, stored, overlapped, torn>>

\* Mutant of Edited: the document is built anew from the values given.
EditedAlone(row) == [Empty EXCEPT ![row.scope] = Sensitive(row.given)]

Edited(row) == [row.document EXCEPT ![row.scope] = Sensitive(row.given)]

\* #write replaces the file by a rename.
WriteDocument(c) ==
    LET row == call[c]
    IN  /\ row.kind # "none" /\ row.step = "write"
        /\ stored' = Edited(row)
        /\ call' = [call EXCEPT ![c] = IF row.kind = "remove" THEN NoCall
                        ELSE [row EXCEPT !.step = "register", !.document = Empty]]
        /\ UNCHANGED <<exists, variables, overlapped, torn>>

\* replaceBwaEnvironment, replaceBwaApplicationEnvironment: one transaction,
\* which throws when the scope does not exist.
Register(c) ==
    LET row == call[c]
    IN  /\ row.kind # "none" /\ row.step = "register"
        /\ IF row.scope \in exists
           THEN variables' = [variables EXCEPT ![row.scope] = row.given] /\ UNCHANGED torn
           ELSE torn' = TRUE /\ UNCHANGED variables
        /\ call' = [call EXCEPT ![c] = NoCall]
        /\ UNCHANGED <<exists, stored, overlapped>>

\* The file cannot be read or written; or #write throws after its rename, at
\* the chmod or at the sync of the directory.
FileFails(c) ==
    /\ AtTheFile(c)
    /\ call' = [call EXCEPT ![c] = NoCall]
    /\ \/ stored' = stored /\ torn' = (torn \/ call[c].kind = "remove")
       \/ /\ call[c].step = "write"
          /\ stored' = Edited(call[c]) /\ torn' = (torn \/ call[c].kind = "replace")
    /\ UNCHANGED <<exists, variables, overlapped>>

Pruned == [s \in Scopes |-> IF s \in EnvInstances \ exists THEN {} ELSE stored[s]]

\* The manager restarts, and prunes the values of deleted Instances before it
\* serves; those of an uninstalled Application are not looked at.
Restart ==
    /\ ~Quiet
    /\ call' = [c \in Calls |-> NoCall]
    /\ stored' = Pruned
    /\ torn' = (torn \/ \E c \in Calls : \/ call[c].kind # "none" /\ call[c].step = "register"
                                         \/ call[c].kind = "remove" /\ call[c].scope = TheApp)
    /\ UNCHANGED <<exists, variables, overlapped>>

EnvironmentNext ==
    \/ \E c \in Calls :
          \/ \E s \in Scopes : Replace(c, s) \/ Delete(c, s)
          \/ ReadDocument(c) \/ WriteDocument(c) \/ Register(c) \/ FileFails(c)
    \/ Install
    \/ Restart

EnvironmentSpec == EnvironmentInit /\ [][EnvironmentNext]_environmentVars
-----------------------------------------------------------------------------
\* resolveEnvironment: a variable of the Instance hides the Application's, and
\* a sensitive one without a stored value makes the start fail.
ScopeOf(i, n) == IF variables[i][n] # "absent" THEN i ELSE TheApp
Resolvable(i) ==
    \A n \in Names : variables[ScopeOf(i, n)][n] = "sensitive" => n \in stored[ScopeOf(i, n)]

EnvironmentTypeOK ==
    /\ exists \subseteq Scopes
    /\ variables \in [Scopes -> Given]
    /\ stored \in Documents
    /\ call \in [Calls -> CallRows]
    /\ {overlapped, torn} \subseteq BOOLEAN

(***************************************************************************)
(* Edits made one after the other, each of which ended or did not reach    *)
(* the file, leave every Instance able to start: no sensitive variable is  *)
(* without its value, whatever was edited, deleted or restarted            *)
(* (replaceEnvironment, resolveEnvironment).                               *)
(***************************************************************************)
QuietEditsKeepSecrets == Quiet /\ ~overlapped /\ ~torn => \A i \in exists \ {TheApp} : Resolvable(i)

(***************************************************************************)
(* They leave no value of a scope that is gone, an interrupted deletion of *)
(* an Instance included (BwaSecretStore.deleteInstance, prune).            *)
(***************************************************************************)
NoSecretOfTheGone == Quiet /\ ~overlapped /\ ~torn => \A s \in Scopes \ exists : stored[s] = {}

(***************************************************************************)
(* The file of secrets and the database, in every state.                   *)
(***************************************************************************)
EnvironmentInvariant == EnvironmentTypeOK /\ QuietEditsKeepSecrets /\ NoSecretOfTheGone
-----------------------------------------------------------------------------
(***************************************************************************)
(* What the proofs need to know of the requests, at any time ...           *)
(***************************************************************************)
CallsAreInOrder ==
    /\ \A s \in Scopes \ exists : variables[s] = Nothing
    /\ \A c \in Calls :
          /\ call[c].kind = "none" => call[c] = NoCall
          /\ call[c].kind # "none" => call[c].scope \in Scopes
          /\ call[c].step = "register" => call[c].kind = "replace"
          /\ call[c].kind = "remove" => call[c].given = Nothing

Registering(s) == \E c \in Calls : call[c].step = "register" /\ call[c].scope = s
Removing(s)    == \E c \in Calls : call[c].kind = "remove" /\ call[c].scope = s

(***************************************************************************)
(* ... and as long as none began before another had ended: the one that    *)
(* runs read what is still in the file, and the database and the file      *)
(* differ in nothing but what it is about to change.                       *)
(***************************************************************************)
OneEditAtATime ==
    ~overlapped /\ ~torn =>
        /\ \A c, d \in Calls : call[c] # NoCall /\ call[d] # NoCall => c = d
        /\ \A c \in Calls :
              /\ call[c].step = "write" => call[c].document = stored
              /\ call[c].step = "register" => stored[call[c].scope] = Sensitive(call[c].given)
              /\ call[c].kind = "remove" => variables[call[c].scope] = Nothing
        /\ \A s \in Scopes :
              /\ ~Registering(s) => Sensitive(variables[s]) \subseteq stored[s]
              /\ s \notin exists /\ ~Registering(s) /\ ~Removing(s) => stored[s] = {}

\* The inductive invariant: EnvironmentInvariant is what it says of a quiet manager.
EnvironmentInductive == EnvironmentTypeOK /\ CallsAreInOrder /\ OneEditAtATime
=============================================================================
