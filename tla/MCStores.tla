----------------------------- MODULE MCStores -----------------------------
(***************************************************************************)
(* Four parts of the server that share no state, for TLC: what it keeps or *)
(* finds in files.  `part` says which of them takes steps; the others rest *)
(* where they began.                                                       *)
(***************************************************************************)
EXTENDS OpenCodeDeletion, Integers, Sequences

CONSTANTS
    Publishers, MaxRebuilds,                            \* ReleasePublication
    MaxLength, MaxEdits, Unset,                         \* ManagedEnvironment
    MaxVersion, MaxProcess, MaxCrashes, MaxFaults       \* WebApp

VARIABLES
    part,
    source, sources, releases, current, publisher,
    environment, socket, places, context, file, launch, changes,
    files, process, pid, child, op, ended, viewer, server, built, faults, crashes

(* A conversation with a copy and a child in the other table, a stranger     *)
(* that refers to it, messages, parts and events, one of them the stranger's *)
(* but tied to the conversation, under the foreign keys a schema may have.   *)

Row(table, key, of, up) == [table |-> table, key |-> key, of |-> of, up |-> up]

MCUniverse == {
    Row("session", "a", None, {}),
    Row("session_v2", "a", None, {}),
    Row("session", "b", "a", {}),
    Row("session_v2", "b", "c", {}),
    Row("session", "c", None, {<<"session", "a">>}),
    Row("message", "m", None, {<<"session", "b">>, <<"part", "p">>}),
    Row("part", "p", None, {<<"message", "m">>, <<"event", "e">>}),
    Row("event", "e", "a", {<<"session", "a">>}),
    Row("event", "e", "c", {<<"session", "a">>, <<"message", "m">>})}

KeyBy(column, of, to, action) == [child |-> of, by |-> column, parent |-> to, action |-> action]
Optional(column, of, to, actions) == {{}} \cup {{KeyBy(column, of, to, a)} : a \in actions}

\* A part always goes with its message.
PartsOnly == {KeyBy("ref", "part", "message", "CASCADE")}

\* At most one way to have each other foreign key.
MCSchemas ==
    {PartsOnly \cup t \cup m \cup x :
        t \in Optional("parent_id", "session", "session", {"CASCADE", "NO ACTION"}),
        m \in Optional("ref", "message", "session", {"CASCADE", "SET NULL"}),
        x \in Optional("ref", "part", "event", {"CASCADE"}) \cup Optional("ref", "message", "part", {"CASCADE"})
              \cup Optional("ref", "event", "session", {"CASCADE", "NO ACTION"})
              \cup Optional("ref", "event", "message", {"CASCADE"})
              \cup Optional("ref", "session", "session", {"CASCADE", "NO ACTION"})
              \cup Optional("ref", "session_v2", "message", {"CASCADE"})}

-----------------------------------------------------------------------------
Publication == INSTANCE ReleasePublication
Environment == INSTANCE ManagedEnvironment WITH edits <- changes
App == INSTANCE WebApp WITH outcome <- ended

\* Contents are numbered, and None is the name of no release.
ASSUME PublicationAssumption == MaxRebuilds \in Nat /\ None \notin Publication!Layouts

\* Unset is no setting, nothing that was captured and no file.
PartNames == Environment!Components \cup {"home"}
AnyPath == [absolute : BOOLEAN, parts : Seq(PartNames)]
Settings ==
    Seq(Environment!Characters) \cup AnyPath \cup Seq(AnyPath) \cup Environment!Sockets \cup Int
LineNames == Environment!Names \cup {"SCHEMA", "OTHER"}
ASSUME EnvironmentAssumption ==
    /\ MaxLength \in Nat
    /\ Unset \notin Settings \cup [Environment!Names -> Settings \cup {Unset}]
                             \cup Seq(LineNames \X (Settings \cup {Unset}))

\* None is no launch.
ASSUME AppAssumption == MaxVersion \in Nat /\ MaxProcess \in Nat /\ None \notin 1..MaxProcess

publicationVars == <<source, sources, releases, current, publisher>>
environmentVars == <<environment, socket, places, context, file, launch, changes>>
appVars == <<files, process, pid, child, op, ended, viewer, server, built, faults, crashes>>
allVars == <<part, publicationVars, environmentVars, appVars, vars>>

\* What rests begins in one way only, and the conversation to remove is there.
StoresInit ==
    /\ part \in {"publication", "environment", "app", "deletion"}
    /\ IF part = "publication" THEN TRUE ELSE current = None /\ releases = [h \in Publication!Layouts |-> Publication!Missing]
    /\ Publication!Init
    /\ IF part = "environment" THEN TRUE
       ELSE /\ environment = [n \in Environment!Names |-> IF n = "DEVHATCH_CWD" THEN Environment!Home ELSE Unset]
            /\ socket = TRUE /\ places = TRUE
    /\ Environment!Init
    /\ App!Init
    /\ IF part = "deletion" THEN TRUE ELSE schema = PartsOnly /\ rows = {}
    /\ Init
    /\ part = "deletion" => Found(rows)

StoresNext ==
    \/ /\ part = "publication" /\ Publication!Next
       /\ UNCHANGED <<part, environmentVars, appVars, vars>>
    \/ /\ part = "environment" /\ Environment!Next
       /\ UNCHANGED <<part, publicationVars, appVars, vars>>
    \/ /\ part = "app" /\ App!Next
       /\ UNCHANGED <<part, publicationVars, environmentVars, vars>>
    \/ /\ part = "deletion" /\ Next
       /\ UNCHANGED <<part, publicationVars, environmentVars, appVars>>

StoresSpec == StoresInit /\ [][StoresNext]_allVars

-----------------------------------------------------------------------------
\* Publishing replaces one whole release by another (ReleasePublication).
PublicationIsAtomic == Publication!PublicationIsAtomic

\* The launched server has the captured settings, or refuses for what has changed
\* around it (ManagedEnvironment).
EnvironmentSurvives == Environment!EnvironmentSurvives

\* A whole version is always there, updates are decided, and what is managed
\* runs where the app is (WebApp).
WebAppIsWhole == App!WebAppIsWhole
=============================================================================
