------------------------- MODULE ReleasePublication -------------------------
(***************************************************************************)
(* How a release gets to its place (publish_release, supervisor.rs), and   *)
(* the link to it.                                                         *)
(*                                                                         *)
(* A release is the server's binary and the web distribution, in a         *)
(* directory named by the hash of the two.  A publisher is the blocking    *)
(* thread of an install: it hashes the sources, copies them to a staging   *)
(* directory, hashes the copy and moves it to its name.  Publishers may    *)
(* overlap: the thread of a dropped request goes on while the next install *)
(* runs.  The sources are rebuilt meanwhile, and anything may fail.        *)
(*                                                                         *)
(* A file is its content, a number that each rebuild raises; the hash is   *)
(* the pair of the two contents, hence free of collisions.                 *)
(***************************************************************************)
EXTENDS Integers, FiniteSets

CONSTANTS
    Publishers,
    MaxRebuilds,    \* bound on rebuilds of a source file
    None

Files == {"binary", "web"}
Layouts == [Files -> 0..MaxRebuilds]
Missing == [f \in Files |-> -1]
Damaged == [f \in Files |-> -2]    \* what somebody left of a release

VARIABLES
    source,         \* the running build
    sources,        \* history: what the build has been
    releases,       \* the release directories, by name
    current,        \* the name in the link, or None
    publisher

vars == <<source, sources, releases, current, publisher>>

IdlePublisher == [at |-> "idle", hash |-> Missing, staging |-> Missing, replace |-> FALSE]

Init ==
    /\ source = [f \in Files |-> 0] /\ sources = {source}
    /\ \E old \in {Missing, Damaged, source} :
          /\ releases = [h \in Layouts |-> IF h = source THEN old ELSE Missing]
          /\ current = IF old = source THEN source ELSE None
    /\ publisher = [p \in Publishers |-> IdlePublisher]

At(p, at) == publisher[p].at = at
Set(p, i) == publisher' = [publisher EXCEPT ![p] = i]

\* npm run build replaces a file.
Rebuild(f) ==
    /\ source[f] < MaxRebuilds
    /\ source' = [source EXCEPT ![f] = @ + 1]
    /\ sources' = sources \cup {source'}
    /\ UNCHANGED <<releases, current, publisher>>

\* hash_layout of the sources: the binary, then the distribution.
HashSource(p) ==
    /\ \/ At(p, "idle") /\ Set(p, [IdlePublisher EXCEPT !.at = "hashing", !.hash["binary"] = source["binary"]])
       \/ At(p, "hashing") /\ Set(p, [publisher[p] EXCEPT !.at = "lookup", !.hash["web"] = source["web"]])
    /\ UNCHANGED <<source, sources, releases, current>>

\* A release that is there and whole is taken, a damaged one will be replaced.
Lookup(p) ==
    LET h == publisher[p].hash
    IN  /\ At(p, "lookup")
        /\ Set(p, [publisher[p] EXCEPT !.at = IF releases[h] = h THEN "link" ELSE "copying",
                                      !.replace = releases[h] # Missing])
        /\ UNCHANGED <<source, sources, releases, current>>

Copy(p) ==
    LET i == publisher[p]
    IN  /\ At(p, "copying")
        /\ IF i.staging = Missing
           THEN Set(p, [i EXCEPT !.staging["binary"] = source["binary"]])
           ELSE Set(p, [i EXCEPT !.staging["web"] = source["web"], !.at = "copied"])
        /\ UNCHANGED <<source, sources, releases, current>>

\* The copy must have the hash, else the sources changed meanwhile.
CheckCopy(p) ==
    LET i == publisher[p]
    IN  /\ At(p, "copied")
        /\ Set(p, IF i.staging = i.hash THEN [i EXCEPT !.at = "move"] ELSE IdlePublisher)
        /\ UNCHANGED <<source, sources, releases, current>>

\* (Mutation: the damaged release is deleted before the copy is renamed.)
MoveAfterDelete(p) ==
    LET i == publisher[p]
        h == i.hash
    IN  /\ At(p, "move")
        /\ IF i.replace
           THEN releases' = [releases EXCEPT ![h] = Missing] /\ Set(p, [i EXCEPT !.replace = FALSE])
           ELSE /\ releases' = IF releases[h] = Missing THEN [releases EXCEPT ![h] = i.staging] ELSE releases
                /\ Set(p, IF releases[h] \in {Missing, h} THEN [i EXCEPT !.at = "link", !.staging = Missing]
                          ELSE IdlePublisher)
        /\ UNCHANGED <<source, sources, current>>

\* The damaged release and the copy are exchanged in one step, or the copy is
\* renamed; a rename that finds another publisher's release keeps that one if
\* it is whole.
Move(p) ==
    LET i == publisher[p]
        h == i.hash
        moved == i.replace \/ releases[h] = Missing
    IN  /\ At(p, "move")
        /\ releases' = IF moved THEN [releases EXCEPT ![h] = i.staging] ELSE releases
        /\ Set(p, IF moved \/ releases[h] = h THEN [i EXCEPT !.at = "link", !.staging = Missing]
                  ELSE IdlePublisher)
        /\ UNCHANGED <<source, sources, current>>

\* The link is switched last.
Link(p) ==
    /\ At(p, "link")
    /\ current' = publisher[p].hash
    /\ Set(p, IdlePublisher)
    /\ UNCHANGED <<source, sources, releases>>

\* Any step may fail, and the staging directory is removed; or the process ends
\* and the directory stays, which nothing reads.
Abandon(p) ==
    /\ publisher[p].at # "idle"
    /\ Set(p, IdlePublisher)
    /\ UNCHANGED <<source, sources, releases, current>>

Next ==
    \/ \E f \in Files : Rebuild(f)
    \/ \E p \in Publishers :
          HashSource(p) \/ Lookup(p) \/ Copy(p) \/ CheckCopy(p) \/ Move(p) \/ Link(p) \/ Abandon(p)

Spec == Init /\ [][Next]_vars

-----------------------------------------------------------------------------
TypeOK ==
    /\ source \in Layouts /\ sources \subseteq Layouts
    /\ releases \in [Layouts -> Layouts \cup {Missing, Damaged}]
    /\ current \in Layouts \cup {None}
    /\ publisher \in [Publishers -> [at : {"idle", "hashing", "lookup", "copying", "copied", "move", "link"},
                                     hash : [Files -> -1..MaxRebuilds],
                                     staging : [Files -> -1..MaxRebuilds],
                                     replace : BOOLEAN]]

\* The link leads to a release that is there and is what its name says,
CurrentIsWhole == current # None => releases[current] = current

\* and that was the build at one moment: never the binary of one build with
\* the web distribution of another.
CurrentIsABuild == current # None => current \in sources

CurrentIsSound == CurrentIsWhole /\ CurrentIsABuild

\* A whole release stays: the service may run from it.
WholeReleasesStay ==
    [][\A h \in Layouts : releases[h] = h => releases'[h] = h]_vars

\* So publishing replaces one whole release by another in one step
\* (publish_release).
PublicationIsAtomic == []TypeOK /\ []CurrentIsSound /\ WholeReleasesStay
=============================================================================
