--------------------------- MODULE Stores_proofs ---------------------------
(***************************************************************************)
(* What is proved of the parts of the server that keep files: the releases *)
(* (ReleasePublication), the web app (WebApp), the environment file of the *)
(* service (ManagedEnvironment) and the removal of a conversation          *)
(* (OpenCodeDeletion), as MCStores puts them together.                     *)
(***************************************************************************)
EXTENDS MCStores, FiniteSetTheorems, WellFoundedInduction, TLAPS

-----------------------------------------------------------------------------
(* Releases (ReleasePublication)                                           *)
(*                                                                         *)
(* Contents only go up.  The web distribution is hashed after the binary   *)
(* and before the binary is copied: where the copy has the binary of the   *)
(* hash, the hash was the build when the distribution was hashed.  `Sound` *)
(* says this of a publisher on its way.                                    *)

Contents == 0..MaxRebuilds
PublisherStages == {"idle", "hashing", "lookup", "copying", "copied", "move", "link"}
PublisherRecords == [at : PublisherStages, hash : [Publication!Files -> -1..MaxRebuilds],
                     staging : [Publication!Files -> -1..MaxRebuilds], replace : BOOLEAN]

Hashed(i) ==
    /\ i.hash \in Publication!Layouts /\ i.hash["binary"] <= source["binary"]
    /\ i.hash["binary"] = source["binary"] => i.hash \in sources

CopiedFrom(i) == i.staging["binary"] = i.hash["binary"] => i.hash \in sources

Sound(i) ==
    /\ i \in PublisherRecords
    /\ i.at \in {"idle", "hashing", "lookup"} => i.staging = Publication!Missing
    /\ i.at = "hashing" => i.hash["binary"] \in 0..source["binary"]
    /\ i.at \notin {"idle", "hashing"} => Hashed(i)
    /\ i.at = "copying" /\ i.staging # Publication!Missing => i.staging["binary"] \in Contents /\ CopiedFrom(i)
    /\ i.at = "copied" => i.staging \in Publication!Layouts /\ CopiedFrom(i)
    /\ i.at = "move" => i.staging = i.hash /\ i.hash \in sources
    /\ i.at = "link" => releases[i.hash] = i.hash

ReleasesOK ==
    /\ releases \in [Publication!Layouts -> Publication!Layouts \cup {Publication!Missing, Publication!Damaged}]
    /\ \A h \in Publication!Layouts :
          /\ releases[h] \in {Publication!Missing, Publication!Damaged, h}
          /\ releases[h] = h => h \in sources

PublicationInv ==
    /\ source \in Publication!Layouts /\ sources \subseteq Publication!Layouts /\ source \in sources
    /\ ReleasesOK
    /\ current # None => current \in Publication!Layouts /\ releases[current] = current
    /\ publisher = [p \in Publishers |-> publisher[p]]
    /\ \A p \in Publishers : Sound(publisher[p])

\* No release is missing and there.
LEMMA LayoutsLemma ==
    /\ Publication!Files = {"binary", "web"}
    /\ \A h \in Publication!Layouts : h # Publication!Missing /\ h # Publication!Damaged
                                      /\ h["binary"] \in Contents /\ h["web"] \in Contents
    /\ \A h \in [Publication!Files -> Contents] : h \in Publication!Layouts
    /\ Publication!Missing \in [Publication!Files -> -1..MaxRebuilds]
    /\ \A h \in Publication!Layouts : h \in [Publication!Files -> -1..MaxRebuilds]
<1>1. Publication!Files = {"binary", "web"}
  BY DEF Publication!Files
<1>2. Publication!Missing["binary"] = -1 /\ Publication!Damaged["binary"] = -2
  BY <1>1 DEF Publication!Missing, Publication!Damaged
<1>3. \A h \in Publication!Layouts : h["binary"] \in Contents /\ h["web"] \in Contents
  BY <1>1 DEF Publication!Layouts, Contents
<1>4. \A h \in Publication!Layouts : h # Publication!Missing /\ h # Publication!Damaged
  BY <1>2, <1>3, PublicationAssumption DEF Contents
<1>5. \A h \in [Publication!Files -> Contents] : h \in Publication!Layouts
  BY DEF Publication!Layouts, Contents
<1>6. Publication!Missing \in [Publication!Files -> -1..MaxRebuilds]
  <2>1. -1 \in -1..MaxRebuilds
    BY PublicationAssumption
  <2> QED
    BY <2>1 DEF Publication!Missing
<1>7. \A h \in Publication!Layouts : h \in [Publication!Files -> -1..MaxRebuilds]
  <2>1. 0..MaxRebuilds \subseteq -1..MaxRebuilds
    BY PublicationAssumption
  <2> QED
    BY <2>1 DEF Publication!Layouts
<1> QED
  BY <1>1, <1>3, <1>4, <1>5, <1>6, <1>7

LEMMA IdleIsSound == Sound(Publication!IdlePublisher)
<1>1. Publication!IdlePublisher \in PublisherRecords
  BY LayoutsLemma DEF Publication!IdlePublisher, PublisherRecords, PublisherStages
<1> QED
  BY <1>1 DEF Sound, Publication!IdlePublisher

LEMMA PublicationInitial == StoresInit => PublicationInv
<1> SUFFICES ASSUME StoresInit
             PROVE  PublicationInv
  OBVIOUS
<1>1. Publication!Init
  BY DEF StoresInit
<1>2. source = [f \in Publication!Files |-> 0] /\ sources = {source}
      /\ publisher = [p \in Publishers |-> Publication!IdlePublisher]
  BY <1>1 DEF Publication!Init
<1>3. source \in Publication!Layouts
  BY <1>2, PublicationAssumption DEF Publication!Layouts
<1>4. PICK old \in {Publication!Missing, Publication!Damaged, source} :
        /\ releases = [h \in Publication!Layouts |-> IF h = source THEN old ELSE Publication!Missing]
        /\ current = IF old = source THEN source ELSE None
  BY <1>1 DEF Publication!Init
<1>5. ReleasesOK
  BY <1>2, <1>3, <1>4, LayoutsLemma DEF ReleasesOK
<1>6. \A p \in Publishers : Sound(publisher[p])
  BY <1>2, IdleIsSound
<1> QED
  BY <1>2, <1>3, <1>4, <1>5, <1>6 DEF PublicationInv

\* Contents go up, and what was the build stays in the history.
LEMMA RebuildKeeps ==
    ASSUME PublicationInv, NEW f \in Publication!Files, Publication!Rebuild(f)
    PROVE  PublicationInv'
<1>1. /\ source[f] < MaxRebuilds /\ source' = [source EXCEPT ![f] = source[f] + 1]
      /\ sources' = sources \cup {source'} /\ UNCHANGED <<releases, current, publisher>>
  BY DEF Publication!Rebuild
<1>2. source \in Publication!Layouts /\ source["binary"] \in Contents /\ source["web"] \in Contents
      /\ f \in {"binary", "web"}
  BY LayoutsLemma DEF PublicationInv
<1>3. source' \in Publication!Layouts
  <2>1. source[f] + 1 \in 0..MaxRebuilds
    BY <1>1, <1>2, PublicationAssumption DEF Contents
  <2> QED
    BY <1>1, <1>2, <2>1 DEF Publication!Layouts
<1>4. source'["binary"] = source["binary"] \/ source'["binary"] = source["binary"] + 1
  BY <1>1, <1>2, LayoutsLemma DEF Publication!Layouts
<1>5. ReleasesOK'
  BY <1>1 DEF PublicationInv, ReleasesOK
<1>6. ASSUME NEW p \in Publishers
      PROVE  Sound(publisher[p])'
  <2>1. Sound(publisher[p])
    BY DEF PublicationInv
  <2> DEFINE i == publisher[p]
  <2>2. i' = i
    BY <1>1
  <2> HIDE DEF i
  <2>3. Sound(i)
    BY <2>1 DEF i
  <2>4. i.at \notin {"idle", "hashing"} => i.hash["binary"] \in Contents /\ Hashed(i)
    BY <2>3, LayoutsLemma DEF Sound, Hashed
  <2>5. i.at \notin {"idle", "hashing"} =>
           /\ i.hash \in Publication!Layouts /\ i.hash["binary"] <= source'["binary"]
           /\ i.hash["binary"] = source'["binary"] => i.hash \in sources'
    BY <1>1, <1>2, <1>4, <2>4 DEF Hashed, Contents
  <2>6. i.at = "hashing" => i.hash["binary"] \in 0..source'["binary"]
    BY <1>2, <1>4, <2>3 DEF Sound, Contents
  <2>7. (i.at = "copying" /\ i.staging # Publication!Missing) \/ i.at = "copied" =>
           (i.staging["binary"] = i.hash["binary"] => i.hash \in sources')
    BY <1>1, <2>3 DEF Sound, CopiedFrom
  <2>8. Sound(i)'
    BY <1>1, <2>2, <2>3, <2>5, <2>6, <2>7 DEF Sound, Hashed, CopiedFrom
  <2> QED
    BY <2>8 DEF i
<1> QED
  BY <1>1, <1>2, <1>3, <1>5, <1>6 DEF PublicationInv

\* A publisher's step.
LEMMA PublisherStep ==
    ASSUME PublicationInv, NEW p \in Publishers, NEW i, publisher' = [publisher EXCEPT ![p] = i], Sound(i),
           UNCHANGED <<source, sources, releases>>,
           current' = current \/ (current' \in Publication!Layouts /\ releases[current'] = current')
    PROVE  PublicationInv'
<1>1. publisher = [q \in Publishers |-> publisher[q]]
  BY DEF PublicationInv
<1>2. \A q \in Publishers : publisher'[q] = IF q = p THEN i ELSE publisher[q]
  BY <1>1
<1>3. publisher' = [q \in Publishers |-> publisher'[q]]
  BY <1>1
<1>4. \A q \in Publishers : Sound(publisher'[q])
  BY <1>2 DEF PublicationInv
<1>5. \A q \in Publishers : Sound(publisher[q])'
  BY <1>4 DEF Sound, Hashed, CopiedFrom
<1>6. ReleasesOK'
  BY DEF PublicationInv, ReleasesOK
<1> QED
  BY <1>3, <1>5, <1>6 DEF PublicationInv

LEMMA HashKeeps ==
    ASSUME PublicationInv, NEW p \in Publishers, Publication!HashSource(p)
    PROVE  PublicationInv'
<1> DEFINE i == publisher[p]
           idle == Publication!IdlePublisher
<1>1. UNCHANGED <<source, sources, releases, current>> /\ Sound(i) /\ source \in sources
      /\ source \in Publication!Layouts
  BY DEF PublicationInv, Publication!HashSource
<1>2. source["binary"] \in Contents /\ source["web"] \in Contents /\ Contents \subseteq -1..MaxRebuilds
  BY <1>1, LayoutsLemma, PublicationAssumption DEF Contents
<1>3. CASE Publication!At(p, "idle")
  <2> DEFINE hash == [idle.hash EXCEPT !["binary"] = source["binary"]]
             j == [idle EXCEPT !.at = "hashing", !.hash["binary"] = source["binary"]]
  <2>1. publisher' = [publisher EXCEPT ![p] = j]
    BY <1>3 DEF Publication!HashSource, Publication!At, Publication!Set
  <2>2. /\ idle \in PublisherRecords /\ idle.hash \in [Publication!Files -> -1..MaxRebuilds]
        /\ idle.staging = Publication!Missing
    BY IdleIsSound DEF Sound, PublisherRecords, Publication!IdlePublisher
  <2> HIDE DEF idle
  <2>3. hash \in [Publication!Files -> -1..MaxRebuilds] /\ hash["binary"] = source["binary"]
    BY <1>2, <2>2, LayoutsLemma
  <2>4. j = [idle EXCEPT !.at = "hashing", !.hash = hash]
    BY <2>2 DEF PublisherRecords
  <2> HIDE DEF hash
  <2>5. j \in PublisherRecords /\ j.hash = hash /\ j.at = "hashing" /\ j.staging = idle.staging
    BY <2>2, <2>3, <2>4 DEF PublisherRecords, PublisherStages
  <2> HIDE DEF j
  <2>6. Sound(j)
    BY <1>2, <2>2, <2>3, <2>5 DEF Sound, Contents
  <2> QED
    BY <1>1, <2>1, <2>6, PublisherStep
<1>4. CASE Publication!At(p, "hashing")
  <2> DEFINE hash == [i.hash EXCEPT !["web"] = source["web"]]
             j == [i EXCEPT !.at = "lookup", !.hash["web"] = source["web"]]
  <2>1. publisher' = [publisher EXCEPT ![p] = j] /\ i.at = "hashing"
    BY <1>4 DEF Publication!HashSource, Publication!At, Publication!Set
  <2>2. /\ i \in PublisherRecords /\ i.hash \in [Publication!Files -> -1..MaxRebuilds]
        /\ i.hash["binary"] \in 0..source["binary"] /\ i.staging = Publication!Missing
    BY <1>1, <2>1 DEF Sound, PublisherRecords
  <2>3. /\ hash \in [Publication!Files -> -1..MaxRebuilds] /\ hash["binary"] = i.hash["binary"]
        /\ hash["web"] = source["web"]
    BY <1>2, <2>2, LayoutsLemma
  <2>4. j = [i EXCEPT !.at = "lookup", !.hash = hash]
    BY <2>2 DEF PublisherRecords
  <2> HIDE DEF hash
  <2>5. hash["binary"] \in Contents /\ hash["binary"] <= source["binary"]
    BY <1>2, <2>2, <2>3, PublicationAssumption DEF Contents
  <2>6. \A f \in Publication!Files : hash[f] \in Contents
    BY <1>2, <2>3, <2>5, LayoutsLemma
  <2>7. hash \in Publication!Layouts
    BY <2>3, <2>6, LayoutsLemma
  <2>8. hash["binary"] = source["binary"] => hash = source
    <3> SUFFICES ASSUME hash["binary"] = source["binary"]
                 PROVE  hash = source
      OBVIOUS
    <3>1. \A f \in Publication!Files : hash[f] = source[f]
      BY <2>3, LayoutsLemma
    <3> QED
      BY <1>1, <2>7, <3>1 DEF Publication!Layouts
  <2>9. j \in PublisherRecords /\ j.hash = hash /\ j.at = "lookup" /\ j.staging = i.staging
    BY <2>2, <2>3, <2>4 DEF PublisherRecords, PublisherStages
  <2> HIDE DEF j
  <2>10. Sound(j)
    BY <1>1, <2>2, <2>5, <2>7, <2>8, <2>9 DEF Sound, Hashed
  <2> QED
    BY <1>1, <2>1, <2>10, PublisherStep
<1> QED
  BY <1>3, <1>4 DEF Publication!HashSource, Publication!At

LEMMA LookupKeeps ==
    ASSUME PublicationInv, NEW p \in Publishers, Publication!Lookup(p)
    PROVE  PublicationInv'
<1> DEFINE i == publisher[p]
           at == IF releases[i.hash] = i.hash THEN "link" ELSE "copying"
           replace == releases[i.hash] # Publication!Missing
           j == [i EXCEPT !.at = at, !.replace = replace]
<1>1. /\ UNCHANGED <<source, sources, releases, current>> /\ Sound(i) /\ i.at = "lookup"
      /\ publisher' = [publisher EXCEPT ![p] = j]
  BY DEF PublicationInv, Publication!Lookup, Publication!At, Publication!Set
<1>2. i \in PublisherRecords /\ i.staging = Publication!Missing /\ Hashed(i)
  BY <1>1 DEF Sound
<1>3. replace \in BOOLEAN /\ at \in {"link", "copying"} /\ (at = "link" => releases[i.hash] = i.hash)
  OBVIOUS
<1> HIDE DEF at, replace
<1>4. j \in PublisherRecords /\ j.at = at /\ j.hash = i.hash /\ j.staging = i.staging
  BY <1>2, <1>3 DEF PublisherRecords, PublisherStages
<1> HIDE DEF j
<1>5. Hashed(j)
  BY <1>2, <1>4 DEF Hashed
<1>6. Sound(j)
  BY <1>2, <1>3, <1>4, <1>5 DEF Sound
<1> QED
  BY <1>1, <1>6, PublisherStep

LEMMA CopyKeeps ==
    ASSUME PublicationInv, NEW p \in Publishers, Publication!Copy(p)
    PROVE  PublicationInv'
<1> DEFINE i == publisher[p]
<1>1. /\ UNCHANGED <<source, sources, releases, current>> /\ Sound(i) /\ i.at = "copying"
      /\ source \in Publication!Layouts
  BY DEF PublicationInv, Publication!Copy, Publication!At
<1>2. /\ i \in PublisherRecords /\ Hashed(i) /\ i.staging \in [Publication!Files -> -1..MaxRebuilds]
      /\ source["binary"] \in Contents /\ source["web"] \in Contents /\ Contents \subseteq -1..MaxRebuilds
  BY <1>1, LayoutsLemma, PublicationAssumption DEF Sound, PublisherRecords, Contents
<1>3. CASE i.staging = Publication!Missing
  <2> DEFINE staging == [i.staging EXCEPT !["binary"] = source["binary"]]
             j == [i EXCEPT !.staging["binary"] = source["binary"]]
  <2>1. publisher' = [publisher EXCEPT ![p] = j]
    BY <1>3 DEF Publication!Copy, Publication!Set
  <2>2. staging \in [Publication!Files -> -1..MaxRebuilds] /\ staging["binary"] = source["binary"]
    BY <1>2, LayoutsLemma
  <2>3. j = [i EXCEPT !.staging = staging]
    BY <1>2 DEF PublisherRecords
  <2> HIDE DEF staging
  <2>4. j \in PublisherRecords /\ j.hash = i.hash /\ j.at = i.at /\ j.staging = staging
    BY <1>2, <2>2, <2>3 DEF PublisherRecords
  <2> HIDE DEF j
  <2>5. CopiedFrom(j) /\ Hashed(j) /\ j.staging["binary"] \in Contents
    BY <1>2, <2>2, <2>4 DEF CopiedFrom, Hashed
  <2>6. Sound(j)
    BY <1>1, <2>4, <2>5 DEF Sound
  <2> QED
    BY <1>1, <2>1, <2>6, PublisherStep
<1>4. CASE i.staging # Publication!Missing
  <2> DEFINE staging == [i.staging EXCEPT !["web"] = source["web"]]
             j == [i EXCEPT !.staging["web"] = source["web"], !.at = "copied"]
  <2>1. publisher' = [publisher EXCEPT ![p] = j]
    BY <1>4 DEF Publication!Copy, Publication!Set
  <2>2. i.staging["binary"] \in Contents /\ CopiedFrom(i)
    BY <1>1, <1>4 DEF Sound
  <2>3. staging \in [Publication!Files -> -1..MaxRebuilds] /\ staging["binary"] = i.staging["binary"]
        /\ staging["web"] = source["web"]
    BY <1>2, LayoutsLemma
  <2>4. j = [i EXCEPT !.staging = staging, !.at = "copied"]
    BY <1>2 DEF PublisherRecords
  <2> HIDE DEF staging
  <2>5. \A f \in Publication!Files : staging[f] \in Contents
    BY <1>2, <2>2, <2>3, LayoutsLemma
  <2>6. staging \in Publication!Layouts
    BY <2>3, <2>5, LayoutsLemma
  <2>7. j \in PublisherRecords /\ j.hash = i.hash /\ j.at = "copied" /\ j.staging = staging
    BY <1>2, <2>3, <2>4 DEF PublisherRecords, PublisherStages
  <2> HIDE DEF j
  <2>8. CopiedFrom(j) /\ Hashed(j)
    BY <1>2, <2>2, <2>3, <2>7 DEF CopiedFrom, Hashed
  <2>9. Sound(j)
    BY <2>6, <2>7, <2>8 DEF Sound
  <2> QED
    BY <1>1, <2>1, <2>9, PublisherStep
<1> QED
  BY <1>3, <1>4

LEMMA CheckKeeps ==
    ASSUME PublicationInv, NEW p \in Publishers, Publication!CheckCopy(p)
    PROVE  PublicationInv'
<1> DEFINE i == publisher[p]
           j == [i EXCEPT !.at = "move"]
<1>1. /\ UNCHANGED <<source, sources, releases, current>> /\ Sound(i) /\ i.at = "copied"
      /\ publisher' = [publisher EXCEPT ![p] = IF i.staging = i.hash THEN j ELSE Publication!IdlePublisher]
  BY DEF PublicationInv, Publication!CheckCopy, Publication!At, Publication!Set
<1>2. CASE i.staging = i.hash
  <2>1. i \in PublisherRecords /\ Hashed(i) /\ i.hash \in sources
    BY <1>1, <1>2 DEF Sound, CopiedFrom
  <2>2. j \in PublisherRecords /\ j.at = "move" /\ j.hash = i.hash /\ j.staging = i.staging
    BY <2>1 DEF PublisherRecords, PublisherStages
  <2> HIDE DEF j
  <2>3. Sound(j)
    BY <1>2, <2>1, <2>2 DEF Sound, Hashed
  <2>4. publisher' = [publisher EXCEPT ![p] = j]
    BY <1>1, <1>2
  <2> QED
    BY <1>1, <2>3, <2>4, PublisherStep
<1>3. CASE i.staging # i.hash
  <2>1. publisher' = [publisher EXCEPT ![p] = Publication!IdlePublisher]
    BY <1>1, <1>3
  <2> QED
    BY <1>1, <2>1, IdleIsSound, PublisherStep
<1> QED
  BY <1>2, <1>3

\* A release is exchanged for, or renamed from, a copy that is what its name says.
LEMMA MoveKeeps ==
    ASSUME PublicationInv, NEW p \in Publishers, Publication!Move(p)
    PROVE  PublicationInv' /\ \A h \in Publication!Layouts : releases[h] = h => releases'[h] = h
<1> DEFINE i == publisher[p]
           h == i.hash
           moved == i.replace \/ releases[h] = Publication!Missing
           j == [i EXCEPT !.at = "link", !.staging = Publication!Missing]
<1>1. /\ UNCHANGED <<source, sources, current>> /\ Sound(i) /\ i.at = "move"
      /\ releases' = IF moved THEN [releases EXCEPT ![h] = i.staging] ELSE releases
      /\ publisher' = [publisher EXCEPT ![p] = IF moved \/ releases[h] = h THEN j ELSE Publication!IdlePublisher]
  BY DEF PublicationInv, Publication!Move, Publication!At, Publication!Set
<1>2. i \in PublisherRecords /\ Hashed(i) /\ i.staging = h /\ h \in sources /\ h \in Publication!Layouts
  BY <1>1 DEF Sound, Hashed
<1> HIDE DEF moved
<1>3. \A k \in Publication!Layouts : releases'[k] = IF moved /\ k = h THEN h ELSE releases[k]
  BY <1>1, <1>2 DEF PublicationInv, ReleasesOK
<1>4. ReleasesOK'
  <2>1. releases' \in [Publication!Layouts -> Publication!Layouts \cup {Publication!Missing, Publication!Damaged}]
    BY <1>1, <1>2 DEF PublicationInv, ReleasesOK
  <2>2. \A k \in Publication!Layouts : /\ releases'[k] \in {Publication!Missing, Publication!Damaged, k}
                                       /\ releases'[k] = k => k \in sources'
    BY <1>1, <1>2, <1>3 DEF PublicationInv, ReleasesOK
  <2> QED
    BY <2>1, <2>2 DEF ReleasesOK
<1>5. \A k \in Publication!Layouts : releases[k] = k => releases'[k] = k
  BY <1>3
<1>6. current # None => current \in Publication!Layouts /\ releases'[current] = current
  BY <1>5 DEF PublicationInv
<1>7. ASSUME NEW k, Sound(k)
      PROVE  Sound(k)'
  <2>1. k.at = "link" => releases'[k.hash] = k.hash
    BY <1>5, <1>7 DEF Sound, Hashed
  <2> QED
    BY <1>1, <1>7, <2>1 DEF Sound, Hashed, CopiedFrom
<1>8. ASSUME NEW q \in Publishers
      PROVE  \E k : publisher'[q] = k /\ Sound(k)'
  <2>1. publisher = [r \in Publishers |-> publisher[r]] /\ Sound(publisher[q])
    BY DEF PublicationInv
  <2>2. CASE q # p
    <3>1. publisher'[q] = publisher[q]
      BY <1>1, <2>1, <2>2
    <3>2. \A k : k = publisher[q] => Sound(k)'
      BY <1>7, <2>1
    <3> QED
      BY <3>1, <3>2
  <2>3. CASE q = p /\ (moved \/ releases[h] = h)
    <3>1. publisher'[q] = j
      BY <1>1, <2>1, <2>3
    <3>2. j \in PublisherRecords /\ j.at = "link" /\ j.hash = h /\ j.staging = Publication!Missing
      BY <1>2, LayoutsLemma DEF PublisherRecords, PublisherStages
    <3> HIDE DEF j
    <3>3. releases'[h] = h /\ Hashed(j)
      BY <1>2, <1>3, <2>3, <3>2 DEF Hashed
    <3>4. \A k : k = j => Sound(k)'
      BY <1>1, <3>2, <3>3 DEF Sound, Hashed
    <3> QED
      BY <3>1, <3>4
  <2>4. CASE q = p /\ ~(moved \/ releases[h] = h)
    <3>1. publisher'[q] = Publication!IdlePublisher
      BY <1>1, <2>1, <2>4
    <3>2. \A k : k = Publication!IdlePublisher => Sound(k)'
      BY <1>7, IdleIsSound
    <3> QED
      BY <3>1, <3>2
  <2> QED
    BY <2>2, <2>3, <2>4
<1>9. publisher' = [q \in Publishers |-> publisher'[q]]
  BY <1>1 DEF PublicationInv
<1>10. \A q \in Publishers : Sound(publisher[q])'
  BY <1>8 DEF Sound, Hashed, CopiedFrom
<1> QED
  BY <1>1, <1>4, <1>5, <1>6, <1>9, <1>10 DEF PublicationInv

LEMMA EndKeeps ==
    ASSUME PublicationInv, NEW p \in Publishers, Publication!Link(p) \/ Publication!Abandon(p)
    PROVE  PublicationInv'
<1>1. /\ UNCHANGED <<source, sources, releases>>
      /\ publisher' = [publisher EXCEPT ![p] = Publication!IdlePublisher]
      /\ current' = current \/ (publisher[p].at = "link" /\ current' = publisher[p].hash)
  BY DEF Publication!Link, Publication!Abandon, Publication!At, Publication!Set
<1>2. Sound(publisher[p])
  BY DEF PublicationInv
<1>3. current' = current \/ (current' \in Publication!Layouts /\ releases[current'] = current')
  BY <1>1, <1>2 DEF Sound, Hashed
<1> QED
  BY <1>1, <1>3, IdleIsSound, PublisherStep

LEMMA PublicationStep ==
    ASSUME PublicationInv, [StoresNext]_allVars
    PROVE  PublicationInv' /\ \A h \in Publication!Layouts : releases[h] = h => releases'[h] = h
<1>1. CASE Publication!Next
  <2>1. ASSUME NEW f \in Publication!Files, Publication!Rebuild(f)
        PROVE  PublicationInv' /\ releases' = releases
    BY <2>1, RebuildKeeps DEF Publication!Rebuild
  <2>2. ASSUME NEW p \in Publishers, Publication!HashSource(p) \/ Publication!Lookup(p) \/ Publication!Copy(p)
               \/ Publication!CheckCopy(p) \/ Publication!Link(p) \/ Publication!Abandon(p)
        PROVE  PublicationInv' /\ releases' = releases
    BY <2>2, HashKeeps, LookupKeeps, CopyKeeps, CheckKeeps, EndKeeps DEF Publication!HashSource,
       Publication!Lookup, Publication!Copy, Publication!CheckCopy, Publication!Link, Publication!Abandon
  <2> QED
    BY <1>1, <2>1, <2>2, MoveKeeps DEF Publication!Next
<1>2. CASE UNCHANGED publicationVars
  <2>1. UNCHANGED <<source, sources, releases, current, publisher>>
    BY <1>2 DEF publicationVars
  <2>2. \A p \in Publishers : Sound(publisher[p])'
    BY <2>1 DEF PublicationInv, Sound, Hashed, CopiedFrom
  <2> QED
    BY <2>1, <2>2 DEF PublicationInv, ReleasesOK
<1> QED
  BY <1>1, <1>2 DEF StoresNext, allVars

\* What a publisher moves to its name was the build, and what the link leads to
\* is there and whole (publish_release).
THEOREM PublicationInductive == StoresSpec => []PublicationInv
<1>1. PublicationInv /\ [StoresNext]_allVars => PublicationInv'
  BY PublicationStep
<1> QED
  BY <1>1, PublicationInitial, PTL DEF StoresSpec

\* Publishing replaces one whole release, which was the build at one moment, by
\* another in one step, and whole releases stay, however publishers and rebuilds
\* interleave (publish_release, supervisor.rs).
THEOREM ReleasesAreAtomic == StoresSpec => PublicationIsAtomic
<1>1. PublicationInv => Publication!TypeOK /\ Publication!CurrentIsSound
  <2> SUFFICES ASSUME PublicationInv
               PROVE  Publication!TypeOK /\ Publication!CurrentIsSound
    OBVIOUS
  <2>1. \A p \in Publishers : publisher[p] \in PublisherRecords
    BY DEF PublicationInv, Sound
  <2>2. publisher \in [Publishers -> PublisherRecords]
    BY <2>1 DEF PublicationInv
  <2>3. Publication!TypeOK
    BY <2>2 DEF PublicationInv, ReleasesOK, Publication!TypeOK, PublisherRecords, PublisherStages
  <2> QED
    BY <2>3 DEF PublicationInv, ReleasesOK, Publication!CurrentIsSound, Publication!CurrentIsWhole,
       Publication!CurrentIsABuild
<1>2. PublicationInv /\ [StoresNext]_allVars =>
        [\A h \in Publication!Layouts : releases[h] = h => releases'[h] = h]_publicationVars
  BY PublicationStep
<1>3. StoresSpec => [](Publication!TypeOK /\ Publication!CurrentIsSound)
  BY <1>1, PublicationInductive, PTL
<1>4. Publication!vars = publicationVars
  BY DEF Publication!vars, publicationVars
<1>5. StoresSpec => [][\A h \in Publication!Layouts : releases[h] = h => releases'[h] = h]_publicationVars
  BY <1>2, PublicationInductive, PTL DEF StoresSpec
<1>6. StoresSpec => Publication!WholeReleasesStay
  BY <1>5 DEF Publication!WholeReleasesStay, Publication!vars, publicationVars
<1>7. StoresSpec => []Publication!TypeOK /\ []Publication!CurrentIsSound
  BY <1>3, PTL
<1> QED
  BY <1>6, <1>7 DEF PublicationIsAtomic, Publication!PublicationIsAtomic


-----------------------------------------------------------------------------
(* The web app (WebApp)                                                    *)
(*                                                                         *)
(* Where an operation is says what the directories are: the app and no     *)
(* backup before the exchange, a newer app over the old one after it, and  *)
(* nothing managed runs while directories move.                            *)

Places == {"idle", "recover", "rollback", "rolled", "restore", "restored", "body", "fetch", "stop", "await",
           "launch", "ready", "failed", "stage", "build", "publish", "exchange", "finalize"}
Directories == [app : Nat, backup : Nat, staging : Nat, stale : Nat, discard : Nat]
Processes == [state : {"unused", "alive", "zombie", "gone"}, dir : Nat]
Operations == [kind : App!Kinds \cup {"none", "shutdown"}, at : Places,
               then : {"end", "rollback", "stage", "restore", "failed"}, next : {"end", "new", "giveup"},
               targets : SUBSET (1..MaxProcess), was : BOOLEAN, before : Nat]

DirectoriesOK ==
    /\ files \in Directories /\ built \in Nat
    /\ files.app <= built /\ files.backup <= built /\ files.stale <= built /\ files.staging <= built

\* What is managed runs where the app is.
StateOK ==
    /\ DirectoriesOK /\ process \in [1..MaxProcess -> Processes]
    /\ pid \in 1..MaxProcess \cup {None} /\ child \in 1..MaxProcess \cup {None}
    /\ App!Alive(pid) => process[pid].dir = files.app
    /\ App!Alive(child) => process[child].dir = files.app

Quiet == ~App!Alive(pid) /\ ~App!Alive(child)

\* The old version is the app, and no other is there.
OldIsTheApp == files.backup = 0 /\ files.app = op.before

NewOverOld == files.app > op.before /\ files.backup = op.before

\* An operation that launches has the old version still, a new one over it when
\* it may go back.
Launching ==
    IF op.next = "new" THEN op.before > 0 /\ NewOverOld
    ELSE op.before > 0 => op.before \in {files.app, files.backup}

Fresh == op.before = 0 /\ op.next = "end"

AtPlace ==
    /\ op.at = "idle" => op = App!Idle
    /\ op.at = "recover" => Fresh
    /\ op.at \in {"rollback", "rolled"} => Fresh /\ files.backup > 0 /\ Quiet
    /\ op.at = "body" => Fresh /\ files.backup = 0
    /\ op.at = "fetch" => op.before = 0
    /\ op.at \in {"restore", "restored"} => op.before > 0 /\ files.backup = op.before /\ Quiet
    /\ op.at \in {"stage", "build", "publish"} => OldIsTheApp /\ Quiet
    /\ op.at \in {"publish", "exchange"} => files.staging > op.before
    /\ op.at = "exchange" => files.backup = op.before /\ Quiet
    /\ op.at \in {"rolled", "restored", "exchange"} => files.app = 0
    /\ op.at = "finalize" => NewOverOld
    /\ op.at \in {"launch", "ready", "failed"} => Launching

AtStop ==
    op.at \in {"stop", "await"} =>
        /\ op.then = "end" => op.before = 0
        /\ op.then = "rollback" => Fresh /\ files.backup > 0
        /\ op.then = "stage" => OldIsTheApp
        /\ op.then = "failed" => Launching
        /\ op.then = "restore" => op.before > 0 /\ files.backup = op.before

Held == op.at = "await" => child = None \/ child \in op.targets

Decided ==
    op.at = "idle" /\ ended.kind = "update" /\ ended.before > 0 =>
        IF ended.result = "ok" THEN files.app > ended.before /\ files.backup = 0
        ELSE ended.before \in {files.app, files.backup}

AppInv ==
    /\ StateOK /\ op \in Operations /\ AtPlace /\ AtStop /\ Held /\ Decided
    /\ op.was => op.before > 0

\* No action but a launch makes a process alive, or manages another.
Calmer ==
    /\ process' \in [1..MaxProcess -> Processes]
    /\ \A p \in 1..MaxProcess :
          process'[p].state = "alive" => process[p].state = "alive" /\ process'[p].dir = process[p].dir
    /\ pid' \in {pid, None} /\ child' \in {child, None}

VersionStays == files.app + files.backup > 0 => files'.app + files'.backup > 0

LEMMA GoneLemma ==
    ASSUME process \in [1..MaxProcess -> Processes], NEW ps
    PROVE  /\ App!Gone(ps) \in [1..MaxProcess -> Processes]
           /\ \A p \in 1..MaxProcess :
                 App!Gone(ps)[p].state = "alive" =>
                    p \notin ps /\ process[p].state = "alive" /\ App!Gone(ps)[p].dir = process[p].dir
<1>1. \A p \in 1..MaxProcess : App!Gone(ps)[p] = IF p \in ps THEN [process[p] EXCEPT !.state = "gone"] ELSE process[p]
  BY DEF App!Gone
<1>2. \A i \in Processes : [i EXCEPT !.state = "gone"] \in Processes /\ [i EXCEPT !.state = "gone"].state = "gone"
  BY DEF Processes
<1>3. \A p \in 1..MaxProcess : App!Gone(ps)[p] \in Processes
  BY <1>1, <1>2
<1>4. App!Gone(ps) \in [1..MaxProcess -> Processes]
  BY <1>1, <1>3 DEF App!Gone
<1> QED
  BY <1>1, <1>2, <1>4

\* Nothing managed moves while the app stays, and nothing is managed where it moves.
LEMMA StateKeeps ==
    ASSUME AppInv, Calmer, DirectoriesOK', files'.app = files.app \/ Quiet
    PROVE  StateOK' /\ (Quiet => Quiet')
<1>1. pid' \in 1..MaxProcess \cup {None} /\ child' \in 1..MaxProcess \cup {None}
  BY DEF AppInv, StateOK, Calmer
<1>2. App!Alive(pid)' => App!Alive(pid) /\ process'[pid'].dir = process[pid].dir /\ pid' = pid
  BY <1>1, AppAssumption DEF Calmer, App!Alive
<1>3. App!Alive(child)' => App!Alive(child) /\ process'[child'].dir = process[child].dir /\ child' = child
  BY <1>1, AppAssumption DEF Calmer, App!Alive
<1> QED
  BY <1>1, <1>2, <1>3 DEF AppInv, StateOK, Calmer, Quiet

LEMMA RestIsCalm ==
    ASSUME AppInv, UNCHANGED <<process, pid, child>>
    PROVE  Calmer
BY DEF AppInv, StateOK, Calmer

\* Wherever an update is, the old version is the app or its backup.
LEMMA OldIsThere ==
    ASSUME AppInv, op.at # "idle", op.before > 0
    PROVE  op.before \in {files.app, files.backup}
<1>1. op.at \in Places /\ op.then \in {"end", "rollback", "stage", "restore", "failed"} /\ op.before \in Nat
  BY DEF AppInv, Operations
<1>2. CASE op.at \in {"stop", "await"}
  BY <1>1, <1>2 DEF AppInv, AtStop, Fresh, OldIsTheApp, Launching, NewOverOld
<1>3. CASE op.at \notin {"stop", "await"}
  BY <1>1, <1>3 DEF AppInv, AtPlace, Fresh, OldIsTheApp, Launching, NewOverOld, Places
<1> QED
  BY <1>2, <1>3

LEMMA IdleLemma ==
    /\ App!Idle \in Operations /\ App!Idle.at = "idle" /\ App!Idle.before = 0 /\ ~App!Idle.was
    /\ App!Idle.next = "end"
BY DEF App!Idle, Operations, Places, App!Kinds

\* An operation ends with its update decided.
LEMMA EndsDecided ==
    ASSUME AppInv, StateOK', NEW result, App!End(op, result),
           op.kind = "update" /\ op.before > 0 =>
              IF result = "ok" THEN files'.app > op.before /\ files'.backup = 0
              ELSE op.before \in {files'.app, files'.backup}
    PROVE  AppInv'
<1>1. op' = App!Idle /\ ended' = [kind |-> op.kind, result |-> result, before |-> op.before]
  BY DEF App!End
<1>2. AtPlace' /\ AtStop' /\ Held' /\ op' \in Operations /\ ~op'.was
  BY <1>1, IdleLemma DEF AtPlace, AtStop, Held, Operations
<1>3. Decided'
  BY <1>1 DEF Decided
<1> QED
  BY <1>2, <1>3 DEF AppInv

\* One that fails where nothing moved leaves the old version where it was.
LEMMA FailsDecided ==
    ASSUME AppInv, StateOK', op.at # "idle", files' = files, NEW result, result # "ok", App!End(op, result)
    PROVE  AppInv'
BY OldIsThere, EndsDecided

LEMMA GoesOn ==
    ASSUME StateOK', op' \in Operations, op'.at # "idle", op'.was => op'.before > 0, AtPlace', AtStop', Held'
    PROVE  AppInv'
BY DEF AppInv, Decided

LEMMA GotoLemma ==
    ASSUME op \in Operations, NEW at \in Places, App!Goto(op, at)
    PROVE  /\ op' \in Operations /\ op'.at = at /\ op'.kind = op.kind /\ op'.then = op.then
           /\ op'.next = op.next /\ op'.targets = op.targets /\ op'.was = op.was /\ op'.before = op.before
BY DEF App!Goto, Operations

LEMMA StopLemma ==
    ASSUME op \in Operations, NEW then \in {"end", "rollback", "stage", "restore", "failed"},
           op' = [op EXCEPT !.at = "stop", !.then = then]
    PROVE  /\ op' \in Operations /\ op'.at = "stop" /\ op'.kind = op.kind /\ op'.then = then
           /\ op'.next = op.next /\ op'.was = op.was /\ op'.before = op.before
BY DEF Operations, Places

LEMMA LaunchLemma ==
    ASSUME op \in Operations, NEW next \in {"end", "new", "giveup"},
           op' = [op EXCEPT !.at = "launch", !.next = next]
    PROVE  /\ op' \in Operations /\ op'.at = "launch" /\ op'.kind = op.kind
           /\ op'.next = next /\ op'.was = op.was /\ op'.before = op.before
BY DEF Operations, Places

LEMMA AppInitial == StoresInit => AppInv
<1> SUFFICES ASSUME StoresInit
             PROVE  AppInv
  OBVIOUS
<1>1. App!Init
  BY DEF StoresInit
<1>2. /\ files = [app |-> 0, backup |-> 0, staging |-> 0, stale |-> 0, discard |-> 0] /\ built = 0
      /\ pid = None /\ child = None /\ op = App!Idle /\ ended = App!NoOutcome
      /\ process = [p \in 1..MaxProcess |-> [state |-> "unused", dir |-> 0]]
  BY <1>1 DEF App!Init
<1>3. StateOK
  BY <1>2 DEF StateOK, DirectoriesOK, Directories, Processes, App!Alive
<1>4. AtPlace /\ AtStop /\ Held
  BY <1>2, IdleLemma DEF AtPlace, AtStop, Held
<1>5. Decided
  BY <1>2 DEF Decided, App!NoOutcome
<1> QED
  BY <1>2, <1>3, <1>4, <1>5, IdleLemma DEF AppInv

LEMMA BeginKeeps ==
    ASSUME AppInv, NEW kind \in App!Kinds, App!Begin(kind)
    PROVE  AppInv' /\ VersionStays
<1>1. /\ UNCHANGED <<files, process, pid, child, built>>
      /\ op' = [App!Idle EXCEPT !.kind = kind, !.at = "recover"]
  BY DEF App!Begin
<1>2. StateOK'
  BY <1>1, RestIsCalm, StateKeeps DEF AppInv, StateOK, DirectoriesOK
<1>3. op' \in Operations /\ op'.at = "recover" /\ op'.before = 0 /\ op'.next = "end" /\ ~op'.was
  BY <1>1 DEF App!Idle, Operations, Places
<1>4. AtPlace' /\ AtStop' /\ Held'
  BY <1>3 DEF AtPlace, AtStop, Held, Fresh
<1> QED
  BY <1>1, <1>2, <1>3, <1>4, GoesOn DEF VersionStays

\* Without a record that is true of a process, and with none held, nothing runs.
LEMMA RecordLemma ==
    ASSUME AppInv
    PROVE  App!Alive(pid) => App!PidRecord = "valid"
BY DEF AppInv, StateOK, App!PidRecord, App!Alive

LEMMA RecoverKeeps ==
    ASSUME AppInv, App!Recover
    PROVE  AppInv' /\ VersionStays
<1>1. /\ op.at = "recover" /\ UNCHANGED <<process, child, built>> /\ pid' \in {pid, None}
      /\ files' = [files EXCEPT !.discard = 0, !.staging = IF files.backup = 0 THEN 0 ELSE @]
  BY DEF App!Recover
<1>2. op \in Operations /\ op.before = 0 /\ op.next = "end" /\ ~op.was /\ Fresh
  BY <1>1 DEF AppInv, AtPlace, Fresh, Operations
<1>3. DirectoriesOK' /\ files'.app = files.app /\ files'.backup = files.backup
  BY <1>1 DEF AppInv, StateOK, DirectoriesOK, Directories
<1>4. Calmer
  BY <1>1 DEF AppInv, StateOK, Calmer
<1>5. StateOK'
  BY <1>3, <1>4, StateKeeps
<1>6. VersionStays
  BY <1>3 DEF VersionStays
<1>7. CASE App!Goto(op, "body") /\ files.backup = 0
  <2>1. op' \in Operations /\ op'.at = "body" /\ op'.before = 0 /\ op'.next = "end" /\ ~op'.was
    BY <1>2, <1>7, GotoLemma DEF Places
  <2>2. AtPlace' /\ AtStop' /\ Held'
    BY <1>3, <1>7, <2>1 DEF AtPlace, AtStop, Held, Fresh
  <2> QED
    BY <1>5, <1>6, <2>1, <2>2, GoesOn
<1>8. CASE App!End(op, "invalid")
  BY <1>2, <1>5, <1>6, <1>8, EndsDecided
<1>9. CASE files.backup # 0 /\ op' = [op EXCEPT !.at = "stop", !.then = "rollback"]
  <2>1. /\ op' \in Operations /\ op'.at = "stop" /\ op'.then = "rollback"
        /\ op'.before = 0 /\ op'.next = "end" /\ ~op'.was
    BY <1>2, <1>9, StopLemma
  <2>2. files'.backup > 0
    BY <1>3, <1>9 DEF DirectoriesOK, Directories
  <2>3. AtPlace' /\ AtStop' /\ Held'
    BY <2>1, <2>2 DEF AtPlace, AtStop, Held, Fresh
  <2> QED
    BY <1>5, <1>6, <2>1, <2>3, GoesOn
<1>10. CASE files.backup # 0 /\ App!Goto(op, "rollback") /\ pid' = None /\ child = None
  <2>1. op' \in Operations /\ op'.at = "rollback" /\ op'.before = 0 /\ op'.next = "end" /\ ~op'.was
    BY <1>2, <1>10, GotoLemma DEF Places
  <2>2. files'.backup > 0
    BY <1>3, <1>10 DEF DirectoriesOK, Directories
  <2>3. Quiet'
    BY <1>1, <1>10 DEF Quiet, App!Alive
  <2>4. AtPlace' /\ AtStop' /\ Held'
    BY <2>1, <2>2, <2>3 DEF AtPlace, AtStop, Held, Fresh
  <2> QED
    BY <1>5, <1>6, <2>1, <2>4, GoesOn
<1> QED
  BY <1>7, <1>8, <1>9, <1>10 DEF App!Recover

\* The app is put aside only where a backup can take its place.
LEMMA PutAsideKeeps ==
    ASSUME AppInv, App!PutAside
    PROVE  AppInv' /\ VersionStays
<1>1. /\ op.at \in {"rollback", "restore"} /\ UNCHANGED <<process, pid, child, built>>
      /\ files' = [files EXCEPT !.stale = files.app, !.app = 0]
      /\ App!Goto(op, IF op.at = "rollback" THEN "rolled" ELSE "restored")
  BY DEF App!PutAside
<1>2. /\ op \in Operations /\ Quiet /\ files.backup > 0 /\ (op.was => op.before > 0)
      /\ op.at = "rollback" => Fresh
      /\ op.at = "restore" => op.before > 0 /\ files.backup = op.before
  BY <1>1 DEF AppInv, AtPlace, Operations
<1>3. DirectoriesOK' /\ files'.app = 0 /\ files'.backup = files.backup
  <2>1. files \in Directories
    BY DEF AppInv, StateOK, DirectoriesOK
  <2>2. /\ files' \in Directories /\ files'.app = 0 /\ files'.backup = files.backup
        /\ files'.staging = files.staging /\ files'.stale = files.app
    BY <1>1, <2>1 DEF Directories
  <2> QED
    BY <1>1, <2>2 DEF AppInv, StateOK, DirectoriesOK
<1>4. StateOK' /\ Quiet'
  BY <1>1, <1>2, <1>3, RestIsCalm, StateKeeps
<1>5. /\ op' \in Operations /\ op'.at = (IF op.at = "rollback" THEN "rolled" ELSE "restored")
      /\ op'.before = op.before /\ op'.next = op.next /\ op'.was = op.was
  BY <1>1, <1>2, GotoLemma DEF Places
<1>6. AtPlace' /\ AtStop' /\ Held'
  BY <1>1, <1>2, <1>3, <1>4, <1>5 DEF AtPlace, AtStop, Held, Fresh
<1>7. VersionStays
  BY <1>2, <1>3 DEF VersionStays, DirectoriesOK, Directories
<1> QED
  BY <1>1, <1>2, <1>4, <1>5, <1>6, <1>7, GoesOn

LEMMA RestoreKeeps ==
    ASSUME AppInv, App!Restore
    PROVE  AppInv' /\ VersionStays
<1>1. op.at \in {"rolled", "restored"} /\ UNCHANGED <<process, pid, child, built>>
  BY DEF App!Restore
<1>2. /\ op \in Operations /\ Quiet /\ files.backup > 0 /\ files.app = 0 /\ (op.was => op.before > 0)
      /\ op.at = "rolled" => Fresh
      /\ op.at = "restored" => op.before > 0 /\ files.backup = op.before
  BY <1>1 DEF AppInv, AtPlace, Operations
<1>3. CASE /\ files' = [files EXCEPT !.app = files.backup, !.backup = 0, !.stale = 0,
                                     !.staging = IF op.at = "rolled" THEN 0 ELSE @]
           /\ IF op.at = "rolled" THEN App!Goto(op, "body")
              ELSE op' = [op EXCEPT !.at = "launch", !.next = "end"]
  <2>1. DirectoriesOK' /\ files'.app = files.backup /\ files'.backup = 0
    <3>1. files \in Directories
      BY DEF AppInv, StateOK, DirectoriesOK
    <3>2. /\ files' \in Directories /\ files'.app = files.backup /\ files'.backup = 0 /\ files'.stale = 0
          /\ files'.staging \in {0, files.staging}
      BY <1>3, <3>1 DEF Directories
    <3> QED
      BY <1>1, <3>1, <3>2 DEF AppInv, StateOK, DirectoriesOK, Directories
  <2>2. StateOK' /\ VersionStays
    BY <1>1, <1>2, <2>1, RestIsCalm, StateKeeps DEF VersionStays, DirectoriesOK, Directories
  <2>3. CASE op.at = "rolled"
    <3>1. /\ op' \in Operations /\ op'.at = "body" /\ op'.before = op.before /\ op'.next = op.next
          /\ op'.was = op.was
      BY <1>2, <1>3, <2>3, GotoLemma DEF Places
    <3>2. AtPlace' /\ AtStop' /\ Held'
      BY <1>2, <2>1, <2>3, <3>1 DEF AtPlace, AtStop, Held, Fresh
    <3> QED
      BY <1>2, <2>2, <3>1, <3>2, GoesOn
  <2>4. CASE op.at = "restored"
    <3>1. /\ op' \in Operations /\ op'.at = "launch" /\ op'.before = op.before /\ op'.next = "end"
          /\ op'.was = op.was
      BY <1>2, <1>3, <2>4, LaunchLemma
    <3>2. AtPlace' /\ AtStop' /\ Held'
      BY <1>2, <2>1, <2>4, <3>1 DEF AtPlace, AtStop, Held, Launching
    <3> QED
      BY <1>2, <2>2, <3>1, <3>2, GoesOn
  <2> QED
    BY <1>1, <2>3, <2>4
<1>4. CASE /\ files' = [files EXCEPT !.app = files.stale, !.stale = 0]
           /\ App!End(op, "error")
  <2>1. DirectoriesOK' /\ files'.app = files.stale /\ files'.backup = files.backup
    <3>1. files \in Directories
      BY DEF AppInv, StateOK, DirectoriesOK
    <3>2. /\ files' \in Directories /\ files'.app = files.stale /\ files'.backup = files.backup
          /\ files'.stale = 0 /\ files'.staging = files.staging
      BY <1>4, <3>1 DEF Directories
    <3> QED
      BY <1>1, <3>1, <3>2 DEF AppInv, StateOK, DirectoriesOK, Directories
  <2>2. StateOK' /\ VersionStays
    BY <1>1, <1>2, <2>1, RestIsCalm, StateKeeps DEF VersionStays, DirectoriesOK, Directories
  <2> QED
    BY <1>1, <1>2, <1>4, <2>1, <2>2, EndsDecided DEF Fresh
<1> QED
  BY <1>3, <1>4 DEF App!Restore

\* The child is reaped, if it has ended.
LEMMA ReapedLemma ==
    ASSUME AppInv, process' \in {process, App!Reaped}, pid' \in {pid, None}, child' \in {child, None}
    PROVE  Calmer
<1>1. process \in [1..MaxProcess -> Processes]
  BY DEF AppInv, StateOK
<1>2. process' = process \/ process' = App!Gone({child})
  BY DEF App!Reaped
<1>3. CASE process' = process
  BY <1>1, <1>3 DEF Calmer
<1>4. CASE process' = App!Gone({child})
  <2> DEFINE gone == App!Gone({child})
  <2>1. /\ gone \in [1..MaxProcess -> Processes]
        /\ \A p \in 1..MaxProcess :
              gone[p].state = "alive" => process[p].state = "alive" /\ gone[p].dir = process[p].dir
    BY <1>1, GoneLemma
  <2> HIDE DEF gone
  <2>2. process' = gone
    BY <1>4 DEF gone
  <2> QED
    BY <2>1, <2>2 DEF Calmer
<1> QED
  BY <1>2, <1>3, <1>4

\* With nothing managed alive, nothing managed is in the way of the directories.
LEMMA ManagedLemma ==
    ASSUME AppInv, App!ManagedState \notin {"alive", "invalid"}
    PROVE  Quiet
BY RecordLemma DEF App!ManagedState, Quiet

LEMMA BodyKeeps ==
    ASSUME AppInv, App!Body
    PROVE  AppInv' /\ VersionStays
<1>1. op.at = "body" /\ UNCHANGED <<files, pid, built>>
  BY DEF App!Body
<1>2. /\ op \in Operations /\ Fresh /\ files.backup = 0 /\ ~op.was /\ op.before = 0 /\ op.next = "end"
      /\ files \in Directories /\ StateOK
  BY <1>1 DEF AppInv, AtPlace, Fresh, Operations, StateOK, DirectoriesOK
<1>3. process' \in {process, App!Reaped} /\ child' \in {child, None}
  BY DEF App!Body
<1>4. StateOK' /\ (Quiet => Quiet')
  <2>1. DirectoriesOK'
    BY <1>1, <1>2 DEF StateOK, DirectoriesOK
  <2> QED
    BY <1>1, <1>3, <2>1, ReapedLemma, StateKeeps
<1>5. VersionStays
  BY <1>1 DEF VersionStays
<1>6. CASE App!Goto(op, "fetch") \/ App!Goto(op, "launch")
  <2>1. /\ op' \in Operations /\ op'.at \in {"fetch", "launch"} /\ op'.before = 0 /\ op'.next = "end"
        /\ ~op'.was
    BY <1>2, <1>6, GotoLemma DEF Places
  <2>2. AtPlace' /\ AtStop' /\ Held'
    BY <2>1 DEF AtPlace, AtStop, Held, Launching
  <2> QED
    BY <1>4, <1>5, <2>1, <2>2, GoesOn
<1>7. CASE ~App!Installed /\ App!ManagedState = "missing" /\ App!Goto(op, "stage")
  <2>1. op' \in Operations /\ op'.at = "stage" /\ op'.before = 0 /\ ~op'.was
    BY <1>2, <1>7, GotoLemma DEF Places
  <2>2. Quiet' /\ files.app = 0
    BY <1>2, <1>4, <1>7, ManagedLemma DEF App!Installed, Directories
  <2>3. AtPlace' /\ AtStop' /\ Held'
    BY <1>1, <1>2, <2>1, <2>2 DEF AtPlace, AtStop, Held, OldIsTheApp
  <2> QED
    BY <1>4, <1>5, <2>1, <2>3, GoesOn
<1>8. CASE /\ App!Installed /\ App!ManagedState # "invalid"
           /\ op' = [op EXCEPT !.at = IF App!ManagedState = "alive" THEN "stop" ELSE "stage", !.then = "stage",
                               !.was = App!ManagedState = "alive", !.before = files.app]
  <2> DEFINE at == IF App!ManagedState = "alive" THEN "stop" ELSE "stage"
             was == App!ManagedState = "alive"
  <2>1. was \in BOOLEAN /\ at \in {"stop", "stage"} /\ (at = "stage" => App!ManagedState \notin {"alive", "invalid"})
    BY <1>8
  <2>2. op' = [op EXCEPT !.at = at, !.then = "stage", !.was = was, !.before = files.app]
    BY <1>8
  <2>3. files.app \in Nat
    BY <1>2 DEF Directories
  <2> HIDE DEF at, was
  <2>4. /\ op' \in Operations /\ op'.at = at /\ op'.then = "stage" /\ op'.before = files.app
    BY <1>2, <2>1, <2>2, <2>3 DEF Operations, Places
  <2>5. op'.before > 0
    BY <1>8, <2>4 DEF App!Installed
  <2>6. at = "stage" => Quiet'
    BY <1>4, <2>1, ManagedLemma
  <2>7. AtPlace' /\ AtStop' /\ Held'
    BY <1>1, <1>2, <2>1, <2>4, <2>6 DEF AtPlace, AtStop, Held, OldIsTheApp
  <2> QED
    BY <1>4, <1>5, <2>1, <2>4, <2>5, <2>7, GoesOn
<1>9. CASE op' = [op EXCEPT !.at = "stop", !.then = "end"]
  <2>1. op' \in Operations /\ op'.at = "stop" /\ op'.then = "end" /\ op'.before = 0 /\ ~op'.was
    BY <1>2, <1>9, StopLemma
  <2>2. AtPlace' /\ AtStop' /\ Held'
    BY <2>1 DEF AtPlace, AtStop, Held
  <2> QED
    BY <1>4, <1>5, <2>1, <2>2, GoesOn
<1>10. CASE App!End(op, "error")
  BY <1>2, <1>4, <1>5, <1>10, EndsDecided
<1> QED
  BY <1>6, <1>7, <1>8, <1>9, <1>10 DEF App!Body

LEMMA FetchKeeps ==
    ASSUME AppInv, App!Fetch
    PROVE  AppInv' /\ VersionStays
<1>1. op.at = "fetch" /\ UNCHANGED <<files, process, pid, child, built>>
  BY DEF App!Fetch
<1>2. op.before = 0
  BY <1>1 DEF AppInv, AtPlace
<1>3. StateOK'
  BY <1>1, RestIsCalm, StateKeeps DEF AppInv, StateOK, DirectoriesOK
<1>4. PICK r \in {"ok", "error"} : App!End(op, r)
  BY DEF App!Fetch
<1> QED
  BY <1>1, <1>2, <1>3, <1>4, EndsDecided DEF VersionStays

-----------------------------------------------------------------------------
(* Stopping and starting *)

\* A stop that fails ends the operation, or a failed start goes on to give up.
LEMMA StopFailsKeeps ==
    ASSUME AppInv, StateOK', UNCHANGED files, op.at \in {"stop", "await"},
           NEW result \in {"invalid", "error"}, App!StopFails(result)
    PROVE  AppInv'
<1>1. op \in Operations /\ AtStop /\ (op.was => op.before > 0)
  BY DEF AppInv
<1>2. CASE op.then = "failed" /\ App!Goto(op, "failed")
  <2>1. /\ op' \in Operations /\ op'.at = "failed" /\ op'.before = op.before /\ op'.next = op.next
        /\ op'.was = op.was
    BY <1>1, <1>2, GotoLemma DEF Places
  <2>2. Launching
    BY <1>1, <1>2 DEF AtStop
  <2>3. AtPlace' /\ AtStop' /\ Held'
    BY <2>1, <2>2 DEF AtPlace, AtStop, Held, Launching, NewOverOld
  <2> QED
    BY <1>1, <2>1, <2>3, GoesOn
<1>3. CASE App!End(op, result)
  BY <1>3, FailsDecided
<1> QED
  BY <1>2, <1>3 DEF App!StopFails

LEMMA StopKeeps ==
    ASSUME AppInv, App!Stop
    PROVE  AppInv' /\ VersionStays
<1>1. op.at = "stop" /\ UNCHANGED <<files, process, pid, child, built>>
  BY DEF App!Stop
<1>2. StateOK'
  BY <1>1, RestIsCalm, StateKeeps DEF AppInv, StateOK, DirectoriesOK
<1>3. CASE App!StopFails("invalid")
  BY <1>1, <1>2, <1>3, StopFailsKeeps DEF VersionStays
<1>4. CASE op' = [op EXCEPT !.at = "await", !.targets = App!Targets]
  <2>1. App!Targets \subseteq 1..MaxProcess /\ (child # None => child \in App!Targets)
    BY DEF AppInv, StateOK, App!Targets, App!PidRecord, App!Alive
  <2>2. op \in Operations /\ AtStop /\ (op.was => op.before > 0)
    BY DEF AppInv
  <2>3. /\ op' \in Operations /\ op'.at = "await" /\ op'.then = op.then /\ op'.targets = App!Targets
        /\ op'.before = op.before /\ op'.next = op.next /\ op'.was = op.was
    BY <1>4, <2>1, <2>2 DEF Operations, Places
  <2>4. AtStop'
    BY <1>1, <2>2, <2>3 DEF AtStop, Fresh, OldIsTheApp, Launching, NewOverOld
  <2>5. AtPlace' /\ Held'
    BY <1>1, <2>1, <2>3 DEF AtPlace, Held
  <2> QED
    BY <1>1, <1>2, <2>2, <2>3, <2>4, <2>5, GoesOn DEF VersionStays
<1> QED
  BY <1>3, <1>4 DEF App!Stop

\* What is held was to be stopped: nothing managed is alive after it.
LEMMA AwaitStopKeeps ==
    ASSUME AppInv, App!AwaitStop
    PROVE  AppInv' /\ VersionStays
<1>1. op.at = "await" /\ UNCHANGED <<files, built>>
  BY DEF App!AwaitStop
<1>2. /\ op \in Operations /\ AtStop /\ Held /\ (op.was => op.before > 0) /\ DirectoriesOK
      /\ process \in [1..MaxProcess -> Processes]
  BY DEF AppInv, StateOK
<1>3. DirectoriesOK'
  BY <1>1, <1>2 DEF DirectoriesOK
<1>4. CASE /\ process' = App!Gone(op.targets) /\ pid' = None
           /\ child' = IF child \in op.targets THEN None ELSE child
           /\ IF op.then = "end" THEN App!End(op, "ok") ELSE App!Goto(op, op.then)
  <2>1. Calmer
    BY <1>2, <1>4, GoneLemma DEF Calmer
  <2>2. StateOK'
    BY <1>1, <1>3, <2>1, StateKeeps
  <2>3. Quiet'
    BY <1>1, <1>2, <1>4 DEF Quiet, App!Alive, Held
  <2>4. CASE op.then = "end"
    BY <1>1, <1>2, <1>4, <2>2, <2>4, EndsDecided DEF AtStop, VersionStays
  <2>5. CASE op.then # "end"
    <3>1. op.then \in Places /\ op.then \in {"rollback", "stage", "restore", "failed"}
      BY <1>2, <2>5 DEF Operations, Places
    <3>2. /\ op' \in Operations /\ op'.at = op.then /\ op'.before = op.before /\ op'.next = op.next
          /\ op'.was = op.was
      BY <1>2, <1>4, <2>5, <3>1, GotoLemma
    <3>3. AtPlace'
      BY <1>1, <1>2, <2>3, <3>1, <3>2 DEF AtPlace, AtStop, Fresh, OldIsTheApp, Launching, NewOverOld
    <3>4. AtStop' /\ Held'
      BY <3>1, <3>2 DEF AtStop, Held
    <3> QED
      BY <1>1, <1>2, <2>2, <3>1, <3>2, <3>3, <3>4, GoesOn DEF VersionStays
  <2> QED
    BY <2>4, <2>5
<1>5. CASE App!StopFails("error") /\ UNCHANGED <<process, pid, child>>
  BY <1>1, <1>3, <1>5, RestIsCalm, StateKeeps, StopFailsKeeps DEF VersionStays
<1> QED
  BY <1>4, <1>5 DEF App!AwaitStop

\* A start that succeeded ends its operation, or the update behind it goes on.
LEMMA StartedKeeps ==
    ASSUME AppInv, StateOK', UNCHANGED files, op.at \in {"launch", "ready"}, App!Started(op)
    PROVE  AppInv'
<1>1. op \in Operations /\ Launching /\ (op.was => op.before > 0)
  BY DEF AppInv, AtPlace
<1>2. CASE op.next = "new" /\ App!Goto(op, "finalize")
  <2>1. op' \in Operations /\ op'.at = "finalize" /\ op'.before = op.before /\ op'.was = op.was
    BY <1>1, <1>2, GotoLemma DEF Places
  <2>2. AtPlace' /\ AtStop' /\ Held'
    BY <1>1, <1>2, <2>1 DEF AtPlace, AtStop, Held, Launching, NewOverOld
  <2> QED
    BY <1>1, <2>1, <2>2, GoesOn
<1>3. CASE App!End(op, "error")
  BY <1>3, FailsDecided
<1>4. CASE op.kind = "start" /\ App!End(op, "ok")
  BY <1>4, EndsDecided
<1> QED
  BY <1>2, <1>3, <1>4 DEF App!Started

\* A start that failed goes back to the old version, where there is one behind.
LEMMA NotStartedKeeps ==
    ASSUME AppInv, StateOK', UNCHANGED files, op.at \in {"launch", "failed"}, App!NotStarted(op)
    PROVE  AppInv'
<1>1. op \in Operations /\ Launching /\ (op.was => op.before > 0)
  BY DEF AppInv, AtPlace
<1>2. CASE op.next = "new" /\ op' = [op EXCEPT !.at = "stop", !.then = "restore"]
  <2>1. /\ op' \in Operations /\ op'.at = "stop" /\ op'.then = "restore" /\ op'.before = op.before
        /\ op'.was = op.was
    BY <1>1, <1>2, StopLemma
  <2>2. AtPlace' /\ AtStop' /\ Held'
    BY <1>1, <1>2, <2>1 DEF AtPlace, AtStop, Held, Launching, NewOverOld
  <2> QED
    BY <1>1, <2>1, <2>2, GoesOn
<1>3. CASE App!End(op, "error")
  BY <1>3, FailsDecided
<1> QED
  BY <1>2, <1>3 DEF App!NotStarted

LEMMA LaunchKeeps ==
    ASSUME AppInv, App!Launch
    PROVE  AppInv' /\ VersionStays
<1>1. op.at = "launch" /\ UNCHANGED <<files, built>>
  BY DEF App!Launch
<1>2. /\ op \in Operations /\ Launching /\ (op.was => op.before > 0) /\ DirectoriesOK
      /\ process \in [1..MaxProcess -> Processes]
  BY <1>1 DEF AppInv, AtPlace, StateOK
<1>3. DirectoriesOK' /\ VersionStays
  BY <1>1, <1>2 DEF DirectoriesOK, VersionStays
<1>4. ASSUME NEW p \in 1..MaxProcess,
             process' = [App!Reaped EXCEPT ![p] = [state |-> "alive", dir |-> files.app]],
             pid' = p, child' = p, App!Goto(op, "ready")
      PROVE  AppInv'
  <2>1. App!Reaped \in [1..MaxProcess -> Processes]
    BY <1>2, GoneLemma DEF App!Reaped
  <2>2. files.app \in Nat
    BY <1>2 DEF DirectoriesOK, Directories
  <2> DEFINE new == [state |-> "alive", dir |-> files.app]
  <2>3. new \in Processes /\ new.dir = files.app
    BY <2>2 DEF Processes
  <2>4. process' = [App!Reaped EXCEPT ![p] = new]
    BY <1>4
  <2> HIDE DEF new
  <2>5. process' \in [1..MaxProcess -> Processes] /\ process'[p] = new
    BY <2>1, <2>3, <2>4
  <2>6. StateOK'
    BY <1>1, <1>3, <1>4, <2>3, <2>5 DEF StateOK
  <2>7. /\ op' \in Operations /\ op'.at = "ready" /\ op'.before = op.before /\ op'.next = op.next
        /\ op'.was = op.was
    BY <1>2, <1>4, GotoLemma DEF Places
  <2>8. AtPlace' /\ AtStop' /\ Held'
    BY <1>1, <1>2, <2>7 DEF AtPlace, AtStop, Held, Launching, NewOverOld
  <2> QED
    BY <1>2, <2>6, <2>7, <2>8, GoesOn
<1>5. ASSUME process' = App!Reaped, child' \in {child, None}, pid' = pid, App!Started(op) \/ App!NotStarted(op)
      PROVE  AppInv'
  <2>1. StateOK'
    BY <1>1, <1>3, <1>5, ReapedLemma, StateKeeps
  <2> QED
    BY <1>1, <1>5, <2>1, StartedKeeps, NotStartedKeeps
<1> QED
  BY <1>3, <1>4, <1>5 DEF App!Launch

LEMMA AwaitReadyKeeps ==
    ASSUME AppInv, App!AwaitReady
    PROVE  AppInv' /\ VersionStays
<1>1. op.at = "ready" /\ UNCHANGED <<files, built>>
  BY DEF App!AwaitReady
<1>2. /\ op \in Operations /\ Launching /\ (op.was => op.before > 0) /\ DirectoriesOK /\ Decided
  BY <1>1 DEF AppInv, AtPlace, StateOK
<1>3. DirectoriesOK' /\ VersionStays
  BY <1>1, <1>2 DEF DirectoriesOK, VersionStays
<1>4. CASE process' = App!Gone({child}) /\ App!Zombie(child) /\ child' = None /\ pid' = None /\ op' = op
  <2>1. process' = App!Reaped
    BY <1>4 DEF App!Reaped
  <2>2. StateOK'
    BY <1>1, <1>3, <1>4, <2>1, ReapedLemma, StateKeeps
  <2>3. AtPlace' /\ AtStop' /\ Held'
    BY <1>1, <1>2, <1>4 DEF AtPlace, AtStop, Held, Launching, NewOverOld
  <2> QED
    BY <1>1, <1>2, <1>3, <1>4, <2>2, <2>3, GoesOn
<1>5. CASE App!Started(op) /\ UNCHANGED <<process, child, pid>>
  BY <1>1, <1>3, <1>5, RestIsCalm, StateKeeps, StartedKeeps
<1>6. CASE op' = [op EXCEPT !.at = "stop", !.then = "failed"] /\ UNCHANGED <<process, child, pid>>
  <2>1. StateOK'
    BY <1>1, <1>3, <1>6, RestIsCalm, StateKeeps
  <2>2. /\ op' \in Operations /\ op'.at = "stop" /\ op'.then = "failed" /\ op'.before = op.before
        /\ op'.next = op.next /\ op'.was = op.was
    BY <1>2, <1>6, StopLemma
  <2>3. AtPlace' /\ AtStop' /\ Held'
    BY <1>1, <1>2, <2>2 DEF AtPlace, AtStop, Held, Launching, NewOverOld
  <2> QED
    BY <1>2, <1>3, <2>1, <2>2, <2>3, GoesOn
<1> QED
  BY <1>4, <1>5, <1>6 DEF App!AwaitReady

LEMMA StartFailedKeeps ==
    ASSUME AppInv, App!StartFailed
    PROVE  AppInv' /\ VersionStays
<1>1. op.at = "failed" /\ UNCHANGED <<files, process, pid, child, built>> /\ App!NotStarted(op)
  BY DEF App!StartFailed
<1>2. StateOK'
  BY <1>1, RestIsCalm, StateKeeps DEF AppInv, StateOK, DirectoriesOK
<1> QED
  BY <1>1, <1>2, NotStartedKeeps DEF VersionStays

-----------------------------------------------------------------------------
(* Building and exchanging *)

\* An update that fails leaves the old version, and starts what was running.
LEMMA AbandonKeeps ==
    ASSUME AppInv, StateOK', op.before > 0 => op.before \in {files'.app, files'.backup},
           App!Abandon(op)
    PROVE  AppInv'
<1>1. op \in Operations /\ (op.was => op.before > 0)
  BY DEF AppInv
<1>2. CASE op.was /\ op' = [op EXCEPT !.at = "launch", !.next = "giveup"]
  <2>1. /\ op' \in Operations /\ op'.at = "launch" /\ op'.before = op.before /\ op'.next = "giveup"
        /\ op'.was = op.was
    BY <1>1, <1>2, LaunchLemma
  <2>2. AtPlace' /\ AtStop' /\ Held'
    BY <1>1, <2>1 DEF AtPlace, AtStop, Held, Launching
  <2> QED
    BY <1>1, <2>1, <2>2, GoesOn
<1>3. CASE App!End(op, "error")
  BY <1>3, EndsDecided
<1> QED
  BY <1>2, <1>3 DEF App!Abandon

LEMMA CloneKeeps ==
    ASSUME AppInv, App!Clone
    PROVE  AppInv' /\ VersionStays
<1>1. op.at = "stage" /\ UNCHANGED <<files, process, pid, child, built>>
  BY DEF App!Clone
<1>2. op \in Operations /\ OldIsTheApp /\ Quiet /\ (op.was => op.before > 0)
  BY <1>1 DEF AppInv, AtPlace
<1>3. StateOK' /\ Quiet'
  BY <1>1, <1>2, RestIsCalm, StateKeeps DEF AppInv, StateOK, DirectoriesOK
<1>4. CASE App!Goto(op, "build")
  <2>1. op' \in Operations /\ op'.at = "build" /\ op'.before = op.before /\ op'.was = op.was
    BY <1>2, <1>4, GotoLemma DEF Places
  <2>2. AtPlace' /\ AtStop' /\ Held'
    BY <1>1, <1>2, <1>3, <2>1 DEF AtPlace, AtStop, Held, OldIsTheApp
  <2> QED
    BY <1>1, <1>2, <1>3, <2>1, <2>2, GoesOn DEF VersionStays
<1>5. CASE App!Abandon(op)
  BY <1>1, <1>2, <1>3, <1>5, AbandonKeeps DEF VersionStays, OldIsTheApp
<1> QED
  BY <1>4, <1>5 DEF App!Clone

\* What is built is newer than the app.
LEMMA BuildKeeps ==
    ASSUME AppInv, App!Build
    PROVE  AppInv' /\ VersionStays
<1>1. op.at = "build" /\ UNCHANGED <<process, pid, child>>
  BY DEF App!Build
<1>2. /\ op \in Operations /\ OldIsTheApp /\ Quiet /\ (op.was => op.before > 0) /\ DirectoriesOK
      /\ files \in Directories
  BY <1>1 DEF AppInv, AtPlace, StateOK, DirectoriesOK
<1>3. CASE built' = built + 1 /\ files' = [files EXCEPT !.staging = built'] /\ App!Goto(op, "publish")
  <2>1. built' \in Nat /\ built' > files.app
    BY <1>2, <1>3 DEF DirectoriesOK, Directories
  <2>2. /\ files' \in Directories /\ files'.app = files.app /\ files'.backup = files.backup
        /\ files'.stale = files.stale /\ files'.staging = built'
    BY <1>2, <1>3, <2>1 DEF Directories
  <2>3. DirectoriesOK'
    BY <1>2, <1>3, <2>1, <2>2 DEF DirectoriesOK, Directories
  <2>4. StateOK' /\ Quiet' /\ VersionStays
    BY <1>1, <1>2, <2>2, <2>3, RestIsCalm, StateKeeps DEF VersionStays
  <2>5. op' \in Operations /\ op'.at = "publish" /\ op'.before = op.before /\ op'.was = op.was
    BY <1>2, <1>3, GotoLemma DEF Places
  <2>6. AtPlace' /\ AtStop' /\ Held'
    BY <1>1, <1>2, <2>1, <2>2, <2>4, <2>5 DEF AtPlace, AtStop, Held, OldIsTheApp
  <2> QED
    BY <1>2, <2>4, <2>5, <2>6, GoesOn
<1>4. CASE App!Abandon(op) /\ files' = [files EXCEPT !.staging = 0] /\ built' = built
  <2>1. /\ files' \in Directories /\ files'.app = files.app /\ files'.backup = files.backup
        /\ files'.stale = files.stale /\ files'.staging = 0
    BY <1>2, <1>4 DEF Directories
  <2>2. DirectoriesOK'
    BY <1>2, <1>4, <2>1 DEF DirectoriesOK
  <2>3. StateOK' /\ VersionStays
    BY <1>1, <1>2, <2>1, <2>2, RestIsCalm, StateKeeps DEF VersionStays
  <2> QED
    BY <1>2, <1>4, <2>1, <2>3, AbandonKeeps DEF OldIsTheApp
<1> QED
  BY <1>3, <1>4 DEF App!Build

\* The app becomes the backup, and nothing is lost between the two renames.
LEMMA BackUpKeeps ==
    ASSUME AppInv, App!BackUp
    PROVE  AppInv' /\ VersionStays
<1>1. op.at = "publish" /\ UNCHANGED <<process, pid, child, built>>
  BY DEF App!BackUp
<1>2. /\ op \in Operations /\ OldIsTheApp /\ Quiet /\ (op.was => op.before > 0) /\ DirectoriesOK
      /\ files \in Directories /\ files.staging > op.before
  BY <1>1 DEF AppInv, AtPlace, StateOK, DirectoriesOK
<1>3. files' = [files EXCEPT !.backup = files.app, !.app = 0] /\ App!Goto(op, "exchange")
  BY <1>2 DEF App!BackUp, OldIsTheApp
<1>4. /\ files' \in Directories /\ files'.app = 0 /\ files'.backup = files.app
      /\ files'.stale = files.stale /\ files'.staging = files.staging
  BY <1>2, <1>3 DEF Directories
<1>5. DirectoriesOK'
  BY <1>1, <1>2, <1>4 DEF DirectoriesOK, Directories
<1>6. StateOK' /\ Quiet'
  BY <1>1, <1>2, <1>5, RestIsCalm, StateKeeps
<1>7. VersionStays
  BY <1>2, <1>4 DEF VersionStays, OldIsTheApp, Directories
<1>8. op' \in Operations /\ op'.at = "exchange" /\ op'.before = op.before /\ op'.was = op.was
  BY <1>2, <1>3, GotoLemma DEF Places
<1>9. AtPlace' /\ AtStop' /\ Held'
  BY <1>2, <1>4, <1>6, <1>8 DEF AtPlace, AtStop, Held, OldIsTheApp
<1> QED
  BY <1>2, <1>6, <1>7, <1>8, <1>9, GoesOn

LEMMA ExchangeKeeps ==
    ASSUME AppInv, App!Exchange
    PROVE  AppInv' /\ VersionStays
<1>1. op.at = "exchange" /\ UNCHANGED <<process, pid, child, built>>
  BY DEF App!Exchange
<1>2. /\ op \in Operations /\ Quiet /\ (op.was => op.before > 0) /\ DirectoriesOK /\ files \in Directories
      /\ files.app = 0 /\ files.backup = op.before /\ files.staging > op.before
  BY <1>1 DEF AppInv, AtPlace, StateOK, DirectoriesOK
<1>3. CASE files' = [files EXCEPT !.app = files.staging, !.staging = 0] /\ op' = App!AfterExchange
  <2>1. /\ files' \in Directories /\ files'.app = files.staging /\ files'.backup = files.backup
        /\ files'.stale = files.stale /\ files'.staging = 0
    BY <1>2, <1>3 DEF Directories
  <2>2. DirectoriesOK'
    BY <1>1, <1>2, <2>1 DEF DirectoriesOK
  <2>3. StateOK'
    BY <1>1, <1>2, <2>2, RestIsCalm, StateKeeps
  <2>4. VersionStays
    BY <1>2, <2>1 DEF VersionStays, Directories
  <2>5. CASE op.was
    <3>1. op' = [op EXCEPT !.at = "launch", !.next = "new"]
      BY <1>3, <2>5 DEF App!AfterExchange
    <3>2. /\ op' \in Operations /\ op'.at = "launch" /\ op'.before = op.before /\ op'.next = "new"
          /\ op'.was = op.was
      BY <1>2, <3>1, LaunchLemma
    <3>3. AtPlace' /\ AtStop' /\ Held'
      BY <1>2, <2>1, <2>5, <3>2 DEF AtPlace, AtStop, Held, Launching, NewOverOld
    <3> QED
      BY <1>2, <2>3, <2>4, <3>2, <3>3, GoesOn
  <2>6. CASE ~op.was
    <3>1. op' = [op EXCEPT !.at = "finalize"]
      BY <1>3, <2>6 DEF App!AfterExchange
    <3>2. op' \in Operations /\ op'.at = "finalize" /\ op'.before = op.before /\ op'.was = op.was
      BY <1>2, <3>1 DEF Operations, Places
    <3>3. AtPlace' /\ AtStop' /\ Held'
      BY <1>2, <2>1, <3>2 DEF AtPlace, AtStop, Held, NewOverOld
    <3> QED
      BY <1>2, <2>3, <2>4, <3>2, <3>3, GoesOn
  <2> QED
    BY <2>5, <2>6
<1>4. CASE App!Abandon(op) /\ files' = [files EXCEPT !.app = files.backup, !.backup = 0, !.staging = 0]
  <2>1. /\ files' \in Directories /\ files'.app = files.backup /\ files'.backup = 0
        /\ files'.stale = files.stale /\ files'.staging = 0
    BY <1>2, <1>4 DEF Directories
  <2>2. DirectoriesOK'
    BY <1>1, <1>2, <2>1 DEF DirectoriesOK, Directories
  <2>3. StateOK' /\ VersionStays
    BY <1>1, <1>2, <2>1, <2>2, RestIsCalm, StateKeeps DEF VersionStays, Directories
  <2> QED
    BY <1>2, <1>4, <2>1, <2>3, AbandonKeeps
<1>5. CASE App!Abandon(op) /\ files' = [files EXCEPT !.staging = 0]
  <2>1. /\ files' \in Directories /\ files'.app = files.app /\ files'.backup = files.backup
        /\ files'.stale = files.stale /\ files'.staging = 0
    BY <1>2, <1>5 DEF Directories
  <2>2. DirectoriesOK'
    BY <1>1, <1>2, <2>1 DEF DirectoriesOK
  <2>3. StateOK' /\ VersionStays
    BY <1>1, <1>2, <2>1, <2>2, RestIsCalm, StateKeeps DEF VersionStays
  <2> QED
    BY <1>2, <1>5, <2>1, <2>3, AbandonKeeps
<1> QED
  BY <1>3, <1>4, <1>5 DEF App!Exchange

\* The backup goes once a newer version is the app.
LEMMA FinalizeKeeps ==
    ASSUME AppInv, App!Finalize
    PROVE  AppInv' /\ VersionStays
<1>1. op.at = "finalize" /\ UNCHANGED <<process, pid, child, built>>
  BY DEF App!Finalize
<1>2. op \in Operations /\ NewOverOld /\ DirectoriesOK /\ files \in Directories
  BY <1>1 DEF AppInv, AtPlace, StateOK, DirectoriesOK
<1>3. op.before \in Nat
  BY <1>2 DEF Operations
<1>4. CASE files' = [files EXCEPT !.discard = files.backup, !.backup = 0] /\ App!End(op, "ok")
  <2>1. /\ files' \in Directories /\ files'.app = files.app /\ files'.backup = 0
        /\ files'.stale = files.stale /\ files'.staging = files.staging
    BY <1>2, <1>4 DEF Directories
  <2>2. DirectoriesOK'
    BY <1>1, <1>2, <2>1 DEF DirectoriesOK, Directories
  <2>3. StateOK'
    BY <1>1, <2>1, <2>2, RestIsCalm, StateKeeps
  <2>4. files'.app > op.before
    BY <1>2, <2>1 DEF NewOverOld
  <2>5. VersionStays
    BY <1>3, <2>1, <2>4 DEF VersionStays, Directories
  <2> QED
    BY <1>4, <2>1, <2>3, <2>4, <2>5, EndsDecided
<1>5. CASE files' = files /\ App!End(op, "error")
  <2>1. StateOK'
    BY <1>1, <1>5, RestIsCalm, StateKeeps DEF AppInv, StateOK, DirectoriesOK
  <2> QED
    BY <1>1, <1>5, <2>1, FailsDecided DEF VersionStays
<1> QED
  BY <1>4, <1>5 DEF App!Finalize

-----------------------------------------------------------------------------
(* Beside the operations *)

\* What only takes away from what is managed changes nothing of an operation.
LEMMA CalmKeeps ==
    ASSUME AppInv, Calmer, UNCHANGED <<files, op, ended, built>>
    PROVE  AppInv' /\ VersionStays
<1>1. DirectoriesOK'
  BY DEF AppInv, StateOK, DirectoriesOK
<1>2. StateOK' /\ (Quiet => Quiet')
  BY <1>1, StateKeeps
<1>3. AtPlace'
  BY <1>2 DEF AppInv, AtPlace, Fresh, OldIsTheApp, Launching, NewOverOld
<1>4. AtStop' /\ Decided'
  BY DEF AppInv, AtStop, Fresh, OldIsTheApp, Launching, NewOverOld, Decided
<1>5. Held'
  BY DEF AppInv, Held, Calmer
<1> QED
  BY <1>2, <1>3, <1>4, <1>5 DEF AppInv, VersionStays

\* An operation that is dropped leaves the directories to the next one.
LEMMA DroppedKeeps ==
    ASSUME AppInv, Calmer, UNCHANGED <<files, built>>, ended' = App!NoOutcome,
           op' = App!Idle \/ op' = [App!Idle EXCEPT !.kind = "shutdown", !.at = "recover"]
    PROVE  AppInv' /\ VersionStays
<1>1. StateOK'
  BY StateKeeps DEF AppInv, StateOK, DirectoriesOK
<1>2. op' \in Operations /\ op'.before = 0 /\ ~op'.was /\ op'.next = "end"
      /\ (op' = App!Idle \/ op'.at = "recover") /\ op'.at \in {"idle", "recover"}
  BY IdleLemma DEF Operations, Places, App!Idle
<1>3. AtPlace' /\ AtStop' /\ Held'
  BY <1>2 DEF AtPlace, AtStop, Held, Fresh
<1>4. Decided'
  BY DEF Decided, App!NoOutcome
<1> QED
  BY <1>1, <1>2, <1>3, <1>4 DEF AppInv, VersionStays

LEMMA BesideKeeps ==
    ASSUME AppInv,
           App!View \/ App!ViewTakes \/ (\E p \in 1..MaxProcess : App!Ends(p)) \/ App!Close \/ App!Boot
           \/ App!Drop \/ App!ForceStop \/ App!Down
    PROVE  AppInv' /\ VersionStays
<1>1. process \in [1..MaxProcess -> Processes]
  BY DEF AppInv, StateOK
<1>2. CASE App!View
  <2>1. process' \in {process, App!Reaped} /\ UNCHANGED <<files, pid, child, op, ended, built>>
    BY <1>2 DEF App!View, App!Reaped
  <2> QED
    BY <2>1, ReapedLemma, CalmKeeps
<1>3. CASE App!ViewTakes
  <2>1. process' = process /\ pid' = None /\ child' = None /\ UNCHANGED <<files, op, ended, built>>
    BY <1>3 DEF App!ViewTakes
  <2>2. Calmer
    BY <1>1, <2>1 DEF Calmer
  <2> QED
    BY <2>1, <2>2, CalmKeeps
<1>4. ASSUME NEW p \in 1..MaxProcess, App!Ends(p)
      PROVE  AppInv' /\ VersionStays
  <2>1. UNCHANGED <<files, pid, child, op, ended, built>>
    BY <1>4 DEF App!Ends
  <2>2. PICK state \in {"zombie", "gone"} : process' = [process EXCEPT ![p].state = state]
    BY <1>4 DEF App!Ends
  <2> DEFINE new == [process[p] EXCEPT !.state = state]
  <2>3. new \in Processes /\ new.state # "alive"
    BY <1>1 DEF Processes
  <2>4. process' = [process EXCEPT ![p] = new]
    BY <2>2
  <2> HIDE DEF new
  <2>5. Calmer
    BY <1>1, <2>1, <2>3, <2>4 DEF Calmer
  <2> QED
    BY <2>1, <2>5, CalmKeeps
<1>5. CASE App!Close \/ App!Boot
  <2>1. UNCHANGED <<files, process, pid, child, op, ended, built>>
    BY <1>5 DEF App!Close, App!Boot
  <2> QED
    BY <2>1, RestIsCalm, CalmKeeps
<1>6. CASE App!Drop
  <2>1. UNCHANGED <<files, process, pid, child, built>> /\ op' = App!Idle /\ ended' = App!NoOutcome
    BY <1>6 DEF App!Drop
  <2> QED
    BY <2>1, RestIsCalm, DroppedKeeps
<1>7. CASE App!ForceStop \/ App!Down
  <2>1. UNCHANGED <<files, built>> /\ ended' = App!NoOutcome /\ pid' \in {pid, None} /\ child' = None
        /\ (op' = App!Idle \/ op' = [App!Idle EXCEPT !.kind = "shutdown", !.at = "recover"])
    BY <1>7 DEF App!ForceStop, App!Down
  <2>2. PICK ps : process' = App!Gone(ps)
    BY <1>7 DEF App!ForceStop, App!Down
  <2>3. Calmer
    BY <1>1, <2>1, <2>2, GoneLemma DEF Calmer
  <2> QED
    BY <2>1, <2>3, DroppedKeeps
<1> QED
  BY <1>2, <1>3, <1>4, <1>5, <1>6, <1>7

LEMMA AppStep ==
    ASSUME AppInv, [StoresNext]_allVars
    PROVE  AppInv' /\ VersionStays
<1>1. CASE App!Next
  <2>1. CASE \E kind \in App!Kinds : App!Begin(kind)
    BY <2>1, BeginKeeps
  <2>2. CASE App!Recover \/ App!PutAside \/ App!Restore \/ App!Body \/ App!Fetch
    BY <2>2, RecoverKeeps, PutAsideKeeps, RestoreKeeps, BodyKeeps, FetchKeeps
  <2>3. CASE App!Stop \/ App!AwaitStop \/ App!Launch \/ App!AwaitReady \/ App!StartFailed
    BY <2>3, StopKeeps, AwaitStopKeeps, LaunchKeeps, AwaitReadyKeeps, StartFailedKeeps
  <2>4. CASE App!Clone \/ App!Build \/ App!BackUp \/ App!Exchange \/ App!Finalize
    BY <2>4, CloneKeeps, BuildKeeps, BackUpKeeps, ExchangeKeeps, FinalizeKeeps
  <2>5. CASE App!View \/ App!ViewTakes \/ (\E p \in 1..MaxProcess : App!Ends(p)) \/ App!Close \/ App!Boot
             \/ App!Drop \/ App!ForceStop \/ App!Down
    BY <2>5, BesideKeeps
  <2> QED
    BY <1>1, <2>1, <2>2, <2>3, <2>4, <2>5 DEF App!Next
<1>2. CASE UNCHANGED appVars
  <2>1. UNCHANGED <<files, process, pid, child, op, ended, built>>
    BY <1>2 DEF appVars
  <2> QED
    BY <2>1, RestIsCalm, CalmKeeps
<1> QED
  BY <1>1, <1>2 DEF StoresNext, allVars

\* Where an operation is says what the directories are, through updates that
\* fail anywhere, crashes of the server and processes that end (web_app).
THEOREM AppInductive == StoresSpec => []AppInv
<1>1. AppInv /\ [StoresNext]_allVars => AppInv'
  BY AppStep
<1> QED
  BY <1>1, AppInitial, PTL DEF StoresSpec

\* A version that is installed is there for ever, as the app or its backup; an
\* update is decided; and what is managed runs where the app is (web_app).
THEOREM WebAppWhole == StoresSpec => WebAppIsWhole
<1>1. AppInv => App!UpdatesAreDecided /\ App!ManagedRunsTheApp
  <2> SUFFICES ASSUME AppInv
               PROVE  App!UpdatesAreDecided /\ App!ManagedRunsTheApp
    OBVIOUS
  <2>1. App!UpdatesAreDecided
    BY IdleLemma DEF AppInv, Decided, App!UpdatesAreDecided
  <2>2. App!ManagedRunsTheApp
    BY DEF AppInv, StateOK, App!ManagedRunsTheApp
  <2> QED
    BY <2>1, <2>2
<1>2. AppInv /\ [StoresNext]_allVars =>
        [files.app + files.backup > 0 => files'.app + files'.backup > 0]_appVars
  BY AppStep DEF VersionStays
<1>3. StoresSpec => [](App!UpdatesAreDecided /\ App!ManagedRunsTheApp)
  BY <1>1, AppInductive, PTL
<1>4. StoresSpec => [][files.app + files.backup > 0 => files'.app + files'.backup > 0]_appVars
  BY <1>2, AppInductive, PTL DEF StoresSpec
<1>5. StoresSpec => App!SomeVersionStays
  BY <1>4 DEF App!SomeVersionStays, App!vars, appVars
<1> QED
  BY <1>3, <1>5 DEF WebAppIsWhole, App!WebAppIsWhole

-----------------------------------------------------------------------------
(* Induction and recursion over the naturals and over sequences, for sets  *)
(* and functions.                                                          *)

\* Induction, for a set.
LEMMA NatLemma ==
    ASSUME NEW P, 0 \in P, \A n \in Nat : n \in P => n + 1 \in P
    PROVE  \A n \in Nat : n \in P
<1> DEFINE S == Nat \ P
           R == OpToRel(<, Nat)
<1> SUFFICES ASSUME S # {} PROVE FALSE
  OBVIOUS
<1>1. \A m, n \in Nat : m < n => <<m, n>> \in R
  BY DEF OpToRel
<1>2. IsWellFoundedOn(R, Nat)
  BY NatLessThanWellFounded
<1> HIDE DEF R
<1>3. PICK n \in S : \A m \in S : ~(<<m, n>> \in R)
  BY <1>2, WFMin
<1>4. n \in Nat /\ n \notin P /\ n # 0
  BY <1>3
<1>5. n - 1 \in Nat /\ n - 1 < n /\ (n - 1) + 1 = n
  BY <1>4
<1>6. n - 1 \in S
  BY <1>4, <1>5
<1> QED
  BY <1>1, <1>3, <1>4, <1>5, <1>6

\* A sequence with one element more.
LEMMA AppendParts ==
    ASSUME NEW C, NEW t \in Seq(C), NEW c \in C
    PROVE  /\ Len(t) \in Nat
           /\ Append(t, c) \in Seq(C) /\ Len(Append(t, c)) = Len(t) + 1
           /\ Append(t, c)[Len(t) + 1] = c
           /\ \A i \in 1..Len(t) : Append(t, c)[i] = t[i]
  OBVIOUS

\* Induction over sequences, for a set.
LEMMA SeqLemma ==
    ASSUME NEW C, NEW P, <<>> \in P,
           \A t \in Seq(C), c \in C : t \in P => Append(t, c) \in P
    PROVE  \A t \in Seq(C) : t \in P
<1> DEFINE Q == {n \in Nat : \A t \in Seq(C) : Len(t) = n => t \in P}
<1>1. 0 \in Q
  <2>1. \A t \in Seq(C) : Len(t) = 0 => t = <<>>
    OBVIOUS
  <2> QED
    BY <2>1
<1>2. ASSUME NEW n \in Nat, n \in Q PROVE n + 1 \in Q
  <2> SUFFICES ASSUME NEW t \in Seq(C), Len(t) = n + 1 PROVE t \in P
    OBVIOUS
  <2> DEFINE s == SubSeq(t, 1, n)
  <2>1. s \in Seq(C) /\ Len(s) = n /\ t[n + 1] \in C
    OBVIOUS
  <2>2. Append(s, t[n + 1]) = t
    OBVIOUS
  <2>3. s \in P
    BY <1>2, <2>1
  <2> HIDE DEF s
  <2> QED
    BY <2>1, <2>2, <2>3
<1>3. \A n \in Nat : n \in Q
  <2> HIDE DEF Q
  <2> QED
    BY <1>1, <1>2, NatLemma
<1> QED
  BY <1>3

\* f goes from a through S by the steps of g.
Follows(f, n, S, a, g) ==
    f \in [0..n -> S] /\ f[0] = a /\ \A i \in 1..n : f[i] = g[i][f[i - 1]]

\* A recursion that stays in S has a solution.
LEMMA RecursionExists ==
    ASSUME NEW n \in Nat, NEW S, NEW a \in S, NEW g \in [1..n -> [S -> S]]
    PROVE  \E f : Follows(f, n, S, a, g)
<1> DEFINE P == {m \in Nat : m <= n =>
                   \E f \in [0..m -> S] : f[0] = a /\ \A i \in 1..m : f[i] = g[i][f[i - 1]]}
<1>1. 0 \in P
  <2> DEFINE f == [i \in 0..0 |-> a]
  <2>1. f \in [0..0 -> S] /\ f[0] = a
    OBVIOUS
  <2> HIDE DEF f
  <2> QED
    BY <2>1
<1>2. ASSUME NEW m \in Nat, m \in P PROVE m + 1 \in P
  <2> SUFFICES ASSUME m + 1 <= n
               PROVE  \E f \in [0..(m + 1) -> S] :
                         f[0] = a /\ \A i \in 1..(m + 1) : f[i] = g[i][f[i - 1]]
    OBVIOUS
  <2>1. PICK f \in [0..m -> S] : f[0] = a /\ \A i \in 1..m : f[i] = g[i][f[i - 1]]
    BY <1>2
  <2> DEFINE h == [i \in 0..(m + 1) |-> IF i = m + 1 THEN g[m + 1][f[m]] ELSE f[i]]
  <2>2. h \in [0..(m + 1) -> S]
    BY <2>1
  <2>3. h[0] = a /\ h[m + 1] = g[m + 1][f[m]] /\ \A i \in 0..m : h[i] = f[i]
    BY <2>1
  <2> HIDE DEF h
  <2>4. ASSUME NEW i \in 1..(m + 1) PROVE h[i] = g[i][h[i - 1]]
    <3>1. CASE i = m + 1
      BY <2>3, <3>1
    <3>2. CASE i # m + 1
      <4>1. i \in 1..m /\ i \in 0..m /\ i - 1 \in 0..m
        BY <3>2
      <4> QED
        BY <2>1, <2>3, <4>1
    <3> QED
      BY <3>1, <3>2
  <2> QED
    BY <2>2, <2>3, <2>4
<1>3. \A m \in Nat : m \in P
  <2> HIDE DEF P
  <2> QED
    BY <1>1, <1>2, NatLemma
<1> QED
  BY <1>3 DEF Follows

\* f and h begin alike and go on alike:
Alike(f, h, n) ==
    f[0] = h[0] /\ \A i \in 1..n : f[i - 1] = h[i - 1] => f[i] = h[i]

\* they are the same.
LEMMA RecursionAgrees ==
    ASSUME NEW n \in Nat, NEW f, NEW h, Alike(f, h, n)
    PROVE  \A i \in 0..n : f[i] = h[i]
<1> DEFINE P == {i \in Nat : i <= n => f[i] = h[i]}
<1>1. 0 \in P
  BY DEF Alike
<1>2. ASSUME NEW m \in Nat, m \in P PROVE m + 1 \in P
  BY <1>2 DEF Alike
<1>3. \A m \in Nat : m \in P
  <2> HIDE DEF P
  <2> QED
    BY <1>1, <1>2, NatLemma
<1> QED
  BY <1>3

-----------------------------------------------------------------------------
(* The environment file (ManagedEnvironment)                               *)
(*                                                                         *)
(* Quoting, decoding, cleaning of paths and reading of lines go from one   *)
(* character, component or line to the next.  For each of them a lemma     *)
(* says what one more does; the rest is induction over sequences.          *)

\* Texts of any length, and what is known while one is decoded.
Plain == Seq(Environment!Characters)
Decoders == [mode : {"plain", "escape", "error"}, text : Plain]
NothingDecoded == [mode |-> "plain", text |-> <<>>]

\* One character more keeps the type of the decoder.
LEMMA DecodeType ==
    ASSUME NEW s \in Decoders, NEW c \in Environment!Characters
    PROVE  Environment!Decode(s, c) \in Decoders
<1>1. Append(s.text, c) \in Plain
  BY DEF Decoders, Plain
<1> QED
  BY <1>1 DEF Decoders, Environment!Decode

\* What is decoded is the last of the states that the characters lead through,
LEMMA DecodeIs ==
    ASSUME NEW t \in Plain
    PROVE  \E f \in [0..Len(t) -> Decoders] :
              /\ f[0] = NothingDecoded
              /\ \A i \in 1..Len(t) : f[i] = Environment!Decode(f[i - 1], t[i])
              /\ Environment!Decoded(t) = f[Len(t)]
<1> DEFINE n == Len(t)
           g == [i \in 1..n |-> [s \in Decoders |-> Environment!Decode(s, t[i])]]
<1>1. n \in Nat /\ \A i \in 1..n : t[i] \in Environment!Characters
  BY DEF Plain
<1>2. NothingDecoded \in Decoders
  BY DEF NothingDecoded, Decoders, Plain
<1>3. g \in [1..n -> [Decoders -> Decoders]]
  BY <1>1, DecodeType
<1> HIDE DEF g, n
<1>4. PICK f : Follows(f, n, Decoders, NothingDecoded, g)
  BY <1>1, <1>2, <1>3, RecursionExists
<1>5. \A i \in 1..n : f[i - 1] \in Decoders /\ f[i] = Environment!Decode(f[i - 1], t[i])
  <2> TAKE i \in 1..n
  <2>1. i - 1 \in 0..n
    BY <1>1
  <2> QED
    BY <1>4, <2>1 DEF g, Follows
<1> DEFINE Goes(h) == h = [i \in 0..n |-> IF i = 0 THEN NothingDecoded ELSE Environment!Decode(h[i - 1], t[i])]
           a == CHOOSE h : Goes(h)
<1>6. Goes(f)
  <2>1. \A i \in 0..n : f[i] = IF i = 0 THEN NothingDecoded ELSE Environment!Decode(f[i - 1], t[i])
    BY <1>1, <1>4, <1>5 DEF Follows
  <2>2. f = [i \in 0..n |-> f[i]]
    BY <1>4 DEF Follows
  <2> QED
    BY <2>1, <2>2
<1>7. Goes(a)
  <2> HIDE DEF Goes
  <2> QED
    BY <1>6
<1>8. Environment!Decoded(t) = a[n]
  BY DEF Environment!Decoded, n, NothingDecoded
<1> HIDE DEF a
<1>9. \A i \in 0..n : a[i] = IF i = 0 THEN NothingDecoded ELSE Environment!Decode(a[i - 1], t[i])
  <2> DEFINE body == [i \in 0..n |-> IF i = 0 THEN NothingDecoded ELSE Environment!Decode(a[i - 1], t[i])]
  <2>1. a = body
    BY <1>7
  <2>2. \A i \in 0..n : body[i] = IF i = 0 THEN NothingDecoded ELSE Environment!Decode(a[i - 1], t[i])
    OBVIOUS
  <2> HIDE DEF body
  <2> QED
    BY ONLY <2>1, <2>2
<1>10. Alike(a, f, n)
  <2>1. a[0] = f[0]
    BY <1>1, <1>4, <1>9 DEF Follows
  <2>2. \A i \in 1..n : a[i - 1] = f[i - 1] => a[i] = f[i]
    BY <1>1, <1>5, <1>9
  <2> QED
    BY <2>1, <2>2 DEF Alike
<1>12. a[n] = f[n]
  <2>1. \A i \in 0..n : a[i] = f[i]
    BY <1>1, <1>10, RecursionAgrees
  <2> QED
    BY <1>1, <2>1
<1> QED
  BY <1>4, <1>5, <1>8, <1>12 DEF n, Follows

\* one more character is one step more.
LEMMA DecodeAppends ==
    /\ Environment!Decoded(<<>>) = NothingDecoded
    /\ \A t \in Plain : Environment!Decoded(t) \in Decoders
    /\ \A t \in Plain, c \in Environment!Characters :
          /\ Append(t, c) \in Plain
          /\ Environment!Decoded(Append(t, c)) = Environment!Decode(Environment!Decoded(t), c)
<1>1. <<>> \in Plain /\ Len(<<>>) = 0
  BY DEF Plain
<1>2. Environment!Decoded(<<>>) = NothingDecoded
  BY <1>1, DecodeIs
<1>3. ASSUME NEW t \in Plain PROVE Environment!Decoded(t) \in Decoders /\ Len(t) \in Nat
  <2>1. Len(t) \in Nat
    BY DEF Plain
  <2> QED
    BY <2>1, DecodeIs
<1>4. ASSUME NEW t \in Plain, NEW c \in Environment!Characters
      PROVE  /\ Append(t, c) \in Plain
             /\ Environment!Decoded(Append(t, c)) = Environment!Decode(Environment!Decoded(t), c)
  <2> DEFINE u == Append(t, c)
             n == Len(t)
  <2>1. /\ u \in Plain /\ n \in Nat /\ Len(u) = n + 1 /\ u[n + 1] = c
        /\ \A i \in 1..n : u[i] = t[i]
    BY AppendParts DEF Plain
  <2>0. n \in Nat
    BY <2>1
  <2> HIDE DEF u, n
  <2>2. PICK f \in [0..n -> Decoders] :
              /\ f[0] = NothingDecoded
              /\ \A i \in 1..n : f[i] = Environment!Decode(f[i - 1], t[i])
              /\ Environment!Decoded(t) = f[n]
    BY DecodeIs DEF n
  <2>3. PICK h \in [0..(n + 1) -> Decoders] :
              /\ h[0] = NothingDecoded
              /\ \A i \in 1..(n + 1) : h[i] = Environment!Decode(h[i - 1], u[i])
              /\ Environment!Decoded(u) = h[n + 1]
    BY <2>1, DecodeIs
  <2>4. Alike(f, h, n)
    BY <2>1, <2>2, <2>3 DEF Alike
  <2>6. \A i \in 0..n : f[i] = h[i]
    BY <2>0, <2>4, RecursionAgrees
  <2>7. h[n + 1] = Environment!Decode(h[n], u[n + 1])
    <3>1. n + 1 \in 1..(n + 1) /\ (n + 1) - 1 = n
      BY <2>1
    <3> QED
      BY <2>3, <3>1
  <2>8. Environment!Decoded(u) = Environment!Decode(Environment!Decoded(t), c)
    BY <2>0, <2>1, <2>2, <2>3, <2>6, <2>7
  <2> QED
    BY <2>1, <2>8 DEF u
<1> QED
  BY <1>2, <1>3, <1>4

\* What quoting makes of a character.
Escaped(c) == IF c \in {"backslash", "quote"} THEN <<"backslash", c>> ELSE <<c>>

\* One character more.
Quoted(s, c) == s \o Escaped(c)

\* A character more keeps what is quoted a text.
LEMMA QuoteType ==
    ASSUME NEW s \in Plain, NEW c \in Environment!Characters
    PROVE  Quoted(s, c) \in Plain
<1>1. "backslash" \in Environment!Characters
  BY DEF Environment!Characters
<1>2. Escaped(c) \in Plain
  BY <1>1 DEF Escaped, Plain
<1> QED
  BY <1>2 DEF Quoted, Plain

\* What is quoted grows with the characters,
LEMMA QuoteIs ==
    ASSUME NEW t \in Plain
    PROVE  \E f \in [0..Len(t) -> Plain] :
              /\ f[0] = <<>>
              /\ \A i \in 1..Len(t) : f[i] = Quoted(f[i - 1], t[i])
              /\ Environment!Quote(t) = f[Len(t)]
<1> DEFINE n == Len(t)
           g == [i \in 1..n |-> [s \in Plain |-> Quoted(s, t[i])]]
<1>1. n \in Nat /\ \A i \in 1..n : t[i] \in Environment!Characters
  BY DEF Plain
<1>2. <<>> \in Plain
  BY DEF Plain
<1>3. g \in [1..n -> [Plain -> Plain]]
  BY <1>1, QuoteType
<1> HIDE DEF g, n
<1>4. PICK f : Follows(f, n, Plain, <<>>, g)
  BY <1>1, <1>2, <1>3, RecursionExists
<1>5. \A i \in 1..n : f[i - 1] \in Plain /\ f[i] = Quoted(f[i - 1], t[i])
  <2> TAKE i \in 1..n
  <2>1. i - 1 \in 0..n
    BY <1>1
  <2> QED
    BY <1>4, <2>1 DEF g, Follows
<1> DEFINE Goes(h) == h = [i \in 0..n |-> IF i = 0 THEN <<>> ELSE Quoted(h[i - 1], t[i])]
           a == CHOOSE h : Goes(h)
<1>6. Goes(f)
  <2>1. \A i \in 0..n : f[i] = IF i = 0 THEN <<>> ELSE Quoted(f[i - 1], t[i])
    BY <1>1, <1>4, <1>5 DEF Follows
  <2>2. f = [i \in 0..n |-> f[i]]
    BY <1>4 DEF Follows
  <2> QED
    BY <2>1, <2>2
<1>7. Goes(a)
  <2> HIDE DEF Goes
  <2> QED
    BY <1>6
<1>8. Environment!Quote(t) = a[n]
  BY DEF Environment!Quote, n, Quoted, Escaped
<1> HIDE DEF a
<1>9. \A i \in 0..n : a[i] = IF i = 0 THEN <<>> ELSE Quoted(a[i - 1], t[i])
  <2> DEFINE body == [i \in 0..n |-> IF i = 0 THEN <<>> ELSE Quoted(a[i - 1], t[i])]
  <2>1. a = body
    BY <1>7
  <2>2. \A i \in 0..n : body[i] = IF i = 0 THEN <<>> ELSE Quoted(a[i - 1], t[i])
    OBVIOUS
  <2> HIDE DEF body
  <2> QED
    BY ONLY <2>1, <2>2
<1>10. Alike(a, f, n)
  <2>1. a[0] = f[0]
    BY <1>1, <1>4, <1>9 DEF Follows
  <2>2. \A i \in 1..n : a[i - 1] = f[i - 1] => a[i] = f[i]
    BY <1>1, <1>5, <1>9
  <2> QED
    BY <2>1, <2>2 DEF Alike
<1>12. a[n] = f[n]
  <2>1. \A i \in 0..n : a[i] = f[i]
    BY <1>1, <1>10, RecursionAgrees
  <2> QED
    BY <1>1, <2>1
<1> QED
  BY <1>4, <1>5, <1>8, <1>12 DEF n, Follows

\* one by one.
LEMMA QuoteAppends ==
    /\ Environment!Quote(<<>>) = <<>>
    /\ \A t \in Plain : Environment!Quote(t) \in Plain
    /\ \A t \in Plain, c \in Environment!Characters :
          /\ Append(t, c) \in Plain
          /\ Environment!Quote(Append(t, c)) = Quoted(Environment!Quote(t), c)
<1>1. <<>> \in Plain /\ Len(<<>>) = 0
  BY DEF Plain
<1>2. Environment!Quote(<<>>) = <<>>
  BY <1>1, QuoteIs
<1>3. ASSUME NEW t \in Plain PROVE Environment!Quote(t) \in Plain /\ Len(t) \in Nat
  <2>1. Len(t) \in Nat
    BY DEF Plain
  <2> QED
    BY <2>1, QuoteIs
<1>4. ASSUME NEW t \in Plain, NEW c \in Environment!Characters
      PROVE  /\ Append(t, c) \in Plain
             /\ Environment!Quote(Append(t, c)) = Quoted(Environment!Quote(t), c)
  <2> DEFINE u == Append(t, c)
             n == Len(t)
  <2>1. /\ u \in Plain /\ n \in Nat /\ Len(u) = n + 1 /\ u[n + 1] = c
        /\ \A i \in 1..n : u[i] = t[i]
    BY AppendParts DEF Plain
  <2>0. n \in Nat
    BY <2>1
  <2> HIDE DEF u, n
  <2>2. PICK f \in [0..n -> Plain] :
              /\ f[0] = <<>>
              /\ \A i \in 1..n : f[i] = Quoted(f[i - 1], t[i])
              /\ Environment!Quote(t) = f[n]
    BY QuoteIs DEF n
  <2>3. PICK h \in [0..(n + 1) -> Plain] :
              /\ h[0] = <<>>
              /\ \A i \in 1..(n + 1) : h[i] = Quoted(h[i - 1], u[i])
              /\ Environment!Quote(u) = h[n + 1]
    BY <2>1, QuoteIs
  <2>4. Alike(f, h, n)
    BY <2>1, <2>2, <2>3 DEF Alike
  <2>6. \A i \in 0..n : f[i] = h[i]
    BY <2>0, <2>4, RecursionAgrees
  <2>7. h[n + 1] = Quoted(h[n], u[n + 1])
    <3>1. n + 1 \in 1..(n + 1) /\ (n + 1) - 1 = n
      BY <2>1
    <3> QED
      BY <2>3, <3>1
  <2>8. Environment!Quote(u) = Quoted(Environment!Quote(t), c)
    BY <2>0, <2>1, <2>2, <2>3, <2>6, <2>7
  <2> QED
    BY <2>1, <2>8 DEF u
<1> QED
  BY <1>2, <1>3, <1>4

\* The components of a path.
Parts == Seq(PartNames)

\* One component more.
Kept(parts, c) ==
    IF c = ".." THEN SubSeq(parts, 1, Len(parts) - 1) ELSE Append(parts, c)

\* What is kept are components.
LEMMA CleanType ==
    ASSUME NEW s \in Parts, NEW c \in PartNames
    PROVE  Kept(s, c) \in Parts
<1>1. Append(s, c) \in Parts
  BY DEF Parts
<1>2. SubSeq(s, 1, Len(s) - 1) \in Parts
  <2>1. Len(s) \in Nat /\ \A i \in 1..Len(s) : s[i] \in PartNames
    BY DEF Parts
  <2>2. CASE Len(s) = 0
    <3>1. SubSeq(s, 1, Len(s) - 1) = <<>>
      BY <2>2 DEF Parts
    <3> QED
      BY <3>1 DEF Parts
  <2>3. CASE Len(s) # 0
    BY <2>1, <2>3 DEF Parts
  <2> QED
    BY <2>2, <2>3
<1> QED
  BY <1>1, <1>2 DEF Kept

\* What is cleaned are the components that were kept,
LEMMA CleanIs ==
    ASSUME NEW t \in Parts
    PROVE  \E f \in [0..Len(t) -> Parts] :
              /\ f[0] = <<>>
              /\ \A i \in 1..Len(t) : f[i] = Kept(f[i - 1], t[i])
              /\ Environment!Cleaned(t) = f[Len(t)]
<1> DEFINE n == Len(t)
           g == [i \in 1..n |-> [s \in Parts |-> Kept(s, t[i])]]
<1>1. n \in Nat /\ \A i \in 1..n : t[i] \in PartNames
  BY DEF Parts
<1>2. <<>> \in Parts
  BY DEF Parts
<1>3. g \in [1..n -> [Parts -> Parts]]
  BY <1>1, CleanType
<1> HIDE DEF g, n
<1>4. PICK f : Follows(f, n, Parts, <<>>, g)
  BY <1>1, <1>2, <1>3, RecursionExists
<1>5. \A i \in 1..n : f[i - 1] \in Parts /\ f[i] = Kept(f[i - 1], t[i])
  <2> TAKE i \in 1..n
  <2>1. i - 1 \in 0..n
    BY <1>1
  <2> QED
    BY <1>4, <2>1 DEF g, Follows
<1> DEFINE Goes(h) == h = [i \in 0..n |-> IF i = 0 THEN <<>> ELSE Kept(h[i - 1], t[i])]
           a == CHOOSE h : Goes(h)
<1>6. Goes(f)
  <2>1. \A i \in 0..n : f[i] = IF i = 0 THEN <<>> ELSE Kept(f[i - 1], t[i])
    BY <1>1, <1>4, <1>5 DEF Follows
  <2>2. f = [i \in 0..n |-> f[i]]
    BY <1>4 DEF Follows
  <2> QED
    BY <2>1, <2>2
<1>7. Goes(a)
  <2> HIDE DEF Goes
  <2> QED
    BY <1>6
<1>8. Environment!Cleaned(t) = a[n]
  BY DEF Environment!Cleaned, n, Kept
<1> HIDE DEF a
<1>9. \A i \in 0..n : a[i] = IF i = 0 THEN <<>> ELSE Kept(a[i - 1], t[i])
  <2> DEFINE body == [i \in 0..n |-> IF i = 0 THEN <<>> ELSE Kept(a[i - 1], t[i])]
  <2>1. a = body
    BY <1>7
  <2>2. \A i \in 0..n : body[i] = IF i = 0 THEN <<>> ELSE Kept(a[i - 1], t[i])
    OBVIOUS
  <2> HIDE DEF body
  <2> QED
    BY ONLY <2>1, <2>2
<1>10. Alike(a, f, n)
  <2>1. a[0] = f[0]
    BY <1>1, <1>4, <1>9 DEF Follows
  <2>2. \A i \in 1..n : a[i - 1] = f[i - 1] => a[i] = f[i]
    BY <1>1, <1>5, <1>9
  <2> QED
    BY <2>1, <2>2 DEF Alike
<1>12. a[n] = f[n]
  <2>1. \A i \in 0..n : a[i] = f[i]
    BY <1>1, <1>10, RecursionAgrees
  <2> QED
    BY <1>1, <2>1
<1> QED
  BY <1>4, <1>5, <1>8, <1>12 DEF n, Follows

\* one component at a time.
LEMMA CleanAppends ==
    /\ Environment!Cleaned(<<>>) = <<>>
    /\ \A t \in Parts : Environment!Cleaned(t) \in Parts
    /\ \A t \in Parts, c \in PartNames :
          /\ Append(t, c) \in Parts
          /\ Environment!Cleaned(Append(t, c)) = Kept(Environment!Cleaned(t), c)
<1>1. <<>> \in Parts /\ Len(<<>>) = 0
  BY DEF Parts
<1>2. Environment!Cleaned(<<>>) = <<>>
  BY <1>1, CleanIs
<1>3. ASSUME NEW t \in Parts PROVE Environment!Cleaned(t) \in Parts /\ Len(t) \in Nat
  <2>1. Len(t) \in Nat
    BY DEF Parts
  <2> QED
    BY <2>1, CleanIs
<1>4. ASSUME NEW t \in Parts, NEW c \in PartNames
      PROVE  /\ Append(t, c) \in Parts
             /\ Environment!Cleaned(Append(t, c)) = Kept(Environment!Cleaned(t), c)
  <2> DEFINE u == Append(t, c)
             n == Len(t)
  <2>1. /\ u \in Parts /\ n \in Nat /\ Len(u) = n + 1 /\ u[n + 1] = c
        /\ \A i \in 1..n : u[i] = t[i]
    BY AppendParts DEF Parts
  <2>0. n \in Nat
    BY <2>1
  <2> HIDE DEF u, n
  <2>2. PICK f \in [0..n -> Parts] :
              /\ f[0] = <<>>
              /\ \A i \in 1..n : f[i] = Kept(f[i - 1], t[i])
              /\ Environment!Cleaned(t) = f[n]
    BY CleanIs DEF n
  <2>3. PICK h \in [0..(n + 1) -> Parts] :
              /\ h[0] = <<>>
              /\ \A i \in 1..(n + 1) : h[i] = Kept(h[i - 1], u[i])
              /\ Environment!Cleaned(u) = h[n + 1]
    BY <2>1, CleanIs
  <2>4. Alike(f, h, n)
    BY <2>1, <2>2, <2>3 DEF Alike
  <2>6. \A i \in 0..n : f[i] = h[i]
    BY <2>0, <2>4, RecursionAgrees
  <2>7. h[n + 1] = Kept(h[n], u[n + 1])
    <3>1. n + 1 \in 1..(n + 1) /\ (n + 1) - 1 = n
      BY <2>1
    <3> QED
      BY <2>3, <3>1
  <2>8. Environment!Cleaned(u) = Kept(Environment!Cleaned(t), c)
    BY <2>0, <2>1, <2>2, <2>3, <2>6, <2>7
  <2> QED
    BY <2>1, <2>8 DEF u
<1> QED
  BY <1>2, <1>3, <1>4

-----------------------------------------------------------------------------
(* What is written is read back.                                           *)

\* One element more, and two.
LEMMA TwoAppends ==
    ASSUME NEW C, NEW t \in Seq(C), NEW b \in C, NEW c \in C
    PROVE  /\ t \o <<c>> = Append(t, c)
           /\ t \o <<b, c>> = Append(Append(t, b), c)
  OBVIOUS

\* Every character that was quoted is decoded, with no escape pending.
LEMMA QuotedIsDecoded ==
    \A t \in Plain : Environment!Decoded(Environment!Quote(t)) = [mode |-> "plain", text |-> t]
<1> DEFINE P == {t \in Plain :
                   Environment!Decoded(Environment!Quote(t)) = [mode |-> "plain", text |-> t]}
<1>1. <<>> \in P
  <2>1. <<>> \in Plain
    BY DEF Plain
  <2> QED
    BY <2>1, QuoteAppends, DecodeAppends DEF NothingDecoded
<1>2. ASSUME NEW t \in Plain, NEW c \in Environment!Characters, t \in P PROVE Append(t, c) \in P
  <2> DEFINE q == Environment!Quote(t)
             d == [mode |-> "plain", text |-> t]
  <2>1. Append(t, c) \in Plain /\ q \in Plain /\ "backslash" \in Environment!Characters
    BY QuoteAppends DEF Plain, Environment!Characters
  <2>2. Environment!Decoded(q) = d
    BY <1>2
  <2>3. Environment!Quote(Append(t, c)) = q \o Escaped(c)
    BY QuoteAppends DEF Quoted
  <2> HIDE DEF q
  <2>4. CASE c \in {"backslash", "quote"}
    <3>1. q \o Escaped(c) = Append(Append(q, "backslash"), c)
      BY <2>1, <2>4, TwoAppends DEF Escaped, Plain
    <3>2. /\ Append(q, "backslash") \in Plain
          /\ Environment!Decoded(Append(q, "backslash")) = Environment!Decode(d, "backslash")
      BY <2>1, <2>2, DecodeAppends
    <3>3. Environment!Decode(d, "backslash") = [mode |-> "escape", text |-> t]
      BY DEF Environment!Decode
    <3> HIDE DEF d
    <3>4. Environment!Decoded(q \o Escaped(c)) = Environment!Decode([mode |-> "escape", text |-> t], c)
      BY <3>1, <3>2, <3>3, DecodeAppends
    <3>5. Environment!Decode([mode |-> "escape", text |-> t], c)
             = [mode |-> "plain", text |-> Append(t, c)]
      BY <2>4 DEF Environment!Decode
    <3> QED
      BY <2>1, <2>3, <3>4, <3>5
  <2>5. CASE c \notin {"backslash", "quote"}
    <3>1. q \o Escaped(c) = Append(q, c)
      BY <2>1, <2>5, TwoAppends DEF Escaped, Plain
    <3>2. Environment!Decoded(Append(q, c)) = Environment!Decode(d, c)
      BY <2>1, <2>2, DecodeAppends
    <3>3. Environment!Decode(d, c) = [mode |-> "plain", text |-> Append(t, c)]
      BY <2>5 DEF Environment!Decode
    <3> QED
      BY <2>1, <2>3, <3>1, <3>2, <3>3
  <2> QED
    BY <2>4, <2>5
<1>3. \A t \in Plain : t \in P
  <2> HIDE DEF P
  <2> QED
    BY <1>1, <1>2, SeqLemma DEF Plain
<1> QED
  BY <1>3

\* What was quoted is unquoted.
LEMMA UnquoteLemma ==
    /\ \A t \in Plain : Environment!Unquote(t) \in Plain \cup {Unset}
    /\ \A t \in Plain : Environment!Quote(t) \in Plain
    /\ \A t \in Plain : Environment!ValidText(t)
                          => Environment!Unquote(Environment!Quote(t)) = t
<1>1. ASSUME NEW t \in Plain PROVE Environment!Unquote(t) \in Plain \cup {Unset}
  <2>1. Environment!Decoded(t).text \in Plain
    BY DecodeAppends DEF Decoders
  <2> QED
    BY <2>1 DEF Environment!Unquote
<1>2. ASSUME NEW t \in Plain, Environment!ValidText(t)
      PROVE  Environment!Unquote(Environment!Quote(t)) = t
  <2>1. Environment!Decoded(Environment!Quote(t)) = [mode |-> "plain", text |-> t]
    BY QuotedIsDecoded
  <2> QED
    BY <1>2, <2>1 DEF Environment!Unquote
<1> QED
  BY <1>1, <1>2, QuoteAppends

\* Components none of which goes back.
Forward == Seq(PartNames \ {".."})

\* Cleaning leaves none, and nothing to clean.
LEMMA CleanedLemma ==
    /\ \A t \in Parts : Environment!Cleaned(t) \in Forward
    /\ \A t \in Forward : t \in Parts /\ Environment!Cleaned(t) = t
<1> DEFINE P == {t \in Parts : Environment!Cleaned(t) \in Forward}
           Q == {t \in Forward : t \in Parts /\ Environment!Cleaned(t) = t}
<1>1. <<>> \in P /\ <<>> \in Q
  <2>1. <<>> \in Parts /\ <<>> \in Forward
    BY DEF Parts, Forward
  <2> QED
    BY <2>1, CleanAppends
<1>2. ASSUME NEW s \in Forward PROVE SubSeq(s, 1, Len(s) - 1) \in Forward
  <2>1. Len(s) \in Nat /\ \A i \in 1..Len(s) : s[i] \in PartNames \ {".."}
    BY DEF Forward
  <2>2. CASE Len(s) = 0
    <3>1. SubSeq(s, 1, Len(s) - 1) = <<>>
      BY <2>2 DEF Forward
    <3> QED
      BY <3>1 DEF Forward
  <2>3. CASE Len(s) # 0
    BY <2>1, <2>3 DEF Forward
  <2> QED
    BY <2>2, <2>3
<1>3. ASSUME NEW t \in Parts, NEW c \in PartNames, t \in P PROVE Append(t, c) \in P
  <2>1. Append(t, c) \in Parts /\ Environment!Cleaned(Append(t, c)) = Kept(Environment!Cleaned(t), c)
    BY CleanAppends
  <2>2. Environment!Cleaned(t) \in Forward
    BY <1>3
  <2>3. Kept(Environment!Cleaned(t), c) \in Forward
    <3>1. CASE c = ".."
      BY <1>2, <2>2, <3>1 DEF Kept
    <3>2. CASE c # ".."
      BY <2>2, <3>2, AppendParts DEF Kept, Forward
    <3> QED
      BY <3>1, <3>2
  <2> QED
    BY <2>1, <2>3
<1>4. ASSUME NEW t \in Forward, NEW c \in PartNames \ {".."}, t \in Q PROVE Append(t, c) \in Q
  <2>1. Append(t, c) \in Forward
    BY AppendParts DEF Forward
  <2>2. Append(t, c) \in Parts /\ Environment!Cleaned(Append(t, c)) = Kept(t, c)
    BY <1>4, CleanAppends
  <2> QED
    BY <2>1, <2>2 DEF Kept
<1>5. \A t \in Parts : t \in P
  <2> HIDE DEF P
  <2> QED
    BY <1>1, <1>3, SeqLemma DEF Parts
<1>6. \A t \in Forward : t \in Q
  <2> HIDE DEF Q
  <2> QED
    BY <1>1, <1>4, SeqLemma DEF Forward
<1> QED
  BY <1>5, <1>6

\* Paths that are normalised.
Clear == {p \in AnyPath : p.absolute /\ p.parts \in Forward}

\* Normalising a path once is enough, whatever the directory.
LEMMA NormalizeLemma ==
    /\ \A p \in AnyPath, cwd \in AnyPath : Environment!Normalize(p, cwd) \in Clear
    /\ \A p \in Clear, cwd \in AnyPath : Environment!Normalize(p, cwd) = p
<1>1. ASSUME NEW p \in AnyPath, p.absolute
      PROVE  Environment!Clean(p) \in Clear /\ (p \in Clear => Environment!Clean(p) = p)
  <2>1. p.parts \in Parts /\ p = [absolute |-> p.absolute, parts |-> p.parts]
    BY DEF AnyPath, Parts
  <2>2. Environment!Cleaned(p.parts) \in Forward /\ Environment!Cleaned(p.parts) \in Parts
    BY <2>1, CleanedLemma
  <2>3. Environment!Clean(p) = [absolute |-> p.absolute, parts |-> Environment!Cleaned(p.parts)]
    BY DEF Environment!Clean, AnyPath
  <2>4. Environment!Clean(p) \in Clear
    BY <1>1, <2>2, <2>3 DEF Clear, AnyPath, Parts
  <2>5. ASSUME p \in Clear PROVE Environment!Clean(p) = p
    <3>1. Environment!Cleaned(p.parts) = p.parts
      BY <2>5, CleanedLemma DEF Clear
    <3> QED
      BY <2>1, <2>3, <3>1
  <2> QED
    BY <2>4, <2>5
<1>2. ASSUME NEW base \in AnyPath, NEW parts \in Parts
      PROVE  Environment!Join(base, parts) \in AnyPath /\ Environment!Join(base, parts).absolute
  <2>1. base.parts \o parts \in Parts
    BY DEF AnyPath, Parts
  <2> QED
    BY <2>1 DEF Environment!Join, AnyPath, Parts
<1>3. Environment!Home \in AnyPath
  <2>1. <<"home">> \in Parts
    BY DEF Parts, PartNames
  <2> QED
    BY <2>1 DEF Environment!Home, AnyPath, Parts
<1>4. ASSUME NEW p \in AnyPath, NEW cwd \in AnyPath PROVE Environment!Normalize(p, cwd) \in Clear
  <2>1. p.parts \in Parts
    BY DEF AnyPath, Parts
  <2>2. CASE ~p.absolute /\ p.parts # <<>> /\ Head(p.parts) = "~"
    <3>1. Tail(p.parts) \in Parts
      BY <2>1, <2>2 DEF Parts
    <3> QED
      BY <1>1, <1>2, <1>3, <2>2, <3>1 DEF Environment!Normalize
  <2>3. CASE p.absolute
    BY <1>1, <2>3 DEF Environment!Normalize
  <2>4. CASE ~p.absolute /\ ~(p.parts # <<>> /\ Head(p.parts) = "~")
    BY <1>1, <1>2, <2>1, <2>4 DEF Environment!Normalize
  <2> QED
    BY <2>2, <2>3, <2>4
<1>5. ASSUME NEW p \in Clear, NEW cwd \in AnyPath PROVE Environment!Normalize(p, cwd) = p
  BY <1>1 DEF Environment!Normalize, Clear
<1> QED
  BY <1>4, <1>5

-----------------------------------------------------------------------------
(* Reading lines.                                                          *)

\* Lines as an install writes them, or as the user leaves them.
FileLines ==
    ({"SHELL"} \X Plain) \cup ((LineNames \ {"SHELL"}) \X (Settings \cup {Unset}))

\* What has been read, and what at first.
Readers == [mode : {"no schema", "schema", "error"},
            values : [Environment!Names -> Settings \cup {Unset}]]
Unread == [mode |-> "no schema", values |-> [n \in Environment!Names |-> Unset]]

\* The value of a line.
Value(line) == IF line[1] = "SHELL" THEN Environment!Unquote(line[2]) ELSE line[2]

\* What a line says.
LEMMA LineLemma ==
    ASSUME NEW l \in FileLines
    PROVE  l[1] \in LineNames /\ Value(l) \in Settings \cup {Unset}
<1>1. CASE l \in {"SHELL"} \X Plain
  <2>1. l[1] = "SHELL" /\ l[2] \in Plain
    BY <1>1
  <2>2. Value(l) \in Plain \cup {Unset}
    BY <2>1, UnquoteLemma DEF Value
  <2>3. l[1] \in LineNames
    BY <2>1 DEF LineNames, Environment!Names, Environment!Required
  <2> QED
    BY <2>2, <2>3 DEF Settings, Plain
<1>2. CASE l \in (LineNames \ {"SHELL"}) \X (Settings \cup {Unset})
  BY <1>2 DEF Value
<1> QED
  BY <1>1, <1>2 DEF FileLines

\* A line read leaves something of the right form.
LEMMA ReadType ==
    ASSUME NEW s \in Readers, NEW l \in FileLines
    PROVE  Environment!Read(s, l) \in Readers
<1>1. l[1] \in LineNames /\ Value(l) \in Settings \cup {Unset}
  BY LineLemma
<1>2. CASE l[1] = "SCHEMA"
  BY <1>2 DEF Environment!Read, Readers
<1>3. CASE l[1] # "SCHEMA" /\ l[1] \in Environment!Names /\ Value(l) # Unset /\ s.values[l[1]] = Unset
  <2>1. Environment!Read(s, l) = [s EXCEPT !.values[l[1]] = Value(l)]
    BY <1>3 DEF Environment!Read, Value
  <2> HIDE DEF Value, Settings
  <2> QED
    BY <1>1, <1>3, <2>1 DEF Readers
<1>4. CASE l[1] # "SCHEMA" /\ ~(l[1] \in Environment!Names /\ Value(l) # Unset /\ s.values[l[1]] = Unset)
  <2>1. Environment!Read(s, l) = [s EXCEPT !.mode = "error"]
    BY <1>4 DEF Environment!Read, Value
  <2> QED
    BY <2>1 DEF Readers
<1> QED
  BY <1>2, <1>3, <1>4

\* What a file says is what its lines say,
LEMMA ReadIs ==
    ASSUME NEW t \in Seq(FileLines)
    PROVE  \E f \in [0..Len(t) -> Readers] :
              /\ f[0] = Unread
              /\ \A i \in 1..Len(t) : f[i] = Environment!Read(f[i - 1], t[i])
              /\ Environment!AllRead(t) = f[Len(t)]
<1> DEFINE n == Len(t)
           g == [i \in 1..n |-> [s \in Readers |-> Environment!Read(s, t[i])]]
<1>1. n \in Nat /\ \A i \in 1..n : t[i] \in FileLines
  OBVIOUS
<1>2. Unread \in Readers
  BY DEF Unread, Readers
<1>3. g \in [1..n -> [Readers -> Readers]]
  BY <1>1, ReadType
<1> HIDE DEF g, n
<1>4. PICK f : Follows(f, n, Readers, Unread, g)
  BY <1>1, <1>2, <1>3, RecursionExists
<1>5. \A i \in 1..n : f[i - 1] \in Readers /\ f[i] = Environment!Read(f[i - 1], t[i])
  <2> TAKE i \in 1..n
  <2>1. i - 1 \in 0..n
    BY <1>1
  <2> QED
    BY <1>4, <2>1 DEF g, Follows
<1> DEFINE Goes(h) == h = [i \in 0..n |-> IF i = 0 THEN Unread ELSE Environment!Read(h[i - 1], t[i])]
           a == CHOOSE h : Goes(h)
<1>6. Goes(f)
  <2>1. \A i \in 0..n : f[i] = IF i = 0 THEN Unread ELSE Environment!Read(f[i - 1], t[i])
    BY <1>1, <1>4, <1>5 DEF Follows
  <2>2. f = [i \in 0..n |-> f[i]]
    BY <1>4 DEF Follows
  <2> QED
    BY <2>1, <2>2
<1>7. Goes(a)
  <2> HIDE DEF Goes
  <2> QED
    BY <1>6
<1>8. Environment!AllRead(t) = a[n]
  BY DEF Environment!AllRead, n, Unread
<1> HIDE DEF a
<1>9. \A i \in 0..n : a[i] = IF i = 0 THEN Unread ELSE Environment!Read(a[i - 1], t[i])
  <2> DEFINE body == [i \in 0..n |-> IF i = 0 THEN Unread ELSE Environment!Read(a[i - 1], t[i])]
  <2>1. a = body
    BY <1>7
  <2>2. \A i \in 0..n : body[i] = IF i = 0 THEN Unread ELSE Environment!Read(a[i - 1], t[i])
    OBVIOUS
  <2> HIDE DEF body
  <2> QED
    BY ONLY <2>1, <2>2
<1>10. Alike(a, f, n)
  <2>1. a[0] = f[0]
    BY <1>1, <1>4, <1>9 DEF Follows
  <2>2. \A i \in 1..n : a[i - 1] = f[i - 1] => a[i] = f[i]
    BY <1>1, <1>5, <1>9
  <2> QED
    BY <2>1, <2>2 DEF Alike
<1>12. a[n] = f[n]
  <2>1. \A i \in 0..n : a[i] = f[i]
    BY <1>1, <1>10, RecursionAgrees
  <2> QED
    BY <1>1, <2>1
<1> QED
  BY <1>4, <1>5, <1>8, <1>12 DEF n, Follows

\* one by one.
LEMMA ReadAppends ==
    /\ Environment!AllRead(<<>>) = Unread
    /\ \A t \in Seq(FileLines) : Environment!AllRead(t) \in Readers
    /\ \A t \in Seq(FileLines), c \in FileLines :
          /\ Append(t, c) \in Seq(FileLines)
          /\ Environment!AllRead(Append(t, c)) = Environment!Read(Environment!AllRead(t), c)
<1>1. <<>> \in Seq(FileLines) /\ Len(<<>>) = 0
  OBVIOUS
<1>2. Environment!AllRead(<<>>) = Unread
  BY <1>1, ReadIs
<1>3. ASSUME NEW t \in Seq(FileLines) PROVE Environment!AllRead(t) \in Readers /\ Len(t) \in Nat
  <2>1. Len(t) \in Nat
    OBVIOUS
  <2> QED
    BY <2>1, ReadIs
<1>4. ASSUME NEW t \in Seq(FileLines), NEW c \in FileLines
      PROVE  /\ Append(t, c) \in Seq(FileLines)
             /\ Environment!AllRead(Append(t, c)) = Environment!Read(Environment!AllRead(t), c)
  <2> DEFINE u == Append(t, c)
             n == Len(t)
  <2>1. /\ u \in Seq(FileLines) /\ n \in Nat /\ Len(u) = n + 1 /\ u[n + 1] = c
        /\ \A i \in 1..n : u[i] = t[i]
    BY AppendParts
  <2>0. n \in Nat
    BY <2>1
  <2> HIDE DEF u, n
  <2>2. PICK f \in [0..n -> Readers] :
              /\ f[0] = Unread
              /\ \A i \in 1..n : f[i] = Environment!Read(f[i - 1], t[i])
              /\ Environment!AllRead(t) = f[n]
    BY ReadIs DEF n
  <2>3. PICK h \in [0..(n + 1) -> Readers] :
              /\ h[0] = Unread
              /\ \A i \in 1..(n + 1) : h[i] = Environment!Read(h[i - 1], u[i])
              /\ Environment!AllRead(u) = h[n + 1]
    BY <2>1, ReadIs
  <2>4. Alike(f, h, n)
    BY <2>1, <2>2, <2>3 DEF Alike
  <2>6. \A i \in 0..n : f[i] = h[i]
    BY <2>0, <2>4, RecursionAgrees
  <2>7. h[n + 1] = Environment!Read(h[n], u[n + 1])
    <3>1. n + 1 \in 1..(n + 1) /\ (n + 1) - 1 = n
      BY <2>1
    <3> QED
      BY <2>3, <3>1
  <2>8. Environment!AllRead(u) = Environment!Read(Environment!AllRead(t), c)
    BY <2>0, <2>1, <2>2, <2>3, <2>6, <2>7
  <2> QED
    BY <2>1, <2>8 DEF u
<1> QED
  BY <1>2, <1>3, <1>4

\* What one line does to what was read.
LEMMA ReadLemma ==
    ASSUME NEW s \in Readers, NEW l \in FileLines
    PROVE  /\ l[1] = "SCHEMA" => Environment!Read(s, l) =
                 [mode |-> IF s.mode = "no schema" THEN "schema" ELSE "error", values |-> s.values]
           /\ l[1] # "SCHEMA" /\ l[1] \in Environment!Names /\ Value(l) # Unset /\ s.values[l[1]] = Unset
                 => Environment!Read(s, l) =
                       [mode |-> s.mode, values |-> [s.values EXCEPT ![l[1]] = Value(l)]]
           /\ l[1] # "SCHEMA" /\ ~(l[1] \in Environment!Names /\ Value(l) # Unset /\ s.values[l[1]] = Unset)
                 => Environment!Read(s, l).mode = "error"
<1>1. CASE l[1] = "SCHEMA"
  BY <1>1 DEF Environment!Read, Readers
<1>2. CASE l[1] # "SCHEMA" /\ l[1] \in Environment!Names /\ Value(l) # Unset /\ s.values[l[1]] = Unset
  <2>1. Environment!Read(s, l) = [s EXCEPT !.values[l[1]] = Value(l)]
    BY <1>2 DEF Environment!Read, Value
  <2> QED
    BY <1>2, <2>1 DEF Readers
<1>3. CASE l[1] # "SCHEMA" /\ ~(l[1] \in Environment!Names /\ Value(l) # Unset /\ s.values[l[1]] = Unset)
  <2>1. Environment!Read(s, l) = [s EXCEPT !.mode = "error"]
    BY <1>3 DEF Environment!Read, Value
  <2> QED
    BY <1>3, <2>1 DEF Readers
<1> QED
  BY <1>1, <1>2, <1>3

-----------------------------------------------------------------------------
(* An accepted file says everything once.                                  *)

\* The lines that name n.
Naming(lines, n) == {i \in DOMAIN lines : lines[i][1] = n}

\* A line more, counted.
LEMMA NamingAppends ==
    ASSUME NEW t \in Seq(FileLines), NEW l \in FileLines, NEW n, IsFiniteSet(Naming(t, n))
    PROVE  /\ IsFiniteSet(Naming(Append(t, l), n))
           /\ l[1] = n => Cardinality(Naming(Append(t, l), n)) = Cardinality(Naming(t, n)) + 1
           /\ l[1] # n => Cardinality(Naming(Append(t, l), n)) = Cardinality(Naming(t, n))
<1>1. /\ Len(t) \in Nat /\ DOMAIN t = 1..Len(t)
      /\ DOMAIN Append(t, l) = 1..(Len(t) + 1)
      /\ Append(t, l)[Len(t) + 1] = l
      /\ \A i \in 1..Len(t) : Append(t, l)[i] = t[i]
  OBVIOUS
<1>2. CASE l[1] = n
  <2>1. Naming(Append(t, l), n) = Naming(t, n) \cup {Len(t) + 1}
    BY <1>1, <1>2 DEF Naming
  <2>2. Len(t) + 1 \notin Naming(t, n)
    BY <1>1 DEF Naming
  <2> QED
    BY <1>2, <2>1, <2>2, FS_AddElement
<1>3. CASE l[1] # n
  <2>1. Naming(Append(t, l), n) = Naming(t, n)
    BY <1>1, <1>3 DEF Naming
  <2> QED
    BY <1>3, <2>1
<1> QED
  BY <1>2, <1>3

\* Once and only once there is a value, unless there was an error.
Counted(t) ==
    LET end == Environment!AllRead(t)
    IN  /\ \A n \in LineNames : IsFiniteSet(Naming(t, n))
        /\ end.mode # "error" =>
              /\ Cardinality(Naming(t, "SCHEMA")) = IF end.mode = "schema" THEN 1 ELSE 0
              /\ \A n \in Environment!Names :
                    Cardinality(Naming(t, n)) = IF end.values[n] = Unset THEN 0 ELSE 1

\* Reading keeps this.
LEMMA CountedLemma == \A t \in Seq(FileLines) : Counted(t)
<1> DEFINE P == {t \in Seq(FileLines) : Counted(t)}
<1>1. <<>> \in P
  <2>1. \A n \in LineNames : Naming(<<>>, n) = {}
    BY DEF Naming
  <2>2. IsFiniteSet({}) /\ Cardinality({}) = 0
    BY FS_EmptySet
  <2>3. Environment!AllRead(<<>>) = Unread
    BY ReadAppends
  <2>4. \A n \in Environment!Names : n \in LineNames /\ Unread.values[n] = Unset
    BY DEF Unread, LineNames
  <2>5. "SCHEMA" \in LineNames /\ Unread.mode = "no schema"
    BY DEF Unread, LineNames
  <2>6. Counted(<<>>)
    BY <2>1, <2>2, <2>3, <2>4, <2>5 DEF Counted
  <2> QED
    BY <2>6
<1>2. ASSUME NEW t \in Seq(FileLines), NEW l \in FileLines, t \in P PROVE Append(t, l) \in P
  <2> DEFINE s == Environment!AllRead(t)
             u == Append(t, l)
             r == Environment!AllRead(u)
  <2>1. s \in Readers /\ u \in Seq(FileLines) /\ r = Environment!Read(s, l)
    BY ReadAppends
  <2>2. Counted(t)
    BY <1>2
  <2>3. \A n \in LineNames :
           /\ IsFiniteSet(Naming(u, n))
           /\ l[1] = n => Cardinality(Naming(u, n)) = Cardinality(Naming(t, n)) + 1
           /\ l[1] # n => Cardinality(Naming(u, n)) = Cardinality(Naming(t, n))
    BY <2>2, NamingAppends DEF Counted
  <2>4. "SCHEMA" \in LineNames /\ "SCHEMA" \notin Environment!Names /\ Environment!Names \subseteq LineNames
    BY DEF LineNames, Environment!Names, Environment!Required, Environment!Optional
  <2>5. s.mode # "error" =>
              /\ Cardinality(Naming(t, "SCHEMA")) = IF s.mode = "schema" THEN 1 ELSE 0
              /\ \A n \in Environment!Names :
                    Cardinality(Naming(t, n)) = IF s.values[n] = Unset THEN 0 ELSE 1
    BY <2>2 DEF Counted
  <2>6. /\ l[1] = "SCHEMA" => r =
                 [mode |-> IF s.mode = "no schema" THEN "schema" ELSE "error", values |-> s.values]
        /\ l[1] # "SCHEMA" /\ l[1] \in Environment!Names /\ Value(l) # Unset /\ s.values[l[1]] = Unset
                 => r = [mode |-> s.mode, values |-> [s.values EXCEPT ![l[1]] = Value(l)]]
        /\ l[1] # "SCHEMA" /\ ~(l[1] \in Environment!Names /\ Value(l) # Unset /\ s.values[l[1]] = Unset)
                 => r.mode = "error"
    BY <2>1, ReadLemma
  <2>7. s.mode \in {"no schema", "schema", "error"} /\ s.values \in [Environment!Names -> Settings \cup {Unset}]
    BY <2>1 DEF Readers
  <2> HIDE DEF s, u, r
  <2>8. ASSUME r.mode # "error"
        PROVE  /\ Cardinality(Naming(u, "SCHEMA")) = IF r.mode = "schema" THEN 1 ELSE 0
               /\ \A n \in Environment!Names :
                    Cardinality(Naming(u, n)) = IF r.values[n] = Unset THEN 0 ELSE 1
    <3>1. CASE l[1] = "SCHEMA"
      <4>1. r = [mode |-> IF s.mode = "no schema" THEN "schema" ELSE "error", values |-> s.values]
        BY <2>6, <3>1
      <4>2. r.values = s.values /\ r.mode = IF s.mode = "no schema" THEN "schema" ELSE "error"
        BY ONLY <4>1
      <4>3. s.mode = "no schema" /\ r.mode = "schema"
        BY ONLY <2>8, <4>2
      <4>4. Cardinality(Naming(u, "SCHEMA")) = 1
        <5>1. Cardinality(Naming(t, "SCHEMA")) = 0
          BY <2>5, <4>3
        <5>2. Cardinality(Naming(u, "SCHEMA")) = Cardinality(Naming(t, "SCHEMA")) + 1
          BY <2>3, <2>4, <3>1
        <5> QED
          BY <5>1, <5>2
      <4>5. \A n \in Environment!Names : Cardinality(Naming(u, n)) = Cardinality(Naming(t, n))
        BY <2>3, <2>4, <3>1
      <4> QED
        BY <2>5, <4>2, <4>3, <4>4, <4>5
    <3>2. CASE l[1] # "SCHEMA" /\ l[1] \in Environment!Names /\ Value(l) # Unset /\ s.values[l[1]] = Unset
      <4>0. r = [mode |-> s.mode, values |-> [s.values EXCEPT ![l[1]] = Value(l)]]
        BY <2>6, <3>2
      <4>1. r.mode = s.mode /\ r.values = [s.values EXCEPT ![l[1]] = Value(l)]
        BY ONLY <4>0
      <4>2. \A n \in Environment!Names : r.values[n] = IF n = l[1] THEN Value(l) ELSE s.values[n]
        BY <2>7, <3>2, <4>1
      <4> QED
        BY <2>3, <2>4, <2>5, <2>8, <3>2, <4>1, <4>2
    <3>3. CASE l[1] # "SCHEMA" /\ ~(l[1] \in Environment!Names /\ Value(l) # Unset /\ s.values[l[1]] = Unset)
      BY <2>6, <2>8, <3>3
    <3> QED
      BY <3>1, <3>2, <3>3
  <2>9. Counted(u)
    BY <2>3, <2>8 DEF Counted, r
  <2> QED
    BY <2>1, <2>9 DEF u
<1>3. \A t \in Seq(FileLines) : t \in P
  <2> HIDE DEF P
  <2> QED
    BY <1>1, <1>2, SeqLemma
<1> QED
  BY <1>3

\* The module counts with a Cardinality of its own.
LEMMA EnvironmentCardinality ==
    ASSUME NEW S
    PROVE  Environment!Cardinality(S) = Cardinality(S)
  BY DEF Environment!Cardinality, Cardinality, Environment!IsFiniteSet, IsFiniteSet

\* A file that is accepted is complete and says nothing twice.
Complete(f) ==
    /\ \A n \in Environment!Required \cup {"SCHEMA"} : Cardinality(Naming(f, n)) = 1
    /\ \A n \in Environment!Optional : Cardinality(Naming(f, n)) <= 1

\* So says every file that is accepted.
LEMMA ParseLemma ==
    ASSUME NEW f \in Seq(FileLines), NEW alive, NEW there, Environment!Parse(f, alive, there) # Unset
    PROVE  Complete(f)
<1>1. Counted(f)
  BY CountedLemma
<1>2. /\ Environment!AllRead(f).mode = "schema"
      /\ \A n \in Environment!Required : Environment!AllRead(f).values[n] # Unset
  BY DEF Environment!Parse
<1> QED
  BY <1>1, <1>2 DEF Counted, Complete, Environment!Names

-----------------------------------------------------------------------------
(* What is captured survives the file.                                     *)

\* What a process may have in its environment,
Environs(e) ==
    /\ e \in [Environment!Names -> Settings \cup {Unset}]
    /\ e["SHELL"] \in Plain \cup {Unset}
    /\ e["DEVHATCH_CWD"] \in AnyPath \cup {Unset}
    /\ e["CODEX_HOME"] \in AnyPath \cup {Unset}
    /\ e["DEVHATCH_IMPORT_ROOTS"] \in Seq(AnyPath) \cup {Unset}
    /\ e["SSH_AUTH_SOCK"] \in Environment!Sockets \cup {Unset}
    /\ e["SKILLINK_GIT_TIMEOUT_SECS"] \in Int \cup {Unset}

\* and what a capture makes of it.
Managed(c) ==
    /\ Environs(c)
    /\ c["SHELL"] \in Plain /\ Environment!ValidText(c["SHELL"])
    /\ c["DEVHATCH_CWD"] \in AnyPath
    /\ c["CODEX_HOME"] \in Clear \cup {Unset}
    /\ c["DEVHATCH_IMPORT_ROOTS"] \in Seq(Clear) \cup {Unset}
    /\ c["SSH_AUTH_SOCK"] \in {"socket", Unset}
    /\ c["SKILLINK_GIT_TIMEOUT_SECS"] \in Int => c["SKILLINK_GIT_TIMEOUT_SECS"] >= 1

\* Unset is none of the things it is compared with.
LEMMA UnsetLemma ==
    /\ Unset \notin Plain /\ Unset \notin AnyPath /\ Unset \notin Seq(AnyPath)
    /\ Unset \notin Environment!Sockets /\ Unset \notin Int
    /\ Unset \notin [Environment!Names -> Settings \cup {Unset}]
    /\ Unset \notin Seq(FileLines)
<1>1. /\ Unset \notin Settings
      /\ Unset \notin [Environment!Names -> Settings \cup {Unset}]
      /\ Unset \notin Seq(LineNames \X (Settings \cup {Unset}))
  BY EnvironmentAssumption
<1>2. /\ Unset \notin Plain /\ Unset \notin AnyPath /\ Unset \notin Seq(AnyPath)
      /\ Unset \notin Environment!Sockets /\ Unset \notin Int
  BY <1>1 DEF Settings, Plain
<1>3. FileLines \subseteq LineNames \X (Settings \cup {Unset})
  BY DEF FileLines, Settings, Plain, LineNames, Environment!Names, Environment!Required
<1>4. Seq(FileLines) \subseteq Seq(LineNames \X (Settings \cup {Unset}))
  BY <1>3
<1> QED
  BY <1>1, <1>2, <1>4

\* The six settings.
LEMMA NamesLemma ==
    Environment!Names = {"SHELL", "DEVHATCH_CWD", "CODEX_HOME", "DEVHATCH_IMPORT_ROOTS",
                         "SSH_AUTH_SOCK", "SKILLINK_GIT_TIMEOUT_SECS"}
  BY DEF Environment!Names, Environment!Required, Environment!Optional

\* Normalising a list of paths.
LEMMA RootsLemma ==
    ASSUME NEW list \in Seq(AnyPath), NEW cwd \in AnyPath
    PROVE  /\ [i \in DOMAIN list |-> Environment!Normalize(list[i], cwd)] \in Seq(Clear)
           /\ list \in Seq(Clear) => [i \in DOMAIN list |-> Environment!Normalize(list[i], cwd)] = list
<1> DEFINE n == Len(list)
           new == [i \in 1..n |-> Environment!Normalize(list[i], cwd)]
<1>1. n \in Nat /\ DOMAIN list = 1..n /\ \A i \in 1..n : list[i] \in AnyPath
  OBVIOUS
<1>2. \A i \in 1..n : Environment!Normalize(list[i], cwd) \in Clear
  BY <1>1, NormalizeLemma
<1>3. new \in Seq(Clear)
  BY <1>1, <1>2
<1>4. ASSUME list \in Seq(Clear) PROVE new = list
  <2>1. \A i \in 1..n : list[i] \in Clear
    BY <1>4
  <2>2. \A i \in 1..n : Environment!Normalize(list[i], cwd) = list[i]
    BY <2>1, NormalizeLemma
  <2>3. list = [i \in 1..n |-> list[i]]
    BY <1>1
  <2> QED
    BY <2>2, <2>3
<1> QED
  BY <1>1, <1>3, <1>4

\* What sanitizing keeps of each optional setting.
LEMMA SanitizeLemma ==
    ASSUME NEW v, NEW cwd, NEW alive \in BOOLEAN
    PROVE  /\ Environment!Sanitize("CODEX_HOME", v, cwd, alive) = Environment!Normalize(v, cwd)
           /\ Environment!Sanitize("DEVHATCH_IMPORT_ROOTS", v, cwd, alive)
                = [i \in DOMAIN v |-> Environment!Normalize(v[i], cwd)]
           /\ Environment!Sanitize("SSH_AUTH_SOCK", v, cwd, alive) = IF alive THEN "socket" ELSE Unset
           /\ Environment!Sanitize("SKILLINK_GIT_TIMEOUT_SECS", v, cwd, alive)
                = IF v >= 1 THEN v ELSE Unset
  BY DEF Environment!Sanitize

\* A path is normalised,
LEMMA SanitizePath ==
    ASSUME NEW v, NEW cwd \in AnyPath, NEW alive \in BOOLEAN
    PROVE  /\ v \in AnyPath => Environment!Sanitize("CODEX_HOME", v, cwd, alive) \in Clear
           /\ v \in Clear => Environment!Sanitize("CODEX_HOME", v, cwd, alive) = v
  BY SanitizeLemma, NormalizeLemma

\* and so is every path of a list.
LEMMA SanitizeRoots ==
    ASSUME NEW v, NEW cwd \in AnyPath, NEW alive \in BOOLEAN
    PROVE  /\ v \in Seq(AnyPath)
                => Environment!Sanitize("DEVHATCH_IMPORT_ROOTS", v, cwd, alive) \in Seq(Clear)
           /\ v \in Seq(Clear) => Environment!Sanitize("DEVHATCH_IMPORT_ROOTS", v, cwd, alive) = v
<1>1. v \in Seq(Clear) => v \in Seq(AnyPath)
  <2>1. Clear \subseteq AnyPath
    BY DEF Clear
  <2> QED
    BY <2>1
<1>2. v \in Seq(AnyPath) =>
         /\ [i \in DOMAIN v |-> Environment!Normalize(v[i], cwd)] \in Seq(Clear)
         /\ v \in Seq(Clear) => [i \in DOMAIN v |-> Environment!Normalize(v[i], cwd)] = v
  BY RootsLemma
<1>3. Environment!Sanitize("DEVHATCH_IMPORT_ROOTS", v, cwd, alive)
                = [i \in DOMAIN v |-> Environment!Normalize(v[i], cwd)]
  BY SanitizeLemma
<1> QED
  BY <1>1, <1>2, <1>3

\* The home is a path.
LEMMA HomeLemma == Environment!Home \in AnyPath
<1>1. <<"home">> \in Seq(PartNames)
  BY DEF PartNames
<1> QED
  BY <1>1 DEF Environment!Home, AnyPath

\* The directory that relative paths start from.
Cwd(e) == IF e["DEVHATCH_CWD"] = Unset THEN Environment!Home ELSE e["DEVHATCH_CWD"]

\* A capture, setting by setting.
LEMMA CapturedParts ==
    ASSUME NEW e, NEW alive \in BOOLEAN
    PROVE  LET c == Environment!Captured(e, alive)
           IN  /\ c = [n \in Environment!Names |-> c[n]]
               /\ c["SHELL"] = IF e["SHELL"] = Unset THEN <<"other">> ELSE e["SHELL"]
               /\ c["DEVHATCH_CWD"] = Cwd(e)
               /\ \A n \in Environment!Optional :
                     c[n] = IF e[n] = Unset THEN Unset ELSE Environment!Sanitize(n, e[n], Cwd(e), alive)
<1> DEFINE c == Environment!Captured(e, alive)
           value(n) ==
              CASE n = "SHELL" -> IF e[n] = Unset THEN <<"other">> ELSE e[n]
                [] n = "DEVHATCH_CWD" -> Cwd(e)
                [] OTHER -> IF e[n] = Unset THEN Unset ELSE Environment!Sanitize(n, e[n], Cwd(e), alive)
<1>1. c = [n \in Environment!Names |-> value(n)]
  BY DEF Environment!Captured, Cwd
<1>2. /\ value("SHELL") = IF e["SHELL"] = Unset THEN <<"other">> ELSE e["SHELL"]
      /\ value("DEVHATCH_CWD") = Cwd(e)
  OBVIOUS
<1>3. ASSUME NEW n \in Environment!Optional
      PROVE  value(n) = IF e[n] = Unset THEN Unset ELSE Environment!Sanitize(n, e[n], Cwd(e), alive)
  <2>1. n # "SHELL" /\ n # "DEVHATCH_CWD"
    BY DEF Environment!Optional
  <2> QED
    BY <2>1
<1>4. /\ "SHELL" \in Environment!Names /\ "DEVHATCH_CWD" \in Environment!Names
      /\ Environment!Optional \subseteq Environment!Names
  BY DEF Environment!Names, Environment!Required
<1> HIDE DEF c, value
<1>5. \A n \in Environment!Names : c[n] = value(n)
  BY <1>1
<1>6. c = [n \in Environment!Names |-> c[n]]
  BY <1>1
<1>7. \A n \in Environment!Optional :
         c[n] = IF e[n] = Unset THEN Unset ELSE Environment!Sanitize(n, e[n], Cwd(e), alive)
  BY <1>3, <1>4, <1>5
<1>8. /\ c["SHELL"] = IF e["SHELL"] = Unset THEN <<"other">> ELSE e["SHELL"]
      /\ c["DEVHATCH_CWD"] = Cwd(e)
  BY <1>2, <1>4, <1>5
<1> QED
  BY <1>6, <1>7, <1>8 DEF c

\* A capture keeps only what another capture would keep;
LEMMA CaptureIsManaged ==
    ASSUME NEW e, Environs(e), Environment!Capturable(e), NEW alive \in BOOLEAN
    PROVE  Managed(Environment!Captured(e, alive))
<1> DEFINE c == Environment!Captured(e, alive)
<1>1. /\ c = [n \in Environment!Names |-> c[n]]
      /\ c["SHELL"] = IF e["SHELL"] = Unset THEN <<"other">> ELSE e["SHELL"]
      /\ c["DEVHATCH_CWD"] = Cwd(e)
      /\ \A n \in Environment!Optional :
            c[n] = IF e[n] = Unset THEN Unset ELSE Environment!Sanitize(n, e[n], Cwd(e), alive)
  BY CapturedParts
<1> HIDE DEF c
<1>2. Cwd(e) \in AnyPath
  BY HomeLemma DEF Cwd, Environs
<1>3. c["SHELL"] \in Plain /\ Environment!ValidText(c["SHELL"])
  <2>1. CASE e["SHELL"] = Unset
    <3>1. c["SHELL"] = <<"other">>
      BY <1>1, <2>1
    <3>2. <<"other">> \in Plain
      BY DEF Plain, Environment!Characters
    <3>3. Environment!ValidText(<<"other">>)
      BY DEF Environment!ValidText, Environment!ToSet
    <3> QED
      BY <3>1, <3>2, <3>3
  <2>2. CASE e["SHELL"] # Unset
    BY <1>1, <2>2 DEF Environs, Environment!Capturable
  <2> QED
    BY <2>1, <2>2
<1>4. /\ "CODEX_HOME" \in Environment!Optional /\ "DEVHATCH_IMPORT_ROOTS" \in Environment!Optional
      /\ "SSH_AUTH_SOCK" \in Environment!Optional
      /\ "SKILLINK_GIT_TIMEOUT_SECS" \in Environment!Optional
  BY DEF Environment!Optional
<1>5. c["CODEX_HOME"] \in Clear \cup {Unset}
  <2> DEFINE v == e["CODEX_HOME"]
  <2>1. v \in AnyPath \cup {Unset}
    BY DEF Environs
  <2>2. c["CODEX_HOME"] = IF v = Unset THEN Unset ELSE Environment!Sanitize("CODEX_HOME", v, Cwd(e), alive)
    BY <1>1, <1>4
  <2> HIDE DEF v
  <2> QED
    BY <1>2, <2>1, <2>2, SanitizePath
<1>6. c["DEVHATCH_IMPORT_ROOTS"] \in Seq(Clear) \cup {Unset}
  <2> DEFINE v == e["DEVHATCH_IMPORT_ROOTS"]
  <2>1. v \in Seq(AnyPath) \cup {Unset}
    BY DEF Environs
  <2>2. c["DEVHATCH_IMPORT_ROOTS"]
          = IF v = Unset THEN Unset ELSE Environment!Sanitize("DEVHATCH_IMPORT_ROOTS", v, Cwd(e), alive)
    BY <1>1, <1>4
  <2> HIDE DEF v
  <2> QED
    BY <1>2, <2>1, <2>2, SanitizeRoots
<1>7. c["SSH_AUTH_SOCK"] \in {"socket", Unset}
  <2> DEFINE v == e["SSH_AUTH_SOCK"]
  <2>1. c["SSH_AUTH_SOCK"] = IF v = Unset THEN Unset ELSE Environment!Sanitize("SSH_AUTH_SOCK", v, Cwd(e), alive)
    BY <1>1, <1>4
  <2> HIDE DEF v
  <2> QED
    BY <1>2, <2>1, SanitizeLemma
<1>8. /\ c["SKILLINK_GIT_TIMEOUT_SECS"] \in Int \cup {Unset}
      /\ c["SKILLINK_GIT_TIMEOUT_SECS"] \in Int => c["SKILLINK_GIT_TIMEOUT_SECS"] >= 1
  <2> DEFINE v == e["SKILLINK_GIT_TIMEOUT_SECS"]
  <2>1. v \in Int \cup {Unset}
    BY DEF Environs
  <2>2. c["SKILLINK_GIT_TIMEOUT_SECS"]
          = IF v = Unset THEN Unset ELSE Environment!Sanitize("SKILLINK_GIT_TIMEOUT_SECS", v, Cwd(e), alive)
    BY <1>1, <1>4
  <2> HIDE DEF v
  <2>3. v \in Int => Environment!Sanitize("SKILLINK_GIT_TIMEOUT_SECS", v, Cwd(e), alive)
                       = IF v >= 1 THEN v ELSE Unset
    BY <1>2, SanitizeLemma
  <2> QED
    BY <2>1, <2>2, <2>3, UnsetLemma
<1>9. Seq(Clear) \subseteq Seq(AnyPath) /\ Clear \subseteq AnyPath
  <2>1. Clear \subseteq AnyPath
    BY DEF Clear
  <2> QED
    BY <2>1
<1>10. Environs(c)
  <2>1. /\ c["SHELL"] \in Settings \cup {Unset} /\ c["DEVHATCH_CWD"] \in Settings \cup {Unset}
        /\ c["CODEX_HOME"] \in Settings \cup {Unset} /\ c["DEVHATCH_IMPORT_ROOTS"] \in Settings \cup {Unset}
        /\ c["SSH_AUTH_SOCK"] \in Settings \cup {Unset}
        /\ c["SKILLINK_GIT_TIMEOUT_SECS"] \in Settings \cup {Unset}
    BY <1>1, <1>2, <1>3, <1>5, <1>6, <1>7, <1>8, <1>9 DEF Settings, Plain, Environment!Sockets
  <2>2. \A n \in Environment!Names : c[n] \in Settings \cup {Unset}
    BY <2>1, NamesLemma
  <2>3. c \in [Environment!Names -> Settings \cup {Unset}]
    BY <1>1, <2>2
  <2> QED
    BY <1>1, <1>2, <1>3, <1>5, <1>6, <1>7, <1>8, <1>9, <2>3 DEF Environs, Environment!Sockets
<1> QED
  BY <1>1, <1>2, <1>3, <1>5, <1>6, <1>7, <1>8, <1>10 DEF Managed, c

\* it changes nothing more, unless the socket is gone.
LEMMA ManagedIsNormalized ==
    ASSUME NEW c, Managed(c), NEW alive \in BOOLEAN, NEW there \in BOOLEAN
    PROVE  LET answers == c["SSH_AUTH_SOCK"] = Unset \/ alive
           IN  /\ answers => Environment!Captured(c, alive) = c
               /\ there /\ answers <=> Environment!Normalized(c, alive, there)
<1> DEFINE kept(n) == c[n] # Unset => Environment!Sanitize(n, c[n], c["DEVHATCH_CWD"], alive) = c[n]
<1>1. c["DEVHATCH_CWD"] \in AnyPath /\ Cwd(c) = c["DEVHATCH_CWD"]
  BY UnsetLemma DEF Managed, Cwd
<1>2. kept("CODEX_HOME")
  BY <1>1, SanitizePath DEF Managed
<1>3. kept("DEVHATCH_IMPORT_ROOTS")
  BY <1>1, SanitizeRoots DEF Managed
<1>4. kept("SKILLINK_GIT_TIMEOUT_SECS")
  <2> DEFINE v == c["SKILLINK_GIT_TIMEOUT_SECS"]
  <2>1. v \in Int \cup {Unset} /\ (v \in Int => v >= 1)
    BY DEF Managed, Environs
  <2> HIDE DEF v
  <2>2. v # Unset => Environment!Sanitize("SKILLINK_GIT_TIMEOUT_SECS", v, c["DEVHATCH_CWD"], alive) = v
    BY <1>1, <2>1, SanitizeLemma
  <2> QED
    BY <2>2 DEF v
<1>5. kept("SSH_AUTH_SOCK") <=> c["SSH_AUTH_SOCK"] = Unset \/ alive
  <2> DEFINE v == c["SSH_AUTH_SOCK"]
  <2>1. v \in {"socket", Unset}
    BY DEF Managed
  <2>2. Unset # "socket"
    BY UnsetLemma DEF Environment!Sockets
  <2> HIDE DEF v
  <2>3. Environment!Sanitize("SSH_AUTH_SOCK", v, c["DEVHATCH_CWD"], alive) = IF alive THEN "socket" ELSE Unset
    BY <1>1, SanitizeLemma
  <2>4. (v # Unset => Environment!Sanitize("SSH_AUTH_SOCK", v, c["DEVHATCH_CWD"], alive) = v)
           <=> v = Unset \/ alive
    BY <2>1, <2>2, <2>3
  <2> QED
    BY <2>4 DEF v
<1>6. Environment!Normalized(c, alive, there) <=> there /\ \A n \in Environment!Optional : kept(n)
  BY DEF Environment!Normalized
<1> HIDE DEF kept
<1>7. (\A n \in Environment!Optional : kept(n)) <=> c["SSH_AUTH_SOCK"] = Unset \/ alive
  BY <1>2, <1>3, <1>4, <1>5 DEF Environment!Optional
<1>8. ASSUME \A n \in Environment!Optional : kept(n) PROVE Environment!Captured(c, alive) = c
  <2> DEFINE d == Environment!Captured(c, alive)
  <2>1. /\ d = [n \in Environment!Names |-> d[n]]
        /\ d["SHELL"] = IF c["SHELL"] = Unset THEN <<"other">> ELSE c["SHELL"]
        /\ d["DEVHATCH_CWD"] = Cwd(c)
        /\ \A n \in Environment!Optional :
              d[n] = IF c[n] = Unset THEN Unset ELSE Environment!Sanitize(n, c[n], Cwd(c), alive)
    BY CapturedParts
  <2> HIDE DEF d
  <2>2. \A n \in Environment!Optional : d[n] = c[n]
    BY <1>1, <1>8, <2>1 DEF kept
  <2>3. d["SHELL"] = c["SHELL"]
    BY <2>1, UnsetLemma DEF Managed
  <2>4. \A n \in Environment!Names : d[n] = c[n]
    BY <1>1, <2>1, <2>2, <2>3 DEF Environment!Names, Environment!Required
  <2>5. c = [n \in Environment!Names |-> c[n]]
    BY DEF Managed, Environs
  <2> QED
    BY <2>1, <2>4, <2>5 DEF d
<1> QED
  BY <1>6, <1>7, <1>8

\* The settings of c that are in S.
Only(c, S) == [n \in Environment!Names |-> IF n \in S THEN c[n] ELSE Unset]

\* A file that says what c has for the names in S, and is right so far.
Says(f, c, S) ==
    f \in Seq(FileLines) /\ Environment!AllRead(f) = [mode |-> "schema", values |-> Only(c, S)]

\* Another setting goes into the file.
LEMMA LineIsRead ==
    ASSUME NEW c, Managed(c), NEW f, NEW S, Says(f, c, S), NEW n \in Environment!Names \ S
    PROVE  Says(f \o Environment!Line(c, n), c, S \cup {n})
<1> DEFINE l == <<n, IF n = "SHELL" THEN Environment!Quote(c[n]) ELSE c[n]>>
           s == [mode |-> "schema", values |-> Only(c, S)]
<1>0. c \in [Environment!Names -> Settings \cup {Unset}] /\ c[n] \in Settings \cup {Unset}
  BY DEF Managed, Environs
<1>1. f \in Seq(FileLines) /\ Environment!AllRead(f) = s /\ s \in Readers
  BY ReadAppends DEF Says
<1>2. CASE c[n] = Unset
  <2>1. Environment!Line(c, n) = <<>>
    BY <1>2 DEF Environment!Line
  <2>2. f \o <<>> = f
    BY <1>1
  <2>3. Only(c, S \cup {n}) = Only(c, S)
    BY <1>2 DEF Only
  <2> QED
    BY <1>1, <2>1, <2>2, <2>3 DEF Says
<1>3. CASE c[n] # Unset
  <2>1. Environment!Line(c, n) = <<l>>
    BY <1>3 DEF Environment!Line
  <2>2. n \in LineNames /\ n # "SCHEMA"
    BY NamesLemma DEF LineNames
  <2>3. l \in FileLines /\ Value(l) = c[n] /\ l[1] = n
    <3>1. CASE n = "SHELL"
      <4>1. c["SHELL"] \in Plain /\ Environment!ValidText(c["SHELL"])
        BY DEF Managed
      <4>2. Environment!Quote(c["SHELL"]) \in Plain
            /\ Environment!Unquote(Environment!Quote(c["SHELL"])) = c["SHELL"]
        BY <4>1, UnquoteLemma
      <4> QED
        BY <3>1, <4>2 DEF FileLines, Value
    <3>2. CASE n # "SHELL"
      BY <1>0, <2>2, <3>2 DEF FileLines, Value
    <3> QED
      BY <3>1, <3>2
  <2> HIDE DEF l
  <2>4. f \o <<l>> = Append(f, l) /\ Append(f, l) \in Seq(FileLines)
        /\ Environment!AllRead(Append(f, l)) = Environment!Read(s, l)
    <3>1. f \o <<l>> = Append(f, l)
      BY <1>1, <2>3
    <3> HIDE DEF s
    <3> QED
      BY <1>1, <2>3, <3>1, ReadAppends
  <2>5. s.values[n] = Unset /\ s.mode = "schema" /\ s.values = Only(c, S)
    BY DEF Only
  <2> HIDE DEF s
  <2>6. Environment!Read(s, l) = [mode |-> s.mode, values |-> [s.values EXCEPT ![n] = c[n]]]
    BY <1>1, <1>3, <2>2, <2>3, <2>5, ReadLemma
  <2>7. [Only(c, S) EXCEPT ![n] = c[n]] = Only(c, S \cup {n})
    BY DEF Only
  <2> QED
    BY <2>1, <2>4, <2>5, <2>6, <2>7 DEF Says
<1> QED
  BY <1>2, <1>3

\* The file says everything that was captured.
LEMMA FileLemma ==
    ASSUME NEW c, Managed(c)
    PROVE  /\ Environment!EnvironmentFile(c) \in Seq(FileLines)
           /\ Environment!AllRead(Environment!EnvironmentFile(c)) = [mode |-> "schema", values |-> c]
<1> DEFINE f0 == <<Environment!Schema>>
           f1 == f0 \o Environment!Line(c, "SHELL")
           f2 == f1 \o Environment!Line(c, "DEVHATCH_CWD")
           f3 == f2 \o Environment!Line(c, "CODEX_HOME")
           f4 == f3 \o Environment!Line(c, "DEVHATCH_IMPORT_ROOTS")
           f5 == f4 \o Environment!Line(c, "SSH_AUTH_SOCK")
           f6 == f5 \o Environment!Line(c, "SKILLINK_GIT_TIMEOUT_SECS")
<1>0. Environment!EnvironmentFile(c) = f6
  BY DEF Environment!EnvironmentFile
<1>1. Says(f0, c, {})
  <2>1. Environment!Schema \in FileLines /\ Environment!Schema[1] = "SCHEMA"
    BY DEF Environment!Schema, FileLines, LineNames
  <2>2. <<>> \in Seq(FileLines) /\ Append(<<>>, Environment!Schema) = <<Environment!Schema>>
    OBVIOUS
  <2>3. Environment!AllRead(<<Environment!Schema>>) = Environment!Read(Unread, Environment!Schema)
        /\ <<Environment!Schema>> \in Seq(FileLines) /\ Unread \in Readers
    BY <2>1, <2>2, ReadAppends
  <2>4. Environment!Read(Unread, Environment!Schema) =
           [mode |-> IF Unread.mode = "no schema" THEN "schema" ELSE "error", values |-> Unread.values]
    BY <2>1, <2>3, ReadLemma
  <2>5. Unread.mode = "no schema" /\ Unread.values = Only(c, {})
    BY DEF Unread, Only
  <2> QED
    BY <2>3, <2>4, <2>5 DEF Says
<1> HIDE DEF f0
<1>2. Says(f1, c, {"SHELL"})
  <2>1. "SHELL" \in Environment!Names \ {} /\ {} \cup {"SHELL"} = {"SHELL"}
    BY NamesLemma
  <2> QED
    BY <1>1, <2>1, LineIsRead
<1> HIDE DEF f1
<1>3. Says(f2, c, {"SHELL", "DEVHATCH_CWD"})
  <2>1. /\ "DEVHATCH_CWD" \in Environment!Names \ {"SHELL"}
        /\ {"SHELL"} \cup {"DEVHATCH_CWD"} = {"SHELL", "DEVHATCH_CWD"}
    BY NamesLemma
  <2> QED
    BY <1>2, <2>1, LineIsRead
<1> HIDE DEF f2
<1> DEFINE S3 == {"SHELL", "DEVHATCH_CWD", "CODEX_HOME"}
           S4 == S3 \cup {"DEVHATCH_IMPORT_ROOTS"}
           S5 == S4 \cup {"SSH_AUTH_SOCK"}
           S6 == S5 \cup {"SKILLINK_GIT_TIMEOUT_SECS"}
<1>4. Says(f3, c, S3)
  <2>1. /\ "CODEX_HOME" \in Environment!Names \ {"SHELL", "DEVHATCH_CWD"}
        /\ {"SHELL", "DEVHATCH_CWD"} \cup {"CODEX_HOME"} = S3
    BY NamesLemma
  <2> HIDE DEF S3
  <2> QED
    BY <1>3, <2>1, LineIsRead
<1> HIDE DEF f3
<1>5. /\ "DEVHATCH_IMPORT_ROOTS" \in Environment!Names \ S3
      /\ "SSH_AUTH_SOCK" \in Environment!Names \ S4
      /\ "SKILLINK_GIT_TIMEOUT_SECS" \in Environment!Names \ S5
      /\ S6 = Environment!Names
  BY NamesLemma
<1> HIDE DEF S3
<1>6. Says(f4, c, S4)
  <2> HIDE DEF S4
  <2> QED
    BY <1>4, <1>5, LineIsRead DEF S4
<1> HIDE DEF f4, S4
<1>7. Says(f5, c, S5)
  BY <1>5, <1>6, LineIsRead
<1> HIDE DEF f5, S5
<1>8. Says(f6, c, S6)
  BY <1>5, <1>7, LineIsRead
<1>9. Only(c, Environment!Names) = c
  <2>1. c = [n \in Environment!Names |-> c[n]]
    BY DEF Managed, Environs
  <2>2. Only(c, Environment!Names) = [n \in Environment!Names |-> c[n]]
    BY DEF Only
  <2> QED
    BY ONLY <2>1, <2>2
<1> HIDE DEF f6, S6
<1>10. Says(f6, c, Environment!Names)
  BY <1>5, <1>8
<1> QED
  BY <1>0, <1>9, <1>10 DEF Says

\* The file is refused only when the socket has gone or the places have changed.
LEMMA RoundTrip ==
    ASSUME NEW c, Managed(c), NEW alive \in BOOLEAN, NEW there \in BOOLEAN
    PROVE  Environment!Parse(Environment!EnvironmentFile(c), alive, there) =
              IF there /\ (c["SSH_AUTH_SOCK"] = Unset \/ alive) THEN c ELSE Unset
<1> DEFINE f == Environment!EnvironmentFile(c)
           end == Environment!AllRead(f)
<1>1. end = [mode |-> "schema", values |-> c]
  BY FileLemma
<1>2. end.mode = "schema" /\ end.values = c
  BY ONLY <1>1
<1>3. \A n \in Environment!Required : c[n] # Unset
  BY UnsetLemma DEF Environment!Required, Managed
<1>4. there /\ (c["SSH_AUTH_SOCK"] = Unset \/ alive) <=> Environment!Normalized(c, alive, there)
  BY ManagedIsNormalized
<1>5. Environment!Parse(f, alive, there) =
         IF /\ end.mode = "schema"
            /\ \A n \in Environment!Required : end.values[n] # Unset
            /\ Environment!Normalized(end.values, alive, there)
         THEN end.values
         ELSE Unset
  BY DEF Environment!Parse
<1> HIDE DEF end, f
<1> QED
  BY <1>2, <1>3, <1>4, <1>5 DEF f

-----------------------------------------------------------------------------
(* The environment from one server to the next.                            *)

\* Where an environment is on its way through the file.
EnvironmentInv ==
    /\ socket \in BOOLEAN /\ places \in BOOLEAN /\ changes \in Nat
    /\ context = Unset => Environs(environment) /\ file = Unset
    /\ context # Unset => Managed(context)
    /\ file = Unset => launch = "none"
    /\ file # Unset => file \in Seq(FileLines)
                       /\ (changes = 0 => file = Environment!EnvironmentFile(context))
    /\ launch = "accepted" =>
          Complete(file) /\ (changes = 0 => Environment!Captured(environment, socket) = context)
    /\ launch = "refused" /\ changes = 0 => ~places \/ (context["SSH_AUTH_SOCK"] # Unset /\ ~socket)

\* The values that a setting has at first are of its type.
LEMMA ValuesLemma ==
    /\ Environment!Values("SHELL") \subseteq Plain
    /\ Environment!Values("DEVHATCH_CWD") \subseteq AnyPath
    /\ Environment!Values("CODEX_HOME") \subseteq AnyPath
    /\ Environment!Values("DEVHATCH_IMPORT_ROOTS") \subseteq Seq(AnyPath)
    /\ Environment!Values("SSH_AUTH_SOCK") \subseteq Environment!Sockets
    /\ Environment!Values("SKILLINK_GIT_TIMEOUT_SECS") \subseteq Int
<1>1. ASSUME NEW C PROVE Environment!BoundedSeq(C, MaxLength) \subseteq Seq(C)
  BY EnvironmentAssumption DEF Environment!BoundedSeq, Environment!SeqOf
<1>2. Environment!Paths \subseteq AnyPath
  <2>1. Seq(Environment!Components) \subseteq Seq(PartNames)
    BY DEF PartNames
  <2>2. Environment!BoundedSeq(Environment!Components, MaxLength) \subseteq Seq(PartNames)
    BY <1>1, <2>1
  <2> QED
    BY <2>2 DEF Environment!Paths, AnyPath
<1>3. Environment!Values("SHELL") \subseteq Plain
  BY <1>1 DEF Environment!Values, Environment!Texts, Plain
<1>4. Environment!Values("DEVHATCH_CWD") \subseteq AnyPath
  <2>1. <<"a">> \in Seq(PartNames)
    BY DEF PartNames, Environment!Components
  <2> QED
    BY <2>1, HomeLemma DEF Environment!Values, AnyPath
<1>5. Environment!Values("CODEX_HOME") \subseteq AnyPath
  BY <1>2 DEF Environment!Values
<1>6. Environment!Values("DEVHATCH_IMPORT_ROOTS") \subseteq Seq(AnyPath)
  <2> DEFINE short == {p \in Environment!Paths : Len(p.parts) <= 1}
  <2>1. short \subseteq AnyPath
    BY <1>2
  <2>2. Environment!Values("DEVHATCH_IMPORT_ROOTS") \subseteq Environment!BoundedSeq(short, MaxLength)
    BY DEF Environment!Values, Environment!Lists
  <2> HIDE DEF short
  <2>3. Seq(short) \subseteq Seq(AnyPath)
    BY <2>1
  <2> QED
    BY <1>1, <2>2, <2>3
<1>7. /\ Environment!Values("SSH_AUTH_SOCK") \subseteq Environment!Sockets
      /\ Environment!Values("SKILLINK_GIT_TIMEOUT_SECS") \subseteq Int
  BY DEF Environment!Values, Environment!Numbers
<1> QED
  BY <1>3, <1>4, <1>5, <1>6, <1>7

\* An environment of such values.
LEMMA EnvironsLemma ==
    ASSUME NEW e, e = [n \in Environment!Names |-> e[n]],
           \A n \in Environment!Names : e[n] \in Environment!Values(n) \cup {Unset}
    PROVE  Environs(e)
<1>1. /\ e["SHELL"] \in Plain \cup {Unset}
      /\ e["DEVHATCH_CWD"] \in AnyPath \cup {Unset}
      /\ e["CODEX_HOME"] \in AnyPath \cup {Unset}
      /\ e["DEVHATCH_IMPORT_ROOTS"] \in Seq(AnyPath) \cup {Unset}
      /\ e["SSH_AUTH_SOCK"] \in Environment!Sockets \cup {Unset}
      /\ e["SKILLINK_GIT_TIMEOUT_SECS"] \in Int \cup {Unset}
  BY NamesLemma, ValuesLemma
<1>2. \A n \in Environment!Names : e[n] \in Settings \cup {Unset}
  BY <1>1, NamesLemma DEF Settings, Plain
<1>3. e \in [Environment!Names -> Settings \cup {Unset}]
  BY <1>2
<1> QED
  BY <1>1, <1>3 DEF Environs

\* A first environment has values of the right types.
LEMMA EnvironmentInitial == StoresInit => EnvironmentInv
<1> SUFFICES ASSUME StoresInit PROVE EnvironmentInv
  OBVIOUS
<1>1. /\ socket \in BOOLEAN /\ places \in BOOLEAN /\ changes = 0 /\ context = Unset /\ file = Unset /\ launch = "none"
      /\ \E first, second \in Environment!Names :
            \E v \in Environment!Values(first) \cup {Unset}, w \in Environment!Values(second) :
               environment = [[n \in Environment!Names |-> Unset] EXCEPT ![first] = v, ![second] = w]
  BY DEF StoresInit, Environment!Init
<1>2. PICK first, second \in Environment!Names :
            \E v \in Environment!Values(first) \cup {Unset}, w \in Environment!Values(second) :
               environment = [[n \in Environment!Names |-> Unset] EXCEPT ![first] = v, ![second] = w]
  BY <1>1
<1>3. PICK v \in Environment!Values(first) \cup {Unset}, w \in Environment!Values(second) :
               environment = [[n \in Environment!Names |-> Unset] EXCEPT ![first] = v, ![second] = w]
  BY <1>2
<1>4. environment = [n \in Environment!Names |-> IF n = second THEN w ELSE IF n = first THEN v ELSE Unset]
  BY <1>3
<1>5. /\ environment = [n \in Environment!Names |-> environment[n]]
      /\ \A n \in Environment!Names : environment[n] \in Environment!Values(n) \cup {Unset}
  BY <1>4
<1>6. Environs(environment)
  BY <1>5, EnvironsLemma
<1> QED
  BY <1>1, <1>6 DEF EnvironmentInv

\* What the user makes of a file are lines still.
LEMMA EditLemma ==
    ASSUME NEW f \in Seq(FileLines), NEW i \in DOMAIN f
    PROVE  /\ Environment!RemoveAt(f, i) \in Seq(FileLines)
           /\ Append(f, f[i]) \in Seq(FileLines)
           /\ [f EXCEPT ![i] = <<"OTHER", Unset>>] \in Seq(FileLines)
<1>1. Len(f) \in Nat /\ i \in 1..Len(f) /\ f[i] \in FileLines
  OBVIOUS
<1>2. <<"OTHER", Unset>> \in FileLines
  BY DEF FileLines, LineNames
<1>3. SubSeq(f, 1, i - 1) \in Seq(FileLines)
  BY <1>1
<1>4. SubSeq(f, i + 1, Len(f)) \in Seq(FileLines)
  BY <1>1
<1> QED
  BY <1>1, <1>2, <1>3, <1>4 DEF Environment!RemoveAt

\* Capture, install, launch, and what the user does.
LEMMA EnvironmentStep == EnvironmentInv /\ [StoresNext]_allVars => EnvironmentInv'
<1> SUFFICES ASSUME EnvironmentInv, [StoresNext]_allVars PROVE EnvironmentInv'
  OBVIOUS
<1>1. CASE UNCHANGED environmentVars
  BY <1>1 DEF EnvironmentInv, environmentVars
<1>2. CASE Environment!Capture
  <2>1. Environs(environment) /\ Environment!Capturable(environment) /\ file = Unset /\ launch = "none"
    BY <1>2 DEF Environment!Capture, EnvironmentInv
  <2>2. Managed(context')
    BY <1>2, <2>1, CaptureIsManaged DEF Environment!Capture, EnvironmentInv
  <2>3. context' # Unset
    BY <2>2, UnsetLemma DEF Managed, Environs
  <2> QED
    BY <1>2, <2>1, <2>2, <2>3 DEF Environment!Capture, EnvironmentInv
<1>3. CASE Environment!Install
  <2>1. Managed(context) /\ context # Unset /\ file' = Environment!EnvironmentFile(context)
    BY <1>3 DEF Environment!Install, EnvironmentInv
  <2>2. file' \in Seq(FileLines) /\ file' # Unset
    BY <2>1, FileLemma, UnsetLemma
  <2> QED
    BY <1>3, <2>1, <2>2 DEF Environment!Install, EnvironmentInv
<1>4. CASE Environment!Launch
  <2> DEFINE values == Environment!Parse(file, socket, places)
  <2>1. /\ file # Unset /\ file \in Seq(FileLines) /\ context # Unset /\ Managed(context)
        /\ socket \in BOOLEAN /\ places \in BOOLEAN /\ UNCHANGED <<socket, places, context, file, changes>>
    BY <1>4 DEF Environment!Launch, EnvironmentInv
  <2>2. IF values = Unset THEN launch' = "refused" ELSE launch' = "accepted" /\ environment' = values
    BY <1>4 DEF Environment!Launch
  <2>3. values # Unset => Complete(file)
    BY <2>1, ParseLemma
  <2>4. changes = 0 => values = IF places /\ (context["SSH_AUTH_SOCK"] = Unset \/ socket) THEN context ELSE Unset
    BY <2>1, RoundTrip DEF EnvironmentInv
  <2>5. context["SSH_AUTH_SOCK"] = Unset \/ socket => Environment!Captured(context, socket) = context
    BY <2>1, ManagedIsNormalized
  <2> HIDE DEF values
  <2>6. /\ launch' = "accepted" => Complete(file) /\ values # Unset /\ environment' = values
        /\ launch' = "refused" => values = Unset
    BY <2>2, <2>3
  <2>7. launch' = "accepted" /\ changes = 0 => Environment!Captured(environment', socket) = context
    BY <2>4, <2>5, <2>6
  <2>8. launch' = "refused" /\ changes = 0 => ~places \/ (context["SSH_AUTH_SOCK"] # Unset /\ ~socket)
    BY <2>1, <2>4, <2>6
  <2> QED
    BY <2>1, <2>6, <2>7, <2>8 DEF EnvironmentInv
<1>5. CASE Environment!SocketChanges \/ Environment!PlacesChange
  BY <1>5 DEF Environment!SocketChanges, Environment!PlacesChange, EnvironmentInv
<1>6. CASE Environment!Edit
  <2>1. /\ file # Unset /\ file \in Seq(FileLines) /\ changes' = changes + 1 /\ launch = "none"
        /\ UNCHANGED <<environment, socket, places, context, launch>>
    BY <1>6 DEF Environment!Edit, EnvironmentInv
  <2>2. file' \in Seq(FileLines)
    BY <1>6, <2>1, EditLemma DEF Environment!Edit
  <2>3. file' # Unset /\ changes' # 0 /\ changes' \in Nat
    BY <2>1, <2>2, UnsetLemma DEF EnvironmentInv
  <2> QED
    BY <2>1, <2>2, <2>3 DEF EnvironmentInv
<1> QED
  BY <1>1, <1>2, <1>3, <1>4, <1>5, <1>6 DEF StoresNext, Environment!Next, allVars

\* What is captured is what another capture would keep, the file says all of
\* it, and an accepted file made an environment that is captured again as it is.
THEOREM EnvironmentInductive == StoresSpec => []EnvironmentInv
  BY EnvironmentInitial, EnvironmentStep, PTL DEF StoresSpec

\* What was captured survives the file; an edited file is accepted only when
\* it says everything once.
THEOREM EnvironmentsSurvive == StoresSpec => []EnvironmentSurvives
<1>1. EnvironmentInv => EnvironmentSurvives
  <2> SUFFICES ASSUME EnvironmentInv PROVE EnvironmentSurvives
    OBVIOUS
  <2>1. Environment!LaunchedServerAgrees /\ Environment!RefusedForTheWorld
    BY DEF EnvironmentInv, Environment!LaunchedServerAgrees, Environment!RefusedForTheWorld
  <2>2. Environment!AcceptedIsComplete
    BY EnvironmentCardinality DEF EnvironmentInv, Complete, Naming, Environment!AcceptedIsComplete
  <2> QED
    BY <2>1, <2>2 DEF EnvironmentSurvives, Environment!EnvironmentSurvives
<1> QED
  BY <1>1, EnvironmentInductive, PTL

-----------------------------------------------------------------------------
(* Removing a conversation (OpenCodeDeletion)                              *)

\* What refers to some rows refers to more of them.
LEMMA ReferringGrows ==
    ASSUME NEW db, NEW keys, NEW S, NEW C, S \subseteq C
    PROVE  Referring(db, keys, S) \subseteq Referring(db, keys, C)
  BY DEF Referring

\* f goes from S to all that refers to it, a reference at a time.
Grows(f, db, keys, S) ==
    /\ f \in [0..Cardinality(db) -> SUBSET db] /\ f[0] = S
    /\ \A i \in 1..Cardinality(db) : f[i] = f[i - 1] \cup Referring(db, keys, f[i - 1])

\* The states of the search for the rows that refer to some.
LEMMA WithIs ==
    ASSUME NEW db, IsFiniteSet(db), NEW keys, NEW S \in SUBSET db
    PROVE  \E f : Grows(f, db, keys, S) /\ With(db, keys, S) = f[Cardinality(db)]
<1> DEFINE n == Cardinality(db)
           more == [X \in SUBSET db |-> X \cup Referring(db, keys, X)]
           g == [i \in 1..n |-> more]
<1>1. n \in Nat
  BY FS_CardinalityType
<1>2. more \in [SUBSET db -> SUBSET db]
  BY DEF Referring
<1>3. g \in [1..n -> [SUBSET db -> SUBSET db]]
  BY <1>2
<1>4. \A X \in SUBSET db : more[X] = X \cup Referring(db, keys, X)
  OBVIOUS
<1>5. \A i \in 1..n : g[i] = more
  OBVIOUS
<1> HIDE DEF g, n, more
<1>6. PICK f : Follows(f, n, SUBSET db, S, g)
  BY <1>1, <1>3, RecursionExists
<1>7. \A i \in 1..n : f[i - 1] \in SUBSET db /\ f[i] = f[i - 1] \cup Referring(db, keys, f[i - 1])
  <2> TAKE i \in 1..n
  <2>1. i - 1 \in 0..n
    BY <1>1
  <2>2. f[i - 1] \in SUBSET db /\ f[i] = g[i][f[i - 1]]
    BY <1>6, <2>1 DEF Follows
  <2> QED
    BY <1>4, <1>5, <2>2
<1> DEFINE Goes(h) == h = [i \in 0..n |-> IF i = 0 THEN S ELSE h[i - 1] \cup Referring(db, keys, h[i - 1])]
           a == CHOOSE h : Goes(h)
<1>8. Goes(f)
  <2>1. \A i \in 0..n : f[i] = IF i = 0 THEN S ELSE f[i - 1] \cup Referring(db, keys, f[i - 1])
    BY <1>1, <1>6, <1>7 DEF Follows
  <2>2. f = [i \in 0..n |-> f[i]]
    BY <1>6 DEF Follows
  <2> QED
    BY <2>1, <2>2
<1>9. Goes(a)
  <2> HIDE DEF Goes
  <2> QED
    BY <1>8
<1>10. With(db, keys, S) = a[n]
  BY DEF With, n
<1> HIDE DEF a
<1>11. \A i \in 0..n : a[i] = IF i = 0 THEN S ELSE a[i - 1] \cup Referring(db, keys, a[i - 1])
  <2> DEFINE body == [i \in 0..n |-> IF i = 0 THEN S ELSE a[i - 1] \cup Referring(db, keys, a[i - 1])]
  <2>1. a = body
    BY <1>9
  <2>2. \A i \in 0..n : body[i] = IF i = 0 THEN S ELSE a[i - 1] \cup Referring(db, keys, a[i - 1])
    OBVIOUS
  <2> HIDE DEF body
  <2> QED
    BY ONLY <2>1, <2>2
<1>12. Alike(a, f, n)
  <2>1. a[0] = f[0]
    <3>1. 0 \in 0..n
      BY <1>1
    <3>2. a[0] = S
      BY <1>11, <3>1
    <3> QED
      BY <1>6, <3>2 DEF Follows
  <2>2. ASSUME NEW i \in 1..n, a[i - 1] = f[i - 1] PROVE a[i] = f[i]
    <3>1. i \in 0..n /\ i # 0
      BY <1>1
    <3>2. a[i] = a[i - 1] \cup Referring(db, keys, a[i - 1])
      BY <1>11, <3>1
    <3> QED
      BY <1>7, <2>2, <3>2
  <2> QED
    BY <2>1, <2>2 DEF Alike
<1>13. a[n] = f[n]
  <2>1. \A i \in 0..n : a[i] = f[i]
    BY <1>1, <1>12, RecursionAgrees
  <2> QED
    BY <1>1, <2>1
<1> QED
  BY <1>6, <1>7, <1>10, <1>13 DEF n, Follows, Grows

\* They are the least set with these rows and all that refer to one of it.
LEMMA WithLemma ==
    ASSUME NEW db, IsFiniteSet(db), NEW keys, NEW S \in SUBSET db
    PROVE  /\ S \subseteq With(db, keys, S) /\ With(db, keys, S) \subseteq db
           /\ Referring(db, keys, With(db, keys, S)) \subseteq With(db, keys, S)
           /\ \A C : S \subseteq C /\ Referring(db, keys, C) \subseteq C => With(db, keys, S) \subseteq C
<1> DEFINE n == Cardinality(db)
<1>1. n \in Nat
  BY FS_CardinalityType
<1>2. PICK f : Grows(f, db, keys, S) /\ With(db, keys, S) = f[n]
  BY WithIs
<1>3. \A i \in Nat : i + 1 <= n => f[i] \in SUBSET db /\ f[i + 1] = f[i] \cup Referring(db, keys, f[i])
  <2> SUFFICES ASSUME NEW i \in Nat, i + 1 <= n
               PROVE  f[i] \in SUBSET db /\ f[i + 1] = f[i] \cup Referring(db, keys, f[i])
    OBVIOUS
  <2>1. i + 1 \in 1..n /\ i \in 0..n /\ (i + 1) - 1 = i
    BY <1>1
  <2> HIDE DEF n
  <2> QED
    BY <1>2, <2>1 DEF Grows, n
<1> HIDE DEF n
<1>4. S \subseteq f[n]
  <2> DEFINE P == {i \in Nat : i <= n => S \subseteq f[i]}
  <2>1. 0 \in P
    BY <1>2 DEF Grows, n
  <2>2. ASSUME NEW i \in Nat, i \in P PROVE i + 1 \in P
    BY <1>1, <1>3, <2>2
  <2>3. \A i \in Nat : i \in P
    <3> HIDE DEF P
    <3> QED
      BY <2>1, <2>2, NatLemma
  <2> QED
    BY <1>1, <2>3
<1>5. ASSUME NEW C, S \subseteq C, Referring(db, keys, C) \subseteq C
      PROVE  f[n] \subseteq C
  <2> DEFINE P == {i \in Nat : i <= n => f[i] \subseteq C}
  <2>1. 0 \in P
    BY <1>2, <1>5 DEF Grows, n
  <2>2. ASSUME NEW i \in Nat, i \in P PROVE i + 1 \in P
    <3> SUFFICES ASSUME i + 1 <= n PROVE f[i + 1] \subseteq C
      OBVIOUS
    <3>1. f[i] \subseteq C
      BY <1>1, <2>2
    <3>2. Referring(db, keys, f[i]) \subseteq C
      BY <1>5, <3>1, ReferringGrows
    <3> QED
      BY <1>3, <3>1, <3>2
  <2>3. \A i \in Nat : i \in P
    <3> HIDE DEF P
    <3> QED
      BY <2>1, <2>2, NatLemma
  <2> QED
    BY <1>1, <2>3
<1>6. Referring(db, keys, f[n]) \subseteq f[n]
  <2> DEFINE Closed(i) == Referring(db, keys, f[i]) \subseteq f[i]
             P == {i \in Nat : i <= n => Closed(i) \/ Cardinality(f[i]) >= i}
  <2>1. \A i \in 0..n : IsFiniteSet(f[i]) /\ Cardinality(f[i]) \in Nat
    BY <1>2, FS_Subset, FS_CardinalityType DEF Grows, n
  <2>2. 0 \in P
    BY <1>1, <2>1
  <2>3. ASSUME NEW i \in Nat, i \in P PROVE i + 1 \in P
    <3> SUFFICES ASSUME i + 1 <= n PROVE Closed(i + 1) \/ Cardinality(f[i + 1]) >= i + 1
      OBVIOUS
    <3>1. Closed(i) \/ Cardinality(f[i]) >= i
      BY <1>1, <2>3
    <3>2. f[i + 1] = f[i] \cup Referring(db, keys, f[i])
      BY <1>3
    <3>3. CASE Closed(i)
      <4>1. f[i + 1] = f[i]
        BY <3>2, <3>3
      <4> QED
        BY <3>3, <4>1
    <3>4. CASE ~Closed(i)
      <4>1. f[i] \subseteq f[i + 1] /\ f[i] # f[i + 1]
        BY <3>2, <3>4
      <4>2. i \in 0..n /\ i + 1 \in 0..n
        BY <1>1
      <4>3. Cardinality(f[i]) < Cardinality(f[i + 1])
        BY <2>1, <4>1, <4>2, FS_Subset
      <4> QED
        BY <2>1, <3>1, <3>4, <4>2, <4>3
    <3> QED
      BY <3>3, <3>4
  <2>4. \A i \in Nat : i \in P
    <3> HIDE DEF P
    <3> QED
      BY <2>2, <2>3, NatLemma
  <2>5. Closed(n) \/ Cardinality(f[n]) >= n
    BY <1>1, <2>4
  <2>6. CASE Cardinality(f[n]) >= n
    <3>1. f[n] \subseteq db
      BY <1>1, <1>2 DEF Grows, n
    <3>2. f[n] = db
      BY <1>1, <2>6, <3>1, FS_Subset, FS_CardinalityType DEF n
    <3> QED
      BY <3>2 DEF Referring
  <2> QED
    BY <2>5, <2>6
<1>7. f[n] \subseteq db
  BY <1>1, <1>2 DEF Grows, n
<1> QED
  BY <1>2, <1>4, <1>5, <1>6, <1>7 DEF Grows, n

\* The conversation and all that descends from it.
LEMMA DescendantsLemma ==
    ASSUME NEW db \in SUBSET Universe
    PROVE  /\ Root \in Ids => Root \in Descendants(db)
           /\ \A r \in db : r.table \in Sessions /\ r.of \in Descendants(db) => r.key \in Descendants(db)
           /\ \A r \in db : r.table \in Sessions => r.key \in Ids
<1>1. \A r \in db : r.table \in Sessions => r.key \in Ids
  BY DEF Ids
<1> DEFINE Children(S) == {r.key : r \in {x \in db : x.table \in Sessions /\ x.of \in S}}
           Closed(S) == Root \in S /\ Children(S) \subseteq S
<1>2. Descendants(db) = {id \in Ids : \A S \in SUBSET Ids : Closed(S) => id \in S}
  BY DEF Descendants
<1>3. ASSUME NEW r \in db, r.table \in Sessions, r.of \in Descendants(db), NEW S \in SUBSET Ids, Closed(S)
      PROVE  r.key \in S
  BY <1>2, <1>3
<1> HIDE DEF Closed
<1>4. \A r \in db : r.table \in Sessions /\ r.of \in Descendants(db) => r.key \in Descendants(db)
  BY <1>1, <1>2, <1>3
<1>5. Root \in Ids => Root \in Descendants(db)
  BY <1>2 DEF Closed
<1> QED
  BY <1>1, <1>4, <1>5

\* The tables that are reached.
LEMMA ReachedLemma ==
    ASSUME schema \in Schemas, NEW S
    PROVE  /\ \A t \in S \cap Tables : t \in Reached(S)
           /\ \A f \in Cascades : f.parent \in Reached(S) => f.child \in Reached(S)
           /\ \A r \in Universe : r.table \in Tables
<1>1. \A r \in Universe : r.table \in Tables
  BY DEF Tables
<1>2. \A f \in Cascades : f.child \in Tables
  BY DEF Tables, Cascades
<1> DEFINE Closed(T) == S \subseteq T /\ ChildTables(T) \subseteq T
<1>3. Reached(S) = {t \in Tables : \A T \in SUBSET Tables : Closed(T) => t \in T}
  BY DEF Reached
<1>4. ASSUME NEW f \in Cascades, f.parent \in Reached(S), NEW T \in SUBSET Tables, Closed(T)
      PROVE  f.child \in T
  BY <1>3, <1>4 DEF ChildTables
<1>5. \A t \in S \cap Tables : t \in Reached(S)
  BY <1>3
<1> HIDE DEF Closed
<1>6. \A f \in Cascades : f.parent \in Reached(S) => f.child \in Reached(S)
  BY <1>2, <1>3, <1>4
<1> QED
  BY <1>1, <1>5, <1>6

\* The rows of a plan, and the events that go with them.
Whole(db) == With(db, Cascades, Targets(db) \cup Events(db))
Start(db) == {t.table : t \in Targets(db)} \cup {"event"}

\* A supported plan has what goes along with the conversation's sessions and
\* their events, but for other events; no reference to them is set to NULL, no
\* session goes along with anything but its parent, and nothing else would go.
LEMMA PlanLemma ==
    ASSUME NEW db \in SUBSET Universe, schema \in Schemas, Supported(db)
    PROVE  /\ Whole(db) \subseteq db /\ Targets(db) \cup Events(db) \subseteq Whole(db)
           /\ Planned(db).targets \cup Planned(db).events \cup Planned(db).dependents
                 = {r \in Whole(db) : r.table = "event" => r \in Events(db)}
           /\ \A r \in Whole(db) : /\ r.table \in Reached(Start(db))
                                   /\ r.table \in Sessions => r \in Targets(db)
                                   /\ r \in Targets(db) \cup Events(db) \cup Referring(db, Cascades, Whole(db))
           /\ \A f \in schema, q \in Whole(db) : f.parent = q.table =>
                 f.action # "SET NULL" /\ (f.action = "CASCADE" /\ ~IsTree(f) => f.child \notin Sessions)
           /\ Referring(db, By("CASCADE"), Whole(db)) \subseteq Whole(db)
<1> DEFINE gone == Targets(db) \cup Events(db)
           reached == Reached(Start(db))
           C == {r \in db : r.table \in reached /\ (r.table \in Sessions => r \in Targets(db))}
<1>1. IsFiniteSet(db)
  BY DeletionAssumption, FS_Subset
<1>2. gone \subseteq db
  BY DEF Targets, Events
<1>3. /\ \A f \in schema : f.parent \in reached =>
            f.action # "SET NULL" /\ (f.action = "CASCADE" /\ ~IsTree(f) => f.child \notin Sessions)
      /\ \A f \in Cascades : f.parent \in reached => f.child \in reached
      /\ \A r \in db : r.table \in Tables
      /\ \A t \in Start(db) \cap Tables : t \in reached
  BY ReachedLemma DEF Supported, Start
<1> HIDE DEF reached
<1>4. gone \subseteq C
  <2>1. \A r \in gone : r.table \in Start(db)
    BY DEF Targets, Events, Start
  <2>2. "event" \notin Sessions
    BY DEF Sessions
  <2> QED
    BY <1>2, <1>3, <2>1, <2>2 DEF Targets, Events
<1>5. Referring(db, Cascades, C) \subseteq C
  <2> SUFFICES ASSUME NEW r \in db, NEW f \in Cascades, NEW q \in C, Refers(r, f, q)
               PROVE  r \in C
    BY DEF Referring
  <2>1. f \in schema /\ f.action = "CASCADE" /\ ~IsTree(f) /\ f.child = r.table /\ f.parent = q.table
    BY DEF Cascades, Refers
  <2>2. r.table \in reached /\ r.table \notin Sessions
    BY <1>3, <2>1
  <2> QED
    BY <2>2
<1>6. /\ gone \subseteq Whole(db) /\ Whole(db) \subseteq db /\ Whole(db) \subseteq C
      /\ Referring(db, Cascades, Whole(db)) \subseteq Whole(db)
  <2> HIDE DEF C, gone
  <2> QED
    BY <1>1, <1>2, <1>4, <1>5, WithLemma DEF Whole, gone
<1>7. Whole(db) \subseteq gone \cup Referring(db, Cascades, Whole(db))
  <2> DEFINE D == gone \cup Referring(db, Cascades, Whole(db))
  <2>1. Referring(db, Cascades, D) \subseteq D
    <3>1. D \subseteq Whole(db)
      BY <1>6
    <3> HIDE DEF gone
    <3> QED
      BY <3>1, ReferringGrows
  <2>2. gone \subseteq D
    OBVIOUS
  <2> HIDE DEF D, gone
  <2>3. Whole(db) \subseteq D
    BY <1>1, <1>2, <2>1, <2>2, WithLemma DEF Whole, gone
  <2> QED
    BY <2>3 DEF D
<1>8. Planned(db).targets \cup Planned(db).events \cup Planned(db).dependents
         = {r \in Whole(db) : r.table = "event" => r \in Events(db)}
  <2>1. /\ Planned(db).targets = Targets(db) /\ Planned(db).events = Events(db)
        /\ Planned(db).dependents = {r \in Whole(db) : r.table \notin Sessions \cup {"event"}}
    BY DEF Planned, Whole
  <2>2. /\ \A r \in Targets(db) : r.table \in Sessions /\ r.table # "event"
        /\ \A r \in Whole(db) : r.table \in Sessions => r \in Targets(db)
    BY <1>6 DEF Targets, Sessions
  <2>3. Targets(db) \subseteq Whole(db) /\ Events(db) \subseteq Whole(db)
    BY <1>6
  <2> QED
    BY <2>1, <2>2, <2>3
<1>9. Referring(db, By("CASCADE"), Whole(db)) \subseteq Whole(db)
  <2> SUFFICES ASSUME NEW r \in db, NEW f \in By("CASCADE"), NEW q \in Whole(db), Refers(r, f, q)
               PROVE  r \in Whole(db)
    BY DEF Referring
  <2>1. CASE f \in Cascades
    BY <1>6, <2>1 DEF Referring
  <2>2. CASE f \notin Cascades
    <3>1. IsTree(f)
      BY <2>2 DEF By, Cascades
    <3>2. r.table = q.table /\ r.table \in Sessions /\ r.of = q.key
      BY <3>1 DEF IsTree, Refers
    <3>3. q \in Targets(db)
      BY <1>6, <3>2
    <3>4. r \in Targets(db)
      BY <3>2, <3>3, DescendantsLemma DEF Targets
    <3> QED
      BY <1>6, <3>4
  <2> QED
    BY <2>1, <2>2
<1> QED
  BY <1>3, <1>6, <1>7, <1>8, <1>9 DEF reached

\* The rows that go with some.
Along(here, S) == With(here, By("CASCADE"), S)

\* Rows of a plan take rows of the plan along, or a foreign key forbids it.
LEMMA WithoutLemma ==
    ASSUME NEW db \in SUBSET Universe, schema \in Schemas, Supported(db),
           NEW here \in SUBSET db, NEW S \in SUBSET here, S \subseteq Whole(db)
    PROVE  /\ S \subseteq Along(here, S) /\ Along(here, S) \subseteq here \cap Whole(db)
           /\ Referring(here, By("CASCADE"), Along(here, S)) \subseteq Along(here, S)
           /\ \/ Without(here, S) = [result |-> "deleted", rows |-> here \ Along(here, S)]
              \/ /\ Without(here, S) = [result |-> "failed", rows |-> here]
                 /\ Referring(here \ Along(here, S), By("NO ACTION"), Along(here, S)) # {}
<1> DEFINE all == With(here, By("CASCADE"), S)
           null == Referring(here \ all, By("SET NULL"), all)
<1>1. IsFiniteSet(here)
  BY DeletionAssumption, FS_Subset
<1>2. /\ S \subseteq all /\ all \subseteq here /\ Referring(here, By("CASCADE"), all) \subseteq all
      /\ \A C : S \subseteq C /\ Referring(here, By("CASCADE"), C) \subseteq C => all \subseteq C
  BY <1>1, WithLemma
<1>3. Referring(here, By("CASCADE"), Whole(db)) \subseteq Whole(db)
  <2>1. Referring(here, By("CASCADE"), Whole(db)) \subseteq Referring(db, By("CASCADE"), Whole(db))
    BY DEF Referring
  <2> QED
    BY <2>1, PlanLemma
<1>4. Without(here, S) = IF Referring(here \ all, By("NO ACTION"), all) # {}
                         THEN [result |-> "failed", rows |-> here]
                         ELSE [result |-> "deleted",
                               rows |-> (here \ (all \cup null)) \cup {Cleared(r, all) : r \in null}]
  BY DEF Without
<1> HIDE DEF all
<1>5. all \subseteq Whole(db)
  BY <1>2, <1>3
<1>6. null = {}
  <2> SUFFICES ASSUME NEW r \in here \ all, NEW f \in By("SET NULL"), NEW q \in all, f.parent = q.table PROVE FALSE
    BY DEF Referring, Refers
  <2> QED
    BY <1>5, PlanLemma DEF By
<1> HIDE DEF null
<1>7. (here \ (all \cup null)) \cup {Cleared(r, all) : r \in null} = here \ all
  BY <1>6
<1> QED
  BY <1>2, <1>4, <1>5, <1>7 DEF all, Along

\* There is a deepest session.
LEMMA DeepestLemma ==
    ASSUME NEW targets \in SUBSET Universe, \A r \in targets : r.table \in Sessions,
           NEW depth \in Depths(targets), NEW left \in SUBSET targets, left # {}
    PROVE  /\ Deepest(left, depth) \in left
           /\ \A q \in left : depth[q.key] \in Nat /\ depth[q.key] <= depth[Deepest(left, depth).key]
<1> DEFINE N == Cardinality(Ids)
           IsDeepest(r) == \A q \in left : depth[q.key] <= depth[r.key]
           P == {m \in Nat : \A r \in left : depth[r.key] + m >= N => \E q \in left : IsDeepest(q)}
<1>1. N \in Nat
  <2>1. IsFiniteSet({x \in Universe : x.table \in Sessions})
    BY DeletionAssumption, FS_Subset
  <2> DEFINE key == [x \in {x \in Universe : x.table \in Sessions} |-> x.key]
  <2>2. key \in Surjection({x \in Universe : x.table \in Sessions}, Ids)
    BY DEF Ids, Surjection
  <2>3. IsFiniteSet(Ids)
    BY <2>1, <2>2, FS_Surjection
  <2> QED
    BY <2>3, FS_CardinalityType
<1>2. \A r \in left : depth[r.key] \in 0..N
  BY DEF Depths, Keys
<1> HIDE DEF N
<1>3. 0 \in P
  BY <1>1, <1>2
<1>4. ASSUME NEW m \in Nat, m \in P PROVE m + 1 \in P
  <2> SUFFICES ASSUME NEW r \in left, depth[r.key] + (m + 1) >= N PROVE \E q \in left : IsDeepest(q)
    OBVIOUS
  <2>1. CASE \E q \in left : depth[q.key] > depth[r.key]
    <3>1. PICK q \in left : depth[q.key] > depth[r.key]
      BY <2>1
    <3>2. depth[q.key] + m >= N
      BY <1>1, <1>2, <3>1
    <3> QED
      BY <1>4, <3>2
  <2>2. CASE \A q \in left : ~(depth[q.key] > depth[r.key])
    BY <1>1, <1>2, <2>2
  <2> QED
    BY <2>1, <2>2
<1>5. N \in P
  <2> HIDE DEF P
  <2> QED
    BY <1>1, <1>3, <1>4, NatLemma
<1>6. PICK q \in left : TRUE
  OBVIOUS
<1>7. \E r \in left : IsDeepest(r)
  BY <1>1, <1>2, <1>5, <1>6
<1>8. Deepest(left, depth) = CHOOSE r \in left : IsDeepest(r)
  BY DEF Deepest
<1>9. Deepest(left, depth) \in left /\ IsDeepest(Deepest(left, depth))
  <2> HIDE DEF IsDeepest
  <2> QED
    BY <1>7, <1>8
<1> QED
  BY <1>1, <1>2, <1>9

Forbidden == \E f \in schema : f.action = "NO ACTION" /\ ~IsTree(f)

\* The sessions are gone from the deepest on, with what goes along.
Halfway(db) ==
    {now \in [result : {"deleted", "failed"}, rows : SUBSET db, left : SUBSET Targets(db)] :
        IF now.result = "deleted"
        THEN /\ db \ now.rows \subseteq Whole(db) /\ now.rows \cap Targets(db) = now.left
             /\ Referring(now.rows, By("CASCADE"), db \ now.rows) = {}
        ELSE Forbidden}

\* The deepest session takes no other along, and no other refers to it.
LEMMA StatementKeeps ==
    ASSUME NEW db \in SUBSET Universe, schema \in Schemas, Supported(db), Found(db), Agrees(Targets(db)),
           NEW depth \in Depths(Targets(db)), NEW now \in Halfway(db), now.result = "deleted", now.left # {}
    PROVE  /\ DeleteSession(now, depth) \in Halfway(db)
           /\ \E r \in now.left : DeleteSession(now, depth).left = now.left \ {r}
<1> DEFINE r == Deepest(now.left, depth)
           here == now.rows
           all == Along(here, {r})
           after == Without(here, {r})
           then == [result |-> after.result, rows |-> after.rows, left |-> now.left \ {r}]
<1>1. /\ here \subseteq db /\ now.left \subseteq Targets(db) /\ db \ here \subseteq Whole(db)
      /\ here \cap Targets(db) = now.left /\ Referring(here, By("CASCADE"), db \ here) = {}
  BY DEF Halfway
<1>2. Targets(db) \subseteq Universe /\ \A q \in Targets(db) : q.table \in Sessions
  BY DEF Targets
<1>3. r \in now.left /\ \A q \in now.left : depth[q.key] \in Nat /\ depth[q.key] <= depth[r.key]
  BY <1>1, <1>2, DeepestLemma
<1> HIDE DEF r
<1>4. r \in here /\ r \in Targets(db) /\ r \in Whole(db) /\ r.key \in Ids
  BY <1>1, <1>2, <1>3, PlanLemma DEF Ids
<1>5. ASSUME NEW x \in now.left PROVE x.of # r.key
  <2> SUFFICES ASSUME x.of = r.key PROVE FALSE
    OBVIOUS
  <2>1. PICK a \in db : a.table \in Sessions /\ a.key = Root /\ a.of = None
    BY DEF Found
  <2>2. a \in Targets(db)
    BY <2>1, DescendantsLemma DEF Targets
  <2>3. x.key # Root
    BY <1>1, <1>4, <2>1, <2>2, DeletionAssumption DEF Agrees
  <2>4. depth[x.key] = depth[r.key] + 1
    BY <1>1, <2>3 DEF Depths
  <2> QED
    BY <1>3, <2>4
<1>6. ASSUME NEW x \in here, NEW q \in db, q = r \/ q.table \notin Sessions,
             NEW f \in schema, IsTree(f), Refers(x, f, q)
      PROVE  FALSE
  <2>1. q = r /\ x.table = r.table /\ x.table \in Sessions
    BY <1>6 DEF IsTree, Refers
  <2>2. x.of = r.key
    BY <1>6, <2>1 DEF Refers
  <2>3. x \in Targets(db)
    BY <1>1, <1>4, <2>1, <2>2, DescendantsLemma DEF Targets
  <2> QED
    BY <1>1, <1>5, <2>2, <2>3
<1> DEFINE C == {x \in here \cap Whole(db) : x = r \/ x.table \notin Sessions}
<1>7. Referring(here, By("CASCADE"), C) \subseteq C
  <2> SUFFICES ASSUME NEW x \in here, NEW f \in By("CASCADE"), NEW q \in C, Refers(x, f, q)
               PROVE  x \in C
    BY DEF Referring
  <2>1. f \in schema /\ f.action = "CASCADE" /\ f.child = x.table /\ f.parent = q.table
    BY DEF By, Refers
  <2>2. x \in Whole(db)
    BY <1>1, PlanLemma DEF Referring
  <2>3. ~IsTree(f)
    BY <1>1, <1>6, <2>1
  <2>4. x.table \notin Sessions
    BY <2>1, <2>3, PlanLemma
  <2> QED
    BY <2>2, <2>4
<1>8. /\ r \in all /\ all \subseteq here \cap Whole(db) /\ Referring(here, By("CASCADE"), all) \subseteq all
      /\ \/ after = [result |-> "deleted", rows |-> here \ all]
         \/ after = [result |-> "failed", rows |-> here] /\ Referring(here \ all, By("NO ACTION"), all) # {}
  <2> DEFINE S == {r}
  <2>1. here \in SUBSET db /\ S \in SUBSET here /\ S \subseteq Whole(db)
    BY <1>1, <1>4
  <2> HIDE DEF S, here
  <2>2. /\ S \subseteq Along(here, S) /\ Along(here, S) \subseteq here \cap Whole(db)
        /\ Referring(here, By("CASCADE"), Along(here, S)) \subseteq Along(here, S)
        /\ \/ Without(here, S) = [result |-> "deleted", rows |-> here \ Along(here, S)]
           \/ /\ Without(here, S) = [result |-> "failed", rows |-> here]
              /\ Referring(here \ Along(here, S), By("NO ACTION"), Along(here, S)) # {}
    BY <2>1, WithoutLemma
  <2> QED
    BY <2>2 DEF S
<1>9. all \subseteq C
  <2>1. IsFiniteSet(here)
    BY <1>1, DeletionAssumption, FS_Subset
  <2>2. {r} \subseteq C
    BY <1>4
  <2> HIDE DEF C
  <2> QED
    BY <1>4, <1>7, <2>1, <2>2, WithLemma DEF Along
<1>10. DeleteSession(now, depth) = then
  BY <1>4 DEF DeleteSession, r
<1> HIDE DEF all, after
<1>11. CASE after = [result |-> "deleted", rows |-> here \ all]
  <2>1. db \ (here \ all) \subseteq Whole(db)
    BY <1>1, <1>8
  <2>2. (here \ all) \cap Targets(db) = now.left \ {r}
    BY <1>1, <1>2, <1>8, <1>9
  <2>3. Referring(here \ all, By("CASCADE"), db \ (here \ all)) = {}
    BY <1>1, <1>8 DEF Referring
  <2>4. then.result = "deleted" /\ then.rows = here \ all /\ then.left = now.left \ {r}
    BY <1>11
  <2>5. then \in [result : {"deleted", "failed"}, rows : SUBSET db, left : SUBSET Targets(db)]
    BY <1>1, <1>11
  <2> HIDE DEF then
  <2> QED
    BY <1>3, <1>10, <2>1, <2>2, <2>3, <2>4, <2>5 DEF Halfway
<1>12. CASE after = [result |-> "failed", rows |-> here] /\ Referring(here \ all, By("NO ACTION"), all) # {}
  <2>1. PICK x \in here, f \in By("NO ACTION"), q \in all : Refers(x, f, q)
    BY <1>12 DEF Referring
  <2>2. ~IsTree(f)
    BY <1>1, <1>6, <1>8, <1>9, <2>1 DEF By
  <2>3. Forbidden
    BY <2>2 DEF Forbidden, By
  <2>4. then.result = "failed" /\ then.left = now.left \ {r}
    BY <1>12
  <2>5. then \in [result : {"deleted", "failed"}, rows : SUBSET db, left : SUBSET Targets(db)]
    BY <1>1, <1>12
  <2> HIDE DEF then
  <2> QED
    BY <1>3, <1>10, <2>3, <2>4, <2>5 DEF Halfway
<1> QED
  BY <1>8, <1>11, <1>12

\* What the transaction has to start from.
Deletable ==
    /\ rows \in SUBSET Universe /\ schema \in Schemas /\ Supported(rows) /\ Found(rows)
    /\ Agrees(Targets(rows)) /\ LeadsToRoot(Targets(rows))

\* The statements delete every session of the plan, or one of them fails.
LEMMA StatementsLemma ==
    Deletable => \E now \in Halfway(rows) :
        /\ now.result = "deleted" => now.left = {}
        /\ Deleted(Planned(rows)) = IF now.result = "deleted" THEN Without(now.rows, Events(rows) \cap now.rows)
                                    ELSE [result |-> now.result, rows |-> now.rows]
<1> SUFFICES ASSUME Deletable
             PROVE  \E now \in Halfway(rows) :
                       /\ now.result = "deleted" => now.left = {}
                       /\ Deleted(Planned(rows)) =
                             IF now.result = "deleted" THEN Without(now.rows, Events(rows) \cap now.rows)
                             ELSE [result |-> now.result, rows |-> now.rows]
  OBVIOUS
<1> DEFINE targets == Targets(rows)
           n == Cardinality(targets)
           depth == CHOOSE d \in Depths(targets) : TRUE
           first == [result |-> "deleted", rows |-> rows, left |-> targets]
           statement == [now \in Halfway(rows) |-> IF now.left = {} THEN now ELSE DeleteSession(now, depth)]
           g == [i \in 1..n |-> statement]
<1>1. n \in Nat /\ IsFiniteSet(targets)
  <2>1. IsFiniteSet(targets)
    BY DeletionAssumption, FS_Subset DEF Deletable, Targets
  <2> QED
    BY <2>1, FS_CardinalityType
<1>2. depth \in Depths(targets)
  BY DEF Deletable, LeadsToRoot
<1>3. first \in Halfway(rows)
  <2>1. rows \cap targets = targets
    BY DEF Targets
  <2> QED
    BY <2>1 DEF Halfway, Referring
<1> HIDE DEF depth
<1>4. \A now \in Halfway(rows) :
        /\ now.result = "deleted" \/ now.result = "failed"
        /\ now.result = "failed" => DeleteSession(now, depth) = now
        /\ now.result = "deleted" /\ now.left # {} =>
              /\ DeleteSession(now, depth) \in Halfway(rows)
              /\ \E r \in now.left : DeleteSession(now, depth).left = now.left \ {r}
  <2> SUFFICES ASSUME NEW now \in Halfway(rows)
               PROVE  /\ now.result = "deleted" \/ now.result = "failed"
                      /\ now.result = "failed" => DeleteSession(now, depth) = now
                      /\ now.result = "deleted" /\ now.left # {} =>
                            /\ DeleteSession(now, depth) \in Halfway(rows)
                            /\ \E r \in now.left : DeleteSession(now, depth).left = now.left \ {r}
    OBVIOUS
  <2>1. now.result = "deleted" \/ now.result = "failed"
    BY DEF Halfway
  <2>2. now.result = "failed" => DeleteSession(now, depth) = now
    BY DEF DeleteSession
  <2> QED
    BY <1>2, <2>1, <2>2, StatementKeeps DEF Deletable
<1>5. statement \in [Halfway(rows) -> Halfway(rows)]
  BY <1>4
<1>6. g \in [1..n -> [Halfway(rows) -> Halfway(rows)]] /\ \A i \in 1..n : g[i] = statement
  BY <1>5
<1>7. \A now \in Halfway(rows) : statement[now] = IF now.left = {} THEN now ELSE DeleteSession(now, depth)
  OBVIOUS
<1> HIDE DEF g, n, statement, first
<1>8. PICK f : Follows(f, n, Halfway(rows), first, g)
  BY <1>1, <1>3, <1>6, RecursionExists
<1>9. \A i \in 1..n : i - 1 \in 0..n /\ f[i - 1] \in Halfway(rows) /\ f[i] = statement[f[i - 1]]
  <2> TAKE i \in 1..n
  <2>1. i - 1 \in 0..n
    BY <1>1
  <2> QED
    BY <1>6, <1>8, <2>1 DEF Follows
<1>10. \A i \in 0..n : f[i] \in Halfway(rows) /\ (f[i].result = "deleted" => Cardinality(f[i].left) = n - i)
  <2> DEFINE Left(i) == f[i].result = "deleted" => Cardinality(f[i].left) = n - i
             P == {i \in Nat : i <= n => Left(i)}
  <2>1. \A i \in 0..n : f[i] \in Halfway(rows)
    BY <1>8 DEF Follows
  <2>2. \A i \in 0..n : f[i].left \in SUBSET targets /\ IsFiniteSet(f[i].left)
    <3> TAKE i \in 0..n
    <3>1. f[i].left \in SUBSET targets
      BY <2>1 DEF Halfway
    <3> QED
      BY <1>1, <3>1, FS_Subset
  <2>3. 0 \in P
    BY <1>1, <1>8 DEF Follows, first, n
  <2>4. ASSUME NEW i \in Nat, i \in P PROVE i + 1 \in P
    <3> SUFFICES ASSUME i + 1 <= n, f[i + 1].result = "deleted" PROVE Cardinality(f[i + 1].left) = n - (i + 1)
      OBVIOUS
    <3>1. i \in 0..n /\ i + 1 \in 1..n /\ (i + 1) - 1 = i
      BY <1>1
    <3>2. f[i] \in Halfway(rows) /\ f[i + 1] = IF f[i].left = {} THEN f[i] ELSE DeleteSession(f[i], depth)
      BY <1>7, <1>9, <3>1
    <3>3. f[i].result = "deleted"
      BY <1>4, <3>2
    <3>4. Cardinality(f[i].left) = n - i /\ n - i # 0
      BY <1>1, <2>4, <3>1, <3>3
    <3>5. f[i].left # {}
      BY <3>4, FS_EmptySet
    <3>6. PICK r \in f[i].left : f[i + 1].left = f[i].left \ {r}
      BY <1>4, <3>2, <3>3, <3>5
    <3>7. Cardinality(f[i + 1].left) = Cardinality(f[i].left) - 1
      BY <2>2, <3>1, <3>6, FS_RemoveElement
    <3> QED
      BY <1>1, <3>4, <3>7
  <2>5. \A i \in Nat : i \in P
    <3> HIDE DEF P
    <3> QED
      BY <2>3, <2>4, NatLemma
  <2> QED
    BY <1>1, <2>1, <2>5
<1>11. \A i \in 1..n : f[i] = DeleteSession(f[i - 1], depth)
  <2> TAKE i \in 1..n
  <2>1. f[i - 1] \in Halfway(rows) /\ f[i] = IF f[i - 1].left = {} THEN f[i - 1] ELSE DeleteSession(f[i - 1], depth)
    BY <1>7, <1>9
  <2>2. CASE f[i - 1].result = "deleted"
    <3>1. Cardinality(f[i - 1].left) = n - (i - 1) /\ n - (i - 1) # 0
      BY <1>1, <1>9, <1>10, <2>2
    <3> QED
      BY <2>1, <3>1, FS_EmptySet
  <2>3. CASE f[i - 1].result = "failed"
    BY <1>4, <2>1, <2>3
  <2> QED
    BY <1>4, <2>1, <2>2, <2>3
<1> DEFINE Goes(h) == h = [i \in 0..n |-> IF i = 0 THEN first ELSE DeleteSession(h[i - 1], depth)]
           a == CHOOSE h : Goes(h)
<1>12. Goes(f)
  <2>1. \A i \in 0..n : f[i] = IF i = 0 THEN first ELSE DeleteSession(f[i - 1], depth)
    BY <1>1, <1>8, <1>11 DEF Follows
  <2>2. f = [i \in 0..n |-> f[i]]
    BY <1>8 DEF Follows
  <2> QED
    BY <2>1, <2>2
<1>13. Goes(a)
  <2> HIDE DEF Goes
  <2> QED
    BY <1>12
<1>14. Deleted(Planned(rows)) = IF a[n].result = "deleted" THEN Without(a[n].rows, Events(rows) \cap a[n].rows)
                                ELSE [result |-> a[n].result, rows |-> a[n].rows]
  <2>1. Planned(rows).targets = targets /\ Planned(rows).events = Events(rows)
    BY DEF Planned
  <2> QED
    BY <2>1 DEF Deleted, n, first, depth
<1> HIDE DEF a
<1>15. \A i \in 0..n : a[i] = IF i = 0 THEN first ELSE DeleteSession(a[i - 1], depth)
  <2> DEFINE body == [i \in 0..n |-> IF i = 0 THEN first ELSE DeleteSession(a[i - 1], depth)]
  <2>1. a = body
    BY <1>13
  <2>2. \A i \in 0..n : body[i] = IF i = 0 THEN first ELSE DeleteSession(a[i - 1], depth)
    OBVIOUS
  <2> HIDE DEF body
  <2> QED
    BY ONLY <2>1, <2>2
<1>16. a[n] = f[n]
  <2>1. a[0] = f[0]
    <3>1. 0 \in 0..n
      BY <1>1
    <3>2. a[0] = first
      BY <1>15, <3>1
    <3> QED
      BY <1>8, <3>2 DEF Follows
  <2>2. ASSUME NEW i \in 1..n, a[i - 1] = f[i - 1] PROVE a[i] = f[i]
    <3>1. i \in 0..n /\ i # 0
      BY <1>1
    <3>2. a[i] = DeleteSession(a[i - 1], depth)
      BY <1>15, <3>1
    <3> QED
      BY <1>11, <2>2, <3>2
  <2>3. Alike(a, f, n)
    BY <2>1, <2>2 DEF Alike
  <2>4. \A i \in 0..n : a[i] = f[i]
    BY <1>1, <2>3, RecursionAgrees
  <2> QED
    BY <1>1, <2>4
<1>17. n \in 0..n /\ n - n = 0
  BY <1>1
<1>18. f[n] \in Halfway(rows) /\ (f[n].result = "deleted" => Cardinality(f[n].left) = 0)
  BY <1>10, <1>17
<1>19. f[n].left \subseteq targets
  BY <1>18 DEF Halfway
<1>20. f[n].result = "deleted" => f[n].left = {}
  BY <1>1, <1>18, <1>19, FS_Subset, FS_EmptySet
<1> QED
  BY <1>14, <1>16, <1>18, <1>20

\* Then the rest of the plan goes, and nothing else.
LEMMA DeletedLemma ==
    Deletable =>
        LET after == Deleted(Planned(rows))
        IN  \/ /\ after.result = "deleted" /\ after.rows = rows \ Whole(rows)
               /\ NothingIsLeft(after.rows, Planned(rows))
            \/ after.result = "failed" /\ Forbidden
<1> SUFFICES ASSUME Deletable
             PROVE  LET after == Deleted(Planned(rows))
                    IN  \/ /\ after.result = "deleted" /\ after.rows = rows \ Whole(rows)
                           /\ NothingIsLeft(after.rows, Planned(rows))
                        \/ after.result = "failed" /\ Forbidden
  OBVIOUS
<1>1. PICK now \in Halfway(rows) :
        /\ now.result = "deleted" => now.left = {}
        /\ Deleted(Planned(rows)) = IF now.result = "deleted" THEN Without(now.rows, Events(rows) \cap now.rows)
                                    ELSE [result |-> now.result, rows |-> now.rows]
  BY StatementsLemma
<1>2. now.result = "deleted" \/ (now.result = "failed" /\ Forbidden)
  BY DEF Halfway
<1>3. CASE now.result = "failed"
  BY <1>1, <1>2, <1>3
<1>4. CASE now.result = "deleted"
  <2> DEFINE here == now.rows
             S == Events(rows) \cap here
             all == Along(here, S)
             after == Without(here, S)
  <2>1. /\ here \in SUBSET rows /\ rows \ here \subseteq Whole(rows) /\ here \cap Targets(rows) = {}
        /\ Referring(here, By("CASCADE"), rows \ here) = {}
    BY <1>1, <1>4 DEF Halfway
  <2>2. /\ rows \in SUBSET Universe /\ schema \in Schemas /\ Supported(rows)
        /\ Targets(rows) \cup Events(rows) \subseteq Whole(rows)
        /\ Whole(rows) \subseteq rows
    BY PlanLemma DEF Deletable
  <2>3. S \in SUBSET here /\ S \subseteq Whole(rows)
    BY <2>2
  <2>4. after = Deleted(Planned(rows))
    BY <1>1, <1>4
  <2> HIDE DEF S
  <2> HIDE DEF here, all, after
  <2>5. /\ S \subseteq all /\ all \subseteq here \cap Whole(rows) /\ Referring(here, By("CASCADE"), all) \subseteq all
        /\ \/ after = [result |-> "deleted", rows |-> here \ all]
           \/ after = [result |-> "failed", rows |-> here] /\ Referring(here \ all, By("NO ACTION"), all) # {}
    BY <2>1, <2>2, <2>3, WithoutLemma DEF all, after
  <2>6. CASE after = [result |-> "failed", rows |-> here] /\ Referring(here \ all, By("NO ACTION"), all) # {}
    <3>1. PICK x \in here, f \in By("NO ACTION"), q \in all : Refers(x, f, q)
      BY <2>6 DEF Referring
    <3>2. q \notin Targets(rows) /\ q \in Whole(rows)
      BY <2>1, <2>5
    <3>3. ~IsTree(f)
      BY <2>2, <3>1, <3>2, PlanLemma DEF IsTree, Refers
    <3>4. Forbidden
      BY <3>1, <3>3 DEF Forbidden, By
    <3>5. after.result = "failed"
      BY <2>6
    <3> QED
      BY <2>4, <3>4, <3>5
  <2>7. CASE after = [result |-> "deleted", rows |-> here \ all]
    <3> DEFINE gone == rows \ (here \ all)
    <3>1. Referring(rows, Cascades, gone) \subseteq gone
      <4> SUFFICES ASSUME NEW x \in here \ all, x \in Referring(rows, Cascades, gone) PROVE FALSE
        BY DEF Referring
      <4>1. PICK f \in Cascades, q \in gone : Refers(x, f, q)
        BY DEF Referring
      <4>2. f \in By("CASCADE")
        BY DEF By, Cascades
      <4>3. CASE q \in rows \ here
        BY <2>1, <4>1, <4>2, <4>3 DEF Referring
      <4>4. CASE q \in all
        <5>1. x \in Referring(here, By("CASCADE"), all)
          BY <4>1, <4>2, <4>4 DEF Referring
        <5> QED
          BY <2>5, <5>1
      <4> QED
        BY <4>3, <4>4
    <3>2. Targets(rows) \cup Events(rows) \subseteq gone
      BY <2>1, <2>2, <2>5 DEF S
    <3>3. IsFiniteSet(rows) /\ Targets(rows) \cup Events(rows) \in SUBSET rows
      BY <2>2, DeletionAssumption, FS_Subset
    <3>4. Whole(rows) \subseteq gone
      <4> HIDE DEF gone
      <4> QED
        BY <3>1, <3>2, <3>3, WithLemma DEF Whole
    <3>5. here \ all = rows \ Whole(rows)
      BY <2>1, <2>5, <3>4
    <3>6. NothingIsLeft(rows \ Whole(rows), Planned(rows))
      <4> SUFFICES ASSUME NEW t \in Targets(rows), NEW r \in rows \ Whole(rows), r.table \in Sessions \cup {"event"}
                   PROVE  r.of # t.key /\ (r.table \in Sessions => r.key # t.key)
        BY DEF NothingIsLeft, Planned
      <4>1. r \in rows /\ r \notin Targets(rows) /\ r \notin Events(rows)
        BY <2>2
      <4>2. t.key \in Descendants(rows)
        BY DEF Targets
      <4>3. r.table \in Sessions => r.key \notin Descendants(rows) /\ r.of \notin Descendants(rows)
        BY <2>2, <4>1, DescendantsLemma DEF Targets
      <4>4. r.table = "event" => r.of # t.key
        BY <4>1 DEF Events
      <4> QED
        BY <4>2, <4>3, <4>4
    <3>7. after.result = "deleted" /\ after.rows = rows \ Whole(rows)
      BY <2>7, <3>5
    <3> QED
      BY <2>4, <3>6, <3>7
  <2> QED
    BY <2>5, <2>6, <2>7
<1> QED
  BY <1>2, <1>3, <1>4

\* While nothing was written the plan is what would be planned; it was made of
\* a database that supports it, and a refusal has its reason.
Reasons ==
    /\ outcome = "stale" => edits > 0 \/ ~Agrees(plan.targets) \/ ~LeadsToRoot(plan.targets)
    /\ outcome = "failed" => Forbidden

DeletionInv ==
    /\ rows \in SUBSET Universe /\ schema \in Schemas /\ edits \in Nat
    /\ plan # None => \E db \in SUBSET Universe : plan = Planned(db) /\ Supported(db) /\ Found(db)
    /\ plan = None => outcome \in {"none", "refused"}
    /\ plan # None /\ edits = 0 /\ outcome = "none" => plan = Planned(rows)
    /\ Reasons

\* Where a plan is still what would be planned, it is supported and found.
LEMMA SamePlan ==
    DeletionInv /\ plan # None /\ plan = Planned(rows) => Supported(rows) /\ Found(rows)
<1> SUFFICES ASSUME DeletionInv, plan # None, plan = Planned(rows) PROVE Supported(rows) /\ Found(rows)
  OBVIOUS
<1>1. PICK db \in SUBSET Universe : plan = Planned(db) /\ Supported(db) /\ Found(db)
  BY DEF DeletionInv
<1>2. Targets(db) = Targets(rows)
  <2>1. Planned(db).targets = Targets(db) /\ Planned(rows).targets = Targets(rows)
    BY DEF Planned
  <2> QED
    BY <1>1, <2>1
<1>3. Supported(rows)
  BY <1>1, <1>2 DEF Supported
<1>4. PICK r \in db : r.table \in Sessions /\ r.key = Root /\ r.of = None
  BY <1>1 DEF Found
<1>5. r \in Targets(db)
  BY <1>4, DescendantsLemma DEF Targets
<1>6. r \in rows
  BY <1>2, <1>5 DEF Targets
<1> QED
  BY <1>3, <1>4, <1>6 DEF Found

\* A deletion takes the rows of its plan, and beyond them only events that are
\* tied to a row that goes.
TakesItsPlan ==
    outcome' = "deleted" /\ outcome = "none" =>
        LET gone == rows \ rows'
        IN  rows' \subseteq rows /\ PlannedRows \subseteq gone /\ gone \ PlannedRows \subseteq TiedEvents(gone)

\* What a commit comes to.
LEMMA CommitLemma ==
    ASSUME DeletionInv, Commit
    PROVE  /\ TakesItsPlan
           /\ outcome' = "deleted" => rows' \subseteq rows
           /\ outcome' # "deleted" => rows' = rows
           /\ outcome' = "stale" => plan # Planned(rows) \/ ~Agrees(plan.targets) \/ ~LeadsToRoot(plan.targets)
           /\ outcome' = "failed" => Forbidden
<1> DEFINE after == Deleted(plan)
<1>1. /\ plan # None /\ outcome = "none" /\ outcome' = Result(plan, after)
      /\ rows' = IF outcome' = "deleted" THEN after.rows ELSE rows
  BY DEF Commit
<1> HIDE DEF after
<1>2. CASE plan # Planned(rows)
  BY <1>1, <1>2 DEF Result, TakesItsPlan
<1>3. CASE plan = Planned(rows) /\ (~Agrees(plan.targets) \/ ~LeadsToRoot(plan.targets))
  BY <1>1, <1>3 DEF Result, TakesItsPlan
<1>4. CASE plan = Planned(rows) /\ Agrees(plan.targets) /\ LeadsToRoot(plan.targets)
  <2>1. plan.targets = Targets(rows)
    BY <1>4 DEF Planned
  <2>2. Deletable
    BY <1>1, <1>4, <2>1, SamePlan DEF Deletable, DeletionInv
  <2>3. /\ PlannedRows = {r \in Whole(rows) : r.table = "event" => r \in Events(rows)}
        /\ Whole(rows) \subseteq rows
        /\ Whole(rows) \ PlannedRows \subseteq TiedEvents(Whole(rows))
    <3>1. /\ PlannedRows = {r \in Whole(rows) : r.table = "event" => r \in Events(rows)}
          /\ Whole(rows) \subseteq rows
          /\ \A r \in Whole(rows) : r \in Targets(rows) \cup Events(rows) \cup Referring(rows, Cascades, Whole(rows))
      BY <1>4, <2>2, PlanLemma DEF PlannedRows, Deletable
    <3>2. \A r \in Targets(rows) : r.table # "event"
      BY DEF Targets, Sessions
    <3> QED
      BY <3>1, <3>2 DEF TiedEvents
  <2>4. \/ after.result = "deleted" /\ after.rows = rows \ Whole(rows) /\ NothingIsLeft(after.rows, plan)
        \/ after.result = "failed" /\ Forbidden
    BY <1>4, <2>2, DeletedLemma DEF after
  <2>5. outcome' = IF shared \cap {t.key : t \in plan.targets} # {} THEN "shared"
                   ELSE IF after.result = "deleted" /\ ~NothingIsLeft(after.rows, plan) THEN "stale"
                   ELSE after.result
    BY <1>1, <1>4 DEF Result
  <2>6. CASE outcome' = "deleted"
    <3>1. rows' = rows \ Whole(rows) /\ rows \ rows' = Whole(rows)
      BY <1>1, <2>3, <2>4, <2>5, <2>6
    <3>2. PlannedRows \subseteq Whole(rows)
      BY <2>3
    <3> QED
      BY <2>3, <2>6, <3>1, <3>2 DEF TakesItsPlan
  <2>7. CASE outcome' # "deleted"
    BY <1>1, <2>4, <2>5, <2>7 DEF TakesItsPlan
  <2> QED
    BY <2>6, <2>7
<1> QED
  BY <1>2, <1>3, <1>4

\* The schema stays, and what is planned depends on the schema and the rows.
LEMMA SchemaLemma ==
    ASSUME schema' = schema
    PROVE  /\ Forbidden' = Forbidden
           /\ \A db : Supported(db)' = Supported(db)
           /\ rows' = rows => Planned(rows)' = Planned(rows)
           /\ \A db : Planned(db)' = Planned(db)
<1>1. Cascades' = Cascades
  BY DEF Cascades
<1>2. \A S : Reached(S)' = Reached(S)
  BY <1>1 DEF Reached, ChildTables
<1>3. \A db : Supported(db)' = Supported(db)
  BY <1>2 DEF Supported
<1>4. \A db : Planned(db)' = Planned(db)
  BY <1>1 DEF Planned
<1>5. rows' = rows => Planned(rows)' = Planned(rows)
  BY <1>1 DEF Planned
<1> QED
  BY <1>3, <1>4, <1>5 DEF Forbidden

LEMMA DeletionInitial == StoresInit => DeletionInv
  BY DEF StoresInit, Init, DeletionInv, Reasons

\* A plan, a write and a deletion.
LEMMA DeletionStep == DeletionInv /\ [StoresNext]_allVars => DeletionInv' /\ TakesItsPlan
<1> SUFFICES ASSUME DeletionInv, [StoresNext]_allVars PROVE DeletionInv' /\ TakesItsPlan
  OBVIOUS
<1>1. CASE UNCHANGED vars
  <2>1. schema' = schema /\ rows' = rows
    BY <1>1 DEF vars
  <2> QED
    BY <1>1, <2>1, SchemaLemma DEF DeletionInv, Reasons, TakesItsPlan, vars
<1>2. CASE Plan
  <2>1. /\ plan = None /\ Found(rows) /\ UNCHANGED <<schema, rows, shared, edits>> /\ outcome \in {"none", "refused"}
        /\ IF Supported(rows) THEN plan' = Planned(rows) /\ outcome' = outcome
           ELSE plan' = plan /\ outcome' = "refused"
    BY <1>2 DEF Plan, DeletionInv
  <2>2. /\ \A db : Supported(db)' = Supported(db) /\ Planned(db)' = Planned(db)
        /\ Planned(rows)' = Planned(rows)
    BY <2>1, SchemaLemma
  <2>3. Supported(rows) => \E db \in SUBSET Universe : plan' = Planned(db)' /\ Supported(db)' /\ Found(db)
    BY <2>1, <2>2 DEF DeletionInv
  <2>4. Reasons'
    BY <2>1 DEF Reasons
  <2> QED
    BY <2>1, <2>2, <2>3, <2>4 DEF DeletionInv, TakesItsPlan
<1>3. CASE Commit
  <2>1. plan # None /\ outcome = "none" /\ UNCHANGED <<schema, shared, plan, edits>>
    BY <1>3 DEF Commit
  <2>2. /\ TakesItsPlan
        /\ outcome' = "deleted" => rows' \subseteq rows
        /\ outcome' # "deleted" => rows' = rows
        /\ outcome' = "stale" => plan # Planned(rows) \/ ~Agrees(plan.targets) \/ ~LeadsToRoot(plan.targets)
        /\ outcome' = "failed" => Forbidden
    BY <1>3, CommitLemma
  <2>3. Reasons'
    <3>1. edits = 0 => plan = Planned(rows)
      BY <2>1 DEF DeletionInv
    <3>2. edits \in Nat
      BY DEF DeletionInv
    <3>3. Forbidden' = Forbidden
      BY <2>1, SchemaLemma
    <3> QED
      BY <2>1, <2>2, <3>1, <3>2, <3>3 DEF Reasons
  <2>4. outcome' = "none" => rows' = rows
    BY <2>2
  <2>5. rows' \in SUBSET Universe
    BY <2>2 DEF DeletionInv
  <2> QED
    BY <2>1, <2>2, <2>3, <2>4, <2>5, SchemaLemma DEF DeletionInv
<1>4. ASSUME NEW r \in Universe, Edit(r) PROVE DeletionInv' /\ TakesItsPlan
  <2>1. /\ plan # None /\ outcome = "none" /\ edits' = edits + 1 /\ UNCHANGED <<schema, shared, plan, outcome>>
        /\ rows' = IF r \in rows THEN rows \ {r} ELSE {q \in rows : ~Same(q, r)} \cup {r}
    BY <1>4 DEF Edit
  <2>2. rows' \in SUBSET Universe
    BY <2>1 DEF DeletionInv
  <2>3. edits' \in Nat /\ edits' # 0
    BY <2>1 DEF DeletionInv
  <2>4. Reasons'
    BY <2>1 DEF Reasons
  <2> QED
    BY <2>1, <2>2, <2>3, <2>4, SchemaLemma DEF DeletionInv, TakesItsPlan
<1>5. ASSUME NEW id \in Ids, Share(id) PROVE DeletionInv' /\ TakesItsPlan
  <2>1. outcome = "none" /\ UNCHANGED <<schema, rows, plan, edits, outcome>>
    BY <1>5 DEF Share
  <2> QED
    BY <2>1, SchemaLemma DEF DeletionInv, Reasons, TakesItsPlan
<1> QED
  BY <1>1, <1>2, <1>3, <1>4, <1>5 DEF StoresNext, Next, allVars

\* A plan that nothing was written after is what would be planned, and every
\* refusal has its reason.
THEOREM DeletionInductive == StoresSpec => []DeletionInv
<1>1. DeletionInv /\ [StoresNext]_allVars => DeletionInv'
  BY DeletionStep
<1> QED
  BY <1>1, DeletionInitial, PTL DEF StoresSpec

\* A deletion takes all the rows of its plan and beyond them only events that a
\* cascading foreign key ties to a row that goes; it is refused for a reason only.
THEOREM DeletionMeets == StoresSpec => DeletionMeetsItsPlan
<1>1. DeletionInv /\ [StoresNext]_allVars => [TakesItsPlan]_vars
  BY DeletionStep
<1>2. StoresSpec => [][TakesItsPlan]_vars
  BY <1>1, DeletionInductive, PTL DEF StoresSpec
<1>3. StoresSpec => DeletesWhatWasPlanned
  BY <1>2 DEF DeletesWhatWasPlanned, TakesItsPlan
<1>4. StoresSpec => RefusalsHaveReasons
  <2>1. DeletionInv => Reasons
    BY DEF DeletionInv
  <2>2. StoresSpec => []Reasons
    BY <2>1, DeletionInductive, PTL
  <2> QED
    BY <2>2 DEF RefusalsHaveReasons, Reasons, Forbidden
<1> QED
  BY <1>3, <1>4 DEF DeletionMeetsItsPlan
=============================================================================
