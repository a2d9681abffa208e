------------------------- MODULE AgentRuntime_proofs -------------------------
(***************************************************************************)
(* Proofs about what the server and a running agent tell each other        *)
(* (MCAgentRuntime): the reports of hooks and plugins (AgentReports), the  *)
(* event stream of OpenCode (OpenCodeEvents), images that are staged       *)
(* (ImagePaste) and images for Pi (PiImages).  Each has an invariant of    *)
(* its own; the steps of the others leave its variables alone.             *)
(***************************************************************************)
EXTENDS MCAgentRuntime, FiniteSetTheorems, TLAPS

-----------------------------------------------------------------------------
(* Images that are staged (ImagePaste)                                     *)
(*                                                                         *)
(* Whoever counts the images keeps the lock until it has written its own   *)
(* and handed it over, also when its client went away; so there is room    *)
(* when it writes.  An image that the agent has read is never read again.  *)

Busy == {"count", "write", "type", "send", "discard"}

StagingTypeOK ==
    /\ way \in Ways /\ way \in {"terminal", "clipboard"}
    /\ at \in [Pastes -> Busy \cup {"new", "lock", "done"}]
    /\ dropped \in [Pastes -> BOOLEAN] /\ timer \in [Pastes -> BOOLEAN]
    /\ result \in [Pastes -> {None, "ok", "busy", "invalid", "unavailable", "dropped"}]
    /\ tries \in [Pastes -> 0..Tries]
    /\ lock \in Pastes \cup {None}
    /\ file \in [Pastes -> {None, "image"}]
    /\ commands \in Nat
    /\ reading \in Pastes \cup {None}
    /\ pasted \in [Pastes -> 0..1]
    /\ agent \in {"runs", "ended", "removing", "removed", "left"}
    /\ listed \subseteq Pastes

\* What the requests sent, one pair for each command.
Sent == {c \in Pastes \X (1..Tries) : c[2] <= tries[c[1]]}

\* One request at a time gets from the count of the images to its answer.
OneAtATime == \A r \in Pastes : at[r] \in Busy => lock = r

RoomToWrite ==
    \A r \in Pastes : at[r] = "write" =>
        IF way = "terminal" THEN Cardinality(Staging!Images) < DirectoryLimit ELSE Staging!Images = {}

ImagesFit ==
    /\ way = "terminal" => Cardinality(Staging!Images) <= DirectoryLimit
    /\ way = "clipboard" => Cardinality(Staging!Images) <= 1

\* The image of each request, by the request's stage.
ImageOf(r) ==
    /\ at[r] \in {"new", "lock", "count", "write"} => file[r] = None /\ pasted[r] = 0
    /\ at[r] \in {"type", "send"} => ~dropped[r]
    /\ at[r] = "type" => /\ way = "terminal" /\ pasted[r] = 0
                         /\ agent = "runs" => file[r] # None
    /\ at[r] = "send" => way = "clipboard"
    /\ at[r] = "done" =>
          /\ result[r] # "ok" => file[r] = None
          /\ result[r] = "ok" /\ way = "terminal" /\ agent = "runs" => file[r] # None

\* Of the clipboard: only what was not read can be read.
ReadOnce ==
    /\ reading # None => way = "clipboard"
    /\ \A r \in Pastes : timer[r] => way = "clipboard"
    /\ way = "clipboard" /\ agent = "runs" =>
          \A r \in Pastes : file[r] # None /\ reading # r => pasted[r] = 0

StagingInv ==
    /\ StagingTypeOK
    /\ commands <= Cardinality(Sent)
    /\ OneAtATime /\ RoomToWrite /\ ImagesFit
    /\ \A r \in Pastes : ImageOf(r)
    /\ ReadOnce

-----------------------------------------------------------------------------
(* What each step of a request changes *)

\* ImagePaste counts as this module does.
LEMMA StagingCardinality == \A S : Staging!Cardinality(S) = Cardinality(S)
  BY DEF Staging!Cardinality, Cardinality

LEMMA StagingInitial == AgentInit => StagingInv
<1> SUFFICES ASSUME AgentInit
             PROVE  StagingInv
  OBVIOUS
<1> USE StagingAssumption
<1>1. Staging!Init
  BY DEF AgentInit
<1>2. StagingTypeOK
  BY <1>1 DEF Staging!Init, StagingTypeOK
<1>3. /\ Staging!Images = {} /\ Cardinality(Staging!Images) = 0
  <2>1. Staging!Images = {}
    BY <1>1 DEF Staging!Init, Staging!Images
  <2> QED
    BY <2>1, FS_EmptySet
<1>4. commands <= Cardinality(Sent)
  <2>1. Sent = {}
    BY <1>1 DEF Staging!Init, Sent
  <2> QED
    BY <1>1, <2>1, FS_EmptySet DEF Staging!Init
<1>5. OneAtATime /\ RoomToWrite /\ ReadOnce /\ \A r \in Pastes : ImageOf(r)
  BY <1>1 DEF Staging!Init, OneAtATime, RoomToWrite, ReadOnce, ImageOf, Busy
<1>6. ImagesFit
  BY <1>3 DEF ImagesFit
<1> QED
  BY <1>2, <1>4, <1>5, <1>6 DEF StagingInv

\* Images are counted: one more, or no more than before.
LEMMA ImagesLemma ==
    ASSUME StagingTypeOK
    PROVE  /\ IsFiniteSet(Staging!Images) /\ Cardinality(Staging!Images) \in Nat
           /\ Staging!Images' \subseteq Staging!Images =>
                 Cardinality(Staging!Images') <= Cardinality(Staging!Images) /\ Cardinality(Staging!Images') \in Nat
           /\ \A r \in Pastes : Staging!Images' = Staging!Images \cup {r} =>
                 Cardinality(Staging!Images') <= Cardinality(Staging!Images) + 1 /\ Cardinality(Staging!Images') \in Nat
<1>1. IsFiniteSet(Staging!Images) /\ Cardinality(Staging!Images) \in Nat
  <2>1. Staging!Images \subseteq Pastes
    BY DEF Staging!Images
  <2>2. IsFiniteSet(Staging!Images)
    BY <2>1, FS_Subset, StagingAssumption
  <2> QED
    BY <2>2, FS_CardinalityType
<1>2. ASSUME Staging!Images' \subseteq Staging!Images
      PROVE  Cardinality(Staging!Images') <= Cardinality(Staging!Images) /\ Cardinality(Staging!Images') \in Nat
  BY <1>1, <1>2, FS_Subset, FS_CardinalityType
<1>3. ASSUME NEW r \in Pastes, Staging!Images' = Staging!Images \cup {r}
      PROVE  Cardinality(Staging!Images') <= Cardinality(Staging!Images) + 1 /\ Cardinality(Staging!Images') \in Nat
  BY <1>1, <1>3, FS_AddElement
<1> QED
  BY <1>1, <1>2, <1>3

\* A command that is sent is one more of what the requests sent.
LEMMA SentLemma ==
    ASSUME StagingTypeOK
    PROVE  /\ Cardinality(Sent) \in Nat /\ Cardinality(Sent) <= Tries * Cardinality(Pastes)
           /\ \A r \in Pastes : tries[r] < Tries /\ tries' = [tries EXCEPT ![r] = tries[r] + 1] =>
                 Cardinality(Sent') = Cardinality(Sent) + 1
<1> DEFINE all == Pastes \X (1..Tries)
<1>1. /\ IsFiniteSet(all) /\ Cardinality(all) = Cardinality(Pastes) * Tries
      /\ Cardinality(Pastes) \in Nat
  <2>1. IsFiniteSet(1..Tries) /\ Cardinality(1..Tries) = Tries
    BY FS_Interval, StagingAssumption
  <2> QED
    BY <2>1, FS_Product, FS_CardinalityType, StagingAssumption
<1>2. Sent \subseteq all
  BY DEF Sent
<1>3. IsFiniteSet(Sent) /\ Cardinality(Sent) \in Nat /\ Cardinality(Sent) <= Cardinality(all)
  BY <1>1, <1>2, FS_Subset, FS_CardinalityType
<1>4. ASSUME NEW r \in Pastes, tries[r] < Tries, tries' = [tries EXCEPT ![r] = tries[r] + 1]
      PROVE  Cardinality(Sent') = Cardinality(Sent) + 1
  <2>1. tries[r] + 1 \in 1..Tries /\ tries[r] \in Nat
    BY <1>4, StagingAssumption DEF StagingTypeOK
  <2>2. <<r, tries[r] + 1>> \notin Sent
    BY <2>1 DEF Sent
  <2>3. Sent' = Sent \cup {<<r, tries[r] + 1>>}
    <3>1. ASSUME NEW c \in all
          PROVE  c[2] <= tries'[c[1]] <=> c[2] <= tries[c[1]] \/ c = <<r, tries[r] + 1>>
      <4>1. PICK q \in Pastes, n \in 1..Tries : c = <<q, n>>
        OBVIOUS
      <4>2. tries'[q] = IF q = r THEN tries[r] + 1 ELSE tries[q]
        BY <1>4 DEF StagingTypeOK
      <4>3. tries[q] \in Nat
        BY StagingAssumption DEF StagingTypeOK
      <4> QED
        BY <2>1, <4>1, <4>2, <4>3
    <3> QED
      BY <2>1, <3>1 DEF Sent
  <2> QED
    BY <1>3, <2>2, <2>3, FS_AddElement
<1>5. Cardinality(Pastes) * Tries = Tries * Cardinality(Pastes)
  BY <1>1, StagingAssumption
<1> QED
  BY <1>1, <1>3, <1>4, <1>5

\* A step of the session's agent, or of the removal of its directory.
AgentStep ==
    Staging!Take \/ Staging!Remove \/ Staging!AgentEnds \/ Staging!ListDirectory \/ Staging!RemoveDirectory

LEMMA StagingTypes ==
    ASSUME StagingInv, Staging!Next
    PROVE  StagingTypeOK'
<1> USE StagingAssumption DEF StagingInv, StagingTypeOK, Busy
<1>1. ASSUME NEW r \in Pastes, Staging!Validate(r) \/ Staging!Lock(r) \/ Staging!Count(r)
      PROVE  StagingTypeOK'
  BY <1>1 DEF Staging!Validate, Staging!Lock, Staging!Count, Staging!Go, Staging!Answer, Staging!Release,
     Staging!agentVars, Staging!endVars
<1>2. ASSUME NEW r \in Pastes, Staging!Write(r) \/ Staging!WriteFails(r) \/ Staging!Discard(r)
      PROVE  StagingTypeOK'
  BY <1>2 DEF Staging!Write, Staging!WriteFails, Staging!Discard, Staging!Go, Staging!Answer, Staging!Release,
     Staging!Unstage, Staging!agentVars, Staging!endVars
<1>3. ASSUME NEW r \in Pastes, Staging!Type(r)
      PROVE  StagingTypeOK'
  <2>1. pasted[r] = 0 /\ at[r] = "type"
    BY <1>3 DEF Staging!Type, ImageOf
  <2>2. pasted' \in [Pastes -> 0..1]
    BY <1>3, <2>1 DEF Staging!Type
  <2> QED
    BY <1>3, <2>2 DEF Staging!Type, Staging!Go, Staging!Answer, Staging!Release, Staging!Unstage, Staging!endVars
<1>4. ASSUME NEW r \in Pastes, Staging!SendFails(r) \/ Staging!SendSucceeds(r)
      PROVE  StagingTypeOK'
  <2>1. tries[r] + 1 \in 0..Tries
    BY <1>4 DEF Staging!SendFails, Staging!SendSucceeds
  <2>2. tries' \in [Pastes -> 0..Tries] /\ commands' \in Nat
    BY <1>4, <2>1 DEF Staging!SendFails, Staging!SendSucceeds, Staging!Heard
  <2> QED
    BY <1>4, <2>2 DEF Staging!SendFails, Staging!SendSucceeds, Staging!Go, Staging!Answer, Staging!Release,
       Staging!endVars
<1>5. ASSUME NEW r \in Pastes, Staging!GiveUp(r) \/ Staging!Expire(r) \/ Staging!Drop(r) \/ Staging!DropTask(r)
      PROVE  StagingTypeOK'
  BY <1>5 DEF Staging!GiveUp, Staging!Expire, Staging!Drop, Staging!DropTask, Staging!KeepsOnDrop, Staging!Go,
     Staging!Answer, Staging!Release, Staging!Unstage, Staging!agentVars, Staging!endVars
<1>6. CASE Staging!Take
  <2>1. commands' \in Nat
    BY <1>6 DEF Staging!Take
  <2>2. pasted' \in [Pastes -> 0..1] /\ reading' \in Pastes \cup {None}
    <3>1. CASE Staging!Images = {} \/ way = "terminal"
      BY <1>6, <3>1 DEF Staging!Take
    <3>2. CASE ~(Staging!Images = {} \/ way = "terminal")
      <4>1. PICK r \in Staging!Images : reading' = r /\ pasted' = [pasted EXCEPT ![r] = @ + 1]
        BY <1>6, <3>2 DEF Staging!Take
      <4>2. r \in Pastes /\ pasted[r] = 0
        BY <1>6, <3>2, <4>1 DEF Staging!Take, Staging!Images, ReadOnce
      <4> QED
        BY <4>1, <4>2
    <3> QED
      BY <3>1, <3>2
  <2> QED
    BY <1>6, <2>1, <2>2 DEF Staging!Take, Staging!requestVars, Staging!endVars
<1>7. CASE Staging!Remove \/ Staging!AgentEnds
  BY <1>7 DEF Staging!Remove, Staging!AgentEnds, Staging!Unstage, Staging!requestVars, Staging!endVars
<1>8. CASE Staging!ListDirectory \/ Staging!RemoveDirectory
  BY <1>8 DEF Staging!ListDirectory, Staging!RemoveDirectory, Staging!Images, Staging!requestVars,
     Staging!agentVars
<1> QED
  BY <1>1, <1>2, <1>3, <1>4, <1>5, <1>6, <1>7, <1>8 DEF Staging!Next, Staging!Step

\* The commands that wait were sent.
LEMMA CommandsAreSent ==
    ASSUME StagingInv, Staging!Next
    PROVE  (commands <= Cardinality(Sent))'
<1> USE DEF StagingInv
<1>1. StagingTypeOK /\ commands \in Nat /\ Cardinality(Sent) \in Nat /\ tries \in [Pastes -> 0..Tries]
  BY SentLemma DEF StagingTypeOK
<1>2. CASE tries' = tries /\ commands' \in Nat /\ commands' <= commands
  <2>1. Sent' = Sent
    BY <1>2 DEF Sent
  <2> QED
    BY <1>1, <1>2, <2>1
<1>3. ASSUME NEW r \in Pastes, Staging!SendFails(r) \/ Staging!SendSucceeds(r)
      PROVE  (commands <= Cardinality(Sent))'
  <2>1. tries[r] < Tries /\ tries' = [tries EXCEPT ![r] = tries[r] + 1]
    BY <1>3 DEF Staging!SendFails, Staging!SendSucceeds
  <2>2. commands' <= commands + 1 /\ commands' \in Nat
    BY <1>1, <1>3 DEF Staging!SendFails, Staging!SendSucceeds, Staging!Heard
  <2>3. Cardinality(Sent') = Cardinality(Sent) + 1
    BY <1>1, <2>1, SentLemma
  <2> QED
    BY <1>1, <2>2, <2>3
<1>4. ASSUME NEW r \in Pastes, Staging!Step(r), ~Staging!SendFails(r), ~Staging!SendSucceeds(r)
      PROVE  tries' = tries /\ commands' = commands
  BY <1>4 DEF Staging!Step, Staging!Validate, Staging!Lock, Staging!Count, Staging!Write, Staging!WriteFails,
     Staging!Discard, Staging!Type, Staging!GiveUp, Staging!agentVars
<1>5. ASSUME NEW r \in Pastes, Staging!Expire(r) \/ Staging!Drop(r) \/ Staging!DropTask(r)
      PROVE  tries' = tries /\ commands' = commands
  BY <1>5 DEF Staging!Expire, Staging!Drop, Staging!DropTask, Staging!agentVars
<1>6. CASE AgentStep
  <2>1. tries' = tries /\ commands' \in Nat /\ commands' <= commands
    BY <1>1, <1>6 DEF AgentStep, Staging!Take, Staging!Remove, Staging!AgentEnds, Staging!ListDirectory,
       Staging!RemoveDirectory, Staging!requestVars, Staging!agentVars
  <2> QED
    BY <1>2, <2>1
<1> QED
  BY <1>1, <1>2, <1>3, <1>4, <1>5, <1>6 DEF Staging!Next, AgentStep

\* The lock changes hands only where its holder has its answer.
LEMMA StagingOneAtATime ==
    ASSUME StagingInv, Staging!Next
    PROVE  OneAtATime'
<1> USE StagingAssumption DEF StagingInv, StagingTypeOK, OneAtATime, Busy
<1>1. ASSUME NEW r \in Pastes, Staging!Step(r)
      PROVE  OneAtATime'
  <2>1. CASE Staging!Validate(r) \/ Staging!Lock(r) \/ Staging!Count(r)
    BY <2>1 DEF Staging!Validate, Staging!Lock, Staging!Count, Staging!Go, Staging!Answer, Staging!Release
  <2>2. CASE Staging!Write(r) \/ Staging!WriteFails(r) \/ Staging!Discard(r) \/ Staging!Type(r)
    BY <2>2 DEF Staging!Write, Staging!WriteFails, Staging!Discard, Staging!Type, Staging!Go, Staging!Answer,
       Staging!Release
  <2>3. CASE Staging!SendFails(r) \/ Staging!SendSucceeds(r) \/ Staging!GiveUp(r)
    BY <2>3 DEF Staging!SendFails, Staging!SendSucceeds, Staging!GiveUp, Staging!Go, Staging!Answer,
       Staging!Release
  <2> QED
    BY <1>1, <2>1, <2>2, <2>3 DEF Staging!Step
<1>2. ASSUME NEW r \in Pastes, Staging!Expire(r) \/ Staging!Drop(r) \/ Staging!DropTask(r)
      PROVE  OneAtATime'
  BY <1>2 DEF Staging!Expire, Staging!Drop, Staging!DropTask, Staging!KeepsOnDrop, Staging!Go, Staging!Release
<1>3. CASE AgentStep
  BY <1>3 DEF AgentStep, Staging!Take, Staging!Remove, Staging!AgentEnds, Staging!ListDirectory,
     Staging!RemoveDirectory, Staging!requestVars
<1> QED
  BY <1>1, <1>2, <1>3 DEF Staging!Next, AgentStep

\* Only a write adds an image, and there is room for it.
LEMMA StagingImages ==
    ASSUME StagingInv, StagingTypeOK', Staging!Next
    PROVE  RoomToWrite' /\ ImagesFit'
<1> USE DEF StagingInv
<1>1. StagingTypeOK /\ way' = way
  BY DEF Staging!Next, Staging!Step, Staging!Validate, Staging!Lock, Staging!Count, Staging!Write,
     Staging!WriteFails, Staging!Discard, Staging!Type, Staging!SendFails, Staging!SendSucceeds, Staging!GiveUp,
     Staging!Expire, Staging!Drop, Staging!DropTask, Staging!Take, Staging!Remove, Staging!AgentEnds,
     Staging!ListDirectory, Staging!RemoveDirectory
<1>2. /\ Cardinality(Staging!Images) \in Nat
      /\ Staging!Images' \subseteq Staging!Images =>
            Cardinality(Staging!Images') <= Cardinality(Staging!Images) /\ Cardinality(Staging!Images') \in Nat
      /\ \A r \in Pastes : Staging!Images' = Staging!Images \cup {r} =>
            Cardinality(Staging!Images') <= Cardinality(Staging!Images) + 1 /\ Cardinality(Staging!Images') \in Nat
  BY <1>1, ImagesLemma
\* Who is about to write was so before, or has counted.
<1>3. ASSUME Staging!Images' \subseteq Staging!Images,
             \A q \in Pastes : at'[q] = "write" => at[q] = "write" \/ Staging!Count(q)
      PROVE  RoomToWrite' /\ ImagesFit'
  <2>1. ImagesFit'
    BY <1>1, <1>2, <1>3, StagingAssumption DEF ImagesFit
  <2>2. ASSUME NEW q \in Pastes, at'[q] = "write"
        PROVE  IF way = "terminal" THEN Cardinality(Staging!Images') < DirectoryLimit ELSE Staging!Images' = {}
    <3>1. CASE at[q] = "write"
      BY <1>2, <1>3, <3>1, StagingAssumption DEF RoomToWrite
    <3>2. CASE Staging!Count(q)
      <4>1. ~Staging!Full
        BY <1>1, <2>2, <3>2 DEF Staging!Count, Staging!Answer, Staging!Go, StagingTypeOK
      <4>2. CASE way = "terminal"
        BY <1>2, <1>3, <4>1, <4>2, StagingAssumption, StagingCardinality DEF Staging!Full
      <4>3. CASE way # "terminal"
        <5>1. Staging!Images = {}
          BY <4>1, <4>3 DEF Staging!Full
        <5> QED
          BY <1>3, <4>3, <5>1
      <4> QED
        BY <4>2, <4>3
    <3> QED
      BY <1>3, <2>2, <3>1, <3>2
  <2> QED
    BY <1>1, <2>1, <2>2 DEF RoomToWrite
<1>4. ASSUME NEW r \in Pastes, Staging!Write(r)
      PROVE  RoomToWrite' /\ ImagesFit'
  <2>1. at[r] = "write" /\ lock = r /\ at'[r] # "write"
    BY <1>1, <1>4 DEF Staging!Write, Staging!Go, StagingTypeOK, OneAtATime, Busy
  <2>2. \A q \in Pastes : at'[q] # "write"
    BY <1>1, <1>4, <2>1 DEF Staging!Write, Staging!Go, StagingTypeOK, OneAtATime, Busy
  <2>3. Staging!Images' = Staging!Images \cup {r}
    BY <1>1, <1>4, StagingAssumption DEF Staging!Write, Staging!Images, StagingTypeOK
  <2>4. way = "terminal" => Cardinality(Staging!Images') <= DirectoryLimit
    BY <1>2, <2>1, <2>3, StagingAssumption DEF RoomToWrite
  <2>5. way = "clipboard" => Cardinality(Staging!Images') <= 1
    <3> SUFFICES ASSUME way = "clipboard"
                 PROVE  Cardinality(Staging!Images') <= 1
      OBVIOUS
    <3>1. Staging!Images = {} /\ Cardinality(Staging!Images) = 0
      BY <2>1, FS_EmptySet DEF RoomToWrite
    <3> QED
      BY <1>2, <2>3, <3>1
  <2> QED
    BY <1>1, <2>2, <2>4, <2>5 DEF RoomToWrite, ImagesFit
<1>5. ASSUME NEW r \in Pastes,
             \/ Staging!Validate(r) \/ Staging!Lock(r) \/ Staging!Count(r) \/ Staging!WriteFails(r)
             \/ Staging!Discard(r) \/ Staging!Type(r) \/ Staging!SendFails(r) \/ Staging!SendSucceeds(r)
             \/ Staging!GiveUp(r) \/ Staging!Expire(r) \/ Staging!Drop(r) \/ Staging!DropTask(r)
      PROVE  /\ Staging!Images' \subseteq Staging!Images
             /\ \A q \in Pastes : at'[q] = "write" => at[q] = "write" \/ Staging!Count(q)
  <2>1. CASE Staging!Count(r)
    BY <1>1, <2>1 DEF Staging!Count, Staging!Answer, Staging!Go, Staging!Images, StagingTypeOK
  <2>2. CASE \/ Staging!Validate(r) \/ Staging!Lock(r) \/ Staging!WriteFails(r) \/ Staging!SendFails(r)
             \/ Staging!SendSucceeds(r) \/ Staging!DropTask(r)
    BY <1>1, <2>2 DEF Staging!Validate, Staging!Lock, Staging!WriteFails, Staging!SendFails,
       Staging!SendSucceeds, Staging!DropTask, Staging!Answer, Staging!Go, Staging!Images, StagingTypeOK
  <2>3. CASE Staging!Discard(r) \/ Staging!Type(r) \/ Staging!GiveUp(r) \/ Staging!Expire(r) \/ Staging!Drop(r)
    BY <1>1, <2>3 DEF Staging!Discard, Staging!Type, Staging!GiveUp, Staging!Expire, Staging!Drop,
       Staging!Answer, Staging!Go, Staging!Unstage, Staging!Images, StagingTypeOK
  <2> QED
    BY <1>5, <2>1, <2>2, <2>3
<1>6. CASE AgentStep
  <2>1. Staging!Images' \subseteq Staging!Images /\ at' = at
    <3>1. at' = at
      BY <1>6 DEF AgentStep, Staging!Take, Staging!Remove, Staging!AgentEnds, Staging!ListDirectory,
         Staging!RemoveDirectory, Staging!requestVars
    <3>2. \A r \in Pastes : file'[r] = file[r] \/ file'[r] = None
      BY <1>1, <1>6 DEF AgentStep, Staging!Take, Staging!Remove, Staging!AgentEnds, Staging!ListDirectory,
         Staging!RemoveDirectory, Staging!Unstage, StagingTypeOK
    <3> QED
      BY <3>1, <3>2 DEF Staging!Images
  <2> QED
    BY <1>3, <2>1
<1> QED
  BY <1>3, <1>4, <1>5, <1>6 DEF Staging!Next, Staging!Step, AgentStep

LEMMA StagingImageOf ==
    ASSUME StagingInv, Staging!Next
    PROVE  (\A r \in Pastes : ImageOf(r))'
<1> USE StagingAssumption DEF StagingInv, StagingTypeOK, Busy, ImageOf
<1>1. ASSUME NEW r \in Pastes, Staging!Validate(r) \/ Staging!Lock(r) \/ Staging!Count(r)
      PROVE  (\A q \in Pastes : ImageOf(q))'
  BY <1>1 DEF Staging!Validate, Staging!Lock, Staging!Count, Staging!Go, Staging!Answer, Staging!agentVars,
     Staging!endVars
<1>2. ASSUME NEW r \in Pastes, Staging!Write(r) \/ Staging!WriteFails(r) \/ Staging!Discard(r)
      PROVE  (\A q \in Pastes : ImageOf(q))'
  BY <1>2 DEF Staging!Write, Staging!WriteFails, Staging!Discard, Staging!Go, Staging!Answer, Staging!Unstage,
     Staging!agentVars, Staging!endVars
<1>3. ASSUME NEW r \in Pastes, Staging!Type(r)
      PROVE  (\A q \in Pastes : ImageOf(q))'
  BY <1>3 DEF Staging!Type, Staging!Go, Staging!Answer, Staging!Unstage, Staging!endVars
<1>4. ASSUME NEW r \in Pastes, Staging!SendFails(r) \/ Staging!SendSucceeds(r) \/ Staging!GiveUp(r)
      PROVE  (\A q \in Pastes : ImageOf(q))'
  BY <1>4 DEF Staging!SendFails, Staging!SendSucceeds, Staging!GiveUp, Staging!Go, Staging!Answer,
     Staging!Unstage, Staging!agentVars, Staging!endVars
<1>5. ASSUME NEW r \in Pastes, Staging!Expire(r) \/ Staging!Drop(r) \/ Staging!DropTask(r)
      PROVE  (\A q \in Pastes : ImageOf(q))'
  BY <1>5 DEF ReadOnce, Staging!Expire, Staging!Drop, Staging!DropTask, Staging!Go, Staging!Unstage,
     Staging!agentVars, Staging!endVars
<1>6. CASE Staging!Take
  BY <1>6 DEF Staging!Take, Staging!Images, Staging!requestVars, Staging!endVars
<1>7. CASE Staging!Remove
  BY <1>7 DEF ReadOnce, Staging!Remove, Staging!Unstage, Staging!requestVars, Staging!endVars
<1>8. CASE Staging!AgentEnds \/ Staging!ListDirectory \/ Staging!RemoveDirectory
  BY <1>8 DEF Staging!AgentEnds, Staging!ListDirectory, Staging!RemoveDirectory, Staging!requestVars,
     Staging!agentVars
<1> QED
  BY <1>1, <1>2, <1>3, <1>4, <1>5, <1>6, <1>7, <1>8 DEF Staging!Next, Staging!Step

LEMMA StagingReadOnce ==
    ASSUME StagingInv, Staging!Next
    PROVE  ReadOnce'
<1> USE StagingAssumption DEF StagingInv, StagingTypeOK, Busy, ReadOnce
<1>1. ASSUME NEW r \in Pastes, Staging!Validate(r) \/ Staging!Lock(r) \/ Staging!Count(r)
                               \/ Staging!SendFails(r) \/ Staging!DropTask(r)
      PROVE  ReadOnce'
  BY <1>1 DEF Staging!Validate, Staging!Lock, Staging!Count, Staging!SendFails, Staging!DropTask,
     Staging!agentVars, Staging!endVars
<1>2. ASSUME NEW r \in Pastes, Staging!Write(r) \/ Staging!WriteFails(r) \/ Staging!Discard(r)
      PROVE  ReadOnce'
  BY <1>2 DEF ImageOf, Staging!Write, Staging!WriteFails, Staging!Discard, Staging!Unstage, Staging!agentVars,
     Staging!endVars
<1>3. ASSUME NEW r \in Pastes, Staging!Type(r)
      PROVE  ReadOnce'
  BY <1>3 DEF ImageOf, Staging!Type, Staging!Unstage, Staging!endVars
<1>4. ASSUME NEW r \in Pastes, Staging!SendSucceeds(r)
      PROVE  ReadOnce'
  BY <1>4 DEF ImageOf, Staging!SendSucceeds, Staging!endVars
<1>5. ASSUME NEW r \in Pastes, Staging!GiveUp(r) \/ Staging!Expire(r) \/ Staging!Drop(r)
      PROVE  ReadOnce'
  BY <1>5 DEF Staging!GiveUp, Staging!Expire, Staging!Drop, Staging!Unstage, Staging!agentVars, Staging!endVars
<1>6. CASE Staging!Take
  BY <1>6 DEF Staging!Take, Staging!Images, Staging!requestVars, Staging!endVars
<1>7. CASE Staging!Remove
  BY <1>7 DEF Staging!Remove, Staging!Unstage, Staging!requestVars, Staging!endVars
<1>8. CASE Staging!AgentEnds \/ Staging!ListDirectory \/ Staging!RemoveDirectory
  BY <1>8 DEF Staging!AgentEnds, Staging!ListDirectory, Staging!RemoveDirectory, Staging!requestVars,
     Staging!agentVars
<1> QED
  BY <1>1, <1>2, <1>3, <1>4, <1>5, <1>6, <1>7, <1>8 DEF Staging!Next, Staging!Step

\* An invariant of the images at any moment, whoever goes away.
THEOREM StagingInductive == AgentSpec => []StagingInv
<1>1. StagingInv /\ [AgentNext]_allVars => StagingInv'
  <2> SUFFICES ASSUME StagingInv, [AgentNext]_allVars
               PROVE  StagingInv'
    OBVIOUS
  <2>1. CASE Staging!Next
    <3>1. StagingTypeOK'
      BY <2>1, StagingTypes
    <3> QED
      BY <2>1, <3>1, CommandsAreSent, StagingOneAtATime, StagingImages, StagingImageOf, StagingReadOnce
         DEF StagingInv
  <2>2. CASE UNCHANGED stagingVars
    <3>1. /\ UNCHANGED <<way, at, dropped, result, tries, lock, file, timer, commands, reading, pasted, agent, listed>>
          /\ Staging!Images' = Staging!Images /\ Sent' = Sent
      BY <2>2 DEF stagingVars, Staging!Images, Sent
    <3> QED
      BY <3>1 DEF StagingInv, StagingTypeOK, OneAtATime, RoomToWrite, ImagesFit, ImageOf, ReadOnce
  <2> QED
    BY <2>1, <2>2 DEF AgentNext, OfReports, OfRuntime, OfStaging, OfPi, allVars
<1> QED
  BY <1>1, StagingInitial, PTL DEF AgentSpec

\* The directory and the clipboard never hold more than they may, an image is
\* there for a paste that was typed and gone after one that failed, and an agent
\* gets it at most once (runtime_input.rs).
THEOREM ImagesStaged == AgentSpec => []StagedForOnePaste
<1>1. StagingInv => StagedForOnePaste
  <2> SUFFICES ASSUME StagingInv
               PROVE  StagedForOnePaste
    OBVIOUS
  <2>1. StagingTypeOK
    BY DEF StagingInv
  <2>2. commands \in 0..(Tries * Cardinality(Pastes))
    <3>1. Cardinality(Sent) \in Nat /\ Cardinality(Sent) <= Tries * Cardinality(Pastes)
      BY <2>1, SentLemma
    <3>2. Tries * Cardinality(Pastes) \in Nat
      BY FS_CardinalityType, StagingAssumption
    <3>3. commands \in Nat /\ commands <= Cardinality(Sent)
      BY DEF StagingInv, StagingTypeOK
    <3> QED
      BY <3>1, <3>2, <3>3
  <2>3. \A r \in Pastes : pasted[r] \in 0..1
    BY <2>1 DEF StagingTypeOK
  <2>4. Staging!TypeOK
    BY <2>1, <2>2, StagingCardinality DEF StagingTypeOK, Staging!TypeOK, Staging!Stages, Busy
  <2>5. ImagesFit /\ \A r \in Pastes : ImageOf(r)
    BY DEF StagingInv
  <2> QED
    BY <2>3, <2>4, <2>5, StagingCardinality DEF ImagesFit, ImageOf, StagedForOnePaste, Staging!StagedForOnePaste
<1> QED
  BY <1>1, StagingInductive, PTL

-----------------------------------------------------------------------------
(* OpenCode's event stream (OpenCodeEvents)                                *)
(*                                                                         *)
(* While the stream is open, the last event under way about a conversation *)
(* says what the runtime does in it; where none is under way about the     *)
(* session's, an answer or what is shown does.  A conversation is created  *)
(* once, so that its creation is not under way once the session has it.    *)

StreamEvents == [name : Names \cup {"session.created"}, id : Runtimes]

RuntimeTypeOK ==
    /\ phase = [id \in Runtimes |-> phase[id]]
    /\ stream \in Seq(StreamEvents)
    /\ connected \in BOOLEAN /\ untold \in BOOLEAN
    /\ watcher \in {"connect", "ask", "tell", "read", "retry", "stopped"}
    /\ current \in Runtimes \cup {None}

WatcherAtRest ==
    /\ watcher \in {"connect", "retry", "stopped"} => ~connected /\ stream = <<>>
    /\ watcher = "ask" => untold

IsCreation(event) == event.name = "session.created"

CreatedOnce ==
    /\ current # None => phase[current] # None
    /\ \A i \in 1..Len(stream) : IsCreation(stream[i]) =>
          /\ phase[stream[i].id] # None /\ stream[i].id # current
          /\ \A j \in 1..Len(stream) : IsCreation(stream[j]) /\ stream[j].id = stream[i].id => j = i

\* What the runtime does after an event.
After(event) == IF IsCreation(event) THEN "idle" ELSE Runtime!PhaseOf(event.name)

LastIsPresent ==
    connected => \A i \in 1..Len(stream) :
        (\A j \in 1..Len(stream) : i < j => stream[j].id # stream[i].id) =>
            After(stream[i]) = phase[stream[i].id]

NothingUnderWay == \A i \in 1..Len(stream) : stream[i].id # current

KnownIsPresent ==
    connected /\ current # None /\ NothingUnderWay =>
        /\ watcher = "tell" => answer = Runtime!StatusOf(phase[current])
        /\ watcher = "read" /\ ~untold => Runtime!UpToDate

RuntimeInv == RuntimeTypeOK /\ WatcherAtRest /\ CreatedOnce /\ LastIsPresent /\ KnownIsPresent

\* No event that happens here is a creation, and what it tells is something.
LEMMA NamesLemma ==
    /\ "idle" # None
    /\ \A name \in Names : name # "session.created" /\ Runtime!PhaseOf(name) # None
<1>1. "idle" \in DOMAIN Runtime!EventPhases
  BY DEF Runtime!EventPhases
<1>2. ASSUME NEW name \in Names
      PROVE  name # "session.created" /\ Runtime!PhaseOf(name) # None
  <2>1. PICK p \in DOMAIN Runtime!EventPhases : name \in Runtime!EventPhases[p]
    BY RuntimeAssumption
  <2>2. Runtime!PhaseOf(name) \in DOMAIN Runtime!EventPhases
    BY <2>1 DEF Runtime!PhaseOf
  <2>3. name # "session.created"
    <3>1. p \in {"idle", "thinking", "tool", "permission", "question", "retry", "error"}
      BY DEF Runtime!EventPhases
    <3>2. "session.created" \notin Runtime!EventPhases[p]
      <4>1. CASE p = "idle"
        BY <4>1 DEF Runtime!EventPhases
      <4>2. CASE p = "thinking"
        BY <4>2 DEF Runtime!EventPhases
      <4>3. CASE p = "tool"
        BY <4>3 DEF Runtime!EventPhases
      <4>4. CASE p = "permission"
        BY <4>4 DEF Runtime!EventPhases
      <4>5. CASE p = "question"
        BY <4>5 DEF Runtime!EventPhases
      <4>6. CASE p = "retry"
        BY <4>6 DEF Runtime!EventPhases
      <4>7. CASE p = "error"
        BY <4>7 DEF Runtime!EventPhases
      <4> QED
        BY <3>1, <4>1, <4>2, <4>3, <4>4, <4>5, <4>6, <4>7
    <3> QED
      BY <2>1, <3>2
  <2> QED
    BY <2>2, <2>3, RuntimeAssumption
<1> QED
  BY <1>1, <1>2, RuntimeAssumption

LEMMA RuntimeInitial == AgentInit => RuntimeInv
<1> SUFFICES ASSUME AgentInit
             PROVE  RuntimeInv
  OBVIOUS
<1>1. Runtime!Init
  BY DEF AgentInit
<1>2. PICK resumed \in Runtimes \cup {None} :
        current = resumed /\ phase = [id \in Runtimes |-> IF id = resumed THEN "idle" ELSE None]
  BY <1>1 DEF Runtime!Init
<1>3. ~connected /\ connected = FALSE /\ stream = <<>> /\ watcher = "connect" /\ untold = TRUE
  BY <1>1 DEF Runtime!Init
<1>4. RuntimeTypeOK
  <2>1. stream \in Seq(StreamEvents)
    BY <1>3
  <2>2. phase = [id \in Runtimes |-> phase[id]] /\ current \in Runtimes \cup {None}
    BY <1>2
  <2> QED
    BY <1>3, <2>1, <2>2 DEF RuntimeTypeOK
<1>5. CreatedOnce
  BY <1>2, <1>3, NamesLemma DEF CreatedOnce
<1> QED
  BY <1>3, <1>4, <1>5 DEF RuntimeInv, WatcherAtRest, LastIsPresent, KnownIsPresent

\* An event of the runtime, on its way if the stream is open.
LEMMA EmitKeeps ==
    ASSUME RuntimeInv, NEW event \in StreamEvents, Runtime!Emit(event),
           phase' = [phase EXCEPT ![event.id] = After(event)],
           After(event) # None,
           IF IsCreation(event) THEN phase[event.id] = None ELSE phase[event.id] # None
    PROVE  RuntimeInv'
<1>1. /\ UNCHANGED <<connected, watcher, answer, current, activity, untold>>
      /\ stream' = IF connected THEN Append(stream, event) ELSE stream
  BY DEF Runtime!Emit, Runtime!Hears
<1>2. /\ stream \in Seq(StreamEvents) /\ phase = [id \in Runtimes |-> phase[id]]
      /\ event.id \in Runtimes /\ \A i \in 1..Len(stream) : stream[i].id \in Runtimes
  <2>1. stream \in Seq(StreamEvents) /\ phase = [id \in Runtimes |-> phase[id]]
    BY DEF RuntimeInv, RuntimeTypeOK
  <2>2. \A e \in StreamEvents : e.id \in Runtimes
    BY DEF StreamEvents
  <2> QED
    BY <2>1, <2>2
<1>3. phase' = [id \in Runtimes |-> phase'[id]] /\ phase'[event.id] = After(event)
      /\ \A id \in Runtimes \ {event.id} : phase'[id] = phase[id]
  BY <1>2
<1>4. RuntimeTypeOK'
  BY <1>1, <1>2, <1>3 DEF RuntimeInv, RuntimeTypeOK
<1>5. WatcherAtRest'
  BY <1>1 DEF RuntimeInv, WatcherAtRest
<1>6. current # None => current \in Runtimes /\ phase[current] # None /\ phase'[current] # None
  BY <1>3 DEF RuntimeInv, RuntimeTypeOK, CreatedOnce
<1>7. CASE connected
  <2>1. Len(stream') = Len(stream) + 1 /\ Len(stream) \in Nat
        /\ \A i \in 1..Len(stream') : stream'[i] = IF i = Len(stream) + 1 THEN event ELSE stream[i]
    BY <1>1, <1>2, <1>7
  <2>2. CreatedOnce'
    <3>1. ASSUME NEW i \in 1..Len(stream'), IsCreation(stream'[i])
          PROVE  /\ phase'[stream'[i].id] # None /\ stream'[i].id # current
                 /\ \A j \in 1..Len(stream') : IsCreation(stream'[j]) /\ stream'[j].id = stream'[i].id => j = i
      <4>1. CASE i = Len(stream) + 1
        <5>1. stream'[i] = event /\ IsCreation(event) /\ phase[event.id] = None /\ event.id # None
          BY <1>2, <2>1, <3>1, <4>1, RuntimeAssumption
        <5>2. phase'[event.id] # None /\ event.id # current
          BY <1>3, <1>6, <5>1
        <5>3. ASSUME NEW j \in 1..Len(stream'), IsCreation(stream'[j]), stream'[j].id = event.id
              PROVE  j = i
          BY <2>1, <4>1, <5>1, <5>3 DEF RuntimeInv, CreatedOnce
        <5> QED
          BY <5>1, <5>2, <5>3
      <4>2. CASE i # Len(stream) + 1
        <5>1. i \in 1..Len(stream) /\ stream'[i] = stream[i] /\ stream[i].id \in Runtimes
              /\ phase[stream[i].id] # None /\ stream[i].id # current
          BY <1>2, <2>1, <3>1, <4>2 DEF RuntimeInv, CreatedOnce
        <5>2. phase'[stream[i].id] # None
          BY <1>3, <5>1
        <5>3. ASSUME NEW j \in 1..Len(stream'), IsCreation(stream'[j]), stream'[j].id = stream'[i].id
              PROVE  j = i
          BY <2>1, <3>1, <5>1, <5>3 DEF RuntimeInv, CreatedOnce
        <5> QED
          BY <5>1, <5>2, <5>3
      <4> QED
        BY <4>1, <4>2
    <3> QED
      BY <1>1, <1>6, <3>1 DEF CreatedOnce, IsCreation
  <2>3. LastIsPresent'
    <3>1. ASSUME NEW i \in 1..Len(stream'), \A j \in 1..Len(stream') : i < j => stream'[j].id # stream'[i].id
          PROVE  After(stream'[i]) = phase'[stream'[i].id]
      <4>1. CASE i = Len(stream) + 1
        BY <1>3, <2>1, <4>1
      <4>2. CASE i # Len(stream) + 1
        <5>1. i \in 1..Len(stream) /\ stream'[i] = stream[i] /\ stream[i].id \in Runtimes
          BY <1>2, <2>1, <4>2
        <5>2. stream[i].id # event.id
          BY <2>1, <3>1, <4>2, <5>1
        <5>3. \A j \in 1..Len(stream) : i < j => stream[j].id # stream[i].id
          BY <2>1, <3>1, <5>1
        <5> QED
          BY <1>3, <1>7, <5>1, <5>2, <5>3 DEF RuntimeInv, LastIsPresent
      <4> QED
        BY <4>1, <4>2
    <3> QED
      BY <3>1 DEF LastIsPresent, After, IsCreation
  <2>4. KnownIsPresent'
    <3> SUFFICES ASSUME current # None, \A i \in 1..Len(stream') : stream'[i].id # current
                 PROVE  /\ watcher = "tell" => answer = Runtime!StatusOf(phase'[current])
                        /\ watcher = "read" /\ ~untold =>
                              activity \in {phase'[current], Runtime!StatusOf(phase'[current])}
      BY <1>1 DEF KnownIsPresent, NothingUnderWay, Runtime!UpToDate, Runtime!StatusOf
    <3>1. current # event.id /\ NothingUnderWay
      BY <2>1 DEF NothingUnderWay
    <3>2. phase'[current] = phase[current]
      BY <1>3, <1>6, <3>1
    <3> QED
      BY <1>7, <3>1, <3>2 DEF RuntimeInv, KnownIsPresent, Runtime!UpToDate
  <2> QED
    BY <1>4, <1>5, <2>2, <2>3, <2>4 DEF RuntimeInv
<1>8. CASE ~connected
  <2>1. stream' = stream
    BY <1>1, <1>8
  <2>2. CreatedOnce'
    BY <1>1, <1>2, <1>3, <1>6, <2>1 DEF RuntimeInv, CreatedOnce
  <2> QED
    BY <1>1, <1>4, <1>5, <1>8, <2>2 DEF RuntimeInv, LastIsPresent, KnownIsPresent
<1> QED
  BY <1>7, <1>8

\* The first event is taken from the stream, and nothing but the conversation changes.
LEMMA TakeKeeps ==
    ASSUME RuntimeInv, stream # <<>>, stream' = Tail(stream), UNCHANGED <<phase, connected>>,
           current' = current \/ (IsCreation(Head(stream)) /\ current' = Head(stream).id)
    PROVE  /\ stream' \in Seq(StreamEvents) /\ CreatedOnce' /\ LastIsPresent'
           /\ Head(stream) \in StreamEvents
           /\ connected /\ NothingUnderWay' =>
                 \/ Head(stream).id = current' /\ After(Head(stream)) = phase[current']
                 \/ current' = current /\ NothingUnderWay
           /\ IsCreation(Head(stream)) => Head(stream).id # current /\ phase[Head(stream).id] # None
<1> DEFINE head == Head(stream)
<1>1. /\ stream \in Seq(StreamEvents) /\ Len(stream) \in Nat \ {0} /\ head = stream[1] /\ head \in StreamEvents
      /\ stream' \in Seq(StreamEvents) /\ Len(stream') = Len(stream) - 1
      /\ \A i \in 1..Len(stream') : stream'[i] = stream[i + 1] /\ i + 1 \in 1..Len(stream)
  BY DEF RuntimeInv, RuntimeTypeOK
<1> HIDE DEF head
<1>2. IsCreation(head) => /\ phase[head.id] # None /\ head.id # current
                          /\ \A j \in 1..Len(stream) : IsCreation(stream[j]) /\ stream[j].id = head.id => j = 1
  BY <1>1 DEF RuntimeInv, CreatedOnce
<1>3. CreatedOnce'
  <2>1. current' # None => phase[current'] # None
    BY <1>2 DEF RuntimeInv, CreatedOnce, head
  <2>2. ASSUME NEW i \in 1..Len(stream'), IsCreation(stream'[i])
        PROVE  /\ phase[stream'[i].id] # None /\ stream'[i].id # current'
               /\ \A j \in 1..Len(stream') : IsCreation(stream'[j]) /\ stream'[j].id = stream'[i].id => j = i
    <3>1. i + 1 \in 1..Len(stream) /\ stream'[i] = stream[i + 1]
      BY <1>1
    <3>2. /\ phase[stream[i + 1].id] # None /\ stream[i + 1].id # current
          /\ \A j \in 1..Len(stream) : IsCreation(stream[j]) /\ stream[j].id = stream[i + 1].id => j = i + 1
      BY <2>2, <3>1 DEF RuntimeInv, CreatedOnce
    <3>3. IsCreation(head) => stream[i + 1].id # head.id
      BY <1>1, <1>2, <2>2, <3>1, <3>2
    <3>4. ASSUME NEW j \in 1..Len(stream'), IsCreation(stream'[j]), stream'[j].id = stream'[i].id
          PROVE  j = i
      BY <1>1, <3>1, <3>2, <3>4
    <3> QED
      BY <3>1, <3>2, <3>3, <3>4 DEF head
  <2> QED
    BY <2>1, <2>2 DEF CreatedOnce, IsCreation
<1>4. LastIsPresent'
  <2>1. ASSUME connected, NEW i \in 1..Len(stream'), \A j \in 1..Len(stream') : i < j => stream'[j].id # stream'[i].id
        PROVE  After(stream'[i]) = phase[stream'[i].id]
    <3>1. i + 1 \in 1..Len(stream) /\ stream'[i] = stream[i + 1]
      BY <1>1
    <3>2. ASSUME NEW j \in 1..Len(stream), i + 1 < j
          PROVE  stream[j].id # stream[i + 1].id
      <4>1. j - 1 \in 1..Len(stream') /\ i < j - 1 /\ stream'[j - 1] = stream[j]
        BY <1>1, <3>1, <3>2
      <4> QED
        BY <2>1, <3>1, <4>1
    <3> QED
      BY <2>1, <3>1, <3>2 DEF RuntimeInv, LastIsPresent
  <2> QED
    BY <2>1 DEF LastIsPresent, After, IsCreation
<1>5. ASSUME connected, NothingUnderWay'
      PROVE  \/ head.id = current' /\ After(head) = phase[current']
             \/ current' = current /\ NothingUnderWay
  <2>1. ASSUME NEW j \in 1..Len(stream), 1 < j
        PROVE  stream[j].id # current'
    <3>1. j - 1 \in 1..Len(stream') /\ stream'[j - 1] = stream[j]
      BY <1>1, <2>1
    <3> QED
      BY <1>5, <3>1 DEF NothingUnderWay
  <2>2. CASE head.id = current'
    <3>1. 1 \in 1..Len(stream) /\ \A j \in 1..Len(stream) : 1 < j => stream[j].id # stream[1].id
      BY <1>1, <2>1, <2>2
    <3> QED
      BY <1>1, <1>5, <2>2, <3>1 DEF RuntimeInv, LastIsPresent
  <2>3. CASE head.id # current'
    <3>1. current' = current
      BY <2>3 DEF head
    <3>2. NothingUnderWay
      BY <1>1, <2>1, <2>3, <3>1 DEF NothingUnderWay
    <3> QED
      BY <3>1, <3>2
  <2> QED
    BY <2>2, <2>3
<1> QED
  BY <1>1, <1>2, <1>3, <1>4, <1>5 DEF head

LEMMA WatcherKeeps ==
    ASSUME RuntimeInv, Runtime!Work \/ Runtime!Stop
    PROVE  RuntimeInv'
<1> USE DEF RuntimeInv
<1>1. CASE Runtime!Connect
  <2>1. /\ watcher = "connect" /\ watcher' = "ask" /\ connected' /\ untold' /\ connected' = TRUE /\ untold' = TRUE
        /\ stream = <<>>
        /\ UNCHANGED <<phase, stream, answer, current, activity>>
    BY <1>1 DEF Runtime!Connect, Runtime!Watcher, Runtime!runtimeVars, WatcherAtRest
  <2> QED
    BY <2>1 DEF RuntimeTypeOK, WatcherAtRest, CreatedOnce, LastIsPresent, KnownIsPresent
<1>2. CASE Runtime!ConnectFails \/ Runtime!EndOfStream \/ Runtime!Retry
  <2>1. /\ ~connected /\ stream = <<>> /\ watcher' \in {"retry", "connect"}
        /\ UNCHANGED <<phase, connected, stream, answer, current, activity, untold>>
    BY <1>2 DEF Runtime!ConnectFails, Runtime!EndOfStream, Runtime!Retry, Runtime!Watcher, Runtime!runtimeVars,
       WatcherAtRest
  <2> QED
    BY <2>1 DEF RuntimeTypeOK, WatcherAtRest, CreatedOnce, LastIsPresent, KnownIsPresent
<1>3. CASE Runtime!Ask
  <2>1. /\ watcher = "ask" /\ UNCHANGED <<phase, connected, stream, current, activity, untold>>
        /\ \/ current = None /\ watcher' = "read"
           \/ current # None /\ watcher' = "tell" /\ answer' = Runtime!StatusOf(phase[current])
    BY <1>3 DEF Runtime!Ask, Runtime!Watcher, Runtime!runtimeVars
  <2>2. RuntimeTypeOK' /\ WatcherAtRest' /\ CreatedOnce' /\ LastIsPresent'
    BY <2>1 DEF RuntimeTypeOK, WatcherAtRest, CreatedOnce, LastIsPresent
  <2>3. KnownIsPresent'
    BY <2>1 DEF KnownIsPresent, Runtime!StatusOf
  <2> QED
    BY <2>2, <2>3
<1>4. CASE Runtime!AskFails
  <2>1. watcher = "ask" /\ untold /\ watcher' = "read"
        /\ UNCHANGED <<phase, connected, stream, answer, current, activity, untold>>
    BY <1>4 DEF Runtime!AskFails, Runtime!Watcher, Runtime!runtimeVars, WatcherAtRest
  <2> QED
    BY <2>1 DEF RuntimeTypeOK, WatcherAtRest, CreatedOnce, LastIsPresent, KnownIsPresent
<1>5. CASE Runtime!Tell
  <2>1. watcher = "tell" /\ watcher' = "read" /\ untold' = FALSE /\ activity' = answer
        /\ UNCHANGED <<phase, connected, stream, current>>
    BY <1>5 DEF Runtime!Tell, Runtime!Watcher, Runtime!runtimeVars
  <2>2. RuntimeTypeOK' /\ WatcherAtRest' /\ CreatedOnce' /\ LastIsPresent'
    BY <2>1 DEF RuntimeTypeOK, WatcherAtRest, CreatedOnce, LastIsPresent
  <2>3. connected /\ current # None /\ NothingUnderWay => activity' = Runtime!StatusOf(phase[current])
    BY <2>1 DEF KnownIsPresent
  <2>4. KnownIsPresent'
    BY <2>1, <2>3 DEF KnownIsPresent, NothingUnderWay, Runtime!UpToDate, Runtime!StatusOf
  <2> QED
    BY <2>2, <2>4
<1>6. CASE Runtime!Read
  <2> DEFINE head == Head(stream)
  <2>1. stream # <<>> /\ (Runtime!Created(head) \/ Runtime!Activity(head))
    BY <1>6 DEF Runtime!Read
  <2>2. /\ watcher = "read" /\ stream' = Tail(stream) /\ UNCHANGED <<phase, connected, answer>>
        /\ current' = current \/ (IsCreation(head) /\ current' = head.id)
    BY <2>1 DEF Runtime!Created, Runtime!Activity, Runtime!Take, Runtime!Watcher, Runtime!runtimeVars, IsCreation
  <2>3. /\ stream' \in Seq(StreamEvents) /\ CreatedOnce' /\ LastIsPresent' /\ head \in StreamEvents
        /\ connected /\ NothingUnderWay' =>
              \/ head.id = current' /\ After(head) = phase[current']
              \/ current' = current /\ NothingUnderWay
        /\ IsCreation(head) => head.id # current /\ phase[head.id] # None
    BY <2>1, <2>2, TakeKeeps
  <2>4. head.id \in Runtimes
    BY <2>3 DEF StreamEvents
  <2>5. watcher' \in {"read", "ask"} /\ (watcher' = "ask" => untold') /\ untold' \in BOOLEAN
    BY <2>1 DEF Runtime!Created, Runtime!Activity, Runtime!Watcher, RuntimeTypeOK
  <2>6. RuntimeTypeOK' /\ WatcherAtRest'
    BY <2>2, <2>3, <2>4, <2>5 DEF RuntimeTypeOK, WatcherAtRest
  <2>7. ASSUME connected, current' # None, NothingUnderWay', watcher' = "read", ~untold'
        PROVE  activity' \in {phase[current'], Runtime!StatusOf(phase[current'])}
    <3>1. CASE Runtime!Created(head)
      <4>1. IsCreation(head) /\ UNCHANGED <<current, activity, untold>>
        BY <2>7, <3>1 DEF Runtime!Created, Runtime!Watcher, IsCreation
      <4>2. NothingUnderWay
        BY <2>3, <2>7, <4>1
      <4> QED
        BY <2>2, <2>7, <4>1, <4>2 DEF KnownIsPresent, Runtime!UpToDate
    <3>2. CASE Runtime!Activity(head)
      <4>1. /\ ~IsCreation(head) /\ current' = current
            /\ IF head.id = current THEN activity' = Runtime!PhaseOf(head.name) ELSE UNCHANGED <<activity, untold>>
        BY <3>2 DEF Runtime!Activity, IsCreation
      <4>2. CASE head.id = current
        <5>1. NothingUnderWay => head.id # current
          <6>1. Len(stream) \in Nat \ {0} /\ head = stream[1]
            BY <2>1 DEF RuntimeTypeOK
          <6> QED
            BY <6>1 DEF NothingUnderWay
        <5>2. After(head) = phase[current]
          BY <2>3, <2>7, <4>1, <4>2, <5>1
        <5> QED
          BY <4>1, <4>2, <5>2 DEF After
      <4>3. CASE head.id # current
        <5>1. NothingUnderWay /\ UNCHANGED <<activity, untold>>
          BY <2>3, <2>7, <4>1, <4>3
        <5> QED
          BY <2>2, <2>7, <4>1, <5>1 DEF KnownIsPresent, Runtime!UpToDate
      <4> QED
        BY <4>2, <4>3
    <3> QED
      BY <2>1, <3>1, <3>2
  <2>8. KnownIsPresent'
    BY <2>2, <2>5, <2>7 DEF KnownIsPresent, Runtime!UpToDate, Runtime!StatusOf
  <2> QED
    BY <2>3, <2>6, <2>8
<1>7. CASE Runtime!Stop
  <2>1. ~connected' /\ connected' = FALSE /\ stream' = <<>> /\ watcher' = "stopped"
        /\ UNCHANGED <<phase, answer, current, activity, untold>>
    BY <1>7 DEF Runtime!Stop, Runtime!runtimeVars
  <2>2. stream' \in Seq(StreamEvents) /\ 1..Len(stream') = {}
    BY <2>1
  <2>3. RuntimeTypeOK' /\ WatcherAtRest'
    BY <2>1, <2>2 DEF RuntimeTypeOK, WatcherAtRest
  <2>4. CreatedOnce'
    BY <2>1, <2>2 DEF CreatedOnce
  <2> QED
    BY <2>1, <2>3, <2>4 DEF LastIsPresent, KnownIsPresent
<1> QED
  BY <1>1, <1>2, <1>3, <1>4, <1>5, <1>6, <1>7 DEF Runtime!Work

\* What is under way about the session's conversation ends in what the runtime does.
THEOREM RuntimeInductive == AgentSpec => []RuntimeInv
<1>1. RuntimeInv /\ [AgentNext]_allVars => RuntimeInv'
  <2> SUFFICES ASSUME RuntimeInv, [AgentNext]_allVars
               PROVE  RuntimeInv'
    OBVIOUS
  <2>1. CASE Runtime!Next
    <3>1. ASSUME NEW id \in Runtimes, Runtime!Create(id)
          PROVE  RuntimeInv'
      <4> DEFINE event == [name |-> "session.created", id |-> id]
      <4>1. event \in StreamEvents /\ IsCreation(event) /\ event.id = id /\ After(event) = "idle"
        BY DEF StreamEvents, IsCreation, After
      <4>2. Runtime!Emit(event) /\ phase[id] = None /\ phase' = [phase EXCEPT ![id] = "idle"]
        BY <3>1 DEF Runtime!Create
      <4> HIDE DEF event
      <4> QED
        BY <4>1, <4>2, NamesLemma, EmitKeeps
    <3>2. ASSUME NEW id \in Runtimes, NEW name \in Names, Runtime!Go(id, name)
          PROVE  RuntimeInv'
      <4> DEFINE event == [name |-> name, id |-> id]
      <4>1. event \in StreamEvents /\ ~IsCreation(event) /\ event.id = id
            /\ After(event) = Runtime!PhaseOf(name) /\ After(event) # None
        BY NamesLemma DEF StreamEvents, IsCreation, After
      <4>2. Runtime!Emit(event) /\ phase[id] # None /\ phase' = [phase EXCEPT ![id] = Runtime!PhaseOf(name)]
        BY <3>2 DEF Runtime!Go
      <4> HIDE DEF event
      <4> QED
        BY <4>1, <4>2, EmitKeeps
    <3>3. ASSUME NEW n \in 0..Len(stream), Runtime!Break(n)
          PROVE  RuntimeInv'
      <4>1. /\ connected /\ ~connected' /\ connected' = FALSE /\ stream' = SubSeq(stream, 1, n)
            /\ UNCHANGED <<phase, watcher, answer, current, activity, untold>>
        BY <3>3 DEF Runtime!Break, Runtime!runtimeVars
      <4>2. stream \in Seq(StreamEvents)
        BY DEF RuntimeInv, RuntimeTypeOK
      <4>3. /\ stream' \in Seq(StreamEvents)
            /\ \A i \in 1..Len(stream') : stream'[i] = stream[i] /\ i \in 1..Len(stream)
        BY <4>1, <4>2
      <4>4. CreatedOnce'
        BY <4>1, <4>3 DEF RuntimeInv, CreatedOnce
      <4> QED
        BY <4>1, <4>3, <4>4 DEF RuntimeInv, RuntimeTypeOK, WatcherAtRest, LastIsPresent, KnownIsPresent
    <3>4. CASE Runtime!End
      BY <3>4 DEF Runtime!End, Runtime!runtimeVars, RuntimeInv, RuntimeTypeOK, WatcherAtRest, CreatedOnce,
         LastIsPresent, KnownIsPresent, NothingUnderWay, Runtime!UpToDate, Runtime!StatusOf
    <3> QED
      BY <2>1, <3>1, <3>2, <3>3, <3>4, WatcherKeeps DEF Runtime!Next
  <2>2. CASE UNCHANGED runtimeVars
    BY <2>2 DEF runtimeVars, RuntimeInv, RuntimeTypeOK, WatcherAtRest, CreatedOnce, LastIsPresent,
       KnownIsPresent, NothingUnderWay, Runtime!UpToDate, Runtime!StatusOf
  <2> QED
    BY <2>1, <2>2 DEF AgentNext, OfReports, OfRuntime, OfStaging, OfPi, allVars
<1> QED
  BY <1>1, RuntimeInitial, PTL DEF AgentSpec

\* A session whose stream is read to its end shows what the runtime does, as far
\* as the runtime told (agent/runtime/events.rs).
THEOREM SettledUpToDate == AgentSpec => []SettledIsUpToDate
<1>1. RuntimeInv => SettledIsUpToDate
  BY DEF RuntimeInv, KnownIsPresent, NothingUnderWay, SettledIsUpToDate, Runtime!SettledIsUpToDate
<1> QED
  BY <1>1, RuntimeInductive, PTL

-----------------------------------------------------------------------------
(* Reports of hooks and of the plugin (AgentReports)                       *)
(*                                                                         *)
(* A message on its way has its event's number, which the event keeps once *)
(* its hook is gone.  While the bridge is open, an event that is not lost  *)
(* is on its way, or what is shown is no older.                            *)

HookStages == {"none", "started", "locked", "numbered", "gone"}
Hooks == [stage : HookStages, number : Nat]
Messages == [event : 1..MaxEvents, number : Nat]
Happenings == [name : IF reporter = "hooks" THEN HookEvents ELSE PluginEvents, id : Ids]

ReportsTypeOK ==
    /\ reporter \in {"hooks", "plugin"}
    /\ events \in Seq(Happenings) /\ Len(events) <= MaxEvents
    /\ hooks \in [1..MaxEvents -> Hooks]
    /\ counter \in Nat \cup {None}
    /\ queue \in Seq(Messages) /\ readers \subseteq Messages /\ received \in Seq(Messages)
    /\ accepted \in Nat
    /\ upstream \in {None} \cup {Resolves[id] : id \in Ids}

OneReporter ==
    /\ reporter = "hooks" => queue = <<>>
    /\ \A e \in 1..MaxEvents : hooks[e].stage # "none" => reporter = "hooks" /\ e <= Len(events)

\* The messages from the hooks or the plugin to the processor.
OnTheirWay == Range(queue) \cup readers \cup Range(received)

Announces(m) ==
    /\ m.event \in 1..Len(events) /\ m.number = NumberOf(m.event)
    /\ reporter = "hooks" => hooks[m.event].stage = "gone"

ShownWasAccepted ==
    /\ alias # None => alias.is = Resolves[alias.of]
    /\ shown # None => /\ shown.event \in 1..Len(events) /\ shown.number \in Nat
                       /\ shown.number <= accepted
    /\ IsOfTheConversation

Coming(e) ==
    \/ hooks[e].stage \in {"started", "locked", "numbered"}
    \/ \E m \in OnTheirWay : m.event = e

NewestIsShown ==
    bridge = "open" =>
        \A e \in 1..Len(events) : e \notin lost =>
            Coming(e) \/ (shown # None /\ NumberOf(e) <= shown.number)

ReportsInv ==
    /\ ReportsTypeOK /\ OneReporter
    /\ \A m \in OnTheirWay : Announces(m)
    /\ ShownWasAccepted /\ NewestIsShown
    /\ Len(queue) <= PluginLimit /\ PluginKeepsTheLast

LEMMA AppendRange ==
    ASSUME NEW S, NEW s \in Seq(S), NEW x \in S
    PROVE  /\ Append(s, x) \in Seq(S) /\ Len(Append(s, x)) = Len(s) + 1
           /\ Range(Append(s, x)) = Range(s) \cup {x}
           /\ Append(s, x)[Len(s) + 1] = x /\ \A i \in 1..Len(s) : Append(s, x)[i] = s[i]
  BY DEF Range

LEMMA TailRange ==
    ASSUME NEW S, NEW s \in Seq(S), s # <<>>
    PROVE  /\ Tail(s) \in Seq(S) /\ Head(s) \in S /\ Head(s) \in Range(s)
           /\ Range(s) = {Head(s)} \cup Range(Tail(s))
<1>1. Len(s) \in Nat \ {0} /\ DOMAIN s = 1..Len(s) /\ Head(s) = s[1] /\ s[1] \in S
      /\ Tail(s) \in Seq(S) /\ DOMAIN Tail(s) = 1..(Len(s) - 1)
      /\ \A i \in 1..(Len(s) - 1) : Tail(s)[i] = s[i + 1]
  OBVIOUS
<1>2. Range(s) \subseteq {Head(s)} \cup Range(Tail(s))
  <2> SUFFICES ASSUME NEW i \in 1..Len(s), i # 1
               PROVE  s[i] \in Range(Tail(s))
    BY <1>1 DEF Range
  <2>1. i - 1 \in DOMAIN Tail(s) /\ Tail(s)[i - 1] = s[i]
    BY <1>1
  <2> QED
    BY <2>1 DEF Range
<1>3. Head(s) \in Range(s) /\ Range(Tail(s)) \subseteq Range(s)
  BY <1>1 DEF Range
<1> QED
  BY <1>1, <1>2, <1>3

LEMMA HookLemma ==
    ASSUME hooks \in [1..MaxEvents -> Hooks], NEW e \in 1..MaxEvents, NEW s \in HookStages,
           hooks' = [hooks EXCEPT ![e].stage = s]
    PROVE  /\ hooks' \in [1..MaxEvents -> Hooks] /\ hooks'[e].stage = s
           /\ hooks'[e].number = hooks[e].number
           /\ \A f \in 1..MaxEvents : f # e => hooks'[f] = hooks[f]
  BY DEF Hooks

LEMMA ReportsInitial == AgentInit => ReportsInv
<1> SUFFICES ASSUME AgentInit
             PROVE  ReportsInv
  OBVIOUS
<1>1. /\ reporter \in {"hooks", "plugin"} /\ events = <<>> /\ queue = <<>> /\ readers = {} /\ received = <<>>
      /\ hooks = [e \in 1..MaxEvents |-> NoHook] /\ counter = 0 /\ accepted = 0 /\ alias = None /\ shown = None
      /\ upstream \in {None} \cup {Resolves[id] : id \in Ids}
  BY DEF AgentInit, Init
<1>2. NoHook \in Hooks /\ NoHook.stage = "none"
  BY DEF NoHook, Hooks, HookStages
<1>3. ReportsTypeOK
  BY <1>1, <1>2, AgentReportsAssumption DEF ReportsTypeOK
<1>4. OneReporter
  BY <1>1, <1>2 DEF OneReporter
<1>5. OnTheirWay = {}
  BY <1>1 DEF OnTheirWay, Range
<1>6. Len(queue) <= PluginLimit
  BY <1>1, AgentReportsAssumption
<1>7. ShownWasAccepted /\ PluginKeepsTheLast
  BY <1>1 DEF ShownWasAccepted, IsOfTheConversation, PluginKeepsTheLast
<1>8. NewestIsShown
  BY <1>1 DEF NewestIsShown
<1> QED
  BY <1>3, <1>4, <1>5, <1>6, <1>7, <1>8 DEF ReportsInv

LEMMA PhaseLemma ==
    ASSUME ReportsTypeOK, NEW e \in 1..Len(events)
    PROVE  events[e].id \in Ids /\ Phase(events[e]) \in DOMAIN HookPhases \cup DOMAIN PluginPhases
<1>1. events[e] \in Happenings
  <2>1. events \in Seq(Happenings)
    BY DEF ReportsTypeOK
  <2> QED
    BY <2>1
<1>2. events[e].id \in Ids /\ events[e].name \in IF reporter = "hooks" THEN HookEvents ELSE PluginEvents
  BY <1>1 DEF Happenings
<1>3. CASE reporter = "hooks"
  <2>1. \E p \in DOMAIN HookPhases : events[e].name \in HookPhases[p]
    BY <1>2, <1>3, EventsAssumption
  <2>2. Phase(events[e]) = CHOOSE p \in DOMAIN HookPhases : events[e].name \in HookPhases[p]
    BY <1>3 DEF Phase
  <2> QED
    BY <1>2, <2>1, <2>2
<1>4. CASE reporter # "hooks"
  <2>1. \E p \in DOMAIN PluginPhases : events[e].name \in PluginPhases[p]
    BY <1>2, <1>4, EventsAssumption
  <2>2. Phase(events[e]) = CHOOSE p \in DOMAIN PluginPhases : events[e].name \in PluginPhases[p]
    BY <1>4 DEF Phase
  <2> QED
    BY <1>2, <2>1, <2>2
<1> QED
  BY <1>3, <1>4

LEMMA NumbersLemma ==
    ASSUME ReportsTypeOK
    PROVE  \A e \in 1..Len(events) : e \in 1..MaxEvents /\ NumberOf(e) \in Nat
<1>1. Len(events) \in Nat /\ Len(events) <= MaxEvents /\ MaxEvents \in Nat
  BY AgentReportsAssumption DEF ReportsTypeOK
<1>2. \A e \in 1..MaxEvents : hooks[e].number \in Nat
  BY DEF ReportsTypeOK, Hooks
<1> QED
  BY <1>1, <1>2 DEF NumberOf

\* An agent's event, and the hook it starts.
LEMMA HookEventKeeps ==
    ASSUME ReportsInv, NEW name \in HookEvents, NEW id \in Ids, HookEvent(name, id)
    PROVE  ReportsInv'
<1> DEFINE n == Len(events) + 1
<1>1. /\ reporter = "hooks" /\ Len(events) < MaxEvents /\ events' = Append(events, [name |-> name, id |-> id])
      /\ hooks' = [hooks EXCEPT ![n].stage = "started"]
      /\ UNCHANGED <<reporter, counter, queue, readers, received, serverVars, bridge, lost>>
  BY DEF HookEvent
<1>2. ReportsTypeOK /\ OneReporter
  BY DEF ReportsInv
<1>3. n \in 1..MaxEvents /\ Len(events) \in Nat
  BY <1>1, <1>2, AgentReportsAssumption DEF ReportsTypeOK
<1>4. /\ events' \in Seq(Happenings) /\ Len(events') = n
      /\ \A i \in 1..Len(events) : events'[i] = events[i]
  <2>1. events \in Seq(Happenings) /\ [name |-> name, id |-> id] \in Happenings
    BY <1>1, <1>2 DEF ReportsTypeOK, Happenings
  <2> QED
    BY <1>1, <2>1, AppendRange
<1>5. /\ hooks' \in [1..MaxEvents -> Hooks] /\ hooks'[n].stage = "started"
      /\ \A f \in 1..MaxEvents : f # n => hooks'[f] = hooks[f]
  <2>1. hooks \in [1..MaxEvents -> Hooks] /\ "started" \in HookStages
    BY <1>2 DEF ReportsTypeOK, HookStages
  <2> HIDE DEF n
  <2> QED
    BY <1>1, <1>3, <2>1, HookLemma
<1> HIDE DEF n
<1>6. n = Len(events) + 1
  BY DEF n
<1>7. ReportsTypeOK'
  BY <1>1, <1>2, <1>3, <1>4, <1>5 DEF ReportsTypeOK, Happenings, serverVars
<1>8. OneReporter'
  BY <1>1, <1>2, <1>3, <1>4, <1>5, <1>6 DEF OneReporter
<1>9. OnTheirWay' = OnTheirWay
  BY <1>1 DEF OnTheirWay
<1>10. \A e \in 1..Len(events) : e \in 1..MaxEvents /\ e # n /\ hooks'[e] = hooks[e]
  BY <1>2, <1>3, <1>5, <1>6, NumbersLemma
<1>11. ASSUME NEW m \in OnTheirWay
       PROVE  /\ m.event \in 1..Len(events') /\ m.number = IF reporter' = "hooks" THEN hooks'[m.event].number ELSE m.event
              /\ reporter' = "hooks" => hooks'[m.event].stage = "gone"
  <2>1. Announces(m)
    BY DEF ReportsInv
  <2> QED
    BY <1>1, <1>3, <1>4, <1>6, <1>10, <2>1 DEF Announces, NumberOf
<1>12. ShownWasAccepted'
  BY <1>1, <1>3, <1>4, <1>6 DEF ReportsInv, ShownWasAccepted, IsOfTheConversation, serverVars
<1>13. NewestIsShown'
  <2> SUFFICES ASSUME bridge = "open", NEW e \in 1..n, e \notin lost
               PROVE  \/ hooks'[e].stage \in {"started", "locked", "numbered"}
                      \/ \E m \in OnTheirWay : m.event = e
                      \/ shown # None /\ (IF reporter = "hooks" THEN hooks'[e].number ELSE e) <= shown.number
    BY <1>1, <1>4, <1>9 DEF NewestIsShown, Coming, NumberOf, serverVars
  <2>1. CASE e = n
    BY <1>5, <2>1
  <2>2. CASE e # n
    <3>1. e \in 1..Len(events)
      BY <1>3, <1>6, <2>2
    <3> QED
      BY <1>10, <3>1 DEF ReportsInv, NewestIsShown, Coming, NumberOf
  <2> QED
    BY <2>1, <2>2
<1>14. (Len(queue) <= PluginLimit)' /\ PluginKeepsTheLast'
  BY <1>1, <1>2 DEF ReportsInv, OneReporter, PluginKeepsTheLast
<1> QED
  BY <1>7, <1>8, <1>9, <1>11, <1>12, <1>13, <1>14 DEF ReportsInv, Announces, NumberOf

\* A hook's way from its start to its end.
LEMMA HookStepKeeps ==
    ASSUME ReportsInv, NEW e \in DOMAIN hooks, HookStep(e) \/ KillHook(e)
    PROVE  ReportsInv'
<1> DEFINE message == Message(e, hooks[e].number)
           stages == {"started", "locked", "numbered"}
<1>1. ReportsTypeOK /\ OneReporter /\ e \in 1..MaxEvents /\ hooks \in [1..MaxEvents -> Hooks]
  BY DEF ReportsInv, ReportsTypeOK
<1>2. /\ UNCHANGED <<agentVars, queue, received, serverVars, bridge>>
      /\ hooks[e].stage \in stages
  BY DEF HookStep, Lock, WriteNumber, SendHook, KillHook
<1>3. hooks[e].number \in Nat
  BY <1>1 DEF Hooks
<1>4. /\ hooks' \in [1..MaxEvents -> Hooks] /\ counter' \in Nat \cup {None}
      /\ \A f \in 1..MaxEvents : f # e => hooks'[f] = hooks[f]
      /\ \/ readers' = readers /\ lost' = lost /\ hooks'[e].stage \in stages
         \/ readers' = readers /\ lost' = lost \cup {e} /\ hooks'[e].stage = "gone"
         \/ readers' = readers \cup {message} /\ lost' = lost /\ hooks'[e].stage = "gone"
            /\ hooks'[e].number = hooks[e].number
  <2>1. counter \in Nat \cup {None} /\ {"numbered", "locked", "gone"} \subseteq HookStages
    BY <1>1 DEF ReportsTypeOK, HookStages
  <2>2. Leave(e) => /\ hooks' \in [1..MaxEvents -> Hooks] /\ lost' = lost \cup {e} /\ hooks'[e].stage = "gone"
                    /\ \A f \in 1..MaxEvents : f # e => hooks'[f] = hooks[f]
    BY <1>1, <2>1, HookLemma DEF Leave
  <2>3. CASE Lock(e)
    <3>1. CASE counter = None
      BY <2>1, <2>2, <2>3, <3>1 DEF Lock
    <3>2. CASE counter # None
      <4> DEFINE new == [stage |-> "locked", number |-> counter + 1]
      <4>1. hooks' = [hooks EXCEPT ![e] = new] /\ counter' = None /\ UNCHANGED <<lost, readers>>
        BY <2>3, <3>2 DEF Lock
      <4>2. new \in Hooks /\ new.stage = "locked"
        BY <2>1, <3>2 DEF Hooks
      <4> HIDE DEF new
      <4> QED
        BY <1>1, <4>1, <4>2
    <3> QED
      BY <3>1, <3>2
  <2>4. CASE WriteNumber(e)
    BY <1>1, <1>3, <2>1, <2>4, HookLemma DEF WriteNumber
  <2>5. CASE SendHook(e)
    <3>1. CASE Accepts
      BY <1>1, <2>1, <2>5, <3>1, HookLemma DEF SendHook
    <3>2. CASE ~Accepts
      BY <2>1, <2>2, <2>5, <3>2 DEF SendHook
    <3> QED
      BY <3>1, <3>2
  <2>6. CASE KillHook(e)
    BY <2>1, <2>2, <2>6 DEF KillHook
  <2> QED
    BY <2>3, <2>4, <2>5, <2>6 DEF HookStep
<1>5. reporter = "hooks" /\ e \in 1..Len(events) /\ \A f \in 1..Len(events) : f \in 1..MaxEvents
  BY <1>1, <1>2, NumbersLemma DEF OneReporter
<1>6. message \in Messages /\ message.event = e /\ message.number = hooks[e].number
  BY <1>1, <1>3 DEF Message, Messages
<1> HIDE DEF message
<1>7. /\ UNCHANGED <<reporter, events, queue, received, accepted, upstream, alias, shown, bridge>>
      /\ readers' \subseteq Messages
  BY <1>1, <1>2, <1>4, <1>6 DEF agentVars, serverVars, ReportsTypeOK
<1>8. ReportsTypeOK'
  BY <1>1, <1>4, <1>7 DEF ReportsTypeOK, Happenings
<1>9. OneReporter'
  BY <1>1, <1>4, <1>5, <1>7 DEF OneReporter
<1>10. OnTheirWay \subseteq OnTheirWay' /\ OnTheirWay' \subseteq OnTheirWay \cup {message}
       /\ (hooks'[e].stage = "gone" => e \in lost' \/ message \in OnTheirWay')
  BY <1>4, <1>7 DEF OnTheirWay
<1>11. \A m \in OnTheirWay : m.event \in 1..Len(events) /\ m.event # e /\ hooks'[m.event] = hooks[m.event]
  <2> SUFFICES ASSUME NEW m \in OnTheirWay
               PROVE  m.event \in 1..Len(events) /\ m.event # e /\ hooks'[m.event] = hooks[m.event]
    OBVIOUS
  <2>1. m.event \in 1..Len(events) /\ hooks[m.event].stage = "gone"
    BY <1>5 DEF ReportsInv, Announces
  <2> QED
    BY <1>2, <1>4, <1>5, <2>1
<1>12. ASSUME NEW m \in OnTheirWay'
       PROVE  /\ m.event \in 1..Len(events) /\ m.number = hooks'[m.event].number
              /\ hooks'[m.event].stage = "gone"
  <2>1. CASE m \in OnTheirWay
    BY <1>5, <1>11, <2>1 DEF ReportsInv, Announces, NumberOf
  <2>2. CASE m \notin OnTheirWay
    <3>1. m = message /\ readers' # readers
      BY <1>7, <1>10, <2>2 DEF OnTheirWay
    <3> QED
      BY <1>4, <1>5, <1>6, <3>1
  <2> QED
    BY <2>1, <2>2
<1>13. ShownWasAccepted' /\ (Len(queue) <= PluginLimit)' /\ PluginKeepsTheLast'
  BY <1>7 DEF ReportsInv, ShownWasAccepted, IsOfTheConversation, PluginKeepsTheLast
<1>14. NewestIsShown'
  <2> SUFFICES ASSUME bridge = "open", NEW f \in 1..Len(events), f \notin lost'
               PROVE  \/ hooks'[f].stage \in stages
                      \/ \E m \in OnTheirWay' : m.event = f
                      \/ shown # None /\ hooks'[f].number <= shown.number
    BY <1>5, <1>7 DEF NewestIsShown, Coming, NumberOf
  <2>1. CASE f = e
    BY <1>4, <1>6, <1>10, <2>1
  <2>2. CASE f # e
    <3>1. f \notin lost /\ hooks'[f] = hooks[f]
      BY <1>4, <1>5, <2>2
    <3>2. Coming(f) \/ (shown # None /\ hooks[f].number <= shown.number)
      BY <1>5, <3>1 DEF ReportsInv, NewestIsShown, NumberOf
    <3> QED
      BY <1>10, <3>1, <3>2 DEF Coming
  <2> QED
    BY <2>1, <2>2
<1> QED
  BY <1>5, <1>7, <1>8, <1>9, <1>12, <1>13, <1>14 DEF ReportsInv, Announces, NumberOf

\* An event of the plugin, which gives up its newest message for it when it has too many.
LEMMA PluginEventKeeps ==
    ASSUME ReportsInv, NEW name \in PluginEvents, NEW id \in Ids, PluginEvent(name, id)
    PROVE  ReportsInv'
<1> DEFINE n == Len(events) + 1
           full == Len(queue) >= PluginLimit
           kept == IF full THEN SubSeq(queue, 1, PluginLimit - 1) ELSE queue
           message == Message(n, n)
<1>1. /\ reporter = "plugin" /\ Len(events) < MaxEvents /\ events' = Append(events, [name |-> name, id |-> id])
      /\ queue' = Append(kept, message)
      /\ lost' = IF full THEN lost \cup {queue[PluginLimit].event} ELSE lost
      /\ UNCHANGED <<reporter, hooks, counter, readers, received, accepted, upstream, alias, shown, bridge>>
  BY DEF PluginEvent, hookVars, serverVars
<1>2. ReportsTypeOK /\ OneReporter /\ queue \in Seq(Messages) /\ Len(queue) <= PluginLimit
      /\ PluginLimit \in Nat \ {0}
  BY AgentReportsAssumption DEF ReportsInv, ReportsTypeOK
<1>3. n \in 1..MaxEvents /\ Len(events) \in Nat /\ message \in Messages /\ message.event = n /\ message.number = n
  <2>1. n \in 1..MaxEvents /\ Len(events) \in Nat
    BY <1>1, <1>2, AgentReportsAssumption DEF ReportsTypeOK
  <2> QED
    BY <2>1 DEF Message, Messages
<1>4. /\ events' \in Seq(Happenings) /\ Len(events') = n
      /\ \A i \in 1..Len(events) : events'[i] = events[i]
  <2>1. events \in Seq(Happenings) /\ [name |-> name, id |-> id] \in Happenings
    BY <1>1, <1>2 DEF ReportsTypeOK, Happenings
  <2> QED
    BY <1>1, <2>1, AppendRange
<1>5. /\ kept \in Seq(Messages) /\ Len(kept) < PluginLimit /\ Range(kept) \subseteq Range(queue)
      /\ \A m \in Range(queue) : m \in Range(kept) \/ (full /\ m = queue[PluginLimit])
  <2>1. CASE full
    <3>1. Len(queue) = PluginLimit /\ kept = SubSeq(queue, 1, PluginLimit - 1)
      BY <1>2, <2>1
    <3>2. /\ kept \in Seq(Messages) /\ Len(kept) = PluginLimit - 1
          /\ \A i \in 1..(PluginLimit - 1) : kept[i] = queue[i]
      BY <1>2, <3>1
    <3>3. DOMAIN kept = 1..(PluginLimit - 1) /\ DOMAIN queue = 1..PluginLimit
      BY <1>2, <3>1, <3>2
    <3> HIDE DEF kept
    <3> QED
      BY <1>2, <2>1, <3>2, <3>3 DEF Range
  <2>2. CASE ~full
    BY <1>2, <2>2
  <2> QED
    BY <2>1, <2>2
<1> HIDE DEF kept, message
<1>6. /\ queue' \in Seq(Messages) /\ Len(queue') = Len(kept) + 1 /\ Range(queue') = Range(kept) \cup {message}
      /\ queue'[Len(queue')] = message
  BY <1>1, <1>3, <1>5, AppendRange
<1> HIDE DEF n
<1>7. n = Len(events) + 1
  BY DEF n
<1>8. ReportsTypeOK'
  BY <1>1, <1>2, <1>3, <1>4, <1>6 DEF ReportsTypeOK, Happenings
<1>9. OneReporter'
  BY <1>1, <1>2 DEF OneReporter
<1>10. /\ OnTheirWay' \subseteq OnTheirWay \cup {message} /\ message \in OnTheirWay'
       /\ \A m \in OnTheirWay : m \in OnTheirWay' \/ m.event \in lost'
  BY <1>1, <1>5, <1>6 DEF OnTheirWay
<1>11. ASSUME NEW m \in OnTheirWay'
       PROVE  m.event \in 1..n /\ m.number = m.event
  <2>1. CASE m \in OnTheirWay
    BY <1>1, <1>3, <1>7, <2>1 DEF ReportsInv, Announces, NumberOf
  <2>2. CASE m = message
    BY <1>3, <2>2
  <2> QED
    BY <1>10, <2>1, <2>2
<1>12. ShownWasAccepted'
  BY <1>1, <1>3, <1>4, <1>7 DEF ReportsInv, ShownWasAccepted, IsOfTheConversation
<1>13. NewestIsShown'
  <2> SUFFICES ASSUME bridge = "open", NEW e \in 1..n, e \notin lost'
               PROVE  \/ hooks[e].stage \in {"started", "locked", "numbered"}
                      \/ \E m \in OnTheirWay' : m.event = e
                      \/ shown # None /\ e <= shown.number
    BY <1>1, <1>4 DEF NewestIsShown, Coming, NumberOf
  <2>1. CASE e = n
    BY <1>3, <1>10, <2>1
  <2>2. CASE e # n
    <3>1. e \in 1..Len(events) /\ e \notin lost
      BY <1>1, <1>3, <1>7, <2>2
    <3>2. Coming(e) \/ (shown # None /\ e <= shown.number)
      BY <1>1, <3>1 DEF ReportsInv, NewestIsShown, NumberOf
    <3> QED
      BY <1>10, <3>2 DEF Coming
  <2> QED
    BY <2>1, <2>2
<1>14. (Len(queue) <= PluginLimit)' /\ PluginKeepsTheLast'
  <2>1. Len(queue') <= PluginLimit
    BY <1>2, <1>5, <1>6
  <2>2. queue'[Len(queue')].event = Len(events')
    BY <1>3, <1>4, <1>6
  <2> QED
    BY <2>1, <2>2 DEF PluginKeepsTheLast
<1> QED
  BY <1>1, <1>4, <1>8, <1>9, <1>11, <1>12, <1>13, <1>14 DEF ReportsInv, Announces, NumberOf

\* Messages go on, and one that does not is lost.
LEMMA CarryKeeps ==
    ASSUME ReportsInv, UNCHANGED <<agentVars, hookVars, serverVars, bridge>>,
           queue' = queue \/ (queue # <<>> /\ queue' = Tail(queue)),
           readers' \subseteq Messages, received' \in Seq(Messages),
           OnTheirWay' \subseteq OnTheirWay, lost \subseteq lost',
           \A m \in OnTheirWay : m \in OnTheirWay' \/ m.event \in lost'
    PROVE  ReportsInv'
<1>1. UNCHANGED <<reporter, events, hooks, counter, accepted, upstream, alias, shown, bridge>>
  BY DEF agentVars, hookVars, serverVars
<1>2. /\ queue' \in Seq(Messages) /\ Len(queue') \in Nat /\ Len(queue') <= Len(queue)
      /\ queue' # <<>> => queue # <<>> /\ queue'[Len(queue')] = queue[Len(queue)]
      /\ queue = <<>> => queue' = <<>>
  <2>1. queue \in Seq(Messages)
    BY DEF ReportsInv, ReportsTypeOK
  <2>2. CASE queue # <<>> /\ queue' = Tail(queue)
    <3>1. /\ Len(queue) \in Nat \ {0} /\ queue' \in Seq(Messages) /\ Len(queue') = Len(queue) - 1
          /\ \A i \in 1..Len(queue') : queue'[i] = queue[i + 1]
      BY <2>1, <2>2
    <3>2. queue' # <<>> => Len(queue') \in 1..Len(queue') /\ Len(queue') + 1 = Len(queue)
      BY <3>1
    <3>3. queue' # <<>> => queue'[Len(queue')] = queue[Len(queue)]
      BY <3>1, <3>2
    <3>4. queue # <<>>
      BY <2>2
    <3>5. Len(queue') <= Len(queue)
      BY <3>1
    <3> QED
      BY <3>1, <3>3, <3>4, <3>5
  <2>3. CASE queue' = queue
    BY <2>1, <2>3
  <2> QED
    BY <2>2, <2>3
<1>3. ReportsTypeOK' /\ OneReporter'
  BY <1>1, <1>2 DEF ReportsInv, ReportsTypeOK, Happenings, OneReporter
<1>4. ShownWasAccepted'
  BY <1>1 DEF ReportsInv, ShownWasAccepted, IsOfTheConversation
<1>5. NewestIsShown'
  BY <1>1 DEF ReportsInv, NewestIsShown, Coming, NumberOf
<1>6. (Len(queue) <= PluginLimit)' /\ PluginKeepsTheLast'
  <2>1. Len(queue) <= PluginLimit /\ PluginLimit \in Nat /\ Len(queue) \in Nat
    BY AgentReportsAssumption DEF ReportsInv, ReportsTypeOK
  <2> QED
    BY <1>1, <1>2, <2>1 DEF ReportsInv, PluginKeepsTheLast
<1> QED
  BY <1>1, <1>3, <1>4, <1>5, <1>6 DEF ReportsInv, Announces, NumberOf

\* The processor takes the first of the messages that were received.
LEMMA TakeLemma ==
    ASSUME ReportsInv, NEW m, Take(m)
    PROVE  /\ UNCHANGED <<agentVars, hookVars, queue, readers, bridge>> /\ bridge = "open"
           /\ received' \in Seq(Messages) /\ m \in Messages /\ m.number \in Nat /\ Announces(m)
           /\ OnTheirWay = OnTheirWay' \cup {m}
<1>1. received # <<>> /\ m = Head(received) /\ received' = Tail(received) /\ bridge = "open"
      /\ UNCHANGED <<agentVars, hookVars, queue, readers, bridge>>
  BY DEF Take
<1>2. received \in Seq(Messages)
  BY DEF ReportsInv, ReportsTypeOK
<1>3. received' \in Seq(Messages) /\ m \in Messages /\ Range(received) = {m} \cup Range(received')
  BY <1>1, <1>2, TailRange
<1>4. OnTheirWay = OnTheirWay' \cup {m}
  BY <1>1, <1>3 DEF OnTheirWay
<1>5. m.number \in Nat /\ Announces(m)
  BY <1>3, <1>4 DEF ReportsInv, Messages
<1> QED
  BY <1>1, <1>3, <1>4, <1>5

LEMMA ProcessKeeps ==
    ASSUME ReportsInv, NEW m, Process(m)
    PROVE  ReportsInv' /\ (shown # None /\ shown' # None => shown'.number >= shown.number)
<1>1. Take(m)
  BY DEF Process, Ignore, Apply, Identify
<1>2. /\ UNCHANGED <<reporter, events, hooks, counter, queue, readers, bridge>> /\ bridge = "open"
      /\ received' \in Seq(Messages) /\ m \in Messages /\ m.number \in Nat /\ Announces(m)
      /\ OnTheirWay = OnTheirWay' \cup {m}
  BY <1>1, TakeLemma DEF agentVars, hookVars
<1>3. ReportsTypeOK /\ ShownWasAccepted
  BY DEF ReportsInv
<1>4. m.event \in 1..Len(events) /\ m.number = NumberOf(m.event)
  BY <1>2 DEF Announces
<1>5. CASE Ignore(m)
  <2>1. UNCHANGED serverVars /\ lost' = lost \cup {m.event}
    BY <1>5 DEF Ignore
  <2>2. ReportsInv'
    BY <1>2, <1>3, <2>1, CarryKeeps DEF agentVars, hookVars, ReportsTypeOK
  <2>3. shown # None => shown.number \in Nat
    BY <1>3 DEF ShownWasAccepted
  <2> QED
    BY <2>1, <2>2, <2>3 DEF serverVars
<1>6. CASE Apply(m) \/ Identify(m)
  <2> DEFINE id == events[m.event].id
             new == Activity(m)
  <2>1. m.number > accepted /\ accepted' = m.number
    BY <1>6 DEF Apply, Identify, IsNew
  <2>2. id \in Ids /\ Resolves[id] \in Ids /\ Resolves[Resolves[id]] = Resolves[id]
    <3>1. id \in Ids
      BY <1>3, <1>4, PhaseLemma
    <3> QED
      BY <3>1, AgentReportsAssumption
  <2>3. new.event = m.event /\ new.number = m.number
    BY DEF Activity
  <2>4. /\ \/ UNCHANGED <<shown, upstream, alias>> /\ lost' = lost \cup {m.event}
           \/ shown' = new /\ lost' = lost /\ Resolves[id] = upstream'
        /\ upstream' \in {None} \cup {Resolves[i] : i \in Ids}
        /\ alias' # None => alias'.is = Resolves[alias'.of]
    <3>1. CASE Apply(m)
      <4>1. UNCHANGED <<upstream, alias>>
        BY <3>1 DEF Apply
      <4>2. upstream = None \/ \E i \in Ids : upstream = Resolves[i]
        BY <1>3 DEF ReportsTypeOK
      <4>3. id = upstream \/ IsAlias(id) => Resolves[id] = upstream
        BY <1>3, <2>2, <4>2, AgentReportsAssumption DEF IsAlias, ShownWasAccepted
      <4>4. IF id = upstream \/ IsAlias(id) THEN shown' = new /\ lost' = lost
            ELSE lost' = lost \cup {m.event} /\ shown' = shown
        BY <3>1 DEF Apply
      <4> QED
        BY <1>3, <4>1, <4>3, <4>4 DEF ReportsTypeOK, ShownWasAccepted
    <3>2. CASE Identify(m)
      BY <2>2, <3>2 DEF Identify
    <3> QED
      BY <1>6, <3>1, <3>2
  <2> HIDE DEF id, new
  <2>5. ReportsTypeOK'
    BY <1>2, <1>3, <2>1, <2>4 DEF ReportsTypeOK, Happenings
  <2>6. OneReporter' /\ (Len(queue) <= PluginLimit)' /\ PluginKeepsTheLast'
    BY <1>2 DEF ReportsInv, OneReporter, PluginKeepsTheLast
  <2>7. \A k \in OnTheirWay' : Announces(k)'
    BY <1>2 DEF ReportsInv, Announces, NumberOf
  <2>8. shown # None => shown.number \in Nat /\ shown.number <= accepted /\ shown.number < m.number
    BY <1>2, <1>3, <2>1 DEF ShownWasAccepted, ReportsTypeOK
  <2>9. ShownWasAccepted'
    <3>1. shown' # None => Resolves[events[shown'.event].id] = upstream'
      BY <1>3, <2>3, <2>4 DEF ShownWasAccepted, IsOfTheConversation, id
    <3>2. shown' # None => /\ shown'.event \in 1..Len(events) /\ shown'.number \in Nat
                           /\ shown'.number <= accepted'
      BY <1>2, <1>3, <1>4, <2>1, <2>3, <2>4, <2>8 DEF ShownWasAccepted
    <3> QED
      BY <1>2, <2>4, <3>1, <3>2 DEF ShownWasAccepted, IsOfTheConversation
  <2>10. NewestIsShown'
    <3> SUFFICES ASSUME NEW e \in 1..Len(events), e \notin lost'
                 PROVE  \/ hooks[e].stage \in {"started", "locked", "numbered"}
                        \/ \E k \in OnTheirWay' : k.event = e
                        \/ shown' # None /\ NumberOf(e) <= shown'.number
      BY <1>2 DEF NewestIsShown, Coming, NumberOf
    <3>1. NumberOf(e) \in Nat /\ e \notin lost
      BY <1>3, <2>4, NumbersLemma
    <3>2. Coming(e) \/ (shown # None /\ NumberOf(e) <= shown.number)
      BY <1>2, <3>1 DEF ReportsInv, NewestIsShown
    <3>3. CASE shown' = shown /\ lost' = lost \cup {m.event}
      BY <1>2, <3>2, <3>3 DEF Coming
    <3>4. CASE shown' = new
      <4>1. shown' # None
        <5>1. new \in [event : Nat, number : Nat, phase : DOMAIN HookPhases \cup DOMAIN PluginPhases]
          <6>1. Phase(events[m.event]) \in DOMAIN HookPhases \cup DOMAIN PluginPhases
            BY <1>3, <1>4, PhaseLemma
          <6> QED
            BY <1>2, <1>4, <6>1 DEF new, Activity
        <5> QED
          BY <3>4, <5>1, EventsAssumption
      <4>2. CASE shown # None /\ NumberOf(e) <= shown.number
        BY <1>2, <2>3, <2>8, <3>1, <3>4, <4>1, <4>2
      <4>3. CASE Coming(e)
        BY <1>2, <1>4, <2>3, <3>4, <4>1, <4>3 DEF Coming
      <4> QED
        BY <3>2, <4>2, <4>3
    <3> QED
      BY <2>4, <3>3, <3>4
  <2>11. shown # None /\ shown' # None => shown'.number >= shown.number
    BY <1>2, <2>3, <2>4, <2>8
  <2> QED
    BY <2>5, <2>6, <2>7, <2>9, <2>10, <2>11 DEF ReportsInv
<1> QED
  BY <1>5, <1>6 DEF Process

\* What the bridge reads, and what the plugin sends it.
LEMMA TransportKeeps ==
    ASSUME ReportsInv, SendPlugin \/ (\E m \in readers : Read(m) \/ ReadFails(m)) \/ Stop
    PROVE  ReportsInv'
<1>1. /\ queue \in Seq(Messages) /\ readers \subseteq Messages /\ received \in Seq(Messages)
      /\ ReportsTypeOK
  BY DEF ReportsInv, ReportsTypeOK
<1>2. CASE SendPlugin
  <2>1. /\ queue # <<>> /\ queue' = Tail(queue) /\ readers = {}
        /\ UNCHANGED <<agentVars, hookVars, received, serverVars, bridge>>
        /\ \/ readers' = {Head(queue)} /\ lost' = lost
           \/ readers' = readers /\ lost' = lost \cup {Head(queue).event}
    BY <1>2 DEF SendPlugin
  <2>2. Head(queue) \in Messages /\ Range(queue) = {Head(queue)} \cup Range(queue')
    BY <1>1, <2>1, TailRange
  <2>3. /\ readers' \subseteq Messages /\ OnTheirWay' \subseteq OnTheirWay /\ lost \subseteq lost'
        /\ \A m \in OnTheirWay : m \in OnTheirWay' \/ m.event \in lost'
    BY <1>1, <2>1, <2>2 DEF OnTheirWay
  <2> QED
    BY <1>1, <2>1, <2>3, CarryKeeps
<1>3. ASSUME NEW m \in readers, Read(m) \/ ReadFails(m)
      PROVE  ReportsInv'
  <2>1. /\ readers' = readers \ {m} /\ m \in Messages
        /\ UNCHANGED <<agentVars, hookVars, queue, serverVars, bridge>>
        /\ \/ received' = Append(received, m) /\ lost' = lost
           \/ received' = received /\ lost' = lost \cup {m.event}
    BY <1>1, <1>3 DEF Read, ReadFails
  <2>2. received' \in Seq(Messages)
        /\ (Range(received') = Range(received) \cup {m} \/ (received' = received /\ m.event \in lost'))
    <3>1. received \in Seq(Messages) /\ m \in Messages
      BY <1>1, <2>1
    <3>2. CASE received' = Append(received, m)
      BY <3>1, <3>2, AppendRange
    <3>3. CASE received' = received /\ lost' = lost \cup {m.event}
      BY <3>1, <3>3
    <3> QED
      BY <2>1, <3>2, <3>3
  <2>3. /\ readers' \subseteq Messages /\ OnTheirWay' \subseteq OnTheirWay /\ lost \subseteq lost'
        /\ \A k \in OnTheirWay : k \in OnTheirWay' \/ k.event \in lost'
    BY <1>1, <2>1, <2>2 DEF OnTheirWay
  <2> QED
    BY <2>1, <2>2, <2>3, CarryKeeps
<1>4. CASE Stop
  <2>1. /\ bridge' = "stopped" /\ readers' = {} /\ received' = <<>>
        /\ UNCHANGED <<reporter, events, hooks, counter, queue, accepted, upstream, alias, shown, lost>>
    BY <1>4 DEF Stop, agentVars, hookVars, serverVars
  <2>2. ReportsTypeOK'
    BY <1>1, <2>1 DEF ReportsTypeOK, Happenings
  <2>3. OnTheirWay' \subseteq OnTheirWay
    BY <2>1 DEF OnTheirWay, Range
  <2>4. \A m \in OnTheirWay' : Announces(m)'
    BY <2>1, <2>3 DEF ReportsInv, Announces, NumberOf
  <2>5. OneReporter' /\ ShownWasAccepted' /\ (Len(queue) <= PluginLimit)' /\ PluginKeepsTheLast'
    BY <2>1 DEF ReportsInv, OneReporter, ShownWasAccepted, IsOfTheConversation, PluginKeepsTheLast
  <2>6. NewestIsShown'
    BY <2>1 DEF NewestIsShown
  <2> QED
    BY <2>2, <2>4, <2>5, <2>6 DEF ReportsInv
<1> QED
  BY <1>2, <1>3, <1>4

LEMMA ReportStep ==
    ASSUME ReportsInv, [AgentNext]_allVars
    PROVE  ReportsInv' /\ (shown # None /\ shown' # None => shown'.number >= shown.number)
<1>1. shown # None => shown.number \in Nat
  BY DEF ReportsInv, ShownWasAccepted
<1>2. CASE Next
  <2>1. ASSUME NEW id \in Ids, NEW n \in HookEvents, HookEvent(n, id)
        PROVE  ReportsInv' /\ shown' = shown
    BY <2>1, HookEventKeeps DEF HookEvent, serverVars
  <2>2. ASSUME NEW id \in Ids, NEW n \in PluginEvents, PluginEvent(n, id)
        PROVE  ReportsInv' /\ shown' = shown
    BY <2>2, PluginEventKeeps DEF PluginEvent, serverVars
  <2>3. ASSUME NEW e \in DOMAIN hooks, HookStep(e) \/ KillHook(e)
        PROVE  ReportsInv' /\ shown' = shown
    BY <2>3, HookStepKeeps DEF HookStep, Lock, WriteNumber, SendHook, KillHook, serverVars
  <2>4. ASSUME SendPlugin \/ (\E m \in readers : Read(m) \/ ReadFails(m)) \/ Stop
        PROVE  ReportsInv' /\ shown' = shown
    BY <2>4, TransportKeeps DEF SendPlugin, Read, ReadFails, Stop, serverVars
  <2>5. ASSUME NEW m, Process(m)
        PROVE  ReportsInv' /\ (shown # None /\ shown' # None => shown'.number >= shown.number)
    BY <2>5, ProcessKeeps
  <2> QED
    BY <1>1, <1>2, <2>1, <2>2, <2>3, <2>4, <2>5 DEF Next
<1>3. CASE UNCHANGED vars
  <2>1. UNCHANGED <<reporter, events, hooks, counter, queue, readers, received, accepted, upstream, alias, shown,
                    bridge, lost>>
    BY <1>3 DEF vars, agentVars, hookVars, serverVars
  <2> QED
    BY <1>1, <2>1 DEF ReportsInv, ReportsTypeOK, Happenings, OneReporter, OnTheirWay, Announces, NumberOf,
       ShownWasAccepted, IsOfTheConversation, NewestIsShown, Coming, PluginKeepsTheLast
<1> QED
  BY <1>2, <1>3 DEF AgentNext, OfReports, OfRuntime, OfStaging, OfPi, allVars

\* A message on its way is of one event; an event is on its way, lost, or no
\* newer than what is shown (agent/runtime/activity.rs, bridge.rs).
THEOREM ReportsInductive == AgentSpec => []ReportsInv
<1>1. ReportsInv /\ [AgentNext]_allVars => ReportsInv'
  BY ReportStep
<1> QED
  BY <1>1, ReportsInitial, PTL DEF AgentSpec

\* What a session shows is of its conversation, is the newest that arrived once
\* nothing is under way, and never goes back to an older report; and the plugin
\* keeps its last (validate_envelope, process_messages, lock_next_hook_sequence,
\* devhatchReport).
THEOREM ReportsShown == AgentSpec => ReportsAreShown
<1>1. ReportsInv => IsOfTheConversation /\ SettledIsNewest /\ PluginKeepsTheLast
  <2> SUFFICES ASSUME ReportsInv
               PROVE  IsOfTheConversation /\ SettledIsNewest /\ PluginKeepsTheLast
    OBVIOUS
  <2>1. IsOfTheConversation /\ PluginKeepsTheLast
    BY DEF ReportsInv, ShownWasAccepted
  <2>2. ASSUME bridge = "open", ~UnderWay, NEW e \in DOMAIN events \ lost
        PROVE  shown # None /\ NumberOf(e) <= shown.number
    <3>1. ReportsTypeOK /\ DOMAIN events = 1..Len(events) /\ DOMAIN hooks = 1..MaxEvents
      BY DEF ReportsInv, ReportsTypeOK
    <3>2. e \in 1..Len(events) /\ e \in DOMAIN hooks
      BY <2>2, <3>1, NumbersLemma
    <3>3. OnTheirWay = {}
      BY <2>2 DEF UnderWay, OnTheirWay, Range
    <3>4. ~Coming(e)
      BY <2>2, <3>2, <3>3 DEF UnderWay, Coming
    <3> QED
      BY <2>2, <3>2, <3>4 DEF ReportsInv, NewestIsShown
  <2> QED
    BY <2>1, <2>2 DEF SettledIsNewest
<1>2. ReportsInv /\ [AgentNext]_allVars => [shown # None /\ shown' # None => shown'.number >= shown.number]_vars
  BY ReportStep
<1>3. AgentSpec => [](IsOfTheConversation /\ SettledIsNewest /\ PluginKeepsTheLast)
  BY <1>1, ReportsInductive, PTL
<1>4. AgentSpec => NeverGoesBack
  BY <1>2, ReportsInductive, PTL DEF AgentSpec, NeverGoesBack
<1> QED
  BY <1>3, <1>4 DEF ReportsAreShown

-----------------------------------------------------------------------------
(* Images for Pi (PiImages)                                                *)
(*                                                                         *)
(* A request past the lock has it, and waits with a waiter that is there;  *)
(* the extension's images are of requests it answered with success; and    *)
(* the last report of a port, or what the server knows if there is none,   *)
(* is the port that is open.                                               *)

PiStages == {"new", "endpoint", "check", "wait", "sent", "done"}
PiPorts == 0..Changes
OtherReport == Changes + 1

PiServerTypeOK ==
    /\ stage \in [PiPastes -> PiStages]
    /\ reply \in [PiPastes -> {None, "ok", "busy", "invalid", "unavailable", "dropped"}]
    /\ input \in PiPastes \cup {None}
    /\ notified \in {"none", "registered", "woken"}
    /\ target \in [PiPastes -> PiPorts] /\ cut \in [PiPastes -> BOOLEAN]

PiSessionTypeOK ==
    /\ port \in PiPorts /\ missed \in BOOLEAN
    /\ reports \in Seq(0..OtherReport) /\ Len(reports) <= Queue
    /\ running \in {"none", "starting", "opening", "runs"}
    /\ generation \in PiPorts /\ listening \in PiPorts
    /\ shutting \in BOOLEAN /\ prompt \in BOOLEAN /\ live \in BOOLEAN

PiHandlerTypeOK ==
    /\ handler \in [PiPastes -> {"none", "body", "resize", "ended"}]
    /\ taken \in [PiPastes -> PiPorts]
    /\ status \in [PiPastes -> {None, "pasted", "late", "conflict", "failed"}]

PiImageTypeOK == pending \subseteq PiPastes /\ editor \subseteq PiPastes /\ got \in [PiPastes -> 0..1]

\* One request has the lock; who waits for a port does so while there is none.
OnePaste == \A r \in PiPastes :
    /\ stage[r] \in {"endpoint", "check", "wait", "sent"} => input = r
    /\ stage[r] \in {"check", "wait"} => notified # "none"
    /\ stage[r] = "wait" /\ notified # "woken" => port = 0

\* An image is there, or taken once, of a request that is answered with success.
Handled == \A r \in PiPastes :
    IF handler[r] = "ended" THEN r \in editor \cup pending \/ got[r] # 0 => status[r] = "pasted"
    ELSE status[r] \in {None, "late"} /\ r \notin editor \cup pending /\ got[r] = 0

KeptInTime == \A r \in pending : got[r] = 0 /\ (taken[r] = generation \/ running = "starting")

BeingPrepared == {r \in PiPastes : handler[r] \in {"body", "resize"}}
RoomForImages == Cardinality(pending) + Cardinality(BeingPrepared) <= Limit

ToldTheTruth == \A r \in PiPastes : reply[r] = "ok" => status[r] = "pasted"

PortIsKnown ==
    live /\ ~missed =>
        IF \A i \in 1..Len(reports) : reports[i] = OtherReport THEN port = listening
        ELSE \E i \in 1..Len(reports) :
                reports[i] = listening /\ \A j \in 1..Len(reports) : i < j => reports[j] = OtherReport

PiInv ==
    /\ PiServerTypeOK /\ PiSessionTypeOK /\ PiHandlerTypeOK /\ PiImageTypeOK
    /\ OnePaste /\ Handled /\ KeptInTime /\ RoomForImages /\ ToldTheTruth /\ PortIsKnown

LEMMA PiCardinality == \A S : Pi!Cardinality(S) = Cardinality(S)
  BY DEF Pi!Cardinality, Cardinality

LEMMA PiInitial == AgentInit => PiInv
<1> SUFFICES ASSUME AgentInit
             PROVE  PiInv
  OBVIOUS
<1>1. Pi!Init
  BY DEF AgentInit
<1>2. PiServerTypeOK
  BY <1>1, PiAssumption DEF Pi!Init, PiServerTypeOK, PiStages, PiPorts
<1>3. PiSessionTypeOK
  <2>1. reports \in Seq(0..OtherReport) /\ Len(reports) = 0
    BY <1>1 DEF Pi!Init
  <2> QED
    <3>1. 0 \in PiPorts /\ Len(reports) <= Queue
      BY <2>1, PiAssumption DEF PiPorts
    <3>2. port = 0 /\ generation = 0 /\ listening = 0 /\ running = "none"
      BY <1>1 DEF Pi!Init
    <3>3. missed \in BOOLEAN /\ shutting \in BOOLEAN /\ prompt \in BOOLEAN /\ live \in BOOLEAN
      BY <1>1 DEF Pi!Init
    <3> QED
      BY <2>1, <3>1, <3>2, <3>3 DEF PiSessionTypeOK
<1>4. PiHandlerTypeOK /\ PiImageTypeOK
  BY <1>1, PiAssumption DEF Pi!Init, PiHandlerTypeOK, PiImageTypeOK, PiPorts
<1>5. OnePaste
  BY <1>1 DEF Pi!Init, OnePaste
<1>6. Handled /\ KeptInTime /\ ToldTheTruth
  <2>1. handler = [r \in PiPastes |-> "none"] /\ status = [r \in PiPastes |-> None]
        /\ got = [r \in PiPastes |-> 0] /\ pending = {} /\ editor = {}
    BY <1>1 DEF Pi!Init
  <2>2. reply = [r \in PiPastes |-> None]
    BY <1>1 DEF Pi!Init
  <2>3. Handled /\ KeptInTime
    BY <2>1 DEF Handled, KeptInTime
  <2>4. ToldTheTruth
    BY <2>2, PiAssumption DEF ToldTheTruth
  <2> QED
    BY <2>3, <2>4
<1>7. RoomForImages
  <2>1. pending = {} /\ BeingPrepared = {}
    BY <1>1 DEF Pi!Init, BeingPrepared
  <2> QED
    BY <2>1, FS_EmptySet, PiAssumption DEF RoomForImages
<1>8. PortIsKnown
  BY <1>1 DEF Pi!Init, PortIsKnown
<1> QED
  BY <1>2, <1>3, <1>4, <1>5, <1>6, <1>7, <1>8 DEF PiInv

\* The server goes on with a request.
LEMMA ServeKeeps ==
    ASSUME PiInv, NEW r \in PiPastes, Pi!Serve(r) \/ Pi!Abandon(r)
    PROVE  PiInv'
<1> DEFINE answers == {None, "ok", "busy", "invalid", "unavailable", "dropped"}
           ends(a) == /\ stage' = [stage EXCEPT ![r] = "done"] /\ reply' = [reply EXCEPT ![r] = a]
                      /\ input' = IF input = r THEN None ELSE input
                      /\ notified' = IF input = r THEN "none" ELSE notified
                      /\ target' = target
           goes(s) == /\ stage' = [stage EXCEPT ![r] = s] /\ reply' = reply
                      /\ s \in {"endpoint", "check", "wait", "sent"}
<1>1. PiServerTypeOK /\ PiSessionTypeOK /\ PiHandlerTypeOK /\ OnePaste /\ ToldTheTruth
  BY DEF PiInv
<1>2. UNCHANGED <<port, missed, reports, running, generation, listening, shutting, live, prompt,
                  handler, taken, status, pending, editor, got>>
  BY DEF Pi!Serve, Pi!Lock, Pi!Enable, Pi!Check, Pi!Woken, Pi!NoPort, Pi!Answered, Pi!Abandon,
     Pi!portVars, Pi!sessionVars, Pi!handlerVars, Pi!imageVars
<1>3. cut' \in [PiPastes -> BOOLEAN]
  <2>1. cut' = cut \/ cut' = [cut EXCEPT ![r] = TRUE] \/ cut' = [cut EXCEPT ![r] = (stage[r] = "sent")]
    BY DEF Pi!Serve, Pi!Lock, Pi!Enable, Pi!Check, Pi!Woken, Pi!NoPort, Pi!Answered, Pi!Abandon, Pi!handlerVars
  <2>2. (stage[r] = "sent") \in BOOLEAN
    OBVIOUS
  <2> QED
    BY <1>1, <2>1, <2>2 DEF PiServerTypeOK
<1>4. \/ \E a \in answers : ends(a) /\ (a = "ok" => status[r] = "pasted")
      \/ goes("endpoint") /\ input = None /\ input' = r /\ UNCHANGED <<notified, target>>
      \/ goes("check") /\ stage[r] = "endpoint" /\ notified' = "registered" /\ UNCHANGED <<input, target>>
      \/ goes("wait") /\ stage[r] = "check" /\ port = 0 /\ UNCHANGED <<input, notified, target>>
      \/ /\ goes("sent") /\ stage[r] \in {"check", "wait"} /\ notified' = "none" /\ input' = input
         /\ target' = [target EXCEPT ![r] = port]
  <2>1. \A a : Pi!Answer(r, a) /\ target' = target => ends(a)
    BY DEF Pi!Answer, Pi!Go
  <2>2. Pi!Send(r) => goes("sent") /\ notified' = "none" /\ input' = input /\ target' = [target EXCEPT ![r] = port]
    BY DEF Pi!Send, Pi!Go
  <2>3. CASE Pi!Lock(r)
    <3>1. CASE live
      BY <2>3, <3>1 DEF Pi!Lock, Pi!Go
    <3>2. CASE ~live
      <4>1. Pi!Answer(r, "unavailable") /\ target' = target
        BY <2>3, <3>2 DEF Pi!Lock
      <4>2. ends("unavailable")
        BY <2>1, <4>1
      <4> QED
        BY <4>2
    <3> QED
      BY <3>1, <3>2
  <2>4. CASE Pi!Enable(r)
    BY <2>4 DEF Pi!Enable, Pi!Go, Pi!Register
  <2>5. CASE Pi!Check(r)
    <3>1. CASE port # 0
      BY <2>2, <2>5, <3>1 DEF Pi!Check
    <3>2. CASE port = 0
      BY <2>5, <3>2 DEF Pi!Check, Pi!Go
    <3> QED
      BY <3>1, <3>2
  <2>6. CASE Pi!Woken(r)
    <3>1. CASE port # 0
      BY <2>2, <2>6, <3>1 DEF Pi!Woken
    <3>2. CASE port = 0
      <4>1. Pi!Answer(r, "unavailable") /\ target' = target
        BY <2>6, <3>2 DEF Pi!Woken
      <4>2. ends("unavailable")
        BY <2>1, <4>1
      <4> QED
        BY <4>2
    <3> QED
      BY <3>1, <3>2
  <2>7. CASE Pi!NoPort(r)
    <3>1. Pi!Answer(r, "unavailable") /\ target' = target
      BY <2>7 DEF Pi!NoPort
    <3>2. ends("unavailable")
      BY <2>1, <3>1
    <3> QED
      BY <3>2
  <2>8. CASE Pi!Answered(r) \/ Pi!Abandon(r)
    <3>1. target' = target
          /\ (Pi!Answer(r, Pi!Result(status[r])) \/ Pi!Answer(r, "unavailable") \/ Pi!Answer(r, "dropped"))
      BY <2>8 DEF Pi!Answered, Pi!Abandon
    <3>2. Pi!Result(status[r]) \in answers /\ (Pi!Result(status[r]) = "ok" => status[r] = "pasted")
      BY DEF Pi!Result
    <3>3. ends(Pi!Result(status[r])) \/ ends("unavailable") \/ ends("dropped")
      BY <2>1, <3>1
    <3> QED
      BY <3>2, <3>3
  <2> QED
    BY <2>3, <2>4, <2>5, <2>6, <2>7, <2>8 DEF Pi!Serve
<1>5. PiServerTypeOK'
  <2>1. "done" \in PiStages /\ {"endpoint", "check", "wait", "sent"} \subseteq PiStages /\ port \in PiPorts
    BY <1>1 DEF PiStages, PiSessionTypeOK
  <2> QED
    BY <1>1, <1>3, <1>4, <2>1 DEF PiServerTypeOK
<1>6. OnePaste'
  <2> SUFFICES ASSUME NEW q \in PiPastes
               PROVE  /\ stage'[q] \in {"endpoint", "check", "wait", "sent"} => input' = q
                      /\ stage'[q] \in {"check", "wait"} => notified' # "none"
                      /\ stage'[q] = "wait" /\ notified' # "woken" => port = 0
    BY <1>2 DEF OnePaste
  <2>1. /\ stage[q] \in {"endpoint", "check", "wait", "sent"} => input = q
        /\ stage[q] \in {"check", "wait"} => notified # "none"
        /\ stage[q] = "wait" /\ notified # "woken" => port = 0
        /\ stage[r] \in {"endpoint", "check", "wait", "sent"} => input = r
        /\ stage[r] \in {"check", "wait"} => notified # "none"
    BY <1>1 DEF OnePaste
  <2>2. stage \in [PiPastes -> PiStages] /\ q # None /\ r # None
    BY <1>1, PiAssumption DEF PiServerTypeOK
  <2>3. CASE q = r
    BY <1>4, <2>1, <2>2, <2>3
  <2>4. CASE q # r
    <3>1. stage'[q] = stage[q]
      BY <1>4, <2>2, <2>4
    <3> QED
      BY <1>4, <2>1, <2>2, <2>4, <3>1
  <2> QED
    BY <2>3, <2>4
<1>7. ToldTheTruth'
  <2> SUFFICES ASSUME NEW q \in PiPastes, reply'[q] = "ok"
               PROVE  status[q] = "pasted"
    BY <1>2 DEF ToldTheTruth
  <2>1. reply \in [PiPastes -> answers] /\ (reply[q] = "ok" => status[q] = "pasted")
    BY <1>1 DEF PiServerTypeOK, ToldTheTruth
  <2>2. CASE q = r
    BY <1>4, <2>1, <2>2
  <2>3. CASE q # r
    <3>1. reply'[q] = reply[q]
      BY <1>4, <2>1, <2>3
    <3> QED
      BY <2>1, <3>1
  <2> QED
    BY <2>2, <2>3
<1>8. PiSessionTypeOK' /\ PiHandlerTypeOK' /\ PiImageTypeOK' /\ KeptInTime' /\ PortIsKnown' /\ RoomForImages'
  BY <1>2 DEF PiInv, PiSessionTypeOK, PiHandlerTypeOK, PiImageTypeOK, KeptInTime, PortIsKnown,
     RoomForImages, BeingPrepared
<1>9. Handled'
  BY <1>2 DEF PiInv, Handled
<1> QED
  BY <1>5, <1>6, <1>7, <1>8, <1>9 DEF PiInv

\* The extension goes on with a request.
LEMMA HandleKeeps ==
    ASSUME PiInv, NEW r \in PiPastes, Pi!Handle(r)
    PROVE  PiInv'
<1>1. PiSessionTypeOK /\ PiHandlerTypeOK /\ PiImageTypeOK /\ Handled /\ KeptInTime /\ ToldTheTruth /\ RoomForImages
  BY DEF PiInv
<1>2. UNCHANGED <<stage, reply, input, notified, target, port, missed, reports, running, generation, listening,
                  shutting, live, prompt, cut, got>>
  BY DEF Pi!Handle, Pi!Arrive, Pi!Body, Pi!Resized, Pi!Expire, Pi!serverVars, Pi!portVars, Pi!sessionVars,
     Pi!imageVars
<1>3. /\ handler[r] \in {"none", "body", "resize"} /\ status[r] \in {None, "late"}
      /\ r \notin editor \cup pending /\ got[r] = 0
  <2>1. handler[r] \in {"none", "body", "resize"}
    BY DEF Pi!Handle, Pi!Arrive, Pi!Body, Pi!Resized, Pi!Expire, Pi!Processing
  <2> QED
    BY <1>1, <2>1 DEF Handled
<1> DEFINE set(h, t) == handler' = [handler EXCEPT ![r] = h] /\ status' = [status EXCEPT ![r] = t]
           kept == UNCHANGED <<taken, pending, editor>>
<1>4. \/ \E t \in {status[r], "conflict", "failed"} :
            set("ended", t) /\ UNCHANGED <<pending, editor>> /\ (taken' = taken \/ taken' = [taken EXCEPT ![r] = listening])
      \/ /\ set("body", status[r]) /\ handler[r] = "none" /\ UNCHANGED <<pending, editor>>
         /\ taken' = [taken EXCEPT ![r] = listening]
         /\ ~(Pi!Cardinality(pending) + Pi!Cardinality(BeingPrepared) >= Limit)
      \/ set("resize", status[r]) /\ handler[r] = "body" /\ kept
      \/ /\ set("ended", "pasted") /\ handler[r] = "resize" /\ taken' = taken /\ taken[r] = generation
         /\ pending' = pending \cup {r} /\ editor' = editor \cup {r}
      \/ set(handler[r], "late") /\ handler[r] \in {"body", "resize"} /\ kept
  <2>1. status \in [PiPastes -> {None, "pasted", "late", "conflict", "failed"}]
        /\ handler \in [PiPastes -> {"none", "body", "resize", "ended"}]
    BY <1>1 DEF PiHandlerTypeOK
  <2>2. UNCHANGED status => status' = [status EXCEPT ![r] = status[r]]
    BY <2>1
  <2>3. UNCHANGED handler => handler' = [handler EXCEPT ![r] = handler[r]]
    BY <2>1
  <2>4. ASSUME NEW t, Pi!Reply(r, t)
        PROVE  set("ended", IF status[r] = None THEN t ELSE status[r])
    BY <2>1, <2>4 DEF Pi!Reply, Pi!Handler
  <2>5. CASE Pi!Arrive(r)
    <3>1. taken' = [taken EXCEPT ![r] = listening] /\ handler[r] = "none" /\ UNCHANGED <<pending, editor>>
      BY <2>5 DEF Pi!Arrive, Pi!imageVars
    <3>2. CASE Pi!Reply(r, "conflict")
      BY <2>4, <3>1, <3>2
    <3>3. CASE ~Pi!Reply(r, "conflict")
      <4>1. Pi!Handler(r, "body") /\ UNCHANGED status
            /\ ~(Pi!Cardinality(pending) + Pi!Cardinality(Pi!Processing) >= Limit)
        BY <2>5, <3>3 DEF Pi!Arrive
      <4>2. Pi!Processing = BeingPrepared
        BY DEF Pi!Processing, BeingPrepared
      <4> QED
        BY <2>2, <3>1, <4>1, <4>2 DEF Pi!Handler
    <3> QED
      BY <3>2, <3>3
  <2>6. CASE Pi!Body(r)
    <3>1. handler[r] = "body" /\ kept
      BY <2>6 DEF Pi!Body, Pi!imageVars
    <3>2. \/ Pi!Handler(r, "ended") /\ UNCHANGED status
          \/ Pi!Handler(r, "resize") /\ UNCHANGED status
          \/ Pi!Reply(r, "conflict") \/ Pi!Reply(r, "failed")
      BY <2>6 DEF Pi!Body
    <3>3. CASE Pi!Reply(r, "conflict") \/ Pi!Reply(r, "failed")
      BY <2>4, <3>1, <3>3
    <3>4. CASE (Pi!Handler(r, "ended") \/ Pi!Handler(r, "resize")) /\ UNCHANGED status
      BY <2>2, <3>1, <3>4 DEF Pi!Handler
    <3> QED
      BY <3>2, <3>3, <3>4
  <2>7. CASE Pi!Resized(r)
    <3>1. handler[r] = "resize" /\ taken' = taken
      BY <2>7 DEF Pi!Resized
    <3>2. \/ Pi!Handler(r, "ended") /\ UNCHANGED <<status, pending, editor>>
          \/ (Pi!Reply(r, "conflict") \/ Pi!Reply(r, "failed")) /\ UNCHANGED <<pending, editor>>
          \/ /\ Pi!Reply(r, "pasted") /\ status[r] # "late" /\ taken[r] = generation
             /\ pending' = pending \cup {r} /\ editor' = editor \cup {r}
      BY <2>7 DEF Pi!Resized, Pi!Expired, Pi!Current
    <3>3. CASE Pi!Handler(r, "ended") /\ UNCHANGED <<status, pending, editor>>
      BY <2>2, <3>1, <3>3 DEF Pi!Handler
    <3>4. CASE (Pi!Reply(r, "conflict") \/ Pi!Reply(r, "failed")) /\ UNCHANGED <<pending, editor>>
      BY <2>4, <3>1, <3>4
    <3>5. CASE /\ Pi!Reply(r, "pasted") /\ status[r] # "late" /\ taken[r] = generation
               /\ pending' = pending \cup {r} /\ editor' = editor \cup {r}
      BY <1>3, <2>4, <3>1, <3>5
    <3> QED
      BY <3>2, <3>3, <3>4, <3>5
  <2>8. CASE Pi!Expire(r)
    BY <2>3, <2>8 DEF Pi!Expire, Pi!Processing, Pi!imageVars
  <2> QED
    BY <2>5, <2>6, <2>7, <2>8 DEF Pi!Handle
<1>5. PiHandlerTypeOK' /\ PiImageTypeOK'
  <2>1. listening \in PiPorts
    BY <1>1 DEF PiSessionTypeOK
  <2>2. PiImageTypeOK'
    BY <1>1, <1>2, <1>4 DEF PiImageTypeOK
  <2>3. taken' \in [PiPastes -> PiPorts]
    BY <1>1, <1>4, <2>1 DEF PiHandlerTypeOK
  <2>4. handler' \in [PiPastes -> {"none", "body", "resize", "ended"}]
    BY <1>1, <1>3, <1>4 DEF PiHandlerTypeOK
  <2>5. status' \in [PiPastes -> {None, "pasted", "late", "conflict", "failed"}]
    BY <1>1, <1>3, <1>4 DEF PiHandlerTypeOK
  <2> QED
    BY <2>2, <2>3, <2>4, <2>5 DEF PiHandlerTypeOK
<1>6. \A q \in PiPastes : q # r =>
          /\ handler'[q] = handler[q] /\ status'[q] = status[q] /\ taken'[q] = taken[q]
          /\ (q \in pending' <=> q \in pending) /\ (q \in editor' <=> q \in editor)
  BY <1>1, <1>4 DEF PiHandlerTypeOK
<1>7. \/ handler'[r] = "ended" /\ r \notin editor' \cup pending'
      \/ handler'[r] = "ended" /\ status'[r] = "pasted" /\ taken'[r] = generation
      \/ handler'[r] # "ended" /\ status'[r] \in {None, "late"} /\ r \notin editor' \cup pending'
  BY <1>1, <1>3, <1>4 DEF PiHandlerTypeOK
<1>8. Handled'
  <2> SUFFICES ASSUME NEW q \in PiPastes
               PROVE  IF handler'[q] = "ended" THEN q \in editor' \cup pending' \/ got[q] # 0 => status'[q] = "pasted"
                      ELSE status'[q] \in {None, "late"} /\ q \notin editor' \cup pending' /\ got[q] = 0
    BY <1>2 DEF Handled
  <2>1. CASE q = r
    BY <1>3, <1>7, <2>1
  <2>2. CASE q # r
    BY <1>1, <1>6, <2>2 DEF Handled
  <2> QED
    BY <2>1, <2>2
<1>9. KeptInTime'
  <2> SUFFICES ASSUME NEW q \in pending'
               PROVE  got[q] = 0 /\ (taken'[q] = generation \/ running = "starting")
    BY <1>2 DEF KeptInTime
  <2>1. CASE q = r
    BY <1>3, <1>7, <2>1
  <2>2. CASE q # r
    BY <1>1, <1>5, <1>6, <2>2 DEF KeptInTime, PiImageTypeOK
  <2> QED
    BY <2>1, <2>2
<1>10. ToldTheTruth'
  <2> SUFFICES ASSUME NEW q \in PiPastes, reply[q] = "ok"
               PROVE  status'[q] = "pasted"
    BY <1>2 DEF ToldTheTruth
  <2>1. status[q] = "pasted"
    BY <1>1 DEF ToldTheTruth
  <2>2. q # r
    BY <1>3, <2>1, PiAssumption
  <2> QED
    BY <1>6, <2>1, <2>2
<1>11. RoomForImages'
  <2>1. IsFiniteSet(pending) /\ IsFiniteSet(BeingPrepared)
    BY <1>1, FS_Subset, PiAssumption DEF PiImageTypeOK, BeingPrepared
  <2>2. Cardinality(pending) \in Nat /\ Cardinality(BeingPrepared) \in Nat /\ Limit \in Nat
    BY <2>1, FS_CardinalityType, PiAssumption
  <2>3. CASE handler'[r] = "ended" /\ pending' = pending
    <3>1. BeingPrepared' \subseteq BeingPrepared
      BY <1>6, <2>3 DEF BeingPrepared
    <3>2. Cardinality(BeingPrepared') <= Cardinality(BeingPrepared) /\ Cardinality(BeingPrepared') \in Nat
      BY <2>1, <3>1, FS_Subset, FS_CardinalityType
    <3> QED
      BY <1>1, <2>2, <2>3, <3>2 DEF RoomForImages
  <2>4. CASE /\ set("body", status[r]) /\ handler[r] = "none" /\ UNCHANGED <<pending, editor>>
             /\ ~(Pi!Cardinality(pending) + Pi!Cardinality(BeingPrepared) >= Limit)
    <3>1. BeingPrepared' = BeingPrepared \cup {r} /\ r \notin BeingPrepared
      BY <1>1, <1>6, <2>4 DEF BeingPrepared, PiHandlerTypeOK
    <3>2. Cardinality(BeingPrepared') = Cardinality(BeingPrepared) + 1
      BY <2>1, <3>1, FS_AddElement
    <3>3. Cardinality(pending) + Cardinality(BeingPrepared) < Limit
      BY <2>2, <2>4, PiCardinality
    <3> QED
      BY <2>2, <2>4, <3>2, <3>3 DEF RoomForImages
  <2>5. CASE pending' = pending /\ handler[r] \in {"body", "resize"} /\ handler'[r] \in {"body", "resize"}
    <3>1. BeingPrepared' = BeingPrepared
      BY <1>6, <2>5 DEF BeingPrepared
    <3> QED
      BY <1>1, <2>5, <3>1 DEF RoomForImages
  <2>6. CASE handler'[r] = "ended" /\ handler[r] = "resize" /\ pending' = pending \cup {r}
    <3>1. BeingPrepared' = BeingPrepared \ {r} /\ r \in BeingPrepared
      BY <1>6, <2>6 DEF BeingPrepared
    <3>2. Cardinality(BeingPrepared') = Cardinality(BeingPrepared) - 1
      BY <2>1, <3>1, FS_RemoveElement
    <3>3. Cardinality(pending') = Cardinality(pending) + 1
      BY <1>3, <2>1, <2>6, FS_AddElement
    <3> QED
      BY <1>1, <2>2, <3>2, <3>3 DEF RoomForImages
  <2> QED
    BY <1>1, <1>4, <2>3, <2>4, <2>5, <2>6 DEF PiHandlerTypeOK
<1>12. PiServerTypeOK' /\ PiSessionTypeOK' /\ OnePaste' /\ PortIsKnown'
  BY <1>2 DEF PiInv, PiServerTypeOK, PiSessionTypeOK, OnePaste, PortIsKnown
<1> QED
  BY <1>5, <1>8, <1>9, <1>10, <1>11, <1>12 DEF PiInv

\* A report of the extension, which replaces the last one if there is no room.
LEMMA ReportLemma ==
    ASSUME PiSessionTypeOK, NEW x \in 0..OtherReport, Pi!Report(x)
    PROVE  /\ reports' \in Seq(0..OtherReport) /\ Len(reports') <= Queue /\ missed' \in BOOLEAN
           /\ ~missed' => ~missed
           /\ Len(reports') \in Nat \ {0} /\ reports'[Len(reports')] = x
           /\ Len(reports) \in {Len(reports'), Len(reports') - 1}
           /\ \A i \in 1..Len(reports') : i < Len(reports') => i \in 1..Len(reports) /\ reports'[i] = reports[i]
           /\ x = OtherReport /\ ~missed' /\ Len(reports) = Len(reports') =>
                 reports[Len(reports)] = OtherReport
<1>1. /\ reports \in Seq(0..OtherReport) /\ Len(reports) \in Nat /\ Len(reports) <= Queue
      /\ Queue \in Nat \ {0} /\ missed \in BOOLEAN
  BY PiAssumption DEF PiSessionTypeOK
<1>2. CASE Len(reports) < Queue
  <2>1. reports' = Append(reports, x) /\ missed' = missed
    BY <1>2 DEF Pi!Report
  <2>2. /\ reports' \in Seq(0..OtherReport) /\ Len(reports') = Len(reports) + 1
        /\ reports'[Len(reports) + 1] = x /\ \A i \in 1..Len(reports) : reports'[i] = reports[i]
    BY <1>1, <2>1, AppendRange
  <2>3. \A i \in 1..Len(reports') : i < Len(reports') => i \in 1..Len(reports)
    BY <1>1, <2>2
  <2> QED
    BY <1>1, <1>2, <2>1, <2>2, <2>3
<1>3. CASE ~(Len(reports) < Queue)
  <2>1. /\ reports' = [reports EXCEPT ![Queue] = x] /\ Len(reports) = Queue
        /\ missed' = (missed \/ (reports[Queue] # OtherReport /\ x = OtherReport))
    BY <1>1, <1>3 DEF Pi!Report, Pi!Other, OtherReport
  <2>2. missed' \in BOOLEAN /\ (~missed' => ~missed /\ (x = OtherReport => reports[Queue] = OtherReport))
    BY <1>1, <2>1
  <2>3. /\ reports' \in Seq(0..OtherReport) /\ Len(reports') = Queue /\ reports'[Queue] = x
        /\ \A i \in 1..Queue : i < Queue => reports'[i] = reports[i]
    BY <1>1, <2>1
  <2> QED
    BY <1>1, <2>1, <2>2, <2>3
<1> QED
  BY <1>2, <1>3

\* The extension tells of the port that is open, or of none.
LEMMA PortReported ==
    ASSUME PiSessionTypeOK, Pi!Report(listening'), listening' \in PiPorts
    PROVE  PortIsKnown'
<1> DEFINE n == Len(reports')
<1>1. listening' \in 0..OtherReport /\ listening' # OtherReport
  BY PiAssumption DEF PiPorts, OtherReport
<1>2. n \in Nat \ {0} /\ reports'[n] = listening'
  BY <1>1, ReportLemma
<1> HIDE DEF n
<1>3. n \in 1..n /\ \A j \in 1..n : ~(n < j)
  BY <1>2
<1> QED
  BY <1>1, <1>2, <1>3 DEF PortIsKnown, n, OtherReport

\* Another report leaves what is known of the port.
LEMMA OtherReported ==
    ASSUME PiSessionTypeOK, PortIsKnown, Pi!Report(OtherReport), UNCHANGED <<live, port, listening>>
    PROVE  PortIsKnown'
<1> DEFINE n == Len(reports')
<1>1. OtherReport \in 0..OtherReport /\ listening # OtherReport
  BY PiAssumption DEF PiSessionTypeOK, PiPorts, OtherReport
<1>2. /\ ~missed' => ~missed
      /\ n \in Nat \ {0} /\ reports'[n] = OtherReport /\ Len(reports) \in {n, n - 1}
      /\ \A i \in 1..n : i < n => i \in 1..Len(reports) /\ reports'[i] = reports[i]
      /\ ~missed' /\ Len(reports) = n => reports[n] = OtherReport
  BY <1>1, ReportLemma
<1> HIDE DEF n
<1> SUFFICES ASSUME live, ~missed'
             PROVE  IF \A i \in 1..n : reports'[i] = OtherReport THEN port = listening
                    ELSE \E i \in 1..n :
                            reports'[i] = listening /\ \A j \in 1..n : i < j => reports'[j] = OtherReport
  BY DEF PortIsKnown, n, OtherReport
<1>3. \A i \in 1..Len(reports) : i \in 1..n /\ (i < n => reports'[i] = reports[i])
                                 /\ (i = n => reports[i] = OtherReport)
  BY <1>2
<1>4. CASE \A i \in 1..Len(reports) : reports[i] = OtherReport
  <2>1. port = listening
    BY <1>2, <1>4 DEF PortIsKnown
  <2>2. \A i \in 1..n : reports'[i] = OtherReport
    BY <1>2, <1>4
  <2> QED
    BY <2>1, <2>2
<1>5. CASE ~\A i \in 1..Len(reports) : reports[i] = OtherReport
  <2>1. PICK i \in 1..Len(reports) :
          reports[i] = listening /\ \A j \in 1..Len(reports) : i < j => reports[j] = OtherReport
    BY <1>2, <1>5 DEF PortIsKnown
  <2>2. i \in 1..n /\ i < n /\ reports'[i] = listening
    BY <1>1, <1>2, <1>3, <2>1
  <2>3. \A j \in 1..n : i < j => reports'[j] = OtherReport
    BY <1>2, <2>1
  <2> QED
    BY <1>1, <2>2, <2>3
<1> QED
  BY <1>4, <1>5

LEMMA TailLemma ==
    ASSUME NEW S, NEW s \in Seq(S), s # <<>>
    PROVE  /\ Len(s) \in Nat \ {0} /\ Head(s) = s[1] /\ s[1] \in S
           /\ Tail(s) \in Seq(S) /\ Len(Tail(s)) = Len(s) - 1
           /\ \A i \in 1..Len(Tail(s)) : Tail(s)[i] = s[i + 1] /\ i + 1 \in 1..Len(s)
  OBVIOUS

\* What the server knows when it is told, or when a report is lost.
LEMMA DeliveryKeeps ==
    ASSUME PiInv, Pi!Deliver \/ Pi!Lose
    PROVE  PiInv'
<1>1. /\ PiSessionTypeOK /\ PiServerTypeOK /\ OnePaste /\ PortIsKnown
      /\ reports \in Seq(0..OtherReport) /\ Len(reports) <= Queue /\ Queue \in Nat
  BY PiAssumption DEF PiInv, PiSessionTypeOK
<1>2. /\ reports # <<>> /\ reports' = Tail(reports)
      /\ UNCHANGED <<stage, reply, input, target, running, generation, listening, shutting, live, prompt,
                     handler, taken, status, cut, pending, editor, got>>
  BY DEF Pi!Deliver, Pi!Lose, Pi!serverVars, Pi!sessionVars, Pi!handlerVars, Pi!imageVars
<1>3. /\ Len(reports) \in Nat \ {0} /\ Head(reports) = reports[1] /\ reports[1] \in 0..OtherReport
      /\ reports' \in Seq(0..OtherReport) /\ Len(reports') = Len(reports) - 1
      /\ \A i \in 1..Len(reports') : reports'[i] = reports[i + 1] /\ i + 1 \in 1..Len(reports)
  BY <1>1, <1>2, TailLemma
<1>4. \/ missed' = TRUE /\ UNCHANGED <<port, notified>>
      \/ missed' = missed /\ reports[1] = OtherReport /\ UNCHANGED <<port, notified>>
      \/ /\ missed' = missed /\ reports[1] # OtherReport /\ port' = reports[1]
         /\ notified' = IF reports[1] # 0 /\ notified = "registered" THEN "woken" ELSE notified
  <2>1. CASE Pi!Lose
    BY <2>1 DEF Pi!Lose, Pi!serverVars
  <2>2. CASE Pi!Deliver
    BY <1>3, <2>2 DEF Pi!Deliver, Pi!Other, OtherReport
  <2> QED
    BY <2>1, <2>2
<1>5. PiServerTypeOK'
  BY <1>1, <1>2, <1>4 DEF PiServerTypeOK
<1>6. PiSessionTypeOK'
  <2>1. reports[1] # OtherReport => reports[1] \in PiPorts
    BY <1>3, PiAssumption DEF PiPorts, OtherReport
  <2>2. Len(reports') <= Queue
    BY <1>1, <1>3
  <2>3. port' \in PiPorts /\ missed' \in BOOLEAN
    BY <1>1, <1>4, <2>1 DEF PiSessionTypeOK
  <2> QED
    BY <1>1, <1>2, <1>3, <2>2, <2>3 DEF PiSessionTypeOK, OtherReport
<1>7. OnePaste'
  <2> SUFFICES ASSUME NEW r \in PiPastes
               PROVE  /\ stage[r] \in {"endpoint", "check", "wait", "sent"} => input = r
                      /\ stage[r] \in {"check", "wait"} => notified' # "none"
                      /\ stage[r] = "wait" /\ notified' # "woken" => port' = 0
    BY <1>2 DEF OnePaste
  <2>1. /\ stage[r] \in {"endpoint", "check", "wait", "sent"} => input = r
        /\ stage[r] \in {"check", "wait"} => notified # "none"
        /\ stage[r] = "wait" /\ notified # "woken" => port = 0
    BY <1>1 DEF OnePaste
  <2>2. notified \in {"none", "registered", "woken"}
    BY <1>1 DEF PiServerTypeOK
  <2> QED
    BY <1>4, <2>1, <2>2
<1>8. PortIsKnown'
  <2> SUFFICES ASSUME live, ~missed'
               PROVE  IF \A i \in 1..Len(reports') : reports'[i] = OtherReport THEN port' = listening
                      ELSE \E i \in 1..Len(reports') : reports'[i] = listening
                              /\ \A j \in 1..Len(reports') : i < j => reports'[j] = OtherReport
    BY <1>2 DEF PortIsKnown, OtherReport
  <2>1. missed' = missed /\ ~missed
    BY <1>4
  <2>2. listening # OtherReport
    BY <1>1, PiAssumption DEF PiSessionTypeOK, PiPorts, OtherReport
  <2>3. ASSUME NEW j \in 1..Len(reports), j # 1
        PROVE  j - 1 \in 1..Len(reports') /\ reports'[j - 1] = reports[j]
    <3>1. j - 1 \in 1..Len(reports') /\ (j - 1) + 1 = j
      BY <1>3, <2>3
    <3> QED
      BY <1>3, <3>1
  <2>4. CASE \A i \in 1..Len(reports) : reports[i] = OtherReport
    <3>1. port = listening /\ reports[1] = OtherReport
      BY <1>1, <1>3, <2>1, <2>4 DEF PortIsKnown
    <3>2. \A i \in 1..Len(reports') : reports'[i] = OtherReport
      BY <1>3, <2>4
    <3> QED
      BY <1>4, <2>1, <3>1, <3>2
  <2>5. CASE ~\A i \in 1..Len(reports) : reports[i] = OtherReport
    <3>1. PICK i \in 1..Len(reports) :
            reports[i] = listening /\ \A j \in 1..Len(reports) : i < j => reports[j] = OtherReport
      BY <1>1, <2>1, <2>5 DEF PortIsKnown
    <3>2. \A j \in 1..Len(reports') : i < j + 1 => reports'[j] = OtherReport
      BY <1>3, <3>1
    <3>3. CASE i = 1
      <4>1. \A j \in 1..Len(reports') : reports'[j] = OtherReport
        BY <3>2, <3>3
      <4>2. port' = listening
        BY <1>4, <2>1, <2>2, <3>1, <3>3
      <4> QED
        BY <4>1, <4>2
    <3>4. CASE i # 1
      <4>1. i - 1 \in 1..Len(reports') /\ reports'[i - 1] = listening
        BY <2>3, <3>1, <3>4
      <4>2. \A j \in 1..Len(reports') : i - 1 < j => reports'[j] = OtherReport
        BY <3>2
      <4> QED
        BY <2>2, <4>1, <4>2
    <3> QED
      BY <3>3, <3>4
  <2> QED
    BY <2>4, <2>5
<1>9. PiHandlerTypeOK' /\ PiImageTypeOK' /\ Handled' /\ KeptInTime' /\ ToldTheTruth' /\ RoomForImages'
  BY <1>2 DEF PiInv, PiHandlerTypeOK, PiImageTypeOK, Handled, KeptInTime, ToldTheTruth, RoomForImages, BeingPrepared
<1> QED
  BY <1>5, <1>6, <1>7, <1>8, <1>9 DEF PiInv

\* Pi changes its session, asks its user, takes an input, or ends.
LEMMA SessionKeeps ==
    ASSUME PiInv,
           Pi!SessionStart \/ Pi!Clear \/ Pi!Listen \/ Pi!SessionShutdown \/ Pi!Prompt \/ Pi!Input \/ Pi!AgentEnds
           \/ \E r \in PiPastes : Pi!Edit(r)
    PROVE  PiInv'
<1>1. /\ PiServerTypeOK /\ PiSessionTypeOK /\ PiHandlerTypeOK /\ PiImageTypeOK
      /\ OnePaste /\ Handled /\ KeptInTime /\ RoomForImages /\ ToldTheTruth /\ PortIsKnown
  BY DEF PiInv
<1>2. /\ UNCHANGED <<stage, reply, input, notified, target, port, taken, status>>
      /\ pending' \subseteq pending /\ editor' \subseteq editor
      /\ handler' = handler \/ handler' = [r \in PiPastes |-> "ended"]
      /\ pending' = {} \/ (UNCHANGED <<pending, got>> /\ (running' = "starting" \/ UNCHANGED <<running, generation>>
                                                         \/ (running = "opening" /\ generation' = generation)))
      /\ got' = got \/ got' = [r \in PiPastes |-> IF r \in editor \cap pending THEN got[r] + 1 ELSE got[r]]
  BY DEF Pi!SessionStart, Pi!Clear, Pi!Listen, Pi!SessionShutdown, Pi!Prompt, Pi!Input, Pi!AgentEnds, Pi!Edit,
     Pi!serverVars, Pi!portVars, Pi!sessionVars, Pi!handlerVars, Pi!imageVars
<1>3. cut' \in [PiPastes -> BOOLEAN]
  <2>1. \/ cut' = cut
        \/ cut' = [r \in PiPastes |-> cut[r] \/ (taken[r] # 0 /\ taken[r] = listening)]
        \/ cut' = [r \in PiPastes |-> cut[r] \/ stage[r] = "sent"]
    BY DEF Pi!SessionStart, Pi!Clear, Pi!Listen, Pi!SessionShutdown, Pi!Prompt, Pi!Input, Pi!AgentEnds, Pi!Edit,
       Pi!Close, Pi!handlerVars
  <2>2. \A r \in PiPastes : /\ (cut[r] \/ (taken[r] # 0 /\ taken[r] = listening)) \in BOOLEAN
                            /\ (cut[r] \/ stage[r] = "sent") \in BOOLEAN
    OBVIOUS
  <2> QED
    BY <1>1, <2>1, <2>2 DEF PiServerTypeOK
<1>4. PiServerTypeOK' /\ OnePaste' /\ ToldTheTruth'
  BY <1>1, <1>2, <1>3 DEF PiServerTypeOK, OnePaste, ToldTheTruth
<1>5. PiHandlerTypeOK'
  BY <1>1, <1>2 DEF PiHandlerTypeOK
<1>6. \A r \in pending : got[r] = 0
  BY <1>1 DEF KeptInTime
<1>7. PiImageTypeOK'
  <2>1. \A r \in PiPastes : r \in editor \cap pending => got[r] + 1 \in 0..1
    BY <1>6
  <2> QED
    BY <1>1, <1>2, <2>1 DEF PiImageTypeOK
<1>8. Handled'
  <2> SUFFICES ASSUME NEW r \in PiPastes
               PROVE  IF handler'[r] = "ended" THEN r \in editor' \cup pending' \/ got'[r] # 0 => status[r] = "pasted"
                      ELSE status[r] \in {None, "late"} /\ r \notin editor' \cup pending' /\ got'[r] = 0
    BY <1>2 DEF Handled
  <2>1. IF handler[r] = "ended" THEN r \in editor \cup pending \/ got[r] # 0 => status[r] = "pasted"
        ELSE status[r] \in {None, "late"} /\ r \notin editor \cup pending /\ got[r] = 0
    BY <1>1 DEF Handled
  <2>2. got'[r] = got[r] \/ r \in editor \cap pending
    BY <1>1, <1>2 DEF PiImageTypeOK
  <2>3. handler'[r] = handler[r] \/ handler'[r] = "ended"
    BY <1>2
  <2> QED
    BY <1>2, <2>1, <2>2, <2>3
<1>9. KeptInTime'
  BY <1>1, <1>2 DEF KeptInTime
<1>10. RoomForImages'
  <2>1. IsFiniteSet(pending) /\ IsFiniteSet(BeingPrepared)
    BY <1>1, FS_Subset, PiAssumption DEF PiImageTypeOK, BeingPrepared
  <2>2. BeingPrepared' \subseteq BeingPrepared
    BY <1>2 DEF BeingPrepared
  <2>3. /\ Cardinality(pending') <= Cardinality(pending) /\ Cardinality(BeingPrepared') <= Cardinality(BeingPrepared)
        /\ IsFiniteSet(pending') /\ IsFiniteSet(BeingPrepared')
    BY <1>2, <2>1, <2>2, FS_Subset
  <2>4. {Cardinality(pending), Cardinality(pending'), Cardinality(BeingPrepared), Cardinality(BeingPrepared')}
           \subseteq Nat
    BY <2>1, <2>3, FS_CardinalityType
  <2> QED
    BY <1>1, <2>3, <2>4, PiAssumption DEF RoomForImages
<1>11. PiSessionTypeOK' /\ PortIsKnown'
  <2>1. generation < Changes => generation + 1 \in PiPorts
    BY <1>1, PiAssumption DEF PiSessionTypeOK, PiPorts
  <2>2. 0 \in PiPorts /\ PiPorts \subseteq 0..OtherReport /\ OtherReport \in 0..OtherReport /\ generation \in PiPorts
        /\ listening \in PiPorts
    BY <1>1, PiAssumption DEF PiSessionTypeOK, PiPorts, OtherReport
  <2>3. ASSUME NEW x \in 0..OtherReport, Pi!Report(x)
        PROVE  reports' \in Seq(0..OtherReport) /\ Len(reports') <= Queue /\ missed' \in BOOLEAN
    BY <1>1, <2>3, ReportLemma
  <2>4. CASE Pi!SessionStart \/ Pi!SessionShutdown
    <3>1. /\ Pi!Report(0) /\ listening' = 0 /\ port' = port /\ live' = live /\ running' \in {"starting", "none"}
          /\ generation < Changes /\ generation' = generation + 1 /\ shutting' = TRUE
          /\ prompt' = prompt \/ prompt' = FALSE
      BY <2>4 DEF Pi!SessionStart, Pi!SessionShutdown
    <3>2. PortIsKnown'
      BY <1>1, <2>2, <3>1, PortReported
    <3>3. reports' \in Seq(0..OtherReport) /\ Len(reports') <= Queue /\ missed' \in BOOLEAN
      BY <2>2, <2>3, <3>1
    <3> QED
      BY <1>1, <2>1, <2>2, <3>1, <3>2, <3>3 DEF PiSessionTypeOK, OtherReport
  <2>5. CASE Pi!Clear \/ Pi!Prompt
    <3>1. /\ Pi!Report(OtherReport) /\ UNCHANGED <<live, port, listening, generation>>
          /\ running' \in {running, "opening"} /\ shutting' \in {shutting, FALSE}
          /\ prompt' \in {prompt, ~prompt}
      BY <2>5 DEF Pi!Clear, Pi!Prompt, Pi!sessionVars, Pi!Other, OtherReport
    <3>2. PortIsKnown'
      BY <1>1, <3>1, OtherReported
    <3>3. reports' \in Seq(0..OtherReport) /\ Len(reports') <= Queue /\ missed' \in BOOLEAN
      BY <2>2, <2>3, <3>1
    <3>4. prompt' \in BOOLEAN
      BY <1>1, <3>1 DEF PiSessionTypeOK
    <3> QED
      BY <1>1, <3>1, <3>2, <3>3, <3>4 DEF PiSessionTypeOK, OtherReport
  <2>6. CASE Pi!Listen
    <3>1. /\ Pi!Report(generation) /\ listening' = generation /\ running' = "runs"
          /\ UNCHANGED <<live, port, generation, shutting, prompt>>
      BY <2>6 DEF Pi!Listen
    <3>2. PortIsKnown'
      BY <1>1, <2>2, <3>1, PortReported
    <3>3. reports' \in Seq(0..OtherReport) /\ Len(reports') <= Queue /\ missed' \in BOOLEAN
      BY <2>2, <2>3, <3>1
    <3> QED
      BY <1>1, <2>2, <3>1, <3>2, <3>3 DEF PiSessionTypeOK, OtherReport
  <2>7. CASE Pi!Input \/ \E r \in PiPastes : Pi!Edit(r)
    <3>1. UNCHANGED <<port, missed, reports, running, generation, listening, shutting, live, prompt>>
      BY <2>7 DEF Pi!Input, Pi!Edit, Pi!portVars, Pi!sessionVars
    <3> QED
      BY <1>1, <3>1 DEF PiSessionTypeOK, PortIsKnown
  <2>8. CASE Pi!AgentEnds
    <3>1. /\ live' = FALSE /\ running' = "none" /\ listening' = 0 /\ shutting' = TRUE /\ prompt' = FALSE
          /\ UNCHANGED <<port, missed, reports, generation>>
      BY <2>8 DEF Pi!AgentEnds, Pi!portVars
    <3> QED
      BY <1>1, <2>2, <3>1 DEF PiSessionTypeOK, PortIsKnown, OtherReport
  <2> QED
    BY <2>4, <2>5, <2>6, <2>7, <2>8
<1> QED
  BY <1>4, <1>5, <1>7, <1>8, <1>9, <1>10, <1>11 DEF PiInv

\* One request at a time, and images of requests that were told so.
THEOREM PiInductive == AgentSpec => []PiInv
<1>1. PiInv /\ [AgentNext]_allVars => PiInv'
  <2> SUFFICES ASSUME PiInv, [AgentNext]_allVars
               PROVE  PiInv'
    OBVIOUS
  <2>1. CASE Pi!Next
    BY <2>1, ServeKeeps, HandleKeeps, SessionKeeps, DeliveryKeeps DEF Pi!Next
  <2>2. CASE UNCHANGED piVars
    <3>1. UNCHANGED <<stage, reply, input, notified, port, target, missed, reports, running, generation, listening,
                      shutting, prompt, handler, taken, status, cut, pending, editor, got, live>>
      BY <2>2 DEF piVars
    <3>2. PiServerTypeOK' /\ PiSessionTypeOK' /\ PiHandlerTypeOK' /\ PiImageTypeOK'
      BY <3>1 DEF PiInv, PiServerTypeOK, PiSessionTypeOK, PiHandlerTypeOK, PiImageTypeOK
    <3> QED
      BY <3>1, <3>2 DEF PiInv, OnePaste, Handled, KeptInTime, RoomForImages, BeingPrepared, ToldTheTruth, PortIsKnown
  <2> QED
    BY <2>1, <2>2 DEF AgentNext, OfReports, OfRuntime, OfStaging, OfPi, allVars
<1> QED
  BY <1>1, PiInitial, PTL DEF AgentSpec

\* A pasted image is of the session that Pi has, there is room for it, its client
\* was told the truth, no image is taken twice, and the server knows the open
\* port unless a report was lost (runtime_input.rs, workspace.rs).
THEOREM ImagesPasted == AgentSpec => []PastedIntoTheSession
<1>1. PiInv => PastedIntoTheSession
  <2> SUFFICES ASSUME PiInv
               PROVE  PastedIntoTheSession
    OBVIOUS
  <2>1. \A r \in PiPastes : got[r] \in 0..1 /\ got[r] \in 0..2 /\ got[r] <= 1
    BY DEF PiInv, PiImageTypeOK
  <2>2. Pi!TypeOK
    <3>1. got \in [PiPastes -> 0..2]
      BY <2>1 DEF PiInv, PiImageTypeOK
    <3> QED
      BY <3>1 DEF PiInv, Pi!TypeOK, PiServerTypeOK, PiSessionTypeOK, PiHandlerTypeOK, PiImageTypeOK,
         Pi!Ports, Pi!Other, PiPorts, OtherReport, PiStages
  <2>3. \A r \in pending : status[r] = "pasted" /\ (taken[r] = generation \/ running = "starting")
    <3> SUFFICES ASSUME NEW r \in pending
                 PROVE  status[r] = "pasted" /\ (taken[r] = generation \/ running = "starting")
      OBVIOUS
    <3>1. r \in PiPastes
      BY DEF PiInv, PiImageTypeOK
    <3> QED
      BY <3>1 DEF PiInv, Handled, KeptInTime
  <2>4. Pi!Cardinality(pending) + Pi!Cardinality(Pi!Processing) <= Limit
    BY PiCardinality DEF PiInv, RoomForImages, BeingPrepared, Pi!Processing
  <2>5. \A r \in PiPastes : status[r] \notin {None, "pasted"} => r \notin editor /\ got[r] = 0
    BY DEF PiInv, Handled
  <2>6. \A r \in PiPastes : stage[r] = "wait" /\ notified # "woken" => port = 0
    BY DEF PiInv, OnePaste
  <2>7. live /\ reports = <<>> /\ ~missed => port = listening
    BY DEF PiInv, PortIsKnown
  <2>8. \A r \in PiPastes : reply[r] = "ok" => status[r] = "pasted"
    BY DEF PiInv, ToldTheTruth
  <2> QED
    BY <2>1, <2>2, <2>3, <2>4, <2>5, <2>6, <2>7, <2>8 DEF PastedIntoTheSession, Pi!PastedIntoTheSession
<1> QED
  BY <1>1, PiInductive, PTL
=============================================================================
