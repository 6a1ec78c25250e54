------------------------- MODULE FixtureCaptureProofs -------------------------
(***************************************************************************)
(* Proofs about FixtureCapture, for any number of scripts, run directories, *)
(* commands and captures: types, that a live build is one capture, and that *)
(* an unreadable fixture has a cause.  One invariant, FInv, carries all     *)
(* three; each action is shown to preserve it in a lemma of its own.        *)
(***************************************************************************)
EXTENDS FixtureCapture, SequenceTheorems, TLAPS

\* The tables a script may have in memory.
Partly == UNION {[done -> Artifact] : done \in SUBSET CommandSuffixes}

\* What a script that is under way has in memory.
Local == [step : {"capture", "build", "open", "write"}, nr : 1..MaxCaptures, dir : RunDirs,
          live : BOOLEAN, at : DOMAIN COMMANDS, built : Partly, shared : BOOLEAN]

FixtureFile == {File(state) : state \in {"missing", "blank", "spoilt"}}
               \cup {Whole(tables) : tables \in [CommandSuffixes -> Artifact]}

\* The types, in a form from which steps can be computed.
Types == /\ artifacts \in [RunDirs -> [CommandSuffixes -> Artifact \cup {NoArtifact}]]
         /\ fixture \in FixtureFile
         /\ captures \in 0..MaxCaptures
         /\ script \in [Scripts -> Local \cup {Idle}]
         /\ \A s \in Running : script[s].nr \in 1..captures
         /\ died \in BOOLEAN /\ overlapped \in BOOLEAN

\* The tables a script has read back so far.
ReadBack(local) ==
  CASE local.step = "capture" -> {}
    [] local.step = "build" -> {BuildOrder[i] : i \in 1..local.at - 1}
    [] OTHER -> CommandSuffixes

Reading == \A s \in Running : DOMAIN script[s].built = ReadBack(script[s])

\* What a live script has captured so far, and has read back of it, is of its
\* own capture, unless another one captured into its directory.
OwnCapture(s) ==
  /\ script[s].step = "capture" =>
       \A i \in 1..script[s].at - 1 : artifacts[script[s].dir][COMMANDS[i]].by = script[s].nr
  /\ script[s].step # "capture" =>
       \A x \in CommandSuffixes : artifacts[script[s].dir][x].by = script[s].nr
  /\ \A x \in DOMAIN script[s].built : script[s].built[x].by = script[s].nr

OwnCaptures == \A s \in Running : (script[s].live /\ ~script[s].shared) => OwnCapture(s)

\* Two scripts that have the file open have been noted, and so has one that
\* finds in it what another wrote.
Overlaps ==
  /\ \A s, t \in Scripts : (s # t /\ At(s, "write") /\ At(t, "write")) => overlapped
  /\ \A s \in Scripts : (At(s, "write") /\ fixture.state # "blank") => overlapped

FInv == Types /\ Reading /\ OwnCaptures /\ Overlaps /\ UnreadableHasCause

-----------------------------------------------------------------------------
(* The constants.                                                          *)

LEMMA Commands ==
  ASSUME FixtureCaptureAssumption
  PROVE  /\ Len(COMMANDS) \in Nat \ {0} /\ DOMAIN COMMANDS = 1..Len(COMMANDS)
         /\ Len(BuildOrder) = Len(COMMANDS)
         /\ \A i \in DOMAIN COMMANDS : COMMANDS[i] \in CommandSuffixes /\ BuildOrder[i] \in CommandSuffixes
         /\ CommandSuffixes = {BuildOrder[i] : i \in 1..Len(COMMANDS)}
<1>1. /\ COMMANDS \in Seq(CommandSuffixes) /\ COMMANDS # <<>>
      /\ BuildOrder \in Seq(CommandSuffixes) /\ Len(BuildOrder) = Len(COMMANDS)
  BY DEF FixtureCaptureAssumption
<1>2. Len(COMMANDS) \in Nat \ {0} /\ DOMAIN COMMANDS = 1..Len(COMMANDS)
  BY <1>1
<1>3. DOMAIN BuildOrder = 1..Len(COMMANDS)
  BY <1>1
<1>4. \A i \in DOMAIN COMMANDS : COMMANDS[i] \in CommandSuffixes /\ BuildOrder[i] \in CommandSuffixes
  BY <1>1, <1>2, <1>3
<1>5. CommandSuffixes = {BuildOrder[i] : i \in 1..Len(COMMANDS)}
  BY <1>3 DEF FixtureCaptureAssumption
<1> QED
  BY <1>1, <1>2, <1>4, <1>5

LEMMA Limit == ASSUME FixtureCaptureAssumption PROVE MaxCaptures \in Nat
<1>1. Finds \in Seq([CommandSuffixes -> Kinds])
  BY DEF FixtureCaptureAssumption
<1> QED
  BY <1>1 DEF MaxCaptures

\* What capture n finds for a suffix is an artifact.
LEMMA FoundIsArtifact ==
  ASSUME FixtureCaptureAssumption, NEW n \in 1..MaxCaptures, NEW x \in CommandSuffixes
  PROVE  [by |-> n, kind |-> Finds[n][x]] \in Artifact
<1>1. Finds \in Seq([CommandSuffixes -> Kinds])
  BY DEF FixtureCaptureAssumption
<1>2. Finds[n] \in [CommandSuffixes -> Kinds]
  BY <1>1, ElementOfSeq DEF MaxCaptures
<1>3. Finds[n][x] \in Kinds /\ n \in 0..MaxCaptures
  BY <1>2, Limit
<1> QED
  BY <1>3 DEF Artifact

-----------------------------------------------------------------------------
(* One lemma per action: it preserves the invariant.                       *)

\* A script is under way or idle, and knows where it is.
LEMMA Where ==
  ASSUME Types, NEW s \in Scripts
  PROVE  /\ At(s, "idle") <=> script[s] = Idle
         /\ ~At(s, "idle") <=> script[s] \in Local
         /\ \A where \in {"capture", "build", "open", "write"} : At(s, where) => ~At(s, "idle")
  BY DEF Types, At, Idle, Local

LEMMA InitHolds == ASSUME FixtureCaptureAssumption, CaptureInit PROVE FInv
<1>1. Running = {}
  BY DEF CaptureInit, Running, At, Idle
<1>2. \A x \in CommandSuffixes : Before(x) \in Artifact
  BY Limit DEF Before, Artifact, Kinds
<1>3. Types
  <2>1. [x \in CommandSuffixes |-> Before(x)] \in [CommandSuffixes -> Artifact]
    BY <1>2
  <2>2. fixture \in FixtureFile
    BY <2>1 DEF CaptureInit, FixtureFile
  <2>3. artifacts \in [RunDirs -> [CommandSuffixes -> Artifact \cup {NoArtifact}]]
    <3>1. [x \in CommandSuffixes |-> Before(x)] \in [CommandSuffixes -> Artifact \cup {NoArtifact}]
      BY <1>2
    <3>2. [x \in CommandSuffixes |-> NoArtifact] \in [CommandSuffixes -> Artifact \cup {NoArtifact}]
      OBVIOUS
    <3>3. PICK S \in SUBSET [CommandSuffixes -> Artifact \cup {NoArtifact}] : artifacts \in [RunDirs -> S]
      BY <3>1, <3>2 DEF CaptureInit
    <3> QED
      BY <3>3
  <2>4. captures \in 0..MaxCaptures
    BY Limit DEF CaptureInit
  <2>5. script \in [Scripts -> Local \cup {Idle}]
    BY DEF CaptureInit
  <2>6. died \in BOOLEAN /\ overlapped \in BOOLEAN
    BY DEF CaptureInit
  <2> QED
    BY <1>1, <2>2, <2>3, <2>4, <2>5, <2>6 DEF Types
<1>4. \A s \in Scripts : ~At(s, "write")
  BY DEF CaptureInit, At, Idle
<1>5. Readable(fixture)
  BY DEF CaptureInit, Readable, File, Whole
<1> QED
  BY <1>1, <1>3, <1>4, <1>5 DEF FInv, Reading, OwnCaptures, Overlaps, UnreadableHasCause

\* A step of one script that leaves the others as they are, in a form from
\* which its parts follow.
LEMMA Others ==
  ASSUME Types, NEW s \in Scripts, NEW local, Becomes(s, local)
  PROVE  /\ script'[s] = local
         /\ \A t \in Scripts \ {s} : script'[t] = script[t]
         /\ \A t \in Scripts \ {s} : t \in Running' <=> t \in Running
         /\ s \in Running' <=> local.step # "idle"
  BY DEF Types, Becomes, Running, At

\* What another script does with its own memory does not change what is known
\* of this one, as long as the artifacts stay.
LEMMA Unmoved ==
  ASSUME Reading, OwnCaptures, NEW t \in Running, script'[t] = script[t], UNCHANGED artifacts
  PROVE  /\ DOMAIN script'[t].built = ReadBack(script'[t])
         /\ (script'[t].live /\ ~script'[t].shared) => OwnCapture(t)'
<1>1. DOMAIN script'[t].built = ReadBack(script'[t])
  BY DEF Reading
<1>2. OwnCapture(t) => OwnCapture(t)'
  BY DEF OwnCapture
<1> QED
  BY <1>1, <1>2 DEF OwnCaptures

\* The script ends: everything it had is gone.
LEMMA EndHolds ==
  ASSUME FixtureCaptureAssumption, FInv, NEW s \in Scripts, Ends(s),
         UNCHANGED <<artifacts, fixture, captures, overlapped>>,
         died' = (died \/ At(s, "write"))
  PROVE  FInv'
<1>1. script'[s] = Idle /\ s \notin Running'
  BY Others DEF FInv, Ends, Idle
<1>2. \A t \in Running' : t \in Running /\ t # s /\ script'[t] = script[t]
  BY <1>1, Others DEF FInv, Ends, Running
<1>3. Types'
  BY <1>1, <1>2, Others DEF FInv, Types, Ends, Becomes
<1>4. Reading' /\ OwnCaptures'
  BY <1>2, Unmoved DEF FInv, Reading, OwnCaptures
<1>5. \A t \in Scripts : At(t, "write")' <=> (t # s /\ At(t, "write"))
  BY <1>1, Others DEF FInv, Ends, At, Idle
<1>6. Overlaps' /\ UnreadableHasCause'
  BY <1>5 DEF FInv, Types, Overlaps, UnreadableHasCause, Readable
<1> QED
  BY <1>3, <1>4, <1>6 DEF FInv

LEMMA KillHolds == ASSUME FixtureCaptureAssumption, FInv, NEW s \in Scripts, Kill(s) PROVE FInv'
  BY EndHolds DEF Kill

LEMMA LoadFailsHolds == ASSUME FixtureCaptureAssumption, FInv, NEW s \in Scripts, LoadFails(s) PROVE FInv'
<1>1. died' = (died \/ At(s, "write"))
  BY DEF LoadFails, At, FInv, Types
<1> QED
  BY <1>1, EndHolds DEF LoadFails

LEMMA StartHolds ==
  ASSUME FixtureCaptureAssumption, FInv, NEW s \in Scripts, NEW r \in RunDirs,
         NEW isLive \in BOOLEAN, StartScript(s, r, isLive)
  PROVE  FInv'
<1> DEFINE local == Started(captures', r, isLive)
<1>1. captures' = captures + 1 /\ captures' \in 1..MaxCaptures
  BY Limit DEF FInv, Types, StartScript
<1>2. NoTables \in Partly /\ DOMAIN NoTables = {}
  <2>1. DOMAIN NoTables = {} /\ NoTables = [x \in {} |-> 0]
    BY DEF NoTables
  <2>2. NoTables \in [{} -> Artifact]
    BY <2>1
  <2> QED
    BY <2>1, <2>2 DEF Partly
<1>3. local \in Local /\ local.step # "idle"
  BY <1>1, <1>2, Commands DEF Started, Local
<1>4. /\ script'[s] = local /\ s \in Running'
      /\ \A t \in Running' \ {s} : t \in Running /\ script'[t] = script[t]
  BY <1>3, Others DEF FInv, StartScript, Running
<1>5. \A t \in Running' : script'[t].nr \in 1..captures'
  <2>1. local.nr = captures'
    BY DEF Started
  <2>2. ASSUME NEW t \in Running', t # s  PROVE script'[t].nr \in 1..captures'
    <3>1. captures \in Nat /\ script[t].nr \in 1..captures
      BY <1>4, <2>2, Limit DEF FInv, Types
    <3> QED
      BY <1>1, <1>4, <2>2, <3>1
  <2> QED
    BY <1>1, <1>4, <2>1, <2>2
<1>6. Types'
  <2>1. script' \in [Scripts -> Local \cup {Idle}]
    BY <1>3 DEF FInv, Types, StartScript, Becomes
  <2>2. captures' \in 0..MaxCaptures
    BY <1>1
  <2> QED
    BY <1>5, <2>1, <2>2 DEF FInv, Types, StartScript
<1>7. Reading' /\ OwnCaptures'
  <2>1. ASSUME NEW t \in Running', t # s
        PROVE  /\ DOMAIN script'[t].built = ReadBack(script'[t])
               /\ (script'[t].live /\ ~script'[t].shared) => OwnCapture(t)'
    BY <1>4, <2>1, Unmoved DEF FInv, StartScript
  <2>2. DOMAIN local.built = {}
    BY <1>2 DEF Started
  <2>3. local.live => local.step = "capture" /\ local.at = 1
    BY DEF Started
  <2>4. ReadBack(local) = {}
    BY DEF ReadBack, Started
  <2>5. local.live => OwnCapture(s)'
    BY <1>4, <2>2, <2>3 DEF OwnCapture
  <2> QED
    BY <1>4, <2>1, <2>2, <2>4, <2>5 DEF Reading, OwnCaptures
<1>8. \A t \in Scripts : At(t, "write")' <=> At(t, "write")
  BY <1>4, Others DEF FInv, StartScript, At, Started
<1>9. Overlaps' /\ UnreadableHasCause'
  BY <1>8 DEF FInv, Overlaps, UnreadableHasCause, StartScript, Readable
<1> QED
  BY <1>6, <1>7, <1>9 DEF FInv

\* It opens the file: nobody can read it now, but it is there to blame.
LEMMA OpenHolds == ASSUME FixtureCaptureAssumption, FInv, NEW s \in Scripts, Open(s) PROVE FInv'
<1> DEFINE local == [script[s] EXCEPT !.step = "write"]
<1>1. script[s] \in Local /\ script[s].step = "open" /\ s \in Running
  BY Where DEF FInv, Open, At, Running
<1>2. /\ local \in Local /\ local.step = "write"
      /\ local.nr = script[s].nr /\ local.built = script[s].built /\ local.dir = script[s].dir
      /\ local.live = script[s].live /\ local.shared = script[s].shared
  BY <1>1 DEF Local
<1>3. /\ script'[s] = local
      /\ \A t \in Running' \ {s} : t \in Running /\ script'[t] = script[t]
  BY <1>2, Others DEF FInv, Open, Running
<1>4. Types'
  <2>1. \A t \in Running' : script'[t].nr \in 1..captures
    BY <1>1, <1>2, <1>3 DEF FInv, Types
  <2>2. script' \in [Scripts -> Local \cup {Idle}]
    BY <1>2 DEF FInv, Types, Open, Becomes
  <2>3. fixture' \in FixtureFile /\ overlapped' \in BOOLEAN
    BY DEF FInv, Types, Open, FixtureFile
  <2> QED
    BY <2>1, <2>2, <2>3 DEF FInv, Types, Open
<1>5. Reading' /\ OwnCaptures'
  <2>1. ReadBack(local) = ReadBack(script[s])
    BY <1>1, <1>2 DEF ReadBack
  <2>2. OwnCapture(s) => OwnCapture(s)'
    BY <1>1, <1>2, <1>3 DEF OwnCapture, Open
  <2>3. /\ DOMAIN script'[s].built = ReadBack(script'[s])
        /\ (script'[s].live /\ ~script'[s].shared) => OwnCapture(s)'
    BY <1>1, <1>2, <1>3, <2>1, <2>2 DEF FInv, Reading, OwnCaptures
  <2>4. ASSUME NEW t \in Running', t # s
        PROVE  /\ DOMAIN script'[t].built = ReadBack(script'[t])
               /\ (script'[t].live /\ ~script'[t].shared) => OwnCapture(t)'
    BY <1>3, <2>4, Unmoved DEF FInv, Open
  <2> QED
    BY <2>3, <2>4 DEF Reading, OwnCaptures
<1>6. /\ At(s, "write")'
      /\ \A t \in Scripts \ {s} : At(t, "write")' <=> At(t, "write")
  BY <1>2, <1>3, Others DEF FInv, Open, At
<1>7. overlapped' <=> (overlapped \/ \E t \in Scripts : At(t, "write"))
  BY DEF Open
<1>8. fixture'.state = "blank"
  BY DEF Open, File
<1>9. Overlaps' /\ UnreadableHasCause'
  BY <1>6, <1>7, <1>8 DEF FInv, Overlaps, UnreadableHasCause
<1> QED
  BY <1>4, <1>5, <1>9 DEF FInv

\* It writes: the file is whole, unless somebody wrote into it meanwhile.
LEMMA WriteHolds == ASSUME FixtureCaptureAssumption, FInv, NEW s \in Scripts, Write(s) PROVE FInv'
<1>1. script[s] \in Local /\ script[s].step = "write" /\ s \in Running
  BY Where DEF FInv, Write, At, Running
<1>2. script'[s] = Idle /\ s \notin Running'
  BY Others DEF FInv, Write, Ends, Idle
<1>3. \A t \in Running' : t \in Running /\ t # s /\ script'[t] = script[t]
  BY <1>2, Others DEF FInv, Write, Ends, Running
<1>4. script[s].built \in [CommandSuffixes -> Artifact]
  <2>1. DOMAIN script[s].built = CommandSuffixes
    BY <1>1 DEF FInv, Reading, ReadBack
  <2>2. PICK done \in SUBSET CommandSuffixes : script[s].built \in [done -> Artifact]
    BY <1>1 DEF Local, Partly
  <2> QED
    BY <2>1, <2>2
<1>5. Types'
  <2>1. fixture' \in FixtureFile
    BY <1>4 DEF Write, FixtureFile
  <2>2. script' \in [Scripts -> Local \cup {Idle}]
    BY DEF FInv, Types, Write, Ends, Becomes
  <2>3. \A t \in Running' : script'[t].nr \in 1..captures
    BY <1>3 DEF FInv, Types
  <2> QED
    BY <2>1, <2>2, <2>3 DEF FInv, Types, Write
<1>6. Reading' /\ OwnCaptures'
  BY <1>3, Unmoved DEF FInv, Write, Reading, OwnCaptures
<1>7. \A t \in Scripts : At(t, "write")' <=> (t # s /\ At(t, "write"))
  BY <1>2, Others DEF FInv, Write, Ends, At, Idle
<1>8. Overlaps'
  BY <1>7 DEF FInv, Overlaps, Write
<1>9. UnreadableHasCause'
  <2>1. CASE fixture' = Whole(script[s].built)
    BY <2>1 DEF UnreadableHasCause, Readable, Whole
  <2>2. CASE fixture.state # "blank"
    BY <2>2 DEF FInv, Overlaps, UnreadableHasCause, Write
  <2> QED
    BY <2>1, <2>2 DEF Write
<1> QED
  BY <1>5, <1>6, <1>8, <1>9 DEF FInv

\* It reads one more artifact, of its own capture if its directory is its own.
LEMMA LoadHolds ==
  ASSUME FixtureCaptureAssumption, FInv, NEW s \in Scripts, LoadArtifact(s)
  PROVE  FInv'
<1> DEFINE last == script[s].at = Len(BuildOrder)
           built == [y \in DOMAIN script[s].built \cup {Wanted(s)} |->
                       IF y = Wanted(s) THEN Offered(s) ELSE script[s].built[y]]
           local == script'[s]
<1>1. script[s] \in Local /\ script[s].step = "build" /\ s \in Running
  BY Where DEF FInv, LoadArtifact, At, Running
<1>2. script[s].at \in 1..Len(COMMANDS) /\ Wanted(s) \in CommandSuffixes
  BY <1>1, Commands DEF Local, Wanted
<1>3. Offered(s) \in Artifact
  <2>1. script[s].dir \in RunDirs
    BY <1>1 DEF Local
  <2>2. Offered(s) \in Artifact \cup {NoArtifact} /\ Offered(s) # NoArtifact
    BY <1>2, <2>1 DEF FInv, Types, Offered, LoadArtifact, Loads
  <2> QED
    BY <2>2
<1>4. /\ DOMAIN built = {BuildOrder[i] : i \in 1..script[s].at}
      /\ \A x \in DOMAIN built : built[x] = IF x = Wanted(s) THEN Offered(s) ELSE script[s].built[x]
  <2>1. DOMAIN script[s].built = {BuildOrder[i] : i \in 1..script[s].at - 1}
    BY <1>1 DEF FInv, Reading, ReadBack
  <2>2. 1..script[s].at = (1..script[s].at - 1) \cup {script[s].at}
    BY <1>2, Commands
  <2> QED
    BY <2>1, <2>2 DEF Wanted
<1>5. built \in Partly
  <2>1. PICK done \in SUBSET CommandSuffixes : script[s].built \in [done -> Artifact]
    BY <1>1 DEF Local, Partly
  <2>2. built \in [done \cup {Wanted(s)} -> Artifact]
    BY <1>3, <2>1
  <2> QED
    <3>1. done \cup {Wanted(s)} \in SUBSET CommandSuffixes
      BY <1>2, <2>1
    <3> QED
      BY <2>2, <3>1 DEF Partly
<1>6. /\ local = [script[s] EXCEPT !.built = built, !.at = IF last THEN 1 ELSE @ + 1,
                                   !.step = IF last THEN "open" ELSE @]
      /\ \A t \in Running' \ {s} : t \in Running /\ script'[t] = script[t]
  BY Others DEF FInv, LoadArtifact, Running
<1>7. /\ local.built = built
      /\ local.nr = script[s].nr /\ local.dir = script[s].dir
      /\ local.live = script[s].live /\ local.shared = script[s].shared
      /\ ~last => local.step = "build" /\ local.at = script[s].at + 1
      /\ last => local.step = "open" /\ local.at = 1
  BY <1>1, <1>6 DEF Local
<1>8. local \in Local
  <2>1. (IF last THEN 1 ELSE script[s].at + 1) \in DOMAIN COMMANDS
    <3>1. /\ script[s].at \in Nat /\ script[s].at >= 1 /\ script[s].at <= Len(COMMANDS)
          /\ Len(COMMANDS) \in Nat
      BY <1>2, Commands
    <3>2. (IF last THEN 1 ELSE script[s].at + 1) \in 1..Len(COMMANDS)
      BY <3>1, Commands
    <3> QED
      BY <3>2, Commands
  <2> QED
    BY <1>1, <1>5, <1>6, <2>1 DEF Local
<1>9. Types'
  <2>1. script' \in [Scripts -> Local \cup {Idle}]
    BY <1>8 DEF FInv, Types, LoadArtifact, Becomes
  <2>2. \A t \in Running' : script'[t].nr \in 1..captures
    BY <1>1, <1>6, <1>7 DEF FInv, Types
  <2> QED
    BY <2>1, <2>2 DEF FInv, Types, LoadArtifact
<1>10. DOMAIN local.built = ReadBack(local)
  <2>1. CASE last
    BY <1>4, <1>7, <2>1, Commands DEF ReadBack
  <2>2. CASE ~last
    <3>1. local.at - 1 = script[s].at
      <4>1. script[s].at \in Nat
        BY <1>2, Commands
      <4>2. local.at = script[s].at + 1
        BY <1>7, <2>2
      <4> QED
        BY <4>1, <4>2
    <3> QED
      BY <1>4, <1>7, <2>2, <3>1 DEF ReadBack
  <2> QED
    BY <2>1, <2>2
<1>11. (local.live /\ ~local.shared) => OwnCapture(s)'
  <2>1. OwnCapture(s) => \A x \in DOMAIN built : built[x].by = script[s].nr
    BY <1>1, <1>2, <1>4 DEF OwnCapture, Offered
  <2>2. OwnCapture(s) => OwnCapture(s)'
    BY <1>1, <1>7, <2>1 DEF OwnCapture, LoadArtifact
  <2> QED
    BY <1>1, <1>7, <2>2 DEF FInv, OwnCaptures
<1>12. Reading' /\ OwnCaptures'
  <2>1. ASSUME NEW t \in Running', t # s
        PROVE  /\ DOMAIN script'[t].built = ReadBack(script'[t])
               /\ (script'[t].live /\ ~script'[t].shared) => OwnCapture(t)'
    BY <1>6, <2>1, Unmoved DEF FInv, LoadArtifact
  <2> QED
    BY <1>10, <1>11, <2>1 DEF Reading, OwnCaptures
<1>13. \A t \in Scripts : At(t, "write")' <=> At(t, "write")
  BY <1>1, <1>7, Others DEF FInv, LoadArtifact, At
<1>14. Overlaps' /\ UnreadableHasCause'
  BY <1>13 DEF FInv, Overlaps, UnreadableHasCause, LoadArtifact, Readable
<1> QED
  BY <1>9, <1>12, <1>14 DEF FInv

\* A playbook has written an artifact, and the script goes on or ends.  Whoever
\* else captures into that directory is on its own from here.
LEMMA WriteArtifactHolds ==
  ASSUME FixtureCaptureAssumption, FInv, NEW s \in Scripts, At(s, "capture"), NEW local,
         local \in {Idle, NextCommand(s)}, WriteArtifact(s), script' = WroteBeside(s, local),
         UNCHANGED <<fixture, captures, died, overlapped>>
  PROVE  FInv'
<1> DEFINE x == COMMANDS[script[s].at]
           written == [by |-> script[s].nr, kind |-> Finds[script[s].nr][x]]
           more == script[s].at < Len(COMMANDS)
<1>1. script[s] \in Local /\ script[s].step = "capture" /\ s \in Running
  BY Where DEF FInv, At, Running
<1>2. /\ Len(COMMANDS) \in Nat /\ script[s].at \in Nat
      /\ script[s].at >= 1 /\ script[s].at <= Len(COMMANDS)
      /\ x \in CommandSuffixes
  BY <1>1, Commands DEF Local
<1>3. written \in Artifact
  BY <1>1, <1>2, FoundIsArtifact DEF Local
<1>4. artifacts' = [artifacts EXCEPT ![script[s].dir][x] = written]
  BY DEF WriteArtifact
<1>5. /\ script[s].dir \in RunDirs
      /\ artifacts' \in [RunDirs -> [CommandSuffixes -> Artifact \cup {NoArtifact}]]
      /\ artifacts'[script[s].dir][x] = written
      /\ \A y \in CommandSuffixes \ {x} :
           artifacts'[script[s].dir][y] = artifacts[script[s].dir][y]
      /\ \A r \in RunDirs \ {script[s].dir} : artifacts'[r] = artifacts[r]
  <2>1. script[s].dir \in RunDirs
    BY <1>1 DEF Local
  <2>2. artifacts \in [RunDirs -> [CommandSuffixes -> Artifact \cup {NoArtifact}]]
    BY DEF FInv, Types
  <2>3. written \in Artifact \cup {NoArtifact}
    BY <1>3
  <2> QED
    BY <1>2, <1>4, <2>1, <2>2, <2>3
<1>6. /\ script'[s] = local
      /\ \A t \in Beside(s) : script'[t] = [script[t] EXCEPT !.shared = TRUE]
      /\ \A t \in Scripts : (t # s /\ t \notin Beside(s)) => script'[t] = script[t]
  <2>1. s \notin Beside(s) /\ Beside(s) \subseteq Scripts
    BY DEF Beside, Running
  <2>2. script' = [t \in Scripts |-> IF t = s THEN local
                                     ELSE IF t \in Beside(s) THEN [script[t] EXCEPT !.shared = TRUE]
                                     ELSE script[t]]
    BY <2>1 DEF WroteBeside
  <2> QED
    BY <2>1, <2>2
<1>7. local = NextCommand(s) =>
        /\ local \in Local /\ local.step # "write"
        /\ local.nr = script[s].nr /\ local.built = script[s].built /\ local.dir = script[s].dir
        /\ local.live = script[s].live /\ local.shared = script[s].shared
        /\ more => local.step = "capture" /\ local.at = script[s].at + 1
        /\ ~more => local.step = "build" /\ local.at = 1
  <2>1. CASE more
    <3>1. script[s].at + 1 \in DOMAIN COMMANDS
      <4>1. script[s].at + 1 \in 1..Len(COMMANDS)
        BY <1>2, <2>1
      <4> QED
        BY <4>1, Commands
    <3> QED
      BY <1>1, <2>1, <3>1 DEF NextCommand, Local
  <2>2. CASE ~more
    <3>1. 1 \in DOMAIN COMMANDS
      BY <1>2, Commands
    <3> QED
      BY <1>1, <2>2, <3>1 DEF NextCommand, Local
  <2> QED
    BY <2>1, <2>2
<1>8. \A t \in Beside(s) :
        /\ t \in Running /\ t # s /\ script'[t] \in Local
        /\ script'[t].step = script[t].step /\ script'[t].at = script[t].at
        /\ script'[t].nr = script[t].nr /\ script'[t].built = script[t].built
        /\ script'[t].shared
  <2>1. \A t \in Beside(s) : t \in Running /\ t # s /\ script[t] \in Local
    BY Where DEF FInv, Beside, Running
  <2>2. ASSUME NEW t \in Beside(s), NEW mine, mine = [script[t] EXCEPT !.shared = TRUE]
        PROVE  /\ mine \in Local /\ mine.step = script[t].step /\ mine.at = script[t].at
               /\ mine.nr = script[t].nr /\ mine.built = script[t].built /\ mine.shared
    <3>1. script[t] \in Local
      BY <2>1
    <3> QED
      BY <2>2, <3>1 DEF Local
  <2> QED
    BY <1>6, <2>1, <2>2
<1>9. \A t \in Running' \ {s} : t \in Running
  BY <1>6, <1>8 DEF Running, At
<1>10. s \in Running' => local = NextCommand(s)
  BY <1>6 DEF Running, At, Idle
<1>11. Types'
  <2>1. \A t \in Scripts : script'[t] \in Local \cup {Idle}
    <3>1. \A t \in Scripts : script[t] \in Local \cup {Idle}
      BY DEF FInv, Types
    <3>2. script'[s] \in Local \cup {Idle}
      BY <1>6, <1>7
    <3> QED
      BY <1>6, <1>8, <3>1, <3>2
  <2>2. script' \in [Scripts -> Local \cup {Idle}]
    <3>1. script' = [t \in Scripts |-> script'[t]]
      BY DEF WroteBeside
    <3> QED
      BY <2>1, <3>1
  <2>3. \A t \in Running' : script'[t].nr \in 1..captures
    <3>1. \A t \in Running : script[t].nr \in 1..captures
      BY DEF FInv, Types
    <3>2. s \in Running' => script'[s].nr \in 1..captures
      BY <1>1, <1>6, <1>7, <1>10, <3>1
    <3>3. ASSUME NEW t \in Running', t # s  PROVE script'[t].nr \in 1..captures
      <4>1. t \in Running /\ t \in Scripts /\ script'[t].nr = script[t].nr
        BY <1>6, <1>8, <1>9, <3>3 DEF Running
      <4> QED
        BY <3>1, <4>1
    <3> QED
      BY <3>2, <3>3
  <2> QED
    BY <1>5, <2>2, <2>3 DEF FInv, Types
<1>12. DOMAIN script[s].built = {}
  BY <1>1 DEF FInv, Reading, ReadBack
<1>13. Reading'
  <2>1. \A t \in Beside(s) : ReadBack(script'[t]) = ReadBack(script[t])
    BY <1>8 DEF ReadBack
  <2>2. local = NextCommand(s) => ReadBack(local) = {}
    <3>1. ASSUME local = NextCommand(s)
          PROVE  local.step = "capture" \/ (local.step = "build" /\ local.at = 1)
      BY <1>7, <3>1
    <3>2. {BuildOrder[i] : i \in 1..1 - 1} = {}
      OBVIOUS
    <3> QED
      BY <3>1, <3>2 DEF ReadBack
  <2>3. ASSUME NEW t \in Running', t # s
        PROVE  DOMAIN script'[t].built = ReadBack(script'[t])
    <3>1. t \in Running /\ t \in Scripts /\ DOMAIN script[t].built = ReadBack(script[t])
      BY <1>9, <2>3 DEF FInv, Reading, Running
    <3>2. CASE t \in Beside(s)
      BY <1>8, <2>1, <3>1, <3>2
    <3>3. CASE t \notin Beside(s)
      BY <1>6, <2>3, <3>1, <3>3
    <3> QED
      BY <3>2, <3>3
  <2> QED
    BY <1>6, <1>7, <1>10, <1>12, <2>2, <2>3 DEF Reading
<1>14. OwnCaptures'
  <2>1. ASSUME NEW t \in Running', t # s, script'[t].live /\ ~script'[t].shared
        PROVE  OwnCapture(t)'
    <3>1. t \notin Beside(s) /\ script'[t] = script[t] /\ t \in Running
      <4>1. t \in Running /\ t \in Scripts
        BY <1>9, <2>1 DEF Running
      <4>2. t \notin Beside(s)
        BY <1>8, <2>1
      <4> QED
        BY <1>6, <2>1, <4>1, <4>2
    <3>2. script[t].dir \in RunDirs \ {script[s].dir}
      BY <2>1, <3>1, Where DEF FInv, Beside, Local, Running
    <3>3. artifacts'[script[t].dir] = artifacts[script[t].dir]
      BY <1>5, <3>2
    <3>4. OwnCapture(t)
      BY <2>1, <3>1 DEF FInv, OwnCaptures
    <3> QED
      BY <3>1, <3>3, <3>4 DEF OwnCapture
  <2>2. ASSUME s \in Running', local.live /\ ~local.shared
        PROVE  OwnCapture(s)'
    <3>1. OwnCapture(s) /\ local = NextCommand(s)
      BY <1>1, <1>7, <1>10, <2>2 DEF FInv, OwnCaptures
    <3>2. ASSUME NEW i \in 1..script[s].at
          PROVE  artifacts'[script[s].dir][COMMANDS[i]].by = script[s].nr
      <4>1. CASE COMMANDS[i] = x
        BY <1>5, <4>1
      <4>2. CASE COMMANDS[i] # x
        <5>1. i \in 1..script[s].at - 1 /\ COMMANDS[i] \in CommandSuffixes
          <6>1. i # script[s].at
            BY <4>2
          <6>2. i \in 1..script[s].at - 1 /\ i \in 1..Len(COMMANDS)
            BY <1>2, <6>1
          <6> QED
            BY <6>2, Commands
        <5>2. artifacts[script[s].dir][COMMANDS[i]].by = script[s].nr
          BY <1>1, <3>1, <5>1 DEF OwnCapture
        <5> QED
          BY <1>5, <4>2, <5>1, <5>2
      <4> QED
        BY <4>1, <4>2
    <3>3. CASE more
      <4>1. local.step = "capture" /\ local.at - 1 = script[s].at
        BY <1>2, <1>7, <3>1, <3>3
      <4> QED
        BY <1>6, <1>7, <1>12, <3>1, <3>2, <4>1 DEF OwnCapture
    <3>4. CASE ~more
      <4>1. script[s].at = Len(COMMANDS)
        BY <1>2, <3>4
      <4>2. \A y \in CommandSuffixes : \E i \in 1..script[s].at : y = COMMANDS[i]
        BY <4>1, Commands DEF CommandSuffixes
      <4>3. \A y \in CommandSuffixes : artifacts'[script[s].dir][y].by = script[s].nr
        BY <3>2, <4>2
      <4> QED
        <5>1. /\ local.step = "build" /\ local.nr = script[s].nr
              /\ local.dir = script[s].dir /\ DOMAIN local.built = {}
          BY <1>7, <1>12, <3>1, <3>4
        <5> QED
          <6>1. /\ script'[s].step = "build" /\ script'[s].nr = script[s].nr
                /\ script'[s].dir = script[s].dir /\ DOMAIN script'[s].built = {}
            BY <1>6, <5>1
          <6>2. \A y \in DOMAIN script'[s].built : FALSE
            BY <6>1
          <6>3. \A y \in CommandSuffixes : artifacts'[script'[s].dir][y].by = script'[s].nr
            BY <4>3, <6>1
          <6> QED
            BY <6>1, <6>2, <6>3 DEF OwnCapture
    <3> QED
      BY <3>3, <3>4
  <2> QED
    BY <1>6, <2>1, <2>2 DEF OwnCaptures
<1>15. \A t \in Scripts : At(t, "write")' <=> At(t, "write")
  <2>1. ~At(s, "write") /\ ~At(s, "write")'
    BY <1>1, <1>6, <1>7 DEF At, Idle
  <2>2. \A t \in Scripts \ {s} : At(t, "write")' <=> At(t, "write")
    BY <1>6, <1>8 DEF At
  <2> QED
    BY <2>1, <2>2
<1>16. Overlaps' /\ UnreadableHasCause'
  BY <1>15 DEF FInv, Overlaps, UnreadableHasCause, Readable
<1> QED
  BY <1>11, <1>13, <1>14, <1>16 DEF FInv

LEMMA CaptureHolds ==
  ASSUME FixtureCaptureAssumption, FInv, NEW s \in Scripts, Capture(s)
  PROVE  FInv'
  BY WriteArtifactHolds DEF Capture

LEMMA CaptureFailsHolds ==
  ASSUME FixtureCaptureAssumption, FInv, NEW s \in Scripts, CaptureFails(s)
  PROVE  FInv'
<1>1. CASE Ends(s) /\ UNCHANGED artifacts
  <2>1. died' = (died \/ At(s, "write"))
    BY DEF CaptureFails, At, FInv, Types
  <2> QED
    BY <1>1, <2>1, EndHolds DEF CaptureFails
<1>2. CASE WriteArtifact(s) /\ script' = WroteBeside(s, Idle)
  BY <1>2, WriteArtifactHolds DEF CaptureFails
<1> QED
  BY <1>1, <1>2 DEF CaptureFails

LEMMA StutterHolds == ASSUME FInv, UNCHANGED captureVars PROVE FInv'
<1>1. Types'
  BY DEF FInv, captureVars, Types, Running, At
<1>2. Reading' /\ OwnCaptures'
  <2>1. Running' = Running
    BY DEF captureVars, Running, At
  <2> QED
    BY <2>1, Unmoved DEF FInv, captureVars, Reading, OwnCaptures
<1>3. Overlaps' /\ UnreadableHasCause'
  BY DEF FInv, captureVars, Overlaps, UnreadableHasCause, At, Readable
<1> QED
  BY <1>1, <1>2, <1>3 DEF FInv

-----------------------------------------------------------------------------
(* The theorems.                                                           *)

\* Whatever fails, and whenever a script is killed, the invariant stands.
LEMMA Invariant == ASSUME FixtureCaptureAssumption PROVE CaptureSpec => []FInv
<1>1. CaptureInit => FInv
  BY InitHolds
<1>2. FInv /\ [CaptureNext]_captureVars => FInv'
  <2> SUFFICES ASSUME FInv, [CaptureNext]_captureVars  PROVE FInv'
    OBVIOUS
  <2>1. ASSUME NEW s \in Scripts, NEW r \in RunDirs, NEW isLive \in BOOLEAN,
               StartScript(s, r, isLive)
        PROVE  FInv'
    BY <2>1, StartHolds
  <2>2. ASSUME NEW s \in Scripts, Capture(s)  PROVE FInv'
    BY <2>2, CaptureHolds
  <2>3. ASSUME NEW s \in Scripts, CaptureFails(s)  PROVE FInv'
    BY <2>3, CaptureFailsHolds
  <2>4. ASSUME NEW s \in Scripts, LoadArtifact(s)  PROVE FInv'
    BY <2>4, LoadHolds
  <2>5. ASSUME NEW s \in Scripts, LoadFails(s)  PROVE FInv'
    BY <2>5, LoadFailsHolds
  <2>6. ASSUME NEW s \in Scripts, Open(s)  PROVE FInv'
    BY <2>6, OpenHolds
  <2>7. ASSUME NEW s \in Scripts, Write(s)  PROVE FInv'
    BY <2>7, WriteHolds
  <2>8. ASSUME NEW s \in Scripts, Kill(s)  PROVE FInv'
    BY <2>8, KillHolds
  <2>9. CASE UNCHANGED captureVars
    BY <2>9, StutterHolds
  <2> QED
    BY <2>1, <2>2, <2>3, <2>4, <2>5, <2>6, <2>7, <2>8, <2>9 DEF CaptureNext
<1> QED
  BY <1>1, <1>2, PTL DEF CaptureSpec

\* Every script has its own number, directory and tables, and the file is one
\* of a fixture: missing, blank, spoilt, or whole with every table.
THEOREM CaptureTypeCorrect == ASSUME FixtureCaptureAssumption PROVE CaptureSpec => []CaptureTypeOK
<1>1. FInv => CaptureTypeOK
  <2> SUFFICES ASSUME FInv PROVE CaptureTypeOK
    OBVIOUS
  <2>1. /\ fixture.state \in {"missing", "blank", "spoilt", "whole"}
        /\ fixture.state = "whole" => fixture.tables \in [CommandSuffixes -> Artifact]
    <3>1. CASE \E state \in {"missing", "blank", "spoilt"} : fixture = File(state)
      BY <3>1 DEF File
    <3>2. CASE \E tables \in [CommandSuffixes -> Artifact] : fixture = Whole(tables)
      BY <3>2 DEF Whole
    <3> QED
      BY <3>1, <3>2 DEF FInv, Types, FixtureFile
  <2>2. ASSUME NEW s \in Running
        PROVE  /\ script[s].step \in {"capture", "build", "open", "write"}
               /\ script[s].nr \in 1..captures /\ script[s].dir \in RunDirs
               /\ script[s].live \in BOOLEAN /\ script[s].shared \in BOOLEAN
               /\ script[s].at \in DOMAIN COMMANDS
               /\ \E done \in Tables(script[s].step) : script[s].built \in [done -> Artifact]
    <3>1. script[s] \in Local /\ script[s].nr \in 1..captures
      BY Where DEF FInv, Types, Running
    <3>2. PICK done \in SUBSET CommandSuffixes : script[s].built \in [done -> Artifact]
      BY <3>1 DEF Local, Partly
    <3>3. script[s].step \in {"open", "write"} => done = CommandSuffixes
      BY <3>2 DEF FInv, Reading, ReadBack
    <3>4. done \in Tables(script[s].step)
      BY <3>2, <3>3 DEF Tables
    <3> QED
      BY <3>1, <3>2, <3>4 DEF Local
  <2> QED
    BY <2>1, <2>2 DEF FInv, Types, CaptureTypeOK
<1> QED
  BY <1>1, Invariant, PTL

\* What --capture-live publishes is its own capture, every table of it, for any
\* number of scripts beside it that do not capture into its directory: nothing
\* an earlier or a failed capture left there gets into the fixture.
THEOREM OneCapture == ASSUME FixtureCaptureAssumption PROVE CaptureSpec => []LiveBuildIsOneCapture
<1>1. FInv => LiveBuildIsOneCapture
  <2> SUFFICES ASSUME FInv, NEW s \in Running, script[s].step \in {"open", "write"},
                      script[s].live, ~script[s].shared, NEW x \in CommandSuffixes
               PROVE  script[s].built[x].by = script[s].nr
    BY DEF LiveBuildIsOneCapture
  <2>1. DOMAIN script[s].built = CommandSuffixes
    BY DEF FInv, Reading, ReadBack
  <2>2. OwnCapture(s)
    BY DEF FInv, OwnCaptures
  <2> QED
    BY <2>1, <2>2 DEF OwnCapture
<1> QED
  BY <1>1, Invariant, PTL

\* A fixture that cannot be read is being written, or a script was killed at it,
\* or two had it open at once: no failure of a capture or of a build spoils it.
THEOREM CauseOfUnreadable == ASSUME FixtureCaptureAssumption PROVE CaptureSpec => []UnreadableHasCause
<1>1. FInv => UnreadableHasCause
  BY DEF FInv
<1> QED
  BY <1>1, Invariant, PTL

===============================================================================
