--------------------------- MODULE FixtureCapture ---------------------------
(***************************************************************************)
(* scripts/refresh_routeros_fixture.py for one device: a script captures   *)
(* the output of each command into a run directory, one ansible-playbook    *)
(* after the other, or takes a directory captured before; builds the        *)
(* fixture from what the directory holds; and rewrites the fixture file in  *)
(* place.  Several scripts may run at once, name the same directory with    *)
(* --run-id (or start in the same second), fail at any command, or be       *)
(* killed; nothing is cleaned up.                                           *)
(*                                                                         *)
(* Of an artifact only its kind is kept, and which capture wrote it: rows   *)
(* that are "right" or "wrong" in the eyes of the audit that reads them,    *)
(* "empty", or "garbled" when they are no JSON list.                        *)
(***************************************************************************)
EXTENDS Naturals, FiniteSets, Sequences

CONSTANTS Scripts,
          RunDirs,     \* run directories
          COMMANDS,    \* suffixes in the order they are captured
          BuildOrder,  \* the same in the order build_fixture reads them
          Finds,       \* Finds[n][x]: the kind of what capture n finds for x
          NoArtifact   \* no artifact file

CommandSuffixes == {COMMANDS[i] : i \in DOMAIN COMMANDS}
Kinds == {"right", "wrong", "empty", "garbled"}
MaxCaptures == Len(Finds)       \* bound: how often a script is started

ASSUME FixtureCaptureAssumption ==
  /\ COMMANDS \in Seq(CommandSuffixes) /\ COMMANDS # <<>>
  /\ BuildOrder \in Seq(CommandSuffixes) /\ Len(BuildOrder) = Len(COMMANDS)
  /\ CommandSuffixes = {BuildOrder[i] : i \in DOMAIN BuildOrder}
  /\ Finds \in Seq([CommandSuffixes -> Kinds])

VARIABLES artifacts,  \* artifacts[r][x]: what run directory r holds for x
          fixture,    \* the fixture file: its state, and its tables if whole
          captures,   \* how many scripts were started so far
          script,     \* script[s]: where it is, and what it has in memory
          died,       \* history: a script was killed between open and write
          overlapped  \* history: two scripts had the file open at once

captureVars == <<artifacts, fixture, captures, script, died, overlapped>>

Artifact == [by : 0..MaxCaptures, kind : Kinds]
NoTables == <<>>
File(state) == [state |-> state, tables |-> NoTables]
Whole(tables) == [state |-> "whole", tables |-> tables]

\* The first fixture, and the artifacts of an earlier capture (number 0).
Before(x) == [by |-> 0, kind |-> "right"]

\* step: where it is; nr: the number of its capture; dir: its run directory;
\* live: --capture-live, not --from-artifacts; at: the command it captures, or
\* reads back; built: the fixture it is building; shared (history): another
\* script captured into its directory.
Started(number, r, isLive) ==
  [step |-> IF isLive THEN "capture" ELSE "build", nr |-> number, dir |-> r, live |-> isLive,
   at |-> 1, built |-> NoTables, shared |-> FALSE]

\* A script that has not begun, or has ended.
Idle == [step |-> "idle"]
At(s, where) == script[s].step = where
Running == {s \in Scripts : ~At(s, "idle")}

-----------------------------------------------------------------------------
CaptureInit == /\ artifacts \in [RunDirs -> {[x \in CommandSuffixes |-> NoArtifact],
                                             [x \in CommandSuffixes |-> Before(x)]}]
               /\ fixture \in {File("missing"), Whole([x \in CommandSuffixes |-> Before(x)])}
               /\ captures = 0
               /\ script = [s \in Scripts |-> Idle]
               /\ died = FALSE
               /\ overlapped = FALSE

Becomes(s, local) == script' = [script EXCEPT ![s] = local]
Ends(s) == Becomes(s, Idle)

\* main: the arguments are there, and the run directory has its name.
StartScript(s, r, isLive) == /\ At(s, "idle")
                             /\ captures < MaxCaptures
                             /\ captures' = captures + 1
                             /\ Becomes(s, Started(captures', r, isLive))
                             /\ UNCHANGED <<artifacts, fixture, died, overlapped>>

\* The playbook writes one artifact file.
WriteArtifact(s) ==
  LET x == COMMANDS[script[s].at]
  IN artifacts' = [artifacts EXCEPT ![script[s].dir][x] =
                     [by |-> script[s].nr, kind |-> Finds[script[s].nr][x]]]

\* The scripts, with s in the state local, after s has written an artifact.
Beside(s) == {t \in Running \ {s} : script[t].dir = script[s].dir}
WroteBeside(s, local) == [t \in Scripts |-> CASE t = s -> local
                                              [] t \in Beside(s) -> [script[t] EXCEPT !.shared = TRUE]
                                              [] OTHER -> script[t]]

\* The next command, or the end of capture_artifacts.
NextCommand(s) ==
  IF script[s].at < Len(COMMANDS) THEN [script[s] EXCEPT !.at = @ + 1]
                                  ELSE [script[s] EXCEPT !.at = 1, !.step = "build"]

\* subprocess.run(..., check=True) returns.
Capture(s) == /\ At(s, "capture")
              /\ WriteArtifact(s)
              /\ script' = WroteBeside(s, NextCommand(s))
              /\ UNCHANGED <<fixture, captures, died, overlapped>>

\* A wrong variant (these show that a property can fail): no check=True, the
\* script goes on with the next command.
CaptureFailsUnchecked(s) == /\ At(s, "capture")
                            /\ Becomes(s, NextCommand(s))
                            /\ UNCHANGED <<artifacts, fixture, captures, died, overlapped>>

\* It raises CalledProcessError, and the script ends; the playbook may have
\* written the artifact or not.  The others stay as they are.
CaptureFails(s) == /\ At(s, "capture")
                   /\ \/ Ends(s) /\ UNCHANGED artifacts
                      \/ WriteArtifact(s) /\ script' = WroteBeside(s, Idle)
                   /\ UNCHANGED <<fixture, captures, died, overlapped>>

\* load_json_artifact needs a file with a JSON list; and the version of an
\* empty system-resource is "".split()[0], an IndexError.
Loads(x, artifact) == /\ artifact # NoArtifact
                      /\ artifact.kind # "garbled"
                      /\ ~(x = "system-resource" /\ artifact.kind = "empty")

\* The artifact build_fixture reads next.
Wanted(s) == BuildOrder[script[s].at]
Offered(s) == artifacts[script[s].dir][Wanted(s)]

\* It reads the artifact; with the last, the fixture is built.
LoadArtifact(s) ==
  /\ At(s, "build")
  /\ Loads(Wanted(s), Offered(s))
  /\ LET last == script[s].at = Len(BuildOrder)
     IN Becomes(s, [script[s] EXCEPT
          !.built = [y \in DOMAIN @ \cup {Wanted(s)} |-> IF y = Wanted(s) THEN Offered(s) ELSE @[y]],
          !.at = IF last THEN 1 ELSE @ + 1,
          !.step = IF last THEN "open" ELSE @])
  /\ UNCHANGED <<artifacts, fixture, captures, died, overlapped>>

\* A wrong variant: the file is opened before the fixture is built.
LoadFailsOpen(s) == /\ At(s, "build")
                    /\ ~Loads(Wanted(s), Offered(s))
                    /\ fixture' = File("blank")
                    /\ Ends(s)
                    /\ UNCHANGED <<artifacts, captures, died, overlapped>>

LoadFails(s) == /\ At(s, "build")
                /\ ~Loads(Wanted(s), Offered(s))
                /\ Ends(s)
                /\ UNCHANGED <<artifacts, fixture, captures, died, overlapped>>

\* write_text opens the file, which truncates it ...
Open(s) == /\ At(s, "open")
           /\ fixture' = File("blank")
           /\ overlapped' = (overlapped \/ \E t \in Scripts : At(t, "write"))
           /\ Becomes(s, [script[s] EXCEPT !.step = "write"])
           /\ UNCHANGED <<artifacts, captures, died>>

\* ... and writes from its beginning, over what another script may have written
\* meanwhile: if that was longer, its end is left.
Write(s) == /\ At(s, "write")
            /\ \/ fixture' = Whole(script[s].built)
               \/ fixture.state # "blank" /\ fixture' = File("spoilt")
            /\ Ends(s)
            /\ UNCHANGED <<artifacts, captures, died, overlapped>>

Kill(s) == /\ ~At(s, "idle")
           /\ Ends(s)
           /\ died' = (died \/ At(s, "write"))
           /\ UNCHANGED <<artifacts, fixture, captures, overlapped>>

CaptureNext ==
  \E s \in Scripts :
    \/ \E r \in RunDirs, isLive \in BOOLEAN : StartScript(s, r, isLive)
    \/ Capture(s) \/ CaptureFails(s) \/ LoadArtifact(s) \/ LoadFails(s)
    \/ Open(s) \/ Write(s) \/ Kill(s)

\* The scripts alone, whoever reads the file.
CaptureSpec == CaptureInit /\ [][CaptureNext]_captureVars

-----------------------------------------------------------------------------
\* FixtureBackend._load: a missing file is no data, and no error; one that
\* is not JSON raises.
Readable(file) == file.state \in {"missing", "whole"}

\* Some of the tables: all of them once the fixture is built.
Tables(state) == IF state \in {"open", "write"} THEN {CommandSuffixes} ELSE SUBSET CommandSuffixes

CaptureTypeOK ==
  /\ artifacts \in [RunDirs -> [CommandSuffixes -> Artifact \cup {NoArtifact}]]
  /\ fixture.state \in {"missing", "blank", "spoilt", "whole"}
  /\ fixture.state = "whole" => fixture.tables \in [CommandSuffixes -> Artifact]
  /\ captures \in 0..MaxCaptures /\ died \in BOOLEAN /\ overlapped \in BOOLEAN
  /\ \A s \in Running :
       /\ script[s].step \in {"capture", "build", "open", "write"}
       /\ script[s].nr \in 1..captures /\ script[s].dir \in RunDirs
       /\ script[s].live \in BOOLEAN /\ script[s].shared \in BOOLEAN
       /\ script[s].at \in DOMAIN COMMANDS
       /\ \E done \in Tables(script[s].step) : script[s].built \in [done -> Artifact]

\* What --capture-live is about to publish is the output of its own capture,
\* every table of it, unless another script captured into the same directory
\* meanwhile: artifacts an earlier run left there do not slip in.
LiveBuildIsOneCapture ==
  \A s \in Running :
    (script[s].step \in {"open", "write"} /\ script[s].live /\ ~script[s].shared)
      => \A x \in CommandSuffixes : script[s].built[x].by = script[s].nr

\* A fixture file that cannot be read has a cause: a script has it open, or was
\* killed while it had, or two scripts had it open at once.  A capture that
\* fails, at whatever command, leaves the fixture as it was.
UnreadableHasCause ==
  ~Readable(fixture) => died \/ overlapped \/ \E s \in Scripts : At(s, "write")

=============================================================================
