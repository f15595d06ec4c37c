--------------------------- MODULE UpdateInstall ---------------------------
(***************************************************************************)
(* Replacing the installed program by a downloaded one (app/updater/       *)
(* mod.rs): the Linux AppImage, copied to a backup and restored when the   *)
(* new one does not start, and the macOS bundle, staged beside the old one *)
(* and swapped with it.  Several instances of the program may run; any of  *)
(* them may end at any point.                                              *)
(***************************************************************************)
EXTENDS Naturals, FiniteSets

CONSTANTS
  Instances,
  NewVersions,  \* what may be downloaded
  MaxInstalls   \* bound: installations begun

ASSUME UpdateAssumption == NewVersions \subseteq Nat \ {0, 1} /\ MaxInstalls \in Nat

VARIABLES
  layout,      \* "AppImage" or "bundle"
  works,       \* the versions that start; the installed one does
  image,       \* the version at the installed path, 0 for none
  sidecar,     \* bundle: at <name>.old
  staged,      \* bundle: at <name>.new
  insts,       \* the instances: stage, version to install, backup
  leftovers,   \* backups of the AppImage that nobody will remove
  installs,    \* installations begun, up to MaxInstalls
  overlapped   \* history: two at once, or one without a program in place

upVars == <<layout, works, image, sidecar, staged, insts, leftovers, installs, overlapped>>

Versions == NewVersions \cup {1}
Idle == [stage |-> "running", new |-> 0, backup |-> 0]

UpInit ==
  /\ layout \in {"AppImage", "bundle"}
  /\ \E more \in SUBSET NewVersions : works = more \cup {1}
  /\ image = 1 /\ sidecar = 0 /\ staged = 0
  /\ insts = [i \in Instances |-> Idle]
  /\ leftovers = {} /\ installs = 0 /\ overlapped = FALSE

Installing == {i \in Instances : insts[i].stage \notin {"running", "ended"}}
upSame == UNCHANGED <<layout, works, installs, overlapped>>
AtStage(i, stage) == insts[i].stage = stage
ToStage(i, stage) == insts' = [insts EXCEPT ![i].stage = stage]
Leaves(i, stage) ==
  /\ insts' = [insts EXCEPT ![i] = [Idle EXCEPT !.stage = stage]]
  /\ leftovers' = leftovers \cup ({insts[i].backup} \ {0})
Forgets(i, stage) ==
  /\ insts' = [insts EXCEPT ![i] = [Idle EXCEPT !.stage = stage]]
  /\ UNCHANGED leftovers

(* install_and_restart                                                     *)
InstallAndRestart(i, v) ==
  /\ AtStage(i, "running")
  /\ installs < MaxInstalls /\ installs' = installs + 1
  /\ insts' = [insts EXCEPT ![i].new = v,
                 ![i].stage = IF layout = "AppImage" THEN "back up" ELSE "stage"]
  /\ overlapped' = (overlapped \/ Installing # {} \/ image = 0)
  /\ UNCHANGED <<layout, works, image, sidecar, staged, leftovers>>

-----------------------------------------------------------------------------
\* A mutant of BackUp: it is left out.
BackUpNothing(i) ==
  /\ AtStage(i, "back up")
  /\ ToStage(i, "install")
  /\ UNCHANGED <<image, sidecar, staged, leftovers>> /\ upSame

(* install_linux_appimage: the backup has a name of its own.  A copy that  *)
(* fails ends like an installation that fails behind it.                   *)
BackUp(i) ==
  /\ AtStage(i, "back up")
  /\ insts' = [insts EXCEPT ![i].backup = image, ![i].stage = "install"]
  /\ UNCHANGED <<image, sidecar, staged, leftovers>> /\ upSame

InstallImage(i) ==
  /\ AtStage(i, "install")
  /\ \/ image' = insts[i].new /\ ToStage(i, "launch") /\ UNCHANGED leftovers
     \/ Forgets(i, "running") /\ UNCHANGED image
  /\ UNCHANGED <<sidecar, staged>> /\ upSame

(* launch_linux_appimage_replacement: what cannot be started, or ends      *)
(* within a second, is rolled back.                                        *)
Launch(i) ==
  /\ AtStage(i, "launch")
  /\ \/ image \in works /\ ToStage(i, "clean up")
     \/ ToStage(i, "restore")
  /\ UNCHANGED <<image, sidecar, staged, leftovers>> /\ upSame

CleanUp(i) ==
  /\ AtStage(i, "clean up")
  /\ Forgets(i, "ended") \/ Leaves(i, "ended")
  /\ UNCHANGED <<image, sidecar, staged>> /\ upSame

(* restore_linux_appimage                                                  *)
RestoreImage(i) ==
  /\ AtStage(i, "restore")
  /\ \/ image' = insts[i].backup /\ Forgets(i, "running")
     \/ Leaves(i, "running") /\ UNCHANGED image
  /\ UNCHANGED <<sidecar, staged>> /\ upSame

-----------------------------------------------------------------------------
(* install_macos: both sidecars have one name for all instances.  Any of   *)
(* its steps may fail; a sidecar that could not be removed whole is in the *)
(* way as one that was not removed.                                        *)
StageBundle(i) ==
  /\ AtStage(i, "stage")
  /\ \/ staged' = insts[i].new /\ ToStage(i, "clear old")
     \/ staged' = 0 /\ ToStage(i, "running")
  /\ UNCHANGED <<image, sidecar, leftovers>> /\ upSame

ClearOld(i) ==
  /\ AtStage(i, "clear old")
  /\ sidecar' \in {0, sidecar}
  /\ ToStage(i, "move aside")
  /\ UNCHANGED <<image, staged, leftovers>> /\ upSame

MoveBundleAside(i) ==
  /\ AtStage(i, "move aside")
  /\ \/ /\ image # 0 /\ sidecar = 0
        /\ sidecar' = image /\ image' = 0
        /\ ToStage(i, "move in")
     \/ ToStage(i, "running") /\ UNCHANGED <<image, sidecar>>
  /\ UNCHANGED <<staged, leftovers>> /\ upSame

MoveBundleIn(i) ==
  /\ AtStage(i, "move in")
  /\ \/ /\ staged # 0 /\ image = 0
        /\ image' = staged /\ staged' = 0
        /\ ToStage(i, "drop old")
     \/ ToStage(i, "put back") /\ UNCHANGED <<image, staged>>
  /\ UNCHANGED <<sidecar, leftovers>> /\ upSame

PutBack(i) ==
  /\ AtStage(i, "put back")
  /\ \/ image = 0 /\ sidecar # 0 /\ image' = sidecar /\ sidecar' = 0
     \/ UNCHANGED <<image, sidecar>>
  /\ staged' \in {0, staged}
  /\ ToStage(i, "running")
  /\ UNCHANGED leftovers /\ upSame

DropOld(i) ==
  /\ AtStage(i, "drop old")
  /\ sidecar' \in {0, sidecar}
  /\ Forgets(i, "ended")
  /\ UNCHANGED <<image, staged>> /\ upSame

-----------------------------------------------------------------------------
(* An instance ends, wherever it is; a backup it made stays on disk.       *)
InstanceEnds(i) ==
  /\ insts[i].stage # "ended"
  /\ Leaves(i, "ended")
  /\ UNCHANGED <<image, sidecar, staged>> /\ upSame

StartProgram(i) ==
  /\ AtStage(i, "ended")
  /\ image \in works
  /\ ToStage(i, "running")
  /\ UNCHANGED <<image, sidecar, staged, leftovers>> /\ upSame

UpNext ==
  \E i \in Instances :
    \/ \E v \in NewVersions : InstallAndRestart(i, v)
    \/ BackUp(i) \/ InstallImage(i) \/ Launch(i) \/ CleanUp(i) \/ RestoreImage(i)
    \/ StageBundle(i) \/ ClearOld(i) \/ MoveBundleAside(i) \/ MoveBundleIn(i)
    \/ PutBack(i) \/ DropOld(i)
    \/ InstanceEnds(i) \/ StartProgram(i)

UpSpec == UpInit /\ [][UpNext]_upVars

-----------------------------------------------------------------------------
UpTypeOK ==
  /\ {image, sidecar, staged} \subseteq Versions \cup {0}
  /\ 1 \in works /\ works \subseteq Versions
  /\ \A i \in Instances : insts[i].new \in NewVersions \cup {0}
  /\ installs \in 0..MaxInstalls /\ leftovers \subseteq Versions

(* However an installation ends, a program is left: for the AppImage one   *)
(* that starts, in place or in a backup; for the bundle, which is not      *)
(* tried, a whole one in place or beside it.  Two installations at once    *)
(* may undo each other, and one that begins with no program in place,      *)
(* because another died between the two renames of the bundle, removes the *)
(* copy beside it first (`overlapped`).                                    *)
NeverStranded ==
  overlapped \/
    IF layout = "AppImage"
    THEN (leftovers \cup {image} \cup {insts[i].backup : i \in Instances}) \cap works # {}
    ELSE image # 0 \/ sidecar # 0
=============================================================================
