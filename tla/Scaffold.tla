------------------------------ MODULE Scaffold -------------------------------
(***************************************************************************)
(* create-meterkit: runs of the initializer write a project into one       *)
(* target directory.  A run takes a lock file, builds the project in a     *)
(* staging directory beside the target and renames it into place; other    *)
(* runs and the user work in the same directory, and a run may end or lose *)
(* its disk between any two calls.  The file system is outside: rmdir and  *)
(* rename refuse a directory that is not empty.                            *)
(***************************************************************************)
EXTENDS Naturals, FiniteSets

CONSTANTS
    Run,            \* runs of the initializer
    Template,       \* files of the surface's template
    EnvFile,        \* .env or .env.local, for the recipient
    Mine,           \* a file of the user
    Missing         \* no such directory

Entry == (Run \X (Template \cup {EnvFile})) \cup {Mine}

ASSUME ScaffoldAssumption ==
    /\ Template # {} /\ IsFiniteSet(Template)
    /\ EnvFile \notin Template
    /\ Mine \notin Run \X (Template \cup {EnvFile})
    /\ \A S \in SUBSET Entry : Missing # S

VARIABLES
    target,         \* what is at the target's path
    staging,        \* the staging directory of each run
    lockFile,       \* the lock file exists
    doing,          \* what each run is doing
    kept            \* history: the user put a file into the target

scaffoldVars == <<target, staging, lockFile, doing, kept>>

Project(r) == {<<r, f>> : f \in Template \cup {EnvFile}}
Does(r, phase) == doing[r] = phase
Goes(r, phase) == doing' = [doing EXCEPT ![r] = phase]

-----------------------------------------------------------------------------
(* runCli up to the write: a plan that is shown, or exit code 2.           *)

\* what the arguments may say: --dry-run, and a recipient that is given, left
\* out or no public key; every other option is as valid or not as the recipient
Arguments == [dryRun : BOOLEAN, recipient : {"key", "none", "malformed"}]

Acceptable(a) ==
    /\ a.dryRun \/ a.recipient # "none"
    /\ a.recipient # "malformed"                \* createInitializerPlan

RunCli(r, a) ==
    /\ Does(r, "starting")
    /\ Goes(r, IF ~Acceptable(a) THEN "exit 2" ELSE IF a.dryRun THEN "shown" ELSE "locking")
    /\ UNCHANGED <<target, staging, lockFile, kept>>

-----------------------------------------------------------------------------
(* writeInitializerPlan.                                                   *)

\* O_CREAT | O_EXCL; failing to take the lock goes through the cleanup too
TakeLock(r) ==
    /\ Does(r, "locking")
    /\ Goes(r, IF lockFile THEN "failing" ELSE "checking")
    /\ lockFile' = TRUE
    /\ UNCHANGED <<target, staging, kept>>

AssertSafeTarget(r) ==
    /\ Does(r, "checking")
    /\ IF target \in {Missing, {}}
         THEN Goes(r, "copying") /\ staging' = [staging EXCEPT ![r] = {}]
         ELSE Goes(r, "failing") /\ UNCHANGED staging
    /\ UNCHANGED <<target, lockFile, kept>>

CopyFile(r) ==
    /\ Does(r, "copying")
    /\ \E e \in Project(r) \ staging[r] :
         staging' = [staging EXCEPT ![r] = @ \cup {e}]
    /\ UNCHANGED <<target, lockFile, doing, kept>>

\* a template whose fingerprint changed, or any file system error
FailToCopy(r) ==
    /\ Does(r, "copying")
    /\ Goes(r, "failing")
    /\ UNCHANGED <<target, staging, lockFile, kept>>

\* access
LookAtTarget(r) ==
    /\ Does(r, "copying")
    /\ staging[r] = Project(r)
    /\ Goes(r, IF target = Missing THEN "renaming" ELSE "removing")
    /\ UNCHANGED <<target, staging, lockFile, kept>>

EmptyOrMissing == target \in {Missing, {}}

\* a slip: rm with recursive
RmRecursive == TRUE

Rmdir == EmptyOrMissing

RemoveTarget(r) ==
    /\ Does(r, "removing")
    /\ IF Rmdir
         THEN target' = Missing /\ Goes(r, "renaming")
         ELSE Goes(r, "failing") /\ UNCHANGED target
    /\ UNCHANGED <<staging, lockFile, kept>>

RenameStaging(r) ==
    /\ Does(r, "renaming")
    /\ IF EmptyOrMissing
         THEN /\ target' = staging[r]
              /\ staging' = [staging EXCEPT ![r] = Missing]
              /\ Goes(r, "finishing")
         ELSE Goes(r, "failing") /\ UNCHANGED <<target, staging>>
    /\ UNCHANGED <<lockFile, kept>>

\* finally: whoever held the lock, its file is removed
CleanUp(r) ==
    /\ doing[r] \in {"failing", "finishing"}
    /\ staging' = [staging EXCEPT ![r] = Missing]
    /\ lockFile' = FALSE
    /\ Goes(r, IF Does(r, "finishing") THEN "written" ELSE "exit 3")
    /\ UNCHANGED <<target, kept>>

\* an error of the cleanup replaces the outcome
FailToCleanUp(r) ==
    /\ doing[r] \in {"failing", "finishing"}
    /\ staging' \in {staging, [staging EXCEPT ![r] = Missing]}
    /\ Goes(r, "exit 2")
    /\ UNCHANGED <<target, lockFile, kept>>

\* nothing is undone when it fails: exit code 1
InstallGeneratedProject(r) ==
    /\ Does(r, "written")
    /\ Goes(r, "exit 0") \/ Goes(r, "exit 1")
    /\ UNCHANGED <<target, staging, lockFile, kept>>

Ended == {"shown", "exit 0", "exit 1", "exit 2", "exit 3", "killed"}

Kill(r) ==
    /\ doing[r] \notin Ended \cup {"starting"}
    /\ Goes(r, "killed")
    /\ UNCHANGED <<target, staging, lockFile, kept>>

\* the user makes the directory, or puts a file there
WorkInTarget ==
    /\ IF target = Missing
         THEN target' = {} /\ UNCHANGED kept
         ELSE target' = target \cup {Mine} /\ kept' = TRUE
    /\ UNCHANGED <<staging, lockFile, doing>>

ScaffoldInit ==
    /\ target = Missing /\ lockFile = FALSE /\ kept = FALSE
    /\ staging = [r \in Run |-> Missing]
    /\ doing = [r \in Run |-> "starting"]

ScaffoldNext ==
    \/ \E r \in Run :
         \/ \E a \in Arguments : RunCli(r, a)
         \/ TakeLock(r) \/ AssertSafeTarget(r)
         \/ CopyFile(r) \/ FailToCopy(r)
         \/ LookAtTarget(r) \/ RemoveTarget(r) \/ RenameStaging(r)
         \/ CleanUp(r) \/ FailToCleanUp(r)
         \/ InstallGeneratedProject(r)
         \/ Kill(r)
    \/ WorkInTarget

ScaffoldSpec == ScaffoldInit /\ [][ScaffoldNext]_scaffoldVars

-----------------------------------------------------------------------------
(* Properties.                                                             *)

Contents == IF target = Missing THEN {} ELSE target

\* Whatever runs overlap, are killed or fail, and although a run that did not get
\* the lock removes the lock file of the one that did: what the user put into the
\* target stays, and a project is there as a whole and from one run.
TargetStaysWhole ==
    /\ kept => Mine \in Contents
    /\ \A r \in Run : (Contents \cap Project(r) # {}) =>
         /\ Project(r) \subseteq Contents
         /\ Contents \subseteq Project(r) \cup {Mine}

\* An exit code tells what is on disk: 0 and 1 the run's own project, for good, and
\* 3 nothing of the run.
ExitTellsTheOutcome ==
    \A r \in Run :
        /\ doing[r] \in {"written", "exit 0", "exit 1"} => Project(r) \subseteq Contents
        /\ Does(r, "exit 3") => Contents \cap Project(r) = {}

=============================================================================
