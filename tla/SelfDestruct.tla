---------------------------- MODULE SelfDestruct ----------------------------
(***************************************************************************)
(* self_destruct: wipes a box in two stages.  Stage 1, started by hand,    *)
(* replaces the systemd units by one that runs stage 2, and reboots hard.  *)
(* Stage 2, started at every boot as long as that unit is there, removes   *)
(* the pool, the data, the labels of the drives, and the configuration.    *)
(*                                                                         *)
(* The power may fail at any time.  What is written to the root file       *)
(* system or to a drive is in memory first; a power cut keeps any part of  *)
(* what no sync has written out.                                           *)
(***************************************************************************)
EXTENDS FiniteSets, Naturals

CONSTANTS
    SysBlock,     \* the devices of /sys/block
    RootDev,      \* the one of the root file system, the boot device
    Spared,       \* those that are removable or hot-pluggable
    MaxCuts       \* bound: power cuts

ASSUME SelfDestructAssumption ==
    /\ RootDev \in SysBlock /\ Spared \subseteq SysBlock
    /\ MaxCuts \in Nat

(* What unlabel_drives is to clear, and what it clears when it fails to find
   out which device the root file system is on. *)
Drive  == SysBlock \ (Spared \union {RootDev})
Target == SysBlock \ Spared

(***************************************************************************)
(* What is on the root file system and on the drives: the file and the     *)
(* link of self-destruct-stage-2, the drop-in that keeps ZFS from starting *)
(* (the platform's own units, which go with these, are left out, and so    *)
(* are its scripts), the rest of the configuration, the user's files and   *)
(* account, the flag that makes the next boot a first boot, on each drive  *)
(* the partition table and the labels of the pool, and the partition table *)
(* of the boot device.                                                     *)
(***************************************************************************)
OnRoot(names) == names \X {"root"}

Table     == {"gpt"} \X Drive
RootTable == <<"gpt", RootDev>>
Labels    == {"label"} \X Drive
Thing     == Table \union {RootTable} \union Labels \union
             OnRoot({"stage2", "link", "skip", "config", "user", "ignition"})

VARIABLES
    mem,          \* what is there, as programs see it
    disk,         \* what would be there after a power cut
    imported,     \* the pool is imported
    pc,           \* next command; "idle": no stage is running
    on,           \* the box is running
    todo,         \* devices that the loop of unlabel_drives has not come to
    error,        \* $ERROR
    exit,         \* how the last run of a stage ended
    cuts,
    \* history
    announced,    \* "SELF DESTRUCT ARMED" was printed
    damaged,      \* devices that dd could not write to, in any run
    destroyed     \* zpool destroy has succeeded

vars == <<mem, disk, imported, pc, on, todo, error, exit, cuts, announced,
          damaged, destroyed>>
historyVars == <<announced, damaged, destroyed>>

Stage1 == {"units", "skip", "file", "enable", "sysctl", "sync1", "announce", "hard_reboot"}
Stage2 == {"pool", "data", "sync2", "modprobe", "rootdev", "drives", "sync3",
           "remove_units", "remove_config", "userdel", "ignition", "scripts", "report",
           "reboot"}

TypeOK ==
    /\ mem \subseteq Thing /\ disk \subseteq Thing
    /\ imported \in BOOLEAN
    /\ pc \in Stage1 \union Stage2 \union {"idle"}
    /\ on \in BOOLEAN
    /\ todo \subseteq Target
    /\ error \in BOOLEAN
    /\ exit \in {"none", "running", "failed", "errors", "successful"}
    /\ cuts \in 0..MaxCuts
    /\ announced \in BOOLEAN
    /\ damaged \subseteq Target
    /\ destroyed \in BOOLEAN

(* A box in use. *)
Init ==
    /\ mem = Thing \ OnRoot({"stage2", "link", "skip", "ignition"})
    /\ disk = mem
    /\ imported = TRUE
    /\ pc = "idle" /\ on = TRUE
    /\ todo = {} /\ error = FALSE /\ exit = "none" /\ cuts = 0
    /\ announced = FALSE /\ damaged = {} /\ destroyed = FALSE

-----------------------------------------------------------------------------
(* Steps of a stage. *)

Goto(step) == pc' = step /\ UNCHANGED exit

Exit(how) == pc' = "idle" /\ exit' = how

(* A command adds and removes things on the root file system. *)
Command(from, add, remove, to) ==
    /\ pc = from
    /\ mem' = (mem \union OnRoot(add)) \ OnRoot(remove)
    /\ Goto(to)
    /\ UNCHANGED <<disk, imported, on, todo, error, cuts, historyVars>>

Sync(from, to) ==
    /\ pc = from
    /\ disk' = mem
    /\ Goto(to)
    /\ UNCHANGED <<mem, imported, on, todo, error, cuts, historyVars>>

(* set -e: a command that is not part of an && list fails. *)
CommandFails ==
    /\ pc \in {"units", "skip", "file", "enable", "sysctl", "hard_reboot", "modprobe",
               "scripts", "reboot"}
    /\ Exit("failed")
    /\ UNCHANGED <<mem, disk, imported, on, todo, error, cuts, historyVars>>

-----------------------------------------------------------------------------
(* Stage 1, after ask_confirmation. *)

Confirm ==
    /\ on /\ pc = "idle"
    /\ pc' = "units" /\ exit' = "running"
    /\ announced' = FALSE
    /\ UNCHANGED <<mem, disk, imported, on, todo, error, cuts, damaged, destroyed>>

RemoveAllUnits == Command("units", {}, {"stage2", "link", "skip"}, "skip")
DisableZfs     == Command("skip", {"skip"}, {}, "file")
WriteUnit      == Command("file", {"stage2"}, {}, "enable")
EnableUnit     == Command("enable", {"link"}, {}, "sysctl")
SetTimeouts    == Command("sysctl", {}, {}, "sync1")

(* A wrong variant: nothing is written out before the reset. *)
SyncNothing == Command("sync1", {}, {}, "announce")

SyncUnits == Sync("sync1", "announce")

Announce ==
    /\ pc = "announce"
    /\ announced' = TRUE
    /\ Goto("hard_reboot")
    /\ UNCHANGED <<mem, disk, imported, on, todo, error, cuts, damaged, destroyed>>

(* The box goes down, and the process with it. *)
Off ==
    /\ on' = FALSE
    /\ pc' = "idle" /\ todo' = {} /\ error' = FALSE
    /\ imported' = FALSE

(* Any part of what was not written out is lost. *)
Lose ==
    /\ \E kept \in SUBSET ((mem \ disk) \union (disk \ mem)) :
         mem' = (mem \intersect disk) \union kept
    /\ disk' = mem'

(* sysrq b resets the box without a sync. *)
HardReboot ==
    /\ pc = "hard_reboot"
    /\ Lose /\ Off
    /\ exit' = "none"
    /\ UNCHANGED <<cuts, historyVars>>

-----------------------------------------------------------------------------
(* Stage 2. *)

Armed(fs) == OnRoot({"stage2", "link"}) \subseteq fs

(* The box boots; systemd starts stage 2 if it finds its unit. *)
Boot ==
    /\ ~on
    /\ on' = TRUE
    /\ imported' = (<<"skip", "root">> \notin mem /\ Labels \subseteq mem /\ ~destroyed)
    /\ IF Armed(mem) THEN pc' = "pool" /\ exit' = "running"
                     ELSE UNCHANGED <<pc, exit>>
    /\ UNCHANGED <<mem, disk, todo, error, cuts, historyVars>>

(***************************************************************************)
(* remove_zfs: a pool that is not imported is not on zpool's list and is   *)
(* left alone; set -e does not apply to the left side of &&.               *)
(***************************************************************************)
RemoveZfs ==
    /\ pc = "pool"
    /\ \/ imported /\ destroyed' = TRUE /\ imported' = FALSE
       \/ UNCHANGED <<destroyed, imported>>
    /\ Goto("data")
    /\ UNCHANGED <<mem, disk, on, todo, error, cuts, announced, damaged>>

(* find -delete fails without consequences, too. *)
ClearMountpoints ==
    \E gone \in SUBSET {"user"} : Command("data", {}, gone, "sync2")

SyncData == Sync("sync2", "modprobe")

LoadZfs == Command("modprobe", {}, {}, "rootdev")

(* A wrong variant: no device is skipped. *)
SkipNothing ==
    /\ pc = "rootdev"
    /\ todo' = SysBlock
    /\ Goto("drives")
    /\ UNCHANGED <<mem, disk, imported, on, error, cuts, historyVars>>

(***************************************************************************)
(* unlabel_drives looks for the boot device.  blkid or lsblk may fail: set *)
(* -e does not apply to the left side of && (171, 179), and no name that   *)
(* comes of it is the boot device's.                                       *)
(***************************************************************************)
FindRootDev ==
    /\ pc = "rootdev"
    /\ todo' \in {Drive, Target}
    /\ Goto("drives")
    /\ UNCHANGED <<mem, disk, imported, on, error, cuts, historyVars>>

(* zpool labelclear || true; dd succeeds. *)
UnlabelDrive(d) ==
    /\ pc = "drives" /\ d \in todo
    /\ \E gone \in SUBSET {<<"label", d>>} : mem' = mem \ (gone \union {<<"gpt", d>>})
    /\ todo' = todo \ {d}
    /\ UNCHANGED <<disk, imported, pc, on, error, exit, cuts, historyVars>>

(* A wrong variant: $ERROR is set in a subshell. *)
UnlabelDriveForgetsError(d) ==
    /\ pc = "drives" /\ d \in todo
    /\ \E gone \in SUBSET {<<"label", d>>} : mem' = mem \ gone
    /\ damaged' = damaged \union {d}
    /\ todo' = todo \ {d}
    /\ UNCHANGED <<disk, imported, pc, on, error, exit, cuts, announced, destroyed>>

(* ... dd fails. *)
UnlabelDriveFails(d) ==
    /\ pc = "drives" /\ d \in todo
    /\ \E gone \in SUBSET {<<"label", d>>} : mem' = mem \ gone
    /\ error' = TRUE
    /\ damaged' = damaged \union {d}
    /\ todo' = todo \ {d}
    /\ UNCHANGED <<disk, imported, pc, on, exit, cuts, announced, destroyed>>

DrivesDone ==
    /\ todo = {}
    /\ Command("drives", {}, {}, "sync3")

(* A wrong variant: the sync after the drives is missing. *)
SyncDrivesNot == Command("sync3", {}, {}, "remove_units")

SyncDrives == Sync("sync3", "remove_units")

(* remove_config: rm -rf of the units, this one's among them, ... *)
RemoveUnits == Command("remove_units", {}, {"stage2", "link", "skip"}, "remove_config")

(* ... of the rest of the configuration, ... *)
RemoveConfig == Command("remove_config", {}, {"config"}, "userdel")

(* ... and userdel || true. *)
RemoveUser == \E gone \in SUBSET {"user"} : Command("userdel", {}, gone, "ignition")

(* gdisk || true *)
EnableIgnition ==
    \E set \in SUBSET {"ignition"} : Command("ignition", set, {}, "scripts")

RemoveScripts == Command("scripts", {}, {}, "report")

ReportErrors ==
    /\ pc = "report" /\ error
    /\ Exit("errors")
    /\ UNCHANGED <<mem, disk, imported, on, todo, error, cuts, historyVars>>

(* "Destruction successful" *)
ReportSuccess ==
    /\ pc = "report" /\ ~error
    /\ pc' = "reboot" /\ exit' = "successful"
    /\ UNCHANGED <<mem, disk, imported, on, todo, error, cuts, historyVars>>

(* An ordinary reboot writes everything out. *)
RebootAfter ==
    /\ pc = "reboot"
    /\ disk' = mem
    /\ Off
    /\ UNCHANGED <<mem, exit, cuts, historyVars>>

-----------------------------------------------------------------------------
(* The world. *)

PowerCut ==
    /\ on /\ cuts < MaxCuts
    /\ cuts' = cuts + 1
    /\ Lose /\ Off
    /\ exit' = IF pc = "idle" THEN exit ELSE "none"
    /\ UNCHANGED historyVars

(* Somebody reboots the box when no stage is running. *)
Reboot ==
    /\ on /\ pc = "idle"
    /\ disk' = mem
    /\ Off
    /\ UNCHANGED <<mem, exit, cuts, historyVars>>

Stage ==
    \/ RemoveAllUnits \/ DisableZfs \/ WriteUnit \/ EnableUnit \/ SetTimeouts \/ SyncUnits
    \/ Announce \/ HardReboot
    \/ RemoveZfs \/ ClearMountpoints \/ SyncData \/ LoadZfs \/ FindRootDev
    \/ (\E d \in SysBlock : UnlabelDrive(d) \/ UnlabelDriveFails(d))
    \/ DrivesDone \/ SyncDrives \/ RemoveUnits \/ RemoveConfig \/ RemoveUser
    \/ EnableIgnition \/ RemoveScripts \/ ReportErrors \/ ReportSuccess \/ RebootAfter
    \/ CommandFails

Next == Confirm \/ Stage \/ Boot \/ PowerCut \/ Reboot

Spec == Init /\ [][Next]_vars

(* A running script goes on, and a box that is off is switched on again; it is
   not certain to boot if the table of its boot device is overwritten. *)
FairSpec == Spec /\ WF_vars(Stage) /\ WF_vars(RootTable \in mem /\ Boot)

-----------------------------------------------------------------------------
(* Properties. *)

(* Every drive is overwritten that could be written to. *)
Wiped(fs) == \A d \in Drive : <<"gpt", d>> \notin fs \/ d \in damaged

(***************************************************************************)
(* self_destruct:163, "SELF DESTRUCT ARMED": from then on a box whose      *)
(* stage-2 unit would not be there after a power cut has its partition     *)
(* tables overwritten, also after a power cut, but for drives that could   *)
(* not be written to.  The box is never disarmed before it is wiped.       *)
(***************************************************************************)
DisarmedAfterWipe == (announced /\ ~Armed(disk)) => Wiped(disk)

(***************************************************************************)
(* "Destruction successful" is said only when dd has worked on every       *)
(* drive, although $ERROR starts from false in each of several runs, and   *)
(* it is said after what dd wrote would survive a power cut.               *)
(***************************************************************************)
SuccessMeansZeroed ==
    [][(exit = "running" /\ exit' = "successful") => Table \intersect disk' = {}]_vars

(***************************************************************************)
(* An armed box gets its drives overwritten, however many power cuts there *)
(* are in between, unless a command fails that set -e does not let pass    *)
(* (a failed unit then tells of it), stage 1 is started anew, or the boot  *)
(* device was not found (line 84), was overwritten and boots no more.      *)
(***************************************************************************)
ArmedBoxIsWiped ==
    announced ~> \/ Wiped(disk) \/ exit = "failed" \/ ~announced
                 \/ RootTable \notin disk

(***************************************************************************)
(* self_destruct:182, "remove the config only after the ZFS pool was       *)
(* destroyed successfully": or at least one of its labels.                 *)
(***************************************************************************)
ConfigGoesAfterPool ==
    [][(pc = "remove_units" /\ pc' = "remove_config")
          => (destroyed \/ ~(Labels \subseteq mem))]_vars
=============================================================================
