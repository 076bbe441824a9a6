------------------------- MODULE SelfDestructProofs -------------------------
(***************************************************************************)
(* Proofs about SelfDestruct, for every set of drives and any number of    *)
(* power cuts.                                                             *)
(***************************************************************************)
EXTENDS SelfDestruct, TLAPS

-----------------------------------------------------------------------------
(***************************************************************************)
(* The inductive invariant.  A power cut mixes memory and disk, so what    *)
(* has to survive one must hold of both.                                   *)
(***************************************************************************)

Arming     == {"units", "skip", "file", "enable", "sysctl", "sync1", "announce"}
Disarming  == {"remove_units", "remove_config", "userdel", "ignition", "scripts", "report",
               "reboot"}

(* Stage 1 puts its unit in place before it says so. *)
UnitInPlace ==
    /\ pc \in Arming => ~announced
    /\ pc = "enable" => <<"stage2", "root">> \in mem
    /\ pc \in {"sysctl", "sync1", "announce"} => Armed(mem)
    /\ pc = "announce" => Armed(disk)

(* The drives that are no longer to do are overwritten, or dd has failed. *)
DrivesDoneSoFar ==
    /\ pc = "drives" => \A d \in Drive \ todo : <<"gpt", d>> \notin mem \/ d \in damaged
    /\ pc = "sync3" => Wiped(mem)
    /\ pc \in Disarming => Wiped(mem) /\ Wiped(disk)

(* ... and dd has failed for none of them unless $ERROR is set. *)
ErrorsAreKnown ==
    /\ (pc = "drives" /\ ~error) => \A d \in Drive \ todo : <<"gpt", d>> \notin mem
    /\ (pc \in Disarming \union {"sync3"} /\ ~error) => Table \intersect mem = {}
    /\ (pc \in Disarming /\ ~error) => Table \intersect disk = {}

ArmedOrWiped ==
    announced => \/ Armed(mem) /\ Armed(disk)
                 \/ Wiped(mem) /\ Wiped(disk)

IInv == UnitInPlace /\ DrivesDoneSoFar /\ ErrorsAreKnown /\ ArmedOrWiped

-----------------------------------------------------------------------------
(* Lemmas on what a step leaves alone. *)

(* After a power cut nothing is there that was in neither of memory and
   disk, and everything that was in both. *)
LEMMA LoseMixes ==
  ASSUME Lose
  PROVE  /\ disk' = mem'
         /\ mem' \subseteq mem \union disk
         /\ mem \intersect disk \subseteq mem'
  BY DEF Lose

-----------------------------------------------------------------------------
(* The inductive invariant. *)

THEOREM Inductive == Spec => []IInv
<1>1. Init => IInv
  BY Zenon DEF Init, IInv, UnitInPlace, DrivesDoneSoFar, ErrorsAreKnown, ArmedOrWiped,
               Arming, Disarming
<1>2. IInv /\ [Next]_vars => IInv'
  <2> SUFFICES ASSUME IInv, [Next]_vars PROVE IInv'
    OBVIOUS
  <2> USE DEF Arming, Disarming
  <2>1. CASE Confirm
    <3>1. pc' = "units" /\ ~announced'
      BY <2>1, Zenon DEF Confirm
    <3>2. QED
      BY <3>1 DEF IInv, UnitInPlace, DrivesDoneSoFar, ErrorsAreKnown, ArmedOrWiped
  <2>2. CASE RemoveAllUnits
    BY <2>2 DEF RemoveAllUnits, Command, Goto, historyVars, OnRoot, Armed,
                IInv, UnitInPlace, DrivesDoneSoFar, ErrorsAreKnown, ArmedOrWiped
  <2>3. CASE DisableZfs
    BY <2>3 DEF DisableZfs, Command, Goto, historyVars, OnRoot, Armed,
                IInv, UnitInPlace, DrivesDoneSoFar, ErrorsAreKnown, ArmedOrWiped
  <2>4. CASE WriteUnit
    BY <2>4 DEF WriteUnit, Command, Goto, historyVars, OnRoot, Armed,
                IInv, UnitInPlace, DrivesDoneSoFar, ErrorsAreKnown, ArmedOrWiped
  <2>5. CASE EnableUnit
    BY <2>5 DEF EnableUnit, Command, Goto, historyVars, OnRoot, Armed,
                IInv, UnitInPlace, DrivesDoneSoFar, ErrorsAreKnown, ArmedOrWiped
  <2>26. CASE SetTimeouts
    BY <2>26 DEF SetTimeouts, Command, Goto, historyVars, OnRoot, Armed,
                IInv, UnitInPlace, DrivesDoneSoFar, ErrorsAreKnown, ArmedOrWiped
  <2>6. CASE SyncUnits
    BY <2>6 DEF SyncUnits, Sync, Goto, historyVars,
                IInv, UnitInPlace, DrivesDoneSoFar, ErrorsAreKnown, ArmedOrWiped
  <2>7. CASE Announce
    BY <2>7 DEF Announce, Goto,
                IInv, UnitInPlace, DrivesDoneSoFar, ErrorsAreKnown, ArmedOrWiped
  <2>8. CASE HardReboot
    BY <2>8, LoseMixes DEF HardReboot, Off, historyVars, Armed, Wiped, OnRoot,
                IInv, UnitInPlace, DrivesDoneSoFar, ErrorsAreKnown, ArmedOrWiped
  <2>9. CASE RemoveZfs
    BY <2>9 DEF RemoveZfs, Goto, Wiped,
                IInv, UnitInPlace, DrivesDoneSoFar, ErrorsAreKnown, ArmedOrWiped
  <2>10. CASE ClearMountpoints
    <3>1. PICK gone \in SUBSET {"user"} : Command("data", {}, gone, "sync2")
      BY <2>10 DEF ClearMountpoints
    <3> QED
      BY <3>1 DEF Command, Goto, historyVars, OnRoot, Armed, Wiped,
                IInv, UnitInPlace, DrivesDoneSoFar, ErrorsAreKnown, ArmedOrWiped
  <2>11. CASE SyncData
    BY <2>11 DEF SyncData, Sync, Goto, historyVars, Wiped,
                IInv, UnitInPlace, DrivesDoneSoFar, ErrorsAreKnown, ArmedOrWiped
  <2>12. CASE LoadZfs
    BY <2>12 DEF LoadZfs, Command, Goto, historyVars, OnRoot, Armed, Wiped,
                IInv, UnitInPlace, DrivesDoneSoFar, ErrorsAreKnown, ArmedOrWiped
  <2>27. CASE FindRootDev
    <3>1. Drive \subseteq todo'
      BY <2>27 DEF FindRootDev, Drive, Target
    <3> QED
      BY <2>27, <3>1 DEF FindRootDev, Goto, historyVars, Wiped,
                IInv, UnitInPlace, DrivesDoneSoFar, ErrorsAreKnown, ArmedOrWiped
  <2>13. ASSUME NEW d \in SysBlock, UnlabelDrive(d) PROVE IInv'
    BY <2>13 DEF UnlabelDrive, historyVars, Armed, Wiped, OnRoot, Table,
                IInv, UnitInPlace, DrivesDoneSoFar, ErrorsAreKnown, ArmedOrWiped
  <2>14. ASSUME NEW d \in SysBlock, UnlabelDriveFails(d) PROVE IInv'
    BY <2>14 DEF UnlabelDriveFails, Armed, Wiped, OnRoot, Table,
                IInv, UnitInPlace, DrivesDoneSoFar, ErrorsAreKnown, ArmedOrWiped
  <2>15. CASE DrivesDone
    BY <2>15 DEF DrivesDone, Command, Goto, historyVars, OnRoot, Armed, Wiped, Table,
                IInv, UnitInPlace, DrivesDoneSoFar, ErrorsAreKnown, ArmedOrWiped
  <2>16. CASE SyncDrives
    BY <2>16 DEF SyncDrives, Sync, Goto, historyVars, Wiped,
                IInv, UnitInPlace, DrivesDoneSoFar, ErrorsAreKnown, ArmedOrWiped
  <2>17. CASE RemoveUnits \/ RemoveConfig \/ RemoveScripts
    BY <2>17 DEF RemoveUnits, RemoveConfig, RemoveScripts, Command, Goto, historyVars, OnRoot, Wiped, Table,
                IInv, UnitInPlace, DrivesDoneSoFar, ErrorsAreKnown, ArmedOrWiped
  <2>18. CASE RemoveUser \/ EnableIgnition
    BY <2>18 DEF RemoveUser, EnableIgnition, Command, Goto, historyVars, OnRoot, Wiped, Table,
                IInv, UnitInPlace, DrivesDoneSoFar, ErrorsAreKnown, ArmedOrWiped
  <2>19. CASE ReportErrors \/ CommandFails
    BY <2>19 DEF ReportErrors, CommandFails, Exit, historyVars, Wiped,
                IInv, UnitInPlace, DrivesDoneSoFar, ErrorsAreKnown, ArmedOrWiped
  <2>20. CASE ReportSuccess
    BY <2>20 DEF ReportSuccess, historyVars, Wiped,
                IInv, UnitInPlace, DrivesDoneSoFar, ErrorsAreKnown, ArmedOrWiped
  <2>28. CASE RebootAfter
    BY <2>28 DEF RebootAfter, Off, historyVars, Wiped,
                IInv, UnitInPlace, DrivesDoneSoFar, ErrorsAreKnown, ArmedOrWiped
  <2>21. CASE Boot
    BY <2>21 DEF Boot, historyVars, Wiped,
                IInv, UnitInPlace, DrivesDoneSoFar, ErrorsAreKnown, ArmedOrWiped
  <2>22. CASE PowerCut
    BY <2>22, LoseMixes DEF PowerCut, Off, historyVars, Armed, Wiped, OnRoot,
                IInv, UnitInPlace, DrivesDoneSoFar, ErrorsAreKnown, ArmedOrWiped
  <2>23. CASE Reboot
    BY <2>23 DEF Reboot, Off, historyVars, Wiped,
                IInv, UnitInPlace, DrivesDoneSoFar, ErrorsAreKnown, ArmedOrWiped
  <2>24. CASE UNCHANGED vars
    BY <2>24 DEF vars, historyVars, Wiped, Armed,
                IInv, UnitInPlace, DrivesDoneSoFar, ErrorsAreKnown, ArmedOrWiped
  <2>25. QED
    BY <2>1, <2>2, <2>3, <2>4, <2>5, <2>6, <2>7, <2>8, <2>9, <2>10, <2>11, <2>12,
       <2>13, <2>14, <2>15, <2>16, <2>17, <2>18, <2>19, <2>20, <2>21, <2>22, <2>23,
       <2>24, <2>26, <2>27, <2>28 DEF Next, Stage
<1>3. QED
  BY <1>1, <1>2, PTL DEF Spec

-----------------------------------------------------------------------------
(* Safety. *)

(***************************************************************************)
(* A box that has said "SELF DESTRUCT ARMED" has its stage-2 unit on the   *)
(* disk, or all its drives are overwritten but those dd has failed for.    *)
(***************************************************************************)
THEOREM ArmedUntilWiped == Spec => []DisarmedAfterWipe
<1>1. IInv => DisarmedAfterWipe
  BY DEF IInv, ArmedOrWiped, DisarmedAfterWipe
<1>2. QED
  BY <1>1, Inductive, PTL

(***************************************************************************)
(* A run of stage 2 that says "Destruction successful" has overwritten     *)
(* every drive, and what it wrote is on the disk.                          *)
(***************************************************************************)
THEOREM SuccessIsNotPartial == Spec => SuccessMeansZeroed
<1>1. IInv /\ [Next]_vars =>
        ((exit = "running" /\ exit' = "successful") => Table \intersect disk' = {})
  <2> SUFFICES ASSUME IInv, [Next]_vars, exit = "running", exit' = "successful"
               PROVE  Table \intersect disk' = {}
    OBVIOUS
  <2>1. ReportSuccess
    BY DEF Next, vars, Stage, Confirm, RemoveAllUnits, DisableZfs, WriteUnit, EnableUnit,
           SyncUnits, Announce, HardReboot, RemoveZfs, ClearMountpoints, SyncData,
           LoadZfs, FindRootDev, SetTimeouts, UnlabelDrive, UnlabelDriveFails, DrivesDone,
           SyncDrives, RemoveUnits, RemoveConfig, RemoveUser, EnableIgnition,
           RemoveScripts, ReportErrors, RebootAfter, CommandFails, Boot, PowerCut, Reboot, Command, Sync, Goto, Exit
  <2>2. QED
    BY <2>1 DEF ReportSuccess, IInv, ErrorsAreKnown, Disarming
<1>2. QED
  BY <1>1, Inductive, PTL DEF Spec, SuccessMeansZeroed

-----------------------------------------------------------------------------
(* Types. *)

(* The variables that are true or false. *)
Switches == imported \in BOOLEAN /\ on \in BOOLEAN /\ error \in BOOLEAN
            /\ announced \in BOOLEAN /\ destroyed \in BOOLEAN

(* What there is, in memory, on the disk and among the drives. *)
Things == mem \subseteq Thing /\ disk \subseteq Thing /\ todo \subseteq Target
          /\ damaged \subseteq Target

(* Where the run is. *)
Places ==
    /\ pc \in Stage1 \union Stage2 \union {"idle"}
    /\ exit \in {"none", "running", "failed", "errors", "successful"}
    /\ cuts \in 0..MaxCuts

LEMMA SwitchesStep == ASSUME TypeOK, [Next]_vars PROVE Switches'
<1> USE DEF Switches, historyVars
<1>0. Switches
  BY Zenon DEF TypeOK
<1>1. CASE Boot
  <2>1. (<<"skip", "root">> \notin mem /\ Labels \subseteq mem /\ ~destroyed) \in BOOLEAN
    OBVIOUS
  <2> QED
    BY <1>0, <1>1, <2>1, Zenon DEF Boot
<1>2. CASE Confirm \/ PowerCut \/ Reboot
  BY <1>0, <1>2, Zenon DEF Confirm, PowerCut, Reboot, Off
<1>3. ASSUME UNCHANGED <<imported, on, error, announced, destroyed>> PROVE Switches'
  BY <1>0, <1>3, Zenon
<1>4. ASSUME NEW from, NEW to, NEW add, NEW remove, Command(from, add, remove, to)
      PROVE Switches'
  BY <1>3, <1>4, Zenon DEF Command
<1>5. RemoveAllUnits \/ DisableZfs \/ WriteUnit \/ EnableUnit \/ SetTimeouts \/ LoadZfs
      \/ DrivesDone \/ RemoveUnits \/ RemoveConfig \/ RemoveScripts => Switches'
  BY <1>4, Zenon DEF RemoveAllUnits, DisableZfs, WriteUnit, EnableUnit, SetTimeouts, LoadZfs,
                    DrivesDone, RemoveUnits, RemoveConfig, RemoveScripts
<1>6. ClearMountpoints \/ RemoveUser \/ EnableIgnition => Switches'
  BY <1>4, Zenon DEF ClearMountpoints, RemoveUser, EnableIgnition
<1>7. SyncUnits \/ SyncData \/ SyncDrives \/ FindRootDev \/ ReportErrors \/ ReportSuccess
      \/ CommandFails \/ UNCHANGED vars => Switches'
  BY <1>3, Zenon DEF SyncUnits, SyncData, SyncDrives, Sync, FindRootDev, ReportErrors,
                    ReportSuccess, CommandFails, vars
<1>8. CASE Announce \/ HardReboot \/ RemoveZfs \/ RebootAfter
  BY <1>0, <1>8, Zenon DEF Announce, HardReboot, RemoveZfs, RebootAfter, Off
<1>9. ASSUME NEW d \in SysBlock, UnlabelDrive(d) \/ UnlabelDriveFails(d) PROVE Switches'
  BY <1>0, <1>9, Zenon DEF UnlabelDrive, UnlabelDriveFails
<1> QED
  BY <1>1, <1>2, <1>5, <1>6, <1>7, <1>8, <1>9, Zenon DEF Next, Stage

LEMMA ThingsStep == ASSUME TypeOK, [Next]_vars PROVE Things'
<1>0. Things
  BY Zenon DEF TypeOK, Things
<1> USE <1>0 DEF Things, historyVars
<1>1. ASSUME UNCHANGED <<mem, disk, todo, damaged>> PROVE Things'
  BY <1>1
<1>2. ASSUME NEW from, NEW to, NEW add, NEW remove, Command(from, add, remove, to),
             add \subseteq {"stage2", "link", "skip", "ignition"}
      PROVE Things'
  <2>1. OnRoot(add) \subseteq Thing
    BY <1>2 DEF OnRoot, Thing
  <2> QED
    BY <1>2, <2>1 DEF Command
<1>3. RemoveAllUnits \/ DisableZfs \/ WriteUnit \/ EnableUnit \/ SetTimeouts \/ LoadZfs
      \/ DrivesDone \/ RemoveUnits \/ RemoveConfig \/ RemoveScripts => Things'
  <2>1. /\ {} \subseteq {"stage2", "link", "skip", "ignition"}
        /\ {"skip"} \subseteq {"stage2", "link", "skip", "ignition"}
        /\ {"stage2"} \subseteq {"stage2", "link", "skip", "ignition"}
        /\ {"link"} \subseteq {"stage2", "link", "skip", "ignition"}
    OBVIOUS
  <2> QED
    BY <1>2, <2>1, Zenon DEF RemoveAllUnits, DisableZfs, WriteUnit, EnableUnit, SetTimeouts,
                             LoadZfs, DrivesDone, RemoveUnits, RemoveConfig, RemoveScripts
<1>4. ClearMountpoints \/ RemoveUser \/ EnableIgnition => Things'
  <2>1. \A set \in SUBSET {"ignition"} : set \subseteq {"stage2", "link", "skip", "ignition"}
    OBVIOUS
  <2>2. {} \subseteq {"stage2", "link", "skip", "ignition"}
    OBVIOUS
  <2> QED
    BY <1>2, <2>1, <2>2, Zenon DEF ClearMountpoints, RemoveUser, EnableIgnition
<1>5. CASE SyncUnits \/ SyncData \/ SyncDrives
  BY <1>5 DEF SyncUnits, SyncData, SyncDrives, Sync
<1>6. CASE FindRootDev
  BY <1>6 DEF FindRootDev, Drive, Target
<1>7. ASSUME NEW d \in SysBlock, UnlabelDrive(d) \/ UnlabelDriveFails(d) PROVE Things'
  BY <1>7 DEF UnlabelDrive, UnlabelDriveFails
<1>8. CASE HardReboot \/ PowerCut
  BY <1>8, LoseMixes DEF HardReboot, PowerCut, Off
<1>9. CASE RebootAfter \/ Reboot
  BY <1>9 DEF RebootAfter, Reboot, Off
<1>10. Confirm \/ Announce \/ RemoveZfs \/ ReportErrors \/ ReportSuccess \/ CommandFails
       \/ Boot \/ UNCHANGED vars => UNCHANGED <<mem, disk, todo, damaged>>
  BY DEF Confirm, Announce, RemoveZfs, ReportErrors, ReportSuccess, CommandFails, Boot, vars
<1> QED
  BY <1>1, <1>3, <1>4, <1>5, <1>6, <1>7, <1>8, <1>9, <1>10 DEF Next, Stage

LEMMA PlacesStep == ASSUME TypeOK, [Next]_vars PROVE Places'
<1>0. Places
  BY Zenon DEF TypeOK, Places
<1> QED
  BY <1>0, SelfDestructAssumption
  DEF Places, Stage1, Stage2, Next, vars, Stage, Confirm, RemoveAllUnits, DisableZfs, WriteUnit,
      EnableUnit, SyncUnits, Announce, HardReboot, RemoveZfs, ClearMountpoints, SyncData,
      LoadZfs, FindRootDev, SetTimeouts, UnlabelDrive, UnlabelDriveFails, DrivesDone,
      SyncDrives, RemoveUnits, RemoveConfig, RemoveUser, EnableIgnition, RemoveScripts,
      ReportErrors, ReportSuccess, RebootAfter, CommandFails, Boot, PowerCut, Reboot, Command, Sync, Goto, Exit, Off

(***************************************************************************)
(* Every variable of the box and of the stages keeps its type, for every   *)
(* set of drives and any number of power cuts.                             *)
(***************************************************************************)
THEOREM TypeCorrect == Spec => []TypeOK
<1>1. Init => TypeOK
  <2> SUFFICES ASSUME Init PROVE TypeOK
    OBVIOUS
  <2>1. Switches
    BY Zenon DEF Init, Switches
  <2>2. Things
    BY DEF Init, Things
  <2>3. Places
    BY SelfDestructAssumption DEF Init, Places
  <2> QED
    BY <2>1, <2>2, <2>3, Zenon DEF TypeOK, Switches, Things, Places
<1>2. TypeOK /\ [Next]_vars => TypeOK'
  BY SwitchesStep, ThingsStep, PlacesStep, Zenon DEF TypeOK, Switches, Things, Places
<1> QED
  BY <1>1, <1>2, PTL DEF Spec
=============================================================================
