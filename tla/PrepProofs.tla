----------------------------- MODULE PrepProofs -----------------------------
(***************************************************************************)
(* Proofs about Prep, for every set of units, images, releases, payloads   *)
(* and channels and every number of runs and retries.                      *)
(***************************************************************************)
EXTENDS Prep, TLAPS

-----------------------------------------------------------------------------
(***************************************************************************)
(* The inductive invariant: what is true at each stage of the script.      *)
(***************************************************************************)

AfterFetch   == Step \ {"wipe", "copy", "legacy_exit", "fetch"}
AfterPulls   == AfterFetch \ {"render_only", "pull", "try", "verify", "state"}
AfterInstall == AfterPulls \ {"render", "links", "cleanup", "install"}
AfterEnable  == AfterInstall \ {"enable"}

(* A run works on a release of the manifest and on what its container ships. *)
RunHasItsInput ==
    /\ pc # "idle" => payload \in Payload
    /\ pc \in AfterFetch => build \in Build
    /\ pc = "render_only" => mode = "templates"

(* The images that are no longer to do have arrived. *)
Arrived ==
    /\ pc \in {"pull", "try", "verify", "state"} =>
         /\ todo \subseteq Listed(build)
         /\ \A i \in Listed(build) \ todo : Complete(Ref(build, i))
    /\ pc \in {"try", "verify", "state"} => image \in todo
    /\ pc = "verify" => Ref(build, image) \in docker
    /\ pc = "state" => Complete(Ref(build, image))
    /\ pc \in AfterPulls => \A r \in Refs(build) : Complete(r)

(* The units that are no longer left are installed, the marked others gone. *)
Installed ==
    /\ pc = "install" =>
         /\ left \subseteq payload
         /\ \A u \in payload \ left : installed[u] = build
         /\ \A u \in Marked \ payload : installed[u] = NoBuild
         /\ \A u \in Marked \intersect left : installed[u] = NoBuild
    /\ pc \in AfterInstall =>
         /\ \A u \in payload : installed[u] = build
         /\ \A u \in Marked \ payload : installed[u] = NoBuild

(* So are the links of the marked others, and what is installed is enabled. *)
Enabled ==
    /\ pc \in {"install", "enable"} => (Marked \ payload) \intersect enabled = {}
    /\ pc \in AfterEnable =>
         payload \subseteq enabled /\ (Marked \ payload) \intersect enabled = {}

(* The release files are written in this order. *)
Recorded ==
    /\ pc \in {"codename", "notes", "finalize", "remove", "finish"} =>
         release["number"] = build
    /\ pc \in {"notes", "finalize", "remove", "finish"} =>
         release["codename"] = build
    /\ pc \in {"finalize", "remove", "finish"} => release["notes"] = build

(* The path unit sleeps while the script writes the channel file. *)
PathSleeps == pc = "write_channel" => ~pathActive

Stages ==
    /\ RunHasItsInput /\ Arrived /\ Installed /\ Enabled /\ Recorded
    /\ PathSleeps

IInv == TypeOK /\ Stages /\ UnitsHaveImages /\ NoSelfTrigger

-----------------------------------------------------------------------------
(* Type correctness. *)

(* A run that ends leaves the flag of its service unset. *)
LEMMA EndOfRunFlag == ASSUME EndOfRun PROVE triggered' \in BOOLEAN
  BY Zenon DEF EndOfRun

(* A box that has never been configured has typed state. *)
LEMMA TypeInit == ASSUME Init PROVE TypeOK
<1>1. scripts \in BOOLEAN /\ pathActive \in BOOLEAN /\ triggered \in BOOLEAN
  BY Zenon DEF Init
<1>2. QED
  BY <1>1, PrepAssumption
  DEF Init, TypeOK, TriggerTypeOK, Mode, ReleaseFile, Status, Outcome, Step,
      Writer

(***************************************************************************)
(* Every step gives values of their types; that the reference of the image *)
(* being pulled exists at all takes the rest of the invariant.             *)
(***************************************************************************)
LEMMA TypeStep ==
    ASSUME TypeOK, RunHasItsInput, Arrived, [Next]_vars PROVE TypeOK'
<1> USE PrepAssumption
    DEF TypeOK, TriggerTypeOK, Mode, ReleaseFile, Status, Outcome, Step, Writer,
        Goto, Exit, Ended, EndOfRun, storeVars, hostVars, runVars, triggerVars
<1>1. CASE LegacyExit
  <2>1. triggered' \in BOOLEAN
    BY <1>1, EndOfRunFlag, Zenon DEF LegacyExit, Exit
  <2> QED
    BY <1>1, <2>1 DEF LegacyExit
<1>2. CASE WipeScripts
  <2>1. scripts' \in BOOLEAN
    BY <1>2, Zenon DEF WipeScripts
  <2> QED
    BY <1>2, <2>1 DEF WipeScripts
<1>3. CASE CopyScripts
  BY <1>3 DEF CopyScripts
<1>4. ASSUME NEW b \in Build, FetchRelease(b) PROVE TypeOK'
  BY <1>4 DEF FetchRelease
<1>5. CASE FetchFails
  <2>1. triggered' \in BOOLEAN
    BY <1>5, EndOfRunFlag, Zenon DEF FetchFails, Exit
  <2> QED
    BY <1>5, <2>1 DEF FetchFails
<1>6. CASE RenderOnly
  <2>1. triggered' \in BOOLEAN
    BY <1>6, EndOfRunFlag, Zenon DEF RenderOnly, Exit
  <2> QED
    BY <1>6, <2>1 DEF RenderOnly
<1>7. ASSUME NEW i \in Image, NextImage(i) PROVE TypeOK'
  BY <1>7 DEF NextImage
<1>8. CASE PullSucceeds
  <2>1. Exit("retrieve") => triggered' \in BOOLEAN
    BY EndOfRunFlag, Zenon DEF Exit
  <2>2. Ref(build, image) \in Image \X Tag
    BY <1>8 DEF PullSucceeds, RunHasItsInput, Arrived, AfterFetch, Ref
  <2>3. /\ docker' \subseteq Image \X Tag
        /\ broken' \subseteq docker' /\ unverified' \subseteq broken'
    BY <1>8, <2>2 DEF PullSucceeds
  <2> QED
    BY <1>8, <2>1, <2>3 DEF PullSucceeds
<1>9. CASE PullFails
  <2>1. Exit("retrieve") \/ Exit("damaged") => triggered' \in BOOLEAN
    BY EndOfRunFlag, Zenon DEF Exit
  <2> QED
    BY <1>9, <2>1 DEF PullFails
<1>10. CASE VerifyImage
  <2>1. Exit("retrieve") \/ Exit("damaged") => triggered' \in BOOLEAN
    BY EndOfRunFlag, Zenon DEF Exit
  <2> QED
    BY <1>10, <2>1 DEF VerifyImage
<1>11. CASE RecordImage \/ PullsDone
  BY <1>11 DEF RecordImage, PullsDone
<1>12. CASE RenderTemplates \/ RemoveBrokenLinks
  BY <1>12 DEF RenderTemplates, RemoveBrokenLinks, OnDisk
<1>13. ASSUME NEW u \in Unit, RemoveUnit(u) PROVE TypeOK'
  BY <1>13 DEF RemoveUnit
<1>14. ASSUME NEW u \in Unit, InstallUnit(u) PROVE TypeOK'
  BY <1>14 DEF InstallUnit
<1>15. CASE CleanupDone
  BY <1>15 DEF CleanupDone, OnDisk
<1>16. CASE InstallDone
  BY <1>16 DEF InstallDone
<1>17. CASE EnableUnits
  BY <1>17 DEF EnableUnits, OnDisk
<1>18. CASE KeepChannel
  BY <1>18 DEF KeepChannel
<1>19. CASE StopPath
  <2>1. pathActive' \in BOOLEAN
    BY <1>19, Zenon DEF StopPath, SetPath
  <2> QED
    BY <1>19, <2>1 DEF StopPath, SetPath
<1>20. CASE WriteChannel
  BY <1>20 DEF WriteChannel, WriteChannelFile
<1>21. CASE StartPath
  BY <1>21 DEF StartPath, SetPath
<1>22. CASE WriteNumber \/ WriteCodename \/ WriteNotes
  BY <1>22 DEF WriteNumber, WriteCodename, WriteNotes, RecordRelease
<1>23. CASE FinalizeReload
  <2>1. triggered' \in BOOLEAN
    BY <1>23, EndOfRunFlag, Zenon DEF FinalizeReload, Exit
  <2> QED
    BY <1>23, <2>1 DEF FinalizeReload
<1>24. CASE Finalize
  BY <1>24 DEF Finalize
<1>25. CASE RemoveOldImages
  BY <1>25 DEF RemoveOldImages
<1>26. CASE Finish
  <2>1. triggered' \in BOOLEAN
    BY <1>26, EndOfRunFlag, Zenon DEF Finish, Exit
  <2> QED
    BY <1>26, <2>1 DEF Finish
<1>27. CASE CommandFails
  <2>1. triggered' \in BOOLEAN
    BY <1>27, EndOfRunFlag, Zenon DEF CommandFails, Exit
  <2>2. scripts' \in BOOLEAN
    BY <1>27, Zenon DEF CommandFails
  <2> QED
    BY <1>27, <2>1, <2>2 DEF CommandFails
<1>28. ASSUME NEW c \in Channel, ManualRun(c) PROVE TypeOK'
  BY <1>28 DEF ManualRun, BeginRun
<1>29. ASSUME NEW c \in Channel, UserSetsChannel(c) PROVE TypeOK'
  BY <1>29 DEF UserSetsChannel, WriteChannelFile
<1>30. CASE TriggeredRun
  BY <1>30 DEF TriggeredRun, BeginRun
<1>31. CASE TriggerFails
  BY <1>31 DEF TriggerFails
<1>32. CASE Kill
  <2>1. triggered' \in BOOLEAN
    BY <1>32, EndOfRunFlag, Zenon DEF Kill, Exit
  <2> QED
    BY <1>32, <2>1 DEF Kill
<1>33. CASE Reboot
  <2>1. triggered' \in BOOLEAN
    BY <1>33, Zenon DEF Reboot, BootPath
  <2>2. pathActive' \in BOOLEAN
    BY <1>33 DEF Reboot, BootPath
  <2> QED
    BY <1>33, <2>1, <2>2 DEF Reboot, BootPath, OnDisk
<1>34. CASE UNCHANGED vars
  BY <1>34 DEF vars
<1> QED
  BY <1>1, <1>2, <1>3, <1>4, <1>5, <1>6, <1>7, <1>8, <1>9, <1>10, <1>11,
     <1>12, <1>13, <1>14, <1>15, <1>16, <1>17, <1>18, <1>19, <1>20, <1>21,
     <1>22, <1>23, <1>24, <1>25, <1>26, <1>27, <1>28, <1>29, <1>30, <1>31,
     <1>32, <1>33, <1>34
  DEF Next, Script, World

-----------------------------------------------------------------------------
(* The stages. *)

(* Nothing is claimed of a script that has ended or has just begun. *)
LEMMA NoStage ==
    ASSUME \/ pc' = "idle"
           \/ /\ pc' \in {"wipe", "copy", "legacy_exit", "fetch"}
              /\ payload' \in Payload
    PROVE  Stages'
BY DEF Stages, RunHasItsInput, Arrived, Installed, Enabled, Recorded, PathSleeps,
       AfterFetch, AfterPulls, AfterInstall, AfterEnable, Step

(* The actions that start or end a run, or leave its stage alone. *)
LEMMA StagesKept ==
    ASSUME Stages, [World]_vars PROVE Stages'
<1>1. ASSUME NEW c, NEW m, BeginRun(c, m) PROVE Stages'
  BY <1>1, NoStage DEF BeginRun
<1>2. CASE Kill \/ Reboot
  BY <1>2, NoStage DEF Kill, Reboot, Exit, Ended
<1>3. CASE TriggerFails \/ UNCHANGED vars
  BY <1>3
  DEF TriggerFails, vars, Stages, RunHasItsInput, Arrived, Installed, Enabled,
      Recorded, PathSleeps, runVars, hostVars, storeVars, triggerVars, Complete, Ref,
      Refs, Listed
<1>4. ASSUME NEW c \in Channel, UserSetsChannel(c) PROVE Stages'
  BY <1>4
  DEF UserSetsChannel, WriteChannelFile, Stages, RunHasItsInput, Arrived, Installed,
      Enabled, Recorded, PathSleeps, runVars, hostVars, storeVars, Complete, Ref, Refs,
      Listed
<1> QED
  BY <1>1, <1>2, <1>3, <1>4 DEF World, ManualRun, TriggeredRun

(* Every command of the script leads from the claims of its stage to the next. *)
LEMMA StagesStep ==
    ASSUME TypeOK, Stages, [Next]_vars PROVE Stages'
<1> USE PrepAssumption
    DEF Stages, RunHasItsInput, Arrived, Installed, Enabled, Recorded, PathSleeps,
        AfterFetch, AfterPulls, AfterInstall, AfterEnable, Step, Goto,
        Complete, Ref, Refs, Listed, storeVars
<1>1. CASE [World]_vars
  BY <1>1, StagesKept
<1>2. CASE \/ LegacyExit \/ FetchFails \/ RenderOnly \/ FinalizeReload \/ Finish
           \/ CommandFails
  BY <1>2, NoStage
  DEF LegacyExit, FetchFails, RenderOnly, FinalizeReload, Finish, CommandFails, Exit,
      Ended
<1>3. CASE WipeScripts \/ CopyScripts
  BY <1>3, NoStage DEF WipeScripts, CopyScripts
<1>4. ASSUME NEW b \in Build, FetchRelease(b) PROVE Stages'
  BY <1>4 DEF FetchRelease, hostVars, triggerVars
<1>5. ASSUME NEW i \in Image, NextImage(i) PROVE Stages'
  BY <1>5 DEF NextImage, triggerVars
<1>6. CASE PullSucceeds
  <2>1. CASE Exit("retrieve")
    BY <2>1, NoStage DEF Exit, Ended
  <2>2. CASE ~Exit("retrieve")
    <3>1. \A r : r \in docker /\ (Overlay /\ r \in broken => r \in unverified)
                   => r \in docker' /\ (Overlay /\ r \in broken' => r \in unverified')
      BY <1>6 DEF PullSucceeds
    <3> QED
      BY <1>6, <2>2, <3>1 DEF PullSucceeds, triggerVars
  <2> QED
    BY <2>1, <2>2
<1>7. CASE PullFails
  <2>1. CASE Exit("retrieve")
    BY <2>1, NoStage DEF Exit, Ended
  <2>2. CASE ~Exit("retrieve")
    BY <1>7, <2>2 DEF PullFails, triggerVars
  <2> QED
    BY <2>1, <2>2
<1>8. CASE VerifyImage
  <2>1. CASE Exit("damaged")
    BY <2>1, NoStage DEF Exit, Ended
  <2>2. CASE ~Exit("damaged")
    <3>1. /\ pc = "verify" /\ pc' = "state"
          /\ UNCHANGED <<mode, payload, build, todo, image, left, installed, enabled,
                         release, pathActive>>
      BY <1>8, <2>2 DEF VerifyImage, triggerVars
    <3>2. \A r : r \in docker /\ (Overlay /\ r \in broken => r \in unverified)
                   => r \in docker' /\ (Overlay /\ r \in broken' => r \in unverified')
      BY <1>8 DEF VerifyImage
    <3>3. Complete(Ref(build, image))'
      BY <1>8, <2>2, <3>1 DEF VerifyImage
    <3> QED
      BY <3>1, <3>2, <3>3
  <2> QED
    BY <2>1, <2>2
<1>9. CASE RecordImage \/ PullsDone \/ RenderTemplates \/ RemoveBrokenLinks
  BY <1>9
  DEF RecordImage, PullsDone, RenderTemplates, RemoveBrokenLinks, hostVars, triggerVars
<1>10. ASSUME NEW u \in Unit, RemoveUnit(u) PROVE Stages'
  BY <1>10 DEF RemoveUnit, runVars, triggerVars
<1>11. CASE CleanupDone
  BY <1>11 DEF CleanupDone, OnDisk, triggerVars, TypeOK
<1>12. ASSUME NEW u \in Unit, InstallUnit(u) PROVE Stages'
  BY <1>12 DEF InstallUnit, triggerVars, TypeOK
<1>13. CASE InstallDone
  BY <1>13 DEF InstallDone, hostVars, triggerVars
<1>14. CASE EnableUnits
  BY <1>14 DEF EnableUnits, OnDisk, triggerVars, TypeOK
<1>15. CASE KeepChannel \/ StopPath \/ WriteChannel \/ StartPath
  BY <1>15
  DEF KeepChannel, StopPath, WriteChannel, StartPath, SetPath, WriteChannelFile,
      hostVars, triggerVars
<1>16. CASE WriteNumber \/ WriteCodename \/ WriteNotes
  BY <1>16
  DEF WriteNumber, WriteCodename, WriteNotes, RecordRelease, triggerVars, TypeOK,
      ReleaseFile
<1>17. CASE Finalize
  BY <1>17 DEF Finalize, triggerVars
<1>18. CASE RemoveOldImages
  BY <1>18 DEF RemoveOldImages, triggerVars
<1> QED
  BY <1>1, <1>2, <1>3, <1>4, <1>5, <1>6, <1>7, <1>8, <1>9, <1>10, <1>11, <1>12,
     <1>13, <1>14, <1>15, <1>16, <1>17, <1>18
  DEF Next, Script

-----------------------------------------------------------------------------
(* The images of the installed units, and the trigger. *)

(* A reference that is complete stays so while docker pulls or is asked. *)
LEMMA PullKeepsComplete ==
    ASSUME PullSucceeds \/ VerifyImage, NEW r, Complete(r) PROVE Complete(r)'
BY DEF PullSucceeds, VerifyImage, Complete

(* Nothing but the script's own cleanup, install, pull and rmi can disturb it. *)
LEMMA UnitsHaveImagesKept ==
    ASSUME UnitsHaveImages, UNCHANGED <<installed, storeVars>>
    PROVE  UnitsHaveImages'
BY DEF UnitsHaveImages, Complete, storeVars

(* The few actions that touch what the box shows of its releases. *)
LEMMA HostStep ==
    ASSUME [Next]_vars
    PROVE  \/ PullSucceeds \/ VerifyImage \/ RemoveOldImages
           \/ WriteNumber \/ WriteCodename \/ WriteNotes
           \/ \E u \in Unit : RemoveUnit(u) \/ InstallUnit(u)
           \/ UNCHANGED <<installed, storeVars, release>>
<1> USE DEF hostVars, storeVars, Exit, Ended
<1>1. CASE [World]_vars
  BY <1>1
  DEF World, ManualRun, UserSetsChannel, TriggeredRun, TriggerFails, Kill, Reboot,
      BeginRun, vars
<1>2. CASE LegacyExit \/ WipeScripts \/ CopyScripts \/ FetchFails \/ RenderOnly
           \/ PullFails \/ RecordImage \/ PullsDone
           \/ RenderTemplates \/ RemoveBrokenLinks
  BY <1>2
  DEF LegacyExit, WipeScripts, CopyScripts, FetchFails, RenderOnly, PullFails,
      RecordImage, PullsDone,
      RenderTemplates, RemoveBrokenLinks
<1>3. CASE CleanupDone \/ InstallDone \/ EnableUnits \/ KeepChannel \/ StopPath
           \/ WriteChannel \/ StartPath
  BY <1>3
  DEF CleanupDone, InstallDone, EnableUnits, KeepChannel, StopPath, WriteChannel,
      StartPath
<1>4. CASE FinalizeReload \/ Finalize \/ Finish \/ CommandFails
  BY <1>4 DEF FinalizeReload, Finalize, Finish, CommandFails
<1>5. ASSUME NEW b \in Build, FetchRelease(b)
      PROVE  UNCHANGED <<installed, storeVars, release>>
  BY <1>5 DEF FetchRelease
<1>6. ASSUME NEW i \in Image, NextImage(i)
      PROVE  UNCHANGED <<installed, storeVars, release>>
  BY <1>6 DEF NextImage
<1> QED
  BY <1>1, <1>2, <1>3, <1>4, <1>5, <1>6 DEF Next, Script

(* A unit comes after its image and goes before it. *)
LEMMA UnitsHaveImagesStep ==
    ASSUME TypeOK, Stages, UnitsHaveImages, [Next]_vars PROVE UnitsHaveImages'
<1>1. CASE PullSucceeds \/ VerifyImage
  <2>1. UNCHANGED installed
    BY <1>1 DEF PullSucceeds, VerifyImage
  <2> QED
    BY <1>1, <2>1, PullKeepsComplete DEF UnitsHaveImages
<1>2. ASSUME NEW u \in Unit, RemoveUnit(u) PROVE UnitsHaveImages'
  <2>1. UNCHANGED storeVars
    BY <1>2 DEF RemoveUnit
  <2>2. \A v \in Unit : installed'[v] # NoBuild => installed'[v] = installed[v]
    BY <1>2 DEF RemoveUnit, TypeOK
  <2>3. Tracked \subseteq Unit
    BY PrepAssumption DEF Tracked
  <2> QED
    BY <2>1, <2>2, <2>3 DEF UnitsHaveImages, Complete, storeVars
<1>3. ASSUME NEW u \in Unit, InstallUnit(u) PROVE UnitsHaveImages'
  <2>1. UNCHANGED storeVars
    BY <1>3 DEF InstallUnit
  <2>2. \A v \in Unit : installed'[v] = IF v = u THEN build ELSE installed[v]
    BY <1>3 DEF InstallUnit, TypeOK
  <2>3. Uses(build, u) => Complete(Ref(build, ImageOf[u]))
    BY <1>3 DEF InstallUnit, Stages, Arrived, AfterPulls, AfterFetch, Step, Uses, Refs
  <2>4. Tracked \subseteq Unit
    BY PrepAssumption DEF Tracked
  <2> QED
    BY <2>1, <2>2, <2>3, <2>4 DEF UnitsHaveImages, Complete, storeVars
<1>4. CASE RemoveOldImages
  <2>1. UNCHANGED installed /\ \A r \in Refs(build) : Complete(r)'
    BY <1>4
    DEF RemoveOldImages, Stages, Arrived, AfterPulls, AfterFetch, Step, Complete
  <2>2. \A u \in Tracked : installed[u] \in {NoBuild, build}
    BY <1>4
    DEF RemoveOldImages, Stages, RunHasItsInput, Installed, AfterInstall, AfterPulls,
        AfterFetch, Step, Tracked
  <2> QED
    BY <2>1, <2>2 DEF UnitsHaveImages, Uses, Refs
<1>5. CASE UNCHANGED <<installed, storeVars>>
  BY <1>5, UnitsHaveImagesKept
<1>6. CASE WriteNumber \/ WriteCodename \/ WriteNotes
  BY <1>6, UnitsHaveImagesKept DEF WriteNumber, WriteCodename, WriteNotes, RecordRelease
<1> QED
  BY <1>1, <1>2, <1>3, <1>4, <1>5, <1>6, HostStep

(* Only WriteChannel writes as "prep", and it does while nobody watches. *)
LEMMA NoSelfTriggerStep ==
    ASSUME Stages, NoSelfTrigger, [Next]_vars PROVE NoSelfTrigger'
<1> USE DEF NoSelfTrigger, triggerVars, Exit, EndOfRun
<1>1. CASE WriteChannel
  BY <1>1 DEF WriteChannel, WriteChannelFile, Stages, PathSleeps
<1>2. CASE [World]_vars
  BY <1>2
  DEF World, ManualRun, UserSetsChannel, WriteChannelFile, TriggeredRun, TriggerFails,
      Kill, Reboot, BootPath, BeginRun, vars
<1>3. CASE LegacyExit \/ WipeScripts \/ CopyScripts \/ FetchFails \/ RenderOnly
           \/ PullSucceeds \/ PullFails \/ VerifyImage \/ RecordImage \/ PullsDone
           \/ RenderTemplates \/ RemoveBrokenLinks
  BY <1>3
  DEF LegacyExit, WipeScripts, CopyScripts, FetchFails, RenderOnly, PullSucceeds,
      PullFails, VerifyImage, RecordImage, PullsDone,
      RenderTemplates, RemoveBrokenLinks
<1>4. CASE CleanupDone \/ InstallDone \/ EnableUnits \/ KeepChannel \/ StopPath
           \/ StartPath
  BY <1>4
  DEF CleanupDone, InstallDone, EnableUnits, KeepChannel, StopPath, StartPath, SetPath
<1>5. CASE WriteNumber \/ WriteCodename \/ WriteNotes \/ FinalizeReload \/ Finalize
           \/ RemoveOldImages \/ Finish \/ CommandFails
  BY <1>5
  DEF WriteNumber, WriteCodename, WriteNotes, RecordRelease, FinalizeReload, Finalize,
      RemoveOldImages, Finish, CommandFails
<1>6. ASSUME NEW b \in Build, FetchRelease(b) PROVE NoSelfTrigger'
  BY <1>6 DEF FetchRelease
<1>7. ASSUME NEW i \in Image, NextImage(i) PROVE NoSelfTrigger'
  BY <1>7 DEF NextImage
<1>8. ASSUME NEW u \in Unit, RemoveUnit(u) \/ InstallUnit(u) PROVE NoSelfTrigger'
  BY <1>8 DEF RemoveUnit, InstallUnit
<1> QED
  BY <1>1, <1>2, <1>3, <1>4, <1>5, <1>6, <1>7, <1>8 DEF Next, Script

-----------------------------------------------------------------------------
(* The theorems. *)

(* The invariant holds at first and is kept by every step. *)
LEMMA Invariant == Spec => []IInv
<1>1. Init => IInv
  <2> SUFFICES ASSUME Init PROVE IInv
    OBVIOUS
  <2>1. TypeOK
    BY TypeInit
  <2>2. Stages
    BY DEF Init, Stages, RunHasItsInput, Arrived, Installed, Enabled, Recorded,
           PathSleeps, AfterFetch, AfterPulls, AfterInstall, AfterEnable, Step
  <2>3. UnitsHaveImages
    BY PrepAssumption DEF Init, UnitsHaveImages, Tracked
  <2> QED
    BY <2>1, <2>2, <2>3 DEF IInv, NoSelfTrigger, Init
<1>2. IInv /\ [Next]_vars => IInv'
  BY TypeStep, StagesStep, UnitsHaveImagesStep, NoSelfTriggerStep DEF IInv, Stages
<1> QED
  BY <1>1, <1>2, PTL DEF Spec

(* Every value the script and its world give to a variable has its type. *)
THEOREM TypeCorrect == Spec => []TypeOK
BY Invariant, PTL DEF IInv

(***************************************************************************)
(* Whatever releases the manifest names and wherever runs are cut off, a   *)
(* tracked unit on the disk has its image in the docker store.             *)
(***************************************************************************)
THEOREM InstalledUnitsHaveImages == Spec => []UnitsHaveImages
BY Invariant, PTL DEF IInv

(* The run's own write of the channel file never starts an update. *)
THEOREM RunsDoNotTriggerThemselves == Spec => []NoSelfTrigger
BY Invariant, PTL DEF IInv

-----------------------------------------------------------------------------
(* What single steps do. *)

(* Installed units change in two actions only, both after the downloads. *)
LEMMA DownloadsComeFirstStep ==
    ASSUME Stages, [Next]_vars, installed' # installed
    PROVE  \A r \in Refs(build) : Complete(r)
<1>1. \E u \in Unit : RemoveUnit(u) \/ InstallUnit(u)
  BY HostStep
  DEF PullSucceeds, VerifyImage, RemoveOldImages, WriteNumber, WriteCodename, WriteNotes,
      RecordRelease
<1>2. pc \in AfterPulls
  BY <1>1 DEF RemoveUnit, InstallUnit, AfterPulls, AfterFetch, Step
<1> QED
  BY <1>2 DEF Stages, Arrived

(* Once the units are enabled the release is deployed, and stays so. *)
LEMMA DeployedAfterEnable ==
    ASSUME Stages, pc \in AfterEnable PROVE Deployed
BY DEF Stages, Arrived, Installed, Enabled, AfterEnable, AfterInstall, AfterPulls,
       AfterFetch, Deployed

(* The release files change in three actions only. *)
LEMMA ReleaseIsDeployedStep ==
    ASSUME TypeOK, Stages, [Next]_vars, release' # release
    PROVE  Deployed /\ \A f \in ReleaseFile : release'[f] \in {release[f], build}
<1>1. WriteNumber \/ WriteCodename \/ WriteNotes
  BY HostStep DEF PullSucceeds, VerifyImage, RemoveOldImages, RemoveUnit, InstallUnit
<1>2. pc \in AfterEnable
  BY <1>1
  DEF WriteNumber, WriteCodename, WriteNotes, RecordRelease, AfterEnable, AfterInstall,
      AfterPulls, AfterFetch, Step
<1>3. \A f \in ReleaseFile : release'[f] \in {release[f], build}
  BY <1>1
  DEF WriteNumber, WriteCodename, WriteNotes, RecordRelease, ReleaseFile, TypeOK
<1> QED
  BY <1>2, <1>3, DeployedAfterEnable

(* Of the actions that end a run, three end it with exit status 0. *)
LEMMA SuccessMeansDeployedStep ==
    ASSUME TypeOK, Stages, [Next]_vars, rc = "running", rc' = "ok", mode # "templates"
    PROVE  Deployed' /\ \A f \in ReleaseFile : release'[f] = build
<1> USE DEF hostVars, storeVars, runVars, Exit, Ended, Goto
<1>1. FinalizeReload \/ Finish
  <2>1. ~[World]_vars
    BY DEF World, ManualRun, UserSetsChannel, TriggeredRun, TriggerFails, Kill, Reboot,
           BeginRun, vars
  <2>2. ~(\/ LegacyExit \/ WipeScripts \/ CopyScripts \/ FetchFails \/ RenderOnly
          \/ PullSucceeds \/ PullFails \/ VerifyImage \/ RecordImage \/ PullsDone
           \/ RenderTemplates \/ RemoveBrokenLinks)
    BY DEF LegacyExit, WipeScripts, CopyScripts, FetchFails, RenderOnly, PullSucceeds,
           PullFails, VerifyImage, RecordImage, PullsDone,
      RenderTemplates, RemoveBrokenLinks, Stages, RunHasItsInput
  <2>3. ~(\/ CleanupDone \/ InstallDone \/ EnableUnits \/ KeepChannel \/ StopPath
          \/ WriteChannel \/ StartPath)
    BY DEF CleanupDone, InstallDone, EnableUnits, KeepChannel, StopPath, WriteChannel,
           StartPath
  <2>4. ~(\/ WriteNumber \/ WriteCodename \/ WriteNotes \/ Finalize \/ RemoveOldImages
          \/ CommandFails)
    BY DEF WriteNumber, WriteCodename, WriteNotes, RecordRelease, Finalize,
           RemoveOldImages, CommandFails
  <2>5. \A b \in Build : ~FetchRelease(b)
    BY DEF FetchRelease
  <2>6. \A i \in Image : ~NextImage(i)
    BY DEF NextImage
  <2>7. \A u \in Unit : ~RemoveUnit(u) /\ ~InstallUnit(u)
    BY DEF RemoveUnit, InstallUnit
  <2> QED
    BY <2>1, <2>2, <2>3, <2>4, <2>5, <2>6, <2>7 DEF Next, Script
<1>2. pc \in {"finalize", "finish"}
  BY <1>1 DEF FinalizeReload, Finish
<1>3. Deployed
  BY <1>2, DeployedAfterEnable
  DEF AfterEnable, AfterInstall, AfterPulls, AfterFetch, Step
<1>4. UNCHANGED <<payload, build, installed, enabled, storeVars, release>>
  BY <1>1 DEF FinalizeReload, Finish
<1>5. \A f \in ReleaseFile : release[f] = build
  BY <1>2 DEF Stages, Recorded, ReleaseFile
<1> QED
  BY <1>3, <1>4, <1>5 DEF Deployed, Complete, Ref, Refs, Listed

(***************************************************************************)
(* A failed download leaves the old installation alone: no unit file is    *)
(* written or removed before every image of the release has arrived.       *)
(***************************************************************************)
THEOREM DownloadsBeforeUnits == Spec => DownloadsComeFirst
<1>1. IInv /\ [Next]_vars
        => [installed' # installed => \A r \in Refs(build) : Complete(r)]_vars
  BY DownloadsComeFirstStep DEF IInv
<1> QED
  BY <1>1, Invariant, PTL DEF Spec, DownloadsComeFirst

(* The release files never name a release that is not completely deployed. *)
THEOREM RecordedReleaseIsDeployed == Spec => ReleaseIsDeployed
<1>1. IInv /\ [Next]_vars
        => [release' # release =>
              (Deployed /\ \A f \in ReleaseFile : release'[f] \in {release[f], build})]_vars
  BY ReleaseIsDeployedStep DEF IInv
<1> QED
  BY <1>1, Invariant, PTL DEF Spec, ReleaseIsDeployed

(* Exit status 0 of an installing run: its release is deployed and recorded. *)
THEOREM SuccessfulRunsDeploy == Spec => SuccessMeansDeployed
<1>1. IInv /\ [Next]_vars
        => [(rc = "running" /\ rc' = "ok" /\ mode # "templates") =>
              /\ Deployed'
              /\ \A f \in ReleaseFile : release'[f] = build]_vars
  BY SuccessMeansDeployedStep DEF IInv
<1> QED
  BY <1>1, Invariant, PTL DEF Spec, SuccessMeansDeployed
-----------------------------------------------------------------------------
(* Prep implements Deployment. *)

(* What a tracked unit of the box runs, in the terms of both modules. *)
LEMMA InUseImages ==
    ASSUME TypeOK, NEW r
    PROVE  r \in Box!InUse <=>
             \E u \in Tracked : /\ installed[u] # NoBuild
                               /\ Uses(installed[u], u)
                               /\ r = Ref(installed[u], ImageOf[u])
<1>1. Tracked \subseteq Unit
  BY PrepAssumption DEF Tracked
<1> QED
  BY <1>1 DEF Box!InUse, TypeOK

(* Every step of Prep is one of Deployment or does not show. *)
LEMMA DeploymentStep ==
    ASSUME TypeOK, Stages, [Next]_vars
    PROVE  [Box!Next]_<<Intact, installed, release>>
<1>1. CASE PullSucceeds \/ VerifyImage
  <2> DEFINE r == Ref(build, image)
  <2>1. UNCHANGED <<installed, release>>
    BY <1>1 DEF PullSucceeds, VerifyImage
  <2>2. Intact' \in {Intact, Intact \union {r}}
    BY <1>1, PullKeepsComplete DEF PullSucceeds, VerifyImage, Intact, Complete
  <2>3. build \in Build /\ r \in Refs(build)
    BY <1>1
    DEF PullSucceeds, VerifyImage, Stages, RunHasItsInput, Arrived, AfterFetch, Step, Refs
  <2>4. r \in UNION {[b \in Build |-> Refs(b)][c] : c \in Build}
    BY <2>3
  <2> QED
    BY <2>1, <2>2, <2>4 DEF Box!Next, Box!Arrive
<1>2. CASE RemoveOldImages
  <2>1. UNCHANGED <<installed, release>>
    BY <1>2 DEF RemoveOldImages
  <2>2. Intact' \subseteq Intact /\ Intact \intersect Refs(build) \subseteq Intact'
    BY <1>2 DEF RemoveOldImages, Intact, Complete
  <2>3. \A u \in Tracked : installed[u] \in {NoBuild, build}
    BY <1>2
    DEF RemoveOldImages, Stages, RunHasItsInput, Installed, AfterInstall, AfterPulls,
        AfterFetch, Step, Tracked
  <2>4. Box!InUse \subseteq Refs(build)
    BY <2>3, InUseImages DEF Uses, Refs
  <2>5. (Intact \ Intact') \subseteq Intact \ Box!InUse
    BY <2>2, <2>4
  <2>6. Intact' = Intact \ (Intact \ Intact')
    BY <2>2
  <2> QED
    BY <2>1, <2>5, <2>6 DEF Box!Next, Box!Prune
<1>3. ASSUME NEW u \in Unit, RemoveUnit(u) \/ InstallUnit(u)
      PROVE  Box!Change(u, build) /\ build \in Build
  <2>1. UNCHANGED <<Intact, release>>
    BY <1>3 DEF RemoveUnit, InstallUnit, Intact, Complete, storeVars
  <2>2. pc \in AfterPulls
    BY <1>3 DEF RemoveUnit, InstallUnit, AfterPulls, AfterFetch, Step
  <2>3. build \in Build /\ Refs(build) \subseteq Intact
    BY <2>2 DEF Stages, RunHasItsInput, Arrived, AfterPulls, Intact, Complete
  <2>4. \E new \in {build, NoBuild} : installed' = [installed EXCEPT ![u] = new]
    BY <1>3 DEF RemoveUnit, InstallUnit
  <2> QED
    BY <2>1, <2>3, <2>4 DEF Box!Change
<1>4. ASSUME NEW f \in ReleaseFile, release' = [release EXCEPT ![f] = build],
             pc \in AfterEnable, UNCHANGED <<installed, storeVars>>
      PROVE  Box!Record(f, build) /\ build \in Build
  <2>1. UNCHANGED <<Intact, installed>>
    BY <1>4 DEF Intact, Complete, storeVars
  <2>2. build \in Build /\ payload \in Payload
    BY <1>4
    DEF Stages, RunHasItsInput, AfterEnable, AfterInstall, AfterPulls, AfterFetch, Step
  <2>3. Refs(build) \subseteq Intact
    BY <1>4, DeployedAfterEnable DEF Deployed, Intact, Complete
  <2>4. /\ \A u \in payload : installed[u] = build
        /\ \A u \in Marked \ payload : installed[u] = NoBuild
    BY <1>4, DeployedAfterEnable DEF Deployed
  <2> QED
    BY <1>4, <2>1, <2>2, <2>3, <2>4 DEF Box!Record, Box!Shows
<1>5. CASE WriteNumber \/ WriteCodename \/ WriteNotes
  <2>1. /\ pc \in AfterEnable
        /\ UNCHANGED <<installed, storeVars>>
        /\ \E f \in ReleaseFile : release' = [release EXCEPT ![f] = build]
    BY <1>5
    DEF WriteNumber, WriteCodename, WriteNotes, RecordRelease, ReleaseFile, AfterEnable,
        AfterInstall, AfterPulls, AfterFetch, Step
  <2> QED
    BY <1>4, <2>1 DEF Box!Next
<1>6. CASE UNCHANGED <<installed, storeVars, release>>
  BY <1>6 DEF Intact, Complete, storeVars
<1> QED
  BY <1>1, <1>2, <1>3, <1>5, <1>6, HostStep DEF Box!Next

(***************************************************************************)
(* Every behaviour of the script, interrupted anywhere and any number of   *)
(* times, is one of a box that changes units only to releases it has the   *)
(* images of and records only what it shows.                               *)
(***************************************************************************)
THEOREM PrepImplementsDeployment == Spec => ImplementsDeployment
<1>1. Init => Box!Init
  BY DEF Init, Box!Init, Intact
<1>2. IInv /\ [Next]_vars => [Box!Next]_<<Intact, installed, release>>
  BY DeploymentStep DEF IInv
<1> QED
  BY <1>1, <1>2, Invariant, PTL DEF Spec, ImplementsDeployment, Box!Spec
-----------------------------------------------------------------------------
(* The script that a later trigger runs. *)

(* What a run has copied stays until the next one begins. *)
ScriptsInPlace ==
    \/ pc = "idle" /\ rc \notin {"ok", "legacy", "fetch", "retrieve", "damaged"}
    \/ pc \in {"wipe", "copy"}
    \/ scripts

LEMMA ScriptsInPlaceStep ==
    ASSUME ScriptsInPlace, [Next]_vars PROVE ScriptsInPlace'
<1> USE DEF ScriptsInPlace, hostVars, storeVars, Exit, Ended, Goto
<1>1. CASE [World]_vars
  BY <1>1
  DEF World, ManualRun, UserSetsChannel, TriggeredRun, TriggerFails, Kill, Reboot,
      BeginRun, vars, runVars
<1>2. CASE \/ LegacyExit \/ WipeScripts \/ CopyScripts \/ FetchFails \/ RenderOnly
           \/ PullSucceeds \/ PullFails \/ VerifyImage \/ RecordImage \/ PullsDone
           \/ RenderTemplates \/ RemoveBrokenLinks
  BY <1>2
  DEF LegacyExit, WipeScripts, CopyScripts, FetchFails, RenderOnly, PullSucceeds,
      PullFails, VerifyImage, RecordImage, PullsDone,
      RenderTemplates, RemoveBrokenLinks
<1>3. CASE \/ CleanupDone \/ InstallDone \/ EnableUnits \/ KeepChannel \/ StopPath
           \/ WriteChannel \/ StartPath
  BY <1>3
  DEF CleanupDone, InstallDone, EnableUnits, KeepChannel, StopPath, WriteChannel,
      StartPath
<1>4. CASE \/ WriteNumber \/ WriteCodename \/ WriteNotes \/ FinalizeReload \/ Finalize
           \/ RemoveOldImages \/ Finish \/ CommandFails
  BY <1>4
  DEF WriteNumber, WriteCodename, WriteNotes, RecordRelease, FinalizeReload, Finalize,
      RemoveOldImages, Finish, CommandFails
<1>5. ASSUME NEW b \in Build, FetchRelease(b) PROVE ScriptsInPlace'
  BY <1>5 DEF FetchRelease
<1>6. ASSUME NEW i \in Image, NextImage(i) PROVE ScriptsInPlace'
  BY <1>6 DEF NextImage
<1>7. ASSUME NEW u \in Unit, RemoveUnit(u) \/ InstallUnit(u) PROVE ScriptsInPlace'
  BY <1>7 DEF RemoveUnit, InstallUnit, runVars
<1> QED
  BY <1>1, <1>2, <1>3, <1>4, <1>5, <1>6, <1>7 DEF Next, Script

(***************************************************************************)
(* A download that fails leaves the script in place with which the trigger *)
(* can try again, whatever was cut off before.                             *)
(***************************************************************************)
THEOREM FailedDownloadsCanBeRetried == Spec => []RetryIsPossible
<1>1. Init => ScriptsInPlace
  BY DEF Init, ScriptsInPlace
<1>2. ScriptsInPlace /\ [Next]_vars => ScriptsInPlace'
  BY ScriptsInPlaceStep
<1>3. ScriptsInPlace => RetryIsPossible
  BY DEF ScriptsInPlace, RetryIsPossible
<1> QED
  BY <1>1, <1>2, <1>3, PTL DEF Spec
=============================================================================
