-------------------------------- MODULE Prep --------------------------------
(***************************************************************************)
(* prep.sh: the configure run that brings a box to a release.  It installs *)
(* the utility scripts, fetches the release manifest, pulls every image,   *)
(* renders the unit templates, replaces the units under /etc/systemd,      *)
(* enables them, records channel and release, and removes the images of    *)
(* older releases.  The script runs under set -e, may be killed or cut off *)
(* by a reboot between any two commands, and is run again later, possibly  *)
(* for another release.                                                    *)
(*                                                                         *)
(* One action is one command (or one round of a loop) that changes state   *)
(* outside the script.  One run is in progress at a time.                  *)
(***************************************************************************)
EXTENDS Naturals, FiniteSets, TriggerUpdate

CONSTANTS
    Unit,          \* unit files shipped in /services, in any version
    PathUnit,      \* trigger-update-protonet.path, one of them
    Marked,        \* the units that carry the line '# ExperimentalPlatform'
    Payload,       \* the sets of units a configure image may ship
    Image,         \* repositories on quay.io
    NoImage,       \* a unit that runs no image of the platform
    ImageOf,       \* [Unit -> Image \union {NoImage}]
    Build,         \* releases a manifest may name as its newest
    NoBuild,       \* no release recorded; also: unit not installed
    Tag,           \* image tags
    Manifest,      \* [Build -> [a set of images -> Tag]]
    Overlay,       \* docker uses the overlay driver: layers are verified
    MaxRetries,    \* MAXRETRIES in download_and_verify_image, 10 in the code
    MaxRuns        \* bound: number of configure runs

Listed(b) == DOMAIN Manifest[b]

(* IMGTAGLIST: the references a release consists of. *)
Ref(b, i)  == <<i, Manifest[b][i]>>
Refs(b)    == {Ref(b, i) : i \in Listed(b)}

ASSUME PrepAssumption ==
    /\ PathUnit \in Unit
    /\ Marked \subseteq Unit
    /\ Payload \subseteq SUBSET Unit
    /\ NoImage \notin Image
    /\ ImageOf \in [Unit -> Image \union {NoImage}]
    /\ NoBuild \notin Build
    /\ NoChannel \notin Channel
    /\ \A b \in Build : /\ Listed(b) \subseteq Image
                        /\ Manifest[b] \in [Listed(b) -> Tag]
    /\ Overlay \in BOOLEAN
    /\ MaxRetries \in Nat
    /\ MaxRuns \in Nat

VARIABLES
    pc,            \* next command of the script; "idle": no run in progress
    mode,          \* how the environment configures the run
    chan,          \* $CHANNEL
    payload,       \* the units in the container's /services
    build,         \* $NEWBUILDNUMBER, whose manifest is in IMGTAGLIST
    todo,          \* images that pull_all_images has not finished
    image,         \* the image being pulled
    retries,       \* $RETRIES
    left,          \* units that cp /services/* has not copied yet
    rc,            \* how the last run ended; "running" while it runs
    runs,          \* number of runs started
    scripts,       \* /etc/systemd/system/scripts is complete
    installed,     \* [Unit -> release it was rendered from, or NoBuild]
    enabled,       \* units with their links in the .wants directories
    docker,        \* image references in the local docker store
    broken,        \* those of them whose layers did not all arrive
    unverified,    \* those of the broken ones that a run has accepted unseen
    status,        \* configure-script-status
    release        \* release_number, codename and release_notes_url

runVars  == <<pc, mode, chan, payload, build, todo, image, retries, left, rc, runs>>
storeVars == <<docker, broken, unverified>>
hostVars == <<scripts, installed, enabled, storeVars, status, release>>
vars     == <<runVars, hostVars, triggerVars>>

Mode == {"reboot", "reload", "templates", "legacy"}
ReleaseFile == {"number", "codename", "notes"}
Status == {"none", "downloading_image", "finalizing", "legacy"}

(* How a run ends.  Only "ok" is exit status 0. *)
Outcome == {"ok", "legacy", "fetch", "retrieve", "damaged", "error", "killed"}

Step == {"wipe", "copy", "legacy_exit", "fetch", "render_only", "pull", "try",
         "verify", "state", "render", "links", "cleanup", "install", "enable",
         "channel", "write_channel", "start_path", "number", "codename", "notes",
         "finalize", "remove", "finish"}

TypeOK ==
    /\ TriggerTypeOK
    /\ pc \in Step \union {"idle"}
    /\ mode \in Mode
    /\ chan \in Channel \union {NoChannel}
    /\ payload \in Payload \union {{}}
    /\ build \in Build \union {NoBuild}
    /\ todo \subseteq Image
    /\ image \in Image \union {NoImage}
    /\ retries \in 0..MaxRetries
    /\ left \subseteq Unit
    /\ rc \in Outcome \union {"none", "running"}
    /\ runs \in 0..MaxRuns
    /\ scripts \in BOOLEAN
    /\ installed \in [Unit -> Build \union {NoBuild}]
    /\ enabled \subseteq Unit
    /\ docker \subseteq (Image \X Tag)
    /\ broken \subseteq docker
    /\ unverified \subseteq broken
    /\ status \in Status
    /\ release \in [ReleaseFile -> Build \union {NoBuild}]

(* A box that has never been configured. *)
Init ==
    /\ pc = "idle" /\ mode = "reboot" /\ chan = NoChannel
    /\ payload = {} /\ build = NoBuild
    /\ todo = {} /\ image = NoImage /\ retries = 0 /\ left = {}
    /\ rc = "none" /\ runs = 0
    /\ scripts = FALSE
    /\ installed = [u \in Unit |-> NoBuild]
    /\ enabled = {}
    /\ docker = {} /\ broken = {} /\ unverified = {}
    /\ status = "none"
    /\ release = [f \in ReleaseFile |-> NoBuild]
    /\ channelFile = NoChannel
    /\ pathActive = FALSE /\ triggered = FALSE /\ pending = "nobody"

-----------------------------------------------------------------------------
(* What happens when the script ends. *)

(* The shell is gone and its variables with it; what the last run that
   succeeded was for is kept. *)
Ended ==
    /\ pc' = "idle"
    /\ mode' = "reboot" /\ chan' = NoChannel
    /\ todo' = {} /\ image' = NoImage /\ retries' = 0 /\ left' = {}
    /\ IF rc' = "ok"
         THEN UNCHANGED <<payload, build>>
         ELSE payload' = {} /\ build' = NoBuild
    /\ UNCHANGED runs

(* The script leaves through its EXIT trap, which only sets the button. *)
Exit(why) ==
    /\ rc' = why
    /\ Ended
    /\ EndOfRun

Goto(step) ==
    /\ pc' = step
    /\ UNCHANGED <<mode, chan, payload, build, rc, runs>>

-----------------------------------------------------------------------------
(* Starting a run. *)

(* The container starts and setup_paths makes the directories. *)
BeginRun(c, m) ==
    /\ pc = "idle"
    /\ runs < MaxRuns
    /\ runs' = runs + 1
    /\ mode' = m
    /\ \E p \in Payload : payload' = p
    /\ chan' = c
    /\ pc' = "wipe"
    /\ rc' = "running"
    /\ build' = NoBuild
    /\ todo' = {} /\ image' = NoImage /\ retries' = 0 /\ left' = {}
    /\ UNCHANGED <<scripts, installed, enabled, storeVars, status, release>>

(* Someone at the console runs the configure script for a channel. *)
ManualRun(c) ==
    /\ \E m \in Mode : BeginRun(c, m)
    /\ UNCHANGED triggerVars

(* The trigger service runs the configure script that is on the disk, for an
   update that ends in a reboot (its ExecStart says --reboot). *)
TriggeredRun ==
    /\ pending # "nobody"
    /\ channelFile # NoChannel
    /\ scripts
    /\ BeginRun(channelFile, "reboot")
    /\ pending' = "nobody"
    /\ triggered' = TRUE
    /\ UNCHANGED <<channelFile, pathActive>>

(* ... and fails if that script is missing. *)
TriggerFails ==
    /\ pending # "nobody"
    /\ pc = "idle"
    /\ ~scripts
    /\ pending' = "nobody"
    /\ UNCHANGED <<runVars, hostVars, channelFile, pathActive, triggered>>

-----------------------------------------------------------------------------
(* rescue_legacy_script, setup_utility_scripts *)

(* A wrong variant: the scripts are copied when the downloads are done. *)
WipeAndCopyLater ==
    /\ pc = "wipe"
    /\ scripts' = FALSE
    /\ Goto("fetch")
    /\ UNCHANGED <<todo, image, retries, left, installed, enabled,
                   storeVars, status, release, triggerVars>>

(***************************************************************************)
(* setup_utility_scripts works on the same directory of the host in every  *)
(* mode: a legacy script has mounted the host's /etc as /data.             *)
(***************************************************************************)
WipeScripts ==
    /\ pc = "wipe"
    /\ scripts' = FALSE
    /\ Goto("copy")
    /\ UNCHANGED <<todo, image, retries, left, installed, enabled,
                   storeVars, status, release, triggerVars>>

CopyScripts ==
    /\ pc = "copy"
    /\ scripts' = TRUE
    /\ Goto(IF mode = "legacy" THEN "legacy_exit" ELSE "fetch")
    /\ UNCHANGED <<todo, image, retries, left, installed, enabled,
                   storeVars, status, release, triggerVars>>

(* /host-bin is there: the status says RUN UPDATE AGAIN, the exit status is 42. *)
LegacyExit ==
    /\ pc = "legacy_exit"
    /\ status' = "legacy"
    /\ Exit("legacy")
    /\ UNCHANGED <<scripts, installed, enabled, storeVars, release>>

-----------------------------------------------------------------------------
(* fetch_release_data *)

FetchRelease(b) ==
    /\ pc = "fetch"
    /\ build' = b
    /\ todo' = Listed(b)
    /\ pc' = IF mode = "templates" THEN "render_only" ELSE "pull"
    /\ UNCHANGED <<mode, chan, payload, image, retries, left, rc, runs,
                   hostVars, triggerVars>>

FetchFails ==
    /\ pc = "fetch"
    /\ Exit("fetch")
    /\ UNCHANGED <<scripts, installed, enabled, storeVars, status, release>>

(* TEMPLATES_ONLY: render into the container and leave with exit 0. *)
RenderOnly ==
    /\ pc = "render_only"
    /\ Exit("ok")
    /\ UNCHANGED <<scripts, installed, enabled, storeVars, status, release>>

-----------------------------------------------------------------------------
(* pull_all_images, download_and_verify_image *)

(* The keys of a bash array come in no particular order. *)
NextImage(i) ==
    /\ pc = "pull" /\ i \in todo
    /\ status' = "downloading_image"
    /\ image' = i
    /\ retries' = 0
    /\ Goto("try")
    /\ UNCHANGED <<todo, left, scripts, installed, enabled,
                   storeVars, release, triggerVars>>

(***************************************************************************)
(* docker pull succeeds.  A reference that is complete already stays so;   *)
(* any other may arrive damaged.  The loop tests the retry counter after   *)
(* it, so the last permitted pull counts as a failure whatever it did.     *)
(***************************************************************************)
PullSucceeds ==
    /\ pc = "try"
    /\ LET r == Ref(build, image) IN
         /\ docker' = docker \union {r}
         /\ \/ broken' = broken \ {r}
            \/ r \notin docker \ broken /\ broken' = broken \union {r}
         /\ unverified' = unverified \intersect broken'
    /\ \/ /\ retries # MaxRetries
          /\ Goto("verify")
          /\ UNCHANGED <<todo, image, retries, left, triggerVars>>
       \/ /\ retries = MaxRetries
          /\ Exit("retrieve")
    /\ UNCHANGED <<scripts, installed, enabled, status, release>>

(* A wrong variant: the loop forgets MAXRETRIES. *)
PullFailsForever ==
    /\ pc = "try"
    /\ retries' = retries + 1
    /\ UNCHANGED <<pc, mode, chan, payload, build, todo, image, left, rc, runs,
                   hostVars, triggerVars>>

PullFails ==
    /\ pc = "try"
    /\ \/ /\ retries # MaxRetries
          /\ retries' = retries + 1
          /\ UNCHANGED <<pc, mode, chan, payload, build, todo, image, left, rc,
                         runs, triggerVars>>
       \/ /\ retries = MaxRetries
          /\ Exit("retrieve")
    /\ UNCHANGED <<scripts, installed, enabled, storeVars, status, release>>

(***************************************************************************)
(* What a run may count on: the reference is in the docker store, and with *)
(* the overlay driver all its layers are, unless a run has accepted it     *)
(* unseen.                                                                 *)
(***************************************************************************)
Complete(r) ==
    /\ r \in docker
    /\ (Overlay /\ r \in broken) => r \in unverified

(* A wrong variant: the layers are looked at and what is missing is ignored. *)
VerifyNothing ==
    /\ pc = "verify"
    /\ Goto("state")
    /\ UNCHANGED <<todo, image, retries, left, hostVars, triggerVars>>

(* A wrong variant: a damaged image is pulled again, as often as it takes. *)
VerifyAndPullAgain ==
    /\ pc = "verify"
    /\ IF Complete(Ref(build, image)) THEN Goto("state") ELSE Goto("try")
    /\ UNCHANGED <<todo, image, retries, left, hostVars, triggerVars>>

(***************************************************************************)
(* With the overlay driver every layer is looked up on the disk, and the   *)
(* run ends if one is missing.  A `docker info` or `docker history` that   *)
(* fails does not end it: the first stands in a `local` assignment, the    *)
(* second in the word list of a `for`, where set -e sees neither, and the  *)
(* image passes without having been looked at.                             *)
(***************************************************************************)
VerifyImage ==
    /\ pc = "verify"
    /\ LET r == Ref(build, image) IN
         \/ /\ ~Overlay \/ r \notin broken
            /\ Goto("state")
            /\ UNCHANGED <<todo, image, retries, left, unverified, triggerVars>>
         \/ /\ Overlay /\ r \in broken
            /\ unverified' = unverified \union {r}
            /\ Goto("state")
            /\ UNCHANGED <<todo, image, retries, left, triggerVars>>
         \/ /\ Overlay /\ r \in broken
            /\ Exit("damaged")
            /\ UNCHANGED unverified
    /\ UNCHANGED <<scripts, installed, enabled, docker, broken, status, release>>

(***************************************************************************)
(* The id of the image is written below IMAGE_STATE_DIR.  Nothing in the   *)
(* repository reads these files, so their content is left out; a mkdir or  *)
(* a write that fails ends the run here (CommandFails).  The function      *)
(* returns; its variables are not read again before the next call sets     *)
(* them.                                                                   *)
(***************************************************************************)
RecordImage ==
    /\ pc = "state"
    /\ todo' = todo \ {image}
    /\ image' = NoImage /\ retries' = 0
    /\ Goto("pull")
    /\ UNCHANGED <<left, hostVars, triggerVars>>

PullsDone ==
    /\ pc = "pull" /\ todo = {}
    /\ Goto("render")
    /\ UNCHANGED <<todo, image, retries, left, hostVars, triggerVars>>

-----------------------------------------------------------------------------
(* parse_all_templates, cleanup_systemd, setup_systemd *)

RenderTemplates ==
    /\ pc = "render"
    /\ Goto("links")
    /\ UNCHANGED <<todo, image, retries, left, hostVars, triggerVars>>

OnDisk == {u \in Unit : installed[u] # NoBuild}

(* The first find: links that an earlier run has left without their file. *)
RemoveBrokenLinks ==
    /\ pc = "links"
    /\ enabled' = enabled \intersect OnDisk
    /\ Goto("cleanup")
    /\ UNCHANGED <<todo, image, retries, left, scripts, installed, storeVars,
                   status, release, triggerVars>>

(* rm of the unit files that carry the mark, one after the other. *)
RemoveUnit(u) ==
    /\ pc = "cleanup" /\ u \in Marked \intersect OnDisk
    /\ installed' = [installed EXCEPT ![u] = NoBuild]
    /\ UNCHANGED <<runVars, scripts, enabled, storeVars, status,
                   release, triggerVars>>

(* A wrong variant: the cleanup stops before it has found every marked file. *)
CleanupEarly ==
    /\ pc = "cleanup"
    /\ enabled' = enabled \intersect OnDisk
    /\ left' = payload
    /\ Goto("install")
    /\ UNCHANGED <<todo, image, retries, scripts, installed, storeVars,
                   status, release, triggerVars>>

(* The second find: links to unit files that are gone are removed. *)
CleanupDone ==
    /\ pc = "cleanup" /\ Marked \intersect OnDisk = {}
    /\ enabled' = enabled \intersect OnDisk
    /\ left' = payload
    /\ Goto("install")
    /\ UNCHANGED <<todo, image, retries, scripts, installed, storeVars,
                   status, release, triggerVars>>

(* cp /services/*, one file after the other. *)
InstallUnit(u) ==
    /\ pc = "install" /\ u \in left
    /\ installed' = [installed EXCEPT ![u] = build]
    /\ left' = left \ {u}
    /\ UNCHANGED <<pc, mode, chan, payload, build, todo, image, retries, rc,
                   runs, scripts, enabled, storeVars, status,
                   release, triggerVars>>

(* The other config files are copied and systemd reads its units again. *)
InstallDone ==
    /\ pc = "install" /\ left = {}
    /\ Goto("enable")
    /\ UNCHANGED <<todo, image, retries, left, hostVars, triggerVars>>

(* A wrong variant: only the .path files are enabled. *)
EnablePathsOnly ==
    /\ pc = "enable"
    /\ enabled' = enabled \union (OnDisk \intersect {PathUnit})
    /\ Goto("channel")
    /\ UNCHANGED <<todo, image, retries, left, scripts, installed,
                   storeVars, status, release, triggerVars>>

(* EnableUnitFiles for every file of the directory, then for the .path files. *)
EnableUnits ==
    /\ pc = "enable"
    /\ enabled' = enabled \union OnDisk
    /\ Goto("channel")
    /\ UNCHANGED <<todo, image, retries, left, scripts, installed,
                   storeVars, status, release, triggerVars>>

-----------------------------------------------------------------------------
(* setup_channel_file *)

KeepChannel ==
    /\ pc = "channel" /\ channelFile = chan
    /\ Goto("number")
    /\ UNCHANGED <<todo, image, retries, left, hostVars, triggerVars>>

(* A wrong variant: the path unit is not stopped. *)
StopNothing ==
    /\ pc = "channel" /\ channelFile # chan
    /\ Goto("write_channel")
    /\ UNCHANGED <<todo, image, retries, left, hostVars, triggerVars>>

(* StopUnit; the sleep after it is long enough for the stop to happen. *)
StopPath ==
    /\ pc = "channel" /\ channelFile # chan
    /\ SetPath(FALSE)
    /\ Goto("write_channel")
    /\ UNCHANGED <<todo, image, retries, left, hostVars>>

WriteChannel ==
    /\ pc = "write_channel"
    /\ WriteChannelFile(chan, "prep")
    /\ Goto("start_path")
    /\ UNCHANGED <<todo, image, retries, left, hostVars>>

StartPath ==
    /\ pc = "start_path"
    /\ SetPath(TRUE)
    /\ Goto("number")
    /\ UNCHANGED <<todo, image, retries, left, hostVars>>

-----------------------------------------------------------------------------
(* finalize, remove_old_images *)

RecordRelease(file, from, to) ==
    /\ pc = from
    /\ release' = [release EXCEPT ![file] = build]
    /\ Goto(to)
    /\ UNCHANGED <<todo, image, retries, left, scripts, installed,
                   enabled, storeVars, status, triggerVars>>

WriteNumber   == RecordRelease("number", "number", "codename")
WriteCodename == RecordRelease("codename", "codename", "notes")
WriteNotes    == RecordRelease("notes", "notes", "finalize")

(* PLATFORM_INSTALL_RELOAD: init-protonet is restarted and the script exits. *)
FinalizeReload ==
    /\ pc = "finalize" /\ mode = "reload"
    /\ status' = "finalizing"
    /\ Exit("ok")
    /\ UNCHANGED <<scripts, installed, enabled, storeVars, release>>

Finalize ==
    /\ pc = "finalize" /\ mode # "reload"
    /\ status' = "finalizing"
    /\ Goto("remove")
    /\ UNCHANGED <<todo, image, retries, left, scripts, installed,
                   enabled, storeVars, release, triggerVars>>

(* A wrong variant: comm without -23, the images of this release go as well. *)
RemoveAllImages ==
    /\ pc = "remove"
    /\ \E gone \in SUBSET docker :
         /\ docker' = docker \ gone
         /\ broken' = broken \ gone
         /\ unverified' = unverified \ gone
    /\ Goto("finish")
    /\ UNCHANGED <<todo, image, retries, left, scripts, installed,
                   enabled, status, release, triggerVars>>

(***************************************************************************)
(* docker rmi of every platform image that is not of this release; it      *)
(* fails for those a container uses, and PLATFORM_REMOVE_OLD_IMAGES may    *)
(* turn it off altogether.                                                 *)
(***************************************************************************)
RemoveOldImages ==
    /\ pc = "remove"
    /\ \E gone \in SUBSET (docker \ Refs(build)) :
         /\ docker' = docker \ gone
         /\ broken' = broken \ gone
         /\ unverified' = unverified \ gone
    /\ Goto("finish")
    /\ UNCHANGED <<todo, image, retries, left, scripts, installed,
                   enabled, status, release, triggerVars>>

(* The trap is cleared: the script leaves with exit status 0. *)
Finish ==
    /\ pc = "finish"
    /\ Exit("ok")
    /\ UNCHANGED hostVars

-----------------------------------------------------------------------------
(* What may go wrong, and the world around the script. *)

(***************************************************************************)
(* set -e: any command that is not guarded by a test may fail, before it   *)
(* has changed anything; only the find that empties the directory of the   *)
(* scripts may have begun.  Fetch, pull and verification have failures of  *)
(* their own.                                                              *)
(***************************************************************************)
Guarded == {"idle", "fetch", "try", "verify", "finish"}

CommandFails ==
    /\ pc \notin Guarded
    /\ Exit("error")
    /\ \/ UNCHANGED scripts
       \/ pc = "wipe" /\ scripts' = FALSE
    /\ UNCHANGED <<installed, enabled, storeVars, status, release>>

(* SIGKILL.  SIGINT and SIGTERM do not end the run: their trap only turns
   the button to "error" and the script goes on. *)
Kill ==
    /\ pc # "idle"
    /\ Exit("killed")
    /\ UNCHANGED hostVars

Reboot ==
    /\ rc' = IF pc = "idle" THEN rc ELSE "killed"
    /\ Ended
    /\ BootPath(PathUnit \in enabled \intersect OnDisk)
    /\ UNCHANGED hostVars

(* The user picks a channel: the key-value store writes the file. *)
UserSetsChannel(c) ==
    /\ channelFile # c
    /\ WriteChannelFile(c, "user")
    /\ UNCHANGED <<runVars, hostVars>>

Script ==
    \/ LegacyExit \/ WipeScripts \/ CopyScripts
    \/ (\E b \in Build : FetchRelease(b)) \/ FetchFails \/ RenderOnly
    \/ (\E i \in Image : NextImage(i))
    \/ PullSucceeds \/ PullFails \/ VerifyImage \/ RecordImage \/ PullsDone
    \/ RenderTemplates \/ RemoveBrokenLinks
    \/ (\E u \in Unit : RemoveUnit(u) \/ InstallUnit(u))
    \/ CleanupDone \/ InstallDone \/ EnableUnits
    \/ KeepChannel \/ StopPath \/ WriteChannel \/ StartPath
    \/ WriteNumber \/ WriteCodename \/ WriteNotes
    \/ FinalizeReload \/ Finalize \/ RemoveOldImages \/ Finish
    \/ CommandFails

World ==
    \/ (\E c \in Channel : ManualRun(c) \/ UserSetsChannel(c))
    \/ TriggeredRun \/ TriggerFails
    \/ Kill \/ Reboot

Next == Script \/ World

Spec == Init /\ [][Next]_vars

(* A script that is not killed goes on: the shell runs its next command. *)
FairSpec == Spec /\ WF_vars(Script)

-----------------------------------------------------------------------------
(* Properties. *)

(***************************************************************************)
(* The units whose file every run takes care of: those that cleanup_systemd*)
(* recognises by their mark, and those that every release ships and so     *)
(* overwrites.                                                             *)
(***************************************************************************)
Tracked == Marked \union {u \in Unit : \A p \in Payload : u \in p}

Uses(b, u) == ImageOf[u] \in Listed(b)

(***************************************************************************)
(* Wherever a run fails, is killed or is cut off by a reboot, and whatever *)
(* release the next run is for: a tracked unit on the disk finds the image *)
(* it names in the docker store, with all its layers if docker uses        *)
(* overlay, unless a run accepted it while docker info or docker history   *)
(* failed.  remove_old_images never takes the image of an installed unit   *)
(* away, and no unit is installed before its image.  It says nothing of a  *)
(* unit whose image the manifest does not list: parse_template writes such *)
(* a unit with an empty tag, and nobody has pulled anything for it.        *)
(***************************************************************************)
UnitsHaveImages ==
    \A u \in Tracked :
        (installed[u] # NoBuild /\ Uses(installed[u], u))
            => Complete(Ref(installed[u], ImageOf[u]))

(***************************************************************************)
(* "Now the stuff that may break..." (prep.sh:340): the units on the disk  *)
(* are not touched, not even removed, before all images of the release     *)
(* have arrived, complete except for those accepted unseen (VerifyImage);  *)
(* a failed download leaves the old installation alone.                    *)
(***************************************************************************)
DownloadsComeFirst ==
    [][installed' # installed => \A r \in Refs(build) : Complete(r)]_vars

(***************************************************************************)
(* The trigger service runs a script of the directory that every run       *)
(* empties and fills again (prep.sh:269-274): after a run that failed to   *)
(* download, or that told a legacy script to RUN UPDATE AGAIN, however the *)
(* runs before it were cut off, the box can be asked to try again.         *)
(***************************************************************************)
RetryIsPossible ==
    (pc = "idle" /\ rc \in {"ok", "legacy", "fetch", "retrieve", "damaged"})
        => scripts

(* Every unit of the payload is on the disk in this release and enabled, and
   the images of the release are complete or were accepted unseen. *)
Deployed ==
    /\ \A u \in payload : installed[u] = build /\ u \in enabled
    /\ \A u \in Marked \ payload : installed[u] = NoBuild /\ u \notin enabled
    /\ \A r \in Refs(build) : Complete(r)

(***************************************************************************)
(* release_number, codename and release_notes_url (read by                 *)
(* platform-version.sh) change only to a release that is completely        *)
(* deployed: all its units written and enabled, the marked units of older  *)
(* releases gone, all its images there, complete except for those accepted *)
(* unseen.                                                                 *)
(***************************************************************************)
ReleaseIsDeployed ==
    [][release' # release =>
         (Deployed /\ \A f \in ReleaseFile : release'[f] \in {release[f], build})]_vars

(***************************************************************************)
(* A run that is to install a release and ends with exit status 0 leaves   *)
(* that release deployed (no image missing, none damaged that was looked   *)
(* at), with the three release files of that one release and not of a mix. *)
(***************************************************************************)
SuccessMeansDeployed ==
    [][(rc = "running" /\ rc' = "ok" /\ mode # "templates") =>
         /\ Deployed'
         /\ \A f \in ReleaseFile : release'[f] = build]_vars

(***************************************************************************)
(* Why setup_channel_file stops the path unit around its write: the run's  *)
(* own change of the channel file must not start another update, which     *)
(* would end in a reboot nobody asked for.                                 *)
(***************************************************************************)
NoSelfTrigger == pending # "prep"

(* The pull loop is bounded: a run that nobody interrupts comes to an end. *)
RunEnds == (pc # "idle") ~> (pc = "idle")

(* The references of which docker has every layer, or is taken to. *)
Intact == {r \in docker : Complete(r)}

(***************************************************************************)
(* Whatever is interrupted, and whatever the next run is for, what the box *)
(* shows of its releases is what Deployment allows: no step of the script  *)
(* takes an image from an installed unit, changes a unit before all images *)
(* of the new release are there, or records a release that is not shown.   *)
(* An image counts as there when it is complete or was accepted unseen.    *)
(***************************************************************************)
Box == INSTANCE Deployment WITH
    File     <- ReleaseFile,
    Contents <- [b \in Build |-> Refs(b)],
    Needs    <- [b \in Build |-> [u \in Unit |->
                  IF Uses(b, u) THEN {Ref(b, ImageOf[u])} ELSE {}]],
    images   <- Intact,
    shown    <- installed,
    recorded <- release

ImplementsDeployment == Box!Spec

(***************************************************************************)
(* prep.sh:140, "RESTARTing all .path files.": when the run has passed     *)
(* that line and records the release, the path unit it installed runs.     *)
(***************************************************************************)
PathsAreRestarted ==
    [][(pc = "number" /\ pc' = "codename" /\ PathUnit \in payload) => pathActive]_vars
=============================================================================
