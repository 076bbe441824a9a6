------------------------------- MODULE Feedback -------------------------------
(***************************************************************************)
(* platform-feedback: collects the output of some commands in a work       *)
(* directory, packs it and collectd's data into an archive for the support *)
(* team, and removes the archive on Ctrl-C (go/platform-feedback).         *)
(*                                                                         *)
(* Beside the main goroutine there is one that waits for the interrupt,    *)
(* and beside the program there is collectd, whose files change while they *)
(* are packed.  The deferred calls of main write the end of the archive;   *)
(* nobody looks at their errors.                                           *)
(***************************************************************************)
EXTENDS Naturals

CONSTANTS
    Commands,     \* number of commands whose output is collected
    Data,         \* files of /data/collectd
    MaxSize       \* bound: sizes of a file

Outputs == 1..Commands
File    == Outputs \union Data
Gone    == 0

ASSUME FeedbackAssumption ==
    /\ Commands \in Nat /\ MaxSize \in Nat \ {0}
    /\ Outputs \intersect Data = {}

VARIABLES
    pc,           \* what main does next; "ended": the process is gone
    next,         \* the command to run next
    place,        \* the directory being packed, the one of Outputs or of Data
    todo,         \* files in it that Walk has still to visit
    file,         \* the file whose header has been written
    size,         \* its size, according to that header
    panicked,     \* main unwinds
    rc,           \* how the process ended
    disk,         \* [File -> its size, or Gone]
    dir,          \* the work directory is there
    archive,      \* so is the archive, under its name
    packed,       \* files of which it has header and content
    short,        \* the content last written is shorter than its header says
    tar, zip,     \* the writer has been closed: "open", "closed", "broken"
    handler,      \* the other goroutine: "none", "waiting", "remove", "exit"
    signal,       \* signalChan holds an interrupt
    fault         \* history: a call failed whose error nobody looks at

mainVars == <<next, place, todo, file, size, panicked>>
packVars == <<packed, short, tar, zip>>
sigVars  == <<handler, signal>>
vars == <<pc, mainVars, rc, disk, dir, archive, packVars, sigVars, fault>>

TypeOK ==
    /\ pc \in {"root", "dir", "archive", "notify", "collect", "lstat", "copy", "rmdir",
               "tar", "zip", "return", "ended"}
    /\ next \in 1..(Commands + 1)
    /\ place \in {"work", "collectd"} /\ todo \subseteq File
    /\ file \in File \union {Gone} /\ size \in 0..MaxSize
    /\ panicked \in BOOLEAN
    /\ rc \in {"none", "ok", "fatal", "panic", "interrupted", "killed"}
    /\ disk \in [File -> 0..MaxSize]
    /\ dir \in BOOLEAN /\ archive \in BOOLEAN
    /\ packed \subseteq File /\ short \in BOOLEAN
    /\ tar \in {"open", "closed", "broken"} /\ zip \in {"open", "closed", "broken"}
    /\ handler \in {"none", "waiting", "remove", "exit"}
    /\ signal \in BOOLEAN /\ fault \in BOOLEAN

Init ==
    /\ pc = "root" /\ rc = "none"
    /\ next = 1 /\ place = "work" /\ todo = {} /\ file = Gone /\ size = Gone
    /\ panicked = FALSE
    /\ disk \in [File -> 0..1] /\ \A o \in Outputs : disk[o] = Gone
    /\ dir = FALSE /\ archive = FALSE
    /\ packed = {} /\ short = FALSE /\ tar = "open" /\ zip = "open"
    /\ handler = "none" /\ signal = FALSE /\ fault = FALSE

-----------------------------------------------------------------------------
(* main: up to the archive. *)

Goto(step) == pc' = step /\ UNCHANGED rc
End(how)   == pc' = "ended" /\ rc' = how

(* bailIfNotRoot; TempDir; OpenFile of the archive: log.Fatal if it fails. *)
Refuse ==
    /\ pc \in {"root", "dir", "archive"}
    /\ End("fatal")
    /\ UNCHANGED <<mainVars, disk, dir, archive, packVars, sigVars, fault>>

IsRoot ==
    /\ pc = "root" /\ Goto("dir")
    /\ UNCHANGED <<mainVars, disk, dir, archive, packVars, sigVars, fault>>

(* A wrong variant: Ctrl-C is watched before the archive has been made. *)
MakeDirAndNotify ==
    /\ pc = "dir" /\ Goto("archive")
    /\ dir' = TRUE /\ handler' = "waiting"
    /\ UNCHANGED <<mainVars, disk, archive, packVars, signal, fault>>

MakeDir ==
    /\ pc = "dir" /\ Goto("archive")
    /\ dir' = TRUE
    /\ UNCHANGED <<mainVars, disk, archive, packVars, sigVars, fault>>

(* createOutputArchive *)
CreateArchive ==
    /\ pc = "archive" /\ Goto("notify")
    /\ archive' = TRUE
    /\ UNCHANGED <<mainVars, disk, dir, packVars, sigVars, fault>>

(* rmOutOnCtrlC *)
Notify ==
    /\ pc = "notify" /\ Goto("collect")
    /\ handler' = "waiting"
    /\ UNCHANGED <<mainVars, disk, dir, archive, packVars, signal, fault>>

-----------------------------------------------------------------------------
(* main: collecting and packing. *)

(* A wrong variant: one command too many. *)
RunCommands ==
    /\ pc = "collect" /\ next <= Commands + 1
    /\ \E s \in {Gone, 1} : disk' = [disk EXCEPT ![next] = s]
    /\ next' = next + 1
    /\ UNCHANGED <<pc, place, todo, file, size, panicked, rc, dir, archive, packVars,
                   sigVars, fault>>

(***************************************************************************)
(* getCommandsOutput, whose errors are not looked at: there is an output   *)
(* file unless it could not be opened, and none for the failed units if    *)
(* their list could not be had.                                            *)
(***************************************************************************)
RunCommand ==
    /\ pc = "collect" /\ next <= Commands
    /\ \E s \in {Gone, 1} : disk' = [disk EXCEPT ![next] = s]
    /\ next' = next + 1
    /\ UNCHANGED <<pc, place, todo, file, size, panicked, rc, dir, archive, packVars,
                   sigVars, fault>>

(***************************************************************************)
(* filepath.Walk reads the names of a directory, then looks at each file.  *)
(* If the names cannot be read, walkFn shadows the error, returns nil for  *)
(* the directory itself, and its files are passed over.                    *)
(***************************************************************************)
ReadNames(files) ==
    \/ todo' = {f \in files : disk[f] # Gone} /\ UNCHANGED fault
    \/ todo' = {} /\ fault' = TRUE

Collected ==
    /\ pc = "collect" /\ next = Commands + 1
    /\ Goto("lstat")
    /\ ReadNames(Outputs)
    /\ UNCHANGED <<next, place, file, size, panicked, disk, dir, archive, packVars,
                   sigVars>>

(* log.Fatal does not run the deferred calls. *)
Fatal ==
    /\ End("fatal")
    /\ UNCHANGED <<mainVars, disk, dir, archive, packVars, sigVars, fault>>

(* tarFeedbackFile: WriteHeader fails if the file before was short. *)
WriteHeader(f) ==
    /\ pc = "lstat" /\ f \in todo /\ disk[f] # Gone
    /\ \/ /\ ~short
          /\ file' = f /\ size' = disk[f] /\ todo' = todo \ {f}
          /\ Goto("copy")
          /\ UNCHANGED <<next, place, panicked, disk, dir, archive, packVars, sigVars,
                         fault>>
       \/ short /\ Fatal

(* Lstat has failed: info is nil, and walkFn shadows the error it is given. *)
NoInfo(f) ==
    /\ pc = "lstat" /\ f \in todo /\ disk[f] = Gone
    /\ panicked' = TRUE
    /\ Goto("tar")
    /\ UNCHANGED <<next, place, todo, file, size, disk, dir, archive, packVars, sigVars,
                   fault>>

(* Open and io.Copy: more than the header says is an error, less is not. *)
CopyFile ==
    /\ pc = "copy"
    /\ \/ /\ disk[file] \in 1..size
          /\ short' = (disk[file] < size)
          /\ packed' = IF short' THEN packed ELSE packed \union {file}
          /\ Goto("lstat")
          /\ UNCHANGED <<mainVars, disk, dir, archive, tar, zip, sigVars, fault>>
       \/ disk[file] \notin 1..size /\ Fatal

(* The disk is full: the compressor writes while files come in. *)
PackFails == pc \in {"lstat", "copy"} /\ Fatal

(* The other directory; a missing /data/collectd passes for an empty one. *)
WalkCollectd ==
    /\ pc = "lstat" /\ todo = {} /\ place = "work"
    /\ place' = "collectd"
    /\ ReadNames(Data)
    /\ UNCHANGED <<pc, next, file, size, panicked, rc, disk, dir, archive, packVars,
                   sigVars>>

Packed ==
    /\ pc = "lstat" /\ todo = {} /\ place = "collectd"
    /\ Goto("rmdir")
    /\ UNCHANGED <<mainVars, disk, dir, archive, packVars, sigVars, fault>>

-----------------------------------------------------------------------------
(* main: RemoveAll, and the deferred calls, last one first. *)

RemoveDir ==
    /\ pc = "rmdir" /\ Goto("tar")
    /\ \/ dir' = FALSE /\ UNCHANGED fault
       \/ fault' = TRUE /\ UNCHANGED dir
    /\ UNCHANGED <<mainVars, disk, archive, packVars, sigVars>>

(* A wrong variant: the first defer is the tar writer's, so it runs last. *)
CloseZipUnderTar ==
    /\ pc = "tar" /\ Goto("zip")
    /\ zip' = "closed" /\ tar' = "broken"
    /\ UNCHANGED <<mainVars, disk, dir, archive, packed, short, sigVars, fault>>

(* tarWriter.Flush and Close write the end of the archive ... *)
CloseTar ==
    /\ pc = "tar" /\ Goto("zip")
    /\ \/ /\ tar' = IF short \/ zip # "open" THEN "broken" ELSE "closed"
          /\ UNCHANGED fault
       \/ tar' = "broken" /\ fault' = TRUE
    /\ UNCHANGED <<mainVars, disk, dir, archive, packed, short, zip, sigVars>>

(* ... and compressor.Flush and Close bring it to the disk. *)
CloseZip ==
    /\ pc = "zip" /\ Goto("return")
    /\ \/ zip' = "closed" /\ UNCHANGED fault
       \/ zip' = "broken" /\ fault' = TRUE
    /\ UNCHANGED <<mainVars, disk, dir, archive, packed, short, tar, sigVars>>

Return ==
    /\ pc = "return"
    /\ End(IF panicked THEN "panic" ELSE "ok")
    /\ UNCHANGED <<mainVars, disk, dir, archive, packVars, sigVars, fault>>

Main ==
    \/ Refuse \/ IsRoot \/ MakeDir \/ CreateArchive \/ Notify
    \/ RunCommand \/ Collected \/ WalkCollectd \/ CopyFile \/ PackFails \/ Packed
    \/ (\E f \in todo : WriteHeader(f) \/ NoInfo(f))
    \/ RemoveDir \/ CloseTar \/ CloseZip \/ Return

-----------------------------------------------------------------------------
(* The goroutine of rmOutOnCtrlC. *)

TakeSignal ==
    /\ pc # "ended" /\ handler = "waiting" /\ signal
    /\ handler' = "remove" /\ signal' = FALSE
    /\ UNCHANGED <<pc, mainVars, rc, disk, dir, archive, packVars, fault>>

RemoveArchive ==
    /\ pc # "ended" /\ handler = "remove"
    /\ handler' = "exit"
    /\ \/ archive' = FALSE /\ UNCHANGED fault
       \/ fault' = TRUE /\ UNCHANGED archive
    /\ UNCHANGED <<pc, mainVars, rc, disk, dir, packVars, signal>>

(* A wrong variant: the loop goes on and leaves the end to main. *)
WaitAgain ==
    /\ pc # "ended" /\ handler = "exit"
    /\ handler' = "waiting"
    /\ UNCHANGED <<pc, mainVars, rc, disk, dir, archive, packVars, signal, fault>>

(* os.Exit(1), wherever main is. *)
ExitOne ==
    /\ pc # "ended" /\ handler = "exit"
    /\ End("interrupted")
    /\ UNCHANGED <<mainVars, disk, dir, archive, packVars, sigVars, fault>>

Handler == TakeSignal \/ RemoveArchive \/ ExitOne

-----------------------------------------------------------------------------
(* The world. *)

(* Ctrl-C; a second one is dropped while the channel is full. *)
Interrupt ==
    /\ pc # "ended"
    /\ \/ handler = "none" /\ End("killed") /\ UNCHANGED signal
       \/ handler # "none" /\ signal' = TRUE /\ UNCHANGED <<pc, rc>>
    /\ UNCHANGED <<mainVars, disk, dir, archive, packVars, handler, fault>>

Kill ==
    /\ pc # "ended"
    /\ End("killed")
    /\ UNCHANGED <<mainVars, disk, dir, archive, packVars, sigVars, fault>>

CollectdWrites(f) ==
    /\ pc # "ended"
    /\ \E s \in 0..MaxSize : disk' = [disk EXCEPT ![f] = s]
    /\ UNCHANGED <<pc, mainVars, rc, dir, archive, packVars, sigVars, fault>>

Next ==
    \/ (pc # "ended" /\ Main) \/ Handler
    \/ Interrupt \/ Kill \/ (\E f \in Data : CollectdWrites(f))

Spec == Init /\ [][Next]_vars

(* The runtime schedules a goroutine that can go on; main may hang in a command. *)
FairSpec == Spec /\ WF_vars(Handler)

-----------------------------------------------------------------------------
(* Properties. *)

(***************************************************************************)
(* What main asks the user to send (main.go:238) is all there when the     *)
(* program ends with exit status 0: every output that was collected, and   *)
(* the ends of both formats, written by the deferred calls after that      *)
(* message.  The exceptions are an interrupt that has removed the archive, *)
(* calls whose error nobody looks at, and a last file that shrank.         *)
(***************************************************************************)
SuccessMeansComplete ==
    (rc = "ok" /\ handler # "exit" /\ ~fault /\ ~short) =>
        /\ archive /\ tar = "closed" /\ zip = "closed"
        /\ \A o \in Outputs : disk[o] # Gone => o \in packed
        /\ ~dir

(***************************************************************************)
(* From the goroutine's os.Remove on (main.go:169), if that has worked,    *)
(* there is no archive, wherever main was when the interrupt came and      *)
(* though it goes on writing until the process ends.  Between the message  *)
(* (main.go:168) and the removal main may still return, and the archive    *)
(* then stays: nothing is said of that.                                    *)
(***************************************************************************)
InterruptLeavesNoArchive ==
    (handler = "exit" /\ ~fault) => ~archive

(***************************************************************************)
(* An interrupt that the channel holds ends the program, also while main   *)
(* hangs in a command or in a call for the archive (main.go:166-171).      *)
(***************************************************************************)
InterruptEnds == signal ~> (pc = "ended")
=============================================================================
