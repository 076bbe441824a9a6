---------------------------- MODULE FeedbackProofs ----------------------------
(***************************************************************************)
(* Proofs about Feedback for any number of commands, files and sizes: the  *)
(* type invariant, that an interrupt leaves no archive, and that exit      *)
(* status 0 stands for a complete one.                                     *)
(***************************************************************************)
EXTENDS Feedback, TLAPS

(* The calls after main has begun to pack, and an end without an error. *)
Packing  == {"lstat", "copy"}
Deferred == {"tar", "zip", "return"}
EndedOk  == pc = "ended" /\ rc = "ok"

(* The archive is made before anybody waits for an interrupt. *)
ArchiveBeforeHandler ==
    pc \in {"root", "dir", "archive", "notify"} => handler = "none"

(* Nobody but the goroutine takes the archive away again. *)
ArchiveStays ==
    (pc \in {"notify", "collect", "rmdir"} \union Packing \union Deferred \/ EndedOk)
       => archive \/ handler = "exit"

(* The outputs are in the archive, or still to come, unless main unwinds   *)
(* or a call has failed whose error nobody looks at.                       *)
OutputsAreCovered ==
    (/\ pc \in {"rmdir"} \union Packing \union Deferred \/ EndedOk
     /\ ~panicked /\ ~short /\ ~fault) =>
       \A o \in Outputs : disk[o] # Gone =>
          \/ o \in packed
          \/ place = "work" /\ pc \in Packing /\ (o \in todo \/ (pc = "copy" /\ o = file))

(* The deferred calls are made in their order. *)
EndsAreWritten ==
    /\ pc \notin {"return", "ended"} => zip = "open"
    /\ pc = "copy" => ~short
    /\ (pc \in {"zip", "return"} \/ EndedOk) /\ ~short /\ ~fault => tar = "closed"
    /\ (pc = "return" \/ EndedOk) /\ ~fault => zip = "closed"
    /\ (pc \in Deferred \/ EndedOk) /\ ~panicked /\ ~fault => ~dir
    /\ EndedOk => ~panicked
    /\ rc = "ok" => pc = "ended"

(* The work directory is packed before collectd's. *)
WorkComesFirst ==
    pc \in {"root", "dir", "archive", "notify", "collect"} => place = "work"

(* What is copied is the file whose header has been written. *)
CopiesAFile == pc = "copy" => file \in File

Order ==
    /\ CopiesAFile /\ InterruptLeavesNoArchive /\ ArchiveBeforeHandler /\ ArchiveStays
    /\ WorkComesFirst /\ OutputsAreCovered /\ EndsAreWritten

IInv == TypeOK /\ Order

-----------------------------------------------------------------------------

(* The variables that are true or false. *)
Switches ==
    /\ panicked \in BOOLEAN /\ dir \in BOOLEAN /\ archive \in BOOLEAN
    /\ short \in BOOLEAN /\ signal \in BOOLEAN /\ fault \in BOOLEAN

LEMMA TypeInit == ASSUME Init PROVE TypeOK
<1>1. Switches
  BY Zenon DEF Init, Switches
<1> QED
  BY <1>1, FeedbackAssumption DEF Switches, Init, TypeOK, File, Outputs, Gone

LEMMA SwitchesStep == ASSUME TypeOK, [Next]_vars PROVE Switches'
<1> USE DEF Switches, mainVars, packVars, sigVars, vars
<1>0. Switches
  BY Zenon DEF TypeOK
<1>1. CASE UNCHANGED <<mainVars, dir, archive, packVars, sigVars, fault>>
  BY <1>0, <1>1, Zenon
<1>2. CASE MakeDir \/ CreateArchive \/ Notify \/ RunCommand \/ Collected \/ WalkCollectd
  BY <1>0, <1>2, Zenon
  DEF MakeDir, CreateArchive, Notify, RunCommand, Collected, WalkCollectd, ReadNames
<1>3. CASE CopyFile
  <2>0. (disk[file] < size) \in BOOLEAN
    OBVIOUS
  <2>1. short' \in BOOLEAN
    BY <1>0, <1>3, <2>0, Zenon DEF CopyFile, Fatal
  <2> QED
    BY <1>0, <1>3, <2>1, Zenon DEF CopyFile, Fatal
<1>4. ASSUME NEW f \in todo, WriteHeader(f) \/ NoInfo(f) PROVE Switches'
  BY <1>0, <1>4, Zenon DEF WriteHeader, NoInfo, Fatal
<1>5. CASE RemoveDir \/ CloseTar \/ CloseZip
  BY <1>0, <1>5, Zenon DEF RemoveDir, CloseTar, CloseZip
<1>6. CASE Handler
  BY <1>0, <1>6, Zenon DEF Handler, TakeSignal, RemoveArchive, ExitOne
<1>7. CASE Interrupt
  BY <1>0, <1>7, Zenon DEF Interrupt
<1>8. ASSUME NEW f \in Data, CollectdWrites(f) PROVE Switches'
  BY <1>0, <1>8, Zenon DEF CollectdWrites
<1>9. Refuse \/ IsRoot \/ PackFails \/ Packed \/ Return \/ Kill \/ UNCHANGED vars =>
        UNCHANGED <<mainVars, dir, archive, packVars, sigVars, fault>>
  BY Zenon DEF Refuse, IsRoot, PackFails, Packed, Return, Kill, Fatal
<1> QED
  BY <1>1, <1>2, <1>3, <1>4, <1>5, <1>6, <1>7, <1>8, <1>9, Zenon DEF Next, Main

LEMMA TypeStep == ASSUME TypeOK, CopiesAFile, [Next]_vars PROVE TypeOK'
<1>0. Switches'
  BY SwitchesStep
<1> USE <1>0, FeedbackAssumption
    DEF TypeOK, Switches, Goto, End, Fatal, mainVars, packVars, sigVars, File, Gone
<1>1. CASE Refuse \/ IsRoot \/ MakeDir \/ CreateArchive \/ Notify
  BY <1>1 DEF Refuse, IsRoot, MakeDir, CreateArchive, Notify
<1>2. CASE RunCommand
  BY <1>2 DEF RunCommand, Outputs
<1>3. CASE Collected \/ WalkCollectd
  <2>1. \A S \in SUBSET File : ReadNames(S) => todo' \subseteq File
    BY DEF ReadNames
  <2>2. todo' \subseteq File
    BY <1>3, <2>1 DEF Collected, WalkCollectd
  <2>3. CASE Collected
    BY <2>2, <2>3 DEF Collected
  <2>4. CASE WalkCollectd
    BY <2>2, <2>4 DEF WalkCollectd
  <2> QED
    BY <1>3, <2>3, <2>4
<1>11. CASE PackFails \/ Packed
  BY <1>11 DEF PackFails, Packed
<1>4. CASE CopyFile
  BY <1>4 DEF CopyFile, CopiesAFile
<1>5. ASSUME NEW f \in todo, WriteHeader(f) \/ NoInfo(f) PROVE TypeOK'
  BY <1>5 DEF WriteHeader, NoInfo
<1>6. CASE RemoveDir \/ CloseTar \/ CloseZip \/ Return
  BY <1>6 DEF RemoveDir, CloseTar, CloseZip, Return
<1>7. CASE Handler
  BY <1>7 DEF Handler, TakeSignal, RemoveArchive, ExitOne
<1>8. CASE Interrupt \/ Kill
  BY <1>8 DEF Interrupt, Kill
<1>9. ASSUME NEW f \in Data, CollectdWrites(f) PROVE TypeOK'
  BY <1>9 DEF CollectdWrites
<1>10. CASE UNCHANGED vars
  BY <1>10 DEF vars
<1> QED
  BY <1>1, <1>2, <1>3, <1>4, <1>5, <1>6, <1>7, <1>8, <1>9, <1>10, <1>11 DEF Next, Main

-----------------------------------------------------------------------------

(***************************************************************************)
(* Main, step by step.                                                     *)
(***************************************************************************)
LEMMA MainStep ==
    ASSUME IInv, pc # "ended", Main
    PROVE  Order'
<1> USE DEF IInv, Order, CopiesAFile, InterruptLeavesNoArchive, ArchiveBeforeHandler,
        ArchiveStays, WorkComesFirst, OutputsAreCovered, EndsAreWritten, Packing,
        Deferred, EndedOk, Goto, End, Fatal, mainVars, packVars, sigVars
<1>1. CASE Refuse
  BY <1>1 DEF Refuse
<1>2. CASE IsRoot \/ MakeDir \/ CreateArchive \/ Notify
  BY <1>2 DEF IsRoot, MakeDir, CreateArchive, Notify
<1>3. CASE RunCommand
  BY <1>3 DEF RunCommand
<1>4. CASE Collected
  BY <1>4 DEF Collected, ReadNames
<1>5. CASE WalkCollectd
  BY <1>5 DEF WalkCollectd, ReadNames
<1>6. CASE CopyFile
  BY <1>6 DEF CopyFile
<1>7. CASE PackFails \/ Packed
  BY <1>7 DEF PackFails, Packed
<1>8. ASSUME NEW f \in todo, WriteHeader(f) PROVE Order'
  BY <1>8 DEF WriteHeader, TypeOK
<1>9. ASSUME NEW f \in todo, NoInfo(f) PROVE Order'
  BY <1>9 DEF NoInfo
<1>10. CASE RemoveDir
  BY <1>10 DEF RemoveDir
<1>11. CASE CloseTar
  BY <1>11 DEF CloseTar
<1>12. CASE CloseZip \/ Return
  BY <1>12 DEF CloseZip, Return
<1> QED
  BY <1>1, <1>2, <1>3, <1>4, <1>5, <1>6, <1>7, <1>8, <1>9, <1>10, <1>11, <1>12 DEF Main

(* The goroutine, and what comes from outside. *)
LEMMA OtherStep ==
    ASSUME IInv, Handler \/ Interrupt \/ Kill \/ (\E f \in Data : CollectdWrites(f))
                   \/ UNCHANGED vars
    PROVE  Order'
<1> USE DEF IInv, Order, CopiesAFile, InterruptLeavesNoArchive, ArchiveBeforeHandler,
        ArchiveStays, WorkComesFirst, OutputsAreCovered, EndsAreWritten, Packing,
        Deferred, EndedOk, End, mainVars, packVars, sigVars
<1>1. CASE TakeSignal \/ RemoveArchive \/ ExitOne
  BY <1>1 DEF TakeSignal, RemoveArchive, ExitOne
<1>2. CASE Interrupt \/ Kill
  BY <1>2 DEF Interrupt, Kill
<1>3. ASSUME NEW f \in Data, CollectdWrites(f) PROVE Order'
  <2>1. \A o \in Outputs : disk'[o] = disk[o]
    BY <1>3, FeedbackAssumption DEF CollectdWrites, TypeOK, File
  <2> QED
    BY <1>3, <2>1 DEF CollectdWrites
<1>4. CASE UNCHANGED vars
  BY <1>4 DEF vars
<1> QED
  BY <1>1, <1>2, <1>3, <1>4 DEF Handler

LEMMA Invariant == Spec => []IInv
<1>1. Init => IInv
  <2> SUFFICES ASSUME Init PROVE IInv
    OBVIOUS
  <2>1. TypeOK
    BY TypeInit
  <2> QED
    BY <2>1
    DEF Init, IInv, Order, CopiesAFile, InterruptLeavesNoArchive, ArchiveBeforeHandler,
        ArchiveStays, WorkComesFirst, OutputsAreCovered, EndsAreWritten, Packing,
        Deferred, EndedOk
<1>2. IInv /\ [Next]_vars => IInv'
  BY TypeStep, MainStep, OtherStep DEF IInv, Order, Next
<1> QED
  BY <1>1, <1>2, PTL DEF Spec

-----------------------------------------------------------------------------

(* Every variable of main, the goroutine and the archive keeps its type. *)
THEOREM TypeCorrect == Spec => []TypeOK
<1>1. IInv => TypeOK
  BY DEF IInv
<1> QED
  BY <1>1, Invariant, PTL

(***************************************************************************)
(* After the goroutine's os.Remove there is no archive, wherever main was, *)
(* since main makes one only before the goroutine is there.                *)
(***************************************************************************)
THEOREM InterruptRemovesArchive == Spec => []InterruptLeavesNoArchive
<1>1. IInv => InterruptLeavesNoArchive
  BY DEF IInv, Order
<1> QED
  BY <1>1, Invariant, PTL

(***************************************************************************)
(* Exit status 0 stands for an archive with every output and both ends,    *)
(* for any number of commands and files, unless an interrupt has removed   *)
(* it, a call has failed whose error nobody looks at, or the last file to  *)
(* be packed shrank meanwhile.                                             *)
(***************************************************************************)
THEOREM ArchiveIsComplete == Spec => []SuccessMeansComplete
<1>1. IInv => SuccessMeansComplete
  <2> SUFFICES ASSUME IInv, rc = "ok", handler # "exit", ~fault, ~short
               PROVE  /\ archive /\ tar = "closed" /\ zip = "closed" /\ ~dir
                      /\ \A o \in Outputs : disk[o] # Gone => o \in packed
    BY DEF SuccessMeansComplete
  <2>1. EndedOk
    BY DEF IInv, Order, EndsAreWritten, EndedOk
  <2> QED
    BY <2>1
    DEF IInv, Order, ArchiveStays, OutputsAreCovered, EndsAreWritten, EndedOk, Packing
<1> QED
  BY <1>1, Invariant, PTL

=============================================================================
