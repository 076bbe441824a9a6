---------------------------- MODULE NetconfProofs ----------------------------
(***************************************************************************)
(* Proofs about Netconf for any interfaces, files, commands and edits: the *)
(* type invariant, that a file which is gone fails no dhcp command, and    *)
(* that success and -show tell what holds after a reboot.                  *)
(***************************************************************************)
EXTENDS Netconf, WellFoundedInduction, TLAPS

-----------------------------------------------------------------------------
(* The order of the names, and the file that networkd takes. *)

LEMMA LeastNatural ==
    ASSUME NEW T \in SUBSET Nat, T # {}
    PROVE  \E x \in T : \A y \in T : x <= y
<1> DEFINE R == OpToRel(<, Nat)
<1>1. IsWellFoundedOn(R, Nat)
  BY NatLessThanWellFounded
<1>2. \A x \in Nat, y \in Nat : x < y => <<x, y>> \in R
  BY DEF OpToRel
<1> HIDE DEF R
<1>3. PICK x \in T : \A y \in T : ~ (<<y, x>> \in R)
  BY <1>1, WFMin, Zenon
<1>4. ASSUME NEW y \in T PROVE x <= y
  <2>1. ~(y < x)
    BY <1>2, <1>3, Zenon
  <2> QED
    BY <2>1
<1> QED
  BY <1>4

(* networkd finds a first file whenever one applies. *)
LEMMA BestApplies ==
    ASSUME NEW i, Applying(i) # {}
    PROVE  Best(i) \in Applying(i)
<1> DEFINE T == {Rank[f] : f \in Applying(i)}
<1>1. Applying(i) \subseteq File
  BY DEF Applying
<1>2. T \in SUBSET Nat /\ T # {}
  BY <1>1, NetconfAssumption
<1>3. PICK x \in T : \A y \in T : x <= y
  BY <1>2, LeastNatural
<1>4. \E f \in Applying(i) : \A g \in Applying(i) : Rank[f] <= Rank[g]
  BY <1>3
<1> QED
  BY <1>4 DEF Best

LEMMA BestType == \A i : Best(i) \in File \union {Default}
BY BestApplies DEF Best, Applying

(* The default is used where no file applies, and nowhere else. *)
LEMMA BestIsDefault == ASSUME NEW i PROVE Best(i) = Default <=> Applying(i) = {}
<1>1. Default \notin Applying(i)
  BY NetconfAssumption DEF Applying
<1>2. CASE Applying(i) = {}
  BY <1>2 DEF Best
<1>3. CASE Applying(i) # {}
  BY <1>1, <1>3, BestApplies
<1> QED
  BY <1>2, <1>3

(* No file for i comes before f by name. *)
First(f, i) == \A g \in Applying(i) : Rank[f] <= Rank[g]

(* The file that comes first is the one networkd takes. *)
LEMMA FirstIsBest ==
    ASSUME NEW i, NEW f \in Applying(i), First(f, i)
    PROVE  Best(i) = f
<1>1. Applying(i) \subseteq File
  BY DEF Applying
<1>2. Best(i) \in Applying(i) /\ First(Best(i), i)
  BY DEF Best, First
<1> QED
  BY <1>1, <1>2, NetconfAssumption DEF First

LEMMA BestIsFirst ==
    ASSUME NEW i, Applying(i) # {}
    PROVE  Best(i) \in Applying(i) /\ First(Best(i), i)
<1>1. Best(i) \in Applying(i)
  BY BestApplies
<1>2. PICK f \in Applying(i) : First(f, i)
  <2> DEFINE T == {Rank[f] : f \in Applying(i)}
  <2>1. T \in SUBSET Nat /\ T # {}
    BY NetconfAssumption DEF Applying
  <2>2. PICK x \in T : \A y \in T : x <= y
    BY <2>1, LeastNatural
  <2> QED
    BY <2>2 DEF First
<1> QED
  BY <1>1, <1>2, FirstIsBest

(* All that applies to i applied at the beginning. *)
Tight(i) == Applying(i) \subseteq {loaded[i]} \union others[i]

(* What networkd uses for i is what it would take, if it is there. *)
Right(i) == loaded[i] \in Applying(i) => First(loaded[i], i)

-----------------------------------------------------------------------------
(* Types. *)

Switches == fresh \in BOOLEAN /\ fault \in BOOLEAN /\ raced \in BOOLEAN

LEMMA SwitchesStep == ASSUME TypeOK, [Next]_vars PROVE Switches'
<1> USE DEF Switches, cmdVars
<1>0. Switches
  BY Zenon DEF TypeOK
<1>1. ASSUME NEW o, NEW i, NEW s, NEW rest, Begin(o, i, s, rest) PROVE Switches'
  <2>1. Known(IF All(o) THEN Wired ELSE {i}) \in BOOLEAN
    BY DEF Known
  <2> QED
    BY <1>0, <1>1, <2>1, Zenon DEF Begin
<1>2. ASSUME NEW i \in Iface, BeginDhcp(i) \/ BeginReset(i) \/ BeginShow(i) PROVE Switches'
  BY <1>1, <1>2, Zenon DEF BeginDhcp, BeginReset, BeginShow
<1>3. ASSUME NEW i \in Iface, NEW s \in Setting, BeginStatic(i, s) PROVE Switches'
  BY <1>1, <1>3, Zenon DEF BeginStatic
<1>4. ASSUME UNCHANGED <<fresh, fault, raced>> PROVE Switches'
  BY <1>0, <1>4, Zenon
<1>5. CASE StatsFails \/ RefuseSetting \/ RefuseFile \/ StatErrs \/ RemoveFails \/ WriteFails
  BY <1>0, <1>5, Zenon DEF StatsFails, RefuseSetting, RefuseFile, StatErrs, RemoveFails,
                           WriteFails, Fail, End, Goto
<1>6. CASE RestartFails
  BY <1>0, <1>6, Zenon DEF RestartFails, Fail, End, Finish, NextInterface
<1>7. PrintReport \/ AlreadyDhcp \/ UsesCustomFile \/ NothingToRemove \/ Stat
      \/ Remove \/ RemoveMissing \/ Write \/ Restart => UNCHANGED <<fresh, fault, raced>>
  BY Zenon DEF PrintReport, AlreadyDhcp, UsesCustomFile, NothingToRemove, Look, Stat,
               Remove, RemoveMissing, Write, Restart, Goto, Fail, End, Finish,
               NextInterface
<1>10. CASE ShowInterface
  BY <1>0, <1>10, Zenon DEF ShowInterface, Goto, NextInterface
<1>8. CASE Kill \/ NetworkdStarts \/ UNCHANGED vars
  BY <1>0, <1>8, Zenon DEF Kill, NetworkdStarts, End, vars
<1>9. ASSUME NEW f \in File, EditByHand(f) PROVE Switches'
  BY <1>0, <1>9, Zenon DEF EditByHand
<1> QED
  BY <1>2, <1>3, <1>4, <1>5, <1>6, <1>7, <1>8, <1>9, <1>10, Zenon DEF Next, Command

(* A restart of networkd gives every interface a file. *)
LEMMA ReloadType == ASSUME Reload PROVE loaded' \in [Iface -> File \union {Default}]
BY BestType, Zenon DEF Reload

LEMMA TypeInit == ASSUME Init PROVE TypeOK
<1>1. Switches
  BY Zenon DEF Init, Switches
<1> QED
  BY <1>1, NetconfAssumption DEF Switches, Init, TypeOK, File

(* The files that applied when a command began. *)
LEMMA OthersType ==
    ASSUME NEW o, NEW i, NEW s, NEW rest, Begin(o, i, s, rest)
    PROVE  others' \in [Iface -> SUBSET File]
<1>1. \A j : Applying(j) \ {loaded[j]} \subseteq File
  BY DEF Applying
<1> QED
  BY <1>1 DEF Begin

(* What the begin of a command does, but for the history. *)
LEMMA BeginFrame ==
    ASSUME NEW o, NEW i, NEW s, NEW rest, Begin(o, i, s, rest)
    PROVE  /\ pc' = "stats" /\ rc' = "running" /\ runs' = runs + 1 /\ runs < MaxRuns
           /\ op' = o /\ iface' = i /\ setting' = s /\ todo' = rest
           /\ UNCHANGED <<disk, loaded, view, report, edits>>
BY Zenon DEF Begin

LEMMA TypeStep == ASSUME TypeOK, [Next]_vars PROVE TypeOK'
<1>0. Switches'
  BY SwitchesStep
<1> USE <1>0, NetconfAssumption
    DEF TypeOK, Switches, Goto, End, Fail, Finish, NextInterface, cmdVars
<1>1. ASSUME NEW i \in Iface, BeginDhcp(i) \/ BeginReset(i) \/ BeginShow(i) PROVE TypeOK'
  BY <1>1, BeginFrame, OthersType DEF BeginDhcp, BeginReset, BeginShow
<1>2. ASSUME NEW i \in Iface, NEW s \in Setting, BeginStatic(i, s) PROVE TypeOK'
  BY <1>2, BeginFrame, OthersType DEF BeginStatic
<1>3. CASE StatsFails \/ RefuseSetting \/ RefuseFile
  BY <1>3 DEF StatsFails, RefuseSetting, RefuseFile
<1>4. CASE ShowInterface \/ PrintReport
  BY <1>4 DEF ShowInterface, PrintReport, ModeOf
<1>5. CASE AlreadyDhcp \/ UsesCustomFile \/ NothingToRemove
  BY <1>5 DEF AlreadyDhcp, UsesCustomFile, NothingToRemove, Look
<1>6. CASE Remove
  <2>1. /\ disk' \in [File -> Setting \union {ByHand, Partial, NoFile}]
        /\ \A i \in Iface : disk'[i] # ByHand
        /\ \A c \in Custom : disk'[c] \in {ByHand, NoFile}
    BY <1>6 DEF Remove, File
  <2>2. pc' \in {"write", "restart"}
    BY <1>6 DEF Remove, AfterRemove
  <2> QED
    BY <1>6, <2>1, <2>2 DEF Remove
<1>7. CASE Stat \/ StatErrs \/ RemoveMissing \/ RemoveFails
  BY <1>7 DEF Stat, StatErrs, RemoveMissing, RemoveFails
<1>8. CASE Write \/ WriteFails
  BY <1>8 DEF Write, WriteFails, Torn, File
<1>9. CASE Restart \/ RestartFails
  BY <1>9, ReloadType DEF Restart, RestartFails
<1>10. CASE Kill \/ NetworkdStarts
  BY <1>10, ReloadType DEF Kill, NetworkdStarts, Torn, File
<1>11. ASSUME NEW f \in File, EditByHand(f) PROVE TypeOK'
  BY <1>11 DEF EditByHand, File
<1>12. CASE UNCHANGED vars
  BY <1>12 DEF vars
<1> QED
  BY <1>1, <1>2, <1>3, <1>4, <1>5, <1>6, <1>7, <1>8, <1>9, <1>10, <1>11, <1>12
  DEF Next, Command

-----------------------------------------------------------------------------
(* The inductive invariant. *)

(* A command runs or has ended. *)
Ended == pc = "idle" <=> rc # "running"

(* Where the operations go, and the file they have looked up. *)
Stages ==
    /\ pc = "write" => op = "static"
    /\ pc = "print" => op = "show" /\ todo = {}
    /\ pc = "stat" => op # "static"
    /\ pc \in {"stat", "remove", "restart"} => op # "show"
    /\ pc \in {"stat", "remove"} => view = loaded[iface] /\ view # Default

(* The interfaces that are still to come are those of the command. *)
InOrder ==
    pc # "idle" => IF All(op) THEN iface \in Wired /\ todo \subseteq Wired \ {iface}
                   ELSE todo = {}

(* A dhcp or reset command has freed the interfaces it has left behind of the
   files they had in use. *)
DhcpProgress ==
    fresh /\ ~fault /\ pc # "idle" /\ op \in {"dhcp", "reset"} =>
        /\ \A j \in todo \union {iface} : Tight(j) /\ Right(j)
        /\ \A j \in Subject \ (todo \union {iface}) : Applying(j) \subseteq others[j]
        /\ pc = "restart" => Applying(iface) \subseteq others[iface]

(* A static command replaces the file in use by its own. *)
StaticProgress ==
    fresh /\ op = "static" =>
        /\ pc \in {"stats", "remove"} => Tight(iface)
        /\ pc = "write" => Applying(iface) \subseteq others[iface]
        /\ pc = "restart" => /\ iface \in Applying(iface) /\ disk[iface] = setting
                             /\ Applying(iface) \subseteq {iface} \union others[iface]

(* What -show has found so far is still so. *)
Mode(i) == IF Best(i) = Default THEN "DHCP" ELSE "STATIC"

ShowProgress ==
    fresh /\ ~fault /\ pc # "idle" /\ op = "show" =>
        \A j \in Wired : /\ loaded[j] = Best(j)
                         /\ report[j] = Mode(j) \/ j \in todo \/ (j = iface /\ pc = "stats")

(* Only a file that was deleted behind the back of a dhcp command is missing. *)
MissingIsRaced ==
    pc = "remove" /\ op # "static" => disk[view] # NoFile \/ raced

Progress == /\ Ended /\ Stages /\ InOrder /\ MissingIsRaced
            /\ DhcpProgress /\ StaticProgress /\ ShowProgress

IInv == TypeOK /\ Progress

-----------------------------------------------------------------------------
(* What a step does to the files that apply. *)

LEMMA SameFiles ==
    ASSUME UNCHANGED disk, NEW j
    PROVE  Applying(j)' = Applying(j) /\ Best(j)' = Best(j)
BY DEF Applying, Best

LEMMA RemovedFile ==
    ASSUME TypeOK, NEW v \in File, disk' = [disk EXCEPT ![v] = NoFile], NEW j
    PROVE  Applying(j)' = Applying(j) \ {v}
BY DEF Applying, TypeOK

LEMMA WrittenFile ==
    ASSUME TypeOK, disk' = [disk EXCEPT ![iface] = setting], UNCHANGED iface
    PROVE  /\ Applying(iface)' = Applying(iface) \union {iface}
           /\ disk'[iface] = setting
<1>1. iface \in File /\ iface \in Matches(iface) /\ setting # NoFile
  BY NetconfAssumption DEF TypeOK, File, Matches
<1>2. disk'[iface] = setting /\ \A f \in File \ {iface} : disk'[f] = disk[f]
  BY <1>1 DEF TypeOK
<1>3. \A f \in File : disk'[f] # NoFile /\ iface \in Matches(f)
                         <=> f = iface \/ (disk[f] # NoFile /\ iface \in Matches(f))
  BY <1>1, <1>2
<1>4. /\ Applying(iface)' = {f \in File : disk'[f] # NoFile /\ iface' \in Matches(f)}
      /\ Applying(iface) = {f \in File : disk[f] # NoFile /\ iface \in Matches(f)}
  BY DEF Applying
<1> QED
  BY <1>1, <1>2, <1>3, <1>4

(* A restart of networkd keeps what is tight and right. *)
LEMMA ReloadIsTight ==
    ASSUME UNCHANGED <<disk, others>>, Reload \/ UNCHANGED loaded, NEW j \in Iface,
           Tight(j), Right(j)
    PROVE  Tight(j)' /\ Right(j)'
<1>1. Applying(j)' = Applying(j) /\ \A f : First(f, j)' = First(f, j)
  BY SameFiles DEF First
<1>2. CASE UNCHANGED loaded
  BY <1>1, <1>2 DEF Tight, Right
<1>3. CASE Reload
  <2>1. loaded'[j] = Best(j)
    BY <1>3 DEF Reload
  <2>2. CASE Applying(j) = {}
    BY <1>1, <2>2 DEF Tight, Right
  <2>3. CASE Applying(j) # {}
    <3>1. Best(j) \in Applying(j) /\ First(Best(j), j)
      BY <2>3, BestIsFirst
    <3>2. loaded[j] \in Applying(j) => Best(j) = loaded[j]
      BY FirstIsBest DEF Right
    <3>3. First(Best(j), j)'
      <4> DEFINE b == Best(j)
      <4> HIDE DEF b
      <4>1. First(b, j) /\ b' = b
        BY <3>1, SameFiles DEF b
      <4>2. First(b, j)'
        BY <1>1, <4>1 DEF First
      <4> QED
        BY <4>2 DEF b
    <3>4. \A f : First(f, j) => \A g \in Applying(j)' : Rank[f] <= Rank[g]
      BY <1>1 DEF First
    <3>5. Right(j)'
      BY <2>1, <3>1, <3>4 DEF Right, First
    <3>6. Tight(j)'
      BY <1>1, <2>1, <3>2 DEF Tight
    <3> QED
      BY <3>5, <3>6
  <2> QED
    BY <2>2, <2>3
<1> QED
  BY <1>2, <1>3

-----------------------------------------------------------------------------

(* A command begins. *)
LEMMA BeginStep ==
    ASSUME IInv, NEW o \in {"dhcp", "static", "reset", "show"}, NEW i \in Iface, NEW s,
           NEW rest, Begin(o, i, s, rest),
           IF All(o) THEN i \in Wired /\ rest = Wired \ {i} ELSE rest = {}
    PROVE  Progress'
<1>1. /\ pc' = "stats" /\ rc' = "running" /\ op' = o /\ iface' = i /\ todo' = rest
      /\ UNCHANGED <<disk, loaded>>
      /\ others' = [j \in Iface |-> Applying(j) \ {loaded[j]}]
  BY DEF Begin
<1>2. fresh' => Known(IF All(o) THEN Wired ELSE {i})
  BY Zenon DEF Begin
<1>3. \A j : Applying(j)' = Applying(j) /\ Best(j)' = Best(j)
  BY <1>1, SameFiles
<1>4. \A j \in Iface : Tight(j)'
  BY <1>1, <1>3 DEF Tight
<1>5. fresh' => \A j \in rest \union {i} : loaded[j] = Best(j)
  BY <1>2 DEF Known
<1>6. \A j : loaded[j] = Best(j) => Right(j)'
  <2> SUFFICES ASSUME NEW j, loaded[j] = Best(j), loaded[j] \in Applying(j)
               PROVE  \A g \in Applying(j) : Rank[loaded[j]] <= Rank[g]
    BY <1>1, <1>3 DEF Right, First
  <2> QED
    BY BestIsFirst DEF First
<1>7. Ended' /\ Stages' /\ InOrder' /\ MissingIsRaced'
  BY <1>1 DEF Ended, Stages, InOrder, MissingIsRaced, All
<1>8. rest \union {i} \subseteq Iface
  BY NetconfAssumption
<1>9. DhcpProgress'
  BY <1>1, <1>4, <1>5, <1>6, <1>8 DEF DhcpProgress, Subject, All
<1>10. StaticProgress'
  BY <1>1, <1>4 DEF StaticProgress
<1>11. ShowProgress'
  BY <1>1, <1>3, <1>5 DEF ShowProgress, All
<1> QED
  BY <1>7, <1>9, <1>10, <1>11 DEF Progress

(* A command ends, whatever happens to the files. *)
LEMMA EndStep ==
    ASSUME IInv, pc' = "idle", rc' # "running"
    PROVE  Progress'
BY DEF Progress, Ended, Stages, InOrder, MissingIsRaced, DhcpProgress, StaticProgress,
       ShowProgress

(***************************************************************************)
(* A command goes on to its next interface, having freed the present one   *)
(* of the file in use, or found its mode.                                  *)
(***************************************************************************)
LEMMA NextStep ==
    ASSUME IInv, NextInterface, UNCHANGED disk, Reload \/ UNCHANGED loaded,
           pc # "idle", fault => fault',
           op # "show" => Applying(iface) \subseteq others[iface] \/ ~fresh \/ fault',
           op = "show" => /\ UNCHANGED loaded
                          /\ report' = [report EXCEPT ![iface] = report'[iface]]
                          /\ report'[iface] = Mode(iface) \/ ~fresh \/ fault'
    PROVE  Progress'
<1>1. PICK i \in todo : iface' = i /\ todo' = todo \ {i}
  BY DEF NextInterface
<1>2. pc' = "stats" /\ UNCHANGED <<op, fresh, others, rc, setting>>
  BY DEF NextInterface
<1>3. All(op) /\ iface \in Wired /\ todo \subseteq Wired \ {iface}
  BY <1>1 DEF IInv, Progress, InOrder
<1>4. Ended' /\ Stages' /\ InOrder' /\ MissingIsRaced'
  BY <1>1, <1>2, <1>3 DEF IInv, Progress, Ended, Stages, InOrder, MissingIsRaced, All
<1>5. \A j : Applying(j)' = Applying(j) /\ Best(j)' = Best(j)
  BY SameFiles
<1>6. \A j \in Wired : Tight(j) /\ Right(j) => Tight(j)' /\ Right(j)'
  BY <1>2, ReloadIsTight, NetconfAssumption
<1>7. DhcpProgress'
  BY <1>1, <1>2, <1>3, <1>5, <1>6 DEF IInv, Progress, DhcpProgress, Subject, All
<1>8. StaticProgress'
  BY <1>2, <1>3 DEF StaticProgress, All
<1>9. ShowProgress'
  <2> SUFFICES ASSUME fresh, ~fault', op = "show", NEW j \in Wired
               PROVE  /\ loaded'[j] = Best(j)'
                      /\ report'[j] = Mode(j)' \/ j \in todo' \/ j = iface'
    BY <1>2 DEF ShowProgress
  <2>1. /\ loaded[j] = Best(j)
        /\ report[j] = Mode(j) \/ j \in todo \/ j = iface
    BY DEF IInv, Progress, ShowProgress
  <2>2. Mode(j)' = Mode(j)
    BY <1>5 DEF Mode
  <2>3. j # iface => report'[j] = report[j]
    BY NetconfAssumption DEF IInv, TypeOK
  <2> QED
    BY <1>1, <1>5, <2>1, <2>2, <2>3
<1> QED
  BY <1>4, <1>7, <1>8, <1>9 DEF Progress

(* Where the default is in use, whatever applies is one of the others. *)
LEMMA DefaultIsFree ==
    ASSUME IInv, fresh, ~fault, pc = "stats", op # "show", loaded[iface] = Default
    PROVE  Applying(iface) \subseteq others[iface]
<1>1. Tight(iface)
  BY DEF IInv, TypeOK, Progress, DhcpProgress, StaticProgress
<1> QED
  BY <1>1, NetconfAssumption DEF Tight, Applying

(* ... for a static command whatever has failed, since a fault ends it. *)
LEMMA DefaultIsFreeForStatic ==
    ASSUME IInv, fresh, pc = "stats", op = "static", loaded[iface] = Default
    PROVE  Applying(iface) \subseteq others[iface]
<1>1. Tight(iface)
  BY DEF IInv, Progress, StaticProgress
<1> QED
  BY <1>1, NetconfAssumption DEF Tight, Applying

(* The steps of -show. *)
LEMMA ShowStep == ASSUME IInv, ShowInterface PROVE Progress'
<1>1. pc = "stats" /\ op = "show" /\ UNCHANGED <<disk, loaded>>
  BY DEF ShowInterface
<1>2. iface \in Wired
  BY <1>1 DEF IInv, Progress, InOrder, All
<1>3. /\ report' = [report EXCEPT ![iface] = report'[iface]]
      /\ report'[iface] = Mode(iface) \/ ~fresh \/ fault'
      /\ fault => fault'
  <2>1. \/ /\ report' = [report EXCEPT ![iface] = ModeOf(loaded[iface])]
           /\ UNCHANGED fault
        \/ report' = [report EXCEPT ![iface] = ModeOf(Other)] /\ fault' = TRUE
    BY DEF ShowInterface
  <2>2. fresh /\ ~fault => loaded[iface] = Best(iface)
    BY <1>1, <1>2 DEF IInv, Progress, ShowProgress
  <2>3. fault => fault'
    BY <2>1
  <2> QED
    BY <2>1, <2>2, <2>3 DEF IInv, TypeOK, Mode, ModeOf
<1>4. CASE NextInterface
  BY <1>1, <1>3, <1>4, NextStep
<1>5. CASE todo = {} /\ Goto("print") /\ UNCHANGED rc
  <2>1. pc' = "print" /\ UNCHANGED <<op, todo, iface, fresh, rc>>
    BY <1>5 DEF Goto
  <2>2. /\ Ended' /\ Stages' /\ InOrder' /\ MissingIsRaced' /\ DhcpProgress'
        /\ StaticProgress'
    BY <1>1, <1>5, <2>1 DEF IInv, Progress, Ended, Stages, InOrder, MissingIsRaced,
                            DhcpProgress, StaticProgress, All
  <2>3. ShowProgress'
    <3> SUFFICES ASSUME fresh, ~fault', NEW j \in Wired
                 PROVE  loaded'[j] = Best(j)' /\ report'[j] = Mode(j)'
      BY <2>1 DEF ShowProgress
    <3>1. /\ loaded[j] = Best(j)
          /\ report[j] = Mode(j) \/ j \in todo \/ j = iface
      BY <1>1, <1>3 DEF IInv, Progress, ShowProgress
    <3>2. Best(j)' = Best(j) /\ Mode(j)' = Mode(j)
      BY <1>1, SameFiles DEF Mode
    <3>3. j # iface => report'[j] = report[j]
      BY <1>3, NetconfAssumption DEF IInv, TypeOK
    <3> QED
      BY <1>1, <1>3, <1>5, <3>1, <3>2, <3>3
  <2> QED
    BY <2>2, <2>3 DEF Progress
<1> QED
  BY <1>4, <1>5 DEF ShowInterface

(* Files that stay as they are stay tight and right. *)
LEMMA SameIsTight ==
    ASSUME UNCHANGED <<disk, loaded, others>>
    PROVE  /\ \A j : Applying(j)' = Applying(j) /\ Best(j)' = Best(j)
           /\ \A j : (Tight(j) => Tight(j)') /\ (Right(j) => Right(j)')
<1>1. \A j : Applying(j)' = Applying(j) /\ Best(j)' = Best(j)
  BY SameFiles
<1> QED
  BY <1>1 DEF Tight, Right, First

(* Looking up which file is in use. *)
LEMMA LookStep ==
    ASSUME IInv, AlreadyDhcp \/ UsesCustomFile \/ NothingToRemove
    PROVE  Progress'
<1>1. CASE AlreadyDhcp
  <2>1. CASE End("already")
    BY <2>1, EndStep DEF End
  <2>2. CASE NextInterface
    <3>1. /\ pc = "stats" /\ op # "show" /\ loaded[iface] = Default
          /\ UNCHANGED <<disk, loaded, fault>>
      BY <1>1 DEF AlreadyDhcp
    <3> QED
      BY <2>2, <3>1, NextStep, DefaultIsFree
  <2> QED
    BY <1>1, <2>1, <2>2 DEF AlreadyDhcp, Finish
<1>2. CASE UsesCustomFile
  <2>1. /\ pc' = IF op = "static" THEN "remove" ELSE "stat"
        /\ pc = "stats" /\ op # "show" /\ view' = loaded[iface]
        /\ loaded[iface] # Default
        /\ UNCHANGED <<op, todo, iface, setting, fresh, others, fault, rc, disk, loaded>>
    BY <1>2 DEF UsesCustomFile, Look, Goto
  <2>2. /\ \A j : Applying(j)' = Applying(j)
        /\ \A j : (Tight(j) => Tight(j)') /\ (Right(j) => Right(j)')
    BY <2>1, SameIsTight
  <2> QED
    BY <2>1, <2>2
    DEF IInv, Progress, Ended, Stages, InOrder, MissingIsRaced, DhcpProgress, StaticProgress,
        ShowProgress, All, Subject
<1>3. CASE NothingToRemove
  <2>1. /\ pc' = "write" /\ pc = "stats" /\ op = "static" /\ loaded[iface] = Default
        /\ UNCHANGED <<op, todo, iface, setting, fresh, others, fault, rc, disk, loaded>>
    BY <1>3 DEF NothingToRemove, Look, Goto
  <2>2. \A j : Applying(j)' = Applying(j)
    BY <2>1, SameFiles
  <2>3. fresh => Applying(iface)' \subseteq others[iface]
    BY <2>1, <2>2, DefaultIsFreeForStatic
  <2> QED
    BY <2>1, <2>3
    DEF IInv, Progress, Ended, Stages, InOrder, MissingIsRaced, DhcpProgress, StaticProgress,
        ShowProgress, All
<1> QED
  BY <1>1, <1>2, <1>3

(* Asking whether the file in use is there. *)
LEMMA StatStep == ASSUME IInv, Stat \/ StatErrs PROVE Progress'
<1>1. /\ pc = "stat" /\ pc' \in {"restart", "remove"}
      /\ UNCHANGED <<op, todo, iface, setting, fresh, others, raced, rc, loaded, view, disk>>
      /\ pc' = "restart" => disk[view] = NoFile \/ fault'
      /\ pc' = "remove" => disk[view] # NoFile
      /\ fault => fault'
  BY DEF Stat, StatErrs, Goto
<1>2. view = loaded[iface] /\ view \in File /\ op \in {"dhcp", "reset"}
  BY <1>1 DEF IInv, TypeOK, Progress, Stages
<1>3. /\ \A j : Applying(j)' = Applying(j)
      /\ \A j : (Tight(j) => Tight(j)') /\ (Right(j) => Right(j)')
  BY <1>1, SameIsTight
<1>4. disk[view] = NoFile /\ Tight(iface) => Applying(iface) \subseteq others[iface]
  BY <1>2 DEF Tight, Applying
<1>5. DhcpProgress'
  BY <1>1, <1>2, <1>3, <1>4 DEF IInv, Progress, DhcpProgress, Subject, All
<1>6. Ended' /\ Stages' /\ InOrder' /\ MissingIsRaced' /\ StaticProgress' /\ ShowProgress'
  BY <1>1, <1>2
  DEF IInv, Progress, Ended, Stages, InOrder, MissingIsRaced, StaticProgress, ShowProgress, All
<1> QED
  BY <1>5, <1>6 DEF Progress

(* Removing the file in use. *)
LEMMA RemoveStep == ASSUME IInv, Remove PROVE Progress'
<1>1. /\ pc = "remove" /\ pc' = AfterRemove
      /\ UNCHANGED <<op, todo, iface, setting, fresh, others, fault, rc, loaded, view>>
      /\ disk' = [disk EXCEPT ![view] = NoFile]
  BY DEF Remove, Goto, AfterRemove
<1>2. view = loaded[iface] /\ view \in File /\ op # "show"
  BY <1>1 DEF IInv, TypeOK, Progress, Stages
<1>3. \A j : Applying(j)' = Applying(j) \ {view}
  BY <1>1, <1>2, RemovedFile DEF IInv
<1>4. \A j : (Tight(j) => Tight(j)') /\ (Right(j) => Right(j)')
  BY <1>1, <1>3 DEF Tight, Right, First
<1>5. Tight(iface) => Applying(iface)' \subseteq others[iface]
  BY <1>1, <1>2, <1>3 DEF Tight
<1>6. DhcpProgress'
  BY <1>1, <1>3, <1>4, <1>5 DEF IInv, Progress, DhcpProgress, Subject, All, AfterRemove
<1>7. StaticProgress'
  BY <1>1, <1>5 DEF IInv, Progress, StaticProgress, AfterRemove
<1>8. Ended' /\ Stages' /\ InOrder' /\ MissingIsRaced' /\ ShowProgress'
  BY <1>1, <1>2
  DEF IInv, TypeOK, Progress, Ended, Stages, InOrder, MissingIsRaced, ShowProgress,
      AfterRemove, All
<1> QED
  BY <1>6, <1>7, <1>8 DEF Progress

(* Writing the static file. *)
LEMMA WriteStep == ASSUME IInv, Write PROVE Progress'
<1>1. /\ pc = "write" /\ pc' = "restart" /\ op = "static"
      /\ disk' = [disk EXCEPT ![iface] = setting]
      /\ UNCHANGED <<op, todo, iface, setting, fresh, others, rc, view, loaded>>
  BY DEF Write, Goto, IInv, Progress, Stages
<1>2. Applying(iface)' = Applying(iface) \union {iface} /\ disk'[iface] = setting
  BY <1>1, WrittenFile DEF IInv
<1>3. fresh => Applying(iface) \subseteq others[iface]
  BY <1>1 DEF IInv, Progress, StaticProgress
<1> QED
  BY <1>1, <1>2, <1>3
  DEF IInv, Progress, Ended, Stages, InOrder, MissingIsRaced, DhcpProgress, StaticProgress,
      ShowProgress, All

(* Restarting networkd: the interface is done. *)
LEMMA RestartStep == ASSUME IInv, Restart \/ RestartFails PROVE Progress'
<1>1. pc = "restart" /\ op # "show" /\ UNCHANGED disk /\ (Reload \/ UNCHANGED loaded)
  BY DEF Restart, RestartFails, IInv, Progress, Stages
<1>2. CASE End("success") \/ Fail
  BY <1>2, EndStep DEF End, Fail
<1>3. CASE NextInterface /\ UNCHANGED fault
  <2>1. op # "static"
    BY <1>1, <1>3 DEF NextInterface, IInv, Progress, InOrder, All
  <2>2. fresh /\ ~fault => Applying(iface) \subseteq others[iface]
    BY <1>1, <2>1 DEF IInv, TypeOK, Progress, DhcpProgress
  <2> QED
    BY <1>1, <1>3, <2>2, NextStep
<1> QED
  BY <1>2, <1>3 DEF Restart, RestartFails, Finish

LEMMA ProgressStep == ASSUME IInv, [Next]_vars PROVE Progress'
<1>1. ASSUME NEW i \in Iface, BeginDhcp(i) \/ BeginReset(i) \/ BeginShow(i)
      PROVE Progress'
  BY <1>1, BeginStep DEF BeginDhcp, BeginReset, BeginShow, All
<1>2. ASSUME NEW i \in Iface, NEW s \in Setting, BeginStatic(i, s) PROVE Progress'
  BY <1>2, BeginStep DEF BeginStatic, All
<1>3. CASE StatsFails \/ RefuseSetting \/ RefuseFile \/ PrintReport \/ RemoveMissing
           \/ RemoveFails \/ WriteFails \/ Kill
  BY <1>3, EndStep DEF StatsFails, RefuseSetting, RefuseFile, PrintReport, RemoveMissing,
                      RemoveFails, WriteFails, Kill, Fail, End
<1>4. CASE NetworkdStarts
  BY <1>4, EndStep DEF NetworkdStarts, End, IInv, Progress, Ended
<1>5. ASSUME NEW f \in File, EditByHand(f) PROVE Progress'
  <2>1. /\ ~fresh' /\ UNCHANGED <<pc, rc, op, todo, iface, view, loaded>>
        /\ \A g \in File \ {f} : disk'[g] = disk[g]
        /\ raced' = (raced \/ (pc = "remove" /\ f = view))
    BY <1>5 DEF EditByHand, IInv, TypeOK
  <2>2. MissingIsRaced'
    BY <2>1 DEF IInv, TypeOK, Progress, Stages, MissingIsRaced
  <2> QED
    BY <2>1, <2>2 DEF IInv, Progress, Ended, Stages, InOrder, DhcpProgress, StaticProgress,
                      ShowProgress, All
<1>6. CASE UNCHANGED vars
  <2>1. /\ \A j : Applying(j)' = Applying(j) /\ Best(j)' = Best(j)
        /\ \A j : (Tight(j) => Tight(j)') /\ (Right(j) => Right(j)')
        /\ \A j : Mode(j)' = Mode(j)
    BY <1>6, SameIsTight DEF vars, cmdVars, Mode
  <2> QED
    BY <1>6, <2>1
    DEF vars, cmdVars, IInv, Progress, Ended, Stages, InOrder, MissingIsRaced, DhcpProgress,
        StaticProgress, ShowProgress, All, Subject
<1> QED
  BY <1>1, <1>2, <1>3, <1>4, <1>5, <1>6, ShowStep, LookStep, StatStep, RemoveStep, WriteStep,
     RestartStep
  DEF Next, Command

LEMMA Invariant == Spec => []IInv
<1>1. Init => IInv
  BY TypeInit
  DEF Init, IInv, Progress, Ended, Stages, InOrder, MissingIsRaced, DhcpProgress,
      StaticProgress, ShowProgress
<1>2. IInv /\ [Next]_vars => IInv'
  BY TypeStep, ProgressStep DEF IInv
<1> QED
  BY <1>1, <1>2, PTL DEF Spec

-----------------------------------------------------------------------------

(* Every variable of networkd and of the command keeps its type. *)
THEOREM TypeCorrect == Spec => []TypeOK
<1>1. IInv => TypeOK
  BY DEF IInv
<1> QED
  BY <1>1, Invariant, PTL

(* The ways a command may end. *)
LEMMA CommandEnds ==
    ASSUME [Next]_vars, rc = "running", rc' # "running"
    PROVE  \/ rc' = "killed"
           \/ rc' = "failed" /\ (fault' \/ RemoveMissing \/ op = "static")
           \/ rc' = "shown" /\ pc = "print"
           \/ /\ todo = {} /\ UNCHANGED <<op, iface, disk>>
              /\ \/ AlreadyDhcp \/ Restart
                 \/ RestartFails /\ op # "static"
<1>1. ASSUME NEW o, NEW i, NEW s, NEW rest, Begin(o, i, s, rest) PROVE FALSE
  BY <1>1 DEF Begin
<1>2. ~\E i \in Iface : BeginDhcp(i) \/ BeginReset(i) \/ BeginShow(i)
                        \/ \E s \in Setting : BeginStatic(i, s)
  BY <1>1, Zenon DEF BeginDhcp, BeginReset, BeginShow, BeginStatic
<1>3. CASE StatsFails \/ RefuseSetting \/ RefuseFile \/ RemoveFails \/ WriteFails
  BY <1>3, Zenon DEF StatsFails, RefuseSetting, RefuseFile, RemoveFails, WriteFails, Fail, End
<1>4. CASE PrintReport
  BY <1>4 DEF PrintReport, End
<1>5. CASE RemoveMissing
  BY <1>5 DEF RemoveMissing, Fail, End
<1>6. CASE AlreadyDhcp \/ Restart \/ RestartFails
  BY <1>6 DEF AlreadyDhcp, Restart, RestartFails, Finish, NextInterface, Fail, End, cmdVars
<1>7. CASE Kill \/ NetworkdStarts
  BY <1>7 DEF Kill, NetworkdStarts, End
<1>8. ~(ShowInterface \/ UsesCustomFile \/ NothingToRemove \/ Stat \/ StatErrs \/ Remove
        \/ Write)
  BY DEF ShowInterface, UsesCustomFile, NothingToRemove, Stat, StatErrs, Remove, Write,
         NextInterface
<1>9. ~(UNCHANGED vars \/ \E f \in File : EditByHand(f))
  BY DEF EditByHand, vars
<1> QED
  BY <1>2, <1>3, <1>4, <1>5, <1>6, <1>7, <1>8, <1>9 DEF Next, Command

(***************************************************************************)
(* netconf.go:154: a dhcp or reset command that finds the file it is to    *)
(* remove already gone does not fail of it.  log.Fatal needs a fault, or a *)
(* hand that deletes the file between Stat and Remove.                     *)
(***************************************************************************)
THEOREM MissingFilesAreOkay == Spec => MissingFileIsOkay
<1>1. IInv /\ [Next]_vars =>
        [(op # "static" /\ rc = "running" /\ rc' = "failed") => fault' \/ raced]_vars
  <2> SUFFICES ASSUME IInv, Next, op # "static", rc = "running", rc' = "failed"
               PROVE  fault' \/ raced
    OBVIOUS
  <2>1. ~(AlreadyDhcp \/ Restart \/ (RestartFails /\ op # "static"))
    BY DEF AlreadyDhcp, Restart, RestartFails, Finish, NextInterface, Fail, End
  <2>2. fault' \/ RemoveMissing
    BY <2>1, CommandEnds
  <2>3. RemoveMissing => raced
    BY DEF RemoveMissing, IInv, Progress, MissingIsRaced
  <2> QED
    BY <2>2, <2>3
<1> QED
  BY <1>1, Invariant, PTL DEF Spec, MissingFileIsOkay

(* The steps at which a command says that it was successful. *)
LEMMA SuccessIsAchieved ==
    ASSUME IInv, [Next]_vars, Succeeds, fresh, ~fault
    PROVE  Achieved'
<1>1. /\ todo = {} /\ UNCHANGED <<op, iface, disk>>
      /\ AlreadyDhcp \/ Restart \/ (RestartFails /\ op # "static")
  BY CommandEnds DEF Succeeds
<1>2. UNCHANGED <<setting, others>> /\ op # "show"
  BY <1>1 DEF AlreadyDhcp, Restart, RestartFails, Finish, NextInterface, Fail, End, cmdVars,
              IInv, Progress, Stages
<1>3. \A j : Best(j)' = Best(j)
  BY <1>1, SameFiles
<1>4. CASE op = "static"
  <2>1. pc = "restart"
    BY <1>1, <1>4 DEF AlreadyDhcp, Restart
  <2>2. /\ iface \in Applying(iface) /\ disk[iface] = setting
        /\ Applying(iface) \subseteq {iface} \union others[iface]
    BY <1>4, <2>1 DEF IInv, Progress, StaticProgress
  <2>3. Best(iface) \in Applying(iface)
    BY <2>2, BestApplies
  <2> QED
    BY <1>1, <1>2, <1>3, <1>4, <2>2, <2>3 DEF Achieved
<1>5. CASE op # "static"
  <2>1. Applying(iface) \subseteq others[iface]
    BY <1>1, <1>2, <1>5, DefaultIsFree
    DEF AlreadyDhcp, Restart, RestartFails, IInv, TypeOK, Progress, DhcpProgress
  <2>2. pc # "idle"
    BY <1>1 DEF AlreadyDhcp, Restart, RestartFails
  <2>3. \A j \in Subject : Applying(j) \subseteq others[j]
    BY <1>1, <1>2, <1>5, <2>1, <2>2 DEF IInv, TypeOK, Progress, DhcpProgress
  <2>4. \A j \in Subject : Best(j) \in {Default} \union others[j]
    BY <2>3, BestIsDefault, BestApplies
  <2>5. Subject' = Subject
    BY <1>1 DEF Subject, All
  <2> QED
    BY <1>1, <1>2, <1>3, <1>5, <2>4, <2>5 DEF Achieved
<1> QED
  BY <1>4, <1>5

(***************************************************************************)
(* "success" and "already" stand for what the next start of networkd finds *)
(* on the disk, for any number of interfaces and of files made by hand for *)
(* several of them: the setting, or the system's default, or a file that   *)
(* applied besides the one in use when the command began, if networkd knew *)
(* the files then, nobody edited them since and Stat did not err.          *)
(***************************************************************************)
THEOREM ReportedSuccessHolds == Spec => SuccessHolds
<1>1. IInv /\ [Next]_vars => [(Succeeds /\ fresh /\ ~fault) => Achieved']_vars
  BY SuccessIsAchieved
<1> QED
  BY <1>1, Invariant, PTL DEF Spec, SuccessHolds

(***************************************************************************)
(* What showConfig prints at its end tells of every wired interface        *)
(* whether the default file is the one it will have, though it has asked   *)
(* for them one after the other; a NETWORK_FILE that is neither the        *)
(* default nor below /etc counts as a fault.                               *)
(***************************************************************************)
THEOREM ShownModesHold == Spec => ShowsWhatHolds
<1>1. IInv /\ [Next]_vars =>
        [(rc = "running" /\ rc' = "shown" /\ fresh /\ ~fault) =>
            \A i \in Wired : report[i] = IF Best(i) = Default THEN "DHCP" ELSE "STATIC"]_vars
  <2> SUFFICES ASSUME IInv, Next, rc = "running", rc' = "shown", fresh, ~fault
               PROVE  \A i \in Wired : report[i] = Mode(i)
    BY DEF Mode
  <2>1. pc = "print"
    BY CommandEnds DEF AlreadyDhcp, Restart, RestartFails, Finish, NextInterface, Fail, End
  <2> QED
    BY <2>1 DEF IInv, Progress, Stages, ShowProgress
<1> QED
  BY <1>1, Invariant, PTL DEF Spec, ShowsWhatHolds

=============================================================================
