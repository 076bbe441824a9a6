------------------------------- MODULE Netconf -------------------------------
(***************************************************************************)
(* netconf: switches network interfaces between DHCP and a static setting  *)
(* (go/netconf).  systemd-networkd uses, for each interface, the first     *)
(* matching file by name; the files of /etc/systemd/network come before    *)
(* the default of the system, zz-default.network, which asks for DHCP.     *)
(*                                                                         *)
(* networkd reads the files when it starts.  netconf asks it which file an *)
(* interface uses (NETWORK_FILE) and removes that one, so it acts on what  *)
(* networkd has read and not on what is on the disk.  One netconf command  *)
(* runs at a time; files are also edited by hand.                          *)
(***************************************************************************)
EXTENDS Naturals

CONSTANTS
    Iface,        \* interfaces; also the names of their files, <iface>.network
    Wired,        \* those that GetListOfInterfaces returns: not the wl* ones
    Custom,       \* other files of /etc/systemd/network, made by hand
    Covers,       \* [Custom -> the interfaces its [Match] section applies to]
    Rank,         \* [Iface \union Custom -> place in the order of names]
    Setting,      \* static settings: address, netmask, gateway, dns
    ByHand,       \* content of a custom file
    Partial,      \* content of a file of netconf's that is not all there
    NoFile,       \* content of a file that is not there, or empty
    Default,      \* the system's zz-default.network
    Other,        \* NETWORK_FILE is neither the default nor below /etc
    MaxRuns,      \* bound: netconf commands
    MaxEdits      \* bound: edits by hand

File == Iface \union Custom

ASSUME NetconfAssumption ==
    /\ Wired \subseteq Iface
    /\ Iface \intersect Custom = {}
    /\ Covers \in [Custom -> SUBSET Iface]
    /\ Rank \in [File -> Nat]
    /\ \A f, g \in File : Rank[f] = Rank[g] => f = g
    /\ Default \notin File /\ Other \notin File \union {Default}
    /\ ByHand \notin Setting \union {Partial} /\ Partial \notin Setting
    /\ NoFile \notin Setting \union {ByHand, Partial}
    /\ MaxRuns \in Nat /\ MaxEdits \in Nat

VARIABLES
    disk,         \* content of the files
    loaded,       \* [Iface -> NETWORK_FILE, the file networkd has read for it]
    pc,           \* next step of the command; "idle": none runs
    op,           \* "dhcp", "static", "reset" or "show"
    todo,         \* interfaces that come after the present one
    iface,        \* the interface being configured
    setting,      \* the setting asked for
    view,         \* iData.NETWORK_FILE
    report,       \* [Iface -> the mode -show has found, or "none"]
    rc,           \* how the command ended
    runs, edits,
    \* history
    fresh,        \* networkd knew what is on the disk when the command began
    others,       \* [Iface -> files that applied then, but for the one in use]
    fault,        \* a call to the system failed, networkd named a file the program
                  \* has no idea of, or the program refused its input
    raced         \* the file was deleted by hand after Stat had found it

cmdVars == <<op, todo, iface, setting, view, runs, fresh, others>>
vars == <<disk, loaded, pc, cmdVars, report, rc, edits, fault, raced>>

TypeOK ==
    /\ disk \in [File -> Setting \union {ByHand, Partial, NoFile}]
    /\ \A i \in Iface : disk[i] # ByHand
    /\ \A c \in Custom : disk[c] \in {ByHand, NoFile}
    /\ loaded \in [Iface -> File \union {Default}]
    /\ pc \in {"idle", "stats", "stat", "remove", "write", "restart", "print"}
    /\ op \in {"dhcp", "static", "reset", "show"}
    /\ todo \subseteq Wired
    /\ iface \in Iface
    /\ setting \in Setting
    /\ view \in File \union {Default, Other}
    /\ report \in [Iface -> {"none", "DHCP", "STATIC"}]
    /\ rc \in {"none", "running", "success", "already", "shown", "failed", "killed"}
    /\ runs \in 0..MaxRuns /\ edits \in 0..MaxEdits
    /\ fresh \in BOOLEAN /\ fault \in BOOLEAN /\ raced \in BOOLEAN
    /\ others \in [Iface -> SUBSET File]

-----------------------------------------------------------------------------
(* networkd. *)

Matches(f)  == IF f \in Iface THEN {f} ELSE Covers[f]
Applying(i) == {f \in File : disk[f] # NoFile /\ i \in Matches(f)}

(* The file that i gets when networkd starts. *)
Best(i) == IF Applying(i) = {} THEN Default
           ELSE CHOOSE f \in Applying(i) : \A g \in Applying(i) : Rank[f] <= Rank[g]

Reload == loaded' = [i \in Iface |-> Best(i)]

(* networkd knows the disk. *)
Known(I) == \A i \in I : loaded[i] = Best(i)

Init ==
    /\ disk = [f \in File |-> NoFile]
    /\ loaded = [i \in Iface |-> Default]
    /\ pc = "idle" /\ op = "dhcp" /\ todo = {}
    /\ iface \in Iface /\ setting \in Setting
    /\ view = Default
    /\ report = [i \in Iface |-> "none"]
    /\ rc = "none" /\ runs = 0 /\ edits = 0
    /\ fresh = TRUE /\ fault = FALSE /\ raced = FALSE
    /\ others = [i \in Iface |-> {}]

-----------------------------------------------------------------------------
(* The command line. *)

All(o)  == o \in {"reset", "show"}
Subject == IF All(op) THEN Wired ELSE {iface}

Begin(o, i, s, rest) ==
    /\ pc = "idle" /\ runs < MaxRuns
    /\ pc' = "stats" /\ rc' = "running" /\ runs' = runs + 1
    /\ op' = o /\ iface' = i /\ setting' = s /\ todo' = rest
    /\ fresh' = Known(IF All(o) THEN Wired ELSE {i})
    /\ others' = [j \in Iface |-> Applying(j) \ {loaded[j]}]
    /\ fault' = FALSE /\ raced' = FALSE
    /\ UNCHANGED <<disk, loaded, view, report, edits>>

BeginDhcp(i)      == Begin("dhcp", i, setting, {})
BeginStatic(i, s) == Begin("static", i, s, {})

(* A wrong variant: GetListOfInterfaces returns the wireless ones as well. *)
BeginResetAll(i) == i \in Iface /\ Begin("reset", i, setting, Iface \ {i})

BeginReset(i) == i \in Wired /\ Begin("reset", i, setting, Wired \ {i})

BeginShow(i) == i \in Wired /\ Begin("show", i, setting, Wired \ {i})

Goto(step) ==
    pc' = step /\ UNCHANGED <<op, todo, iface, setting, runs, fresh, others, raced>>

End(how) ==
    /\ pc' = "idle" /\ rc' = how
    /\ report' = [i \in Iface |-> "none"]
    /\ UNCHANGED <<cmdVars, raced>>

(* log.Fatal; a reset does not go on to its other interfaces. *)
Fail == End("failed")

(* One interface is done: reset and show take the next. *)
NextInterface ==
    \E i \in todo :
         /\ iface' = i /\ todo' = todo \ {i}
         /\ pc' = "stats"
         /\ UNCHANGED <<op, setting, view, runs, fresh, others, raced, rc>>

Finish(how) ==
    \/ todo = {} /\ End(how)
    \/ NextInterface /\ UNCHANGED report

-----------------------------------------------------------------------------
(* Before anything is changed. *)

(* GetListOfInterfaces, GetInterfaceStats, GetMacAddress. *)
StatsFails ==
    /\ pc = "stats"
    /\ fault' = TRUE
    /\ Fail
    /\ UNCHANGED <<disk, loaded, edits>>

(* The address, netmask, gateway or dns is not valid. *)
RefuseSetting ==
    /\ pc = "stats" /\ op = "static"
    /\ fault' = TRUE
    /\ Fail
    /\ UNCHANGED <<disk, loaded, edits>>

-----------------------------------------------------------------------------
(* showConfig *)

(* A wrong variant: the mode is told from the file netconf would write. *)
ModeOfOwnFile(file) == IF file = iface THEN "STATIC" ELSE "DHCP"

(* getNetInterfaceData: every file but the default counts as static, also *)
(* an empty name, and a file made by hand that asks for DHCP.             *)
ModeOf(file) == IF file = Default THEN "DHCP" ELSE "STATIC"

(* NETWORK_FILE may be one that is neither the default nor below /etc. *)
ShowInterface ==
    /\ pc = "stats" /\ op = "show"
    /\ \/ /\ report' = [report EXCEPT ![iface] = ModeOf(loaded[iface])]
          /\ UNCHANGED fault
       \/ /\ report' = [report EXCEPT ![iface] = ModeOf(Other)]
          /\ fault' = TRUE
    /\ \/ todo = {} /\ Goto("print") /\ UNCHANGED <<view, rc>>
       \/ NextInterface
    /\ UNCHANGED <<disk, loaded, edits>>

(* The reports of all interfaces at once, or none of them. *)
PrintReport ==
    /\ pc = "print"
    /\ End("shown")
    /\ UNCHANGED <<disk, loaded, edits, fault>>

-----------------------------------------------------------------------------
(* enableDHCP and setStaticConfig. *)

(* The file in use is one the program has no idea how to handle. *)
RefuseFile ==
    /\ pc = "stats" /\ op # "show"
    /\ view' = Other
    /\ fault' = TRUE
    /\ pc' = "idle" /\ rc' = "failed"
    /\ UNCHANGED <<op, todo, iface, setting, runs, fresh, others, raced, report, disk,
                   loaded, edits>>

Look ==
    /\ pc = "stats" /\ op # "show"
    /\ view' = loaded[iface]
    /\ UNCHANGED <<disk, loaded, report, edits, fault>>

AlreadyDhcp ==
    /\ op \in {"dhcp", "reset"} /\ loaded[iface] = Default
    /\ pc = "stats"
    /\ Finish("already")
    /\ UNCHANGED <<disk, loaded, edits, fault>>

UsesCustomFile ==
    /\ loaded[iface] # Default
    /\ Look /\ Goto(IF op = "static" THEN "remove" ELSE "stat") /\ UNCHANGED rc

NothingToRemove ==
    /\ op = "static" /\ loaded[iface] = Default
    /\ Look /\ Goto("write") /\ UNCHANGED rc

(* A wrong variant: enableDHCP does not ask whether the file is there. *)
StatSkipped ==
    /\ pc = "stat"
    /\ Goto("remove")
    /\ UNCHANGED <<disk, loaded, view, report, rc, edits, fault>>

(* enableDHCP looks whether the file is there, before it removes it. *)
Stat ==
    /\ pc = "stat"
    /\ Goto(IF disk[view] = NoFile THEN "restart" ELSE "remove")
    /\ UNCHANGED <<disk, loaded, view, report, rc, edits, fault>>

(* Any error of Stat passes for "it is not there". *)
StatErrs ==
    /\ pc = "stat" /\ disk[view] # NoFile
    /\ fault' = TRUE
    /\ Goto("restart")
    /\ UNCHANGED <<disk, loaded, view, report, rc, edits>>

AfterRemove == IF op = "static" THEN "write" ELSE "restart"

(* A wrong variant: the static file is written beside the file in use. *)
RemoveNothingForStatic ==
    /\ pc = "remove" /\ disk[view] # NoFile
    /\ disk' = IF op = "static" THEN disk ELSE [disk EXCEPT ![view] = NoFile]
    /\ Goto(AfterRemove)
    /\ UNCHANGED <<loaded, view, report, rc, edits, fault>>

Remove ==
    /\ pc = "remove" /\ disk[view] # NoFile
    /\ disk' = [disk EXCEPT ![view] = NoFile]
    /\ Goto(AfterRemove)
    /\ UNCHANGED <<loaded, view, report, rc, edits, fault>>

(* The file is not there any more; setStaticConfig has not looked at all. *)
RemoveMissing ==
    /\ pc = "remove" /\ disk[view] = NoFile
    /\ Fail
    /\ UNCHANGED <<disk, loaded, edits, fault>>

RemoveFails ==
    /\ pc = "remove" /\ disk[view] # NoFile
    /\ fault' = TRUE
    /\ Fail
    /\ UNCHANGED <<disk, loaded, edits>>

Write ==
    /\ pc = "write"
    /\ disk' = [disk EXCEPT ![iface] = setting]
    /\ Goto("restart")
    /\ UNCHANGED <<loaded, view, report, rc, edits, fault>>

(* What WriteFile may leave when it does not come to its end; networkd   *)
(* passes over an empty file, and a partial one is taken to have its       *)
(* [Match] section.                                                        *)
Torn == {disk} \union {[disk EXCEPT ![iface] = c] : c \in {NoFile, Partial}}

WriteFails ==
    /\ pc = "write"
    /\ disk' \in Torn
    /\ fault' = TRUE
    /\ Fail
    /\ UNCHANGED <<loaded, edits>>

Restart ==
    /\ pc = "restart"
    /\ Reload
    /\ Finish("success")
    /\ UNCHANGED <<disk, edits, fault>>

(* restartNetworkD returns an error, perhaps after the restart. *)
RestartFails ==
    /\ pc = "restart"
    /\ Reload \/ UNCHANGED loaded
    /\ \/ op = "static" /\ fault' = TRUE /\ Fail
       \/ op # "static" /\ Finish("success") /\ UNCHANGED fault
    /\ UNCHANGED <<disk, edits>>

-----------------------------------------------------------------------------
(* The world. *)

Kill ==
    /\ pc # "idle"
    /\ IF pc = "write" THEN disk' \in Torn ELSE UNCHANGED disk
    /\ End("killed")
    /\ UNCHANGED <<loaded, edits, fault>>

(* A boot, or a restart of networkd by someone else while no command runs. *)
NetworkdStarts ==
    /\ Reload
    /\ IF pc = "idle" THEN UNCHANGED <<pc, rc, cmdVars, report, raced>> ELSE End("killed")
    /\ UNCHANGED <<disk, edits, fault>>

EditByHand(f) ==
    /\ edits < MaxEdits
    /\ edits' = edits + 1
    /\ \/ disk[f] # NoFile /\ disk' = [disk EXCEPT ![f] = NoFile]
       \/ f \in Custom /\ disk[f] = NoFile /\ disk' = [disk EXCEPT ![f] = ByHand]
    /\ fresh' = FALSE
    /\ raced' = (raced \/ (pc = "remove" /\ f = view))
    /\ UNCHANGED <<loaded, pc, op, todo, iface, setting, view, runs, others, report, rc,
                   fault>>

Command ==
    \/ StatsFails \/ RefuseSetting \/ RefuseFile
    \/ ShowInterface \/ PrintReport
    \/ AlreadyDhcp \/ UsesCustomFile \/ NothingToRemove
    \/ Stat \/ StatErrs \/ Remove \/ RemoveMissing \/ RemoveFails
    \/ Write \/ WriteFails \/ Restart \/ RestartFails

Next ==
    \/ (\E i \in Iface : BeginDhcp(i) \/ BeginReset(i) \/ BeginShow(i)
                         \/ \E s \in Setting : BeginStatic(i, s))
    \/ Command \/ Kill \/ NetworkdStarts
    \/ (\E f \in File : EditByHand(f))

Spec == Init /\ [][Next]_vars

-----------------------------------------------------------------------------
(* Properties. *)

(***************************************************************************)
(* What the command was to bring about, once networkd starts again.  Of    *)
(* several files for an interface a command removes only the one in use:   *)
(* if there were others for it, one of those may take hold instead.        *)
(***************************************************************************)
Achieved ==
    IF op = "static"
    THEN disk[iface] = setting /\ Best(iface) \in {iface} \union others[iface]
    ELSE \A i \in Subject : Best(i) \in {Default} \union others[i]

Succeeds == rc = "running" /\ rc' \in {"success", "already"}

(***************************************************************************)
(* netconf.go:150, "we'll just remove any user provided config, so the     *)
(* systems default takes hold": what a command reports as success holds    *)
(* after the reboot it asks for, or another file that applied before does, *)
(* if networkd knew the files when the command began, nobody edited them   *)
(* since and Stat told the truth: whatever commands were killed or failed  *)
(* before, and with files that apply to several interfaces at once.        *)
(***************************************************************************)
SuccessHolds == [][(Succeeds /\ fresh /\ ~fault) => Achieved']_vars

(***************************************************************************)
(* What -show prints tells whether an interface has the default file or    *)
(* another one ("STATIC", though it may ask for DHCP) after a reboot, for  *)
(* all wired interfaces, with files that apply to several of them: if      *)
(* networkd knew the files when the command began, nobody edited them      *)
(* since and it named no file that is neither the default nor below /etc.  *)
(***************************************************************************)
ShowsWhatHolds ==
    [][(rc = "running" /\ rc' = "shown" /\ fresh /\ ~fault) =>
         \A i \in Wired : report[i] = IF Best(i) = Default THEN "DHCP" ELSE "STATIC"]_vars

(***************************************************************************)
(* netconf.go:154, "It's okay if the file does not exists": no dhcp or     *)
(* reset command fails unless something else is wrong, though a reset      *)
(* may have removed the file of one interface as that of another before,   *)
(* and a restart of networkd that failed leaves it with files long gone.   *)
(* What is not okay is a file deleted by hand between Stat and Remove.     *)
(***************************************************************************)
MissingFileIsOkay ==
    [][(op # "static" /\ rc = "running" /\ rc' = "failed") => fault' \/ raced]_vars
=============================================================================
