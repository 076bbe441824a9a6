---------------------------- MODULE ZfsSnapshots ----------------------------
(***************************************************************************)
(* zfs-snapshots: create, dump and rotate snapshots (go/zfs-snapshots).    *)
(* scripts/create-backup.sh runs "zfs-snapshots -dir /backup -send create" *)
(* every night for two datasets; the cloudbackup container uploads every   *)
(* .snap file that appears in the inbox.  Nothing but the snapshots and    *)
(* the files survives a run, so each run finds the base of its incremental *)
(* dumps by looking at the names of the snapshots that are there.          *)
(*                                                                         *)
(* Names are compared as strings.  Datasets, labels and times are numbers  *)
(* here, numbered in string order; the time in a name has whole seconds.   *)
(* A label may begin with another one and a dash (Longer); what follows    *)
(* the dash is taken not to look like a year, so that the snapshots of the *)
(* two labels do not mix in the order of the names.                        *)
(* One zfs-snapshots command runs at a time.                               *)
(***************************************************************************)
EXTENDS Naturals, FiniteSets, Sequences

CONSTANTS
    Names,        \* the datasets given on the command line, a sequence
    Labels,       \* values of -label
    Longer,       \* [Labels -> the labels that begin with it and a dash]
    Keeps,        \* values of -keep
    MaxTime,      \* bound: the clock
    MaxRuns,      \* bound: create commands
    StepsBack     \* bound: times the clock is set back

Datasets == {Names[i] : i \in 1..Len(Names)}

ASSUME ZfsAssumption ==
    /\ Names \in Seq(Nat) /\ Names # <<>>
    /\ Labels \subseteq Nat /\ Labels # {}
    /\ Longer \in [Labels -> SUBSET Labels]
    /\ Keeps \subseteq Nat
    /\ MaxTime \in Nat \ {0} /\ MaxRuns \in Nat /\ StepsBack \in Nat

VARIABLES
    snapshots,    \* what "zfs list -t snapshot" shows
    tmpFiles,     \* the .snap.tmp files in the inbox
    snapFiles,    \* the .snap files that were ever in the inbox
    now,          \* the clock, in seconds
    back,         \* how often it was set back
    pc,           \* where the run is; "idle": no run
    run,          \* number of runs, the running one included
    label, keep, send,  \* its arguments
    stamp,        \* the time in labelWithTimestamp
    old,          \* oldSnapshots
    next,         \* position in Names of the dataset to dump next
    left,         \* the snapshots a loop has not come to
    failed,       \* err # nil
    result,       \* how the last run ended
    \* history
    orphans,      \* runs that left a snapshot behind without publishing it
    spared        \* a destroy of the present run has failed

argVars  == <<run, label, keep, send>>
workVars == <<stamp, old, next, left, failed, spared>>
fileVars == <<tmpFiles, snapFiles>>
vars == <<snapshots, fileVars, now, back, pc, argVars, workVars, result, orphans>>

(* A snapshot: its name, and the run it was born in, which zfs knows as txg. *)
Snapshot == [ds : Datasets, label : Labels, time : 1..MaxTime, born : 1..MaxRuns]
None == [ds |-> 0, label |-> 0, time |-> 0, born |-> 0]

(* A dump: the snapshot its name is made of, and the two it was sent from and to. *)
File == [ds : Datasets, label : Labels, time : 1..MaxTime,
         from : Snapshot \union {None}, to : Snapshot \union {None}]

TypeOK ==
    /\ snapshots \subseteq Snapshot
    /\ tmpFiles \subseteq File
    /\ snapFiles \subseteq File
    /\ now \in 1..MaxTime
    /\ back \in 0..StepsBack
    /\ pc \in {"idle", "list", "create", "open", "send", "unwind", "rename",
               "rollback", "cleanup"}
    /\ run \in 0..MaxRuns
    /\ label \in Labels /\ keep \in Keeps \union {0} /\ send \in BOOLEAN
    /\ stamp \in 0..MaxTime
    /\ old \subseteq Snapshot
    /\ next \in 1..(Len(Names) + 1)
    /\ left \subseteq Snapshot
    /\ failed \in BOOLEAN
    /\ result \in {"none", "running", "ok", "failed", "killed"}
    /\ orphans \subseteq 1..MaxRuns
    /\ spared \in BOOLEAN

Init ==
    /\ snapshots = {} /\ tmpFiles = {} /\ snapFiles = {}
    /\ now = 1 /\ back = 0
    /\ pc = "idle" /\ run = 0
    /\ label \in Labels /\ keep = 0 /\ send = FALSE
    /\ stamp = 0 /\ old = {} /\ next = 1 /\ left = {} /\ failed = FALSE
    /\ result = "none"
    /\ orphans = {} /\ spared = FALSE

-----------------------------------------------------------------------------
(* Names. *)

(* sort.Strings *)
Less(s, t) ==
    \/ s.ds < t.ds
    \/ s.ds = t.ds /\ s.label < t.label
    \/ s.ds = t.ds /\ s.label = t.label /\ s.time < t.time

Rank(S, s)   == Cardinality({t \in S : Less(t, s)})
Oldest(S, k) == {s \in S : Rank(S, s) < k}
Least(S)     == CHOOSE s \in S : Rank(S, s) = 0

SameName(s, t) == s.ds = t.ds /\ s.label = t.label /\ s.time = t.time

(* fullName, for each dataset; newSnapshots *)
New(d) == [ds |-> d, label |-> label, time |-> stamp, born |-> run]
NewSnapshots == {New(d) : d \in Datasets}

(* A wrong variant: newest looks at the list of the beginning. *)
FilteredBefore(d) == {s \in old : s.ds = d /\ s.label = label}

(* newest: the two last of the snapshots whose names begin with the dataset,
   the label and a dash. *)
Filtered(d) == {s \in snapshots : s.ds = d /\ s.label \in {label} \union Longer[label]}
Last(S)     == CHOOSE s \in S : Rank(S, s) = Cardinality(S) - 1
To(d)       == Last(Filtered(d))
From(d)     == IF Cardinality(Filtered(d)) = 1 THEN None
               ELSE Last(Filtered(d) \ {To(d)})

(* A wrong variant: keep versions remain besides the new one. *)
EnterCleanupOneLess ==
    /\ pc' = "cleanup"
    /\ left' = IF keep # 0 /\ Cardinality(old) >= keep
               THEN Oldest(old, Cardinality(old) - keep) ELSE {}

(* cleanup: what it is going to destroy. *)
EnterCleanup ==
    /\ pc' = "cleanup"
    /\ left' = IF keep # 0 /\ Cardinality(old) >= keep
               THEN Oldest(old, Cardinality(old) - keep + 1) ELSE {}

-----------------------------------------------------------------------------
(* TakeSnapshot *)

Start(l, k, s) ==
    /\ pc = "idle" /\ run < MaxRuns
    /\ pc' = "list" /\ run' = run + 1 /\ result' = "running"
    /\ label' = l /\ keep' = k /\ send' = s
    /\ spared' = FALSE
    /\ UNCHANGED <<snapshots, fileVars, now, back, stamp, old, next, left, failed, orphans>>

(* The process is gone, and its variables with it. *)
End(how) ==
    /\ pc' = "idle"
    /\ result' = how
    /\ keep' = 0 /\ send' = FALSE
    /\ stamp' = 0 /\ old' = {} /\ next' = 1 /\ left' = {} /\ failed' = FALSE
    /\ UNCHANGED <<run, label, spared>>

(* The list of all snapshots cannot be read, or has the new name already. *)
ListFails ==
    /\ pc = "list"
    /\ End("failed")
    /\ UNCHANGED <<snapshots, fileVars, now, back, orphans>>

(* A wrong variant: the label is of the second after. *)
ListLate ==
    /\ pc = "list"
    /\ ~\E s \in snapshots : s.ds \in Datasets /\ s.label = label /\ s.time = now
    /\ stamp' = now + 1
    /\ old' = {s \in snapshots : s.ds \in Datasets}
    /\ pc' = "create"
    /\ UNCHANGED <<snapshots, fileVars, now, back, argVars, next, left, failed,
                   result, orphans, spared>>

List ==
    /\ pc = "list"
    /\ ~\E s \in snapshots : s.ds \in Datasets /\ s.label = label /\ s.time = now
    /\ stamp' = now
    /\ old' = {s \in snapshots : s.ds \in Datasets}
    /\ pc' = "create"
    /\ UNCHANGED <<snapshots, fileVars, now, back, argVars, next, left, failed,
                   result, orphans, spared>>

Create ==
    /\ pc = "create"
    /\ snapshots' = snapshots \union NewSnapshots
    /\ \/ send /\ pc' = "open" /\ UNCHANGED left
       \/ ~send /\ EnterCleanup
    /\ UNCHANGED <<fileVars, now, back, argVars, stamp, old, next, failed, result,
                   orphans, spared>>

EnterRollback ==
    /\ failed' = TRUE
    /\ left' = NewSnapshots
    /\ pc' = "rollback"

(* A wrong variant: nothing is rolled back when "zfs snapshot" fails. *)
CreateFailsInPart ==
    /\ pc = "create"
    /\ \E part \in SUBSET NewSnapshots : snapshots' = snapshots \union part
    /\ End("failed")
    /\ UNCHANGED <<fileVars, now, back, orphans>>

(* "zfs snapshot" fails, having made some of the snapshots or none. *)
CreateFails ==
    /\ pc = "create"
    /\ \E part \in SUBSET NewSnapshots : snapshots' = snapshots \union part
    /\ EnterRollback
    /\ UNCHANGED <<fileVars, now, back, argVars, stamp, old, next, result, orphans,
                   spared>>

-----------------------------------------------------------------------------
(* sendSnapshots *)

Current == New(Names[next])
FileOf(s, from, to) ==
    [ds |-> s.ds, label |-> s.label, time |-> s.time, from |-> from, to |-> to]
Others(files, s) == {f \in files : ~SameName(f, s)}

(* os.Create: the file is there and empty. *)
Open ==
    /\ pc = "open"
    /\ tmpFiles' = Others(tmpFiles, Current) \union {FileOf(Current, None, None)}
    /\ pc' = "send"
    /\ UNCHANGED <<snapshots, snapFiles, now, back, argVars, workVars, result, orphans>>

(***************************************************************************)
(* driver.Snapshots, newest and "zfs send", which refuses a base that is   *)
(* younger than the snapshot.                                              *)
(***************************************************************************)
Send ==
    /\ pc = "send"
    /\ LET d == Names[next] IN
         /\ Filtered(d) # {}
         /\ From(d).born <= To(d).born
         /\ tmpFiles' = Others(tmpFiles, Current)
                           \union {FileOf(Current, From(d), To(d))}
    /\ next' = next + 1
    /\ IF next = Len(Names) THEN pc' = "rename" /\ left' = NewSnapshots
                             ELSE pc' = "open"   /\ UNCHANGED left
    /\ UNCHANGED <<snapshots, snapFiles, now, back, argVars, stamp, old, failed,
                   result, orphans, spared>>

(* One of the commands fails; the file may have been opened before. *)
SendFails ==
    /\ pc \in {"open", "send"}
    /\ pc' = "unwind"
    /\ UNCHANGED <<snapshots, fileVars, now, back, argVars, workVars, result, orphans>>

(* A wrong variant: the files are removed and the snapshots stay. *)
UnwindFilesOnly ==
    /\ pc = "unwind"
    /\ tmpFiles' = {f \in tmpFiles : \A s \in NewSnapshots : ~SameName(f, s)}
    /\ End("failed")
    /\ UNCHANGED <<snapshots, snapFiles, now, back, orphans>>

(* os.Remove of the files opened so far; its error is not looked at. *)
Unwind ==
    /\ pc = "unwind"
    /\ \E stay \in SUBSET {f \in tmpFiles : \E s \in NewSnapshots : SameName(f, s)} :
         tmpFiles' = {f \in tmpFiles : \A s \in NewSnapshots : ~SameName(f, s)}
                       \union stay
    /\ EnterRollback
    /\ UNCHANGED <<snapshots, snapFiles, now, back, argVars, stamp, old, next, result,
                   orphans, spared>>

(* The keys of a Go map come in no particular order. *)
Rename(s) ==
    /\ pc = "rename" /\ s \in left
    /\ \/ /\ LET f == CHOOSE g \in tmpFiles : SameName(g, s) IN
              /\ tmpFiles' = tmpFiles \ {f}
              /\ snapFiles' = snapFiles \union {f}
         /\ UNCHANGED failed
       \/ /\ failed' = TRUE
          /\ UNCHANGED fileVars
    /\ left' = left \ {s}
    /\ UNCHANGED <<snapshots, now, back, pc, argVars, stamp, old, next, result, orphans,
                   spared>>

RenameDone ==
    /\ pc = "rename" /\ left = {}
    /\ \/ failed /\ EnterRollback
       \/ ~failed /\ EnterCleanup /\ UNCHANGED failed
    /\ UNCHANGED <<snapshots, fileVars, now, back, argVars, stamp, old, next, result,
                   orphans, spared>>

-----------------------------------------------------------------------------
(* DeleteSnapshot: of the new snapshots after a failure, of old ones else. *)

Destroy ==
    /\ pc \in {"rollback", "cleanup"} /\ left # {}
    /\ snapshots' = snapshots \ {Least(left)}
    /\ left' = left \ {Least(left)}
    /\ UNCHANGED <<fileVars, now, back, pc, argVars, stamp, old, next, failed, result,
                   orphans, spared>>

(* An error is logged at most, and the loop goes on. *)
DestroyFails ==
    /\ pc \in {"rollback", "cleanup"} /\ left # {}
    /\ left' = left \ {Least(left)}
    /\ spared' = TRUE
    /\ orphans' = IF pc = "rollback" THEN orphans \union {run} ELSE orphans
    /\ UNCHANGED <<snapshots, fileVars, now, back, pc, argVars, stamp, old, next, failed,
                   result>>

Done ==
    /\ pc \in {"rollback", "cleanup"} /\ left = {}
    /\ End(IF failed THEN "failed" ELSE "ok")
    /\ orphans' = IF failed \/ send THEN orphans ELSE orphans \union {run}
    /\ UNCHANGED <<snapshots, fileVars, now, back>>

-----------------------------------------------------------------------------
(* The world. *)

(* SIGKILL, or a power cut; what a dump has written is taken to be on the disk
   (the error of its Sync is not looked at), and so is a rename. *)
Kill ==
    /\ pc # "idle"
    /\ End("killed")
    /\ orphans' = IF pc = "list" THEN orphans ELSE orphans \union {run}
    /\ UNCHANGED <<snapshots, fileVars, now, back>>

(* "zfs-snapshots delete", by hand. *)
UserDeletes(s) ==
    /\ pc = "idle" /\ s \in snapshots
    /\ snapshots' = snapshots \ {s}
    /\ UNCHANGED <<fileVars, now, back, pc, argVars, workVars, result, orphans>>

(***************************************************************************)
(* A run reads the clock once, in List, before it has changed anything:    *)
(* moving the clock between runs loses no behaviour.                       *)
(***************************************************************************)
Tick ==
    /\ pc = "idle" /\ now < MaxTime
    /\ now' = now + 1
    /\ UNCHANGED <<snapshots, fileVars, back, pc, argVars, workVars, result, orphans>>

(* Local time is set back: an hour in autumn, any amount by ntp. *)
SetBack ==
    /\ pc = "idle" /\ back < StepsBack
    /\ back' = back + 1
    /\ \E t \in 1..(now - 1) : now' = t
    /\ UNCHANGED <<snapshots, fileVars, pc, argVars, workVars, result, orphans>>

Command ==
    \/ ListFails \/ List \/ Create \/ CreateFails
    \/ Open \/ Send \/ SendFails \/ Unwind
    \/ (\E s \in NewSnapshots : Rename(s)) \/ RenameDone
    \/ Destroy \/ DestroyFails \/ Done

Next ==
    \/ (\E l \in Labels, k \in Keeps, s \in BOOLEAN : Start(l, k, s))
    \/ Command \/ Kill
    \/ (\E s \in snapshots : UserDeletes(s))
    \/ Tick \/ SetBack

Spec == Init /\ [][Next]_vars

-----------------------------------------------------------------------------
(* Properties. *)

(***************************************************************************)
(* No label in use begins with this one and a dash.  Of a label that is    *)
(* not alone newest takes the other's snapshots for its own, sends them    *)
(* under the wrong name or has zfs refuse the pair.  create-backup.sh      *)
(* takes ten hexadecimal digits for a label, which no other extends.       *)
(***************************************************************************)
Alone(l) == Longer[l] = {}

(***************************************************************************)
(* What the uploader gets can be restored: an incremental dump is based on *)
(* a snapshot that was itself published, whatever failed in between.  The  *)
(* exceptions are the snapshots that a killed run, a failed rollback or a  *)
(* run without -send has left behind, clocks that are set back, and labels *)
(* that are not alone.                                                     *)
(***************************************************************************)
BasesArePublished ==
    back = 0 =>
      \A f \in snapFiles :
        \/ ~Alone(f.label)
        \/ f.from = None
        \/ \E g \in snapFiles : g.to = f.from
        \/ f.from.born \in orphans

(***************************************************************************)
(* A .snap file is complete and holds the snapshot it is named for, though *)
(* sendSnapshots chooses what to send by looking at the list once more;    *)
(* the second part only if its label is alone and no clock was set back.   *)
(***************************************************************************)
DumpsMatchTheirNames ==
    \A f \in snapFiles :
        /\ f.to # None
        /\ (back = 0 /\ Alone(f.label)) => SameName(f, f.to)

(***************************************************************************)
(* zfs_snapshots_test.go:122-124: a run that fails removes all the new     *)
(* snapshots, at whatever point it failed, if zfs destroy works.           *)
(***************************************************************************)
FailureLeavesNoSnapshot ==
    (result = "failed" /\ ~spared) => \A s \in snapshots : s.born # run

(***************************************************************************)
(* After a successful run with -keep, if zfs destroy works, at most keep-1 *)
(* old snapshots of the datasets remain besides the new ones, and the new  *)
(* ones, on which the next dumps are based, do remain.                     *)
(***************************************************************************)
RotationBounds ==
    [][(result = "running" /\ result' = "ok") =>
         /\ NewSnapshots \subseteq snapshots
         /\ (keep # 0 /\ ~spared) =>
              Cardinality({s \in snapshots : s.ds \in Datasets} \ NewSnapshots) < keep]_vars

(***************************************************************************)
(* zfs_snapshots.go:38, "The Keep argument defines how many versions of    *)
(* this snapshot should be kept": a version of a dataset is destroyed only *)
(* when keep later versions of that dataset are there.                     *)
(***************************************************************************)
KeepsVersions ==
    [][pc = "cleanup" =>
         \A s \in snapshots \ snapshots' :
            Cardinality({t \in snapshots' : t.ds = s.ds /\ t.label = s.label
                                             /\ t.born > s.born}) >= keep]_vars
=============================================================================
