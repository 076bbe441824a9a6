----------------------------- MODULE ZfsProofs ------------------------------
(***************************************************************************)
(* Proofs about ZfsSnapshots for any datasets, labels, number of runs and  *)
(* clock: the type invariant, what a failed run leaves, what the published *)
(* dumps hold and are based on, and what a rotation leaves.                *)
(***************************************************************************)
EXTENDS ZfsSnapshots, FiniteSetTheorems, TLAPS

-----------------------------------------------------------------------------
(* Sorted names: what Rank, Oldest, Least and Last pick from a set of       *)
(* snapshots no two of which have the same name.                            *)

UniqueNames(S) == \A s, t \in S : SameName(s, t) => s = t

(* The order of the names: strict, total, transitive. *)
LEMMA LessOrders ==
    /\ \A s \in Snapshot : ~Less(s, s)
    /\ \A s, t \in Snapshot : SameName(s, t) \/ Less(s, t) \/ Less(t, s)
    /\ \A s, t, u \in Snapshot : Less(s, t) /\ Less(t, u) => Less(s, u)
<1>1. Datasets \subseteq Nat /\ Labels \subseteq Nat /\ 1..MaxTime \subseteq Nat
  BY ZfsAssumption DEF Datasets
<1>2. \A s \in Snapshot : s.ds \in Nat /\ s.label \in Nat /\ s.time \in Nat
  BY <1>1 DEF Snapshot
<1> QED
  BY <1>2 DEF Less, SameName

Below(S, s) == {t \in S : Less(t, s)}

LEMMA RankBound ==
    ASSUME NEW S \in SUBSET Snapshot, IsFiniteSet(S), NEW s \in S
    PROVE  Rank(S, s) \in 0..(Cardinality(S) - 1)
<1>1. IsFiniteSet(S \ {s}) /\ Cardinality(S \ {s}) = Cardinality(S) - 1
  BY FS_RemoveElement
<1>2. Below(S, s) \in SUBSET (S \ {s})
  BY LessOrders DEF Below
<1>3. IsFiniteSet(Below(S, s)) /\ Cardinality(Below(S, s)) <= Cardinality(S) - 1
  BY <1>1, <1>2, FS_Subset
<1>4. Cardinality(Below(S, s)) \in Nat /\ Cardinality(S) \in Nat
  BY <1>3, FS_CardinalityType
<1> QED
  BY <1>3, <1>4 DEF Rank, Below

LEMMA RankGrows ==
    ASSUME NEW S \in SUBSET Snapshot, IsFiniteSet(S), NEW s \in S, NEW t \in S, Less(s, t)
    PROVE  Rank(S, s) < Rank(S, t)
<1>1. IsFiniteSet(Below(S, t)) /\ IsFiniteSet(Below(S, s))
  BY FS_Subset DEF Below
<1>2. Below(S, s) \in SUBSET Below(S, t)
  BY LessOrders DEF Below
<1>3. s \in Below(S, t) /\ s \notin Below(S, s)
  BY LessOrders DEF Below
<1>4. /\ Cardinality(Below(S, s)) <= Cardinality(Below(S, t))
      /\ Cardinality(Below(S, s)) # Cardinality(Below(S, t))
  BY <1>1, <1>2, <1>3, FS_Subset
<1>5. Cardinality(Below(S, s)) \in Nat /\ Cardinality(Below(S, t)) \in Nat
  BY <1>1, FS_CardinalityType
<1> QED
  BY <1>4, <1>5 DEF Rank, Below

(* The ranks number the snapshots from 0 on. *)
LEMMA RankIsBijective ==
    ASSUME NEW S \in SUBSET Snapshot, IsFiniteSet(S), UniqueNames(S)
    PROVE  [s \in S |-> Rank(S, s)] \in Bijection(S, 0..(Cardinality(S) - 1))
<1> DEFINE N == 0..(Cardinality(S) - 1)
           r == [s \in S |-> Rank(S, s)]
<1>0. Cardinality(S) \in Nat
  BY FS_CardinalityType
<1>1. r \in [S -> N]
  BY RankBound
<1>2. ASSUME NEW s \in S, NEW t \in S, r[s] = r[t] PROVE s = t
  <2>1. r[s] \in Nat /\ r[s] = Rank(S, s) /\ r[t] = Rank(S, t)
    BY <1>0, <1>1
  <2>2. ~(Rank(S, s) < Rank(S, t)) /\ ~(Rank(S, t) < Rank(S, s))
    BY <1>2, <2>1
  <2>3. SameName(s, t)
    BY <2>2, RankGrows, LessOrders
  <2> QED
    BY <2>3 DEF UniqueNames
<1>3. r \in Injection(S, N)
  BY <1>1, <1>2 DEF Injection, IsInjective
<1>4. IsFiniteSet(N) /\ Cardinality(N) = Cardinality(S)
  BY <1>0, FS_Interval
<1>5. r \in Surjection(S, N)
  BY <1>3, <1>4, FS_Injection
<1> QED
  BY <1>3, <1>5 DEF Bijection

LEMMA RankIsTaken ==
    ASSUME NEW S \in SUBSET Snapshot, IsFiniteSet(S), UniqueNames(S),
           NEW k \in 0..(Cardinality(S) - 1)
    PROVE  \E s \in S : Rank(S, s) = k
BY RankIsBijective DEF Bijection, Surjection

(* sort.Strings puts one of the names first. *)
LEMMA LeastIsOne ==
    ASSUME NEW S \in SUBSET Snapshot, IsFiniteSet(S), UniqueNames(S), S # {}
    PROVE  Least(S) \in S
<1>1. Cardinality(S) \in Nat /\ Cardinality(S) # 0
  BY FS_CardinalityType, FS_EmptySet
<1>2. \E s \in S : Rank(S, s) = 0
  BY <1>1, RankIsTaken
<1> QED
  BY <1>2 DEF Least

(* And one last, and every other name comes before it. *)
LEMMA LastIsGreatest ==
    ASSUME NEW S \in SUBSET Snapshot, IsFiniteSet(S), UniqueNames(S), S # {}
    PROVE  /\ Last(S) \in S
           /\ \A s \in S : s = Last(S) \/ Less(s, Last(S))
<1>1. Cardinality(S) \in Nat /\ Cardinality(S) # 0
  BY FS_CardinalityType, FS_EmptySet
<1>2. \E s \in S : Rank(S, s) = Cardinality(S) - 1
  BY <1>1, RankIsTaken
<1>3. Last(S) \in S /\ Rank(S, Last(S)) = Cardinality(S) - 1
  BY <1>2 DEF Last
<1>4. ASSUME NEW s \in S, Less(Last(S), s) PROVE FALSE
  BY <1>1, <1>3, <1>4, RankGrows, RankBound
<1> QED
  BY <1>3, <1>4, LessOrders DEF UniqueNames

(* The first k names are k names. *)
LEMMA OldestCount ==
    ASSUME NEW S \in SUBSET Snapshot, IsFiniteSet(S), UniqueNames(S),
           NEW k \in 0..Cardinality(S)
    PROVE  IsFiniteSet(Oldest(S, k)) /\ Cardinality(Oldest(S, k)) = k
<1> DEFINE N == 0..(Cardinality(S) - 1)
           K == 0..(k - 1)
           r == [s \in S |-> Rank(S, s)]
           f == [s \in Oldest(S, k) |-> Rank(S, s)]
<1>0. Cardinality(S) \in Nat /\ k \in Nat
  BY FS_CardinalityType
<1>1. r \in Bijection(S, N)
  BY RankIsBijective
<1>2. f \in [Oldest(S, k) -> K]
  BY <1>0, RankBound DEF Oldest
<1>3. \A s, t \in Oldest(S, k) : f[s] = f[t] => s = t
  BY <1>1 DEF Oldest, Bijection, Injection, IsInjective
<1>4. ASSUME NEW m \in K PROVE \E s \in Oldest(S, k) : f[s] = m
  BY <1>0, RankIsTaken DEF Oldest
<1>5. f \in Bijection(Oldest(S, k), K)
  BY <1>2, <1>3, <1>4 DEF Bijection, Injection, Surjection, IsInjective
<1>6. IsFiniteSet(Oldest(S, k))
  BY FS_Subset DEF Oldest
<1>7. Cardinality(K) = k
  BY <1>0, FS_Interval
<1> HIDE DEF f, K
<1>8. Cardinality(K) = Cardinality(Oldest(S, k))
  BY <1>5, <1>6, FS_Bijection DEF ExistsBijection
<1> QED
  BY <1>6, <1>7, <1>8

-----------------------------------------------------------------------------
(* The inductive invariant. *)

(* A run knows its arguments and its time, and has an error or not. *)
Stages ==
    /\ pc # "idle" => run \in 1..MaxRuns
    /\ pc \in {"idle", "list"} => old = {}
    /\ pc \in {"idle", "list", "create"} => next = 1
    /\ pc \notin {"idle", "list"} => stamp = now
    /\ pc \in {"open", "send"} => next \in 1..Len(Names)
    /\ pc \in {"open", "send", "unwind", "rename"} => send
    /\ pc \notin {"rename", "rollback"} => ~failed
    /\ pc = "rollback" => failed
    /\ result = "running" <=> pc # "idle"

(* Before it creates its snapshots a run has none; then only the new ones. *)
OwnSnapshots ==
    /\ \A s \in snapshots :
         /\ s.born <= run
         /\ pc \in {"list", "create"} => s.born # run
         /\ pc \notin {"idle", "list", "create"} /\ s.born = run => s \in NewSnapshots
    /\ pc \in {"open", "send", "unwind", "rename", "cleanup"} => NewSnapshots \subseteq snapshots
    /\ pc = "rename" => left \subseteq NewSnapshots

(* No two snapshots have the same name: List looks whether the new names are free. *)
NamesAreFree ==
    /\ IsFiniteSet(snapshots) /\ UniqueNames(snapshots)
    /\ pc = "create" => \A s \in snapshots, n \in NewSnapshots : ~SameName(s, n)

(* What was there at the beginning. *)
OldSnapshots ==
    /\ IsFiniteSet(old) /\ UniqueNames(old)
    /\ \A s \in old : s.born # run
    /\ pc \notin {"idle", "list"} => snapshots \subseteq old \union NewSnapshots

(* cleanup comes through what it has to destroy. *)
Excess == IF keep # 0 /\ Cardinality(old) >= keep
          THEN Oldest(old, Cardinality(old) - keep + 1) ELSE {}

Rotates ==
    pc = "cleanup" =>
        /\ left \subseteq old
        /\ ~spared => snapshots \ NewSnapshots \subseteq (old \ Excess) \union left

(* A rollback comes through the new snapshots. *)
RollsBack ==
    pc = "rollback" =>
        \A s \in snapshots : s.born = run => s \in left \/ (spared /\ run \in orphans)

(* As long as the clock is never set back nothing is younger than now. *)
Clock == back = 0 => \A s \in snapshots : s.time <= now

(* What may be the base of an incremental dump. *)
Covered(s) == (\E g \in snapFiles : g.to = s) \/ s.born \in orphans

BasesAreCovered ==
    back = 0 => \A s \in snapshots :
        ~Alone(s.label) \/ Covered(s) \/ (pc # "idle" /\ s.born = run)

(* A dump that may be published under the name of s. *)
Good(f, s) == /\ f.to # None
              /\ back = 0 /\ Alone(s.label) =>
                   f.to = s /\ (f.from = None \/ Covered(f.from))

(* The dump of the new snapshot s is in the inbox under its temporary name. *)
Ready(s) == /\ \E f \in tmpFiles : SameName(f, s)
            /\ \A f \in tmpFiles : SameName(f, s) => Good(f, s)

DumpsAreReady ==
    /\ pc \in {"open", "send"} =>
         \A i \in 1..(next - 1) :
            Ready(New(Names[i])) \/ (pc = "send" /\ Names[i] = Names[next])
    /\ pc = "rename" => \A s \in left : Ready(s)

(* A new snapshot that has been renamed is published. *)
NewArePublished ==
    back = 0 /\ Alone(label) /\ send /\ ~failed =>
        /\ pc = "rename" => \A s \in NewSnapshots \ left : Covered(s)
        /\ pc = "cleanup" => \A s \in NewSnapshots : Covered(s)

(* The parts about one run, and the parts about what is published. *)
Runs == /\ TypeOK /\ Stages /\ OwnSnapshots /\ NamesAreFree /\ OldSnapshots
        /\ Rotates /\ RollsBack /\ FailureLeavesNoSnapshot

Dumps == /\ Clock /\ BasesAreCovered /\ DumpsAreReady /\ NewArePublished
         /\ DumpsMatchTheirNames /\ BasesArePublished

IInv == Runs /\ Dumps

-----------------------------------------------------------------------------
(* The new snapshots. *)

LEMMA NewType ==
    ASSUME TypeOK, Stages, pc \notin {"idle", "list"}
    PROVE  /\ NewSnapshots \subseteq Snapshot
           /\ \A d \in Datasets : New(d) \in Snapshot
BY DEF TypeOK, Stages, NewSnapshots, New, Snapshot

(* One for each dataset, all of one label, second and run. *)
LEMMA NewFields ==
    \A n \in NewSnapshots :
        /\ n = New(n.ds) /\ n.ds \in Datasets
        /\ n.label = label /\ n.time = stamp /\ n.born = run
BY DEF NewSnapshots, New

LEMMA NewUnique == UniqueNames(NewSnapshots)
BY NewFields DEF UniqueNames, SameName

LEMMA NewFinite == IsFiniteSet(NewSnapshots)
<1> DEFINE I == 1..Len(Names)
           f == [i \in I |-> New(Names[i])]
<1>1. f \in Surjection(I, NewSnapshots)
  BY DEF Surjection, NewSnapshots, Datasets
<1>2. Len(Names) \in Nat
  BY ZfsAssumption
<1>3. IsFiniteSet(I)
  BY <1>2, FS_Interval
<1> HIDE DEF I, f
<1> QED
  BY <1>1, <1>3, FS_Surjection

LEMMA SameRun ==
    ASSUME UNCHANGED <<run, label, stamp>>
    PROVE  NewSnapshots' = NewSnapshots /\ \A d : New(d)' = New(d)
BY DEF NewSnapshots, New

(* Positions in Names are positions of datasets. *)
LEMMA NamesType == ASSUME NEW i \in 1..Len(Names)
                   PROVE  Names[i] \in Datasets /\ Names[i] \in Nat
BY ZfsAssumption DEF Datasets

(* The last of the snapshots with this label is there, and so is the one before. *)
LEMMA NewestType ==
    ASSUME TypeOK, NamesAreFree, NEW d, Filtered(d) # {}
    PROVE  /\ To(d) \in Filtered(d)
           /\ \A s \in Filtered(d) : s = To(d) \/ Less(s, To(d))
           /\ From(d) = None \/ From(d) \in Filtered(d) \ {To(d)}
<1> DEFINE F == Filtered(d)
           G == F \ {To(d)}
<1>1. F \in SUBSET snapshots /\ F \in SUBSET Snapshot
  BY DEF Filtered, TypeOK
<1>2. IsFiniteSet(F) /\ UniqueNames(F)
  BY <1>1, FS_Subset DEF NamesAreFree, UniqueNames
<1>3. To(d) \in F /\ \A s \in F : s = To(d) \/ Less(s, To(d))
  BY <1>1, <1>2, LastIsGreatest DEF To
<1>4. IsFiniteSet(G) /\ UniqueNames(G) /\ G \in SUBSET Snapshot
  BY <1>1, <1>2, FS_RemoveElement DEF UniqueNames
<1>5. CASE Cardinality(F) = 1
  BY <1>3, <1>5 DEF From
<1>6. CASE Cardinality(F) # 1
  <2>1. G # {}
    BY <1>2, <1>3, <1>6, FS_Singleton
  <2>2. Last(G) \in G
    BY <1>4, <2>1, LastIsGreatest
  <2> QED
    BY <1>3, <1>6, <2>2 DEF From
<1> QED
  BY <1>5, <1>6

(* A snapshot destroy can find: what is left is finite and has unique names. *)
LEMMA LeastIsLeft ==
    ASSUME Runs, left # {}, pc = "cleanup"
    PROVE  Least(left) \in left
<1>1. left \in SUBSET Snapshot /\ left \in SUBSET old
  BY DEF Runs, TypeOK, Rotates
<1>2. IsFiniteSet(left) /\ UniqueNames(left)
  BY <1>1, FS_Subset DEF Runs, OldSnapshots, UniqueNames
<1> QED
  BY <1>1, <1>2, LeastIsOne

-----------------------------------------------------------------------------
(* Types. *)

Switches == send \in BOOLEAN /\ failed \in BOOLEAN /\ spared \in BOOLEAN

(* What the end of a run does, but for the switches. *)
LEMMA EndFrame ==
    ASSUME NEW how, End(how)
    PROVE  /\ pc' = "idle" /\ result' = how
           /\ keep' = 0 /\ stamp' = 0 /\ old' = {} /\ next' = 1 /\ left' = {}
           /\ UNCHANGED <<run, label, spared>>
           /\ ~send' /\ ~failed'
BY Zenon DEF End

LEMMA SwitchesStep == ASSUME TypeOK, [Next]_vars PROVE Switches'
<1> USE DEF Switches
<1>0. Switches
  BY Zenon DEF TypeOK
<1>1. ASSUME NEW l, NEW k, NEW s \in BOOLEAN, Start(l, k, s) PROVE Switches'
  BY <1>0, <1>1, Zenon DEF Start
<1>2. ListFails \/ Kill \/ Done => \E how : End(how)
  BY Zenon DEF ListFails, Kill, Done
<1>3. ASSUME NEW how, End(how) PROVE Switches'
  BY <1>0, <1>3, Zenon DEF End
<1>4. CASE List \/ Create \/ CreateFails
  BY <1>0, <1>4, Zenon DEF List, Create, CreateFails, EnterRollback, argVars
<1>5. CASE Open \/ Send \/ SendFails \/ Unwind
  BY <1>0, <1>5, Zenon DEF Open, Send, SendFails, Unwind, EnterRollback, argVars, workVars
<1>6. ASSUME NEW s, Rename(s) PROVE Switches'
  BY <1>0, <1>6, Zenon DEF Rename, argVars
<1>7. CASE RenameDone \/ Destroy \/ DestroyFails
  BY <1>0, <1>7, Zenon DEF RenameDone, Destroy, DestroyFails, EnterRollback, argVars
<1>8. ASSUME NEW s, UserDeletes(s) PROVE Switches'
  BY <1>0, <1>8, Zenon DEF UserDeletes, argVars, workVars
<1>9. CASE Tick \/ SetBack \/ UNCHANGED vars
  BY <1>0, <1>9, Zenon DEF Tick, SetBack, argVars, workVars, vars
<1> QED
  BY <1>1, <1>2, <1>3, <1>4, <1>5, <1>6, <1>7, <1>8, <1>9, Zenon DEF Next, Command

Things ==
    /\ snapshots \subseteq Snapshot /\ tmpFiles \subseteq File /\ snapFiles \subseteq File
    /\ old \subseteq Snapshot /\ left \subseteq Snapshot /\ orphans \subseteq 1..MaxRuns

Values ==
    /\ now \in 1..MaxTime /\ back \in 0..StepsBack
    /\ pc \in {"idle", "list", "create", "open", "send", "unwind", "rename",
               "rollback", "cleanup"}
    /\ run \in 0..MaxRuns
    /\ label \in Labels /\ keep \in Keeps \union {0}
    /\ stamp \in 0..MaxTime
    /\ next \in 1..(Len(Names) + 1)
    /\ result \in {"none", "running", "ok", "failed", "killed"}

LEMMA TypeParts == TypeOK <=> Switches /\ Things /\ Values
BY Zenon DEF TypeOK, Switches, Things, Values

LEMMA ValuesStep == ASSUME TypeOK, Stages, [Next]_vars PROVE Values'
<1> USE ZfsAssumption DEF Values, fileVars, argVars, workVars
<1>0. Values
  BY TypeParts
<1>1. ASSUME NEW l \in Labels, NEW k \in Keeps, NEW s \in BOOLEAN, Start(l, k, s)
      PROVE  Values'
  BY <1>0, <1>1 DEF Start
<1>2. ListFails \/ Kill \/ Done =>
        /\ \E how \in {"ok", "failed", "killed"} : End(how)
        /\ UNCHANGED <<now, back>>
  BY Zenon DEF ListFails, Kill, Done
<1>3. ASSUME NEW how \in {"ok", "failed", "killed"}, End(how), UNCHANGED <<now, back>>
      PROVE  Values'
  BY <1>0, <1>3, EndFrame
<1>4. CASE List \/ Create \/ CreateFails
  <2>1. /\ pc' \in {"create", "open", "cleanup", "rollback"}
        /\ stamp' \in {stamp, now}
        /\ UNCHANGED <<now, back, run, label, keep, next, result>>
    BY <1>4 DEF List, Create, CreateFails, EnterRollback, EnterCleanup
  <2> QED
    BY <1>0, <2>1
<1>5. CASE Open \/ SendFails \/ Unwind
  BY <1>0, <1>5 DEF Open, SendFails, Unwind, EnterRollback
<1>6. CASE Send
  <2>1. next \in 1..Len(Names)
    BY <1>6 DEF Send, Stages
  <2> QED
    BY <1>0, <1>6, <2>1 DEF Send
<1>7. ASSUME NEW s, Rename(s) PROVE Values'
  BY <1>0, <1>7 DEF Rename
<1>8. CASE RenameDone \/ Destroy \/ DestroyFails
  BY <1>0, <1>8 DEF RenameDone, Destroy, DestroyFails, EnterRollback, EnterCleanup
<1>9. ASSUME NEW s, UserDeletes(s) PROVE Values'
  BY <1>0, <1>9 DEF UserDeletes
<1>10. CASE Tick
  BY <1>0, <1>10 DEF Tick
<1>11. CASE SetBack
  <2>1. now' \in 1..MaxTime /\ back' \in 0..StepsBack
    BY <1>0, <1>11 DEF SetBack
  <2> QED
    BY <1>0, <1>11, <2>1 DEF SetBack
<1>12. CASE UNCHANGED vars
  BY <1>0, <1>12 DEF vars
<1> QED
  BY <1>1, <1>2, <1>3, <1>4, <1>5, <1>6, <1>7, <1>8, <1>9, <1>10, <1>11, <1>12, Zenon
     DEF Next, Command

(* What Rename finds under the temporary name, and what becomes of it. *)
LEMMA RenameFinds ==
    ASSUME DumpsAreReady, NEW s, Rename(s)
    PROVE  \/ \E f \in tmpFiles :
                 /\ SameName(f, s) /\ Good(f, s)
                 /\ tmpFiles' = tmpFiles \ {f} /\ snapFiles' = snapFiles \union {f}
                 /\ UNCHANGED failed
           \/ failed' /\ UNCHANGED fileVars
<1>1. Ready(s)
  BY DEF DumpsAreReady, Rename
<1>2. (CHOOSE g \in tmpFiles : SameName(g, s)) \in tmpFiles
  BY <1>1 DEF Ready
<1>3. SameName(CHOOSE g \in tmpFiles : SameName(g, s), s)
  BY <1>1 DEF Ready
<1>4. Good(CHOOSE g \in tmpFiles : SameName(g, s), s)
  BY <1>1, <1>2, <1>3 DEF Ready
<1> QED
  BY <1>2, <1>3, <1>4, Zenon DEF Rename

LEMMA ThingsStep ==
    ASSUME TypeOK, Stages, NamesAreFree, DumpsAreReady, [Next]_vars PROVE Things'
<1> USE DEF Things, fileVars, argVars, workVars
<1>0. Things
  BY TypeParts
<1>1. ASSUME NEW l, NEW k, NEW s, Start(l, k, s) PROVE Things'
  BY <1>0, <1>1 DEF Start
<1>2. run \in 0..MaxRuns /\ (pc # "idle" => run \in 1..MaxRuns)
  BY DEF TypeOK, Stages
<1>3. ListFails \/ Kill \/ Done =>
        /\ \E how : End(how)
        /\ UNCHANGED <<snapshots, fileVars>>
        /\ pc # "idle" /\ orphans' \in {orphans, orphans \union {run}}
  BY DEF ListFails, Kill, Done
<1>4. CASE ListFails \/ Kill \/ Done
  BY <1>0, <1>2, <1>3, <1>4, EndFrame
<1>5. pc \notin {"idle", "list"} => NewSnapshots \subseteq Snapshot
  BY NewType
<1>6. CASE List \/ Create \/ CreateFails
  BY <1>0, <1>5, <1>6 DEF List, Create, CreateFails, EnterRollback, EnterCleanup, Oldest
<1>7. CASE Open
  <2>1. Current \in Snapshot
    BY <1>7, NewType, NamesType DEF Open, Stages, Current
  <2>2. FileOf(Current, None, None) \in File
    BY <2>1 DEF FileOf, File, Snapshot
  <2> QED
    BY <1>0, <1>7, <2>2 DEF Open, Others
<1>8. CASE Send
  <2> DEFINE d == Names[next]
  <2>1. Current \in Snapshot
    BY <1>8, NewType, NamesType DEF Send, Stages, Current
  <2>2. To(d) \in snapshots /\ (From(d) = None \/ From(d) \in snapshots)
    BY <1>8, NewestType DEF Send, Filtered
  <2>3. FileOf(Current, From(d), To(d)) \in File
    BY <1>0, <2>1, <2>2 DEF FileOf, File, Snapshot
  <2>4. NewSnapshots \subseteq Snapshot
    BY <1>5, <1>8 DEF Send
  <2> QED
    BY <1>0, <1>8, <2>3, <2>4 DEF Send, Others
<1>9. CASE SendFails \/ Unwind
  BY <1>0, <1>5, <1>9 DEF SendFails, Unwind, EnterRollback
<1>10. ASSUME NEW s, Rename(s) PROVE Things'
  BY <1>0, <1>10, RenameFinds DEF Rename
<1>11. CASE RenameDone
  BY <1>0, <1>5, <1>11 DEF RenameDone, EnterRollback, EnterCleanup, Oldest
<1>12. CASE Destroy \/ DestroyFails
  BY <1>0, <1>2, <1>12 DEF Destroy, DestroyFails
<1>13. ASSUME NEW s, UserDeletes(s) PROVE Things'
  BY <1>0, <1>13 DEF UserDeletes
<1>14. CASE Tick \/ SetBack \/ UNCHANGED vars
  BY <1>0, <1>14 DEF Tick, SetBack, vars
<1> QED
  BY <1>1, <1>4, <1>6, <1>7, <1>8, <1>9, <1>10, <1>11, <1>12, <1>13, <1>14, Zenon
     DEF Next, Command

LEMMA TypeStep ==
    ASSUME TypeOK, Stages, NamesAreFree, DumpsAreReady, [Next]_vars PROVE TypeOK'
<1>1. Switches' /\ Things' /\ Values'
  BY SwitchesStep, ThingsStep, ValuesStep
<1> QED
  BY <1>1, Zenon DEF TypeOK, Switches, Things, Values

-----------------------------------------------------------------------------
(* One run. *)

LEMMA StagesStep == ASSUME TypeOK, Stages, [Next]_vars PROVE Stages'
<1> USE ZfsAssumption DEF Stages, fileVars, argVars, workVars
<1>0. run \in 0..MaxRuns /\ next \in 1..(Len(Names) + 1)
  BY DEF TypeOK
<1>1. ASSUME NEW l \in Labels, NEW k \in Keeps, NEW s \in BOOLEAN, Start(l, k, s)
      PROVE  Stages'
  BY <1>0, <1>1 DEF Start
<1>2. ListFails \/ Kill \/ Done =>
        \E how \in {"ok", "failed", "killed"} : End(how)
  BY Zenon DEF ListFails, Kill, Done
<1>3. ASSUME NEW how \in {"ok", "failed", "killed"}, End(how) PROVE Stages'
  BY <1>3, EndFrame
<1>4. CASE List \/ Create \/ CreateFails
  BY <1>4 DEF List, Create, CreateFails, EnterRollback, EnterCleanup
<1>5. CASE Open \/ SendFails \/ Unwind
  BY <1>5 DEF Open, SendFails, Unwind, EnterRollback
<1>6. CASE Send
  BY <1>0, <1>6 DEF Send
<1>7. ASSUME NEW s, Rename(s) PROVE Stages'
  BY <1>7 DEF Rename
<1>8. CASE RenameDone
  BY <1>8 DEF RenameDone, EnterRollback, EnterCleanup
<1>9. CASE Destroy \/ DestroyFails
  BY <1>9 DEF Destroy, DestroyFails
<1>10. ASSUME NEW s, UserDeletes(s) PROVE Stages'
  BY <1>10 DEF UserDeletes
<1>11. CASE Tick \/ SetBack \/ UNCHANGED vars
  BY <1>11 DEF Tick, SetBack, vars
<1> QED
  BY <1>1, <1>2, <1>3, <1>4, <1>5, <1>6, <1>7, <1>8, <1>9, <1>10, <1>11, Zenon
     DEF Next, Command

LEMMA OwnSnapshotsStep == ASSUME Runs, [Next]_vars PROVE OwnSnapshots'
<1> USE DEF OwnSnapshots, fileVars, argVars, workVars
<1>0. OwnSnapshots /\ run \in Nat /\ \A s \in snapshots : s.born \in Nat
  BY DEF Runs, TypeOK, Snapshot
<1>1. ASSUME NEW l, NEW k, NEW s, Start(l, k, s) PROVE OwnSnapshots'
  BY <1>0, <1>1 DEF Start
<1>2. ListFails \/ Kill \/ Done => (\E how : End(how)) /\ UNCHANGED snapshots
  BY Zenon DEF ListFails, Kill, Done
<1>3. ASSUME NEW how, End(how), UNCHANGED snapshots PROVE OwnSnapshots'
  BY <1>0, <1>3, EndFrame
<1>4. CASE List
  BY <1>0, <1>4 DEF List
<1>5. CASE Create \/ CreateFails
  BY <1>0, <1>5, NewFields, SameRun
     DEF Create, CreateFails, EnterRollback, EnterCleanup
<1>6. CASE Open \/ Send \/ SendFails \/ Unwind
  BY <1>0, <1>6, SameRun DEF Open, Send, SendFails, Unwind, EnterRollback
<1>7. ASSUME NEW s, Rename(s) PROVE OwnSnapshots'
  BY <1>0, <1>7, SameRun DEF Rename
<1>8. CASE RenameDone
  BY <1>0, <1>8, SameRun DEF RenameDone, EnterRollback, EnterCleanup
<1>9. CASE Destroy
  <2>1. pc = "cleanup" => Least(left) \notin NewSnapshots
    BY <1>9, LeastIsLeft, NewFields DEF Destroy, Runs, Rotates, OldSnapshots
  <2> QED
    BY <1>0, <1>9, <2>1, SameRun DEF Destroy
<1>10. CASE DestroyFails
  BY <1>0, <1>10, SameRun DEF DestroyFails
<1>11. ASSUME NEW s, UserDeletes(s) PROVE OwnSnapshots'
  BY <1>0, <1>11 DEF UserDeletes
<1>12. CASE Tick \/ SetBack \/ UNCHANGED vars
  BY <1>0, <1>12, SameRun DEF Tick, SetBack, vars
<1> QED
  BY <1>1, <1>2, <1>3, <1>4, <1>5, <1>6, <1>7, <1>8, <1>9, <1>10, <1>11, <1>12, Zenon
     DEF Next, Command

(* A step leaves the snapshots that are there, or fewer; only Create makes some. *)
LEMMA SnapshotsStep ==
    ASSUME [Next]_vars
    PROVE  \/ snapshots' \subseteq snapshots
           \/ /\ Create \/ CreateFails
              /\ \E part \in SUBSET NewSnapshots : snapshots' = snapshots \union part
<1> USE DEF fileVars, argVars, workVars
<1>1. ASSUME NEW l, NEW k, NEW s, Start(l, k, s) PROVE UNCHANGED snapshots
  BY <1>1 DEF Start
<1>2. CASE ListFails \/ Kill \/ Done
  BY <1>2 DEF ListFails, Kill, Done
<1>3. CASE List \/ Open \/ Send \/ SendFails \/ Unwind
  BY <1>3 DEF List, Open, Send, SendFails, Unwind
<1>4. CASE Create \/ CreateFails
  BY <1>4 DEF Create, CreateFails
<1>5. ASSUME NEW s, Rename(s) PROVE UNCHANGED snapshots
  BY <1>5 DEF Rename
<1>6. CASE RenameDone \/ Destroy \/ DestroyFails
  BY <1>6 DEF RenameDone, Destroy, DestroyFails
<1>7. ASSUME NEW s, UserDeletes(s) PROVE snapshots' \subseteq snapshots
  BY <1>7 DEF UserDeletes
<1>8. CASE Tick \/ SetBack \/ UNCHANGED vars
  BY <1>8 DEF Tick, SetBack, vars
<1> QED
  BY <1>1, <1>2, <1>3, <1>4, <1>5, <1>6, <1>7, <1>8, Zenon DEF Next, Command

(* Only List goes on to create. *)
LEMMA EntersCreate == ASSUME [Next]_vars, pc' = "create" PROVE List \/ UNCHANGED vars
<1> USE DEF fileVars, argVars, workVars
<1>1. ListFails \/ Kill \/ Done => \E how : End(how)
  BY Zenon DEF ListFails, Kill, Done
<1>2. ~(ListFails \/ Kill \/ Done)
  BY <1>1, EndFrame
<1>3. \A l, k, s : ~Start(l, k, s)
  BY DEF Start
<1>4. ~(Create \/ CreateFails \/ Open \/ Send \/ SendFails \/ Unwind \/ RenameDone)
  BY DEF Create, CreateFails, Open, Send, SendFails, Unwind, RenameDone, EnterRollback,
         EnterCleanup
<1>5. \A s : ~Rename(s) /\ ~UserDeletes(s)
  BY DEF Rename, UserDeletes
<1>6. ~(Destroy \/ DestroyFails \/ Tick \/ SetBack)
  BY DEF Destroy, DestroyFails, Tick, SetBack
<1> QED
  BY <1>2, <1>3, <1>4, <1>5, <1>6, Zenon DEF Next, Command

LEMMA NamesAreFreeStep == ASSUME Runs, [Next]_vars PROVE NamesAreFree'
<1>0. NamesAreFree
  BY DEF Runs
<1>1. ASSUME snapshots' \subseteq snapshots
      PROVE  IsFiniteSet(snapshots') /\ UniqueNames(snapshots')
  BY <1>0, <1>1, FS_Subset DEF NamesAreFree, UniqueNames
<1>2. ASSUME Create \/ CreateFails, NEW part \in SUBSET NewSnapshots,
             snapshots' = snapshots \union part
      PROVE  IsFiniteSet(snapshots') /\ UniqueNames(snapshots')
  <2>1. IsFiniteSet(part)
    BY NewFinite, FS_Subset
  <2>2. IsFiniteSet(snapshots')
    BY <1>0, <1>2, <2>1, FS_Union DEF NamesAreFree
  <2>3. \A s \in snapshots, n \in part : ~SameName(s, n) /\ ~SameName(n, s)
    BY <1>0, <1>2 DEF NamesAreFree, Create, CreateFails, SameName
  <2>4. UniqueNames(snapshots')
    BY <1>0, <1>2, <2>3, NewUnique DEF NamesAreFree, UniqueNames
  <2> QED
    BY <2>2, <2>4
<1>3. ASSUME pc' = "create", NEW s \in snapshots', NEW n \in NewSnapshots'
      PROVE  ~SameName(s, n)
  <2>1. CASE List
    <3>1. n.ds \in Datasets /\ n.label = label /\ n.time = now
      BY <1>3, <2>1 DEF List, NewSnapshots, New, argVars
    <3> QED
      BY <1>3, <2>1, <3>1 DEF List, SameName
  <2>2. CASE UNCHANGED vars
    BY <1>0, <1>3, <2>2, SameRun DEF NamesAreFree, vars, argVars, workVars
  <2> QED
    BY <1>3, <2>1, <2>2, EntersCreate
<1> QED
  BY <1>1, <1>2, <1>3, SnapshotsStep DEF NamesAreFree

LEMMA OldSnapshotsStep == ASSUME Runs, [Next]_vars PROVE OldSnapshots'
<1> USE DEF OldSnapshots, fileVars, argVars, workVars
<1>0. /\ OldSnapshots
      /\ pc \in {"idle", "list"} => old = {}
  BY DEF Runs, Stages
<1>1. ASSUME old' = {}, pc' \in {"idle", "list"} PROVE OldSnapshots'
  BY <1>1, FS_EmptySet DEF UniqueNames
<1>2. ASSUME UNCHANGED <<old, run, label, stamp>>, snapshots' \subseteq snapshots,
             pc' \notin {"idle", "list"} => pc \notin {"idle", "list"}
      PROVE  OldSnapshots'
  BY <1>0, <1>2, SameRun DEF UniqueNames
<1>3. ASSUME NEW l, NEW k, NEW s, Start(l, k, s) PROVE OldSnapshots'
  BY <1>0, <1>1, <1>3 DEF Start
<1>4. ListFails \/ Kill \/ Done => \E how : End(how)
  BY Zenon DEF ListFails, Kill, Done
<1>5. CASE ListFails \/ Kill \/ Done
  BY <1>1, <1>4, <1>5, EndFrame
<1>6. CASE List
  <2>1. old' = {s \in snapshots : s.ds \in Datasets} /\ UNCHANGED <<snapshots, run>>
    BY <1>6 DEF List
  <2>2. old' = snapshots
    BY <2>1 DEF Runs, TypeOK, Snapshot
  <2>3. IsFiniteSet(old') /\ UniqueNames(old')
    BY <2>2 DEF Runs, NamesAreFree
  <2>4. \A s \in old' : s.born # run'
    BY <1>6, <2>1, <2>2 DEF List, Runs, OwnSnapshots
  <2> QED
    BY <2>1, <2>2, <2>3, <2>4
<1>7. CASE Create \/ CreateFails
  <2>1. UNCHANGED <<old, run, label, stamp>> /\ snapshots' \subseteq snapshots \union NewSnapshots
    BY <1>7 DEF Create, CreateFails
  <2>2. snapshots \subseteq old \union NewSnapshots
    BY <1>0, <1>7 DEF Create, CreateFails
  <2> QED
    BY <1>0, <2>1, <2>2, SameRun DEF UniqueNames
<1>8. CASE Open \/ Send \/ SendFails \/ Unwind
  BY <1>2, <1>8 DEF Open, Send, SendFails, Unwind
<1>9. ASSUME NEW s, Rename(s) PROVE OldSnapshots'
  BY <1>2, <1>9 DEF Rename
<1>10. CASE RenameDone \/ Destroy \/ DestroyFails
  BY <1>2, <1>10 DEF RenameDone, Destroy, DestroyFails
<1>11. ASSUME NEW s, UserDeletes(s) PROVE OldSnapshots'
  BY <1>2, <1>11 DEF UserDeletes
<1>12. CASE Tick \/ SetBack \/ UNCHANGED vars
  BY <1>2, <1>12 DEF Tick, SetBack, vars
<1> QED
  BY <1>3, <1>5, <1>6, <1>7, <1>8, <1>9, <1>10, <1>11, <1>12, Zenon DEF Next, Command

(* Where cleanup and rollback are entered, and what happens inside. *)
LEMMA EntersCleanup ==
    ASSUME [Next]_vars, pc' = "cleanup"
    PROVE  \/ (Create /\ EnterCleanup) \/ (RenameDone /\ EnterCleanup)
           \/ (Destroy \/ DestroyFails) /\ pc = "cleanup"
           \/ UNCHANGED vars
<1>1. ListFails \/ Kill \/ Done => \E how : End(how)
  BY Zenon DEF ListFails, Kill, Done
<1>2. ~(ListFails \/ Kill \/ Done)
  BY <1>1, EndFrame
<1>3. \A l, k, s : ~Start(l, k, s)
  BY DEF Start
<1>4. ~(List \/ CreateFails \/ Open \/ Send \/ SendFails \/ Unwind)
  BY DEF List, CreateFails, Open, Send, SendFails, Unwind, EnterRollback
<1>5. \A s : ~Rename(s) /\ ~UserDeletes(s)
  BY DEF Rename, UserDeletes
<1>6. ~(Tick \/ SetBack)
  BY DEF Tick, SetBack
<1>7. /\ Create => Create /\ EnterCleanup
      /\ RenameDone => RenameDone /\ EnterCleanup
      /\ Destroy \/ DestroyFails => pc = "cleanup"
  BY DEF Create, RenameDone, Destroy, DestroyFails, EnterRollback
<1> QED
  BY <1>2, <1>3, <1>4, <1>5, <1>6, <1>7, Zenon DEF Next, Command

LEMMA EntersRollback ==
    ASSUME [Next]_vars, pc' = "rollback"
    PROVE  \/ (CreateFails \/ Unwind \/ RenameDone) /\ EnterRollback
           \/ (Destroy \/ DestroyFails) /\ pc = "rollback"
           \/ UNCHANGED vars
<1>1. ListFails \/ Kill \/ Done => \E how : End(how)
  BY Zenon DEF ListFails, Kill, Done
<1>2. ~(ListFails \/ Kill \/ Done)
  BY <1>1, EndFrame
<1>3. \A l, k, s : ~Start(l, k, s)
  BY DEF Start
<1>4. ~(List \/ Create \/ Open \/ Send \/ SendFails)
  BY DEF List, Create, EnterCleanup, Open, Send, SendFails
<1>5. \A s : ~Rename(s) /\ ~UserDeletes(s)
  BY DEF Rename, UserDeletes
<1>6. ~(Tick \/ SetBack)
  BY DEF Tick, SetBack
<1>7. /\ CreateFails \/ Unwind => EnterRollback
      /\ RenameDone => EnterRollback
      /\ Destroy \/ DestroyFails => pc = "rollback"
  BY DEF CreateFails, Unwind, RenameDone, Destroy, DestroyFails, EnterCleanup
<1> QED
  BY <1>2, <1>3, <1>4, <1>5, <1>6, <1>7, Zenon DEF Next, Command

(* old stays as it is while the run destroys, and so does keep. *)
LEMMA RotatesStep == ASSUME Runs, [Next]_vars PROVE Rotates'
<1> USE DEF fileVars, argVars, workVars
<1> SUFFICES ASSUME pc' = "cleanup"
             PROVE  /\ left' \subseteq old'
                    /\ ~spared' => snapshots' \ NewSnapshots' \subseteq (old' \ Excess') \union left'
  BY DEF Rotates
<1>1. pc \notin {"idle", "list"} => snapshots \subseteq old \union NewSnapshots
  BY DEF Runs, OldSnapshots
<1>2. ASSUME EnterCleanup, Create \/ RenameDone
      PROVE  left' = Excess /\ Excess \subseteq old
  BY <1>2 DEF EnterCleanup, Excess, Oldest
<1>3. CASE (Create \/ RenameDone) /\ EnterCleanup
  <2>1. UNCHANGED <<old, keep, run, label, stamp>>
    BY <1>3 DEF Create, RenameDone
  <2>2. snapshots' \subseteq old \union NewSnapshots
    BY <1>1, <1>3 DEF Create, RenameDone
  <2>3. Excess' = Excess
    BY <2>1, Zenon DEF Excess
  <2> QED
    BY <1>2, <1>3, <2>1, <2>2, <2>3, SameRun
<1>4. CASE (Destroy \/ DestroyFails) /\ pc = "cleanup"
  <2>1. UNCHANGED <<old, keep, run, label, stamp>>
    BY <1>4 DEF Destroy, DestroyFails
  <2>2. Excess' = Excess
    BY <2>1, Zenon DEF Excess
  <2>3. Rotates
    BY DEF Runs
  <2> QED
    BY <1>4, <2>1, <2>2, <2>3, SameRun DEF Rotates, Destroy, DestroyFails
<1>5. CASE UNCHANGED vars
  <2>1. Excess' = Excess
    BY <1>5, Zenon DEF Excess, vars
  <2>2. Rotates
    BY DEF Runs
  <2> QED
    BY <1>5, <2>1, <2>2, SameRun DEF Rotates, vars
<1> QED
  BY <1>3, <1>4, <1>5, EntersCleanup

LEMMA RollsBackStep == ASSUME Runs, [Next]_vars PROVE RollsBack'
<1> USE DEF fileVars, argVars, workVars
<1> SUFFICES ASSUME pc' = "rollback", NEW s \in snapshots', s.born = run'
             PROVE  s \in left' \/ (spared' /\ run' \in orphans')
  BY DEF RollsBack
<1>0. RollsBack /\ OwnSnapshots
  BY DEF Runs
<1>1. CASE (CreateFails \/ Unwind \/ RenameDone) /\ EnterRollback
  <2>1. s \in NewSnapshots
    BY <1>0, <1>1 DEF OwnSnapshots, CreateFails, Unwind, RenameDone
  <2> QED
    BY <1>1, <2>1 DEF EnterRollback
<1>2. CASE Destroy /\ pc = "rollback"
  BY <1>0, <1>2 DEF Destroy, RollsBack
<1>3. CASE DestroyFails /\ pc = "rollback"
  BY <1>0, <1>3 DEF DestroyFails, RollsBack
<1>4. CASE UNCHANGED vars
  BY <1>0, <1>4 DEF vars, RollsBack
<1> QED
  BY <1>1, <1>2, <1>3, <1>4, EntersRollback

(* A run that ends has tried to destroy all its snapshots if it has failed. *)
LEMMA FailureStep == ASSUME Runs, [Next]_vars PROVE FailureLeavesNoSnapshot'
<1> USE DEF fileVars, argVars, workVars
<1> SUFFICES ASSUME result' = "failed", ~spared', NEW s \in snapshots'
             PROVE  s.born # run'
  BY DEF FailureLeavesNoSnapshot
<1>0. FailureLeavesNoSnapshot /\ OwnSnapshots /\ RollsBack /\ Stages
  BY DEF Runs
<1>1. ~\E l, k, x : Start(l, k, x)
  BY DEF Start
<1>2. CASE ListFails
  BY <1>0, <1>2, EndFrame DEF ListFails, OwnSnapshots
<1>3. CASE Done
  <2>1. /\ \E how : End(how) /\ how = IF failed THEN "failed" ELSE "ok"
        /\ UNCHANGED snapshots /\ left = {} /\ pc \in {"rollback", "cleanup"}
    BY <1>3, Zenon DEF Done
  <2>2. failed /\ ~spared /\ UNCHANGED run
    BY <2>1, EndFrame
  <2> QED
    BY <1>0, <2>1, <2>2 DEF RollsBack, Stages
<1>4. ~Kill
  BY EndFrame DEF Kill
<1>5. ASSUME NEW x, Rename(x) PROVE FALSE
  BY <1>0, <1>5 DEF Rename, Stages
<1>6. ~(Destroy \/ DestroyFails \/ RenameDone)
  BY <1>0 DEF Destroy, DestroyFails, RenameDone, Stages
<1>7. ~(List \/ Create \/ CreateFails \/ Open \/ Send \/ SendFails \/ Unwind)
  BY <1>0 DEF List, Create, CreateFails, Open, Send, SendFails, Unwind, Stages
<1>8. ASSUME NEW x, UserDeletes(x) PROVE s.born # run'
  BY <1>0, <1>8 DEF UserDeletes, FailureLeavesNoSnapshot
<1>9. CASE Tick \/ SetBack \/ UNCHANGED vars
  BY <1>0, <1>9 DEF Tick, SetBack, vars, FailureLeavesNoSnapshot
<1> QED
  BY <1>1, <1>2, <1>3, <1>4, <1>5, <1>6, <1>7, <1>8, <1>9, Zenon DEF Next, Command

LEMMA RunsStep == ASSUME Runs, DumpsAreReady, [Next]_vars PROVE Runs'
<1>1. TypeOK' /\ Stages'
  BY TypeStep, StagesStep DEF Runs
<1>2. OwnSnapshots' /\ NamesAreFree' /\ OldSnapshots'
  BY OwnSnapshotsStep, NamesAreFreeStep, OldSnapshotsStep
<1>3. Rotates' /\ RollsBack' /\ FailureLeavesNoSnapshot'
  BY RotatesStep, RollsBackStep, FailureStep
<1> QED
  BY <1>1, <1>2, <1>3, Zenon DEF Runs

-----------------------------------------------------------------------------
(* The dumps. *)

(* What was published stays published, and what was left behind is remembered. *)
LEMMA CoverageGrows ==
    ASSUME DumpsAreReady, [Next]_vars
    PROVE  /\ snapFiles \subseteq snapFiles' /\ orphans \subseteq orphans'
           /\ \A s : Covered(s) => Covered(s)'
<1> USE DEF fileVars, argVars, workVars
<1>1. ASSUME NEW l, NEW k, NEW s, Start(l, k, s) PROVE UNCHANGED <<snapFiles, orphans>>
  BY <1>1 DEF Start
<1>2. CASE ListFails \/ Kill \/ Done
  <2>1. UNCHANGED snapFiles /\ orphans \subseteq orphans'
    BY <1>2 DEF ListFails, Kill, Done
  <2> QED
    BY <2>1 DEF Covered
<1>3. List \/ Create \/ CreateFails \/ Open \/ Send \/ SendFails \/ Unwind \/ RenameDone
        => UNCHANGED <<snapFiles, orphans>>
  BY DEF List, Create, CreateFails, Open, Send, SendFails, Unwind, RenameDone
<1>4. ASSUME NEW s, Rename(s) PROVE snapFiles \subseteq snapFiles' /\ UNCHANGED orphans
  <2>1. UNCHANGED orphans
    BY <1>4 DEF Rename
  <2> QED
    BY <1>4, <2>1, RenameFinds
<1>5. Destroy \/ DestroyFails => UNCHANGED snapFiles /\ orphans \subseteq orphans'
  BY DEF Destroy, DestroyFails
<1>6. ASSUME NEW s, UserDeletes(s) PROVE UNCHANGED <<snapFiles, orphans>>
  BY <1>6 DEF UserDeletes
<1>7. Tick \/ SetBack \/ UNCHANGED vars => UNCHANGED <<snapFiles, orphans>>
  BY DEF Tick, SetBack, vars
<1>8. snapFiles \subseteq snapFiles' /\ orphans \subseteq orphans'
  BY <1>1, <1>2, <1>3, <1>4, <1>5, <1>6, <1>7, Zenon DEF Next, Command, ListFails, Kill, Done
<1> QED
  BY <1>8 DEF Covered

(* The clock moves, and is set back, between two runs only. *)
LEMMA ClockMoves ==
    ASSUME TypeOK, [Next]_vars
    PROVE  /\ back' = 0 => back = 0 /\ now <= now'
           /\ back = 0 /\ pc # "idle" => back' = 0 /\ now' = now
<1> USE DEF fileVars, argVars, workVars
<1>0. back \in Nat /\ now \in Nat
  BY ZfsAssumption DEF TypeOK
<1>1. ASSUME NEW l, NEW k, NEW s, Start(l, k, s) PROVE UNCHANGED <<back, now>>
  BY <1>1 DEF Start
<1>2. ListFails \/ Kill \/ Done => UNCHANGED <<back, now>>
  BY DEF ListFails, Kill, Done
<1>3. List \/ Create \/ CreateFails \/ Open \/ Send \/ SendFails \/ Unwind \/ RenameDone
        => UNCHANGED <<back, now>>
  BY DEF List, Create, CreateFails, Open, Send, SendFails, Unwind, RenameDone
<1>4. ASSUME NEW s, Rename(s) \/ UserDeletes(s) PROVE UNCHANGED <<back, now>>
  BY <1>4 DEF Rename, UserDeletes
<1>5. Destroy \/ DestroyFails \/ UNCHANGED vars => UNCHANGED <<back, now>>
  BY DEF Destroy, DestroyFails, vars
<1>6. CASE UNCHANGED <<back, now>>
  BY <1>0, <1>6
<1>7. CASE Tick \/ SetBack
  BY <1>0, <1>7 DEF Tick, SetBack
<1> QED
  BY <1>1, <1>2, <1>3, <1>4, <1>5, <1>6, <1>7, Zenon DEF Next, Command

LEMMA ClockStep == ASSUME Runs, DumpsAreReady, Clock, [Next]_vars PROVE Clock'
<1> SUFFICES ASSUME back' = 0, NEW s \in snapshots' PROVE s.time <= now'
  BY DEF Clock
<1>1. back = 0 /\ now <= now' /\ now \in Nat /\ \A t \in snapshots : t.time \in Nat
  BY ClockMoves, ZfsAssumption DEF Runs, TypeOK, Snapshot
<1>2. now' \in Nat
  BY RunsStep, ZfsAssumption DEF Runs, TypeOK
<1>3. CASE s \in snapshots
  BY <1>1, <1>2, <1>3 DEF Clock
<1>4. CASE s \notin snapshots
  <2>1. (Create \/ CreateFails) /\ s \in NewSnapshots
    BY <1>4, SnapshotsStep
  <2>2. s.time = now
    BY <2>1, NewFields DEF Create, CreateFails, Runs, Stages
  <2> QED
    BY <1>1, <2>2
<1> QED
  BY <1>3, <1>4

(* A run ends: its snapshots are published, or somebody has been told. *)
LEMMA BasesAreCoveredStep ==
    ASSUME Runs, BasesAreCovered, DumpsAreReady, NewArePublished, [Next]_vars
    PROVE  BasesAreCovered'
<1> USE DEF fileVars, argVars, workVars
<1> SUFFICES ASSUME back' = 0, NEW s \in snapshots', Alone(s.label)
             PROVE  Covered(s)' \/ (pc' # "idle" /\ s.born = run')
  BY DEF BasesAreCovered
<1>0. /\ back = 0
      /\ Covered(s) => Covered(s)'
  BY ClockMoves, CoverageGrows DEF Runs
<1>1. s \in snapshots => Covered(s) \/ (pc # "idle" /\ s.born = run)
  BY <1>0 DEF BasesAreCovered
<1>2. ASSUME UNCHANGED run, pc # "idle" => pc' # "idle", s \in snapshots
      PROVE  Covered(s)' \/ (pc' # "idle" /\ s.born = run')
  BY <1>0, <1>1, <1>2
<1>3. ASSUME NEW l, NEW k, NEW x, Start(l, k, x)
      PROVE  Covered(s)' \/ (pc' # "idle" /\ s.born = run')
  BY <1>0, <1>1, <1>3 DEF Start
<1>4. CASE ListFails
  BY <1>0, <1>1, <1>4 DEF ListFails, Runs, OwnSnapshots
<1>5. CASE Kill
  <2>1. pc = "list" => s.born # run
    BY <1>5 DEF Kill, Runs, OwnSnapshots
  <2>2. pc # "list" /\ s.born = run => Covered(s)'
    BY <1>5 DEF Kill, Covered
  <2> QED
    BY <1>0, <1>1, <1>5, <2>1, <2>2 DEF Kill
<1>6. CASE Done
  <2>1. /\ s \in snapshots /\ left = {} /\ pc \in {"rollback", "cleanup"}
        /\ orphans' = IF failed \/ send THEN orphans ELSE orphans \union {run}
    BY <1>6 DEF Done
  <2>2. CASE ~failed /\ ~send /\ s.born = run
    BY <2>1, <2>2 DEF Covered
  <2>3. CASE ~failed /\ send /\ s.born = run
    <3>1. pc = "cleanup"
      BY <2>1, <2>3 DEF Runs, Stages
    <3>2. s \in NewSnapshots
      BY <2>1, <2>3, <3>1 DEF Runs, OwnSnapshots
    <3>3. Alone(label)
      BY <3>2, NewFields
    <3> QED
      BY <1>0, <2>3, <3>1, <3>2, <3>3 DEF NewArePublished
  <2>4. CASE failed /\ s.born = run
    <3>1. pc = "rollback"
      BY <2>1, <2>4 DEF Runs, Stages
    <3>2. run \in orphans
      BY <2>1, <2>4, <3>1 DEF Runs, RollsBack
    <3> QED
      BY <1>0, <2>4, <3>2 DEF Covered
  <2> QED
    BY <1>0, <1>1, <2>1, <2>2, <2>3, <2>4
<1>7. CASE Create \/ CreateFails
  BY <1>0, <1>1, <1>7, NewFields
     DEF Create, CreateFails, EnterRollback, EnterCleanup
<1>8. CASE List \/ Open \/ Send \/ SendFails \/ Unwind
  BY <1>2, <1>8 DEF List, Open, Send, SendFails, Unwind, EnterRollback
<1>9. ASSUME NEW x, Rename(x) PROVE Covered(s)' \/ (pc' # "idle" /\ s.born = run')
  BY <1>2, <1>9 DEF Rename
<1>10. CASE RenameDone \/ Destroy \/ DestroyFails
  BY <1>2, <1>10 DEF RenameDone, Destroy, DestroyFails, EnterRollback, EnterCleanup
<1>11. ASSUME NEW x, UserDeletes(x) PROVE Covered(s)' \/ (pc' # "idle" /\ s.born = run')
  BY <1>2, <1>11 DEF UserDeletes
<1>12. CASE Tick \/ SetBack \/ UNCHANGED vars
  BY <1>2, <1>12 DEF Tick, SetBack, vars
<1> QED
  BY <1>3, <1>4, <1>5, <1>6, <1>7, <1>8, <1>9, <1>10, <1>11, <1>12, Zenon DEF Next, Command

(* While the clock has not been set back the newest snapshot is the new one, *)
(* and the one before it is of an earlier run.                               *)
LEMMA NewestIsNew ==
    ASSUME Runs, Clock, back = 0, Alone(label), pc = "send", NEW d \in Datasets
    PROVE  To(d) = New(d) /\ (From(d) = None \/ (From(d) \in snapshots /\ From(d).born # run))
<1>1. New(d) \in snapshots /\ New(d) \in Filtered(d)
  BY DEF Runs, OwnSnapshots, NewSnapshots, New, Filtered
<1>2. /\ To(d) \in Filtered(d)
      /\ New(d) = To(d) \/ Less(New(d), To(d))
      /\ From(d) = None \/ From(d) \in Filtered(d) \ {To(d)}
  BY <1>1, NewestType DEF Runs
<1>3. ~Less(New(d), To(d))
  <2>1. To(d).time <= now /\ To(d).ds = d /\ To(d).label = label
    BY <1>2 DEF Clock, Filtered, Alone
  <2>2. New(d).time = now /\ New(d).ds = d /\ New(d).label = label
    BY DEF New, Runs, Stages
  <2>3. To(d).time \in Nat /\ now \in Nat /\ d \in Nat /\ label \in Nat
    BY <1>2, ZfsAssumption DEF Filtered, Runs, TypeOK, Snapshot, Datasets
  <2> QED
    BY <2>1, <2>2, <2>3 DEF Less
<1>4. To(d) = New(d)
  BY <1>2, <1>3
<1>5. ASSUME From(d) # None PROVE From(d) \in snapshots /\ From(d).born # run
  <2>1. From(d) \in snapshots /\ From(d).ds = d /\ From(d) # New(d)
    BY <1>2, <1>4, <1>5 DEF Filtered
  <2>2. From(d).born = run => From(d) \in NewSnapshots
    BY <2>1 DEF Runs, OwnSnapshots
  <2> QED
    BY <2>1, <2>2, NewFields
<1> QED
  BY <1>4, <1>5

(* A step of the run that does not touch the files of s leaves s ready. *)
LEMMA StaysReady ==
    ASSUME TypeOK, DumpsAreReady, [Next]_vars, pc # "idle", NEW s, Ready(s),
           \A f : SameName(f, s) => (f \in tmpFiles' <=> f \in tmpFiles)
    PROVE  Ready(s)'
<1>1. ASSUME NEW f, Good(f, s) PROVE Good(f, s)'
  <2>1. back' = 0 => back = 0
    BY ClockMoves
  <2>2. f.from # None /\ Covered(f.from) => Covered(f.from)'
    BY CoverageGrows
  <2> QED
    BY <1>1, <2>1, <2>2 DEF Good
<1> QED
  BY <1>1 DEF Ready

(* Open and Send replace the file of the dataset they are at, and no other. *)
LEMMA OthersStay ==
    ASSUME NEW s, NEW g, SameName(g, Current), ~SameName(s, Current),
           tmpFiles' = Others(tmpFiles, Current) \union {g}
    PROVE  \A f : SameName(f, s) => (f \in tmpFiles' <=> f \in tmpFiles)
BY DEF Others, SameName

LEMMA OthersStayReady ==
    ASSUME TypeOK, DumpsAreReady, [Next]_vars, pc # "idle", NEW g, SameName(g, Current),
           tmpFiles' = Others(tmpFiles, Current) \union {g},
           NEW s \in NewSnapshots, s # Current, Ready(s)
    PROVE  Ready(s)'
<1>1. ~SameName(s, Current)
  BY NewFields DEF SameName, Current, New
<1>2. \A f : SameName(f, s) => (f \in tmpFiles' <=> f \in tmpFiles)
  BY <1>1, OthersStay
<1> QED
  BY <1>2, StaysReady

LEMMA OpenStep == ASSUME IInv, Open, [Next]_vars PROVE DumpsAreReady'
<1> USE DEF argVars, workVars
<1>0. TypeOK /\ Stages /\ DumpsAreReady
  BY DEF IInv, Runs, Dumps
<1>1. /\ pc = "open" /\ pc' = "send" /\ UNCHANGED <<next, run, label, stamp>>
      /\ tmpFiles' = Others(tmpFiles, Current) \union {FileOf(Current, None, None)}
  BY DEF Open
<1>2. SameName(FileOf(Current, None, None), Current)
  BY DEF SameName, FileOf
<1>3. ASSUME NEW i \in 1..(next - 1), Names[i] # Names[next]
      PROVE  Ready(New(Names[i]))'
  <2>1. PICK s : s = New(Names[i])
    OBVIOUS
  <2>2. s \in NewSnapshots /\ Ready(s) /\ s # Current
    BY <1>0, <1>1, <1>3, <2>1, NamesType, ZfsAssumption
       DEF Stages, NewSnapshots, DumpsAreReady, New, Current
  <2>3. Ready(s)'
    BY <1>0, <1>1, <1>2, <2>2, OthersStayReady
  <2>4. New(Names[i])' = s
    BY <1>1, <2>1, SameRun
  <2> QED
    BY <2>3, <2>4 DEF Ready, Good, Covered
<1> QED
  BY <1>1, <1>3 DEF DumpsAreReady

LEMMA SendStep == ASSUME IInv, Send, [Next]_vars PROVE DumpsAreReady'
<1> USE DEF argVars, workVars
<1>0. Runs /\ TypeOK /\ Stages /\ DumpsAreReady /\ Clock /\ BasesAreCovered
  BY DEF IInv, Runs, Dumps
<1>1. PICK d, c, g : d = Names[next] /\ c = Current /\ g = FileOf(c, From(d), To(d))
  OBVIOUS
<1>2. /\ pc = "send" /\ next' = next + 1 /\ UNCHANGED <<run, label, stamp, back>>
      /\ tmpFiles' = Others(tmpFiles, Current) \union {g}
      /\ pc' = "open" \/ (pc' = "rename" /\ next = Len(Names) /\ left' = NewSnapshots)
      /\ Filtered(d) # {}
  BY <1>1 DEF Send
<1>3. /\ next \in 1..Len(Names) /\ Len(Names) \in Nat
      /\ d \in Datasets /\ c = New(d)
  BY <1>0, <1>1, <1>2, ZfsAssumption, NamesType DEF Stages, Current
<1>4. SameName(g, Current) /\ g.to = To(d) /\ g.from = From(d)
  BY <1>1 DEF SameName, FileOf
<1>5. Good(g, c)'
  <2>1. To(d) \in Filtered(d)
    BY <1>0, <1>2, NewestType DEF Runs
  <2>2. To(d) # None
    BY <1>0, <2>1, ZfsAssumption DEF Filtered, TypeOK, Snapshot, None
  <2>3. ASSUME back = 0, Alone(c.label)
        PROVE  g.to = c /\ (g.from = None \/ Covered(g.from)')
    <3>1. Alone(label)
      BY <1>1, <2>3 DEF Current, New
    <3>2. g.to = c /\ (g.from = None \/ (g.from \in snapshots /\ g.from.born # run))
      BY <1>0, <1>2, <1>3, <1>4, <2>3, <3>1, NewestIsNew
    <3>3. g.from \in Filtered(d) => g.from.label = label
      BY <3>1 DEF Filtered, Alone
    <3>4. g.from = None \/ g.from \in Filtered(d)
      BY <1>0, <1>2, <1>4, NewestType DEF Runs
    <3>5. g.from = None \/ Covered(g.from)
      BY <1>0, <2>3, <3>1, <3>2, <3>3, <3>4 DEF BasesAreCovered
    <3> QED
      BY <1>0, <3>2, <3>5, CoverageGrows
  <2> QED
    BY <1>2, <1>4, <2>2, <2>3 DEF Good
<1>6. Ready(c)'
  BY <1>1, <1>2, <1>4, <1>5 DEF Ready, Others
<1>7. ASSUME NEW i \in 1..next PROVE \A s : s = New(Names[i]) => Ready(s)'
  <2> SUFFICES ASSUME NEW s, s = New(Names[i]), s # c PROVE Ready(s)'
    BY <1>6
  <2>1. i \in 1..(next - 1) /\ Names[i] # Names[next]
    BY <1>1, <1>3 DEF Current
  <2>2. s \in NewSnapshots /\ Ready(s)
    BY <1>0, <1>2, <1>3, <2>1, NamesType DEF NewSnapshots, DumpsAreReady
  <2> QED
    BY <1>0, <1>1, <1>2, <1>4, <2>2, OthersStayReady
<1>8. ASSUME NEW i \in 1..(next' - 1) PROVE Ready(New(Names[i]))'
  <2>1. i \in 1..next
    BY <1>2, <1>3
  <2>2. PICK s : s = New(Names[i])
    OBVIOUS
  <2>3. New(Names[i])' = s
    BY <1>2, <2>2, SameRun
  <2> QED
    BY <1>7, <2>1, <2>2, <2>3 DEF Ready, Good, Covered
<1>9. ASSUME pc' = "rename", NEW s \in left' PROVE Ready(s)'
  <2>1. PICK e \in Datasets : s = New(e)
    BY <1>2, <1>9 DEF NewSnapshots
  <2>2. PICK i \in 1..Len(Names) : e = Names[i]
    BY DEF Datasets
  <2> QED
    BY <1>2, <1>7, <1>9, <2>1, <2>2
<1> QED
  BY <1>2, <1>8, <1>9 DEF DumpsAreReady

(* A rename takes the file of its own snapshot. *)
LEMMA RenameStep ==
    ASSUME IInv, NEW s, Rename(s), [Next]_vars PROVE DumpsAreReady'
<1> USE DEF argVars, fileVars
<1>0. Runs /\ TypeOK /\ DumpsAreReady /\ OwnSnapshots
  BY DEF IInv, Runs, Dumps
<1>1. pc = "rename" /\ pc' = "rename" /\ s \in left /\ left' = left \ {s}
  BY DEF Rename
<1>2. ASSUME NEW t \in left' PROVE Ready(t)'
  <2>1. Ready(t) /\ ~SameName(s, t)
    BY <1>0, <1>1, NewUnique DEF DumpsAreReady, OwnSnapshots, UniqueNames
  <2>2. \A f : SameName(f, t) => (f \in tmpFiles' <=> f \in tmpFiles)
    BY <1>0, <2>1, RenameFinds DEF SameName
  <2> QED
    BY <1>0, <1>1, <2>1, <2>2, StaysReady
<1> QED
  BY <1>1, <1>2 DEF DumpsAreReady

LEMMA DumpsAreReadyStep == ASSUME IInv, [Next]_vars PROVE DumpsAreReady'
<1>0. DumpsAreReady /\ Stages
  BY DEF IInv, Runs, Dumps
<1>1. ASSUME pc' \notin {"open", "send", "rename"} PROVE DumpsAreReady'
  BY <1>1 DEF DumpsAreReady
<1>2. ASSUME NEW l, NEW k, NEW s, Start(l, k, s) PROVE DumpsAreReady'
  BY <1>1, <1>2 DEF Start
<1>3. ListFails \/ Kill \/ Done => \E how : End(how)
  BY Zenon DEF ListFails, Kill, Done
<1>4. CASE ListFails \/ Kill \/ Done
  BY <1>1, <1>3, <1>4, EndFrame
<1>5. CASE List \/ CreateFails \/ SendFails \/ Unwind \/ RenameDone
  BY <1>1, <1>5 DEF List, CreateFails, SendFails, Unwind, RenameDone, EnterRollback,
                    EnterCleanup
<1>6. CASE Create
  BY <1>0, <1>1, <1>6 DEF Create, EnterCleanup, Stages, DumpsAreReady
<1>7. ASSUME NEW s, Rename(s) PROVE DumpsAreReady'
  BY <1>7, RenameStep
<1>8. CASE Destroy \/ DestroyFails
  BY <1>1, <1>8 DEF Destroy, DestroyFails
<1>9. ASSUME NEW s, UserDeletes(s) PROVE DumpsAreReady'
  BY <1>1, <1>9 DEF UserDeletes
<1>10. CASE Tick \/ SetBack
  BY <1>1, <1>10 DEF Tick, SetBack
<1>11. CASE UNCHANGED vars
  BY <1>0, <1>11 DEF DumpsAreReady, Ready, Good, Covered, New, vars, argVars, workVars, fileVars
<1> QED
  BY <1>2, <1>4, <1>5, <1>6, <1>7, <1>8, <1>9, <1>10, <1>11, OpenStep, SendStep, Zenon
     DEF Next, Command

(* Every new snapshot of a run that is successful so far has been renamed. *)
LEMMA NewArePublishedStep == ASSUME IInv, [Next]_vars PROVE NewArePublished'
<1> USE DEF fileVars, argVars, workVars
<1>0. Runs /\ TypeOK /\ Stages /\ DumpsAreReady /\ NewArePublished
  BY DEF IInv, Runs, Dumps
<1>1. back' = 0 => back = 0
  BY <1>0, ClockMoves
<1>2. \A s : Covered(s) => Covered(s)'
  BY <1>0, CoverageGrows
<1>3. ASSUME pc' \notin {"rename", "cleanup"} PROVE NewArePublished'
  BY <1>3 DEF NewArePublished
<1>4. ASSUME NEW l, NEW k, NEW s, Start(l, k, s) PROVE NewArePublished'
  BY <1>3, <1>4 DEF Start
<1>5. ListFails \/ Kill \/ Done => \E how : End(how)
  BY Zenon DEF ListFails, Kill, Done
<1>6. CASE ListFails \/ Kill \/ Done
  BY <1>3, <1>5, <1>6, EndFrame
<1>7. CASE List \/ CreateFails \/ Open \/ SendFails \/ Unwind
  BY <1>3, <1>7 DEF List, CreateFails, Open, SendFails, Unwind, EnterRollback
<1>8. CASE Create
  BY <1>8 DEF Create, EnterCleanup, NewArePublished
<1>9. CASE Send
  BY <1>9, SameRun DEF Send, NewArePublished
<1>10. ASSUME NEW s, Rename(s) PROVE NewArePublished'
  <2>1. /\ pc = "rename" /\ pc' = "rename" /\ left' = left \ {s}
        /\ UNCHANGED <<send, run, label, stamp>>
    BY <1>10 DEF Rename
  <2>2. back = 0 /\ Alone(s.label) => failed' \/ (UNCHANGED failed /\ Covered(s)')
    BY <1>0, <1>10, RenameFinds DEF Good, Covered
  <2>3. s.label = label
    BY <1>0, <1>10, NewFields DEF Rename, Runs, OwnSnapshots
  <2>4. NewSnapshots' = NewSnapshots
    BY <2>1, SameRun
  <2>5. ASSUME back' = 0, Alone(label'), send', ~failed',
               NEW t \in NewSnapshots' \ left'
        PROVE  Covered(t)'
    <3>1. back = 0 /\ Alone(label) /\ Alone(s.label) /\ send
      BY <1>1, <2>1, <2>3, <2>5
    <3>2. ~failed /\ Covered(s)'
      BY <2>2, <2>5, <3>1
    <3>3. CASE t = s
      BY <3>2, <3>3
    <3>4. CASE t # s
      <4>1. t \in NewSnapshots \ left
        BY <2>1, <2>4, <2>5, <3>4
      <4> QED
        BY <1>0, <1>2, <1>10, <3>1, <3>2, <4>1 DEF NewArePublished, Rename
    <3> QED
      BY <3>3, <3>4
  <2> QED
    BY <2>1, <2>5 DEF NewArePublished
<1>11. CASE RenameDone
  BY <1>0, <1>1, <1>2, <1>11, SameRun
     DEF RenameDone, EnterRollback, EnterCleanup, NewArePublished
<1>12. CASE Destroy \/ DestroyFails
  BY <1>0, <1>1, <1>2, <1>12, SameRun DEF Destroy, DestroyFails, NewArePublished
<1>13. ASSUME NEW s, UserDeletes(s) PROVE NewArePublished'
  BY <1>3, <1>13 DEF UserDeletes
<1>14. CASE Tick \/ SetBack
  BY <1>3, <1>14 DEF Tick, SetBack
<1>15. CASE UNCHANGED vars
  BY <1>0, <1>1, <1>2, <1>15, SameRun DEF NewArePublished, vars
<1> QED
  BY <1>4, <1>6, <1>7, <1>8, <1>9, <1>10, <1>11, <1>12, <1>13, <1>14, <1>15, Zenon
     DEF Next, Command

(* Only Rename publishes a file, and only a good one. *)
LEMMA Publishes ==
    ASSUME IInv, [Next]_vars, NEW f \in snapFiles', f \notin snapFiles
    PROVE  back' = back /\ \E s : SameName(f, s) /\ Good(f, s)
<1> USE DEF fileVars, argVars, workVars
<1>0. DumpsAreReady
  BY DEF IInv, Dumps
<1>1. ASSUME NEW l, NEW k, NEW s, Start(l, k, s) PROVE UNCHANGED snapFiles
  BY <1>1 DEF Start
<1>2. ListFails \/ Kill \/ Done => UNCHANGED snapFiles
  BY DEF ListFails, Kill, Done
<1>3. List \/ Create \/ CreateFails \/ Open \/ Send \/ SendFails \/ Unwind \/ RenameDone
        => UNCHANGED snapFiles
  BY DEF List, Create, CreateFails, Open, Send, SendFails, Unwind, RenameDone
<1>4. ASSUME NEW s, Rename(s) PROVE UNCHANGED back /\ (SameName(f, s) /\ Good(f, s))
  <2>1. UNCHANGED back
    BY <1>4 DEF Rename
  <2> QED
    BY <1>0, <1>4, <2>1, RenameFinds
<1>5. ASSUME NEW s, UserDeletes(s) PROVE UNCHANGED snapFiles
  BY <1>5 DEF UserDeletes
<1>6. Destroy \/ DestroyFails \/ Tick \/ SetBack \/ UNCHANGED vars => UNCHANGED snapFiles
  BY DEF Destroy, DestroyFails, Tick, SetBack, vars
<1> QED
  BY <1>1, <1>2, <1>3, <1>4, <1>5, <1>6, Zenon DEF Next, Command

LEMMA FilesStep == ASSUME IInv, [Next]_vars PROVE DumpsMatchTheirNames' /\ BasesArePublished'
<1>0. Runs /\ TypeOK /\ DumpsAreReady /\ DumpsMatchTheirNames /\ BasesArePublished
  BY DEF IInv, Runs, Dumps
<1>1. back' = 0 => back = 0
  BY <1>0, ClockMoves
<1>2. /\ \A s : Covered(s) => Covered(s)'
      /\ \A f \in snapFiles' \ snapFiles : back' = back /\ \E s : SameName(f, s) /\ Good(f, s)
  BY <1>0, CoverageGrows, Publishes
<1>3. DumpsMatchTheirNames'
  BY <1>0, <1>1, <1>2 DEF DumpsMatchTheirNames, Good, SameName
<1>4. BasesArePublished <=>
        (back = 0 => \A f \in snapFiles :
           ~Alone(f.label) \/ f.from = None \/ Covered(f.from))
  BY DEF BasesArePublished, Covered
<1>5. BasesArePublished' <=>
        (back' = 0 => \A f \in snapFiles' :
           ~Alone(f.label) \/ f.from = None \/ Covered(f.from)')
  BY DEF BasesArePublished, Covered
<1>6. BasesArePublished'
  BY <1>0, <1>1, <1>2, <1>4, <1>5 DEF Good, SameName
<1> QED
  BY <1>3, <1>6

-----------------------------------------------------------------------------
(* The theorems. *)

LEMMA InvInit == ASSUME Init PROVE IInv
<1> USE ZfsAssumption DEF Init
<1>1. TypeOK
  <2>1. Switches
    BY Zenon DEF Switches
  <2>2. Things /\ Values
    BY DEF Things, Values
  <2> QED
    BY <2>1, <2>2, TypeParts
<1>2. Stages
  BY DEF Stages
<1>3. OwnSnapshots /\ NamesAreFree /\ OldSnapshots
  BY FS_EmptySet DEF OwnSnapshots, NamesAreFree, OldSnapshots, UniqueNames
<1>4. Rotates /\ RollsBack /\ FailureLeavesNoSnapshot
  BY DEF Rotates, RollsBack, FailureLeavesNoSnapshot
<1>5. Clock /\ BasesAreCovered
  BY DEF Clock, BasesAreCovered
<1>6. DumpsAreReady /\ NewArePublished
  BY DEF DumpsAreReady, NewArePublished
<1>7. DumpsMatchTheirNames /\ BasesArePublished
  BY DEF DumpsMatchTheirNames, BasesArePublished
<1> QED
  BY <1>1, <1>2, <1>3, <1>4, <1>5, <1>6, <1>7, Zenon DEF IInv, Runs, Dumps

LEMMA InvStep == ASSUME IInv, [Next]_vars PROVE IInv'
<1>1. Runs /\ DumpsAreReady /\ Clock /\ BasesAreCovered /\ NewArePublished
  BY DEF IInv, Dumps
<1>2. Runs' /\ Clock' /\ BasesAreCovered'
  BY <1>1, RunsStep, ClockStep, BasesAreCoveredStep
<1>3. DumpsAreReady' /\ NewArePublished'
  BY DumpsAreReadyStep, NewArePublishedStep
<1> QED
  BY <1>2, <1>3, FilesStep, Zenon DEF IInv, Dumps

THEOREM Invariant == Spec => []IInv
<1>1. Init => IInv
  BY InvInit
<1>2. IInv /\ [Next]_vars => IInv'
  BY InvStep
<1> QED
  BY <1>1, <1>2, PTL DEF Spec

(* The variables have their types: every snapshot and every dump has a name    *)
(* made of a dataset of the command line, a label and a time the clock showed. *)
THEOREM TypeCorrect == Spec => []TypeOK
<1>1. IInv => TypeOK
  BY DEF IInv, Runs
<1> QED
  BY <1>1, Invariant, PTL

(***************************************************************************)
(* At whatever point a run fails, its deferred functions remove every      *)
(* snapshot it has made, unless zfs destroy fails too: for any number of   *)
(* datasets, and whichever of them "zfs snapshot" had made.                *)
(***************************************************************************)
THEOREM FailedRunsLeaveNothing == Spec => []FailureLeavesNoSnapshot
<1>1. IInv => FailureLeavesNoSnapshot
  BY DEF IInv, Runs
<1> QED
  BY <1>1, Invariant, PTL

(***************************************************************************)
(* sendSnapshots looks for the two newest snapshots of a dataset itself;   *)
(* as long as the clock is not set back the newer of them is the one the   *)
(* file is named for, and what is renamed is always a whole dump.          *)
(***************************************************************************)
THEOREM DumpsHoldWhatTheyAreNamedFor == Spec => []DumpsMatchTheirNames
<1>1. IInv => DumpsMatchTheirNames
  BY DEF IInv, Dumps
<1> QED
  BY <1>1, Invariant, PTL

(***************************************************************************)
(* The chain of incremental dumps that the uploader gets has no holes but  *)
(* those made by a killed run, a rollback that failed, a run without -send *)
(* or a clock that was set back.                                           *)
(***************************************************************************)
THEOREM ChainsHaveNoHoles == Spec => []BasesArePublished
<1>1. IInv => BasesArePublished
  BY DEF IInv, Dumps
<1> QED
  BY <1>1, Invariant, PTL

(* cleanup destroys so many of the old snapshots that keep-1 remain. *)
LEMMA ExcessCount ==
    ASSUME TypeOK, OldSnapshots, keep # 0
    PROVE  IsFiniteSet(old \ Excess) /\ Cardinality(old \ Excess) < keep
<1>1. /\ old \in SUBSET Snapshot /\ IsFiniteSet(old) /\ UniqueNames(old)
      /\ keep \in Nat \ {0} /\ Cardinality(old) \in Nat
  BY ZfsAssumption, FS_CardinalityType DEF TypeOK, OldSnapshots
<1>2. CASE Cardinality(old) < keep
  <2>1. Excess = {}
    BY <1>1, <1>2 DEF Excess
  <2> QED
    BY <1>1, <1>2, <2>1
<1>3. CASE Cardinality(old) >= keep
  <2> DEFINE k == Cardinality(old) - keep + 1
  <2>1. k \in 0..Cardinality(old) /\ Excess = Oldest(old, k)
    BY <1>1, <1>3 DEF Excess
  <2>2. Cardinality(Excess) = k
    BY <1>1, <2>1, OldestCount
  <2>3. old \cap Excess = Excess
    BY <2>1 DEF Oldest
  <2>4. IsFiniteSet(old \ Excess)
    BY <1>1, FS_Difference
  <2>5. Cardinality(old \ Excess) = Cardinality(old) - Cardinality(old \cap Excess)
    BY <1>1, FS_Difference
  <2>6. Cardinality(old \ Excess) = Cardinality(old) - k
    BY <2>2, <2>3, <2>5
  <2>7. \A c, m \in Nat : c - (c - m + 1) < m
    OBVIOUS
  <2>8. Cardinality(old) - k < keep
    BY <1>1, <2>7
  <2> QED
    BY <2>4, <2>6, <2>8
<1> QED
  BY <1>1, <1>2, <1>3

(* A run that ends well ends in Done, after cleanup. *)
LEMMA EndsWell ==
    ASSUME IInv, [Next]_vars, result = "running", result' = "ok"
    PROVE  pc = "cleanup" /\ left = {}
<1> USE DEF fileVars, argVars, workVars
<1>0. Stages
  BY DEF IInv, Runs
<1>1. \A l, k, x : ~Start(l, k, x)
  BY DEF Start
<1>2. ~ListFails /\ ~Kill
  BY EndFrame DEF ListFails, Kill
<1>3. ~(List \/ Create \/ CreateFails \/ Open \/ Send \/ SendFails \/ Unwind \/ RenameDone)
  BY DEF List, Create, CreateFails, Open, Send, SendFails, Unwind, RenameDone
<1>4. ~(Destroy \/ DestroyFails \/ Tick \/ SetBack \/ UNCHANGED vars)
  BY DEF Destroy, DestroyFails, Tick, SetBack, vars
<1>5. \A s : ~Rename(s) /\ ~UserDeletes(s)
  BY DEF Rename, UserDeletes
<1>6. Done
  BY <1>1, <1>2, <1>3, <1>4, <1>5, Zenon DEF Next, Command
<1>7. result' = IF failed THEN "failed" ELSE "ok"
  BY <1>6, EndFrame DEF Done
<1> QED
  BY <1>0, <1>6, <1>7 DEF Done, Stages

(***************************************************************************)
(* A successful run with -keep leaves at most keep-1 old snapshots of its  *)
(* datasets if zfs destroy works, and never destroys a new one: the sorted *)
(* names, the slice that cleanup takes and its bounds are right for any    *)
(* number of snapshots, also when keep is larger than it.                  *)
(***************************************************************************)
THEOREM RotationLeavesKeep == Spec => RotationBounds
<1> DEFINE Goal == (result = "running" /\ result' = "ok") =>
             /\ NewSnapshots \subseteq snapshots
             /\ (keep # 0 /\ ~spared) =>
                  Cardinality({s \in snapshots : s.ds \in Datasets} \ NewSnapshots) < keep
<1>1. ASSUME IInv, [Next]_vars PROVE Goal
  <2> SUFFICES ASSUME result = "running", result' = "ok"
               PROVE  /\ NewSnapshots \subseteq snapshots
                      /\ (keep # 0 /\ ~spared) =>
                           Cardinality({s \in snapshots : s.ds \in Datasets}
                                         \ NewSnapshots) < keep
    OBVIOUS
  <2>1. /\ pc = "cleanup" /\ left = {}
        /\ TypeOK /\ OwnSnapshots /\ OldSnapshots /\ Rotates
    BY <1>1, EndsWell DEF IInv, Runs
  <2>2. NewSnapshots \subseteq snapshots
    BY <2>1 DEF OwnSnapshots
  <2>3. ASSUME keep # 0, ~spared
        PROVE  Cardinality({s \in snapshots : s.ds \in Datasets} \ NewSnapshots) < keep
    <3> DEFINE R == {s \in snapshots : s.ds \in Datasets} \ NewSnapshots
    <3>1. R \in SUBSET (old \ Excess)
      BY <2>1, <2>3 DEF Rotates
    <3>2. IsFiniteSet(old \ Excess) /\ Cardinality(old \ Excess) < keep
      BY <2>1, <2>3, ExcessCount
    <3>3. IsFiniteSet(R) /\ Cardinality(R) <= Cardinality(old \ Excess)
      BY <3>1, <3>2, FS_Subset
    <3>4. Cardinality(R) \in Nat /\ Cardinality(old \ Excess) \in Nat /\ keep \in Nat
      BY <2>1, <3>2, <3>3, FS_CardinalityType, ZfsAssumption DEF TypeOK
    <3> QED
      BY <3>2, <3>3, <3>4
  <2> QED
    BY <2>2, <2>3
<1>2. IInv /\ [Next]_vars => [Goal]_vars
  BY <1>1
<1> QED
  BY <1>2, Invariant, PTL DEF Spec, RotationBounds
=============================================================================
