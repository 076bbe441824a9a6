------------------------------ MODULE Deployment ------------------------------
(***************************************************************************)
(* What a box may show of its releases, however the runs that configure it *)
(* are ordered, fail or are cut off.  Images arrive and are removed; unit  *)
(* files change to a release whose images are all there; a release is      *)
(* recorded while it is the one the box shows.  Prep implements this.      *)
(***************************************************************************)
CONSTANTS
    Unit,         \* unit files
    Marked,       \* those of which no old one may remain
    Tracked,      \* those that must always have their image
    Payload,      \* the sets of units that make up a release
    Build,        \* releases
    NoBuild,
    File,         \* the files in which a release is recorded
    Contents,     \* [Build -> the images of the release]
    Needs         \* [Build -> [Unit -> the images the unit runs]]

VARIABLES
    images,       \* images that a unit may be started with
    shown,        \* [Unit -> the release the unit file is from, or NoBuild]
    recorded      \* [File -> the release it names, or NoBuild]

Init ==
    /\ images = {}
    /\ shown = [u \in Unit |-> NoBuild]
    /\ recorded = [f \in File |-> NoBuild]

InUse == UNION {Needs[shown[u]][u] : u \in {v \in Tracked : shown[v] # NoBuild}}

Arrive(r) ==
    /\ images' = images \union {r}
    /\ UNCHANGED <<shown, recorded>>

Prune ==
    /\ \E gone \in SUBSET (images \ InUse) : images' = images \ gone
    /\ UNCHANGED <<shown, recorded>>

(* The unit file goes, or changes to release b. *)
Change(u, b) ==
    /\ Contents[b] \subseteq images
    /\ \E new \in {b, NoBuild} : shown' = [shown EXCEPT ![u] = new]
    /\ UNCHANGED <<images, recorded>>

Shows(b) ==
    /\ Contents[b] \subseteq images
    /\ \E p \in Payload : /\ \A u \in p : shown[u] = b
                          /\ \A u \in Marked \ p : shown[u] = NoBuild

Record(f, b) ==
    /\ Shows(b)
    /\ recorded' = [recorded EXCEPT ![f] = b]
    /\ UNCHANGED <<images, shown>>

Next ==
    \/ (\E r \in UNION {Contents[b] : b \in Build} : Arrive(r))
    \/ Prune
    \/ (\E u \in Unit, b \in Build : Change(u, b))
    \/ (\E f \in File, b \in Build : Record(f, b))

Spec == Init /\ [][Next]_<<images, shown, recorded>>
=============================================================================
