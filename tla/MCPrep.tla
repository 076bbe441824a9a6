------------------------------- MODULE MCPrep -------------------------------
(* Small instances of Prep for TLC. *)
EXTENDS Prep, TLC

CONSTANTS
    web, cb, trig,   \* units: a marked one, an unmarked one, the path unit
    i1, i2,          \* images
    b1, b2,          \* releases
    t1, t2,          \* tags
    c1, c2           \* channels

MCUnit    == {web, cb, trig}
MCMarked  == {web, trig}
MCImage   == {i1, i2}
MCImageOf == web :> i1 @@ cb :> i2 @@ trig :> NoImage

(* The second configure image does not ship web any more. *)
MCPayload  == {{web, cb, trig}, {cb, trig}}
OnePayload == {{web, cb, trig}}

(* The releases differ in the tag of one image and share the other. *)
MCBuild    == {b1, b2}
MCTag      == {t1, t2}
MCManifest == b1 :> (i1 :> t1 @@ i2 :> t1) @@ b2 :> (i1 :> t2 @@ i2 :> t1)

OneBuild == {b1}
OneManifest == b1 :> (i1 :> t1 @@ i2 :> t1)

MCChannel == {c1, c2}
=============================================================================
