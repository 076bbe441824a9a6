----------------------------- MODULE MCNetconf -----------------------------
(* Small instances of Netconf for TLC. *)
EXTENDS Netconf, TLC

CONSTANTS
    eno1, eno2, wl,   \* interfaces, the last one wireless
    site              \* a file made by hand for the wired ones

MCIface  == {eno1, eno2, wl}
MCWired  == {eno1, eno2}
MCCustom == {site}
MCCovers == site :> MCWired

(* "site.network" comes between the two by name. *)
MCRank == eno1 :> 1 @@ site :> 2 @@ eno2 :> 3 @@ wl :> 4
=============================================================================
