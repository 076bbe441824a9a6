--------------------------- MODULE TriggerUpdate ---------------------------
(***************************************************************************)
(* The channel file and the unit pair that watches it:                     *)
(*   services/trigger-update-protonet.path     PathModified=.../channel    *)
(*   services/trigger-update-protonet.service  runs platform-configure.sh  *)
(* The user changes the channel through the key-value store, which writes  *)
(* the same file; prep.sh writes it too.  systemd notices a write only     *)
(* while the path unit is active and the service it starts is not already  *)
(* running, and remembers nothing of the writes it did not notice.         *)
(***************************************************************************)

CONSTANTS
    Channel,       \* release channels
    NoChannel      \* the channel file does not exist or is empty

VARIABLES
    channelFile,   \* content of /etc/protonet/system/channel
    pathActive,    \* trigger-update-protonet.path is active
    triggered,     \* the configure run in progress was started by the service
    pending        \* who caused the start of the service that is outstanding

triggerVars == <<channelFile, pathActive, triggered, pending>>

Writer == {"user", "prep"}

TriggerTypeOK ==
    /\ channelFile \in Channel \union {NoChannel}
    /\ pathActive \in BOOLEAN
    /\ triggered \in BOOLEAN
    /\ pending \in Writer \union {"nobody"}

(***************************************************************************)
(* A write to the channel file by who: PathModified fires on the close of  *)
(* the file, unless nobody is watching.                                    *)
(***************************************************************************)
WriteChannelFile(c, who) ==
    /\ channelFile' = c
    /\ pending' = IF pathActive /\ ~triggered THEN who ELSE pending
    /\ UNCHANGED <<pathActive, triggered>>

(* StopUnit / StartUnit trigger-update-protonet.path. *)
SetPath(active) ==
    /\ pathActive' = active
    /\ UNCHANGED <<channelFile, triggered, pending>>

(* The service is gone: the run it started has ended, however it ended. *)
EndOfRun ==
    /\ triggered' = FALSE
    /\ UNCHANGED <<channelFile, pathActive, pending>>

(* A boot: the path unit is started if it was enabled, and jobs are forgotten. *)
BootPath(enabled) ==
    /\ pathActive' = enabled
    /\ triggered' = FALSE
    /\ pending' = "nobody"
    /\ UNCHANGED channelFile
=============================================================================
