-------------------------- MODULE AccountPassword --------------------------
(***************************************************************************)
(* The password of the box's account and its lock: two requests left as    *)
(* files under /etc/protonet/system/ssh, two path units that notice them,  *)
(* and the two one-shot services whose scripts serve them,                 *)
(* scripts/platform-passwd.sh ("set") and platform-passwd-lock.sh          *)
(* ("lock").  Both scripts report through the same two result files and    *)
(* nothing keeps them apart.                                               *)
(*                                                                         *)
(* Abstractions: what the request file holds is a value of Password; a     *)
(* write to it is one step, and so is each command of a script.  A logger  *)
(* is a step only as far as its failure ends the script (set -e).          *)
(* The path units are systemd's and external: a write made while the       *)
(* service is not running queues its start, one made during a run may be   *)
(* noticed or missed.                                                      *)
(***************************************************************************)
EXTENDS Naturals, FiniteSets

CONSTANTS
    Password,       \* what the request file may hold
    Plain,          \* the requests that awk's printf $1 prints as they are
    Garbled,        \* what it makes of another: its first words, % read as a
                    \* format, or nothing
    NoPassword,     \* the file before the first request, the factory's hash
    MaxRequests,    \* bound on the requests of either kind
    MaxCuts         \* bound on the power cuts

ASSUME PasswordAssumption ==
    /\ Plain \subseteq Password
    /\ NoPassword \notin Password /\ Garbled \notin Password \cup {NoPassword}
    /\ MaxRequests \in Nat /\ MaxCuts \in Nat

VARIABLES
    password,   \* PASSWD_FILE
    lock,       \* PASSWD_LOCK_FILE exists
    success,    \* SUCCESS_FILE exists
    error,      \* ERROR_FILE: "absent", "empty" or "text"
    account,    \* the shadow entry: whose hash, and whether it is locked
    jobs,       \* the services whose start is queued
    pc,         \* the next command of each script
    status,     \* ${PIPESTATUS[0]} = 0, per script
    wanted,     \* PASSWD_STRING, as the running set script has read it
    versions,   \* what each file has held since the boot
    alone,      \* history: no other run has overlapped this one
    settled,    \* history: the last run to report, unless another is under way
    broke,      \* history: set -e has ended the last run of the lock script
    kept,       \* history: the last run to begin, being alone, could not remove
                \* the result file that contradicts it
    requests,   \* history: the requests made
    cuts        \* history: the power cuts

requestVars == <<password, lock>>
resultVars == <<success, error>>
historyVars == <<alone, settled, broke, kept, requests, cuts>>
vars == <<password, lock, success, error, account, jobs, pc, status, wanted,
          versions, alone, settled, broke, kept, requests, cuts>>

Script == {"set", "lock"}

Label == {"idle", "cancel", "read", "redirect", "chpasswd", "test", "passwd",
          "rmlock", "rmerror", "writesuccess", "logsuccess", "checkerror",
          "logerror", "writeerror", "rmsuccess"}

\* The words that awk may print, and the passwords the account may have.
Word == Plain \cup {Garbled, NoPassword}

Account == [hash : Word, locked : BOOLEAN]

ErrorFile == {"absent", "empty", "text"}

None == [by |-> "none", ok |-> FALSE]

(***************************************************************************)
(* Everything has its shape, and a script reports success or an error as   *)
(* its command's status says.                                              *)
(***************************************************************************)
TypeOK ==
    /\ password \in Password \cup {NoPassword}
    /\ lock \in BOOLEAN /\ success \in BOOLEAN
    /\ error \in ErrorFile
    /\ account \in Account
    /\ jobs \subseteq Script
    /\ pc \in [Script -> Label]
    /\ status \in [Script -> BOOLEAN]
    /\ \A s \in Script :
         /\ pc[s] \in {"rmerror", "writesuccess", "logsuccess"} => status[s]
         /\ pc[s] \in {"checkerror", "logerror", "writeerror", "rmsuccess"} => ~status[s]
    /\ wanted \in Word
    /\ versions \in [password : SUBSET (Password \cup {NoPassword}), lock : SUBSET BOOLEAN,
                     success : SUBSET BOOLEAN, error : SUBSET ErrorFile,
                     account : SUBSET Account]
    /\ alone \in [Script -> BOOLEAN] /\ broke \in BOOLEAN /\ kept \in BOOLEAN
    /\ settled \in [by : Script, ok : BOOLEAN] \cup {None}
    /\ requests \in 0..MaxRequests /\ cuts \in 0..MaxCuts

Running(s) == pc[s] # "idle"

GoTo(s, label) == pc' = [pc EXCEPT ![s] = label]

Init ==
    /\ password = NoPassword /\ lock = FALSE
    /\ success = FALSE /\ error = "absent"
    /\ account = [hash |-> NoPassword, locked |-> FALSE]
    /\ jobs = {} /\ pc = [s \in Script |-> "idle"]
    /\ status = [s \in Script |-> TRUE] /\ wanted = NoPassword
    /\ versions = [password |-> {password}, lock |-> {lock}, success |-> {success},
                   error |-> {error}, account |-> {account}]
    /\ alone = [s \in Script |-> FALSE] /\ settled = None
    /\ broke = FALSE /\ kept = FALSE
    /\ requests = 0 /\ cuts = 0

----------------------------------------------------------------------------
(* The requests and the units. *)

\* The path unit of s sees its file written.
Notices(s) ==
    \/ jobs' = jobs \cup {s}
    \/ Running(s) /\ UNCHANGED jobs

RequestPassword ==
    /\ requests < MaxRequests
    /\ requests' = requests + 1
    /\ \E p \in Password : password' = p
    /\ Notices("set")
    /\ UNCHANGED <<lock, resultVars, account, pc, status, wanted, alone,
                   settled, broke, kept, cuts>>

RequestLock ==
    /\ requests < MaxRequests
    /\ requests' = requests + 1
    /\ lock' = TRUE
    /\ Notices("lock")
    /\ UNCHANGED <<password, resultVars, account, pc, status, wanted, alone,
                   settled, broke, kept, cuts>>

\* ConditionFileNotEmpty and ConditionPathExists.
Condition(s) == IF s = "set" THEN password # NoPassword ELSE lock

FirstCommand(s) == IF s = "set" THEN "cancel" ELSE "test"

Start(s) ==
    /\ s \in jobs /\ ~Running(s)
    /\ jobs' = jobs \ {s}
    /\ IF Condition(s)
         THEN /\ GoTo(s, FirstCommand(s))
              /\ alone' = [t \in Script |-> t = s /\ \A u \in Script : ~Running(u)]
              /\ settled' = None
              /\ broke' = (broke /\ s # "lock") /\ kept' = FALSE
         ELSE UNCHANGED <<pc, alone, settled, broke, kept>>
    /\ UNCHANGED <<requestVars, resultVars, account, status, wanted, requests, cuts>>

End(s, outcome) ==
    /\ GoTo(s, "idle")
    /\ settled' = IF alone[s] THEN outcome ELSE None
    /\ UNCHANGED <<alone, broke, requests, cuts>>

\* The commands whose failure set -e makes the script's, with the loggers
\* before them.
Fragile == {"cancel", "read", "test", "rmlock", "writesuccess", "logsuccess",
            "checkerror", "logerror", "writeerror"}

\* echo 'Well done!' and echo 'Some error occurred.' may have opened their
\* file before they fail; any other command that fails leaves all as it is.
Break(s) ==
    /\ pc[s] \in Fragile
    /\ GoTo(s, "idle")
    /\ broke' = (broke \/ s = "lock")
    /\ success' \in {success, success \/ pc[s] = "writesuccess"}
    /\ error' \in {error, IF pc[s] = "writeerror" THEN "empty" ELSE error}
    /\ UNCHANGED <<requestVars, account, jobs, status, wanted, alone, settled,
                   kept, requests, cuts>>

----------------------------------------------------------------------------
(* platform-passwd.sh up to its result. *)

\* Setting a password takes back a request to lock.
CancelLock ==
    /\ pc["set"] = "cancel"
    /\ lock' = FALSE
    /\ GoTo("set", "read")
    /\ UNCHANGED <<password, resultVars, account, jobs, status, wanted, historyVars>>

Printed(p) == IF p \in Plain THEN p ELSE Garbled

\* The echo around it hides that awk fails, having printed nothing.
ReadPassword ==
    /\ pc["set"] = "read"
    /\ wanted' \in {Printed(password), Garbled}
    /\ GoTo("set", "redirect")
    /\ UNCHANGED <<requestVars, resultVars, account, jobs, status, historyVars>>

\* 2>${ERROR_FILE} empties the file before chpasswd runs.
RedirectErrors ==
    /\ pc["set"] = "redirect"
    /\ error' = "empty"
    /\ GoTo("set", "chpasswd")
    /\ UNCHANGED <<requestVars, success, account, jobs, status, wanted, historyVars>>

\* A file that cannot be opened counts as a chpasswd that failed.
RedirectFails ==
    /\ pc["set"] = "redirect"
    /\ status' = [status EXCEPT !["set"] = FALSE]
    /\ GoTo("set", "checkerror")
    /\ UNCHANGED <<requestVars, resultVars, account, jobs, wanted, historyVars>>

\* A wrong variant: the status is that of the pipe's last command.
PipeStatus(ok) == TRUE

FirstStatus(ok) == ok

\* A wrong variant: the test of the status is turned around.
AfterFailure(s, ok) == GoTo(s, IF ok THEN "checkerror" ELSE "rmerror")

AfterStatus(s, ok) == GoTo(s, IF ok THEN "rmerror" ELSE "checkerror")

\* A new hash replaces the locked one.  A complaint goes to the open file,
\* which the lock script may have unlinked meanwhile.
Chpasswd ==
    /\ pc["set"] = "chpasswd"
    /\ \E ok \in BOOLEAN :
         /\ status' = [status EXCEPT !["set"] = FirstStatus(ok)]
         /\ AfterStatus("set", FirstStatus(ok))
         /\ IF ok
              THEN /\ account' = [hash |-> wanted, locked |-> FALSE]
                   /\ UNCHANGED error
              ELSE /\ error' \in {error, IF error = "absent" THEN error ELSE "text"}
                   /\ UNCHANGED account
    /\ UNCHANGED <<requestVars, success, jobs, wanted, historyVars>>

----------------------------------------------------------------------------
(* platform-passwd-lock.sh up to its result. *)

\* A wrong variant: the request is taken away before it is looked for.
RemoveThenTest ==
    /\ pc["lock"] = "test"
    /\ lock' = FALSE
    /\ End("lock", None)
    /\ UNCHANGED <<password, resultVars, account, jobs, status, wanted, kept>>

TestLock ==
    /\ pc["lock"] = "test"
    /\ IF lock THEN GoTo("lock", "passwd") /\ UNCHANGED historyVars
               ELSE End("lock", None) /\ UNCHANGED kept
    /\ UNCHANGED <<requestVars, resultVars, account, jobs, status, wanted>>

PasswdLock ==
    /\ pc["lock"] = "passwd"
    /\ \E ok \in BOOLEAN :
         /\ status' = [status EXCEPT !["lock"] = FirstStatus(ok)]
         /\ account' = [account EXCEPT !.locked = @ \/ ok]
    /\ GoTo("lock", "rmlock")
    /\ UNCHANGED <<requestVars, resultVars, jobs, wanted, historyVars>>

\* A wrong variant: only a lock that worked takes the request away.
RemoveLockIfDone ==
    /\ pc["lock"] = "rmlock"
    /\ lock' = (lock /\ ~status["lock"])
    /\ AfterStatus("lock", status["lock"])
    /\ UNCHANGED <<password, resultVars, account, jobs, status, wanted, historyVars>>

RemoveLock ==
    /\ pc["lock"] = "rmlock"
    /\ lock' = FALSE
    /\ AfterStatus("lock", status["lock"])
    /\ UNCHANGED <<password, resultVars, account, jobs, status, wanted, historyVars>>

----------------------------------------------------------------------------
(* The result, by the same commands in either script.  The rm of the other *)
(* result file may fail, which || true hides.                              *)

ResultStep(s) == UNCHANGED <<requestVars, account, jobs, status, wanted>>

RemoveError(s) ==
    /\ pc[s] = "rmerror"
    /\ \/ error' = "absent" /\ UNCHANGED kept
       \/ kept' = alone[s] /\ UNCHANGED error
    /\ GoTo(s, "writesuccess")
    /\ ResultStep(s) /\ UNCHANGED <<success, alone, settled, broke, requests, cuts>>

WriteSuccess(s) ==
    /\ pc[s] = "writesuccess"
    /\ success' = TRUE
    /\ GoTo(s, "logsuccess")
    /\ ResultStep(s) /\ UNCHANGED <<error, historyVars>>

LogSuccess(s) ==
    /\ pc[s] = "logsuccess"
    /\ End(s, [by |-> s, ok |-> TRUE])
    /\ ResultStep(s) /\ UNCHANGED <<resultVars, kept>>

\* [[ -s ${ERROR_FILE} ]]: a text is kept, whoever wrote it.
CheckError(s) ==
    /\ pc[s] = "checkerror"
    /\ GoTo(s, IF error = "text" THEN "logerror" ELSE "writeerror")
    /\ ResultStep(s) /\ UNCHANGED <<resultVars, historyVars>>

LogError(s) ==
    /\ pc[s] = "logerror"
    /\ GoTo(s, "rmsuccess")
    /\ ResultStep(s) /\ UNCHANGED <<resultVars, historyVars>>

WriteError(s) ==
    /\ pc[s] = "writeerror"
    /\ error' = "text"
    /\ GoTo(s, "rmsuccess")
    /\ ResultStep(s) /\ UNCHANGED <<success, historyVars>>

RemoveSuccess(s) ==
    /\ pc[s] = "rmsuccess"
    /\ \/ success' = FALSE /\ UNCHANGED kept
       \/ kept' = alone[s] /\ UNCHANGED success
    /\ End(s, [by |-> s, ok |-> FALSE])
    /\ ResultStep(s) /\ UNCHANGED error

Result(s) ==
    \/ RemoveError(s) \/ WriteSuccess(s) \/ LogSuccess(s)
    \/ CheckError(s) \/ LogError(s) \/ WriteError(s) \/ RemoveSuccess(s)

----------------------------------------------------------------------------
\* The runs and the queued starts are gone; after the boot PathModified
\* waits for the next write.  Nothing calls sync: a file may be again what it
\* was at any time since the last boot.
PowerCut ==
    /\ cuts < MaxCuts
    /\ cuts' = cuts + 1
    /\ password' \in versions.password /\ lock' \in versions.lock
    /\ success' \in versions.success /\ error' \in versions.error
    /\ account' \in versions.account
    /\ versions' = [password |-> {password'}, lock |-> {lock'}, success |-> {success'},
                    error |-> {error'}, account |-> {account'}]
    /\ jobs' = {} /\ pc' = [s \in Script |-> "idle"]
    /\ status' = [s \in Script |-> TRUE] /\ wanted' = NoPassword
    /\ alone' = [s \in Script |-> FALSE] /\ settled' = None
    /\ broke' = FALSE /\ kept' = FALSE
    /\ UNCHANGED requests

\* What the files hold after another step joins what they have held, which
\* matters as long as a power cut may come.
Age ==
    IF cuts = MaxCuts
      THEN UNCHANGED versions
      ELSE versions' = [password |-> versions.password \cup {password'},
                        lock |-> versions.lock \cup {lock'},
                        success |-> versions.success \cup {success'},
                        error |-> versions.error \cup {error'},
                        account |-> versions.account \cup {account'}]

Request == RequestPassword \/ RequestLock

SetStep ==
    \/ CancelLock \/ ReadPassword \/ RedirectErrors \/ RedirectFails \/ Chpasswd
    \/ Result("set") \/ Break("set")

LockStep ==
    \/ TestLock \/ PasswdLock \/ RemoveLock
    \/ Result("lock") \/ Break("lock")

Next ==
    \/ Request /\ Age
    \/ \E s \in Script : Start(s) /\ Age
    \/ SetStep /\ Age
    \/ LockStep /\ Age
    \/ PowerCut

Spec == Init /\ [][Next]_vars

\* systemd starts what is queued and the shells run on.
FairSpec ==
    /\ Spec
    /\ \A s \in Script : WF_vars(Start(s) /\ Age)
    /\ WF_vars(SetStep /\ Age) /\ WF_vars(LockStep /\ Age)

----------------------------------------------------------------------------
(***************************************************************************)
(* The two result files tell the outcome of the last run if no other ran   *)
(* beside it and set -e did not end it, whatever overlapping, broken or    *)
(* cut off runs left in them: one of the two is there, the other one only  *)
(* if its rm failed, and "Well done!" only for an account that is locked,  *)
(* or unlocked with the word that awk has printed, which is the requested  *)
(* password only if awk prints that as it is (platform-passwd.sh 18-36,    *)
(* -lock.sh 13-31).                                                        *)
(***************************************************************************)
ResultIsHonest ==
    settled # None =>
        IF settled.ok
          THEN /\ success /\ (error = "absent" \/ kept)
               /\ IF settled.by = "lock" THEN account.locked
                    ELSE account = [hash |-> wanted, locked |-> FALSE]
          ELSE (~success \/ kept) /\ error = "text"

LockQueued == "lock" \in jobs /\ lock

(***************************************************************************)
(* A noticed request to lock does not stay on the disk, where it would be  *)
(* obeyed after the owner has set a new password, unless the power fails   *)
(* or set -e ends the lock script at its first logger or at the rm itself: *)
(* the lock script takes it away whatever passwd says, or the set script   *)
(* does (platform-passwd-lock.sh 15, platform-passwd.sh 11).               *)
(***************************************************************************)
LockRequestEnds == LockQueued ~> (~lock \/ cuts > 0 \/ broke)

SetBusy == "set" \in jobs \/ Running("set")

(***************************************************************************)
(* A noticed request to lock is served: the account gets locked or the     *)
(* failure is reported, unless a password is set meanwhile, the power      *)
(* fails or set -e ends the lock script (platform-passwd-lock.sh 12-31).   *)
(* A request made while a lock script runs is left out: that script may    *)
(* take it away unserved, with a password set since its passwd.            *)
(***************************************************************************)
LockIsServed ==
    LockQueued /\ ~Running("lock") ~>
        \/ account.locked \/ settled = [by |-> "lock", ok |-> FALSE]
        \/ SetBusy \/ cuts > 0 \/ broke

=============================================================================
