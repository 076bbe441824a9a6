--------------------------- MODULE PasswordProofs ---------------------------
(***************************************************************************)
(* Proofs about AccountPassword for any set of passwords and any number of *)
(* requests and power cuts: the type invariant, and that the result files  *)
(* tell the outcome of a run that no other one overlapped.                 *)
(***************************************************************************)
EXTENDS AccountPassword, TLAPS

(* A run that nobody has overlapped is the only one there is. *)
AloneIsAlone ==
    \A s, t \in Script : alone[s] /\ Running(s) /\ Running(t) => s = t

(* The history is that of the last run: no other one is under way. *)
SettledMeansIdle == settled # None => \A s \in Script : ~Running(s)

(* The account is what the request of s asked for. *)
Obeyed(s) == IF s = "lock" THEN account.locked
             ELSE account = [hash |-> wanted, locked |-> FALSE]

(* What a run that is alone has brought about when it comes to a command. *)
AloneProgress ==
    \A s \in Script : alone[s] =>
        /\ pc[s] = "rmlock" /\ status[s] => Obeyed(s)
        /\ pc[s] \in {"rmerror", "writesuccess", "logsuccess"} => Obeyed(s)
        /\ pc[s] \in {"writesuccess", "logsuccess"} => error = "absent" \/ kept
        /\ pc[s] = "logsuccess" => success
        /\ pc[s] = "logerror" => error = "text"
        /\ pc[s] = "rmsuccess" => error = "text"

(* Each script goes through its own commands. *)
OwnCommands ==
    /\ pc["set"] \notin {"test", "passwd", "rmlock"}
    /\ pc["lock"] \notin {"cancel", "read", "redirect", "chpasswd"}

Results == AloneIsAlone /\ SettledMeansIdle /\ OwnCommands /\ AloneProgress /\ ResultIsHonest

IInv == TypeOK /\ Results

-----------------------------------------------------------------------------
(* Types. *)

(* The variables that are true or false. *)
Switches ==
    /\ lock \in BOOLEAN /\ success \in BOOLEAN
    /\ status \in [Script -> BOOLEAN] /\ alone \in [Script -> BOOLEAN]
    /\ account \in Account /\ broke \in BOOLEAN /\ kept \in BOOLEAN

(* What the files may have held. *)
Versions ==
    versions \in [password : SUBSET (Password \cup {NoPassword}), lock : SUBSET BOOLEAN,
                  success : SUBSET BOOLEAN, error : SUBSET ErrorFile,
                  account : SUBSET Account]

LEMMA TypeInit == ASSUME Init PROVE TypeOK
<1>1. Switches
  BY Zenon DEF Init, Switches, Account, Word
<1>2. pc \in [Script -> Label] /\ \A s \in Script : pc[s] = "idle"
  BY DEF Init, Label
<1>3. jobs \subseteq Script /\ requests \in 0..MaxRequests /\ cuts \in 0..MaxCuts
  BY PasswordAssumption DEF Init
<1>4. Versions
  BY <1>1, Zenon DEF Init, Switches, Versions, ErrorFile
<1> QED
  BY <1>1, <1>2, <1>3, <1>4 DEF Switches, Versions, Init, TypeOK, Word, ErrorFile

(* What a power cut leaves in the files they have held. *)
LEMMA PowerCutFiles ==
    ASSUME TypeOK, PowerCut
    PROVE  /\ password' \in Password \cup {NoPassword} /\ error' \in ErrorFile
           /\ lock' \in BOOLEAN /\ success' \in BOOLEAN /\ account' \in Account
<1>1. /\ versions.password \subseteq Password \cup {NoPassword}
      /\ versions.lock \subseteq BOOLEAN /\ versions.success \subseteq BOOLEAN
      /\ versions.error \subseteq ErrorFile /\ versions.account \subseteq Account
  BY Zenon DEF TypeOK
<1> QED
  BY <1>1, Zenon DEF PowerCut

LEMMA SwitchesStep == ASSUME TypeOK, [Next]_vars PROVE Switches'
<1> USE DEF Switches, requestVars, resultVars, historyVars, vars
<1>0. Switches
  BY Zenon DEF TypeOK
<1>1. ASSUME UNCHANGED <<lock, success, status, alone, account, broke, kept>>
      PROVE  Switches'
  BY <1>0, <1>1, Zenon
<1>2. CASE RequestPassword \/ RequestLock
  BY <1>0, <1>2, Zenon DEF RequestPassword, RequestLock
<1>3. ASSUME NEW s \in Script, Start(s) PROVE Switches'
  <2>1. \A t \in Script : (t = s /\ \A u \in Script : ~Running(u)) \in BOOLEAN
    OBVIOUS
  <2>2. UNCHANGED <<lock, success, status, account>> /\ broke' \in BOOLEAN /\ kept' \in BOOLEAN
    BY <1>0, <1>3, Zenon DEF Start
  <2>3. alone' \in [Script -> BOOLEAN]
    BY <1>0, <1>3, <2>1, Zenon DEF Start
  <2> QED
    BY <1>0, <2>2, <2>3, Zenon
<1>4. CASE CancelLock \/ ReadPassword \/ RedirectErrors \/ RedirectFails
  BY <1>0, <1>4, Zenon DEF CancelLock, ReadPassword, RedirectErrors, RedirectFails
<1>5. CASE Chpasswd
  <2>1. UNCHANGED <<lock, success, alone, broke, kept>>
    BY <1>5, Zenon DEF Chpasswd
  <2>2. status' \in [Script -> BOOLEAN]
    BY <1>0, <1>5, Zenon DEF Chpasswd, FirstStatus
  <2>3. account' \in Account
    <3>1. wanted \in Word
      BY Zenon DEF TypeOK
    <3>2. account' = account \/ account' = [hash |-> wanted, locked |-> FALSE]
      BY <1>5, Zenon DEF Chpasswd
    <3>3. [hash |-> wanted, locked |-> FALSE] \in Account
      BY <3>1 DEF Account
    <3> QED
      BY <1>0, <3>2, <3>3, Zenon
  <2> QED
    BY <1>0, <2>1, <2>2, <2>3, Zenon
<1>6. CASE PasswdLock
  <2>1. UNCHANGED <<lock, success, alone, broke, kept>>
    BY <1>6, Zenon DEF PasswdLock
  <2>2. status' \in [Script -> BOOLEAN]
    BY <1>0, <1>6, Zenon DEF PasswdLock, FirstStatus
  <2>3. account' \in Account
    <3>1. PICK ok \in BOOLEAN : account' = [account EXCEPT !.locked = account.locked \/ ok]
      BY <1>6, Zenon DEF PasswdLock
    <3>2. (account.locked \/ ok) \in BOOLEAN
      OBVIOUS
    <3> QED
      BY <1>0, <3>1, <3>2, Zenon DEF Account
  <2> QED
    BY <1>0, <2>1, <2>2, <2>3, Zenon
<1>7. CASE TestLock \/ RemoveLock
  BY <1>0, <1>7, Zenon DEF TestLock, RemoveLock, End
<1>8. ASSUME NEW s \in Script, Result(s) PROVE Switches'
  BY <1>0, <1>8, Zenon
  DEF Result, ResultStep, RemoveError, WriteSuccess, LogSuccess, CheckError, LogError,
      WriteError, RemoveSuccess, End
<1>9. ASSUME NEW s \in Script, Break(s) PROVE Switches'
  <2>1. success' \in BOOLEAN /\ broke' \in BOOLEAN
    BY <1>0, <1>9, Zenon DEF Break
  <2> QED
    BY <1>0, <1>9, <2>1, Zenon DEF Break
<1>10. CASE PowerCut
  BY <1>10, PowerCutFiles, Zenon DEF PowerCut
<1>11. "set" \in Script /\ "lock" \in Script
  BY DEF Script
<1>12. CASE UNCHANGED vars
  BY <1>1, <1>12, Zenon
<1> QED
  BY <1>2, <1>3, <1>4, <1>5, <1>6, <1>7, <1>8, <1>9, <1>10, <1>11, <1>12, Zenon
  DEF Next, Request, SetStep, LockStep

(* What the start of a script does; the history only as far as it is used. *)
LEMMA StartFrame ==
    ASSUME NEW s, Start(s)
    PROVE  /\ s \in jobs /\ ~Running(s) /\ jobs' = jobs \ {s}
           /\ \/ UNCHANGED <<pc, alone, settled, kept>>
              \/ /\ GoTo(s, FirstCommand(s)) /\ settled' = None /\ kept' = FALSE
                 /\ \A t \in Script : alone'[t] => t = s /\ \A u \in Script : ~Running(u)
           /\ UNCHANGED <<requestVars, resultVars, account, status, wanted, requests, cuts>>
BY Zenon DEF Start

(* Where the scripts begin. *)
LEMMA FirstCommands ==
    \A s \in Script : \/ s = "set" /\ FirstCommand(s) = "cancel"
                      \/ s = "lock" /\ FirstCommand(s) = "test"
BY DEF Script, FirstCommand

(* chpasswd: the two ways it may end. *)
LEMMA ChpasswdEnds ==
    ASSUME TypeOK, Chpasswd
    PROVE  /\ pc["set"] = "chpasswd"
           /\ UNCHANGED <<requestVars, success, jobs, wanted, historyVars>>
           /\ \/ /\ status' = [status EXCEPT !["set"] = TRUE] /\ GoTo("set", "rmerror")
                 /\ account' = [hash |-> wanted, locked |-> FALSE] /\ UNCHANGED error
              \/ /\ status' = [status EXCEPT !["set"] = FALSE] /\ GoTo("set", "checkerror")
                 /\ error' \in ErrorFile /\ UNCHANGED account
<1>1. PICK ok \in BOOLEAN :
         /\ status' = [status EXCEPT !["set"] = ok]
         /\ GoTo("set", IF ok THEN "rmerror" ELSE "checkerror")
         /\ IF ok
              THEN /\ account' = [hash |-> wanted, locked |-> FALSE]
                   /\ UNCHANGED error
              ELSE /\ error' \in {error, IF error = "absent" THEN error ELSE "text"}
                   /\ UNCHANGED account
  BY Zenon DEF Chpasswd, FirstStatus, AfterStatus
<1>2. error \in ErrorFile
  BY Zenon DEF TypeOK
<1>3. /\ pc["set"] = "chpasswd"
      /\ UNCHANGED <<requestVars, success, jobs, wanted, historyVars>>
  BY Zenon DEF Chpasswd
<1>4. CASE ok = TRUE
  BY <1>1, <1>3, <1>4, Zenon
<1>5. CASE ok = FALSE
  <2>1. error' \in ErrorFile
    BY <1>1, <1>2, <1>5 DEF ErrorFile
  <2> QED
    BY <1>1, <1>3, <1>5, <2>1, Zenon
<1> QED
  BY <1>1, <1>4, <1>5

(* The other variables, and where the scripts are. *)
Values ==
    /\ password \in Password \cup {NoPassword} /\ wanted \in Word
    /\ error \in ErrorFile
    /\ jobs \subseteq Script
    /\ settled \in [by : Script, ok : BOOLEAN] \cup {None}
    /\ requests \in 0..MaxRequests /\ cuts \in 0..MaxCuts

Places ==
    /\ pc \in [Script -> Label]
    /\ \A s \in Script :
         /\ pc[s] \in {"rmerror", "writesuccess", "logsuccess"} => status[s]
         /\ pc[s] \in {"checkerror", "logerror", "writeerror", "rmsuccess"} => ~status[s]

LEMMA ValuesStep == ASSUME TypeOK, [Next]_vars PROVE Values'
<1>0. Values
  BY Zenon DEF TypeOK, Values
<1> USE <1>0 DEF Values, requestVars, resultVars, historyVars
<1>1. CASE RequestPassword \/ RequestLock
  <2>1. jobs' \subseteq Script
    BY <1>1 DEF RequestPassword, RequestLock, Notices, Script
  <2>2. password' \in Password \cup {NoPassword} /\ requests' \in 0..MaxRequests
    BY <1>1, PasswordAssumption DEF RequestPassword, RequestLock
  <2>3. UNCHANGED <<wanted, error, settled, cuts>>
    BY <1>1 DEF RequestPassword, RequestLock
  <2> QED
    BY <2>1, <2>2, <2>3
<1>2. ASSUME NEW s \in Script, Start(s) PROVE Values'
  BY <1>2, StartFrame
<1>3. CASE CancelLock \/ RedirectErrors \/ RedirectFails
  BY <1>3 DEF CancelLock, RedirectErrors, RedirectFails, ErrorFile
<1>4. CASE ReadPassword
  BY <1>4 DEF ReadPassword, Printed, Word
<1>5. CASE Chpasswd
  BY <1>5, ChpasswdEnds
<1>6. CASE TestLock \/ PasswdLock \/ RemoveLock
  BY <1>6 DEF TestLock, PasswdLock, RemoveLock, End
<1>7. ASSUME NEW s \in Script, Result(s) PROVE Values'
  <2>1. \A ok \in BOOLEAN : [by |-> s, ok |-> ok] \in [by : Script, ok : BOOLEAN]
    OBVIOUS
  <2> QED
    BY <1>7, <2>1 DEF Result, ResultStep, End, RemoveError, WriteSuccess, LogSuccess,
                      CheckError, LogError, WriteError, RemoveSuccess, ErrorFile
<1>8. ASSUME NEW s \in Script, Break(s) PROVE Values'
  BY <1>8 DEF Break, ErrorFile
<1>9. CASE PowerCut
  <2>1. password' \in Password \cup {NoPassword} /\ error' \in ErrorFile
    BY <1>9, PowerCutFiles, Zenon
  <2>2. /\ wanted' = NoPassword /\ jobs' = {} /\ settled' = None
        /\ cuts < MaxCuts /\ cuts' = cuts + 1 /\ requests' = requests
    BY <1>9, Zenon DEF PowerCut
  <2> QED
    BY <2>1, <2>2, PasswordAssumption DEF Word
<1>10. CASE UNCHANGED vars
  BY <1>10 DEF vars
<1>11. "set" \in Script /\ "lock" \in Script
  BY DEF Script
<1> QED
  BY <1>1, <1>2, <1>3, <1>4, <1>5, <1>6, <1>7, <1>8, <1>9, <1>10, <1>11
  DEF Next, Request, SetStep, LockStep

LEMMA VersionsStep == ASSUME TypeOK, [Next]_vars, Switches', Values' PROVE Versions'
<1>1. Versions
  BY Zenon DEF TypeOK, Versions
<1>2. CASE UNCHANGED versions
  BY <1>1, <1>2, Zenon DEF Versions
<1>3. CASE Age /\ ~UNCHANGED versions
  <2>1. /\ versions.password \cup {password'} \in SUBSET (Password \cup {NoPassword})
        /\ versions.lock \cup {lock'} \in SUBSET BOOLEAN
        /\ versions.success \cup {success'} \in SUBSET BOOLEAN
        /\ versions.error \cup {error'} \in SUBSET ErrorFile
        /\ versions.account \cup {account'} \in SUBSET Account
    BY <1>1, Zenon DEF Versions, Switches, Values
  <2>2. versions' = [password |-> versions.password \cup {password'},
                     lock |-> versions.lock \cup {lock'},
                     success |-> versions.success \cup {success'},
                     error |-> versions.error \cup {error'},
                     account |-> versions.account \cup {account'}]
    <3>1. CASE cuts = MaxCuts
      BY <1>3, <3>1 DEF Age
    <3>2. CASE cuts # MaxCuts
      BY <1>3, <3>2, Zenon DEF Age
    <3> QED
      BY <3>1, <3>2, Zenon
  <2> QED
    BY <2>1, <2>2, Zenon DEF Versions
<1>4. CASE PowerCut
  BY <1>4, Zenon DEF PowerCut, Versions, Switches, Values
<1> QED
  BY <1>2, <1>3, <1>4, Zenon DEF Next, vars

LEMMA PlacesStep == ASSUME TypeOK, OwnCommands, [Next]_vars PROVE Places' /\ OwnCommands'
<1>0. Places /\ status \in [Script -> BOOLEAN]
  BY Zenon DEF TypeOK, Places
<1> USE <1>0 DEF Places, OwnCommands, Script, Label, GoTo, historyVars
<1>1. ASSUME UNCHANGED <<pc, status>> PROVE Places' /\ OwnCommands'
  BY <1>1
<1>2. ASSUME NEW s \in Script, Start(s) PROVE Places' /\ OwnCommands'
  <2>1. UNCHANGED status /\ (UNCHANGED pc \/ pc' = [pc EXCEPT ![s] = FirstCommand(s)])
    BY <1>2, StartFrame, Zenon
  <2>2. (s = "set" /\ FirstCommand(s) = "cancel") \/ (s = "lock" /\ FirstCommand(s) = "test")
    BY FirstCommands, Zenon
  <2> QED
    BY <1>1, <2>1, <2>2
<1>3. CASE CancelLock \/ ReadPassword \/ RedirectErrors \/ RedirectFails
  BY <1>3 DEF CancelLock, ReadPassword, RedirectErrors, RedirectFails
<1>4. CASE Chpasswd
  BY <1>4, ChpasswdEnds
<1>5. CASE TestLock \/ PasswdLock \/ RemoveLock
  BY <1>5 DEF TestLock, PasswdLock, RemoveLock, End, FirstStatus, AfterStatus
<1>6. ASSUME NEW s \in Script, Result(s) PROVE Places' /\ OwnCommands'
  BY <1>6 DEF Result, ResultStep, End, RemoveError, WriteSuccess, LogSuccess, CheckError,
              LogError, WriteError, RemoveSuccess
<1>7. ASSUME NEW s \in Script, Break(s) PROVE Places' /\ OwnCommands'
  BY <1>7 DEF Break
<1>8. CASE PowerCut
  BY <1>8 DEF PowerCut
<1>9. RequestPassword \/ RequestLock \/ UNCHANGED vars => UNCHANGED <<pc, status>>
  BY DEF RequestPassword, RequestLock, vars
<1> QED
  BY <1>1, <1>2, <1>3, <1>4, <1>5, <1>6, <1>7, <1>8, <1>9 DEF Next, Request, SetStep, LockStep

LEMMA TypeStep == ASSUME TypeOK, OwnCommands, [Next]_vars PROVE TypeOK'
BY SwitchesStep, ValuesStep, PlacesStep, VersionsStep, Zenon
DEF TypeOK, Switches, Values, Places, Versions

-----------------------------------------------------------------------------
(* The result files. *)

LEMMA ResultsStep == ASSUME IInv, [Next]_vars PROVE Results'
<1>0. TypeOK' /\ OwnCommands'
  BY TypeStep, PlacesStep DEF IInv, Results
<1> DEFINE R == AloneIsAlone /\ SettledMeansIdle /\ AloneProgress /\ ResultIsHonest
<1> USE DEF IInv, Results, OwnCommands, AloneIsAlone, SettledMeansIdle, AloneProgress,
        ResultIsHonest, Obeyed, Running, Script, GoTo, requestVars, resultVars, historyVars
<1>1. CASE RequestPassword \/ RequestLock \/ UNCHANGED vars
  BY <1>1 DEF RequestPassword, RequestLock, vars
<1>2. ASSUME NEW s \in Script, Start(s) PROVE R'
  <2>1. UNCHANGED <<lock, success, error, account, status, wanted>> /\ ~Running(s)
    BY <1>2, StartFrame, Zenon
  <2>2. CASE UNCHANGED <<pc, alone, settled, kept>>
    BY <2>1, <2>2
  <2>3. CASE /\ pc' = [pc EXCEPT ![s] = FirstCommand(s)] /\ settled' = None
             /\ \A t \in Script : alone'[t] => t = s /\ \A u \in Script : ~Running(u)
    <3>1. (s = "set" /\ FirstCommand(s) = "cancel") \/ (s = "lock" /\ FirstCommand(s) = "test")
      BY FirstCommands, Zenon
    <3> QED
      BY <2>1, <2>3, <3>1 DEF TypeOK
  <2>4. \/ UNCHANGED <<pc, alone, settled, kept>>
        \/ /\ pc' = [pc EXCEPT ![s] = FirstCommand(s)] /\ settled' = None
           /\ \A t \in Script : alone'[t] => t = s /\ \A u \in Script : ~Running(u)
    BY <1>2, StartFrame, Zenon
  <2> HIDE DEF R
  <2> QED
    BY <2>2, <2>3, <2>4, Zenon
<1>3. CASE CancelLock \/ ReadPassword \/ RedirectErrors \/ RedirectFails
  BY <1>3 DEF CancelLock, ReadPassword, RedirectErrors, RedirectFails, TypeOK
<1>4. CASE Chpasswd
  BY <1>4, ChpasswdEnds DEF TypeOK
<1>5. CASE TestLock
  BY <1>5 DEF TestLock, End, TypeOK
<1>6. CASE PasswdLock
  BY <1>6 DEF PasswdLock, FirstStatus, TypeOK
<1>7. CASE RemoveLock
  BY <1>7 DEF RemoveLock, AfterStatus, TypeOK
<1>8. ASSUME NEW s \in Script, CheckError(s) \/ LogError(s) \/ WriteError(s) PROVE R'
  BY <1>8 DEF CheckError, LogError, WriteError, ResultStep, TypeOK
<1>9. ASSUME NEW s \in Script, RemoveError(s) PROVE R'
  BY <1>9 DEF RemoveError, ResultStep, TypeOK
<1>10. ASSUME NEW s \in Script, WriteSuccess(s) PROVE R'
  BY <1>10 DEF WriteSuccess, ResultStep, TypeOK
<1>11. ASSUME NEW s \in Script, LogSuccess(s) PROVE R'
  BY <1>11 DEF LogSuccess, ResultStep, End, TypeOK
<1>12. ASSUME NEW s \in Script, RemoveSuccess(s) PROVE R'
  BY <1>12 DEF RemoveSuccess, ResultStep, End, TypeOK
<1>13. ASSUME NEW s \in Script, Break(s) PROVE R'
  BY <1>13 DEF Break, TypeOK
<1>14. CASE PowerCut
  BY <1>14 DEF PowerCut, TypeOK
<1>15. R'
  BY <1>1, <1>2, <1>3, <1>4, <1>5, <1>6, <1>7, <1>8, <1>9, <1>10, <1>11, <1>12, <1>13, <1>14
  DEF Next, Request, SetStep, LockStep, Result
<1> QED
  BY <1>0, <1>15 DEF Results

LEMMA Invariant == Spec => []IInv
<1>1. Init => IInv
  <2> SUFFICES ASSUME Init PROVE IInv
    OBVIOUS
  <2>1. TypeOK
    BY TypeInit
  <2> QED
    BY <2>1 DEF IInv, Init, Results, OwnCommands, AloneIsAlone, SettledMeansIdle,
                AloneProgress, ResultIsHonest, Running, Script
<1>2. IInv /\ [Next]_vars => IInv'
  BY TypeStep, ResultsStep DEF IInv, Results
<1> QED
  BY <1>1, <1>2, PTL DEF Spec

-----------------------------------------------------------------------------

(***************************************************************************)
(* Every variable keeps its type, and a script reports what the status of  *)
(* its command was.                                                        *)
(***************************************************************************)
THEOREM TypeCorrect == Spec => []TypeOK
<1>1. IInv => TypeOK
  BY DEF IInv
<1> QED
  BY <1>1, Invariant, PTL

(***************************************************************************)
(* After a run that no other one overlapped and set -e has not ended the   *)
(* right result file is there, and the other one only if its rm failed,    *)
(* whatever runs before it and power cuts have left in the files.  Success *)
(* stands for an account that is locked, or has the word awk has printed.  *)
(***************************************************************************)
THEOREM LoneRunsReportTruly == Spec => []ResultIsHonest
<1>1. IInv => ResultIsHonest
  BY DEF IInv, Results
<1> QED
  BY <1>1, Invariant, PTL

=============================================================================
