---------------------------- MODULE RabbitProofs ----------------------------
(***************************************************************************)
(* Proofs about RabbitmqManager for any number of applications, processes, *)
(* runs and attempts: the type invariant, that a stored url had its        *)
(* password taken unless the broker refused it, and that a run which       *)
(* nobody disturbs or refuses leaves an account in working order.          *)
(***************************************************************************)
EXTENDS RabbitmqManager, TLAPS

(* The create run has been told that the user is there. *)
UserDone == Create \ {"put_user"}

(* The password a create run has drawn. *)
HasPassword == \A p \in Proc : pc[p] \in Create => password[p] # 0

(* ... and, from the second request on, the broker has taken or refused it. *)
WasAccepted ==
    \A p \in Proc : pc[p] \in UserDone =>
        password[p] \in accepted[app[p]] \/ <<password[p], "put_user">> \in refused

(* The broker has refused no request of the run. *)
Heard(p) == \A step \in Create : <<password[p], step>> \notin refused

(* A run that finds another one at work on its application knows it later. *)
OverlapIsNoticed ==
    \A p, q \in Proc : p # q /\ Busy(p, app[p]) /\ Busy(q, app[p]) => overlap[p]

(* How far the account is that an undisturbed create run is making. *)
AccountGrows ==
    \A p \in Proc : ~overlap[p] /\ Heard(p) =>
        /\ pc[p] \in UserDone => users[app[p]] = password[p]
        /\ pc[p] \in {"put_perms", "set"} => app[p] \in vhosts
        /\ pc[p] = "set" => app[p] \in perms

(* The shape of the runs, and how far they are. *)
Basics == TypeOK /\ HasPassword /\ OverlapIsNoticed

Progress == WasAccepted /\ UrlWasAccepted /\ AccountGrows

IInv == Basics /\ Progress

-----------------------------------------------------------------------------
(* Types. *)

LEMMA FollowsType ==
    ASSUME NEW step \in Rabbit \ {"list"}
    PROVE  /\ Follows(step) \in Create \union Delete
           /\ step \in Delete => Follows(step) \in Delete
BY DEF Rabbit, Create, Delete, Follows

LEMMA FollowsCreate == /\ Follows("put_user") = "put_vhost"
                       /\ Follows("put_vhost") = "put_perms"
                       /\ Follows("put_perms") = "set"
BY Zenon DEF Follows

LEMMA TypeInit == ASSUME Init PROVE TypeOK
<1>1. con \in [Proc -> BOOLEAN] /\ overlap \in [Proc -> BOOLEAN]
  BY Zenon DEF Init
<1> QED
  BY <1>1, RabbitAssumption DEF Init, TypeOK, Password

(* What the begin of a run does, but for the history. *)
LEMMA BeginFrame ==
    ASSUME NEW p, NEW a, NEW step, Begin(p, a, step)
    PROVE  /\ pc[p] = "idle"
           /\ pc' = [pc EXCEPT ![p] = step] /\ app' = [app EXCEPT ![p] = a]
           /\ UNCHANGED <<broker, accountVars, urls, con, attempts, outages>>
           /\ \A q \in Proc \ {p} : overlap[q] => overlap'[q]
BY Zenon DEF Begin

(* What a request does when it is carried out, request by request. *)
LEMMA CarriedOut ==
    ASSUME NEW step \in Rabbit \ {"list"}, NEW a, NEW pw, CarryOut(step, a, pw)
    PROVE  /\ UNCHANGED refused
           /\ \/ /\ step = "put_user"
                 /\ users' = [users EXCEPT ![a] = pw]
                 /\ accepted' = [accepted EXCEPT ![a] = accepted[a] \union {pw}]
                 /\ UNCHANGED <<vhosts, perms>>
              \/ /\ step = "put_vhost"
                 /\ vhosts' = vhosts \union {a}
                 /\ UNCHANGED <<users, perms, accepted>>
              \/ /\ step = "put_perms"
                 /\ perms' = IF users[a] # 0 /\ a \in vhosts THEN perms \union {a} ELSE perms
                 /\ UNCHANGED <<users, vhosts, accepted>>
              \/ /\ step = "delete_vhost"
                 /\ vhosts' = vhosts \ {a} /\ perms' = perms \ {a}
                 /\ UNCHANGED <<users, accepted>>
              \/ /\ step = "delete_user"
                 /\ users' = [users EXCEPT ![a] = 0] /\ perms' = perms \ {a}
                 /\ UNCHANGED <<vhosts, accepted>>
<1>1. step \in {"put_user", "put_vhost", "put_perms", "delete_vhost", "delete_user"}
  BY DEF Rabbit, Create, Delete
<1>2. CASE step = "put_user"
  BY <1>2, Zenon DEF CarryOut
<1>3. CASE step = "put_vhost"
  BY <1>3, Zenon DEF CarryOut
<1>4. CASE step = "put_perms"
  BY <1>4, Zenon DEF CarryOut
<1>5. CASE step = "delete_vhost"
  BY <1>5, Zenon DEF CarryOut
<1>6. CASE step = "delete_user"
  BY <1>6, Zenon DEF CarryOut
<1> QED
  BY <1>1, <1>2, <1>3, <1>4, <1>5, <1>6, Zenon

(* What the broker's refusal adds to the history. *)
LEMMA RefuseAdds ==
    ASSUME TypeOK, NEW p \in Proc, Refuse(p)
    PROVE  /\ refused \subseteq refused'
           /\ refused' \subseteq refused \union ({password[p]} \X {pc[p]})
           /\ pc[p] \in Create => <<password[p], pc[p]>> \in refused'
           /\ UNCHANGED <<users, vhosts, perms, accepted>>
BY DEF Refuse

(* The variables that are true or false, per process. *)
Switches == con \in [Proc -> BOOLEAN] /\ overlap \in [Proc -> BOOLEAN]

LEMMA SwitchesStep == ASSUME TypeOK, [Next]_vars PROVE Switches'
<1> USE DEF Switches, End, Goto, procVars, vars
<1>0. Switches
  BY Zenon DEF TypeOK
<1>1. ASSUME NEW p \in Proc, End(p) PROVE Switches'
  BY <1>0, <1>1, Zenon
<1>2. ASSUME NEW p \in Proc, NEW a \in App, NEW step, Begin(p, a, step) PROVE Switches'
  <2>1. \A q \in Proc : (\E o \in Proc \ {p} : Busy(o, a)) \in BOOLEAN
                       /\ (overlap[q] \/ Busy(q, a)) \in BOOLEAN
    OBVIOUS
  <2> QED
    BY <1>0, <1>2, <2>1, Zenon DEF Begin
<1>3. ASSUME NEW p \in Proc, Connected(p) PROVE Switches'
  BY <1>0, <1>3, Zenon DEF Connected
<1>4. ASSUME UNCHANGED <<con, overlap>> PROVE Switches'
  BY <1>0, <1>4, Zenon
<1>5. ASSUME NEW p \in Proc, RequestError(p) PROVE Switches'
  BY <1>1, <1>4, <1>5, Zenon DEF RequestError
<1>6. ASSUME NEW p \in Proc,
             BeginList(p) \/ ConnectFails(p) \/ Request(p)
      PROVE Switches'
  BY <1>4, <1>6, Zenon DEF BeginList, ConnectFails, Request
<1>7. ASSUME NEW p \in Proc,
             \/ List(p) \/ NoContainer(p) \/ ConnectSucceeds(p) \/ GiveUp(p)
             \/ RequestFails(p) \/ Store(p) \/ StoreFails(p) \/ Kill(p)
      PROVE Switches'
  BY <1>1, <1>3, <1>5, <1>7, Zenon
  DEF List, NoContainer, ConnectSucceeds, GiveUp, RequestFails, Store, StoreFails, Kill
<1>8. ASSUME NEW p \in Proc, NEW a \in App, BeginCreate(p, a) \/ BeginDelete(p, a)
      PROVE Switches'
  BY <1>2, <1>8, Zenon DEF BeginCreate, BeginDelete
<1>9. BrokerChanges \/ UNCHANGED vars => UNCHANGED <<con, overlap>>
  BY Zenon DEF BrokerChanges
<1> QED
  BY <1>4, <1>6, <1>7, <1>8, <1>9, Zenon DEF Next

LEMMA TypeStep == ASSUME TypeOK, HasPassword, [Next]_vars PROVE TypeOK'
<1>0. Switches'
  BY SwitchesStep
<1> USE <1>0, RabbitAssumption
    DEF TypeOK, Switches, Password, Create, Delete, Goto, End, accountVars, procVars
<1>1. ASSUME NEW p \in Proc, NEW a \in App, BeginCreate(p, a) PROVE TypeOK'
  BY <1>1, BeginFrame DEF BeginCreate
<1>2. ASSUME NEW p \in Proc, NEW a \in App, BeginDelete(p, a) PROVE TypeOK'
  BY <1>2, BeginFrame DEF BeginDelete
<1>3. ASSUME NEW p \in Proc, BeginList(p) \/ List(p) PROVE TypeOK'
  BY <1>3 DEF BeginList, List
<1>4. ASSUME NEW p \in Proc, ConnectSucceeds(p) \/ ConnectFails(p) \/ GiveUp(p)
      PROVE TypeOK'
  BY <1>4 DEF ConnectSucceeds, ConnectFails, GiveUp, Connected, Connecting
<1>5. ASSUME NEW p \in Proc, NoContainer(p) PROVE TypeOK'
  BY <1>5, FollowsType DEF NoContainer, Connecting, RequestError, Rabbit
<1>6. ASSUME NEW p \in Proc, Request(p) PROVE TypeOK'
  <2>1. CASE CarryOut(pc[p], app[p], password[p])
    BY <1>6, <2>1, FollowsType, CarriedOut DEF Request, Rabbit, HasPassword
  <2>2. CASE Refuse(p)
    <3>1. refused' \subseteq Password \X Create
      BY <2>2 DEF Refuse, HasPassword
    <3> QED
      BY <1>6, <2>2, <3>1, FollowsType DEF Request, Refuse, Rabbit
  <2> QED
    BY <1>6, <2>1, <2>2 DEF Request
<1>7. ASSUME NEW p \in Proc, RequestFails(p) PROVE TypeOK'
  BY <1>7, FollowsType, CarriedOut DEF RequestFails, RequestError, Rabbit, HasPassword
<1>8. ASSUME NEW p \in Proc, Store(p) \/ StoreFails(p) \/ Kill(p) PROVE TypeOK'
  BY <1>8 DEF Store, StoreFails, Kill, NewUrl
<1>9. CASE BrokerChanges \/ UNCHANGED vars
  BY <1>9 DEF BrokerChanges, vars
<1> QED
  BY <1>1, <1>2, <1>3, <1>4, <1>5, <1>6, <1>7, <1>8, <1>9 DEF Next

LEMMA PasswordStep == ASSUME TypeOK, HasPassword, [Next]_vars PROVE HasPassword'
<1> USE RabbitAssumption
    DEF TypeOK, HasPassword, Password, Create, Delete, Goto, End, procVars
<1>1. ASSUME NEW p \in Proc, NEW a \in App, BeginCreate(p, a) \/ BeginDelete(p, a)
      PROVE HasPassword'
  BY <1>1, BeginFrame DEF BeginCreate, BeginDelete
<1>2. ASSUME NEW p \in Proc, pc[p] \in Rabbit,
             (Goto(p, Follows(pc[p])) /\ pc[p] # "list") \/ RequestError(p)
      PROVE HasPassword'
  BY <1>2, FollowsType DEF RequestError, Rabbit
<1>3. ASSUME NEW p \in Proc, NoContainer(p) \/ Request(p) \/ RequestFails(p)
      PROVE HasPassword'
  BY <1>2, <1>3 DEF NoContainer, Connecting, Request, RequestFails
<1>4. ASSUME NEW p \in Proc, BeginList(p) \/ List(p) \/ Store(p) \/ StoreFails(p) \/ Kill(p)
      PROVE HasPassword'
  BY <1>4 DEF BeginList, List, Store, StoreFails, Kill
<1>5. ASSUME NEW p \in Proc, ConnectSucceeds(p) \/ ConnectFails(p) \/ GiveUp(p)
      PROVE HasPassword'
  BY <1>5 DEF ConnectSucceeds, ConnectFails, GiveUp, Connected
<1>6. CASE BrokerChanges \/ UNCHANGED vars
  BY <1>6 DEF BrokerChanges, vars
<1> QED
  BY <1>1, <1>3, <1>4, <1>5, <1>6 DEF Next

-----------------------------------------------------------------------------
(* Runs that overlap. *)

LEMMA OverlapStep == ASSUME TypeOK, OverlapIsNoticed, [Next]_vars PROVE OverlapIsNoticed'
<1> USE DEF OverlapIsNoticed, Busy, TypeOK
<1>1. ASSUME NEW r \in Proc, NEW a \in App, NEW step, Begin(r, a, step)
      PROVE  OverlapIsNoticed'
  <2> SUFFICES ASSUME NEW p \in Proc, NEW q \in Proc, p # q,
                      Busy(p, app[p])', Busy(q, app[p])'
               PROVE  overlap'[p]
    BY Zenon
  <2>1. CASE p = r
    <3>1. Busy(q, a)
      BY <1>1, <2>1, BeginFrame
    <3> QED
      BY <1>1, <2>1, <3>1, Zenon DEF Begin
  <2>2. CASE q = r
    <3>1. Busy(p, a)
      BY <1>1, <2>2, BeginFrame
    <3> QED
      BY <1>1, <2>2, <3>1, Zenon DEF Begin
  <2>3. CASE p # r /\ q # r
    <3>1. Busy(p, app[p]) /\ Busy(q, app[p])
      BY <1>1, <2>3, BeginFrame
    <3>2. overlap[p]
      BY <3>1, Zenon
    <3> QED
      BY <1>1, <2>3, <3>2, Zenon DEF Begin
  <2> QED
    BY <2>1, <2>2, <2>3
<1>2. ASSUME NEW r \in Proc, NEW step \in Create \union Delete, Busy(r, app[r]), Goto(r, step)
      PROVE  OverlapIsNoticed'
  BY <1>2 DEF Goto, Create, Delete
<1>3. ASSUME NEW r \in Proc, End(r) PROVE OverlapIsNoticed'
  BY <1>3 DEF End, Create, Delete
<1>4. ASSUME UNCHANGED <<pc, app, overlap>> PROVE OverlapIsNoticed'
  BY <1>4
<1>5. ASSUME NEW r \in Proc, BeginList(r) PROVE OverlapIsNoticed'
  BY <1>5 DEF BeginList, Create, Delete
<1>6. ASSUME NEW r \in Proc, NEW a \in App, BeginCreate(r, a) \/ BeginDelete(r, a)
      PROVE OverlapIsNoticed'
  BY <1>1, <1>6, Zenon DEF BeginCreate, BeginDelete
<1>7. ASSUME NEW r \in Proc, pc[r] \in Rabbit, RequestError(r)
      PROVE OverlapIsNoticed'
  <2>1. CASE pc[r] \in Delete
    BY <1>2, <1>7, <2>1, FollowsType DEF RequestError, Delete
  <2>2. CASE pc[r] \notin Delete
    BY <1>3, <1>7, <2>2 DEF RequestError
  <2> QED
    BY <2>1, <2>2
<1>8. ASSUME NEW r \in Proc, NoContainer(r) \/ RequestFails(r)
      PROVE OverlapIsNoticed'
  BY <1>7, <1>8 DEF NoContainer, Connecting, RequestFails
<1>9. ASSUME NEW r \in Proc, Request(r) PROVE OverlapIsNoticed'
  BY <1>2, <1>9, FollowsType DEF Request, Rabbit, Create, Delete
<1>10. ASSUME NEW r \in Proc, List(r) \/ Store(r) \/ StoreFails(r) \/ Kill(r)
      PROVE OverlapIsNoticed'
  BY <1>3, <1>10 DEF List, Store, StoreFails, Kill
<1>11. ASSUME NEW r \in Proc, ConnectSucceeds(r) \/ ConnectFails(r) \/ GiveUp(r)
      PROVE OverlapIsNoticed'
  BY <1>4, <1>11 DEF ConnectSucceeds, ConnectFails, GiveUp, Connected
<1>12. CASE BrokerChanges \/ UNCHANGED vars
  BY <1>4, <1>12 DEF BrokerChanges, procVars, vars
<1> QED
  BY <1>5, <1>6, <1>8, <1>9, <1>10, <1>11, <1>12 DEF Next

-----------------------------------------------------------------------------
(* The account and the url. *)

(* A request once refused remains in the history. *)
LEMMA RefusedGrows ==
    ASSUME TypeOK, [Next]_vars
    PROVE  /\ refused \subseteq refused'
           /\ \A p \in Proc : Heard(p)' /\ password'[p] = password[p] => Heard(p)
<1>1. refused \subseteq refused'
  <2> USE DEF accountVars
  <2>1. ASSUME NEW p \in Proc, NEW a \in App, BeginCreate(p, a) \/ BeginDelete(p, a)
        PROVE  UNCHANGED refused
    BY <2>1, BeginFrame DEF BeginCreate, BeginDelete
  <2>2. ASSUME NEW p \in Proc,
               \/ BeginList(p) \/ List(p) \/ NoContainer(p) \/ ConnectSucceeds(p)
               \/ ConnectFails(p) \/ GiveUp(p) \/ Store(p) \/ StoreFails(p) \/ Kill(p)
        PROVE  UNCHANGED refused
    BY <2>2 DEF BeginList, List, NoContainer, ConnectSucceeds, ConnectFails, GiveUp,
                Connected, Store, StoreFails, Kill
  <2>3. ASSUME NEW p \in Proc, Request(p) \/ RequestFails(p) PROVE refused \subseteq refused'
    BY <2>3, CarriedOut, RefuseAdds DEF Request, RequestFails
  <2>4. BrokerChanges \/ UNCHANGED vars => UNCHANGED refused
    BY DEF BrokerChanges, vars
  <2> QED
    BY <2>1, <2>2, <2>3, <2>4 DEF Next
<1> QED
  BY <1>1 DEF Heard

(***************************************************************************)
(* A create run, step by step.                                             *)
(***************************************************************************)
LEMMA ProgressStep == ASSUME IInv, [Next]_vars PROVE Progress'
<1> USE RabbitAssumption
    DEF IInv, Basics, TypeOK, Password, HasPassword, Progress, WasAccepted,
        UrlWasAccepted, AccountGrows, UserDone, Create, Delete, Rabbit, Goto, End,
        accountVars, procVars
<1>0. /\ refused \subseteq refused'
      /\ \A p \in Proc : Heard(p)' /\ password'[p] = password[p] => Heard(p)
  BY RefusedGrows
<1>1. ASSUME NEW p \in Proc, NEW a \in App, BeginCreate(p, a) PROVE Progress'
  BY <1>0, <1>1, BeginFrame DEF BeginCreate
<1>2. ASSUME NEW p \in Proc, NEW a \in App, BeginDelete(p, a) PROVE Progress'
  BY <1>0, <1>2, BeginFrame DEF BeginDelete
<1>3. ASSUME NEW p \in Proc, BeginList(p) \/ List(p) PROVE Progress'
  BY <1>0, <1>3 DEF BeginList, List
<1>4. ASSUME NEW p \in Proc, ConnectSucceeds(p) \/ ConnectFails(p) \/ GiveUp(p)
      PROVE Progress'
  BY <1>0, <1>4 DEF ConnectSucceeds, ConnectFails, GiveUp, Connected, Connecting
<1>5. ASSUME NEW p \in Proc, NoContainer(p) PROVE Progress'
  BY <1>0, <1>5, FollowsType DEF NoContainer, Connecting, RequestError
<1>6. ASSUME NEW p \in Proc, pc[p] \in Rabbit \ {"list"},
             CarryOut(pc[p], app[p], password[p]), UNCHANGED urls,
             Goto(p, Follows(pc[p])) \/ RequestError(p)
      PROVE Progress'
  <2> USE FollowsCreate DEF OverlapIsNoticed, Busy, RequestError
  <2>1. CASE pc[p] = "put_user"
    BY <1>0, <1>6, <2>1, CarriedOut
  <2>2. CASE pc[p] = "put_vhost"
    BY <1>0, <1>6, <2>2, CarriedOut
  <2>3. CASE pc[p] = "put_perms"
    BY <1>0, <1>6, <2>3, CarriedOut
  <2>4. CASE pc[p] \in {"delete_vhost", "delete_user"}
    BY <1>0, <1>6, <2>4, CarriedOut, FollowsType
  <2> QED
    BY <1>0, <1>6, <2>1, <2>2, <2>3, <2>4
<1>7. ASSUME NEW p \in Proc, pc[p] \in Rabbit \ {"list"}, Refuse(p), UNCHANGED urls,
             Goto(p, Follows(pc[p]))
      PROVE Progress'
  <2>1. pc[p] \in Delete \/ pc[p] \in {"put_user", "put_vhost", "put_perms"}
    BY <1>7
  <2>2. pc[p] = "put_user" => Follows(pc[p]) = "put_vhost"
    BY FollowsCreate
  <2>3. pc[p] \in Create => <<password[p], pc[p]>> \in refused'
    BY <1>7, RefuseAdds
  <2>4. pc[p] \in Create => ~Heard(p)'
    BY <1>7, <2>3 DEF Heard
  <2> QED
    BY <1>0, <1>7, <2>1, <2>2, <2>3, <2>4, FollowsType, FollowsCreate, RefuseAdds
<1>10. ASSUME NEW p \in Proc, Request(p) \/ RequestFails(p) PROVE Progress'
  <2>1. CASE Request(p)
    BY <1>6, <1>7, <2>1, FollowsType DEF Request
  <2>2. CASE RequestFails(p)
    BY <1>0, <1>6, <2>2, FollowsType DEF RequestFails, RequestError
  <2> QED
    BY <1>10, <2>1, <2>2
<1>8. ASSUME NEW p \in Proc, Store(p) \/ StoreFails(p) \/ Kill(p) PROVE Progress'
  BY <1>0, <1>8 DEF Store, StoreFails, Kill, NewUrl
<1>9. CASE BrokerChanges \/ UNCHANGED vars
  BY <1>0, <1>9 DEF BrokerChanges, vars
<1> QED
  BY <1>1, <1>2, <1>3, <1>4, <1>5, <1>8, <1>9, <1>10 DEF Next

LEMMA BasicInvariant == Spec => []Basics
<1>1. Init => Basics
  BY TypeInit DEF Init, Basics, HasPassword, OverlapIsNoticed, Busy, Create, Delete
<1>2. Basics /\ [Next]_vars => Basics'
  BY TypeStep, PasswordStep, OverlapStep DEF Basics
<1> QED
  BY <1>1, <1>2, PTL DEF Spec

LEMMA Invariant == Spec => []IInv
<1>1. Init => Basics /\ Progress
  BY TypeInit
  DEF Init, Basics, HasPassword, OverlapIsNoticed, Busy, Create, Delete, Progress,
      WasAccepted, UrlWasAccepted, AccountGrows, UserDone
<1>2. Basics /\ Progress /\ [Next]_vars => Progress'
  BY ProgressStep DEF IInv
<1>3. Basics /\ Progress => IInv
  BY DEF IInv
<1> QED
  BY <1>1, <1>2, <1>3, BasicInvariant, PTL DEF Spec

-----------------------------------------------------------------------------

(***************************************************************************)
(* Every variable of the broker, the store and the runs keeps its type.    *)
(***************************************************************************)
THEOREM TypeCorrect == Spec => []TypeOK
<1>1. Basics => TypeOK
  BY DEF Basics
<1> QED
  BY <1>1, BasicInvariant, PTL

(***************************************************************************)
(* createSettings stores the url last and panics on the first error: for   *)
(* any number of runs side by side the url of an application has a         *)
(* password the broker took for its user, or one that it refused with a    *)
(* status the tool does not look at (rabbit_status shows such a run).      *)
(***************************************************************************)
THEOREM StoredUrlWasAccepted == Spec => []UrlWasAccepted
<1>1. IInv => UrlWasAccepted
  BY DEF IInv, Progress
<1> QED
  BY <1>1, Invariant, PTL

(***************************************************************************)
(* A -create that prints DONE, that no other run on its application        *)
(* overlapped and of which the broker refused no request by a status,      *)
(* leaves a user, a vhost and permissions that its url opens, whatever     *)
(* runs before it have left behind half done.                              *)
(***************************************************************************)
THEOREM CreateRepairs == Spec => CreateLeavesUsableAccount
<1>1. IInv /\ [Next]_vars =>
        [\A p \in Proc :
           (/\ pc[p] = "set" /\ ~overlap[p] /\ Store(p)
            /\ \A step \in Create : <<password[p], step>> \notin refused)
             => Usable(app[p], urls'[app[p]])]_vars
  <2> SUFFICES ASSUME IInv, NEW p \in Proc, pc[p] = "set", ~overlap[p], Store(p), Heard(p)
               PROVE  Usable(app[p], urls'[app[p]])
    BY DEF Heard
  <2>1. urls'[app[p]] = password[p]
    BY DEF Store, NewUrl, IInv, Basics, TypeOK
  <2> QED
    BY <2>1 DEF IInv, Progress, AccountGrows, UserDone, Create, Usable
<1> QED
  BY <1>1, Invariant, PTL DEF Spec, CreateLeavesUsableAccount

=============================================================================
