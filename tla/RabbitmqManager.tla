-------------------------- MODULE RabbitmqManager --------------------------
(***************************************************************************)
(* rabbitmq-manager: gives an application its account at the message       *)
(* broker (go/rabbitmq-manager).  soul-prepare.service runs it with        *)
(* "-create german-shepherd" whenever it starts; the application's         *)
(* services read the url it stores in the key-value store.                 *)
(*                                                                         *)
(* A run is a sequence of requests to the broker's management interface    *)
(* and to the key-value store.  It may fail, be killed or lose an answer   *)
(* between any two of them, and runs may overlap: KillMode=none lets an    *)
(* old one live on when its service is started again.                      *)
(***************************************************************************)
EXTENDS Naturals, FiniteSets

CONSTANTS
    App,          \* applications; also names of their user and vhost
    Proc,         \* rabbitmq-manager processes
    MaxAttempts,  \* m in connect, 200 in the code
    MaxCreates,   \* bound: -create runs
    MaxDeletes,   \* bound: -delete runs
    MaxOutages    \* bound: changes of state of the broker's container

ASSUME RabbitAssumption ==
    /\ MaxAttempts \in Nat /\ MaxCreates \in Nat /\ MaxDeletes \in Nat
    /\ MaxOutages \in Nat

VARIABLES
    broker,       \* state of the rabbitmq container
    users,        \* [App -> password at the broker; 0: no such user]
    vhosts,       \* virtual hosts
    perms,        \* users with permissions in the vhost of their name
    urls,         \* [App -> password in SKVS app/<name>/rabbitmq; 0: no such key]
    pc,           \* next request of each process; "idle": no process
    app,          \* its argument
    con,          \* rec.con # nil
    attempts,     \* i in connect
    password,     \* createUser's password
    creates, deletes, outages,
    \* history
    accepted,     \* [App -> passwords the broker has taken for the user]
    refused,      \* <<password, request>> of create runs that a broker not yet
                  \* running has answered with an error status
    overlap       \* [Proc -> another run worked on its application meanwhile]

accountVars == <<users, vhosts, perms, accepted, refused>>
procVars    == <<pc, app, con, attempts, password, overlap>>
vars == <<broker, accountVars, urls, procVars, creates, deletes, outages>>

Password == 1..MaxCreates

Create == {"put_user", "put_vhost", "put_perms", "set"}
Delete == {"delete_vhost", "delete_user", "unset"}
Rabbit == {"list"} \union ((Create \union Delete) \ {"set", "unset"})

TypeOK ==
    /\ broker \in {"absent", "listening", "running"}
    /\ users \in [App -> Password \union {0}]
    /\ vhosts \subseteq App
    /\ perms \subseteq App
    /\ urls \in [App -> Password \union {0}]
    /\ pc \in [Proc -> Create \union Delete \union {"list", "idle"}]
    /\ app \in [Proc -> App]
    /\ con \in [Proc -> BOOLEAN]
    /\ attempts \in [Proc -> 0..MaxAttempts]
    /\ password \in [Proc -> Password \union {0}]
    /\ creates \in 0..MaxCreates /\ deletes \in 0..MaxDeletes
    /\ outages \in 0..MaxOutages
    /\ accepted \in [App -> SUBSET Password]
    /\ refused \subseteq Password \X Create
    /\ overlap \in [Proc -> BOOLEAN]

Init ==
    /\ broker = "absent"
    /\ users = [a \in App |-> 0] /\ vhosts = {} /\ perms = {}
    /\ urls = [a \in App |-> 0]
    /\ pc = [p \in Proc |-> "idle"]
    /\ app \in [Proc -> App]
    /\ con = [p \in Proc |-> FALSE]
    /\ attempts = [p \in Proc |-> 0]
    /\ password = [p \in Proc |-> 0]
    /\ creates = 0 /\ deletes = 0 /\ outages = 0
    /\ accepted = [a \in App |-> {}]
    /\ refused = {}
    /\ overlap = [p \in Proc |-> FALSE]

-----------------------------------------------------------------------------
(* Processes. *)

Busy(p, a) == pc[p] \in Create \union Delete /\ app[p] = a

Begin(p, a, step) ==
    /\ pc[p] = "idle"
    /\ pc' = [pc EXCEPT ![p] = step]
    /\ app' = [app EXCEPT ![p] = a]
    /\ overlap' = [q \in Proc |-> IF q = p THEN \E o \in Proc \ {p} : Busy(o, a)
                                  ELSE overlap[q] \/ Busy(q, a)]
    /\ UNCHANGED <<broker, accountVars, urls, con, attempts, outages>>

BeginCreate(p, a) ==
    /\ creates < MaxCreates
    /\ creates' = creates + 1
    /\ password' = [password EXCEPT ![p] = creates + 1]
    /\ Begin(p, a, "put_user")
    /\ UNCHANGED deletes

BeginDelete(p, a) ==
    /\ deletes < MaxDeletes
    /\ deletes' = deletes + 1
    /\ Begin(p, a, "delete_vhost")
    /\ UNCHANGED <<password, creates>>

BeginList(p) ==
    /\ pc[p] = "idle"
    /\ pc' = [pc EXCEPT ![p] = "list"]
    /\ UNCHANGED <<broker, accountVars, urls, app, con, attempts, password, overlap,
                   creates, deletes, outages>>

Goto(p, step) ==
    /\ pc' = [pc EXCEPT ![p] = step]
    /\ UNCHANGED <<app, con, attempts, password, overlap>>

(* The process is gone: its output is all that tells how it ended. *)
End(p) ==
    /\ pc' = [pc EXCEPT ![p] = "idle"]
    /\ con' = [con EXCEPT ![p] = FALSE]
    /\ attempts' = [attempts EXCEPT ![p] = 0]
    /\ password' = [password EXCEPT ![p] = 0]
    /\ overlap' = [overlap EXCEPT ![p] = FALSE]
    /\ UNCHANGED app

(* A wrong variant: the permissions before the vhost. *)
FollowsPermsFirst(step) ==
    CASE step = "put_user"     -> "put_perms"
      [] step = "put_perms"    -> "put_vhost"
      [] step = "put_vhost"    -> "set"
      [] step = "delete_vhost" -> "delete_user"
      [] step = "delete_user"  -> "unset"

Follows(step) ==
    CASE step = "put_user"     -> "put_vhost"
      [] step = "put_vhost"    -> "put_perms"
      [] step = "put_perms"    -> "set"
      [] step = "delete_vhost" -> "delete_user"
      [] step = "delete_user"  -> "unset"

(* A wrong variant: errors of createSettings are only printed, too. *)
RequestErrorPrinted(p) == IF pc[p] = "list" THEN End(p) ELSE Goto(p, Follows(pc[p]))

(* An error is a panic but in deleteSettings, where it is a message. *)
RequestError(p) ==
    IF pc[p] \in Delete THEN Goto(p, Follows(pc[p])) ELSE End(p)

-----------------------------------------------------------------------------
(* connect, at the first request and at every one while rec.con is nil. *)

Connecting(p) == pc[p] \in Rabbit /\ ~con[p]

(* dockerutil finds no container. *)
NoContainer(p) ==
    /\ Connecting(p) /\ broker = "absent" /\ attempts[p] = 0
    /\ RequestError(p)
    /\ UNCHANGED <<broker, accountVars, urls, creates, deletes, outages>>

Connected(p) ==
    /\ con' = [con EXCEPT ![p] = TRUE]
    /\ UNCHANGED <<broker, accountVars, urls, pc, app, password, overlap, creates,
                   deletes, outages>>

(* ListNodes shows that all nodes run. *)
ConnectSucceeds(p) ==
    /\ Connecting(p) /\ broker = "running" /\ attempts[p] < MaxAttempts
    /\ Connected(p)
    /\ UNCHANGED attempts

(* A wrong variant: the loop tries once more than m times. *)
ConnectFailsOnceMore(p) ==
    /\ Connecting(p) /\ attempts[p] <= MaxAttempts
    /\ broker # "absent" \/ attempts[p] > 0
    /\ attempts' = [attempts EXCEPT ![p] = attempts[p] + 1]
    /\ UNCHANGED <<broker, accountVars, urls, pc, app, con, password, overlap, creates,
                   deletes, outages>>

(* It does not, or fails; once in the loop a container that is gone fails it. *)
ConnectFails(p) ==
    /\ Connecting(p) /\ attempts[p] < MaxAttempts
    /\ broker # "absent" \/ attempts[p] > 0
    /\ attempts' = [attempts EXCEPT ![p] = attempts[p] + 1]
    /\ UNCHANGED <<broker, accountVars, urls, pc, app, con, password, overlap, creates,
                   deletes, outages>>

(* The loop ends.  The error returned is NewClient's, which is nil, and      *)
(* rec.con is set: the caller goes on as if connected.                       *)
GiveUp(p) ==
    /\ Connecting(p) /\ attempts[p] = MaxAttempts
    /\ Connected(p)
    /\ UNCHANGED attempts

-----------------------------------------------------------------------------
(* The broker. *)

(***************************************************************************)
(* What a request does when it is carried out.  Permissions need the user  *)
(* and the vhost; what is not there cannot be deleted; both are answers    *)
(* with an HTTP error status, which rabbit-hole does not make an error.    *)
(***************************************************************************)
CarryOut(step, a, pw) ==
  /\ UNCHANGED refused
  /\ CASE step = "put_user" ->
           /\ users' = [users EXCEPT ![a] = pw]
           /\ accepted' = [accepted EXCEPT ![a] = @ \union {pw}]
           /\ UNCHANGED <<vhosts, perms>>
      [] step = "put_vhost" ->
           vhosts' = vhosts \union {a} /\ UNCHANGED <<users, perms, accepted>>
      [] step = "put_perms" ->
           /\ perms' = IF users[a] # 0 /\ a \in vhosts THEN perms \union {a} ELSE perms
           /\ UNCHANGED <<users, vhosts, accepted>>
      [] step = "delete_vhost" ->
           /\ vhosts' = vhosts \ {a} /\ perms' = perms \ {a}
           /\ UNCHANGED <<users, accepted>>
      [] step = "delete_user" ->
           /\ users' = [users EXCEPT ![a] = 0] /\ perms' = perms \ {a}
           /\ UNCHANGED <<vhosts, accepted>>

(* A broker that listens but does not run yet does nothing. *)
Refuse(p) ==
    /\ refused' = refused \union ({password[p]} \X ({pc[p]} \intersect Create))
    /\ UNCHANGED <<users, vhosts, perms, accepted>>

(* The request is answered; the HTTP status of the answer is ignored. *)
Request(p) ==
    /\ pc[p] \in Rabbit \ {"list"} /\ con[p]
    /\ \/ broker = "running" /\ CarryOut(pc[p], app[p], password[p])
       \/ broker = "listening" /\ Refuse(p)
    /\ Goto(p, Follows(pc[p]))
    /\ UNCHANGED <<broker, urls, creates, deletes, outages>>

(* No answer comes: the request may have been carried out all the same. *)
RequestFails(p) ==
    /\ pc[p] \in Rabbit \ {"list"} /\ con[p]
    /\ \/ broker = "running" /\ CarryOut(pc[p], app[p], password[p])
       \/ UNCHANGED accountVars
    /\ RequestError(p)
    /\ UNCHANGED <<broker, urls, creates, deletes, outages>>

(* listSettings: the answer is printed, or an error is a panic. *)
List(p) ==
    /\ pc[p] = "list" /\ con[p]
    /\ End(p)
    /\ UNCHANGED <<broker, accountVars, urls, creates, deletes, outages>>

(* The container is removed, started, or has come up; its data stay. *)
BrokerChanges ==
    /\ outages < MaxOutages
    /\ outages' = outages + 1
    /\ \E b \in {"absent", "listening", "running"} \ {broker} : broker' = b
    /\ UNCHANGED <<accountVars, urls, procVars, creates, deletes>>

-----------------------------------------------------------------------------
(* The key-value store. *)

NewUrl(p) == IF pc[p] = "set" THEN password[p] ELSE 0

(* s.Set or s.Delete; the command prints DONE. *)
Store(p) ==
    /\ pc[p] \in {"set", "unset"}
    /\ urls' = [urls EXCEPT ![app[p]] = NewUrl(p)]
    /\ End(p)
    /\ UNCHANGED <<broker, accountVars, creates, deletes, outages>>

(* The store is not available, or its answer is lost: log.Fatalf. *)
StoreFails(p) ==
    /\ pc[p] \in {"set", "unset"}
    /\ \/ urls' = [urls EXCEPT ![app[p]] = NewUrl(p)]
       \/ UNCHANGED urls
    /\ End(p)
    /\ UNCHANGED <<broker, accountVars, creates, deletes, outages>>

Kill(p) ==
    /\ pc[p] # "idle"
    /\ End(p)
    /\ UNCHANGED <<broker, accountVars, urls, creates, deletes, outages>>

Next ==
    \/ \E p \in Proc :
         \/ \E a \in App : BeginCreate(p, a) \/ BeginDelete(p, a)
         \/ BeginList(p) \/ List(p)
         \/ NoContainer(p) \/ ConnectSucceeds(p) \/ ConnectFails(p) \/ GiveUp(p)
         \/ Request(p) \/ RequestFails(p) \/ Store(p) \/ StoreFails(p) \/ Kill(p)
    \/ BrokerChanges

Spec == Init /\ [][Next]_vars

-----------------------------------------------------------------------------
(* Properties. *)

(* What an application can log in with. *)
Usable(a, pw) == users[a] = pw /\ a \in vhosts /\ a \in perms

(***************************************************************************)
(* The url is written last: whatever fails and however runs overlap, the   *)
(* url an application reads has no password that the broker has not taken  *)
(* for its user before.  The one exception is the tool's own: it ignores   *)
(* the status of an answer (rabbitmq-manager.go:69 knows that the broker   *)
(* answers too early), so it may not notice that its user was refused.     *)
(***************************************************************************)
UrlWasAccepted ==
    \A a \in App : urls[a] # 0 =>
        urls[a] \in accepted[a] \/ <<urls[a], "put_user">> \in refused

(***************************************************************************)
(* Creating again repairs: a -create that prints DONE while no other run   *)
(* worked on its application, and of whose requests a broker that was not  *)
(* running yet refused none, leaves an account that the url opens, after   *)
(* any number of runs that were killed, refused or failed half way.        *)
(***************************************************************************)
CreateLeavesUsableAccount ==
    [][\A p \in Proc :
         (/\ pc[p] = "set" /\ ~overlap[p] /\ Store(p)
          /\ \A step \in Create : <<password[p], step>> \notin refused)
           => Usable(app[p], urls'[app[p]])]_vars

(***************************************************************************)
(* rabbitmq-manager.go:260, "New Password was set": the user a run creates *)
(* has had the password that the run printed this for.                     *)
(***************************************************************************)
NewPasswordWasSet ==
    [][\A p \in Proc :
         (pc[p] = "set" /\ Store(p)) => password[p] \in accepted[app[p]]]_vars
=============================================================================
