---------------------------- MODULE Reachability ----------------------------
(***************************************************************************)
(* The notifier of Reachability.m.  SystemConfiguration watches the network *)
(* and calls TMReachabilityCallback on the object's own serial queue; the   *)
(* client starts, stops and releases the object from the main thread.  The  *)
(* object keeps itself alive while it notifies (reachabilityObject), the    *)
(* context it hands to SystemConfiguration does not.                        *)
(*                                                                         *)
(* SystemConfiguration and GCD are modelled from how this code uses them:   *)
(* changes that were not delivered yet are delivered as one, and taking the *)
(* callback away does not recall one that was picked before.                *)
(***************************************************************************)
EXTENDS NetworkFlags, Naturals, Sequences

CONSTANTS
    Nets,           \* the states of the network that are tried
    OnWWAN,         \* reachableOnWWAN, which nobody in the application sets
    MaxChanges      \* bound: how often the network changes

ASSUME NetsAssumption == Nets \subseteq Net /\ Nets # {} /\ OnWWAN \in BOOLEAN /\ MaxChanges \in Nat

VARIABLES
    net,            \* what SCNetworkReachabilityGetFlags and the radio say
    changes,        \* how often that changed
    notice,         \* a watched change was not delivered yet
    callback,       \* SCNetworkReachabilitySetCallback holds our function,
    attached,       \*   and the serial queue is set
    serial,         \* the serial queue: where its callback stands, on what flags
    retained,       \* reachabilityObject is self
    held,           \* the client holds a reference
    blocks,         \* which of reachableBlock, unreachableBlock are not nil
    mainQueue,      \* what was dispatched to the main queue
    \* history, for the properties
    wanted,         \* the client started the notifier and did not stop it
    stirred,        \* the flags changed since the start, both blocks set
    late,           \* how many callbacks came in since the stop
    lastCall,       \* the block called last
    broken          \* undefined behaviour: a freed object, a call of a nil block

notifier == <<notice, callback, attached, retained>>
history == <<wanted, stirred, late, lastCall, broken>>
reachVars == <<net, changes, notifier, serial, held, blocks, mainQueue, history>>

Kind == {"reachable", "unreachable"}

\* Somebody refers to the object: the client, itself, a callback at work, or
\* a block that waits in the main queue.
Alive ==
    \/ held
    \/ retained
    \/ serial.at \in {"entered", "calling", "posting"}
    \/ mainQueue # << >>

At(where) == [serial EXCEPT !.at = where]

ReachInit ==
    /\ net \in Nets
    /\ changes = 0
    /\ notice = FALSE
    /\ callback = FALSE
    /\ attached = FALSE
    /\ serial = [at |-> "idle", flags |-> {}, kind |-> "reachable"]
    /\ retained = FALSE
    /\ held = TRUE
    /\ blocks = {}
    /\ mainQueue = << >>
    /\ wanted = FALSE
    /\ stirred = FALSE
    /\ late = 0
    /\ lastCall = "none"
    /\ broken = FALSE

-----------------------------------------------------------------------------
(* The client. *)

SetBlocks ==
    /\ held
    /\ blocks' = Kind
    /\ UNCHANGED <<net, changes, notifier, serial, held, mainQueue, history>>

\* startNotifier; again on a started object it only returns YES.
\* Mutant: the object does not retain itself.
StartUnretained ==
    /\ held
    /\ ~retained
    /\ \E ok \in BOOLEAN :
        /\ callback' = ok
        /\ attached' = ok
        /\ wanted' = ok
    /\ stirred' = FALSE
    /\ late' = 0
    /\ UNCHANGED <<net, changes, notice, retained, serial, held, blocks, mainQueue, lastCall, broken>>

\* One of the two calls may fail, after which neither is in force.
StartNotifier ==
    /\ held
    /\ ~retained
    /\ \E ok \in BOOLEAN :
        /\ callback' = ok
        /\ attached' = ok
        /\ retained' = ok
        /\ wanted' = ok
    /\ stirred' = FALSE
    /\ late' = 0
    /\ UNCHANGED <<net, changes, notice, serial, held, blocks, mainQueue, lastCall, broken>>

\* Mutant of StopNotifier: it only lets go of itself.
StopReleasesOnly ==
    /\ held
    /\ retained' = FALSE
    /\ wanted' = FALSE
    /\ UNCHANGED <<net, changes, notice, callback, attached, serial, held, blocks, mainQueue,
                   stirred, late, lastCall, broken>>

StopNotifier ==
    /\ held
    /\ callback' = FALSE
    /\ attached' = FALSE
    /\ notice' = FALSE
    /\ retained' = FALSE
    /\ wanted' = FALSE
    /\ UNCHANGED <<net, changes, serial, held, blocks, mainQueue, stirred, late, lastCall, broken>>

\* reachableBlock = nil, which the client does once it stopped the notifier.
ClearBlock ==
    /\ held
    /\ ~wanted
    /\ blocks' = blocks \ {"reachable"}
    /\ UNCHANGED <<net, changes, notifier, serial, held, mainQueue, history>>

\* The client lets go of it.  When nothing else refers to it dealloc runs,
\* whose own stopNotifier finds the notifier off (DiesStopped).
Release ==
    /\ held
    /\ held' = FALSE
    /\ UNCHANGED <<net, changes, notifier, serial, blocks, mainQueue, history>>

-----------------------------------------------------------------------------
(* The system. *)

\* Flags or radio change.  SystemConfiguration watches the flags, and nobody
\* observes the radio.
NetChanges ==
    /\ changes < MaxChanges
    /\ \E n \in Nets \ {net} :
        /\ net' = n
        /\ notice' = (notice \/ (n.flags # net.flags /\ callback /\ attached))
        /\ stirred' = (stirred \/ (n.flags # net.flags /\ wanted /\ blocks = Kind))
    /\ changes' = changes + 1
    /\ UNCHANGED <<callback, attached, retained, serial, held, blocks, mainQueue,
                   wanted, late, lastCall, broken>>

\* The callback is taken out of the reference, its info not retained.
Pick ==
    /\ serial.at = "idle"
    /\ notice /\ callback /\ attached
    /\ notice' = FALSE
    /\ serial' = [serial EXCEPT !.at = "picked", !.flags = net.flags]
    /\ UNCHANGED <<net, changes, callback, attached, retained, held, blocks, mainQueue, history>>

-----------------------------------------------------------------------------
(* TMReachabilityCallback and reachabilityChanged, on the serial queue. *)

Enter ==
    /\ serial.at = "picked"
    /\ serial' = At("entered")
    /\ broken' = ~Alive
    /\ late' = IF wanted THEN late ELSE late + 1
    /\ UNCHANGED <<net, changes, notifier, held, blocks, mainQueue, wanted, stirred, lastCall>>

\* Mutant of Decide: the else branch is missing.
DecideReachable ==
    /\ serial.at = "entered"
    /\ serial' = [At(IF IsReachableWithFlags(serial.flags, OnWWAN) /\ "reachable" \in blocks
                     THEN "calling" ELSE "posting") EXCEPT !.kind = "reachable"]
    /\ UNCHANGED <<net, changes, notifier, held, blocks, mainQueue, history>>

\* Which block it is, and whether there is one.
Decide ==
    /\ serial.at = "entered"
    /\ LET kind == IF IsReachableWithFlags(serial.flags, OnWWAN) THEN "reachable" ELSE "unreachable"
       IN  serial' = [At(IF kind \in blocks THEN "calling" ELSE "posting") EXCEPT !.kind = kind]
    /\ UNCHANGED <<net, changes, notifier, held, blocks, mainQueue, history>>

\* The block is read from the property a second time and called; "work" is
\* what the client's block dispatches to the main queue.
CallBlock(work) ==
    /\ serial.at = "calling"
    /\ IF serial.kind \in blocks
       THEN /\ lastCall' = serial.kind
            /\ mainQueue' = mainQueue \o work
            /\ UNCHANGED broken
       ELSE /\ broken' = TRUE
            /\ UNCHANGED <<lastCall, mainQueue>>
    /\ serial' = At("posting")
    /\ UNCHANGED <<net, changes, notifier, held, blocks, wanted, stirred, late>>

\* Mutant of Post: the notification is posted in both branches as well.
PostTwice ==
    /\ serial.at = "posting"
    /\ serial' = At("idle")
    /\ mainQueue' = mainQueue \o <<"note", "note">>
    /\ UNCHANGED <<net, changes, notifier, held, blocks, history>>

Post ==
    /\ serial.at = "posting"
    /\ serial' = At("idle")
    /\ mainQueue' = Append(mainQueue, "note")
    /\ UNCHANGED <<net, changes, notifier, held, blocks, history>>

\* kReachabilityChangedNotification; nobody in the application observes it.
Note ==
    /\ mainQueue # << >>
    /\ Head(mainQueue) = "note"
    /\ mainQueue' = Tail(mainQueue)
    /\ UNCHANGED <<net, changes, notifier, serial, held, blocks, history>>

Serve(work) == Pick \/ Enter \/ Decide \/ CallBlock(work) \/ Post

ReachNext ==
    /\ ~broken
    /\ \/ SetBlocks \/ StartNotifier \/ StopNotifier \/ ClearBlock \/ Release
       \/ NetChanges
       \/ Serve(<< >>)
       \/ Note

\* The queues run what they are given.
ReachFairness ==
    /\ WF_reachVars(~broken /\ Serve(<< >>))
    /\ WF_reachVars(~broken /\ Note)

ReachSpec == ReachInit /\ [][ReachNext]_reachVars /\ ReachFairness

-----------------------------------------------------------------------------
\* Types; and no change of the network is announced twice.
ReachTypeOK ==
    /\ net \in Nets
    /\ changes \in 0 .. MaxChanges
    /\ {notice, callback, attached, retained, held, wanted, stirred, broken} \subseteq BOOLEAN
    /\ serial \in [at : {"idle", "picked", "entered", "calling", "posting"}, flags : SUBSET Flag, kind : Kind]
    /\ blocks \subseteq Kind
    /\ mainQueue \in Seq({"label", "note"})
    /\ Len(SelectSeq(mainQueue, LAMBDA work : work = "note")) <= changes
    /\ late \in Nat
    /\ lastCall \in Kind \cup {"none"}

\* "this should do a retain on ourself, so as long as we're in notifier mode
\* we shouldn't disappear out from under ourselves": from a start that
\* succeeded to the stop the callback is in force and the object exists,
\* whether or not its client still holds it.
StaysWhileNotifying == wanted => callback /\ attached /\ Alive

\* An object that nobody refers to any more has left the notifier mode, so
\* that SystemConfiguration cannot pick another callback for it.
DiesStopped == ~Alive => ~callback /\ ~notice

\* After stopNotifier at most one callback still comes in, the one that was
\* picked before: the queue is serial and nothing more is picked.
OneLateCallback == late <= 1

\* The notifier mode as a whole: it lasts from start to stop and one callback longer.
NotifierMode == StaysWhileNotifying /\ DiesStopped /\ OneLateCallback

\* The three generations exclude each other, so that the order in which
\* currentReachabilityString asks for them does not matter.
OneGeneration(n) ==
    /\ ~(IsReachableVia2G(n) /\ IsReachableVia3G(n))
    /\ ~(IsReachableVia2G(n) /\ IsReachableVia4G(n))
    /\ ~(IsReachableVia3G(n) /\ IsReachableVia4G(n))

\* The status and the string, which are computed from different questions,
\* name the same network wherever the network is reachable, the radio is
\* known, and no flag of a cellular connection comes without W.
StatusAndStringAgree(n) ==
    \A onWWAN \in BOOLEAN :
        /\ IsReachableWithFlags(n.flags, onWWAN)
        /\ IF "W" \in n.flags THEN n.radio # "none" ELSE "t" \notin n.flags
        => CurrentReachabilityStatus(n, onWWAN) = CurrentReachabilityString(n)

\* What is still to be connected on demand or by intervention needs a
\* connection, and with the transient flag it is not reachable.
RequiredStaysDown(n) ==
    \A onWWAN \in BOOLEAN :
        /\ IsConnectionOnDemand(n.flags) \/ IsInterventionRequired(n.flags) => ConnectionRequired(n.flags)
        /\ ConnectionRequired(n.flags) /\ "t" \in n.flags
             => CurrentReachabilityStatus(n, onWWAN) = "No Connection"

\* The radios with which that holds whatever flags SystemConfiguration reports.
SoundRadio ==
    {r \in Radio : \A f \in SUBSET Flag :
        LET n == [flags |-> f, radio |-> r]
        IN  OneGeneration(n) /\ StatusAndStringAgree(n) /\ RequiredStaysDown(n)}

\* The questions a client asks at one moment do not contradict each other.
QuestionsAgree == net.radio \in SoundRadio

\* The block that is called last tells the state the network settled in,
\* however many changes were delivered as one.
LastCallIsTrue ==
    <>[](wanted /\ stirred /\ ~broken =>
            lastCall = IF IsReachableWithFlags(net.flags, OnWWAN) THEN "reachable" ELSE "unreachable")
=============================================================================
