------------------------------ MODULE MCScreens ------------------------------
(* The screens with liveness, one at a time: the label of the network state, *)
(* a client that starts and stops a Reachability as it likes, the screen     *)
(* that converts animations.  The part that lives is chosen at the beginning *)
(* and the others stay as they begin.                                        *)
EXTENDS NetworkStateView, GIFDownloader, TLC

CONSTANTS r1, r2, r3, r4, u, v

VARIABLE part   \* "label", "notifier" or "gif"

\* Four requests, three of them for the same URL, and one slot.
MCRequest == {r1, r2, r3, r4}
MCUrl == (r1 :> u) @@ (r2 :> u) @@ (r3 :> u) @@ (r4 :> v)

\* Off, WiFi, the cellular network with a slow and a fast radio and in airplane mode.
MCNets ==
    {[flags |-> {}, radio |-> "none"],
     [flags |-> {"R"}, radio |-> "hspa"],
     [flags |-> {"W", "R"}, radio |-> "edge"],
     [flags |-> {"W", "R"}, radio |-> "lte"],
     [flags |-> {"W", "R", "c", "t"}, radio |-> "none"]}

MCInit ==
    /\ part \in {"label", "notifier", "gif"}
    /\ ViewInit /\ Init
    /\ part = "gif" => net.flags = {}

ShowLabel == part = "label" /\ ViewNext /\ UNCHANGED <<part, vars>>
Notifier == part = "notifier" /\ ReachNext /\ UNCHANGED <<part, screen, radioMoved, vars>>
Convert == part = "gif" /\ Next /\ UNCHANGED <<part, viewVars>>

MCNext == ShowLabel \/ Notifier \/ Convert

\* The fairness of each part while it lives.
MCFairness ==
    /\ WF_viewVars(part = "label" /\ ~broken /\ Called)
    /\ WF_viewVars(part = "label" /\ ~broken
                        /\ (LoadStarts \/ LeaveClears \/ LeaveReleases \/ Read))
    /\ SF_viewVars(part = "label" /\ ~broken /\ (RunBlock \/ RunBlockAlone \/ RunNote))
    /\ WF_reachVars(part = "notifier" /\ ~broken /\ Serve(<< >>))
    /\ WF_reachVars(part = "notifier" /\ ~broken /\ Note)
    /\ \A r \in Request : WF_vars(part = "gif" /\ ~ArrayRace /\ Progress(r))

MCSpec == MCInit /\ [][MCNext]_<<part, viewVars, vars>> /\ MCFairness
=============================================================================
