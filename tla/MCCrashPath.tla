---------------------------- MODULE MCCrashPath -----------------------------
(* From a crash to names that can be read, the two ends of the path each on  *)
(* its own: the handlers and their threads while the process dies, and the   *)
(* demangler, which a later launch runs over the report.                     *)
EXTENDS MCCrashSentry, SwiftReadBack

VARIABLE part   \* "handlers" or "names"

MCInit ==
    \/ part = "handlers" /\ Init /\ NamesRest
    \/ part = "names" /\ NamesInit /\ Init /\ chosen = {"user"}

Handle == part = "handlers" /\ Next /\ UNCHANGED <<part, namesVars>>
ReadName == part = "names" /\ NamesNext /\ UNCHANGED <<part, vars>>

MCNext == Handle \/ ReadName

MCSpec ==
    /\ MCInit /\ [][MCNext]_<<part, vars, namesVars>>
    /\ \A t \in Threads : WF_vars(part = "handlers" /\ Step(t))
=============================================================================
