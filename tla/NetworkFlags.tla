---------------------------- MODULE NetworkFlags ----------------------------
(***************************************************************************)
(* What Reachability.m reads out of the flags SystemConfiguration gives it  *)
(* and out of the radio technology CoreTelephony names.  The letters are    *)
(* those of reachabilityFlags():                                            *)
(*   W is WWAN   R reachable   c connection required   t transient          *)
(*   i intervention required   C connection on traffic   D on demand        *)
(* The branches for systems before iOS 7 are left out: the application is   *)
(* built for iOS 8.1.                                                       *)
(***************************************************************************)

Flag == {"W", "R", "c", "t", "i", "C", "D"}
Radio == {"none", "edge", "gprs", "hspa", "lte"}

\* What the device says at one moment.
Net == [flags : SUBSET Flag, radio : Radio]

Airplane == {"c", "t"}      \* the testcase of isReachableWithFlags

Slow(radio) == radio \in {"edge", "gprs"}

IsReachableWithFlags(f, onWWAN) ==
    "R" \in f /\ ~(Airplane \subseteq f) /\ ("W" \in f => onWWAN)

IsReachableViaWWAN(f) == {"R", "W"} \subseteq f
IsReachableViaWiFi(f) == "R" \in f /\ "W" \notin f
ConnectionRequired(f) == "c" \in f
IsConnectionOnDemand(f) == "c" \in f /\ f \cap {"C", "D"} # {}
IsInterventionRequired(f) == "c" \in f /\ "i" \in f

IsReachableVia2G(n) == IF "W" \in n.flags THEN Slow(n.radio) ELSE Airplane \subseteq n.flags
IsReachableVia4G(n) == "W" \in n.flags /\ n.radio = "lte"

\* Mutant of IsReachableVia3G: it forgets to ask for 4G.
IsReachableVia3GNot2G(n) ==
    IF "W" \in n.flags
    THEN ~IsReachableVia2G(n)
    ELSE "t" \in n.flags /\ "c" \notin n.flags

IsReachableVia3G(n) ==
    IF "W" \in n.flags
    THEN ~IsReachableVia2G(n) /\ ~IsReachableVia4G(n)
    ELSE "t" \in n.flags /\ "c" \notin n.flags

-----------------------------------------------------------------------------
\* currentReachabilityStatus, the enum values named like the strings of
\* currentReachabilityString.
CurrentReachabilityStatus(n, onWWAN) ==
    CASE ~IsReachableWithFlags(n.flags, onWWAN) -> "No Connection"
      [] IsReachableWithFlags(n.flags, onWWAN) /\ IsReachableViaWiFi(n.flags) -> "WiFi"
      [] OTHER ->
            CASE n.radio = "none" -> "Cellular"
              [] n.radio = "lte" -> "4G"
              [] Slow(n.radio) -> "2G"
              [] OTHER -> "3G"

\* currentReachabilityString, all of its questions answered at one moment.
CurrentReachabilityString(n) ==
    CASE IsReachableVia2G(n) -> "2G"
      [] ~IsReachableVia2G(n) /\ IsReachableVia3G(n) -> "3G"
      [] OTHER ->
            CASE IsReachableVia4G(n) -> "4G"
              [] ~IsReachableVia4G(n) /\ IsReachableViaWWAN(n.flags) -> "Cellular"
              [] OTHER -> IF IsReachableViaWiFi(n.flags) THEN "WiFi" ELSE "No Connection"

Label == {"2G", "3G", "4G", "Cellular", "WiFi", "No Connection"}

=============================================================================
