--------------------------- MODULE FailsafeUpdate ---------------------------
(***************************************************************************)
(* What a failsafe update promises, without partition tables, stages or    *)
(* faults: every boot critical target exists in two copies, one of which   *)
(* boots.  Which copy boots changes only towards an intact one, and only   *)
(* the copy that does not boot is ever being overwritten.  A power loss at *)
(* any moment therefore leaves a device that boots.                        *)
(***************************************************************************)
CONSTANTS Targets, Copies

VARIABLES
    booted,   \* booted[t]: the copy of t the boot chain uses
    torn      \* the pairs <<t, c>> whose image is not completely written

vars == <<booted, torn>>

TypeOK ==
    /\ booted \in [Targets -> Copies]
    /\ torn \subseteq Targets \X Copies

Init ==
    /\ \E c \in Copies : booted = [t \in Targets |-> c]
    /\ torn = {}

(* The boot chain of some targets moves to their other copy.               *)
Switch ==
    /\ booted' \in [Targets -> Copies]
    /\ \A t \in Targets : booted'[t] # booted[t] => <<t, booted'[t]>> \notin torn
    /\ UNCHANGED torn

BeginWrite(t, c) ==
    /\ booted[t] # c
    /\ torn' = torn \cup {<<t, c>>}
    /\ UNCHANGED booted

EndWrite(t, c) ==
    /\ <<t, c>> \in torn
    /\ torn' = torn \ {<<t, c>>}
    /\ UNCHANGED booted

Next ==
    \/ Switch
    \/ \E t \in Targets, c \in Copies : BeginWrite(t, c) \/ EndWrite(t, c)

Spec == Init /\ [][Next]_vars

(* The device boots an intact copy of every target, always.                *)
AlwaysBootable == \A t \in Targets : <<t, booted[t]>> \notin torn
=============================================================================
