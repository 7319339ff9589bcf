--------------------------- MODULE TimelockedChange ---------------------------
(***************************************************************************)
(* What a time lock promises, whoever keeps it: once the value is set, it  *)
(* changes only to a value that has been proposed, in the open, for the    *)
(* whole delay, and a new proposal or a withdrawal undoes the earlier one. *)
(***************************************************************************)
EXTENDS Integers

CONSTANTS None, Delay

VARIABLES value, proposed, notBefore, clock

vars == <<value, proposed, notBefore, clock>>

Init == value = None /\ proposed = None /\ notBefore = 0

Appoint ==
    /\ value = None
    /\ UNCHANGED <<proposed, notBefore, clock>>

Propose ==
    /\ proposed' # None
    /\ notBefore' = clock + Delay
    /\ UNCHANGED <<value, clock>>

Withdraw ==
    /\ proposed' = None /\ notBefore' = 0
    /\ UNCHANGED <<value, clock>>

Apply ==
    /\ proposed # None
    /\ clock >= notBefore
    /\ value' = proposed
    /\ proposed' = None /\ notBefore' = 0
    /\ UNCHANGED clock

Tick ==
    /\ clock' > clock
    /\ UNCHANGED <<value, proposed, notBefore>>

Next == Appoint \/ Propose \/ Withdraw \/ Apply \/ Tick

Spec == Init /\ [][Next]_vars
==============================================================================
