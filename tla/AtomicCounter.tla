---------------------------- MODULE AtomicCounter ----------------------------
(***************************************************************************)
(* What a locked counter promises: increments happen one at a time and     *)
(* none is lost; reading the counter out closes it, and what was read out  *)
(* stays its value.                                                        *)
(***************************************************************************)
EXTENDS Integers

CONSTANT Wrap   \* number of values of the counter's integer type

VARIABLES value, increments, closed, final

Init == value = 0 /\ increments = 0 /\ closed = FALSE /\ final = -1

Increment ==
  /\ ~closed
  /\ value' = (value + 1) % Wrap
  /\ increments' = (increments + 1) % Wrap
  /\ UNCHANGED <<closed, final>>

Close ==
  /\ ~closed
  /\ closed' = TRUE
  /\ final' = increments
  /\ UNCHANGED <<value, increments>>

Next == Increment \/ Close

Spec == Init /\ [][Next]_<<value, increments, closed, final>>

=============================================================================
