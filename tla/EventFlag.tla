------------------------------ MODULE EventFlag ------------------------------
(***************************************************************************)
(* What a flag with a wait queue promises one consumer: publications are    *)
(* merged while the flag is up, and each serving takes the flag down, so    *)
(* no serving happens without a publication of its own.                     *)
(***************************************************************************)
EXTENDS Naturals

VARIABLES
  up,          \* is the event pending?
  published,   \* number of publications so far
  servings     \* number of events taken so far

Init == up = FALSE /\ published = 0 /\ servings = 0

Publish ==
  /\ up' = TRUE
  /\ published' = published + 1
  /\ UNCHANGED servings

Serve ==
  /\ up
  /\ up' = FALSE
  /\ servings' = servings + 1
  /\ UNCHANGED published

Next == Publish \/ Serve

Spec == Init /\ [][Next]_<<up, published, servings>>

=============================================================================
