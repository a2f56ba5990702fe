---------------------------- MODULE MCAlertGate ----------------------------
(***************************************************************************)
(* Values for the constants of AlertGate that a cfg cannot write.          *)
(***************************************************************************)
EXTENDS AlertGate, TLC

\* The wall clock is set back and put forward, by more than a dedupe window.
SteppedClock == {-3, 2}

\* Keys are only compared with each other.
KeySymmetry == Permutations(Keys)

=============================================================================
