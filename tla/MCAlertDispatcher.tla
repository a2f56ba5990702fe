------------------------- MODULE MCAlertDispatcher -------------------------
(***************************************************************************)
(* Values for the constants of AlertDispatcher that a cfg cannot write.    *)
(***************************************************************************)
EXTENDS AlertDispatcher, TLC

AllKeys == Exes \X Severities

\* The wall clock is only slewed.
DisciplinedClock == {}

CallerSymmetry == Permutations(Callers)

=============================================================================
