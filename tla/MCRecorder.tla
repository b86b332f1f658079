----------------------------- MODULE MCRecorder -----------------------------
(* Model-checking instance of the recorder: three events as model values,  *)
(* interchangeable in every property.                                      *)
EXTENDS Recorder, TLC

CONSTANTS e1, e2, e3

MCEvents == {e1, e2, e3}

MCSymmetry == Permutations(MCEvents)

=============================================================================
