--------------------------- MODULE MCEmailOutbox ---------------------------
(* Small instances of the e-mail outbox for TLC. *)
EXTENDS EmailOutbox, TLC

CONSTANTS code, b1, b2, goodbye, w1, w2

OneCode == {code}
NoCodes == {}
OnlyGoodbye == {goodbye}
NoBulk == {}
OneBulk == {b1}
TwoBulk == {b1, b2}
OneWorker == {w1}
TwoWorkers == {w1, w2}

\* Workers are alike in the run without liveness.
AlikeWorkers == Permutations(TwoWorkers)
=============================================================================
