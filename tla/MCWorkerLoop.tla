---------------------------- MODULE MCWorkerLoop ----------------------------
(***************************************************************************)
(* Small instances of WorkerLoop for TLC.                                  *)
(***************************************************************************)
EXTENDS WorkerLoop, TLC

CONSTANTS r1, r2, r3

ThreeRuns == {r1, r2, r3}
=============================================================================
