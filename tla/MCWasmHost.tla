----------------------------- MODULE MCWasmHost -----------------------------
(***************************************************************************)
(* Small instances of WasmHost for TLC.                                    *)
(***************************************************************************)
EXTENDS WasmHost, TLC

\* Calls are interchangeable; used where no liveness is checked.
CallSymmetry == Permutations(Calls)
=============================================================================
