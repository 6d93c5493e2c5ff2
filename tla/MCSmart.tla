------------------------------- MODULE MCSmart -------------------------------
(***************************************************************************)
(* Small instances of SmartCall: one caller, one callee and the calls the    *)
(* one places to the other.                                                  *)
(***************************************************************************)
EXTENDS SmartCall, TLC

CONSTANTS caller, callee

AllByCaller == [c \in Calls |-> caller]
AllToCallee == [c \in Calls |-> callee]

TaskSymmetry == Permutations(Tasks)
CallAndTaskSymmetry == Permutations(Calls) \cup Permutations(Tasks)
=============================================================================
