------------------------------- MODULE MCAcd -------------------------------
(***************************************************************************)
(* Small instances of AcdQueue: two calls, one or two agents, and as many    *)
(* pieces of work at once as it takes for them to meet.                      *)
(***************************************************************************)
EXTENDS AcdQueue, TLC

CONSTANTS c1, c2, q1, q2

OneQueue  == [c \in Calls |-> q1]
TwoQueues == [c \in Calls |-> IF c = c1 THEN q1 ELSE q2]
AllSkilled == Agents \X Calls

AgentAndTaskSymmetry == Permutations(Agents) \cup Permutations(Tasks)
=============================================================================
