----------------------------- MODULE CallLedger -----------------------------
(***************************************************************************)
(* What the billing engine promises about the money of each call: a call    *)
(* opens with a hold on the account, spends only out of its hold, which may  *)
(* be extended while it is open, and closes once, giving back what is left.  *)
(* A closed call never touches the account again.                           *)
(***************************************************************************)
EXTENDS Integers

CONSTANT Calls

VARIABLES phase, held, spent

vars == <<phase, held, spent>>

Init ==
    /\ phase = [s \in Calls |-> "unopened"]
    /\ held = [s \in Calls |-> 0]
    /\ spent = [s \in Calls |-> 0]

\* Only call s changes, and what it spends is never taken back.
OnlyCall(s) ==
    /\ held' = [held EXCEPT ![s] = held'[s]]
    /\ spent' = [spent EXCEPT ![s] = spent'[s]]
    /\ held'[s] >= 0
    /\ spent'[s] >= spent[s]

Open(s) ==
    /\ phase[s] = "unopened"
    /\ phase' = [phase EXCEPT ![s] = "open"]
    /\ OnlyCall(s)
    /\ spent'[s] = spent[s]

\* The hold shrinks by what is spent and grows by what is added to it.
Use(s) ==
    /\ phase[s] = "open"
    /\ phase' = phase
    /\ OnlyCall(s)
    /\ held'[s] + spent'[s] >= held[s] + spent[s]

Close(s) ==
    /\ phase[s] = "open"
    /\ phase' = [phase EXCEPT ![s] = "closed"]
    /\ OnlyCall(s)
    /\ held'[s] = 0 /\ spent'[s] = spent[s]

Next == \E s \in Calls : Open(s) \/ Use(s) \/ Close(s)

Spec == Init /\ [][Next]_vars
=============================================================================
