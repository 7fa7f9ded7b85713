---------------------------- MODULE DurableStore ----------------------------
(***************************************************************************)
(* What the files of a database promise, whatever the engine does with     *)
(* them: the state a reopening would serve changes from one committed      *)
(* state to the next in one step, and a crash leaves the state of before   *)
(* or of after the step that was being made, never anything else.          *)
(***************************************************************************)
EXTENDS Integers

CONSTANT Txn        \* identities of write transactions

VARIABLES
    durable,        \* the transactions a reopening would serve
    target          \* the same once the step being made is complete

vars == <<durable, target>>

Init == durable = {} /\ target = {}

(* A write transaction is applied in memory and asks to be made durable. *)
Start ==
    /\ target = durable
    /\ \E t \in Txn \ durable : target' = durable \cup {t}
    /\ UNCHANGED durable

Finish == durable' = target /\ UNCHANGED target

Crash ==
    /\ durable' \in {durable, target}
    /\ target' = durable'

(* The step is given up for good. *)
Abandon == target' = durable /\ UNCHANGED durable

Next == Start \/ Finish \/ Crash \/ Abandon

Spec == Init /\ [][Next]_vars
============================================================================
