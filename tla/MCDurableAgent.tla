---------------------------- MODULE MCDurableAgent ----------------------------
(* Instances of DurableAgent for TLC. *)
EXTENDS DurableAgent, TLC

CONSTANTS lookup, ticket, v1, v2

(* "lookup" is read-only; under definition v2 its policy became "never". *)
MCPolicy ==
    [p \in Tools \X Versions |->
        IF p[1] = lookup /\ p[2] = v1 THEN "read_only" ELSE "never"]

KeyedInline == {[background |-> FALSE, keyed |-> TRUE, active |-> FALSE]}
AnyMode == ModeSet
PlainBackground == {[background |-> TRUE, keyed |-> FALSE, active |-> FALSE]}
ActiveBackground == {[background |-> TRUE, keyed |-> FALSE, active |-> TRUE]}

Symmetry == Permutations(Drivers)
====
