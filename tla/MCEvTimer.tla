----------------------------- MODULE MCEvTimer -----------------------------
(* A small instance of EvTimer for TLC: a pool of two timers, one static    *)
(* timer, two clients of the pool that are interchangeable.                 *)
EXTENDS EvTimer, TLC

CONSTANTS c1, c2, s1

MCClients == {c1, c2}
MCStatics == {s1}
SymClients == Permutations(MCClients)
=============================================================================
