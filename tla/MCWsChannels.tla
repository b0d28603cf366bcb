---------------------------- MODULE MCWsChannels ----------------------------
(* TLC instances of WsChannels. *)
EXTENDS WsChannels, TLC

CONSTANT i1

\* Two connections to the same instance; another instance publishes.
MCHome == [c \in Conns |-> i1]

\* A pattern no client names, and `*` after it: it matches direct topics too.
MCRoutes == <<{}, Names>>

Symmetry == Permutations(Conns)
=============================================================================
