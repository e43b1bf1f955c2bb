------------------------------ MODULE MCReactor ------------------------------
(* Reactor for TLC. *)
EXTENDS Reactor, TLC

(* Clients and workers are interchangeable; descriptors are ordered. *)
Symmetry == Permutations(Conns) \cup Permutations(Workers)

Setting(l, c, t) == [listenET |-> l, connET |-> c, timeout |-> t]

(* main.cpp's trigMode 3 with timeouts *)
ServerConfigs == {Setting(TRUE, TRUE, TRUE)}
(* both modes of the connections, no timeouts *)
HttpConfigs == {Setting(TRUE, c, FALSE) : c \in BOOLEAN}

(* both modes of the listener, edge-triggered connections *)
ListenConfigs == {Setting(l, TRUE, FALSE) : l \in BOOLEAN}
=============================================================================
