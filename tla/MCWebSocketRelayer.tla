------------------------- MODULE MCWebSocketRelayer -------------------------
(* Model checking of WebSocketRelayer on small instances. *)
EXTENDS WebSocketRelayer, TLC

\* The sockets of the pool are interchangeable, and so are the connect() calls.
Symmetry == Permutations(Socket) \cup Permutations(Call)
=============================================================================
