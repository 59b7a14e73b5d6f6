--------------------------- MODULE MessageChannel ---------------------------
(***************************************************************************)
(* What the WebSocket relayer promises of outbound messages: send() hands  *)
(* a message to a channel that may lose it, and never writes to the wire   *)
(* one it was not given, one it has lost, or one it has already written.   *)
(***************************************************************************)
EXTENDS Naturals, Sequences

CONSTANT Msg

VARIABLES fresh,     \* messages not handed over yet
          pending,   \* messages the channel holds
          wire       \* messages written, in order

channelVars == <<fresh, pending, wire>>

ChannelInit == fresh = Msg /\ pending = {} /\ wire = <<>>

\* Hand over m; the channel may refuse it, or lose others to make room.
Accept(m) ==
    /\ m \in fresh
    /\ fresh' = fresh \ {m}
    /\ pending' \in SUBSET (pending \cup {m})
    /\ UNCHANGED wire

Lose ==
    /\ pending' \in SUBSET pending
    /\ UNCHANGED <<fresh, wire>>

Write(m) ==
    /\ m \in pending
    /\ pending' = pending \ {m}
    /\ wire' = Append(wire, m)
    /\ UNCHANGED fresh

ChannelNext == Lose \/ \E m \in Msg : Accept(m) \/ Write(m)

ChannelSpec == ChannelInit /\ [][ChannelNext]_channelVars
=============================================================================
