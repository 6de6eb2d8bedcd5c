----------------------------- MODULE MCChannel -----------------------------
(***************************************************************************)
(* TLC instances of the channel.                                           *)
(***************************************************************************)
EXTENDS ChannelEvents, TLC

News == SUBSET Symbols \ {{}}

MCSlots == PriceSlots \cup {MovementSlot(t, S) : t \in 0 .. MaxTime, S \in News}

Symmetry == Permutations(Workers) \cup Permutations(Admins) \cup Permutations(Destinations)
=============================================================================
