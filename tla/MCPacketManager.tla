-------------------------- MODULE MCPacketManager ---------------------------
(***************************************************************************)
(* Instances of PacketManager for TLC.                                     *)
(***************************************************************************)
EXTENDS PacketManager, TLC

CONSTANTS s1, s2, t1, t2, t3

\* Two clients of simple queries, one of which prepares statements, or one of
\* the extended protocol.
SimpleOrExtended ==
  {(s1 :> "preparing" @@ s2 :> "simple"), (s1 :> "extended" @@ s2 :> "none")}

\* Transaction objects are interchangeable.
Symmetry == Permutations(Txn)
=============================================================================
