----------------------------- MODULE MCListing -----------------------------
(***************************************************************************)
(* Listings of three keys on two nodes, and with a third node that was     *)
(* started with another partition count.                                   *)
(***************************************************************************)
EXTENDS Listing, TLC

CONSTANTS n1, n2, n3, k1, k2, k3

MCOwner == [k \in Key |-> IF k = k3 THEN n2 ELSE n1]
=============================================================================
