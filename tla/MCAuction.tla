------------------------------ MODULE MCAuction ------------------------------
(* Small instances of Auction for TLC. *)
EXTENDS Auction, TLC

\* One price unit stands for one bid increment band.
UnitIncrement(p) == 1

BidderSymmetry == Permutations(Bidders)

=============================================================================
