---------------------------- MODULE MCBlockFetch ----------------------------
EXTENDS BlockFetch, TLC

CONSTANTS p1, p2, g, b1, b2, bad

GoodAndBad == g :> Zero @@ bad :> g
Children == b1 :> g @@ b2 :> b1
Half == bad :> 50
NoPenalty == << >>
==============================================================================
