--------------------------- MODULE MCMarketplace ---------------------------
(***************************************************************************)
(* Instances of Marketplace for TLC: two buyers compete for one item.      *)
(***************************************************************************)
EXTENDS Marketplace, TLC

CONSTANTS ann, bob, sam, a1, b1, s1, m1, m2

AuctionOwner == (a1 :> ann) @@ (b1 :> bob) @@ (s1 :> sam)
AuctionBuy   == (m1 :> a1) @@ (m2 :> b1)
AuctionSell  == (m1 :> s1) @@ (m2 :> s1)

\* On one match a signature races a cancellation; on the other the buyer's agent
\* authorizes its side and the seller signs, so that the deal can be confirmed.
AuctionDrafts == {<< m1, "buyer", "sign" >>, << m1, "seller", "cancel" >>,
                  << m2, "seller", "sign" >>}

=============================================================================
