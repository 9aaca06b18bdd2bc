---------------------------- MODULE MCProposals ----------------------------
(* Three rounds, two prices, a counter-offer tool for the seller and a     *)
(* capital accept for the buyer.                                           *)
EXTENDS Proposals

CONSTANTS counter, capital

MCCalls == {counter, capital}
MCTool == [c \in MCCalls |-> IF c = counter THEN "send_counter_offer"
                             ELSE "accept_offer_under_capital_mandate"]
MCCaller == [c \in MCCalls |-> IF c = counter THEN "seller" ELSE "buyer"]
MCPrices == {1, 2}
MCDeltas == {[shipping_method_preference |-> "insured_tracked_parcel"],
             [shipping_method_preference |-> "pickup"],
             [shipping_required |-> FALSE]}
=============================================================================
