CONSTANTS
    ann = ann
    bob = bob
    sam = sam
    a1 = a1
    b1 = b1
    s1 = s1
    m1 = m1
    m2 = m2
    Users = {ann, bob, sam}
    Intents = {a1, b1, s1}
    Matches = {m1, m2}
    Owner <- AuctionOwner
    BuyIntent <- AuctionBuy
    SellIntent <- AuctionSell
    MaxRounds = 1
    Drafts <- AuctionDrafts
    Tier1 = {bob}
    Capital = {bob}
    MaxLoaded = 1
    Revokers = {bob}
SPECIFICATION FairSpec
CHECK_DEADLOCK FALSE
INVARIANTS
    DealFollowsNegotiation
    ConfirmedByBothSides
    LiveDealHoldsIntents
    ExclusiveHold
    MatchFollowsNegotiation
    MatchedByADeal
PROPERTIES
    DealStaysDead
    ReleasedByItsDeal
    KeepsPromise
    PendingDealResolves
