CONSTANTS
    a1 = a1
    b1 = b1
    s1 = s1
    m1 = m1
    m2 = m2
    t1 = t1
    t2 = t2
    t3 = t3
    t4 = t4
    t5 = t5
    t6 = t6
    NoTxn = NoTxn
    Intents = {a1, b1, s1}
    Matches = {m1, m2}
    BuyIntent <- RaceBuy
    SellIntent <- RaceSell
    Stored = {}
    IntentOrder <- RaceOrder
    Txns = {t1, t2, t3, t4, t5}
    Handler <- EndHandler
    Subject <- EndSubject
SPECIFICATION Spec
CHECK_DEADLOCK FALSE
PROPERTIES
    EveryRequestEnds
