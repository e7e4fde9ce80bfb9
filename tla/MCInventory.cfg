CONSTANTS
    rifle = rifle
    rifle2 = rifle2
    hat = hat
    suit = suit
    coupon = coupon
    box = box
    Kind = {rifle, rifle2, hat, suit, coupon, box}
    Coupon = coupon
    Set = "set"
    Covered = {"head"}
    TypeOf <- MCTypeOf
    Upgraded <- MCUpgraded
    Glue = box
    Refund = box
    Stocked = {box}
    Expansion = box
    Wins <- MCWins
    MpBox = box
    LuckyBoxes = {box}
    MaxMp = 1
    MaxSpace = 2
    MaxStock = 2
    Lucky = 2
SPECIFICATION Spec
INVARIANTS
    ItemsMatchRows
    SpaceRespected
PROPERTIES
    NothingFromNothing
CONSTRAINT Bounded
