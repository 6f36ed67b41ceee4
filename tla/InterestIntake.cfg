SPECIFICATION Spec
CONSTANTS
    i1 = i1
    i2 = i2
    i3 = i3
    i4 = i4
    a1 = a1
    a2 = a2
    v1 = v1
    Interest = {i1, i2, i3, i4}
    Investor = {v1}
    Asset = {a1}
    Request = {r1, r2}
    InvestorOf <- MCInvestorOf
    AssetOf <- MCAssetOf
    MaxPerDay = 1
    LastDay = 2
    LastVersion = 1
SYMMETRY Symmetry
INVARIANTS
    OnePendingPerAsset
    DailyLimitUpToMidnight
