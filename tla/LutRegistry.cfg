\* Two sellers so that one can hold the lock while the other asks for it.
CONSTANTS
    m1 = m1
    m2 = m2
    t1 = t1
    t2 = t2
    j1 = j1
    None = None
    Mints = {m1, m2}
    Tables = {t1, t2}
    Jobs = {j1}
    Sellers = {s1, s2}
    Setups = {u1}
    MintOf <- MCMintOf
    TableOf <- MCTableOf
    Lists <- MCLists
    MaxRestarts = 1
SPECIFICATION Spec
INVARIANTS TypeOK TableStillCurrent
PROPERTIES OnlyRestartForgets NobodyStarves
