SPECIFICATION FairSpec
CONSTANTS
    Proc = {p1, p2}
    t1 = t1
    t2 = t2
    la = la
    lb = lb
    lc = lc
    Latest = Latest
    Zero = Zero
    Id <- MCId
    Label = {la, lb, lc}
    NameOf <- MCNameOf
    NumStatements = 2
    Guarded <- MCGuarded
    Table = {t1, t2}
    TableOf <- MCTableOf
    Creators <- MCCreators
    Clones <- TrunkClones
    Commands <- ApplyOnly
    Transactional = FALSE
INVARIANT NoGhostRow
PROPERTY EveryCommandReturns
