SPECIFICATION Spec
CONSTANTS
    Proc = {p1}
    t1 = t1
    t2 = t2
    la = la
    lb = lb
    lc = lc
    Latest = Latest
    Zero = Zero
    Id <- MCId
    Label = {la, lb, lc}
    NameOf <- MCNameOf
    NumStatements = 2
    Guarded <- MCGuarded
    Table = {t1, t2}
    TableOf <- MCTableOf
    Creators <- MCCreators
    Clones <- TrunkClones
    Commands <- ApplyAndFresh
    Transactional = TRUE
INVARIANT NoGhostRow
