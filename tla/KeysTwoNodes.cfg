SPECIFICATION Spec
CONSTANTS
    k1 = k1
    k2 = k2
    k3 = k3
    alice = alice
    root = root
    s1 = s1
    s2 = s2
    basic = basic
    pro = pro
    r1 = r1
    r2 = r2
    Keys = {k1, k2}
    Users = {alice, root}
    Servers = {s1, s2}
    Reqs = {r1}
    Rates = {basic, pro}
    Owner <- TwoOwners
    Home <- TwoHomes
    MaxKeys <- MCMaxKeys
    Rights <- MCRights
    MaxFaults = 1
INVARIANT TypeOK
PROPERTY OnlyAuthorised
