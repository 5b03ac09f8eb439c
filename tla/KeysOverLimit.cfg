SPECIFICATION Spec
CONSTANTS
    k1 = k1
    k2 = k2
    k3 = k3
    alice = alice
    root = root
    s1 = s1
    s2 = s2
    basic = basic
    pro = pro
    r1 = r1
    r2 = r2
    Keys = {k1, k2}
    Users = {alice}
    Servers = {s1}
    Reqs = {r1, r2}
    Rates = {basic}
    Owner <- OneOwner
    Home <- OneHome
    MaxKeys <- MCMaxKeys
    Rights <- MCRights
    MaxFaults = 0
INVARIANT MaxKeysRespected
