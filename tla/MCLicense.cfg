SPECIFICATION Spec
CONSTANTS
    s1 = s1
    s2 = s2
    c = c
    Servers = {s1, s2}
    Commands = {c}
    Ids = {1, 2, 3, 4, 5, 6, 7, 8, 9}
    MaxSeats = 2
    MaxTroubles = 1
INVARIANTS LicenseInv
PROPERTIES NeverRevived VerdictsLand
