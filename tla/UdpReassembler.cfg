SPECIFICATION TableSpec
CONSTANTS
    Keys = {k1, k2, k3}
    Dests = {d1, d2}
    MaxCount = 2
    MaxPackets = 2
    Timeout = 2
    Gens = {g1, g2}
SYMMETRY Symmetric
VIEW Visible
INVARIANTS TableTypeOK TableBounded NoMixedMessage
