SPECIFICATION Spec
CONSTANTS
    Agents = {a1, a2, a3}
    Nobody = nobody
    Minutes = {4, 5}
    MaxTime = 3
INVARIANTS ClaimOnFile
SYMMETRY Symmetry
