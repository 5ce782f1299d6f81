SPECIFICATION Spec
CONSTANTS
    Agents = {a1, a2, a3}
    Nobody = nobody
    Minutes = {1, 2}
    MaxTime = 3
INVARIANTS ClaimExcludes
