\* A start with clean = false after a run that created the first container.
CONSTANTS
    g1 = g1
    g2 = g2
    g3 = g3
    FileIds <- MCFileIds
    Cap = 2
    MaxContainers = 2
    None = None
SYMMETRY MCSymmetry
SPECIFICATION Spec
INVARIANT StartSucceeds
