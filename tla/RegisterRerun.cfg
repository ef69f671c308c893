CONSTANTS
    p1 = p1
    p2 = p2
    p3 = p3
    b1 = b1
    b2 = b2
    b3 = b3
    n1 = n1
    n2 = n2
    None = None
    Runs <- MCRuns
    Bundles <- MCBundles
    Names <- MCNames
    NameOf <- MCNameOf
    Rejected <- MCRejected
    Window = 0
    Horizon = 1
    MaxFaults = 1
SPECIFICATION Spec
PROPERTY RerunResumes
CONSTRAINT AtMostTwoAtOnce
CHECK_DEADLOCK FALSE
