SPECIFICATION Spec
CONSTANTS
    p1 = p1
    p2 = p2
    p3 = p3
    p4 = p4
    a = a
    b = b
    c = c
    x = x
    y = y
    c1 = c1
    c2 = c2
    Profiles = {p1, p2, p3, p4}
    Names = {a, b, c}
    Originals <- AtStart
    Behind <- JustTheWrapper
    Shapes <- BothSurfaces
    SlugOf <- Slugs2
    Commands = {c1}
    Startup = startup
    None = None
    MaxOps = 1
    MaxFailures = 1
INVARIANT RollsBack
CHECK_DEADLOCK FALSE
