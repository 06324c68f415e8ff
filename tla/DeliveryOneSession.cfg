SPECIFICATION Spec
CONSTANTS
    Conns = {c1, c2}
    Poster = Poster
    Users = {u1, u2}
    Msgs = {m1, m2}
    None = None
    MaxFrames = 2
SYMMETRY Symmetry
INVARIANTS
    OneSession
