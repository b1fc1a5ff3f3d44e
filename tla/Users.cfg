SPECIFICATION Spec
SYMMETRY Symmetry
CONSTANTS
    Threads = {t1, t2, t3}
    Conns = {c1, c2}
    Names = {n1}
    Passwords = {p1, p2}
    None = None
INVARIANT TypeOK
INVARIANT UniqueNames
INVARIANT AckedCanLogin
INVARIANT MapCoversTable
