SPECIFICATION Spec
CONSTANTS
    i1 = i1
    i2 = i2
    a = a
    b = b
    c1 = c1
    c2 = c2
    bad = bad
    r1 = r1
    r2 = r2
    e1 = e1
    None = None
    Id = {i1, i2}
    Name = {a, b}
    Content = {c1, c2, bad}
    Valid = {c1, c2}
    Request = {r1, r2}
    Editor = {e1}
SYMMETRY Symmetry
INVARIANTS TypeOK HeldIsCached ReferencedExist RendersNamesake
