CONSTANTS
    t1 = t1 t2 = t2 t3 = t3
    s1 = s1 s2 = s2
    d1 = d1
    p1 = p1 p2 = p2
    Nil = Nil
    Token = {t1, t2, t3}
    Session = {s1, s2}
    Device = {d1}
    Proc = {p1, p2}
    Legacy = {t1}
    MaxHops = 2
SPECIFICATION Spec
SYMMETRY Symmetry
PROPERTY BanRevokesAll
