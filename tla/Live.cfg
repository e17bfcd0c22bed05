CONSTANTS
    t1 = t1 t2 = t2
    s1 = s1
    d1 = d1
    p1 = p1 p2 = p2
    a1 = a1 k1 = k1 k2 = k2
    Nil = Nil
    Token = {t1, t2}
    Session = {s1}
    Device = {d1}
    Proc = {p1, p2}
    Legacy = {t1}
    MaxHops = 2
SPECIFICATION PartsSpec
PROPERTIES RequestsFinish KeyArrives
