SPECIFICATION Spec
CONSTANTS
    Parts = {"enrollment", "radio", "bluetooth"}
    NoKey = NoKey
    NoId = NoId
    Nobody = Nobody
    n1 = n1
    k1 = k1
    k2 = k2
    o1 = o1
    s1 = s1
    s2 = s2
    frontgate = frontgate
    c1 = c1
    c2 = c2
PROPERTIES
    PendingFollowsNode
    CallsReturn
