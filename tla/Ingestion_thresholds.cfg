SPECIFICATION Spec
CONSTANTS
    Writer = {w1}
    Admin = {a1, a2}
    r1 = r1
    r2 = r2
    r3 = r3
    h1 = h1
    r4 = r4
    r5 = r5
    Absent = Absent
    Reading <- MCReading
    Health <- MCHealth
    Sequence <- MCSequence
    Value <- MCValue
    Site <- MCSite
    Default <- MCDefault
    Request <- MCRequests
SYMMETRY Symmetry
INVARIANT ThresholdsStayValid
