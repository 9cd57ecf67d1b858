CONSTANTS
    Label = {"a"}
    Lower <- MCLower
    MaxTTL = 2
    Names = {a}
    Types = {A, NS}
    RRsets <- MCRRsets
    NegativeTTLs = {0, 1}
    MaxNow = 2
SPECIFICATION Spec
PROPERTY KeepsItsPromise
