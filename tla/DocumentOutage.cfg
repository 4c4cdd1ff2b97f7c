SPECIFICATION Spec
CONSTANTS
    r1 = r1
    r2 = r2
    r3 = r3
    d1 = d1
    d2 = d2
    w1 = w1
    w2 = w2
    Requests <- ThreeRequests
    Docs <- OneDoc
    Workers <- TwoWorkers
    Operations <- ContentOps
    BucketAtStart <- BucketThere
    MaxFaults = 1
    Absent = Absent
SYMMETRY Symmetry
INVARIANTS
    UploadedIsFound
