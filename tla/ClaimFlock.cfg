SPECIFICATION KeySpec
CONSTANTS
    Stores = {st1, st2}
    Names = {n1, n2, n3}
    Urls = {u1, u2, u3}
    MaxKeys = 2
    MaxWriteFaults = 0
    NoName = NoName
    NoFile = NoFile
    Closed = Closed
INVARIANT AckedIsDurable
