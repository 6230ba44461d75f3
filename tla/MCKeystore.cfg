SPECIFICATION KeySpec
CONSTANTS
    Stores = {st1}
    Names = {n1, n2, n3}
    Urls = {u1, u2, u3}
    MaxKeys = 2
    MaxWriteFaults = 3
    NoName = NoName
    NoFile = NoFile
    Closed = Closed
SYMMETRY Interchangeable
CONSTRAINT FewDoubts
INVARIANT KeyTypeOK
INVARIANT AckedIsDurable
INVARIANT FileWellFormed
INVARIANT ActiveStoredUnlessFault
