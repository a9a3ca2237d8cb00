SPECIFICATION ZipFairSpec
CONSTANTS
    c1 = c1  c2 = c2  a = a  b = b  x = x  y = y  u = u  v = v
    Clients = {c1, c2}
    Names = {a, b, x, y}
    Bodies = {u, v}
    MaxDepth = 4
    Capacity = 1
    Trees <- MCTrees
    Requests <- MCRequests
    Dir = Dir  Partial = Partial  Mixed = Mixed  Bad = Bad
    RootName = a
    NoFile = NoFile  Nobody = Nobody  NoRequest = NoRequest
    Directory = Directory  NoPiece = NoPiece
INVARIANTS TypeOK ZipTypeOK RefusalChangesNothing MoveIsWhole CopyIsTheTree
    AckedUploadIsThere OneWinner StayedIsListed ZipIsWhole
PROPERTIES RequestIsAnswered ZipTaskEnds
CHECK_DEADLOCK FALSE
