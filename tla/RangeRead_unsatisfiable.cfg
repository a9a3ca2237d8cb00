CONSTANTS
  PlainChunk = 3
  Overhead = 1
  Nonce = 2
  BufSize = 2
  Sizes = {0, 1, 2, 3, 4, 6, 8}
  Offsets = {0, 1, 2, 3, 5, 7, 8, 19, 36, 39}
  Word = 40
  Usize = 40
  NoRange = NoRange
  NoEnd = NoEnd
SPECIFICATION Spec
INVARIANT UnsatisfiableIs416
CHECK_DEADLOCK FALSE
