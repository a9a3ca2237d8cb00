CONSTANTS
  p1 = p1
  p2 = p2
  g1 = g1
  Puts = {p1, p2}
  Gets = {g1}
  Full <- MCFull
  Rest <- MCRest
  PlainChunk = 2
  Nobody = Nobody
  Missing = Missing
SPECIFICATION Spec
INVARIANTS TypeOK BodyIsOneUpload AckedReadsBack
CHECK_DEADLOCK FALSE
