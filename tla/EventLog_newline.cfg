CONSTANTS
  Body = {b1, b2}
  Junk = Junk
  Empty = Empty
  Cuts = {"part", "text"}
  MaxSeq = 4
SPECIFICATION Spec
INVARIANT NoLineRunsTogether
