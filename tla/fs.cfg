\* The file there is and two uploads, to a or to a.part, beside one read.
SPECIFICATION FsSpec
CONSTANTS
  a = a
  r1 = r1
  Names = {a}
  MaxPart = 2
  Existing <- OneFile
  ReadIds = {r1}
  MaxXfers = 2
  Sizes = {0, 2}
  MaxFiles = 3
INVARIANTS FsInv ReadsOneFile
PROPERTIES CommitsItsOwn KeepsFiles
