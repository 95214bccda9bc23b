SPECIFICATION FairSpec
CONSTANTS
  Files = {f1, f2}
  NoFile = NoFile
  Workers = {w1, w2}
  MaxVer = 2
  Dests = {d1}
  LiveEdits = FALSE
  Lapses = FALSE
INVARIANTS EachFileOnce SkippedIsUploaded
PROPERTIES CleanRunIsComplete NotResent RunEnds
