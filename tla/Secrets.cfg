SPECIFICATION Spec
CONSTANTS
  r1 = r1
  r2 = r2
  mask = mask
  w = w
  h = h
  m = m
  t = t
  Callers = {r1, r2}
  Pieces <- SomePieces
  MaxPieces = 3
  EndMark = EndMark
  NoEntry = NoEntry
  NoText = NoText
  Unknown = Unknown
  NoCall = NoCall
  Kinds = {"account", "proxy"}
  Mask = mask
  Whole = {w}
  Heads = {h}
  Middles = {m}
  Tails = {t}
  Secrets <- ShortAndLong
  NoStanza = NoStanza
  Blank = Blank
  Absent = Absent
  MaxLost = 1
  MaxFailing = 1
SYMMETRY Symmetry
INVARIANTS TypeOK SavedIsServed
PROPERTIES RegisterSpec ReadsEncrypt
CHECK_DEADLOCK FALSE
