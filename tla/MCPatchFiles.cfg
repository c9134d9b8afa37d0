CONSTANTS
  f1 = f1  u1 = u1  j1 = j1  j2 = j2  g1 = g1  g2 = g2
  Journals = {j1}
  Files = {f1, f2}
  Keys = {k1}
  UserValues = {u1}
  Gateway <- OneGateway
  Original <- MCOriginal
  NoValue = NoValue
  Absent = Absent
  NoHash = NoHash
  NoJournal = NoJournal
  MaxApplies = 2
  MaxCrashes = 1
  MaxEdits = 1
SYMMETRY OneSymmetry
SPECIFICATION Spec
INVARIANTS JournalCoversFiles RestoredMeansOriginal
CHECK_DEADLOCK FALSE
