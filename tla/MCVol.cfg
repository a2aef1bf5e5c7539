CONSTANTS
  Slots = {s1, s2, s3}
  Names = {n1, n2}
  MaxRef = 4
SPECIFICATION Spec
SYMMETRY Symmetry
VIEW View
INVARIANTS RefsCover RefsExact
PROPERTIES AsMeant IntentKept ListRecovers
