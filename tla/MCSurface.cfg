\* One output that comes and goes, with changes of size, scale and state.
SPECIFICATION FairSpec
CONSTANTS
  Widths = {1, 2}
  Scales = {1, 2}
  MaxVersion = 3
INVARIANTS NoLostUpdate
PROPERTIES ShownEventually NoTearing
