SPECIFICATION Spec
CONSTANTS
  node = node  cli = cli
  ann = ann  bob = bob
  alice = alice  carl = carl
  clerk = clerk
  k1 = k1
  none = none
  Process = {node, cli}
  Caller = {ann, bob}
  Home <- MCHome
  Actor = {alice, carl}
  Role = {clerk}
  Key = {k1}
  NoActor = none
  NoRole = none
  NoKey = none
  MaxEvents = 4
  MaxLost = 1
SYMMETRY Symmetry
INVARIANTS
  TypeOK DirectoryIsFold RevokedStaysOut OverlapOnly InviteSpent
