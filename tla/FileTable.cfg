\* Two descriptors above the standard ones; scripts open by name, folders too.
SPECIFICATION Spec
CONSTANTS
  Obj = {o1, o2, o3}
  Handle = {h1, h2, h3, h4}
  Redirect = {x}
  PoolSize = 6
  Numbers = {}
  Folders = TRUE
  NULL = NULL
SYMMETRY Symmetry
INVARIANTS NoClosedHandle OwnDescriptors
PROPERTY DescriptorStable
