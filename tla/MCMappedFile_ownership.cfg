CONSTANTS
  o1 = o1
  o2 = o2
  o3 = o3
  EIO = EIO
  ENOMEM = ENOMEM
  Object = {o1, o2, o3}
  Errno = {EIO, ENOMEM}
  Sizes = {0, 1, 2}
  MaxMaps = 3
SYMMETRY Symmetry
SPECIFICATION MappedSpec
INVARIANTS
  OneOwner
  NoDescriptorLeft
  ThrowsTheCause
PROPERTY UnmappedWithItsOwner
