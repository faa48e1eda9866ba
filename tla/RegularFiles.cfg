SPECIFICATION Spec

CONSTANTS
  Files = {1, 2}
  MaxSize = 1
  MaxOutputBytes = 1

INVARIANT
  RegularFilesOnly
