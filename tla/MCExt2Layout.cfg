SPECIFICATION LayoutSpec
CONSTANTS
  WordMod = 16777216
  Disks <- MCDisks
  Asked <- MCAsked
INVARIANT InodeFound
