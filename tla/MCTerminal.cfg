SPECIFICATION Spec
CONSTANTS
  Width = 3
  Height = 2
  ByteMod = 4
  BootText <- MCBootText
  Keys <- MCKeys
  MaxKeys = 3
  Unspecified <- MCUnspecified
INVARIANTS
  ScreenShowsText
  CursorShown
  ShiftReleased
PROPERTY KeysRead
