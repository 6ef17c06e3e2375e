SPECIFICATION MCSpec
CONSTANTS
  Size = 5
  Bytes = {0, 1, 200}
  PAGE_SIZE = 64
  UINT32 = 1024
  Sizes = {0, 4, 9, 20, 33}
  MaxBlocks = 4
  width = 13
  height = 9
  pitch = 16
  fwidth = 2
  fheight = 2
  font_size = 2
  numglyph = 3
  glyphs <- MCGlyphs
  Chars = {1, 2, 10, 200}
INVARIANTS
  CopiesRight CallsRight BlocksApart
  CursorAhead ScreenShowsText
    LineWorks
  KeyStatesCatchUp
PROPERTIES
  EchoIsWhatWasTyped KeyStatesSettle
CHECK_DEADLOCK FALSE
