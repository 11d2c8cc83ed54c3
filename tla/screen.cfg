\* Keys, scrolling, resizes and new text on a small window.
SPECIFICATION Spec
CONSTANTS
  Chars = {"a"}
  Chunks <- SmallChunks
  Sizes <- SmallSizes
  MaxLine = 3
  MaxCmdHistory = 2
  MaxHistoryLines = 3
INVARIANTS EditorIsSafe WrappedIsCurrent OffsetInRange WindowIsFull
PROPERTIES DraftComesBack ReaderKeepsPlace
