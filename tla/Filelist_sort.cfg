CONSTANTS
  Columns <- MCColumns
  Descending <- MCDescending
  Rows <- MCRows
  None = None
SPECIFICATION Spec
INVARIANT ArrowTellsOrder
