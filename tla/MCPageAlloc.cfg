SPECIFICATION Spec
CONSTANTS
  NULL = NULL
  Void = Void
  MaxOrder = 2
  NumPages = 12
  StartPage = 1
  EndPage = 10
  Cleared = TRUE
INVARIANTS BitmapIsParity PagesAccounted
PROPERTY Implements
