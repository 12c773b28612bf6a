\* Texts of up to seven characters, and sequences of statements.
SPECIFICATION Spec
CONSTANTS
  Settings = {"x"}  Forms = {}  MaxLength = 7
  Alphabets <- MCAlphabets
INVARIANTS LexerAgrees ParserAgrees  StaysReadOnly
CHECK_DEADLOCK FALSE
