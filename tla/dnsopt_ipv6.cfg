SPECIFICATION Spec
CONSTANTS
  Chars <- MCChars
  MaxText = 4
  Digit <- MCDigit
  MaxPort = 20
  SERVNAME_MAXLEN = 3
  DefaultPort = 5
INVARIANT BracketedForm
\* The parser returns or ends the program.
CHECK_DEADLOCK FALSE
