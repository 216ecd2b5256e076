CONSTANTS
  CLP_PRINT_MARGIN = 7
  HelpOffsets = {4, 5}
  HelpChars = {"a", " ", CR, LF}
  MaxHelpLen = 4
  CR = CR
  LF = LF
  CLP_COMMAND_LINE_LEN = 6
  Chars = {"m", "g", ".", " "}
  Menu <- MC_Menu
  NUL = NUL
  EOL = EOL
  BS = BS
SPECIFICATION Spec
INVARIANT LineIsTyped
