CONSTANTS
  N = 4
  Cmds = {"get", "set"}
  HELP_CMD = "help"
  FlatMenus = TRUE
SPECIFICATION Spec
INVARIANT ListMatchesRegistry ChildrenFollowParent
