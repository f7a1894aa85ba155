CONSTANTS
  Forms = {a}
  Groups = {}
  None = None
  Tokens = {"q", "f", "Do"}
  Faults = {"later"}
  Cookies = {"none", "strict"}
  Annots = 1
  MaxTokens = 2
SPECIFICATION FairSpec
PROPERTY RunEnds
CHECK_DEADLOCK FALSE
