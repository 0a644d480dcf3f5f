CONSTANTS
  Id <- McId
  NoId = ""
  StartTag <- McTag
  Text <- McText
  MaxElements = 30
  MaxTexts = 2
  ConditionOf <- McConditionOf
  NoCondition = NoCondition
  NoNode = NoNode
  Var <- McVar
  Val <- McVal
  Unset = Unset
SPECIFICATION McSpec
INVARIANTS
  DefaultIffListed
CHECK_DEADLOCK FALSE
