SPECIFICATION BuildSpec
CONSTANTS
  Literal <- MCLiteral
  Param <- MCParam
  Star = Star
  Multi = Multi
  Template = Template
  Empty = Empty
  Slots = 4
  MaxSegments = 4
  Text <- MCText
  Value <- MCValue
  a = a
  b = b
  x = x
  y = y
INVARIANTS PartsAgree MatchesMeaning TemplatesInvert
CHECK_DEADLOCK FALSE
