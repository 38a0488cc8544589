SPECIFICATION Spec
CONSTANTS
  name = name
  price = price
  code = code
  a = a
  n5 = n5
  s5 = s5
  t = t
  None = None
  NoMoney = NoMoney
  Unparsed = Unparsed
  Fields <- MCFields
  Required <- MCRequired
  Key = name
  Values <- MCValues
  Text <- MCText
  Money <- MCMoney
  Typed <- MCTyped
  Bare <- MCBare
  Coerce <- MCCoerce
  Answers <- MCAnswers
  Pages <- MCPages
  Replies <- MCReplies
  MaxRepairs = 1
  Samples = 2
  MinOracles = 1
INVARIANTS DeterministicStands OnlyConstraintsEscape GapClosed
