SPECIFICATION Spec
CONSTANTS
  t1 = t1
  t2 = t2
  d1 = d1
  d2 = d2
  k1 = k1
  Tabs <- MCTabs
  Devices <- MCDevices
  AlertKeys <- MCAlertKeys
  LengthMenu <- MCMenu
  SimpleLength = 1
  InlineLength = 2
  Orders <- MCOrders
  DefaultOrder = "id"
  MaxMoves = 5
  MaxRestarts = 1
SYMMETRY Symmetry
CHECK_DEADLOCK FALSE
INVARIANTS
  TypeOK
  NoEmptyPage
  PagesAligned
  OwnPressIsShown
  ChoiceIsKept
