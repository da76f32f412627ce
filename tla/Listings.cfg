SPECIFICATION Spec
CONSTANTS
  AllRows <- MCRows
  KeyOf <- MCKeyOf
  FixedPage = 2
  DefaultPage = 2
  LargestPage = 3
  Numbers <- MCNumbers
  NoNumber = NoNumber
  MaxChanges = 2
CHECK_DEADLOCK FALSE
INVARIANTS NothingMissed
