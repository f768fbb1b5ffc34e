CONSTANTS
  Entry = {1, 2, 3}
  SortKey = {1, 2}
  MaxPage = 2
  Asked = {3}
  ListChanges = 1
SPECIFICATION ListSpec
INVARIANT ListedOnce
CHECK_DEADLOCK FALSE
