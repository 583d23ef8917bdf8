SPECIFICATION Spec
CONSTANTS
  c1 = c1
  w1 = w1
  w2 = w2
  MaxEdits = 2
  Stamp <- MCStamp
  Comments = {c1}
  MaxTries = 2
  Workers = {w1}
  MaxFailures = 1
CHECK_DEADLOCK FALSE
INVARIANT RoutedOnce
 
 
