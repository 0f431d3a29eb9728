SPECIFICATION Spec
CONSTANTS
  p1 = p1
  v1 = v1
  Pods = {p1}
  Volumes = {v1}
  Reserved = {p1}
  RateCards <- MCRateCards
  Price <- MCPrice
  Units <- MCUnits
  Cent = 2
  Hour = 4
  Reservations <- MCReservations
  Granularity = 2
  Day = 2
  DaysIn <- MCDaysIn
  Scale = 2
  Lag = 1
  Horizon = 6
  MaxRecords = 3
CHECK_DEADLOCK FALSE
INVARIANTS
  OnceAtMost
  EverySecond
  RateOfTheSecond
  NeverTwice
  WholeMonth
