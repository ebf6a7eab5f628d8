SPECIFICATION Spec
CONSTANTS
  Items <- MCItems
  DailyStock <- MCDailyStock
  Baskets <- MCBaskets
  MaxInt = 7
  Days = {0, 1}
  MaxOrders = 4
  Unlimited = Unlimited
INVARIANTS
  WithinDailyStock
  SoldMatchesOrders
  SoldOutOncePerDay
