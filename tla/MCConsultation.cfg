SPECIFICATION MCSpec
CONSTANTS
  Users = {u1}
  Purchases = {p1, p2}
  PayMethods = {"wallet"}
  Price = 1
  Funds = 2
  Requests = {r1, r2}
  MaxTickets = 2
  Switches <- SwitchBound
  Driver = "local"
  Drivers = {"local", "pg"}
  Failures = {"get", "put", "refund", "process"}
  MaxFaults = 2
SYMMETRY RequestSymmetry
INVARIANTS TypeOK NoMoneyFromNothing OneInServiceOverFiles PlacesKeptOverFiles
PROPERTIES StaysOverOverFiles
