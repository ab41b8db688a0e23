SPECIFICATION MCSpec
CONSTANTS
  Users = {u1}
  Purchases = {p1}
  PayMethods = {"wallet"}
  Price = 1
  Funds = 1
  Requests = {r1, r2}
  MaxTickets = 2
  Switches <- OnlineOnly
  Driver = "local"
  Drivers = {"local"}
  Failures = {"process"}
  MaxFaults = 1
INVARIANT CancelRefunds
