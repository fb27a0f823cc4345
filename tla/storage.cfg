SPECIFICATION Spec
CONSTANTS
  accept = accept  relist = relist  clear = clear  empty = empty  r1 = r1
  Callers = {accept, relist, clear, empty}
  Op <- MCOp
  Readers = {r1}
  Rows = {1, 2, 3, 4, 5, 6}
  OfferOf <- MCOfferOf
  FirstRows = {2, 5, 6}
  Connections = 2
  SelectPage = 2
  ResultPage = 3
  MaxCrashes = 1
INVARIANTS TypeOK PoolKept PagesComplete PagesDistinct
PROPERTIES Served
CHECK_DEADLOCK FALSE
