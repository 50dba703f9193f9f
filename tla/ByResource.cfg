SPECIFICATION RecordsSpec
CONSTANTS
  Parts = {"audit"}
  c1 = c1
  c2 = c2
  v1 = v1
  v2 = v2
  u1 = u1
  a = a
  b = b
  z = z
  Boots = {b1, b2}
  Creators = {c1, c2}
  Validators = {v1, v2}
  Setters = {u1}
  Codes = {a, b, z}
  CodeOf <- CodesAsked
  FirstCode = z
  NoDoc = {none}
  Dates = {1}
  Life = 2
  Day = 1
  MaxTime = 2
  MaxFaults = 1
  a1 = a1
  a2 = a2
  a3 = a3
  a4 = a4
  uu = uu
  uv = uv
  Servers = {w1, w2}
  Calls = {a1, a2, a3, a4}
  Mixes <- MixesSeen
  CallerOf <- Callers
  NoUser = NoUser
  AnyUser = AnyUser
  PageSize = 1
  FlagLife = 2
  LastHour = 2
  MaxRestarts = 1
  MaxRejects = 1
  ParsedAs <- TextsChanged
  Products = {1, 2, 3}
  Companies = {5}
  Taxes = {7, 8, 9}
  SaleTaxes <- SaleTaxesOf
  PurchaseTaxes <- PurchaseTaxesOf
  Invoices = {1, 2, 3}
  Lines = {"l1", "l2"}
  InvoiceOf <- InvoiceEach
  PartnerOf <- PartnerEach
  CommercialOf <- CommercialEach
  NameOf <- NameEach
  ProductLimit = 2
  Samples <- SampleValues
  MaxOdoo = 2
  MaxOutages = 1
  Received <- Decoded
INVARIANTS
  FoundByResource
CHECK_DEADLOCK FALSE
