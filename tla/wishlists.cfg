SPECIFICATION Spec
CONSTANTS
  Requests = {r1, r2}
  Customers = {c1, c2}
  Operations = {"Wishlist", "AddProductsToWishlist", "RemoveProductsFromWishlist"}
  Products = {p1}
  UnknownSkus = {u1}
  Quantities = {0}
  UniqueOwner = TRUE
  MaxBasket = 2
  MaxLists = 2
  MaxItems = 4
  MaxFaults = 1
SYMMETRY Symmetry
INVARIANTS
  TypeOK
PROPERTIES
  AddedOrReported
  OnlyOwnerChanges
