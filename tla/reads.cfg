SPECIFICATION SpecReads
CONSTANTS
  colour = colour
  sizes = sizes
  note = note
  NoRow = NoRow
  Null = Null
  Lists = {"addresses", "items_v2"}
  Sizes <- SmallSizes
  Numbers <- SmallNumbers
  DefaultSize = 20
  MaxRows = 3
  Attributes = {colour, sizes, note}
  Selects = {colour, sizes}
  TableOf <- Backend
  Options = {1, 2, 3}
  OptionsOf <- ShopOptions
  Texts = {{}}
  MaxEdits = 1
INVARIANTS
  ReadsTypeOK PanicMeansNamedBelow OnceUnlessShifted AttributesAnswered
