--------------------------- MODULE MCCustomerReads ---------------------------
(* A small instance of CustomerReads: page sizes and numbers on both sides of  *)
(* the smallest that is valid, two select attributes and a text.               *)
EXTENDS CustomerReads
CONSTANTS colour, sizes, note

SmallSizes   == {-1, 0, 1, 2}
SmallNumbers == {-1, 0, 1, 2}
Backend == [a \in Attributes |-> IF a = sizes THEN "int" ELSE "varchar"]
ShopOptions == [a \in Selects |-> IF a = colour THEN {1, 2} ELSE {3}]
=============================================================================
