---------------------------- MODULE MCCatalogSlugs ----------------------------
(* Three shops in two regions; names with and without a number of a shop.  *)
EXTENDS CatalogSlugs

CONSTANTS East, West, Tea

MCRegionOf == [s \in Shops |-> IF s = 4 THEN East ELSE West]

Plain == [word |-> Tea, numbers |-> <<>>]
Numbered == [word |-> Tea, numbers |-> <<5>>]
PlainNames == {Plain}
AllNames == {Plain, Numbered}
=============================================================================
