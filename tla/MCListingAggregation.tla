------------------------- MODULE MCListingAggregation -------------------------
(* Small instances of ListingAggregation.                                    *)
EXTENDS ListingAggregation_inv

CONSTANTS i1, i2, e1, e2, h1, h2
===============================================================================
