------------------------- MODULE MCCorporateTariff -------------------------
(* Instances of CorporateTariff for TLC. *)
EXTENDS CorporateTariff, TLC

CONSTANTS t1, t2, p1, p2

\* A dearer season.
SomePrices == { [source |-> "SEASON", amount |-> 2] }

\* Other conditions, with which the tariff is on; and switching it off.
SomePlans == { [terms |-> t2, active |-> TRUE], [terms |-> None, active |-> FALSE] }

Amounts == {1, 2}
=============================================================================
