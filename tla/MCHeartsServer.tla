--------------------------- MODULE MCHeartsServer ---------------------------
(***************************************************************************)
(* Instances of the server small enough for TLC: two or three seats with   *)
(* one or two cards each, and a game of one or two deals.  The clients may *)
(* name any card of the deck and, with two seats, also one that is not in  *)
(* the deal.                                                               *)
(***************************************************************************)
EXTENDS ServerProperties

KH == [rank |-> King, suit |-> "H"]
QH == [rank |-> Queen, suit |-> "H"]
LowH == [rank |-> 2, suit |-> "H"]
AS == [rank |-> Ace, suit |-> "S"]
JS == [rank |-> Jack, suit |-> "S"]
TenC == [rank |-> 10, suit |-> "C"]
-----------------------------------------------------------------------------
\* Two seats.  Their order around the table is not that of std::map.
TwoPlayerOrder == <<"N", "E">>
TwoKeyOrder == <<"E", "N">>

\* Two cards each; the first trick stands for the seventh.
TwoOffers == {KH, QH, AS, TenC, JS}
Robber == [type |-> 7, first |-> "N", hands |-> [N |-> {KH, AS}, E |-> {QH, TenC}]]
Hearts == [type |-> 2, first |-> "E", hands |-> [N |-> {QH, AS}, E |-> {KH, TenC}]]
OneDeal == <<Robber>>
TwoDeals == <<Hearts, Robber>>

\* One card each.
SmallOffers == {KH, QH, JS}
SmallDeal == <<[type |-> 7, first |-> "N", hands |-> [N |-> {KH}, E |-> {QH}]]>>
SmallDeals ==
  SmallDeal \o <<[type |-> 2, first |-> "N", hands |-> [N |-> {JS}, E |-> {QH}]]>>
-----------------------------------------------------------------------------
\* Three seats, two cards each, in a deal that may end early and in one of all
\* the points.
ThreePlayerOrder == <<"N", "E", "S">>
ThreeKeyOrder == <<"E", "N", "S">>
ThreeOffers == {KH, QH, AS, TenC, JS, LowH}
ThreeHands == [N |-> {QH, AS}, E |-> {KH, TenC}, S |-> {JS, LowH}]
ThreeDeals == <<[type |-> 2, first |-> "E", hands |-> ThreeHands],
                [type |-> 7, first |-> "N", hands |-> ThreeHands]>>
=============================================================================
