----------------------------- MODULE MCDealPlay -----------------------------
(***************************************************************************)
(* Four seats, two cards each: the leader holds two hearts or a heart      *)
(* and a spade, and the other six cards are dealt in every way, as a deal  *)
(* of every type.  The deck holds hearts, kings, a queen, a jack and the   *)
(* king of hearts; the first trick stands for the seventh.                 *)
(***************************************************************************)
EXTENDS DealPlay, FiniteSetsExt

MCPlayerOrder == <<"N", "E", "S", "W">>

KH == [rank |-> King, suit |-> "H"]
QH == [rank |-> Queen, suit |-> "H"]
\* 2S: a definition cannot begin with a digit.
LowS == [rank |-> 2, suit |-> "S"]

Deck ==
  {KH, QH, LowS, [rank |-> Ace, suit |-> "S"],
   [rank |-> 2, suit |-> "H"], [rank |-> Jack, suit |-> "S"],
   [rank |-> King, suit |-> "C"], [rank |-> 10, suit |-> "C"]}

Hands ==
  UNION {{[N |-> n, E |-> e, S |-> s, W |-> Deck \ (n \cup e \cup s)] :
            s \in kSubset(2, Deck \ (n \cup e))} :
         <<n, e>> \in {<<n, e>> \in {{KH, QH}, {KH, LowS}} \X kSubset(2, Deck) :
                         n \cap e = {}}}

MCDeals == [type : 1..7, first : {"N"}, hands : Hands]
=============================================================================
