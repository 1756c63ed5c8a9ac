-------------------------- MODULE MCDreamSwipeDuel --------------------------
(***************************************************************************)
(* Instances of DreamSwipeDuel for TLC.                                    *)
(***************************************************************************)
EXTENDS DuelViews, TLC

\* One-card decks, and one that disagrees with a declared size of 1.
OneCardDecks == {<<"btc">>, <<"btc", "eth">>}
OneDeck == {<<"btc">>}

\* Two decks of one size: the same cards in another order.
SwappedDecks == {<<"btc", "eth">>, <<"eth", "btc">>}

\* Premium 1 for a size of 3: a win earns 2, a loss costs 1, a void nets 0.
OneFill == {[premium |-> 1, filled |-> 3]}

PlayerSymmetry == Permutations(Players)
=============================================================================
