---------------------------- MODULE MCMatchmaking ----------------------------
(***************************************************************************)
(* Instances of Matchmaking for TLC.                                       *)
(***************************************************************************)
EXTENDS Matchmaking, TLC

CONSTANTS alice, bob, carol     \* addresses
CONSTANTS tab1, tab2, tab3      \* connections

ThreeTabs == {tab1, tab2, tab3}
ThreePlayers == {alice, bob, carol}

\* One tab each, and Alice with two tabs beside Bob.
OneTabEach == tab1 :> {alice} @@ tab2 :> {bob} @@ tab3 :> {carol}
TwoTabs == tab1 :> {alice} @@ tab2 :> {alice} @@ tab3 :> {bob}
=============================================================================
