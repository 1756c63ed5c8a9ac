---------------------------- MODULE MCComponents ----------------------------
(***************************************************************************)
(* Components for TLC.  ServerChecks and ScreenChecks add the pure         *)
(* functions, of which TLC evaluates the assumptions first.                *)
(***************************************************************************)
EXTENDS Components, ServerChecks, ScreenChecks

CONSTANTS w1, w2, w3, alice, bob, r1, r2, sponsor, queue, m1, m2, m3

MCWallet == [w \in {w1, w2, w3} |-> IF w = w3 THEN {bob} ELSE {alice, bob}]
MCCreated == [m \in {m1, m2, m3} |-> IF m = m3 THEN 1 ELSE 0]
MCOpens == [m \in {m1, m2, m3} |-> IF m = m3 THEN 2 ELSE 0]
MCExpiry == [m \in {m1, m2, m3} |->
              IF m = m1 THEN 2 ELSE IF m = m2 THEN 4 ELSE 6]

MCZoneOffset == [zone \in {"close", "mid", "edge"} |->
                   IF zone = "close" THEN 2 ELSE IF zone = "mid" THEN 4 ELSE 6]

MCZoneTarget == [zone \in {"close", "mid", "edge"} |->
                   IF zone = "close" THEN 56 ELSE IF zone = "mid" THEN 61 ELSE 63]
MCPracticeOffsets == <<15000, 22500, 30000, 37500, 45000>>

\* An expected score that falls as the gap does, and is 50 percent at none.
MCExpected == [gap \in -200 .. 200 |-> IF gap >= 0 THEN 50 + gap \div 5 ELSE 50 - (-gap) \div 5]
MCLower == [a \in {"Ab", "ab", "cd", "ef"} |-> IF a = "Ab" THEN "ab" ELSE a]
MCCoin == [n \in Networks |-> "dusdc"]
MCAliases == "FLICKY_PACKAGE" :> <<"FLICKY_PACKAGE_ID">>
=============================================================================
