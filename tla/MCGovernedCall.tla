--------------------------- MODULE MCGovernedCall ---------------------------
(* Small instances of GovernedCall: two high-risk calls, one of them of an     *)
(* async function, that may wait for the same approval or for two; and these   *)
(* with a low-risk one.                                                        *)
EXTENDS GovernedCall

CONSTANTS high, highAsync, lowAsync

MCCalls == {high, highAsync, lowAsync}
MCHighRisk == {high, highAsync}
MCAsync == {highAsync, lowAsync}

\* The two that contend for an approval.
MCContenders == {high, highAsync}
MCAsyncContender == {highAsync}

=============================================================================
