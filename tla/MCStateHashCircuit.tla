------------------------- MODULE MCStateHashCircuit -------------------------
(* Model values and bounds for checking StateHashCircuit with TLC.        *)
EXTENDS StateHashCircuit, TLC

CONSTANTS v1, v2, h1, g1, g2

\* Three slots: v1 holds two of them, v2 one.
MCPrevKeys == (1 :> v1) @@ (2 :> v1) @@ (3 :> v2)
\* A prover may claim that the faulty v1 holds every slot.
MCOtherKeyLists == {<<v1, v1, v1>>}
\* The canonical next validator list, and a forged one.
MCNextKeySets == {<<v2, v1>>, <<v1, v1>>}
MCCanonicalNextKeys == <<v2, v1>>
\* Key coordinates for the serialization: x in X_BITS = 4 bits, and the
\* y bit set for one key only.
MCKeyX == (v1 :> 5) @@ (v2 :> 9)
MCKeyYBit == (v1 :> FALSE) @@ (v2 :> TRUE)

\* The faulty validators cannot reach the circuit's quorum alone.
ASSUME Cardinality(FaultySlots) <= VALIDATOR_SLOTS - MAX_NON_SIGNERS
=============================================================================
