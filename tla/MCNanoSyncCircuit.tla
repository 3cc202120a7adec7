------------------------- MODULE MCNanoSyncCircuit -------------------------
(* Model values and bounds for checking NanoSyncCircuit with TLC.         *)
EXTENDS NanoSyncCircuit, TLC

CONSTANTS v1, v2, v3, h1, g1, g2

\* Two slots, one per chunk: v1 holds slot 1, v2 slot 2.
MCPrevKeys == (1 :> v1) @@ (2 :> v2)
\* Key lists a prover may commit to: v1 holding every slot, or v1 with v3,
\* a key outside the validator list that the prover controls.
MCOtherKeyLists == {<<v1, v1>>, <<v1, v3>>}
\* The canonical next validator list, and a forged one.
MCNextKeySets == {<<v2, v1>>, <<v1, v1>>}
MCCanonicalNextKeys == <<v2, v1>>

\* The faulty validators cannot reach the quorum alone.
ASSUME Cardinality(FaultySlots) <= VALIDATOR_SLOTS - MAX_NON_SIGNERS
=============================================================================
