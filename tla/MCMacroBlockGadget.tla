------------------------- MODULE MCMacroBlockGadget -------------------------
(* Model values and bounds for checking MacroBlockGadget with TLC.        *)
EXTENDS MacroBlockGadget, TLC

CONSTANTS v1, v2, v3, h1, g1, g2

\* Four slots: validator v1 holds two slots, v2 and v3 one each (a validator's key
\* occurs once per slot it holds in the validator list).
MCPrevKeys == (1 :> v1) @@ (2 :> v1) @@ (3 :> v2) @@ (4 :> v3)
MCNextKeySets == {<<v2, v3>>}
=============================================================================
