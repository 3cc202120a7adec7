-------------------------------- MODULE Group --------------------------------
(***************************************************************************)
(* The elliptic-curve groups G1 and G2 of the pairing, abstracted to the   *)
(* free abelian group over named generators: a point is a finite function  *)
(* from "terms" (a validator's public key, a sum generator, or a pair       *)
(* <<key, hash point>> standing for key * hash) to non-zero integer         *)
(* coefficients.  Under the discrete-logarithm assumption two points built  *)
(* from independent generators are equal exactly when their coefficients   *)
(* are, so equality of these functions is the pairing equation.            *)
(*                                                                         *)
(* The in-circuit group gadgets (r1cs_std G1Gadget / G2Gadget) use the     *)
(* incomplete affine addition formula: it cannot represent the identity    *)
(* and it cannot add a point to itself or to its negation.  AddOk states   *)
(* when an addition can be satisfied; the comments of                      *)
(* src/gadgets/macro_block.rs:61-64 and                                    *)
(* src/nano-sync/src/circuits/mnt4/macro_block.rs:173-176 are about       *)
(* exactly this.                                                          *)
(***************************************************************************)
EXTENDS Integers, Functions

\* Coefficient of term t in point a.
Coef(a, t) == IF t \in DOMAIN a THEN a[t] ELSE 0

\* The identity element (point at infinity).
Zero == [t \in {} |-> 0]

\* The generator named t.
Unit(t) == [x \in {t} |-> 1]

Add(a, b) ==
  LET D == {t \in DOMAIN a \cup DOMAIN b : Coef(a, t) + Coef(b, t) # 0}
  IN  [t \in D |-> Coef(a, t) + Coef(b, t)]

Neg(a) == [t \in DOMAIN a |-> -a[t]]

Sub(a, b) == Add(a, Neg(b))

\* The scalar multiple n * a.
Scale(n, a) == IF n = 0 THEN Zero ELSE [t \in DOMAIN a |-> n * a[t]]

\* The incomplete affine addition a + b has a satisfying assignment.
AddOk(a, b) == a # Zero /\ b # Zero /\ a # b /\ a # Neg(b)

\* Sum of the points p[i] for i in the set I.
SumOver(p, I) == FoldFunctionOnSet(Add, Zero, p, I)

\* e(h, pk) in the exponent: the G1 point pk * h for a G2 point pk.
Pair(pk, h) == [t \in {<<k, h>> : k \in DOMAIN pk} |-> pk[t[1]]]

\* The keys whose signature on hash point h occurs in the G1 point sig.
SignersOf(sig, h) == {t[1] : t \in {u \in DOMAIN sig : u[2] = h}}
=============================================================================
