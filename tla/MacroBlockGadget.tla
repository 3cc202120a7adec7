--------------------------- MODULE MacroBlockGadget ---------------------------
(***************************************************************************)
(* MacroBlockGadget::verify of src/gadgets/macro_block.rs: the in-circuit  *)
(* check that a macro block carries a valid prepare/commit BLS signature   *)
(* of the previous validator set.                                          *)
(*                                                                         *)
(* Constraint synthesis is sequential; the model takes one step per         *)
(* iteration of the aggregation loop of aggregate_public_key, one step per *)
(* round's final subtraction and non-signer bound, and one step for the    *)
(* combined signature check.  A constraint that no witness satisfies       *)
(* makes the run end "rejected": no proof exists for that witness.         *)
(*                                                                         *)
(* The witness (the block and the previous keys) is chosen in Init and     *)
(* never changes.  A signature is the sum of the signatures of a set of    *)
(* slots: a slot's holder signs the round's hash point with its key.       *)
(***************************************************************************)
EXTENDS Integers, FiniteSets, Group

CONSTANTS
  VALIDATOR_SLOTS,   \* number of slots of the previous validator set
  Validators,        \* key holders; a validator's public key is named by it
  PrevKeys,          \* [1..VALIDATOR_SLOTS -> Validators]: key of each slot
  Headers,           \* header hashes a block may carry
  NextKeySets,       \* next validator key lists a block may carry
  BlockNumbers,      \* block numbers the circuit may be given
  max_non_signers,   \* the exclusive bound on non-signers it is passed
  SumGenG1,          \* sum_generator_g1
  SumGenG2           \* sum_generator_g2

Slots == 1..VALIDATOR_SLOTS
Rounds == {"Prepare", "Commit"}
RoundTag == [r \in Rounds |-> IF r = "Prepare" THEN 0 ELSE 1]   \* enum Round

ASSUME PrevKeys \in [Slots -> Validators]

VARIABLES
  prev_public_keys,  \* input: keys of the slots that sign this block
  block,             \* input: the MacroBlockGadget witness
  block_number,      \* input: the block number
  round,             \* "Prepare", "Commit", "sig" (combined check) or "done"
  i,                 \* aggregation loop index
  sum,               \* running sum of aggregate_public_key
  num_non_signers,   \* running count of aggregate_public_key
  agg_pk,            \* [Rounds -> G2 point]: aggregate_public_key results
  result             \* "running", "accepted" or "rejected"

inputs == <<prev_public_keys, block, block_number>>
loop == <<round, i, sum, num_non_signers, agg_pk, result>>
vars == <<inputs, loop>>

(***************************************************************************)
(* MacroBlockGadget::hash: Pedersen hash of round || block number ||       *)
(* header_hash || public_keys.  The hash is collision resistant, so it is  *)
(* modelled by the tuple it hashes; the bit serialization is left out.     *)
(***************************************************************************)
MessageHash(r, bn, hh, pks) == <<RoundTag[r], bn, hh, pks>>

hash(r) == MessageHash(r, block_number, block.header_hash, block.public_keys)

\* The aggregate signature, by the holders of the slots in S of key list
\* keys, of hash point h.
SignatureBy(keys, S, h) == SumOver([s \in Slots |-> Pair(Unit(keys[s]), h)], S)

Bitmaps == [Slots -> BOOLEAN]
Set(bitmap) == {s \in Slots : bitmap[s]}

\* The fields of MacroBlockGadget; a signature is a G1 point.
MacroBlock(hh, pks, b0, sig0, b1, sig1) ==
  [header_hash |-> hh, public_keys |-> pks,
   prepare_signer_bitmap |-> b0, prepare_signature |-> sig0,
   commit_signer_bitmap |-> b1, commit_signature |-> sig1]

(***************************************************************************)
(* Witnesses the prover can allocate for this block number: any header,   *)
(* next keys and bitmaps, and as signatures the aggregate of what some set *)
(* of slot holders signed for this block.                                  *)
(***************************************************************************)
Blocks(bn) ==
  {MacroBlock(hh, pks, b0, SignatureBy(PrevKeys, S0, MessageHash("Prepare", bn, hh, pks)),
                       b1, SignatureBy(PrevKeys, S1, MessageHash("Commit", bn, hh, pks))) :
     hh \in Headers, pks \in NextKeySets, b0 \in Bitmaps, b1 \in Bitmaps,
     S0 \in SUBSET Slots, S1 \in SUBSET Slots}

\* get_hash_and_public_keys: the signer bitmap of the round.
signer_bitmap(r) ==
  IF r = "Prepare" THEN block.prepare_signer_bitmap
                   ELSE block.commit_signer_bitmap

\* Mutant: the non-signer count is not reset between the rounds.
StartAggregationNoReset(r) ==
  /\ round' = r
  /\ i' = 1
  /\ sum' = Unit(SumGenG2)
  /\ UNCHANGED num_non_signers

\* Mutant: the running sum starts at the identity.
StartAggregationAtZero(r) ==
  /\ round' = r
  /\ i' = 1
  /\ sum' = Zero
  /\ num_non_signers' = 0

\* The loop state aggregate_public_key starts from: the running sum starts
\* at the sum generator, not at the identity.
StartAggregation(r) ==
  /\ round' = r
  /\ i' = 1
  /\ sum' = Unit(SumGenG2)
  /\ num_non_signers' = 0

InitLoop ==
  /\ round = "Prepare"
  /\ i = 1
  /\ sum = Unit(SumGenG2)
  /\ num_non_signers = 0
  /\ agg_pk = [r \in Rounds |-> Zero]
  /\ result = "running"

InitWitness ==
  /\ prev_public_keys = PrevKeys
  /\ block_number \in BlockNumbers
  /\ block \in Blocks(block_number)

Init == InitWitness /\ InitLoop

\* CondSelectGadget::conditionally_select(included, new_sum, sum).
cond_sum(included, new_sum, old_sum) == IF included THEN new_sum ELSE old_sum

\* get_hash_and_public_keys: the commit round passes the prepare bitmap as
\* reference; the prepare round passes None, under which every slot counts
\* as in the reference.
reference_bitmap(r) ==
  IF r = "Commit" THEN block.prepare_signer_bitmap ELSE [s \in Slots |-> TRUE]

\* Mutant: the non-signer count ignores the reference bitmap.
counted_without_reference(r, j) == signer_bitmap(r)[j]

\* Whether slot j counts as a signer: the signer bit ANDed with the
\* reference bitmap's bit, where there is one.
counted(r, j) == signer_bitmap(r)[j] /\ reference_bitmap(r)[j]

(***************************************************************************)
(* One iteration of the loop of aggregate_public_key.  new_sum is always   *)
(* computed and the select uses the signer bit; only the non-signer count  *)
(* uses counted.  If the incomplete addition sum + key has no satisfying   *)
(* assignment the circuit is unsatisfiable; synthesis still goes on.       *)
(***************************************************************************)
AggregateStep ==
  /\ round \in Rounds
  /\ i \in Slots
  /\ LET key     == Unit(prev_public_keys[i])
         new_sum == Add(sum, key)
     IN  /\ sum' = cond_sum(signer_bitmap(round)[i], new_sum, sum)
         /\ num_non_signers' = IF counted(round, i) THEN num_non_signers
                                                    ELSE num_non_signers + 1
         /\ i' = i + 1
         /\ result' = IF AddOk(sum, key) THEN result ELSE "rejected"
  /\ UNCHANGED <<inputs, round, agg_pk>>

\* The end of aggregate_public_key: subtract the generator, then
\* enforce_smaller_than(num_non_signers, max_non_signers).
RoundSatisfiable ==
  /\ result = "running"
  /\ AddOk(sum, Neg(Unit(SumGenG2)))
  /\ num_non_signers < max_non_signers

FinishRound ==
  /\ round \in Rounds
  /\ i = VALIDATOR_SLOTS + 1
  /\ RoundSatisfiable
  /\ agg_pk' = [agg_pk EXCEPT ![round] = Sub(sum, Unit(SumGenG2))]
  /\ IF round = "Prepare"
       THEN StartAggregation("Commit")
       ELSE /\ round' = "sig"
            /\ UNCHANGED <<i, sum, num_non_signers>>
  /\ UNCHANGED <<inputs, result>>

RejectRound ==
  /\ round \in Rounds
  /\ i = VALIDATOR_SLOTS + 1
  /\ ~RoundSatisfiable
  /\ round' = "done"
  /\ result' = "rejected"
  /\ UNCHANGED <<inputs, i, sum, num_non_signers, agg_pk>>

(***************************************************************************)
(* verify: add the two signatures through the G1 sum generator, then       *)
(* CheckSigGadget::check_signatures, the pairing equation                  *)
(* e(sig, g2) = e(hash0, pk0) * e(hash1, pk1).                             *)
(***************************************************************************)
SignatureSatisfiable ==
  LET s1  == Add(Unit(SumGenG1), block.prepare_signature)
      s2  == Add(s1, block.commit_signature)
      sig == Sub(s2, Unit(SumGenG1))
  IN  /\ AddOk(Unit(SumGenG1), block.prepare_signature)
      /\ AddOk(s1, block.commit_signature)
      /\ AddOk(s2, Neg(Unit(SumGenG1)))
      /\ sig = Add(Pair(agg_pk["Prepare"], hash("Prepare")),
                   Pair(agg_pk["Commit"], hash("Commit")))

CheckSignatures ==
  /\ round = "sig"
  /\ round' = "done"
  /\ result' = IF SignatureSatisfiable THEN "accepted" ELSE "rejected"
  /\ UNCHANGED <<inputs, i, sum, num_non_signers, agg_pk>>

Step ==
  \/ AggregateStep
  \/ FinishRound
  \/ RejectRound
  \/ CheckSignatures

Spec == Init /\ [][Step]_vars

-----------------------------------------------------------------------------
(***************************************************************************)
(* Properties.                                                             *)
(***************************************************************************)

\* The key holders whose signature on round r's hash point the block carries.
Signers(r) ==
  SignersOf(Add(block.prepare_signature, block.commit_signature), hash(r))

\* The slots whose holder signed both rounds.
SignedBothSlots ==
  {s \in Slots : prev_public_keys[s] \in Signers("Prepare") \cap Signers("Commit")}

TypeOK ==
  /\ prev_public_keys \in [Slots -> Validators]
  /\ block_number \in BlockNumbers
  /\ block.header_hash \in Headers
  /\ block.public_keys \in NextKeySets
  /\ block.prepare_signer_bitmap \in Bitmaps
  /\ block.commit_signer_bitmap \in Bitmaps
  /\ round \in Rounds \cup {"sig", "done"}
  /\ i \in 1..VALIDATOR_SLOTS + 1
  /\ num_non_signers \in 0..VALIDATOR_SLOTS
  /\ result \in {"running", "accepted", "rejected"}
  /\ result = "accepted" => round = "done"

(***************************************************************************)
(* Finality: when the circuit is satisfiable, the slots whose holders      *)
(* signed BOTH the prepare and the commit hash point are more than         *)
(* VALIDATOR_SLOTS - max_non_signers.  The commit round's non-signer count *)
(* uses commit AND prepare (the reference bitmap) for exactly this.        *)
(***************************************************************************)
QuorumSignedBoth ==
  result = "accepted" =>
    Cardinality(SignedBothSlots) > VALIDATOR_SLOTS - max_non_signers

(***************************************************************************)
(* Completeness: a block signed honestly (each signature aggregates        *)
(* exactly the slots of its bitmap) with fewer than max_non_signers        *)
(* non-signers in the prepare bitmap and in commit AND prepare makes the   *)
(* circuit satisfiable.  The generator offset of the running sums is what *)
(* keeps the incomplete additions satisfiable.                             *)
(***************************************************************************)
HonestBlock ==
  LET P == Set(block.prepare_signer_bitmap)
      C == Set(block.commit_signer_bitmap)
  IN  /\ block.prepare_signature = SignatureBy(prev_public_keys, P, hash("Prepare"))
      /\ block.commit_signature = SignatureBy(prev_public_keys, C, hash("Commit"))
      /\ P # {} /\ C # {}
      /\ Cardinality(Slots \ P) < max_non_signers
      /\ Cardinality(Slots \ (P \cap C)) < max_non_signers

HonestBlockAccepted ==
  (round = "done" /\ HonestBlock) => result = "accepted"

(***************************************************************************)
(* What the spec (4.1, 8) says of the commit round: a commit signer is     *)
(* counted in the commit aggregate public key only if it also signed the   *)
(* prepare round, i.e. the commit aggregate is over commit AND prepare.    *)
(***************************************************************************)
CommitAggregateIsAnd ==
  round = "sig" =>
    agg_pk["Commit"] =
      SumOver([s \in Slots |-> Unit(prev_public_keys[s])],
              Set(block.commit_signer_bitmap) \cap Set(block.prepare_signer_bitmap))
=============================================================================
