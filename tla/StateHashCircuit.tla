--------------------------- MODULE StateHashCircuit ---------------------------
(***************************************************************************)
(* MacroBlockCircuit::generate_constraints of src/circuits/macro_block.rs: *)
(* the non-recursive state-transition circuit.  Public inputs are the     *)
(* initial and final state hashes (Blake2s of block number || public      *)
(* keys); the private witness is the previous keys, the block number and  *)
(* the macro block.  The circuit checks the initial hash, runs            *)
(* MacroBlockGadget::verify (module MacroBlockGadget), adds EPOCH_LENGTH  *)
(* to the block number with UInt32::addmany, and checks the final hash.   *)
(*                                                                         *)
(* The world around it: the previous validators signed one canonical      *)
(* block at the initial block number; those in Faulty sign whatever the   *)
(* prover asks.  The prover picks any witness and any claimed final state *)
(* and succeeds when the constraints are satisfiable.                     *)
(***************************************************************************)
EXTENDS Integers, FiniteSets, Group, StateSerialization

CONSTANTS
  VALIDATOR_SLOTS, Validators, PrevKeys, Headers, NextKeySets, BlockNumbers,
  SumGenG1, SumGenG2,         \* as in MacroBlockGadget
  MAX_NON_SIGNERS,            \* constants.rs, passed as max_non_signers
  EPOCH_LENGTH,               \* constants.rs
  Faulty,                     \* validators that sign anything
  OtherKeyLists,              \* key lists a prover may claim instead of PrevKeys
  InitialBlockNumber,         \* block number of the trusted initial state
  CanonicalHeader,            \* header hash of the block the honest signed
  CanonicalNextKeys           \* next keys of the block the honest signed

ASSUME Faulty \subseteq Validators
ASSUME InitialBlockNumber \in BlockNumbers

VARIABLES
  prev_public_keys, block, block_number,                  \* witness
  round, i, sum, num_non_signers, agg_pk, result,         \* gadget state
  initial_state_hash, final_state_hash,                   \* public inputs
  new_block_number,                                       \* addmany result
  pc,                                                     \* synthesis step
  verdict                                                 \* circuit outcome

G == INSTANCE MacroBlockGadget WITH max_non_signers <- MAX_NON_SIGNERS

gadget == <<round, i, sum, num_non_signers, agg_pk, result>>
witness == <<prev_public_keys, block, block_number>>
vars == <<witness, gadget, initial_state_hash, final_state_hash,
          new_block_number, pc, verdict>>

\* Blake2s, a collision-resistant hash modelled by the bytes it hashes.
Blake2s(bytes) == <<"blake2s", bytes>>

\* StateHashGadget::evaluate: Blake2s of the serialized block number and
\* public keys (module StateSerialization).
StateHash(bn, keys) == Blake2s(blake2s_input(evaluate_bits(bn, keys)))

\* The state hash as published outside the circuit, from the reference
\* byte layout.
PublishedStateHash(bn, keys) == Blake2s(ReferenceBytes(bn, keys))

\* UInt32::addmany: addition modulo 2^width.
addmany(a, b) == (a + b) % (2 ^ BN_WIDTH)

\* The message each validator signed in round r for the claimed block:
\* the honest signed the canonical block, the faulty sign the claimed one.
SignedMessage(v, r, bn, hh, pks) ==
  IF v \in Faulty THEN G!MessageHash(r, bn, hh, pks)
                  ELSE G!MessageHash(r, InitialBlockNumber, CanonicalHeader,
                                     CanonicalNextKeys)

\* The aggregate signature of the slots S of the real validator set.
Available(S, r, bn, hh, pks) ==
  SumOver([s \in G!Slots |->
             Pair(Unit(PrevKeys[s]), SignedMessage(PrevKeys[s], r, bn, hh, pks))], S)

\* The key lists a witness may carry, and the slots v holds in one of them.
KeyLists == {PrevKeys} \cup OtherKeyLists
SlotsHeld(kl, v) == Cardinality({s \in DOMAIN kl : kl[s] = v})

\* How often each validator's signature may enter a forged aggregate: an
\* aggregate key counts v once per slot, so more copies than the slots v
\* holds in some key list never match it.
Multiples == {c \in [Validators -> 0..VALIDATOR_SLOTS] :
                \A v \in Validators : \E kl \in KeyLists : c[v] <= SlotsHeld(kl, v)}

\* The signatures a prover can forge from what was signed: any integer
\* combination of the validators' signatures.
Forgeable(r, bn, hh, pks) ==
  {SumOver([v \in Validators |->
              Scale(c[v], Pair(Unit(v), SignedMessage(v, r, bn, hh, pks)))],
           Validators) : c \in Multiples}

ProverBlocks(bn) ==
  UNION {{G!MacroBlock(hh, pks, b0, sig0, b1, sig1) :
            b0 \in G!Bitmaps, b1 \in G!Bitmaps,
            sig0 \in Forgeable("Prepare", bn, hh, pks),
            sig1 \in Forgeable("Commit", bn, hh, pks)} :
         hh \in Headers, pks \in NextKeySets}

\* The final states a prover may claim.
ClaimedStates ==
  {PublishedStateHash(bn, k) : bn \in {addmany(InitialBlockNumber, EPOCH_LENGTH),
                              InitialBlockNumber + EPOCH_LENGTH},
                      k \in NextKeySets}

Init ==
  /\ initial_state_hash = PublishedStateHash(InitialBlockNumber, PrevKeys)
  /\ final_state_hash \in ClaimedStates
  /\ prev_public_keys \in {PrevKeys} \cup OtherKeyLists
  /\ block_number \in BlockNumbers
  /\ block \in ProverBlocks(block_number)
  /\ G!InitLoop
  /\ new_block_number = 0
  /\ pc = "initial_state_hash"
  /\ verdict = "running"

\* Mutant: the initial state hash is computed but never enforced.
VerifyInitialStateHashUnenforced ==
  /\ pc = "initial_state_hash"
  /\ pc' = "verify_block"
  /\ UNCHANGED <<witness, gadget, initial_state_hash, final_state_hash,
                 new_block_number, verdict>>

\* Verify initial state hash: hash the private inputs and enforce equality
\* with the public input.
VerifyInitialStateHash ==
  /\ pc = "initial_state_hash"
  /\ IF StateHash(block_number, prev_public_keys) = initial_state_hash
       THEN /\ pc' = "verify_block" /\ UNCHANGED verdict
       ELSE /\ pc' = "done" /\ verdict' = "rejected"
  /\ UNCHANGED <<witness, gadget, initial_state_hash, final_state_hash,
                 new_block_number>>

\* block_var.verify(...): the gadget's steps.
VerifyBlock ==
  /\ pc = "verify_block"
  /\ G!Step
  /\ UNCHANGED <<initial_state_hash, final_state_hash, new_block_number,
                 pc, verdict>>

\* Mutant: an unsatisfiable gadget stops synthesis without a verdict.
BlockVerifiedNoVerdict ==
  /\ pc = "verify_block"
  /\ round = "done"
  /\ pc' = IF result = "accepted" THEN "increment" ELSE "done"
  /\ UNCHANGED <<witness, gadget, initial_state_hash, final_state_hash,
                 new_block_number, verdict>>

\* The gadget has finished; an unsatisfiable gadget rejects the circuit.
BlockVerified ==
  /\ pc = "verify_block"
  /\ round = "done"
  /\ IF result = "accepted"
       THEN /\ pc' = "increment" /\ UNCHANGED verdict
       ELSE /\ pc' = "done" /\ verdict' = "rejected"
  /\ UNCHANGED <<witness, gadget, initial_state_hash, final_state_hash,
                 new_block_number>>

\* Incrementing the block number.
IncrementBlockNumber ==
  /\ pc = "increment"
  /\ new_block_number' = addmany(block_number, EPOCH_LENGTH)
  /\ pc' = "final_state_hash"
  /\ UNCHANGED <<witness, gadget, initial_state_hash, final_state_hash, verdict>>

\* Verify final state hash from the new block number and the block's keys.
VerifyFinalStateHash ==
  /\ pc = "final_state_hash"
  /\ pc' = "done"
  /\ verdict' = IF StateHash(new_block_number, block.public_keys) = final_state_hash
                  THEN "accepted" ELSE "rejected"
  /\ UNCHANGED <<witness, gadget, initial_state_hash, final_state_hash,
                 new_block_number>>

Next ==
  \/ VerifyInitialStateHash
  \/ VerifyBlock
  \/ BlockVerified
  \/ IncrementBlockNumber
  \/ VerifyFinalStateHash

Spec == Init /\ [][Next]_vars

-----------------------------------------------------------------------------
(***************************************************************************)
(* Properties.                                                             *)
(***************************************************************************)

\* The slots of the real validator set held by faulty validators.
FaultySlots == {s \in G!Slots : PrevKeys[s] \in Faulty}

\* The final state of the canonical transition.
CanonicalFinalState ==
  PublishedStateHash(addmany(InitialBlockNumber, EPOCH_LENGTH), CanonicalNextKeys)

TypeOK ==
  /\ G!TypeOK
  /\ pc \in {"initial_state_hash", "verify_block", "increment",
             "final_state_hash", "done"}
  /\ verdict \in {"running", "accepted", "rejected"}
  /\ new_block_number \in 0..(2 ^ BN_WIDTH - 1)
  /\ (verdict # "running") <=> (pc = "done")

(***************************************************************************)
(* Agreement: as long as the faulty validators hold no more slots than     *)
(* VALIDATOR_SLOTS - MAX_NON_SIGNERS, the only final state any prover can *)
(* get the circuit to accept from the trusted initial state is the one of  *)
(* the block the honest validators signed.  It takes the initial state    *)
(* hash check (the keys), the round hash binding block number, header and  *)
(* next keys, the gadget's aggregation and bound, and the final hash check.*)
(***************************************************************************)
OnlyCanonicalTransition ==
  verdict = "accepted" => final_state_hash = CanonicalFinalState

(***************************************************************************)
(* The honest transition: the canonical block, with signatures that       *)
(* aggregate exactly its bitmaps, and at most MAX_NON_SIGNERS non-signers  *)
(* in the prepare bitmap and in commit AND prepare.                        *)
(***************************************************************************)
HonestTransition ==
  LET P == G!Set(block.prepare_signer_bitmap)
      C == G!Set(block.commit_signer_bitmap)
      bn == InitialBlockNumber
      hh == CanonicalHeader
      pks == CanonicalNextKeys
  IN  /\ prev_public_keys = PrevKeys
      /\ block_number = bn
      /\ block.header_hash = hh /\ block.public_keys = pks
      /\ block.prepare_signature = Available(P, "Prepare", bn, hh, pks)
      /\ block.commit_signature = Available(C, "Commit", bn, hh, pks)
      /\ P # {} /\ C # {}
      /\ Cardinality(G!Slots \ P) <= MAX_NON_SIGNERS
      /\ Cardinality(G!Slots \ (P \cap C)) <= MAX_NON_SIGNERS
      /\ final_state_hash = CanonicalFinalState

(***************************************************************************)
(* Completeness of the whole circuit for a block every validator signed:  *)
(* the honest transition is proven against the state hashes published    *)
(* outside the circuit.  It takes the in-circuit serialization of         *)
(* StateHashGadget::evaluate (block number bits reversed to big-endian,   *)
(* padded keys, inner byte order) to agree bit for bit with the published *)
(* layout, and the gadget's incomplete additions to be satisfiable.       *)
(***************************************************************************)
FullySignedTransitionAccepted ==
  (/\ pc = "done"
   /\ HonestTransition
   /\ block.prepare_signer_bitmap = [s \in G!Slots |-> TRUE]
   /\ block.commit_signer_bitmap = [s \in G!Slots |-> TRUE])
    => verdict = "accepted"

(***************************************************************************)
(* What src/gadgets/macro_block.rs:50-54 says of the bound: MAX_NON_SIGNERS*)
(* of constants.rs is an inclusive maximum, and verify is to be passed     *)
(* MAX_NON_SIGNERS + 1; then an honest transition with at most            *)
(* MAX_NON_SIGNERS non-signers is provable.                                *)
(***************************************************************************)
HonestTransitionAccepted ==
  (pc = "done" /\ HonestTransition) => verdict = "accepted"
=============================================================================
