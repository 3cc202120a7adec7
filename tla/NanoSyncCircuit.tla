--------------------------- MODULE NanoSyncCircuit ---------------------------
(***************************************************************************)
(* MacroBlockCircuit::generate_constraints of                             *)
(* src/nano-sync/src/circuits/mnt4/macro_block.rs: the MNT4 state-        *)
(* transition circuit of the nano sync.  Unlike the circuit of module     *)
(* StateHashCircuit it does not aggregate the keys itself: the prover      *)
(* hands in the aggregate public key of every chunk of the validator      *)
(* list, each with the sum generator added, and a PKTree proof that the   *)
(* commitments of those chunks are right for the committed keys and the   *)
(* signer bitmaps.                                                         *)
(*                                                                         *)
(* Steps, in the code's order: the initial state commitment, the final    *)
(* one (after UInt32::addmany), the prepare aggregate from its chunks, the *)
(* commit aggregate from its chunks, the PKTree proof against the inputs   *)
(* the circuit builds, and MacroBlockGadget::verify.  A constraint no      *)
(* witness satisfies ends synthesis "rejected".                            *)
(*                                                                         *)
(* Not in src/, modelled from the spec: the PKTree circuits (section 4.4), *)
(* the MNT4 MacroBlockGadget::verify (4.3 with the bound of 4.1) and the   *)
(* Pedersen commitments (4.2), as injective tuples.  A Groth16 proof       *)
(* exists exactly for the true statements of its circuit.                  *)
(***************************************************************************)
EXTENDS Integers, FiniteSets, Group

CONSTANTS
  VALIDATOR_SLOTS,     \* slots of the validator list
  CHUNKS,              \* chunks of the aggregate public keys
  BYTE_BITS,           \* bits per UInt8 (8 in the code)
  Validators,          \* key holders; a validator's public key is named by it
  PrevKeys,            \* [Slots -> Validators]: the real previous key list
  OtherKeyLists,       \* key lists a prover may commit to instead
  Headers,             \* header hashes a block may carry
  NextKeySets,         \* next key lists a block may commit to
  BlockNumbers,        \* block numbers a prover may give
  SumGenG1, SumGenG2,  \* sum_generator_g1_mnt6, sum_generator_g2_mnt6
  MAX_NON_SIGNERS,     \* constants.rs
  EPOCH_LENGTH,        \* constants.rs
  BN_WIDTH,            \* bits of the block number (32 in the code)
  Faulty,              \* validators that sign anything
  InitialBlockNumber,  \* block number of the trusted initial state
  CanonicalHeader,     \* header of the block the honest signed
  CanonicalNextKeys    \* next keys of the block the honest signed

Slots == 1..VALIDATOR_SLOTS
Rounds == {"Prepare", "Commit"}
Bitmaps == [Slots -> BOOLEAN]
Set(b) == {s \in Slots : b[s]}
ChunkIndex == 0..(CHUNKS - 1)
KeyLists == {PrevKeys} \cup OtherKeyLists

ASSUME PrevKeys \in [Slots -> Validators]
ASSUME VALIDATOR_SLOTS % CHUNKS = 0 /\ VALIDATOR_SLOTS % BYTE_BITS = 0

VARIABLES
  initial_pks_commitment, initial_block_number, final_pks_commitment,
  block, prepare_agg_pk_chunks, commit_agg_pk_chunks,        \* private
  initial_state_commitment, final_state_commitment,          \* public
  final_block_number,  \* addmany result
  round,               \* aggregate being summed
  i,                   \* chunk loop index
  agg,                 \* running sum of the chunk loop
  agg_pk,              \* [Rounds -> G2 point]: the summed aggregates
  pc,                  \* synthesis step
  verdict              \* "running", "accepted" or "rejected"

witness == <<initial_pks_commitment, initial_block_number, final_pks_commitment,
             block, prepare_agg_pk_chunks, commit_agg_pk_chunks>>
public == <<initial_state_commitment, final_state_commitment>>
vars == <<witness, public, final_block_number, round, i, agg, agg_pk, pc, verdict>>

\* Commitment to a key list (computed outside this circuit).
PksCommitment(keys) == <<"pks", keys>>

\* StateCommitmentGadget::evaluate: Pedersen commitment to block number and
\* public keys commitment.
StateCommitment(bn, pkc) == <<"state", bn, pkc>>

\* Serialize the chunk, Pedersen hash it, serialize the hash, reverse the
\* inner byte order and pack the bytes: an injective map of the point.
ChunkCommitment(p) == <<"chunk", p>>

\* The MNT4 MacroBlockGadget's message: round, block number, header hash
\* and the next public keys commitment.
MessageHash(r, bn, hh, pkc) ==
  <<IF r = "Prepare" THEN 0 ELSE 1, bn, hh, pkc>>

\* UInt32::addmany: addition modulo 2^width.
addmany(a, b) == (a + b) % (2 ^ BN_WIDTH)

\* UInt8::from_bits_le over the bitmap, BYTE_BITS bits per byte.
BitmapBytes(b) ==
  [k \in 0..(VALIDATOR_SLOTS \div BYTE_BITS - 1) |->
     [t \in 0..(BYTE_BITS - 1) |-> b[k * BYTE_BITS + t + 1]]]

\* PKTree leaves: the slots of chunk j, and its aggregate key with the sum
\* generator added (the chunk may have no signers).
ChunkSlots(j) == {s \in Slots : (s - 1) \div (VALIDATOR_SLOTS \div CHUNKS) = j}
ChunkAggregate(keys, b, j) ==
  Add(Unit(SumGenG2), SumOver([s \in Slots |-> Unit(keys[s])], ChunkSlots(j) \cap Set(b)))

(***************************************************************************)
(* The statement the PKTree proof proves: the chunk commitments of each    *)
(* round are those of the aggregates of the committed keys under that      *)
(* round's bitmap, at position 0.                                          *)
(***************************************************************************)
PKTreeHolds(in) ==
  /\ in.position = <<0>>
  /\ \E keys \in KeyLists, b0 \in Bitmaps, b1 \in Bitmaps :
       /\ in.pks_commitment = PksCommitment(keys)
       /\ in.prepare_bitmap = BitmapBytes(b0)
       /\ in.commit_bitmap = BitmapBytes(b1)
       /\ \A j \in 0..1 :
            /\ in.prepare_commitments[j] = ChunkCommitment(ChunkAggregate(keys, b0, j))
            /\ in.commit_commitments[j] = ChunkCommitment(ChunkAggregate(keys, b1, j))

\* What each validator signed: the honest the canonical block, the faulty
\* whatever the prover claims.
SignedMessage(v, r, bn, hh, pkc) ==
  IF v \in Faulty THEN MessageHash(r, bn, hh, pkc)
                  ELSE MessageHash(r, InitialBlockNumber, CanonicalHeader,
                                   PksCommitment(CanonicalNextKeys))

\* A prover needs no more copies of v's signature than v holds slots.
SlotsHeld(kl, v) == Cardinality({s \in Slots : kl[s] = v})
Multiples == {c \in [Validators -> 0..VALIDATOR_SLOTS] :
                \A v \in Validators : \E kl \in KeyLists : c[v] <= SlotsHeld(kl, v)}

\* The signatures a prover can build: integer combinations of what was signed.
Forgeable(r, bn, hh, pkc) ==
  {SumOver([v \in Validators |->
              Scale(c[v], Pair(Unit(v), SignedMessage(v, r, bn, hh, pkc)))],
           Validators) : c \in Multiples}

\* The block witness: header, bitmaps and signatures.
Blocks(bn, pkc) ==
  UNION {{[header_hash |-> hh,
           prepare_signer_bitmap |-> b0, prepare_signature |-> sig0,
           commit_signer_bitmap |-> b1, commit_signature |-> sig1] :
            b0 \in Bitmaps, b1 \in Bitmaps,
            sig0 \in Forgeable("Prepare", bn, hh, pkc),
            sig1 \in Forgeable("Commit", bn, hh, pkc)} : hh \in Headers}

\* Chunk witnesses: the chunk aggregates of some key list and bitmap.
ChunkWitnesses ==
  {[j \in ChunkIndex |-> ChunkAggregate(keys, b, j)] : keys \in KeyLists, b \in Bitmaps}

Init ==
  /\ initial_state_commitment = StateCommitment(InitialBlockNumber, PksCommitment(PrevKeys))
  /\ final_state_commitment \in
       {StateCommitment(addmany(InitialBlockNumber, EPOCH_LENGTH), PksCommitment(k)) :
          k \in NextKeySets}
  /\ initial_pks_commitment \in {PksCommitment(kl) : kl \in KeyLists}
  /\ initial_block_number \in BlockNumbers
  /\ final_pks_commitment \in {PksCommitment(k) : k \in NextKeySets}
  /\ block \in Blocks(initial_block_number, final_pks_commitment)
  /\ prepare_agg_pk_chunks \in ChunkWitnesses
  /\ commit_agg_pk_chunks \in ChunkWitnesses
  /\ final_block_number = 0
  /\ round = "Prepare"
  /\ i = 0
  /\ agg = Unit(SumGenG2)
  /\ agg_pk = [r \in Rounds |-> Zero]
  /\ pc = "initial_state"
  /\ verdict = "running"

Reject == pc' = "done" /\ verdict' = "rejected"

\* Mutant: the initial state commitment is computed but not enforced.
VerifyInitialStateCommitmentUnenforced ==
  /\ pc = "initial_state"
  /\ pc' = "final_state"
  /\ UNCHANGED <<witness, public, final_block_number, round, i, agg, agg_pk, verdict>>

\* Verify equality for initial state commitment.
VerifyInitialStateCommitment ==
  /\ pc = "initial_state"
  /\ IF StateCommitment(initial_block_number, initial_pks_commitment)
          = initial_state_commitment
       THEN pc' = "final_state" /\ UNCHANGED verdict
       ELSE Reject
  /\ UNCHANGED <<witness, public, final_block_number, round, i, agg, agg_pk>>

\* Verify equality for final state commitment, from the block number plus
\* EPOCH_LENGTH and the final public keys commitment.
VerifyFinalStateCommitment ==
  /\ pc = "final_state"
  /\ final_block_number' = addmany(initial_block_number, EPOCH_LENGTH)
  /\ IF StateCommitment(final_block_number', final_pks_commitment)
          = final_state_commitment
       THEN pc' = "agg_pk" /\ UNCHANGED verdict
       ELSE Reject
  /\ UNCHANGED <<witness, public, round, i, agg, agg_pk>>

chunks(r) == IF r = "Prepare" THEN prepare_agg_pk_chunks ELSE commit_agg_pk_chunks

(***************************************************************************)
(* One iteration of the chunk loop: add the chunk, then subtract the      *)
(* generator it came with.  Either incomplete addition may have no        *)
(* satisfying assignment.                                                 *)
(***************************************************************************)
AddChunk ==
  /\ pc = "agg_pk"
  /\ i < CHUNKS
  /\ LET added == Add(agg, chunks(round)[i])
         G     == Unit(SumGenG2)
     IN  IF AddOk(agg, chunks(round)[i]) /\ AddOk(added, Neg(G))
           THEN agg' = Sub(added, G) /\ i' = i + 1 /\ UNCHANGED <<pc, verdict>>
           ELSE Reject /\ UNCHANGED <<agg, i>>
  /\ UNCHANGED <<witness, public, final_block_number, round, agg_pk>>

\* Mutant: the generator the sum started from is not subtracted.
FinishAggPkNoSub ==
  /\ pc = "agg_pk"
  /\ i = CHUNKS
  /\ agg_pk' = [agg_pk EXCEPT ![round] = agg]
  /\ IF round = "Prepare"
       THEN round' = "Commit" /\ i' = 0 /\ agg' = Unit(SumGenG2) /\ UNCHANGED pc
       ELSE pc' = "proof" /\ UNCHANGED <<round, i, agg>>
  /\ UNCHANGED <<witness, public, final_block_number, verdict>>

\* After the loop the generator the sum started from is subtracted; the
\* commit aggregate is summed next, then the proof is checked.
FinishAggPk ==
  /\ pc = "agg_pk"
  /\ i = CHUNKS
  /\ IF AddOk(agg, Neg(Unit(SumGenG2)))
       THEN /\ agg_pk' = [agg_pk EXCEPT ![round] = Sub(agg, Unit(SumGenG2))]
            /\ IF round = "Prepare"
                 THEN round' = "Commit" /\ i' = 0 /\ agg' = Unit(SumGenG2) /\ UNCHANGED pc
                 ELSE pc' = "proof" /\ UNCHANGED <<round, i, agg>>
            /\ UNCHANGED verdict
       ELSE Reject /\ UNCHANGED <<agg_pk, round, i, agg>>
  /\ UNCHANGED <<witness, public, final_block_number>>

(***************************************************************************)
(* The inputs of the PKTree proof, in the code's order.  Both bitmap      *)
(* inputs are built from block.prepare_signer_bitmap (line 276); only the *)
(* commitments of chunks 0 and 1 are passed, with position 0.             *)
(***************************************************************************)
ProofInputs ==
  [pks_commitment |-> initial_pks_commitment,
   prepare_bitmap |-> BitmapBytes(block.prepare_signer_bitmap),
   prepare_commitments |-> [j \in 0..1 |-> ChunkCommitment(prepare_agg_pk_chunks[j])],
   commit_bitmap |-> BitmapBytes(block.prepare_signer_bitmap),
   commit_commitments |-> [j \in 0..1 |-> ChunkCommitment(commit_agg_pk_chunks[j])],
   position |-> <<0>>]

\* Groth16 check_verify of the PKTree proof.
VerifyProof ==
  /\ pc = "proof"
  /\ IF PKTreeHolds(ProofInputs)
       THEN pc' = "block" /\ UNCHANGED verdict
       ELSE Reject
  /\ UNCHANGED <<witness, public, final_block_number, round, i, agg, agg_pk>>

(***************************************************************************)
(* MNT4 MacroBlockGadget::verify (spec 4.3, bound of 4.1): fewer than      *)
(* max_non_signers non-signers in the prepare bitmap and in commit AND     *)
(* prepare, the two signatures added through the G1 sum generator, and the *)
(* pairing check against the two aggregates and round hashes.             *)
(***************************************************************************)
BlockValid(bn, pkc, apk) ==
  LET P  == Set(block.prepare_signer_bitmap)
      C  == Set(block.commit_signer_bitmap)
      h(r) == MessageHash(r, bn, block.header_hash, pkc)
      G1 == Unit(SumGenG1)
      s1 == Add(G1, block.prepare_signature)
      s2 == Add(s1, block.commit_signature)
  IN  /\ Cardinality(Slots \ P) < MAX_NON_SIGNERS
      /\ Cardinality(Slots \ (P \cap C)) < MAX_NON_SIGNERS
      /\ AddOk(G1, block.prepare_signature)
      /\ AddOk(s1, block.commit_signature)
      /\ AddOk(s2, Neg(G1))
      /\ Sub(s2, G1) = Add(Pair(apk["Prepare"], h("Prepare")),
                           Pair(apk["Commit"], h("Commit")))

\* Mutant: the block check ends synthesis without a verdict.
VerifyBlockNoVerdict ==
  /\ pc = "block"
  /\ pc' = "done"
  /\ UNCHANGED <<witness, public, final_block_number, round, i, agg, agg_pk, verdict>>

\* Verify the block: the initial block number and the final keys commitment.
VerifyBlock ==
  /\ pc = "block"
  /\ pc' = "done"
  /\ verdict' = IF BlockValid(initial_block_number, final_pks_commitment, agg_pk)
                  THEN "accepted" ELSE "rejected"
  /\ UNCHANGED <<witness, public, final_block_number, round, i, agg, agg_pk>>

Next ==
  \/ VerifyInitialStateCommitment
  \/ VerifyFinalStateCommitment
  \/ AddChunk
  \/ FinishAggPk
  \/ VerifyProof
  \/ VerifyBlock

Spec == Init /\ [][Next]_vars

-----------------------------------------------------------------------------
(***************************************************************************)
(* Properties.                                                             *)
(***************************************************************************)

\* The slots of the real validator list held by faulty validators.
FaultySlots == {s \in Slots : PrevKeys[s] \in Faulty}

\* The final state of the canonical transition.
CanonicalFinalState ==
  StateCommitment(addmany(InitialBlockNumber, EPOCH_LENGTH),
                  PksCommitment(CanonicalNextKeys))

\* The key list the witness commits to.
CommittedKeys == CHOOSE kl \in KeyLists : PksCommitment(kl) = initial_pks_commitment

\* The aggregate of the keys of the slots in S, straight from the list.
DirectAggregate(keys, S) == SumOver([s \in Slots |-> Unit(keys[s])], S)

TypeOK ==
  /\ pc \in {"initial_state", "final_state", "agg_pk", "proof", "block", "done"}
  /\ verdict \in {"running", "accepted", "rejected"}
  /\ (verdict # "running") <=> (pc = "done")
  /\ round \in Rounds /\ i \in 0..CHUNKS
  /\ final_block_number \in 0..(2 ^ BN_WIDTH - 1)

(***************************************************************************)
(* Agreement: with the faulty validators holding no more slots than       *)
(* VALIDATOR_SLOTS - MAX_NON_SIGNERS, the only final state a prover can    *)
(* get accepted from the trusted initial state is the canonical one.  It   *)
(* rests on the initial commitment, the PKTree proof binding the chunks   *)
(* to the committed keys, the generator bookkeeping of the chunk loops,    *)
(* and the block's signature check.                                       *)
(***************************************************************************)
OnlyCanonicalTransition ==
  verdict = "accepted" => final_state_commitment = CanonicalFinalState

(***************************************************************************)
(* Chunking loses nothing (spec 8, PKTree): once the PKTree proof is      *)
(* verified, the prepare aggregate the chunk loop summed is the direct    *)
(* aggregate of the committed keys under the prepare bitmap.  It takes    *)
(* the generator each chunk carries, the one the loop starts from, and    *)
(* the subtractions that remove them.                                     *)
(***************************************************************************)
ChunkedPrepareAggregateIsDirect ==
  pc = "block" =>
    agg_pk["Prepare"] = DirectAggregate(CommittedKeys, Set(block.prepare_signer_bitmap))

(***************************************************************************)
(* The same for the commit aggregate (spec 4.4 and 6: the proof's commit   *)
(* inputs are the commit bitmap and its chunk commitments): once the      *)
(* proof is verified, the commit aggregate is the direct aggregate of the *)
(* committed keys under the commit bitmap.                                 *)
(***************************************************************************)
ChunkedCommitAggregateIsDirect ==
  pc = "block" =>
    agg_pk["Commit"] = DirectAggregate(CommittedKeys, Set(block.commit_signer_bitmap))

\* A transition the honest validators signed, with honest chunks: the
\* canonical block, each signature aggregating exactly its bitmap, within
\* the non-signer bound.
HonestTransition ==
  LET P == Set(block.prepare_signer_bitmap)
      C == Set(block.commit_signer_bitmap)
      h(r) == MessageHash(r, InitialBlockNumber, CanonicalHeader,
                          PksCommitment(CanonicalNextKeys))
      Sig(S, r) == SumOver([s \in Slots |-> Pair(Unit(PrevKeys[s]), h(r))], S)
  IN  /\ initial_pks_commitment = PksCommitment(PrevKeys)
      /\ initial_block_number = InitialBlockNumber
      /\ final_pks_commitment = PksCommitment(CanonicalNextKeys)
      /\ final_state_commitment = CanonicalFinalState
      /\ block.header_hash = CanonicalHeader
      /\ block.prepare_signature = Sig(P, "Prepare")
      /\ block.commit_signature = Sig(C, "Commit")
      /\ prepare_agg_pk_chunks = [j \in ChunkIndex |-> ChunkAggregate(PrevKeys, block.prepare_signer_bitmap, j)]
      /\ commit_agg_pk_chunks = [j \in ChunkIndex |-> ChunkAggregate(PrevKeys, block.commit_signer_bitmap, j)]
      /\ Cardinality(Slots \ P) < MAX_NON_SIGNERS
      /\ Cardinality(Slots \ (P \cap C)) < MAX_NON_SIGNERS

(***************************************************************************)
(* Completeness: an honest prover of an honest transition gets it         *)
(* accepted.  The comment of lines 173-176 says the generator carried by  *)
(* every chunk is there so that a chunk with no signers can be summed.    *)
(***************************************************************************)
HonestTransitionAccepted ==
  (pc = "done" /\ HonestTransition) => verdict = "accepted"
=============================================================================
