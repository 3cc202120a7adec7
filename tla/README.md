# TLA+ models of nimiq-core-rs-albatross (nano-sync circuits, vesting contract, libp2p network)

These modules model the parts of the repository that TLC can check. The
checks are explained below, component by component. Every definition is
translated from the code under `src/`. `PROJECT.json` has:
- `map`: the lines each definition stands for;
- `runs`: the TLC runs and what each shows;
- `mutants`: the code mutations each property catches;
- `findings` and `hazards`: where the code disagrees with the spec, its comments or itself, and what is hard to test.

## 1. The system and its parts

| Part | Source | Module | Status |
|---|---|---|---|
| Aggregation gadget and macro block predicate | `src/src/gadgets/macro_block.rs` | `MacroBlockGadget`, `Group` | modelled |
| State commitment gadget (Blake2s) | `src/src/gadgets/state_hash.rs` | `StateSerialization`, `StateHashCircuit` (`StateHash`) | modelled (Blake2s abstracted) |
| BLS byte conversions | `src/bls/src/utils.rs` | `StateSerialization` | modelled |
| Top-level state-transition circuit | `src/src/circuits/macro_block.rs` | `StateHashCircuit` | modelled |
| Nano-sync MNT4 macro block circuit (PKTree inputs) | `src/nano-sync/src/circuits/mnt4/macro_block.rs` | `NanoSyncCircuit`, `Group` | modelled |
| Vesting contract account | `src/src/consensus/base/account/vesting_contract.rs` | `VestingContract` | modelled |
| libp2p `Network` and `SwarmTask` | `src/network-libp2p/src/network.rs` | `Network`, refining `ActionChannel` | partly |
| Mocks, Handel tags, module roots, RPC trait, keys and compressed signatures, benchmark | see `PROJECT.json` | — | not modelled |

How the parts interact:
- **Circuit side.** `MacroBlockCircuit::generate_constraints` (`src/src/circuits/macro_block.rs`) runs in four steps:
  1. it recomputes the initial state hash with `StateHashGadget::evaluate` and enforces equality with the public input;
  2. it runs `MacroBlockGadget::verify`, which calls `aggregate_public_key` once per round (prepare, then commit) and checks one pairing equation over the sum of the two signatures;
  3. it adds `EPOCH_LENGTH` to the block number with `UInt32::addmany`;
  4. it checks the final state hash against the block's next keys.
- **Nano-sync variant.** `src/nano-sync/.../mnt4/macro_block.rs` does the same, except that the aggregate keys come from chunks committed to by a PKTree proof.
- **Vesting contract.** It is an account type of the node's account tree. `with_outgoing_transaction` and `without_outgoing_transaction` are called when blocks are applied and reverted.
- **Network.** `Network::new` spawns two tokio tasks:
  - **SwarmTask** drains dial actions from an mpsc channel of capacity 16, then polls the libp2p swarm and broadcasts its events on a channel of capacity 64.
  - **The network task** consumes those events into the peers map.
  - `dial` and `dial_addr` block on the action channel.

## 2. Modules, state and actions

### Group
`Group` abstracts the curve groups G1 and G2 to the free abelian group over named generators:
- a point is a finite function from terms to non-zero integers;
- `Pair(pk, h)` is pk·h in the exponent, so equality of points is the pairing equation.

The in-circuit additions are incomplete. `AddOk(a, b)` states when `a + b` has a satisfying assignment: neither operand is zero, and `a ≠ ±b`. This is the reason for the sum generators (comment at `src/src/gadgets/macro_block.rs:61-64`).

### MacroBlockGadget
This module models `verify`, as constraint synthesis step by step.
- **Variables.** The witness is `prev_public_keys`, `block` and `block_number`, fixed in `Init`. The gadget's own state is:
  - `round`, the loop index `i`, `sum` and `num_non_signers` of `aggregate_public_key`;
  - `agg_pk`, the two round results;
  - `result`.
- **AggregateStep** is one loop iteration (lines 238-275):
  - it computes `new_sum`;
  - it selects on the **signer bit**;
  - it counts a non-signer on the bit ANDed with the reference bitmap in the commit round.
- **FinishRound / RejectRound** are the final subtraction and `enforce_smaller_than` (277-289).
- **CheckSignatures** is the signature sum through `sum_generator_g1` and `check_signatures` (92-106).
- A constraint with no satisfying assignment sets `result` to `"rejected"`.
- **Hashing.** `MessageHash` stands for the Pedersen hash of round‖block number‖header‖next keys (165-220). It is an injective tuple, because the hash is collision resistant.
- **Signing world.** Every slot holder may sign anything. The prover's signatures are sums over any slot subset of what was signed for the block.

### StateHashCircuit
This module models `generate_constraints` and composes the gadget through `G == INSTANCE MacroBlockGadget WITH max_non_signers <- MAX_NON_SIGNERS`. That substitution is the call site's argument (line 63-66).
- **Actions.** `VerifyInitialStateHash`, `VerifyBlock` (a gadget step), `BlockVerified`, `IncrementBlockNumber` (`addmany` modulo `2^BN_WIDTH`) and `VerifyFinalStateHash`, run in the code's order through `pc`.
- **`StateHash`** is `StateHashGadget::evaluate`: Blake2s (an injective tuple) of the bytes `StateSerialization` builds in the circuit. **`PublishedStateHash`** is the hash of the state as published outside the circuit (`ReferenceBytes`). The public inputs (the trusted initial hash and the claimed final hashes) are published hashes, so a proof exists only where the two serializations agree.
- **Adversary.** Validators in `Faulty` sign whatever the prover wants. The honest validators signed only the canonical block at the initial block number. The prover:
  - picks the witness keys (the real ones or a key list in `OtherKeyLists`);
  - claims any final state;
  - may use any integer combination of the available signatures (`Forgeable`). Scaling a signature is free for anyone. Each validator's signature is taken at most as often as that validator holds slots in some key list (`Multiples`), because an aggregate key counts a validator once per slot and more copies never match it.

### StateSerialization
This module holds the bit layouts as operators over sequences of booleans.
- **`evaluate_bits`** is `StateHashGadget::evaluate` up to the hash (`state_hash.rs:24-48`):
  1. `to_bits_le` of the block number, reversed (`BitsLE`);
  2. per key, the x-coordinate's big-endian bits (`BitsBE`) and the y bit through `pad_point_bits`;
  3. `reverse_inner_byte_order`.
- **`blake2s_input`** turns those bits into the bytes the Blake2s gadget hashes, least significant bit first.
- **`ReferenceBytes`** is the published layout. It is the block number's big-endian bytes followed by each compressed key: x as a big-endian number with the y bit as the top bit.
- **Spec-modelled parts.** `pad_point_bits` and `reverse_inner_byte_order` live in `crate::gadgets`, which is not under `src/`. They are modelled from the spec and marked `spec_modelled`.
- **BLS conversions.** `bytes_to_bits` and `big_int_from_bytes_be` (`bls/src/utils.rs`) are operators too. `PublishedKeysDecode` reads every published compressed key back with them. `bytes_to_bits` must give exactly the bits `pad_point_bits` builds in the circuit, and `big_int_from_bytes_be` must give x with the y bit on top.

### NanoSyncCircuit
This module models the nano-sync `MacroBlockCircuit::generate_constraints` (`src/nano-sync/src/circuits/mnt4/macro_block.rs`), as a sequence of steps through `pc`.
- **Variables.** The witness (`witness`, lines 42-58) holds the two chunk vectors, the initial and final key commitments, the initial block number and the block. `public` holds the two state commitments. The step state is `round`, the chunk index `i`, the running sum `agg`, the results `agg_pk`, `final_block_number`, `pc` and `verdict`.
- **Actions.**
  - `VerifyInitialStateCommitment` (138-151);
  - `VerifyFinalStateCommitment` (153-171), with `addmany` modulo `2^BN_WIDTH`;
  - `AddChunk` and `FinishAggPk`, the chunk sums that start at the sum generator `G` and subtract it at the end (173-187, 217-231);
  - `ProofInputs` and `VerifyProof`, the bitmap bytes, chunk commitments and the PKTree proof check (189-306);
  - `VerifyBlock`, the block check (308-325).
- **Spec-modelled parts.** The PKTree circuits, the MNT4 block gadget and the commitments are not in `src/`. `PKTreeHolds` says a proof exists exactly when its statement is true: the chunk commitments are commitments to `ChunkAggregate` (G plus the chunk's signer keys) of the committed keys, for the bitmaps given as bytes. `BlockValid` is the block check of spec 4.1/4.3.
- **Adversary.** The same as in `StateHashCircuit`: faulty validators sign anything, and the prover chooses the witness chunks freely (`ChunkWitnesses`).

### VestingContract
This module follows one contract:
- `Create`, from the three creation data formats of `create_from_transaction`;
- `WithOutgoingTransaction` at the current height;
- `WithoutOutgoingTransaction`, which reverts the newest applied transaction and rewinds the height to its block;
- `NextBlock`;
- `CreateRejected`, a creation whose data has none of the three lengths (`verify_incoming_transaction`, the `else` of `create_from_transaction`);
- `IncomingTransaction`, `with_/without_incoming_transaction`, which always fail.

Widths are kept and scaled down: `HEIGHT_BITS` for u32 and `VALUE_BITS` for u64. `BUILD` chooses between the two behaviours of Rust overflow: a panic in debug, a wrap in release. `Account::balance_sub` and `balance_add` are not in `src/`; they are taken as checked (they fail on underflow or overflow). The error paths (insufficient funds, `min_cap`, wrong signer, panic) are recorded in `outcome` and change nothing else. The order of the checks is the code's: value+fee, balance_sub, min_cap, signer.

### Network
This module models the two tasks and the handle, with explicit wakers:
- `swarm_waker` and `action_waker` record which source holds the SwarmTask's waker;
- `woken` records that the task is scheduled.

The actions are:
- **`SwarmTask::poll` takes two steps**, because the network task and the Network's owner run on other threads while it runs:
  - **`PollActions`** (64-92) does the receiver-count check. Its `while let` loop then drains every queued action (`performed`). The loop ends with the waker on the action channel, or with `None` once the Network is dropped.
  - **`PollSwarm`** (94-121) polls the swarm once. On Pending the swarm keeps the waker. Otherwise the event is broadcast and `Pending` is returned; if the receiver count dropped to zero since the check, the send fails and the task ends.
- **`Dial`** is `dial`/`dial_addr` (224-232):
  - it sends on the bounded action channel, waking the SwarmTask;
  - if the channel is full, `block_on` parks the caller (`dialing`);
  - **`DialResume`** completes the send once there is room, or fails once the channel is closed.
  - The Network cannot be dropped while its own `dial` is running.
- **`NetworkTaskStep`** is one item of `take_while(..).for_each(..)`:
  - a lagged receive, or a dropped `peers`, ends the task;
  - otherwise the event is applied, or the task panics.
- **`NetworkTaskClosed`** ends the network task when both senders are gone.
- **`Connect`, `Disconnect`, `Dial` and `DropNetwork`** are the environment.

The broadcast channel is modelled as the log of everything sent plus the receiver's position. A receiver is lagged when more than `BCAST_CAP` events were sent after its position (tokio semantics).

### ActionChannel
This module is the abstract specification of what the action channel promises a caller of `dial`. It counts dials rather than naming them, because the channel is FIFO and every action is a dial.
- **Variables:**
  - `open`: the SwarmTask still runs;
  - `pending`: dials handed over and not yet performed;
  - `performed`;
  - `dropped`: dials lost.
- **Actions:**
  - `Request`: a dial is accepted while the task runs, and lost afterwards.
  - `Perform(k)`: the task performs the k oldest pending dials.
  - `Stop(k)`: the task stops after performing k of the pending dials; the rest are lost.

`Network` instantiates it as `AC` with this refinement mapping:
- `open` is `swarm_task # "done"`;
- `pending` is `handed_over`, the buffered actions plus a dial parked in `block_on`, while the receiver exists;
- `dropped` is what remains of `ndials`.

`ImplementsActionChannel == AC!Spec` is checked as a property. It says that while the SwarmTask runs, no dial is lost (a full channel parks the caller, it does not drop the action) and none is performed twice, and that dials are lost only when the task stops.

## 3. Runs

| Run | Checks | Result | What it shows |
|---|---|---|---|
| gadget_soundness | TypeOK, QuorumSignedBoth, HonestBlockAccepted | pass | Whenever the gadget is satisfiable, more than `VALIDATOR_SLOTS - max_non_signers` slots signed both hash points; and honest blocks within the bound are provable despite the incomplete additions, including with a key held in two slots. |
| gadget_commit_and | CommitAggregateIsAnd | **violation** | The commit aggregate covers the commit bitmap, not commit ∧ prepare (spec 4.1, 8). |
| statehash_agreement | TypeOK, OnlyCanonicalTransition, FullySignedTransitionAccepted, PublishedKeysDecode | pass | From the trusted initial state, with faulty slots ≤ `VALIDATOR_SLOTS - MAX_NON_SIGNERS`, the circuit accepts only the final state the honest validators signed. A fully signed honest transition is provable against the published state hashes, so the in-circuit serialization matches the published layout bit for bit. A published key read back with the BLS utilities is the key the circuit serializes. |
| statehash_bound | HonestTransitionAccepted | **violation** | Exactly `MAX_NON_SIGNERS` non-signers are rejected, against the comment at `gadgets/macro_block.rs:50-54`. |
| vesting_schedule | DebitExact | pass | Any sequence of applies and reverts keeps balance = created − Σ(value+fee). |
| vesting_early | VestedFloor | **violation** | In a release build the whole balance can be spent before `vesting_start`. |
| network_safety | TypeOK, PeersMatchConnections, NoPanic, SwarmTaskTerminates, DialReturns, DialPerformed, ImplementsActionChannel | pass | Whenever the network task has received every event and the swarm has none queued, the peers map equals the swarm's connections. The network task never reaches its duplicate-peer or unknown-peer panics, and a dropped Network always ends the SwarmTask. A dial parked on a full channel always returns, every dial sent is performed unless the SwarmTask has ended, and the channel refines `ActionChannel`. |
| nanosync_agreement | TypeOK, OnlyCanonicalTransition, ChunkedPrepareAggregateIsDirect | pass | With the PKTree proof binding chunks to the committed keys, the circuit accepts only the canonical final state, and the chunked prepare aggregate equals the direct sum over the prepare signers. |
| nanosync_commit_bitmap | ChunkedCommitAggregateIsDirect | **violation** | Line 276 packs the prepare bitmap as the commit bitmap bytes. The verified commit aggregate is therefore over the prepare signers, and an honest block with a different commit bitmap is unprovable. |
| nanosync_empty_chunk | HonestTransitionAccepted | **violation** | A first chunk with no signers equals `G`, so the loop's first addition is `G + G`, which the incomplete addition cannot satisfy. The comment at 173-176 says the offset exists to allow such a chunk. |
| network_wakeup | SwarmEventsDispatched | **violation** | Lost wakeup: after broadcasting an event, poll returns Pending with no waker on the swarm. |
| network_lag | SwarmTaskEndsOnlyWithNetwork | **violation** | A lagged network task ends, and with it the SwarmTask, while the Network is alive. |

Every property of a passing run has a mutant in `PROJECT.json`: a plausible bug in the mapped definition that TLC catches under the run's configuration.

## 4. Bounds and why they are enough

- **Gadget.** 4 slots, keys `v1 v1 v2 v3`: a repeated key exercises `sum = key` in the incomplete addition. There is one header and one next-key set, `max_non_signers = 2`, and every bitmap and every subset signature is enumerated (280k states).
- **Circuit.** 3 slots `v1 v1 v2`, with `v1` faulty (2 slots) and `MAX_NON_SIGNERS = 1`: the faulty validator holds as much as the bound allows without reaching the quorum alone. The other settings:
  - `BN_WIDTH = 3`, initial block 6 and `EPOCH_LENGTH = 4`, so the increment wraps;
  - serialization widths: `BYTE_BITS = 3` and `X_BITS = 4`, which leaves room for the y bit and the infinity flag in a two-byte key. The keys have x = 5 and 9, with the y bit set for one only, so each part of the layout changes the bytes. The published block number keeps only its low `BN_WIDTH` bits, so the two claimed final numbers 2 and 10 publish the same bytes; the circuit's wrapped 2 is checked against them;
  - the BLS conversions use `LIMBS = 2` limbs of `LIMB_BYTES = 1` byte: a compressed key is exactly two limbs, so the limb order shows;
  - a forged next-key set and a forged previous-key list are available;
  - `v1` holds all three slots of the forged key list `<<v1, v1, v1>>`, so the prover may scale `v1`'s signature up to 3 times. `v2` holds one slot, so its signature is taken at most once. The agreement run covers about 156k states in about 10 s. The wrap of the increment is modelled, and no run checks it, because no reachable block number comes near 2^32.
- **Nano-sync.** 2 slots in 2 chunks (the PKTree root's fan-out) with `BYTE_BITS = 1`. Keys `v1 v2` with `v1` faulty, plus a faulty `v3` that appears only in the forged key list `<<v1, v3>>`. `MAX_NON_SIGNERS = 1`; `BN_WIDTH = 3` with block 6 and `EPOCH_LENGTH = 4`; a forged next-key set. Every pair of chunk witnesses and every block the adversary can sign is enumerated (about 4.9M states in about 25 s). The two violation runs use honest validators only and `MAX_NON_SIGNERS = 2`, so that a chunk may be empty and the two bitmaps may differ.
- **Vesting.** 3-bit heights and 4-bit values. Starts 2 and 5, steps 0 and 2 blocks, amounts 0 and 4: the 0 cases take the `min_cap` early-return. At most 2 applied transactions. Creation at height 5 for the passing run (at or after both starts) and at height 1 (below both) for `vesting_early`. Values 1 and 4 and fees 0 and 1 keep value+fee below 2^4, so the unchecked u64 addition at `vesting_contract.rs:96` does not wrap in the checked runs: that overflow is listed as a hazard, not checked.
- **Network.** 2 peers and a broadcast capacity of 1 (64 in the code: what matters is being full). The safety run allows 6 swarm events, so each peer can join, leave and join again, which is what the duplicate-peer panic needs; it covers about 118k states in about 11 s. The violation runs allow 4 events. The safety run has an action capacity of 2 and 4 dials. A dial parks only when the channel is full, and a parked dial whose mutant ignores closure needs a lag, a full queue and one more dial to show. The violation runs keep a capacity of 1 and 3 dials.

## 5. Fairness

Only `Network` has liveness properties. A tokio runtime eventually polls every woken task, so `PollActions`, `PollSwarm`, `NetworkTaskStep` and `NetworkTaskClosed` are weakly fair. `DialResume` is weakly fair too: `block_on` keeps polling the send, and the send's waker fires when the channel has room or is closed. The environment (connections, dials, dropping the Network) owes nothing. Deadlock checking is off in every run because every modelled system really stops:
- the circuits at the end of synthesis;
- the contract when the bounds are reached;
- the network once it is idle.

## 6. What is not modelled, and the plan

- **Hashing.** Blake2s and Pedersen are abstracted to injective tuples. The bit serialization in front of Blake2s is modelled with scaled widths; the three field elements of a G2 x-coordinate are one here, each padded the same way.
- **Nano-sync.** The PKTree leaf and node circuits are not in `src/`; their statement is modelled (`PKTreeHolds`), not their Merkle-path steps. The verifying-key file load and the cost printouts are I/O. The `addmany` wrap at 2^32 (both circuits) is modelled but not checked: no reachable block number comes near it.
- **Revision mismatch.** The gadget in `src/src/gadgets` is typed for SW6/BLS12-377, while the circuit calling it is MNT4/MNT6: the files come from different revisions. The model follows the call structure, which both share.
- **Network.** Test subscribers and their race are not modelled: the test dials before `subscribe_events` (lines 319-321). Also left out:
  - the runtime flavour, which matters for the `block_on` deadlock at line 226: the model gives the caller of `dial` its own thread;
  - the result of `Swarm::dial` and the connection limits of `new_swarm` (lines 183-188): a performed action stands for a dial the swarm accepted, so the error that `perform_action` only logs (line 66) is not followed;
  - the race in `two_networks_can_connect`: its `get_peers` assertion (lines 336-337) can run before the network task has applied the join its own receiver already saw;
  - `new_transport` and `new_swarm`.
- **Vesting.** f64 rounding above 2^53 is not modelled. Heights are u32, so the step count is exact in f64, and the amounts round only above 2^53; the signature proofs are abstracted to the signer's address.
- **Keys and compressed signatures** (`keys/src/private_key.rs`, `bls/src/types/compressed_signature.rs`) wrap the ed25519 and algebra libraries: RNG, (de)serialization, hex and comparison, with no state of their own.
- **`validator2/mock.rs`.** Its futures are `unimplemented!`. `notifier_to_stream` registers a callback that forwards to an unbounded channel and is never removed; nothing in `src/` drives it.
- **`src/src/main.rs`** is a benchmark that sets up and runs the external prover.
