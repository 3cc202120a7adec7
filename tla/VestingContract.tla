--------------------------- MODULE VestingContract ---------------------------
(***************************************************************************)
(* VestingContract of src/src/consensus/base/account/vesting_contract.rs:  *)
(* an account whose balance is released to its owner in steps of           *)
(* vesting_step_amount every vesting_step_blocks blocks from vesting_start.*)
(*                                                                         *)
(* The model follows one contract through its creation, outgoing          *)
(* transactions applied at the chain's block height, the reverts of those  *)
(* transactions (without_outgoing_transaction, applied newest first when   *)
(* blocks are rewound) and the chain growing.  Integers keep their width: *)
(* block heights are u32 and amounts u64, scaled down to HEIGHT_BITS and   *)
(* VALUE_BITS bits.  Rust's integer overflow panics in a debug build and  *)
(* wraps in a release build; BUILD picks one.  Account::balance_sub and   *)
(* balance_add (not in this file) are checked: they fail on underflow and *)
(* on overflow.  min_cap computes in f64, which is exact at these widths. *)
(***************************************************************************)
EXTENDS Integers, Sequences, SequencesExt

CONSTANTS
  HEIGHT_BITS,     \* width of a block height (u32 in the code)
  VALUE_BITS,      \* width of an amount (u64 in the code)
  BUILD,           \* "debug" (overflow panics) or "release" (overflow wraps)
  Owners,          \* addresses; the owner and other signers
  Balances,        \* balances the contract can be created with
  Values,          \* transaction values
  Fees,            \* transaction fees
  Starts,          \* vesting_start values of creation data
  StepBlocks,      \* vesting_step_blocks values of creation data
  StepAmounts,     \* vesting_step_amount values of creation data
  Totals,          \* vesting_total_amount values of creation data
  InitHeights,     \* heights at which the contract may be created
  MaxTxs           \* bound on the number of applied outgoing transactions

ASSUME BUILD \in {"debug", "release"}

U32 == 2 ^ HEIGHT_BITS
U64 == 2 ^ VALUE_BITS
MaxHeight == U32 - 1

VARIABLES
  contract,   \* the VestingContract record, or NoContract
  height,     \* the chain's block height
  applied,    \* outgoing transactions applied, oldest first, with the
              \* contract balance after each
  created,    \* the balance the contract was created with
  outcome     \* result of the last call: "ok", "err" or "panic"

vars == <<contract, height, applied, created, outcome>>

\* The result of an arithmetic step that panicked (no amount is negative).
Panic == -1

\* A Rust u32/u64 subtraction or addition: wraps in release, panics in
\* debug.
WrapSub(a, b, m) ==
  IF a >= b THEN a - b ELSE IF BUILD = "release" THEN a - b + m ELSE Panic
WrapAdd(a, b, m) ==
  IF a + b < m THEN a + b ELSE IF BUILD = "release" THEN a + b - m ELSE Panic

\* VestingContract::new.
new(balance, owner, start, blocks, amount, total) ==
  [balance |-> balance, owner |-> owner, vesting_start |-> start,
   vesting_step_blocks |-> blocks, vesting_step_amount |-> amount,
   vesting_total_amount |-> total]

\* No contract at the address yet.
NoContract == new(0, "none", 0, 0, 0, 0)

\* with_balance.
with_balance(c, balance) == [c EXCEPT !.balance = balance]

(***************************************************************************)
(* min_cap: the balance still locked at block_height.  The u32 subtraction *)
(* block_height - vesting_start wraps (release) or panics (debug) when the *)
(* height is below vesting_start; f64 floor division and max(0).          *)
(***************************************************************************)
min_cap(c, h) ==
  IF c.vesting_step_blocks > 0 /\ c.vesting_step_amount > 0
    THEN LET d == WrapSub(h, c.vesting_start, U32)
         IN  IF d = Panic THEN Panic
             ELSE LET cap == c.vesting_total_amount
                             - (d \div c.vesting_step_blocks) * c.vesting_step_amount
                  IN  IF cap < 0 THEN 0 ELSE cap
    ELSE 0

(***************************************************************************)
(* The creation data accepted by create_from_transaction, by length:       *)
(* owner || step_blocks (full amount vests at step_blocks from 0);         *)
(* owner || start || step_blocks || step_amount (total = value);           *)
(* owner || start || step_blocks || step_amount || total.  Any other      *)
(* length fails.                                                           *)
(***************************************************************************)
CreatedBy(balance, value, owner) ==
     {new(balance, owner, 0, b, value, value) : b \in StepBlocks}
  \cup {new(balance, owner, s, b, a, value) :
          s \in Starts, b \in StepBlocks, a \in StepAmounts}
  \cup {new(balance, owner, s, b, a, t) :
          s \in Starts, b \in StepBlocks, a \in StepAmounts, t \in Totals}

Init ==
  /\ contract = NoContract
  /\ height \in InitHeights
  /\ applied = <<>>
  /\ created = 0
  /\ outcome = "ok"

\* VestingContract::create with data of one of the three valid lengths.
Create ==
  /\ contract = NoContract
  /\ \E balance \in Balances, value \in Values, owner \in Owners :
       \E c \in CreatedBy(balance, value, owner) :
         /\ contract' = c
         /\ created' = balance
  /\ outcome' = "ok"
  /\ UNCHANGED <<height, applied>>

(***************************************************************************)
(* A creation transaction whose data has none of the three lengths:       *)
(* verify_incoming_transaction rejects it, and create_from_transaction    *)
(* fails with InvalidData, so create returns an error and no contract     *)
(* exists.                                                                 *)
(***************************************************************************)
CreateRejected ==
  /\ contract = NoContract
  /\ outcome' = "err"
  /\ UNCHANGED <<contract, height, applied, created>>

\* with_incoming_transaction and without_incoming_transaction: a vesting
\* contract accepts no incoming transaction after its creation.
IncomingTransaction ==
  /\ contract # NoContract
  /\ outcome' = "err"
  /\ UNCHANGED <<contract, height, applied, created>>

(***************************************************************************)
(* with_outgoing_transaction: value + fee (a u64 addition), balance_sub    *)
(* (fails when the balance is short), the min_cap check at the current     *)
(* height, then the owner's signature; on success the new balance.         *)
(***************************************************************************)
with_outgoing(value, fee, signer) ==
  LET total == WrapAdd(value, fee, U64)
      cap == min_cap(contract, height)
  IN  IF total = Panic
        THEN outcome' = "panic" /\ UNCHANGED <<contract, applied>>
      ELSE IF total > contract.balance
        THEN outcome' = "err" /\ UNCHANGED <<contract, applied>>
      ELSE IF cap = Panic
        THEN outcome' = "panic" /\ UNCHANGED <<contract, applied>>
      ELSE LET balance == contract.balance - total
           IN  IF balance < cap \/ signer # contract.owner
                 THEN outcome' = "err" /\ UNCHANGED <<contract, applied>>
               ELSE /\ contract' = with_balance(contract, balance)
                    /\ applied' = Append(applied, [value |-> value, fee |-> fee,
                                           height |-> height, after |-> balance])
                    /\ outcome' = "ok"

WithOutgoingTransaction ==
  /\ contract # NoContract
  /\ Len(applied) < MaxTxs
  /\ \E value \in Values, fee \in Fees, signer \in Owners :
       with_outgoing(value, fee, signer)
  /\ UNCHANGED <<height, created>>

\* Mutant: the revert credits the value and forgets the fee.
without_outgoing_no_fee(tx) ==
  LET balance == contract.balance + tx.value
  IN  IF balance >= U64
        THEN outcome' = "err" /\ UNCHANGED <<contract, applied, height>>
      ELSE /\ contract' = with_balance(contract, balance)
           /\ applied' = Front(applied)
           /\ height' = tx.height
           /\ outcome' = "ok"

(***************************************************************************)
(* without_outgoing_transaction: balance_add of value + fee (the u64      *)
(* addition again, then a checked add).  Reverts undo the newest applied  *)
(* transaction, and the chain is back at that transaction's block.        *)
(***************************************************************************)
without_outgoing(tx) ==
  LET total == WrapAdd(tx.value, tx.fee, U64)
  IN  IF total = Panic
        THEN outcome' = "panic" /\ UNCHANGED <<contract, applied, height>>
      ELSE IF contract.balance + total >= U64
        THEN outcome' = "err" /\ UNCHANGED <<contract, applied, height>>
      ELSE /\ contract' = with_balance(contract, contract.balance + total)
           /\ applied' = Front(applied)
           /\ height' = tx.height
           /\ outcome' = "ok"

WithoutOutgoingTransaction ==
  /\ applied # <<>>
  /\ without_outgoing(Last(applied))
  /\ UNCHANGED created

\* The chain grows by one block.
NextBlock ==
  /\ height < MaxHeight
  /\ height' = height + 1
  /\ UNCHANGED <<contract, applied, created, outcome>>

Next ==
  \/ Create
  \/ CreateRejected
  \/ IncomingTransaction
  \/ WithOutgoingTransaction
  \/ WithoutOutgoingTransaction
  \/ NextBlock

Spec == Init /\ [][Next]_vars

-----------------------------------------------------------------------------
(***************************************************************************)
(* Properties.                                                             *)
(***************************************************************************)

\* The amount a transaction debits, as an unbounded integer.
Debit(tx) == tx.value + tx.fee

\* The balance locked at height h as the vesting schedule means it: all of
\* vesting_total_amount before vesting_start, one step_amount less per
\* elapsed step after it, never below zero.
Locked(c, h) ==
  IF c.vesting_step_blocks > 0 /\ c.vesting_step_amount > 0
    THEN IF h < c.vesting_start THEN c.vesting_total_amount
         ELSE LET cap == c.vesting_total_amount
                         - ((h - c.vesting_start) \div c.vesting_step_blocks)
                           * c.vesting_step_amount
              IN  IF cap < 0 THEN 0 ELSE cap
    ELSE 0

(***************************************************************************)
(* Conservation across applies and reverts: the contract's balance is the  *)
(* balance it was created with less value + fee of every outgoing         *)
(* transaction still applied.  It ties with_outgoing_transaction and       *)
(* without_outgoing_transaction together over any sequence of both.        *)
(***************************************************************************)
DebitExact ==
  contract # NoContract =>
    contract.balance + FoldSeq(LAMBDA tx, acc : Debit(tx) + acc, 0, applied)
      = created

(***************************************************************************)
(* The vesting schedule holds: after every outgoing transaction still     *)
(* applied, the balance left is at least what is locked at the height it  *)
(* was applied at (min_cap is meant to compute Locked).                   *)
(***************************************************************************)
VestedFloor ==
  \A k \in 1..Len(applied) :
    applied[k].after >= Locked(contract, applied[k].height)
=============================================================================
