---------------------------- MODULE ActionChannel ----------------------------
(***************************************************************************)
(* What the Network's action channel promises a caller of dial or         *)
(* dial_addr (src/network-libp2p/src/network.rs): every dial handed over   *)
(* while the SwarmTask runs is performed by it exactly once, and a dial is *)
(* lost only because the SwarmTask has stopped.  Dials are counted, not    *)
(* named: the channel is FIFO and every action is a dial.                  *)
(***************************************************************************)
EXTENDS Naturals

VARIABLES
  open,       \* the SwarmTask, which owns the receiver, is running
  pending,    \* dials handed over and not yet performed
  performed,  \* dials the SwarmTask has performed
  dropped     \* dials lost because the SwarmTask had stopped

vars == <<open, pending, performed, dropped>>

Init == open = TRUE /\ pending = 0 /\ performed = 0 /\ dropped = 0

\* A dial call: accepted while the SwarmTask runs, lost once it has stopped.
Request ==
  \/ open /\ pending' = pending + 1 /\ UNCHANGED <<open, performed, dropped>>
  \/ ~open /\ dropped' = dropped + 1 /\ UNCHANGED <<open, pending, performed>>

\* The SwarmTask performs the k oldest pending dials.
Perform(k) ==
  /\ open
  /\ k \in 1..pending
  /\ pending' = pending - k
  /\ performed' = performed + k
  /\ UNCHANGED <<open, dropped>>

\* The SwarmTask stops after performing k of the pending dials; the rest
\* are lost with the receiver.
Stop(k) ==
  /\ open
  /\ k \in 0..pending
  /\ open' = FALSE
  /\ pending' = 0
  /\ performed' = performed + k
  /\ dropped' = dropped + pending - k

Next == Request \/ (\E k \in 0..pending : Perform(k) \/ Stop(k))

Spec == Init /\ [][Next]_vars
=============================================================================
