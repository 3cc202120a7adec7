------------------------------ MODULE Network ------------------------------
(***************************************************************************)
(* Network of src/network-libp2p/src/network.rs: two tokio tasks and the  *)
(* handle that spawned them.                                              *)
(*                                                                         *)
(*  - SwarmTask (poll, lines 79-122) drains the dial actions of an mpsc   *)
(*    channel of capacity 16, then polls the libp2p swarm and dispatches   *)
(*    one swarm event on a tokio broadcast channel of capacity 64;        *)
(*  - the network task (new_network_task, lines 193-218) receives those   *)
(*    events and keeps the peers map; take_while ends it at the first      *)
(*    receive error (a lagged receiver) or once the Network is gone;      *)
(*  - the Network handle sends dial actions (dial, dial_addr, lines        *)
(*    224-232) and can be dropped.                                        *)
(*                                                                         *)
(* Futures are woken through wakers: a source that returned Pending to a   *)
(* poll wakes the task when it becomes ready.  The swarm is a source of    *)
(* peer connection events, here PeerJoined and PeerLeft of a small set of *)
(* peers, generated by the environment; one connection per peer           *)
(* (peer_connection_limit(1)).                                             *)
(***************************************************************************)
EXTENDS Integers, Sequences, SequencesExt, FiniteSets

CONSTANTS
  Peers,         \* remote peers
  BCAST_CAP,     \* capacity of the broadcast channel (64 in the code)
  ACTION_CAP,    \* capacity of the action channel (16 in the code)
  MaxEvents,     \* bound on swarm connection events
  MaxDials       \* bound on dial calls

VARIABLES
  connected,     \* peers the swarm holds a connection to
  swarm_q,       \* swarm events ready to be returned by poll_next
  swarm_waker,   \* the swarm holds the task's waker
  action_q,      \* the action channel's buffer
  action_waker,  \* the action receiver holds the task's waker
  woken,         \* the swarm task is scheduled to be polled
  swarm_task,    \* "running" or "done"
  log,           \* every event sent on the broadcast channel, in order
  net_pos,       \* events of log the network task has received
  net_task,      \* "running", "stopped" or "panicked"
  peers,         \* keys of the peers map
  network_alive, \* the Network handle has not been dropped
  nevents,       \* swarm events generated so far
  ndials,        \* dial calls made so far
  dialing,       \* a dial call is parked in block_on on a full channel
  performed      \* actions the SwarmTask has taken off the channel

env == <<connected, nevents>>
vars == <<connected, swarm_q, swarm_waker, action_q, action_waker, woken,
          swarm_task, log, net_pos, net_task, peers, network_alive,
          nevents, ndials, dialing, performed>>

Event(kind, p) == [kind |-> kind, peer |-> p]
Events == {Event(k, p) : k \in {"PeerJoined", "PeerLeft"}, p \in Peers}

\* The broadcast receiver count: the network task's receiver is the only
\* one, and it is dropped when that task ends.
receiver_count == IF net_task = "running" THEN 1 ELSE 0

\* Network::new: both channels created, both tasks spawned; a spawned task
\* is scheduled for its first poll.
Init ==
  /\ connected = {}
  /\ swarm_q = <<>>
  /\ swarm_waker = FALSE
  /\ action_q = <<>>
  /\ action_waker = FALSE
  /\ woken = TRUE
  /\ swarm_task = "running"
  /\ log = <<>>
  /\ net_pos = 0
  /\ net_task = "running"
  /\ peers = {}
  /\ network_alive = TRUE
  /\ nevents = 0
  /\ ndials = 0
  /\ dialing = FALSE
  /\ performed = 0

\* The swarm readies an event, waking the task if it holds its waker.
SwarmEvent(e, c) ==
  /\ nevents < MaxEvents
  /\ connected' = c
  /\ nevents' = nevents + 1
  /\ swarm_q' = Append(swarm_q, e)
  /\ woken' = (woken \/ swarm_waker)
  /\ swarm_waker' = FALSE
  /\ UNCHANGED <<action_q, action_waker, swarm_task, log, net_pos, net_task,
                 peers, network_alive, ndials, dialing, performed>>

Connect(p) ==
  /\ p \notin connected
  /\ SwarmEvent(Event("PeerJoined", p), connected \cup {p})

Disconnect(p) ==
  /\ p \in connected
  /\ SwarmEvent(Event("PeerLeft", p), connected \ {p})

\* The action receiver has been dropped with the SwarmTask that owned it.
actions_closed == swarm_task = "done"

\* Enqueue one action and wake the receiver's task if it holds its waker.
send_action ==
  /\ action_q' = Append(action_q, "Dial")
  /\ woken' = (woken \/ action_waker)
  /\ action_waker' = FALSE

\* Mutant: dial uses try_send and drops the action when the channel is full.
DialTrySend ==
  /\ network_alive
  /\ ~dialing
  /\ ndials < MaxDials
  /\ ndials' = ndials + 1
  /\ IF actions_closed \/ Len(action_q) >= ACTION_CAP
       THEN UNCHANGED <<action_q, woken, action_waker>>
     ELSE send_action
  /\ UNCHANGED <<env, swarm_q, swarm_waker, swarm_task, log, net_pos,
                 net_task, peers, network_alive, dialing, performed>>

\* Mutant: the sender does not wait for room in the channel.
DialNoWait ==
  /\ network_alive
  /\ ~dialing
  /\ ndials < MaxDials
  /\ ndials' = ndials + 1
  /\ IF actions_closed THEN UNCHANGED <<action_q, woken, action_waker>>
     ELSE send_action
  /\ UNCHANGED <<env, swarm_q, swarm_waker, swarm_task, log, net_pos,
                 net_task, peers, network_alive, dialing, performed>>

(***************************************************************************)
(* dial / dial_addr: block_on(send) on the action channel.  The send fails *)
(* at once when the receiver is gone (unwrap_or(()) drops the error);     *)
(* with room it enqueues the action and wakes the receiver's task; on a   *)
(* full channel the caller's thread parks in block_on.                    *)
(***************************************************************************)
Dial ==
  /\ network_alive
  /\ ~dialing
  /\ ndials < MaxDials
  /\ ndials' = ndials + 1
  /\ IF actions_closed
       THEN UNCHANGED <<action_q, woken, action_waker, dialing>>
     ELSE IF Len(action_q) < ACTION_CAP
       THEN send_action /\ UNCHANGED dialing
     ELSE dialing' = TRUE /\ UNCHANGED <<action_q, woken, action_waker>>
  /\ UNCHANGED <<env, swarm_q, swarm_waker, swarm_task, log, net_pos,
                 net_task, peers, network_alive, performed>>

\* Mutant: a parked sender only resumes when there is room again.
DialResumeOnRoom ==
  /\ dialing
  /\ Len(action_q) < ACTION_CAP
  /\ send_action
  /\ dialing' = FALSE
  /\ UNCHANGED <<env, swarm_q, swarm_waker, swarm_task, log, net_pos,
                 net_task, peers, network_alive, ndials, performed>>

\* The parked send completes: with an error once the receiver is gone, or
\* with the action enqueued once the receiver has made room.
DialResume ==
  /\ dialing
  /\ actions_closed \/ Len(action_q) < ACTION_CAP
  /\ IF actions_closed THEN UNCHANGED <<action_q, woken, action_waker>>
     ELSE send_action
  /\ dialing' = FALSE
  /\ UNCHANGED <<env, swarm_q, swarm_waker, swarm_task, log, net_pos,
                 net_task, peers, network_alive, ndials, performed>>

\* Dropping the Network drops the action sender (the receiver then yields
\* None and wakes its task) and the last strong reference to peers.  A
\* caller parked in dial still borrows the Network.
DropNetwork ==
  /\ network_alive
  /\ ~dialing
  /\ network_alive' = FALSE
  /\ woken' = (woken \/ action_waker)
  /\ action_waker' = FALSE
  /\ UNCHANGED <<env, swarm_q, swarm_waker, action_q, swarm_task, log,
                 net_pos, net_task, peers, ndials, dialing, performed>>

\* Poll returns Ready(()): the task ends and is dropped.
Finish ==
  /\ swarm_task' = "done"
  /\ woken' = FALSE

\* Mutant: the end of the action stream is not a reason to stop.
PollOnClosed ==
  /\ action_waker' = TRUE
  /\ swarm_task' = "polling"
  /\ woken' = FALSE

\* The action receiver yields None: the Network is gone.
OnActionsClosed == Finish /\ UNCHANGED action_waker

\* Mutant: if let instead of while let, one action per poll.
PollActionsOnce ==
  /\ woken
  /\ swarm_task = "running"
  /\ IF receiver_count < 1
       THEN Finish /\ UNCHANGED <<action_q, action_waker, performed>>
     ELSE IF action_q # <<>>
       THEN /\ performed' = performed + 1
            /\ action_q' = Tail(action_q)
            /\ swarm_task' = "polling"
            /\ woken' = FALSE
            /\ UNCHANGED action_waker
     ELSE /\ UNCHANGED <<action_q, performed>>
          /\ IF ~network_alive THEN OnActionsClosed
             ELSE /\ action_waker' = TRUE
                  /\ swarm_task' = "polling"
                  /\ woken' = FALSE
  /\ UNCHANGED <<env, swarm_q, swarm_waker, log, net_pos, net_task, peers,
                 network_alive, ndials, dialing>>

(***************************************************************************)
(* SwarmTask::poll up to the swarm (lines 80-92): the receiver count check *)
(* returns Ready at once; otherwise every queued action is performed      *)
(* (perform_action, whose dial errors are only logged), and the action    *)
(* receiver then either yields None, once the Network is gone, or keeps   *)
(* the task's waker.  The task is taken off the run queue as it is polled, *)
(* so a wake during the rest of the poll schedules it again.              *)
(***************************************************************************)
PollActions ==
  /\ woken
  /\ swarm_task = "running"
  /\ IF receiver_count < 1
       THEN Finish /\ UNCHANGED <<action_q, action_waker, performed>>
     ELSE /\ performed' = performed + Len(action_q)
          /\ action_q' = <<>>
          /\ IF ~network_alive THEN OnActionsClosed
             ELSE /\ action_waker' = TRUE
                  /\ swarm_task' = "polling"
                  /\ woken' = FALSE
  /\ UNCHANGED <<env, swarm_q, swarm_waker, log, net_pos, net_task, peers,
                 network_alive, ndials, dialing>>

(***************************************************************************)
(* The rest of the same poll (lines 94-121), a separate step because the  *)
(* network task and the Network's owner run on other threads meanwhile.  *)
(* Pending leaves the waker with the swarm; an event is sent on the       *)
(* broadcast channel and poll returns Pending, although the swarm, which  *)
(* was Ready, holds no waker; the send fails when the receiver count has  *)
(* dropped to zero since the check, and poll returns Ready.               *)
(***************************************************************************)
PollSwarm ==
  /\ swarm_task = "polling"
  /\ IF swarm_q = <<>>
       THEN /\ swarm_waker' = TRUE
            /\ swarm_task' = "running"
            /\ UNCHANGED <<swarm_q, log, woken>>
     ELSE /\ swarm_q' = Tail(swarm_q)
          /\ UNCHANGED swarm_waker
          /\ IF receiver_count >= 1
               THEN /\ log' = Append(log, Head(swarm_q))
                    /\ swarm_task' = "running"
                    /\ UNCHANGED woken
               ELSE Finish /\ UNCHANGED log
  /\ UNCHANGED <<env, action_q, action_waker, net_pos, net_task, peers,
                 network_alive, ndials, dialing, performed>>

\* Mutant: a leave is acknowledged but the entry is kept.
ApplyKeepOnLeave(S, e) == IF e.kind = "PeerJoined" THEN S \cup {e.peer} ELSE S

\* The peers map update of one event; panics on a duplicate join or an
\* unknown leave.
Apply(S, e) ==
  IF e.kind = "PeerJoined" THEN S \cup {e.peer} ELSE S \ {e.peer}
Panics(S, e) ==
  IF e.kind = "PeerJoined" THEN e.peer \in S ELSE e.peer \notin S

\* A broadcast receive at position n: Lagged when more than the capacity
\* was sent since, else the next event.
net_recv(n) ==
  IF Len(log) - n > BCAST_CAP
    THEN [pos |-> n, ok |-> FALSE]
    ELSE [pos |-> n + 1, ok |-> TRUE]

\* Mutant: a lagged receive is skipped (filter instead of take_while) and
\* the receiver resumes at the oldest event the channel still holds.
NetworkTaskStepSkipLagged ==
  /\ net_task = "running"
  /\ net_pos < Len(log)
  /\ LET r == net_recv(net_pos)
         e == log[r.pos]
     IN  IF ~network_alive
           THEN net_task' = "stopped" /\ UNCHANGED <<net_pos, peers>>
         ELSE IF ~r.ok
           THEN net_pos' = Len(log) - BCAST_CAP /\ UNCHANGED <<net_task, peers>>
         ELSE /\ net_pos' = r.pos
              /\ IF Panics(peers, e)
                   THEN net_task' = "panicked" /\ UNCHANGED peers
                   ELSE peers' = Apply(peers, e) /\ UNCHANGED net_task
  /\ UNCHANGED <<env, swarm_q, swarm_waker, action_q, action_waker, woken,
                 swarm_task, log, network_alive, ndials, dialing,
                 performed>>

(***************************************************************************)
(* The network task takes one item of the receiver stream: take_while     *)
(* ends the task on an error or once peers is gone; for_each applies the  *)
(* event to the peers map under its write lock.                           *)
(***************************************************************************)
NetworkTaskStep ==
  /\ net_task = "running"
  /\ net_pos < Len(log)
  /\ LET r == net_recv(net_pos)
         e == log[r.pos]
     IN  IF ~r.ok \/ ~network_alive
           THEN net_task' = "stopped" /\ UNCHANGED <<net_pos, peers>>
         ELSE /\ net_pos' = r.pos
              /\ IF Panics(peers, e)
                   THEN net_task' = "panicked" /\ UNCHANGED peers
                   ELSE peers' = Apply(peers, e) /\ UNCHANGED net_task
  /\ UNCHANGED <<env, swarm_q, swarm_waker, action_q, action_waker, woken,
                 swarm_task, log, network_alive, ndials, dialing,
                 performed>>

\* Both senders are gone: the receiver stream ends, and the task with it.
NetworkTaskClosed ==
  /\ net_task = "running"
  /\ net_pos = Len(log)
  /\ ~network_alive
  /\ swarm_task = "done"
  /\ net_task' = "stopped"
  /\ UNCHANGED <<env, swarm_q, swarm_waker, action_q, action_waker, woken,
                 swarm_task, log, net_pos, peers, network_alive, ndials,
                 dialing, performed>>

Environment ==
  \/ \E p \in Peers : Connect(p) \/ Disconnect(p)
  \/ Dial
  \/ DropNetwork

Next ==
  \/ Environment
  \/ DialResume
  \/ PollActions
  \/ PollSwarm
  \/ NetworkTaskStep
  \/ NetworkTaskClosed

(***************************************************************************)
(* The tokio runtime polls every woken task and runs a poll to its end;   *)
(* a caller parked in block_on is unparked when the receiver pops an      *)
(* action or is dropped.  The environment owes nothing.                   *)
(***************************************************************************)
Fairness ==
  /\ WF_vars(PollActions)
  /\ WF_vars(PollSwarm)
  /\ WF_vars(DialResume)
  /\ WF_vars(NetworkTaskStep)
  /\ WF_vars(NetworkTaskClosed)

Spec == Init /\ [][Next]_vars /\ Fairness

-----------------------------------------------------------------------------
(***************************************************************************)
(* Properties.                                                             *)
(***************************************************************************)

TypeOK ==
  /\ connected \subseteq Peers
  /\ swarm_q \in Seq(Events) /\ log \in Seq(Events)
  /\ action_q \in Seq({"Dial"}) /\ Len(action_q) <= ACTION_CAP
  /\ {swarm_waker, action_waker, woken, network_alive, dialing} \subseteq BOOLEAN
  /\ swarm_task \in {"running", "polling", "done"}
  /\ ndials \in 0..MaxDials /\ performed \in 0..ndials
  /\ net_task \in {"running", "stopped", "panicked"}
  /\ net_pos \in 0..Len(log)
  /\ peers \subseteq Peers

(***************************************************************************)
(* The peers map that get_peers reads agrees with the swarm's connections *)
(* whenever the pipeline claims to be current: the swarm has no event     *)
(* left, the network task is still running and has received everything   *)
(* broadcast.  It takes the swarm's event order, SwarmTask::poll's        *)
(* dispatch (lines 94-116), the broadcast channel and the network task's  *)
(* take_while/for_each (lines 193-218) to agree; a receiver that went on  *)
(* past a lag would hold a stale map here.                                *)
(***************************************************************************)
PeersMatchConnections ==
  (net_task = "running" /\ swarm_q = <<>> /\ net_pos = Len(log))
    => peers = connected

(***************************************************************************)
(* The network task never reaches the panics of new_network_task          *)
(* ("Duplicate peer", "Unknown peer disconnected"): the swarm's joins and *)
(* leaves of a peer alternate, and the task sees them in order or stops.   *)
(***************************************************************************)
NoPanic == net_task # "panicked"

(***************************************************************************)
(* Once the Network handle is dropped, SwarmTask eventually returns       *)
(* Ready and ends (the action stream's None, lines 87-91).                 *)
(***************************************************************************)
SwarmTaskTerminates == ~network_alive ~> swarm_task = "done"

(***************************************************************************)
(* A dial call parked in block_on on a full action channel (line 226)      *)
(* always returns: the SwarmTask drains the channel, or it ends and drops  *)
(* the receiver so that the send fails.                                    *)
(***************************************************************************)
DialReturns == dialing ~> ~dialing

(***************************************************************************)
(* Every action a dial call hands to the channel is eventually taken off  *)
(* it and performed by the SwarmTask (the while-let drain of lines 87-92, *)
(* which leaves the waker with the receiver), unless the SwarmTask ends.  *)
(***************************************************************************)
DialPerformed ==
  \A k \in 1..MaxDials :
    (ndials >= k /\ ~dialing) ~> (performed >= k \/ swarm_task = "done")

\* The dials handed to the channel and not yet performed: those buffered
\* and the one parked in block_on, while the receiver exists.
handed_over ==
  IF actions_closed THEN 0
  ELSE Len(action_q) + (IF dialing THEN 1 ELSE 0)

AC == INSTANCE ActionChannel
        WITH open <- ~actions_closed,
             pending <- handed_over,
             performed <- performed,
             dropped <- ndials - performed - handed_over

(***************************************************************************)
(* The channel, the parked dial and the SwarmTask's drain implement the   *)
(* promise of ActionChannel: a dial made while the SwarmTask runs is      *)
(* performed exactly once, never lost on a full channel, and dials are    *)
(* lost only when the SwarmTask stops (lines 79-92, 224-232).             *)
(***************************************************************************)
ImplementsActionChannel == AC!Spec

(***************************************************************************)
(* Every event the swarm has ready is eventually dispatched on the         *)
(* broadcast channel, or the task has ended: a poll that returns Pending   *)
(* must leave a waker with a source that will fire (lines 95-111).        *)
(***************************************************************************)
SwarmEventsDispatched ==
  swarm_q # <<>> ~> (swarm_q = <<>> \/ swarm_task = "done")

(***************************************************************************)
(* The comment of lines 80-81: the receiver count drops to zero only when  *)
(* the network has gone away, so SwarmTask ends only then.                 *)
(***************************************************************************)
SwarmTaskEndsOnlyWithNetwork ==
  swarm_task = "done" => ~network_alive
=============================================================================
