------------------------------ MODULE HubProps ------------------------------
(***************************************************************************)
(* What is asked of the daemon: the properties of module Hub.              *)
(***************************************************************************)
EXTENDS Hub

(* An event is dispatched only where there is something to do: the write    *)
(* branch takes the front of its deque without looking whether it has one,  *)
(* so between epoll_wait and the dispatch nothing may empty that deque, and *)
(* the read branch would block the whole hub in read if the socket's frame  *)
(* were gone.                                                               *)
EventsStayTrue ==
  pc = "dispatch" =>
    /\ \A e \in events : IF e.out THEN queue[e.sock] # <<>>
                         ELSE rx[e.sock] # <<>> \/ sockErr[e.sock]
    /\ \A e, f \in events : e.sock = f.sock => e = f

(* Between accepting a frame and sending it nothing is lost, reordered,     *)
(* repeated or changed, unless the hub is told to or something fails: the   *)
(* frames held in the kernel and in the deques, and the last one sent, are  *)
(* a lossy pass-through.                                                    *)
Lossy == INSTANCE PassThrough WITH
  Opposite <- Other, Broken <- TRUE, out <- lastTx,
  flight <- [s \in Ports |-> queue[Other(s)] \o rx[s]]
LossyPassThrough == Lossy!PTSpec

(* The same with nothing to break the frames: a lossless pass-through of    *)
(* everything but the interfaces' own traffic.                              *)
Lossless == INSTANCE PassThrough WITH
  Opposite <- Other, Broken <- FALSE, out <- lastTx,
  flight <- [s \in Ports |-> queue[Other(s)] \o rx[s]]
PassesThrough == Lossless!PTSpec

(* After a throttled write the next one to that port waits at least the     *)
(* whole seconds of the pause, by the clock readings the loop goes by:      *)
(* while EPOLLOUT is asked for, or an EPOLLOUT event waits to be            *)
(* dispatched, that much has passed.                                        *)
MayWrite(s) == \/ pc \in {"epoll_wait", "sleeping"} /\ s \in interest
               \/ pc = "dispatch" /\ [sock |-> s, out |-> TRUE] \in events
PauseHeldInSeconds ==
  \A s \in Ports : MayWrite(s) =>
    tick.sec >= paced[s].tick.sec + (paced[s].pause \div NsPerS)

(* No pause is longer than the configured time for the largest frame the    *)
(* buffer can hold.  Between the two halves of a reload the configuration   *)
(* is already the new one.                                                  *)
PauseBounded ==
  pc \notin {"clear_flag", "down"} =>
    \A s \in Ports : paced[s].pause <= config.bandwidth * BufSize

(* A request to reload that came after the file was read is not forgotten.  *)
ReloadPending == asked => reload_config

(* A port that can always send and is not throttled holds two frames at     *)
(* most, and the loop starts a round with one: each round takes in at most  *)
(* one frame per port and sends one.                                        *)
BacklogBounded ==
  \A s \in Ports :
    Len(queue[s]) <= (IF pc \in {"dispatch", "stuck", "down"} THEN 2 ELSE 1)

-----------------------------------------------------------------------------
(* Fairness: the daemon is scheduled while it can run, the clock goes on,   *)
(* and a full send buffer drains.                                           *)
Scheduled == /\ WF_vars(Daemon) /\ WF_vars(ClockTicks)
             /\ \A s \in Ports : WF_vars(TxDrains(s))
FairSpec == Spec /\ Scheduled

(* The same with networks that never fall silent. *)
BusySpec == FairSpec /\ \A s \in Ports : WF_vars(Arrive(s))

(* Unless the daemon is killed, every frame the kernel holds is read, and   *)
(* every queued frame leaves.                                               *)
InputDrains == \A s \in Ports : rx[s] # <<>> ~> rx[s] = <<>> \/ pc = "down"
OutputDrains == \A s \in Ports : queue[s] # <<>> ~> queue[s] = <<>> \/ pc = "down"

(* A queued frame gets a write event, however busy the networks are.        *)
WritesHappen ==
  \A s \in Ports : queue[s] # <<>> ~> [sock |-> s, out |-> TRUE] \in events

(* A request to reload is followed by a reading of the file, unless it      *)
(* comes between a load and the clearing of the flag, if the networks keep  *)
(* the loop turning.  (Without traffic, one that comes between the test of  *)
(* the flag and epoll_wait is not seen.)                                    *)
FlagHonoured == asked /\ reload_config /\ pc # "clear_flag" ~> ~asked
=============================================================================
