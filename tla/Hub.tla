-------------------------------- MODULE Hub --------------------------------
(***************************************************************************)
(* The daemon: the event loop of main.cpp with the packet filter of        *)
(* filter.cpp, between two raw sockets, a monotonic clock and a signal.    *)
(*                                                                         *)
(* One step is one system call, one dispatched event or one statement that *)
(* a signal can come before or after: the flag test together with the read *)
(* of the file, the clearing of the flag, the computation of the write     *)
(* interests, epoll_wait, and each event it returned.                      *)
(*                                                                         *)
(* A frame is what the code tells frames apart by: its two addresses, its  *)
(* length and whether filter has overwritten bytes of it; seq is an        *)
(* observer's stamp.                                                       *)
(***************************************************************************)
EXTENDS ConfigLoad, Sequences, FiniteSets

CONSTANTS
  Mac,         \* the hardware address of each interface
  WireFrames,  \* the frames the two networks send: dst, src, len
  Docs,        \* the documents /etc/brokenhub.conf may hold
  BufSize,     \* sizeof in_data, 1600 in the program
  NoReturn,    \* what corrupt_packet, which has no return statement, may do
  Env,         \* the behaviours of the environment that are switched on
  MaxFrames,   \* bound: frames per behaviour, when they are numbered
  RxCap,       \* bound: frames a socket buffers; the kernel drops the rest
  MaxSec       \* bound: the second at which the clock stops

Ports == {"a", "b"}
Other(s) == IF s = "a" THEN "b" ELSE "a"

Addr == [1 .. 6 -> 0 .. 255]

EnvBehaviours == {"signal", "edit", "endless", "tx_busy", "write_fails",
                  "link_down", "restart"}

ASSUME HubAssumption ==
  /\ Mac \in [Ports -> Addr]
  /\ WireFrames \subseteq [dst : Addr, src : Addr, len : Nat \ {0}]
  /\ \A doc \in Docs : IsDoc(doc)
  /\ BufSize \in Nat \ {0}
  /\ NoReturn \subseteq {"returns", "hangs"} /\ NoReturn # {}
  /\ Env \subseteq EnvBehaviours
  /\ MaxFrames \in Nat /\ RxCap \in Nat /\ MaxSec \in Nat

Frame == [seq : Nat, dst : Addr, src : Addr, len : Nat, bad : BOOLEAN]
timespec == [sec : Nat, nsec : Nat]
Zero == [sec |-> 0, nsec |-> 0]
NotPaced == [at |-> Zero, tick |-> Zero, pause |-> 0]

VARIABLES
  pc,             \* where main's loop is
  reload_config,  \* the flag the SIGHUP handler sets
  config,         \* the global config_t
  queue,          \* queue[s]: a_queue and b_queue, the frames to write to s
  queue_time,     \* a_queue_time and b_queue_time
  tick,           \* this_tick
  interest,       \* the sockets whose epoll registration asks for EPOLLOUT
  events,         \* the events of this epoll_wait still to be dispatched
  rx,             \* rx[s]: frames the kernel holds for socket s
  sockErr,        \* sockErr[s]: socket s has an error pending
  txReady,        \* txReady[s]: socket s has room to send
  now,            \* CLOCK_MONOTONIC
  disk,           \* the document in /etc/brokenhub.conf
  stamp,          \* seq of the next frame
  lastTx,         \* observer: the last frame written to each port, if any
  paced,          \* observer: clock, this_tick and pause of the last throttled write
  asked           \* observer: a SIGHUP came after the file was last read

wire == <<rx, sockErr, txReady, now, disk, stamp>>
observers == <<lastTx, paced, asked>>
vars == <<pc, reload_config, config, queue, queue_time, tick, interest,
          events, wire, observers>>

Labels == {"starting", "test_reload", "clear_flag", "arm", "epoll_wait", "sleeping",
           "dispatch", "stuck", "down"}

TypeOK ==
  /\ pc \in Labels
  /\ reload_config \in BOOLEAN
  /\ config \in config_t
  /\ queue \in [Ports -> Seq(Frame)]
  /\ queue_time \in [Ports -> timespec]
  /\ tick \in timespec
  /\ interest \in SUBSET Ports
  /\ events \in SUBSET [sock : Ports, out : BOOLEAN]
  /\ rx \in [Ports -> Seq(Frame)]
  /\ sockErr \in [Ports -> BOOLEAN]
  /\ txReady \in [Ports -> BOOLEAN]
  /\ now \in timespec
  /\ disk \in Docs
  /\ stamp \in Nat
  /\ lastTx \in [Ports -> Seq(Frame)]
  /\ paced \in [Ports -> [at : timespec, tick : timespec, pause : Nat]]
  /\ asked \in BOOLEAN

-----------------------------------------------------------------------------
(* Mutant: the nanoseconds are compared first.                              *)
CmpTimesNsecFirst(a, b) ==
  IF a.nsec = b.nsec
  THEN IF a.sec = b.sec THEN 0 ELSE IF a.sec > b.sec THEN 1 ELSE -1
  ELSE IF a.nsec > b.nsec THEN 1 ELSE -1

(* cmp_times *)
CmpTimes(a, b) ==
  IF a.sec = b.sec
  THEN IF a.nsec = b.nsec THEN 0 ELSE IF a.nsec > b.nsec THEN 1 ELSE -1
  ELSE IF a.sec > b.sec THEN 1 ELSE -1

(* strncmp(p, q, 6) = 0: no difference before the first NUL of p.           *)
StrncmpZero(p, q) ==
  \A i \in 1 .. 6 : (\A j \in 1 .. (i - 1) : p[j] = q[j] /\ p[j] # 0) => p[i] = q[i]

(* The frame is from or to the interface itself, as main's read branch      *)
(* judges it.                                                               *)
OwnTraffic(f, s) == StrncmpZero(f.dst, Mac[s]) \/ StrncmpZero(f.src, Mac[s])

(* rand_test over every value rand may return. *)
RandTest(cutoff) == {(r < cutoff) : r \in Ulong}

(* filter, after drop_packet has let the frame through.                     *)
Corrupts == IF config.corrupt_packets # 0 /\ config.corrupt_bytes # 0
            THEN RandTest(config.corrupt_packets) ELSE {FALSE}
Drops == IF config.drop # 0 THEN RandTest(config.drop) ELSE {FALSE}

(* corrupt_packet writes rand() % corrupt_bytes bytes, each of which may    *)
(* happen to be what it was.                                                *)
Damage(f) == {f} \cup (IF config.corrupt_bytes > 1 THEN {[f EXCEPT !.bad = TRUE]} ELSE {})

Truncated(f) ==
  IF config.truncate_len # 0 /\ f.len > config.truncate_len
  THEN [f EXCEPT !.len = config.truncate_len] ELSE f

(* What read(sock, in_data, 1600) delivers of a frame. *)
Received(f) == IF f.len > BufSize THEN [f EXCEPT !.len = BufSize] ELSE f

(* Mutant: a frame that could not be written is put back, at the end.       *)
AfterWriteRequeued(q, ok) == IF ok THEN Tail(q) ELSE Append(Tail(q), Head(q))

(* What becomes of the socket's queue: pop_front, whether or not write took *)
(* the frame.                                                               *)
AfterWrite(q, ok) == Tail(q)

(* Mutant: emplace_front.                                                   *)
EnqueueFront(q, f) == <<f>> \o q

(* What becomes of the other socket's queue: emplace_back. *)
Enqueue(q, f) == Append(q, f)

(* Mutant: the pause counts one byte too many.                              *)
NsToSleepOneMore(len) == (config.bandwidth * (len + 1)) % Word

(* ns_to_sleep and target_sleep. *)
NsToSleep(len) == (config.bandwidth * len) % Word
TargetSleep(ns) == [sec  |-> tick.sec + (ns \div NsPerS),
                    nsec |-> tick.nsec + (ns % NsPerS)]

(* Mutants: the interest is never withdrawn; the other queue is looked at;  *)
(* the comparison is the wrong way; one port at a time is listened to.      *)
WriteInterestSticky ==
  interest \cup {s \in Ports : queue[s] # <<>> /\ CmpTimes(now, queue_time[s]) > 0}
WriteInterestSwapped ==
  {s \in Ports : queue[Other(s)] # <<>> /\ CmpTimes(now, queue_time[s]) > 0}
WriteInterestEarly ==
  {s \in Ports : queue[s] # <<>> /\ CmpTimes(now, queue_time[s]) < 0}
WriteInterestOne ==
  IF queue["a"] # <<>> THEN {"a"} ELSE {s \in Ports : queue[s] # <<>>}

(* write_to_a and write_to_b: the sockets registered with EPOLLOUT. *)
WriteInterest ==
  {s \in Ports : queue[s] # <<>> /\ CmpTimes(now, queue_time[s]) > 0}

(* Mutant: only the first load is ever made.                                *)
MustReloadOnce == reload_config /\ config = ZeroConfig

(* if (reload_config) *)
MustReload == reload_config

(* What epoll reports for socket s; the code looks at the EPOLLOUT bit only.*)
Writable(s) == s \in interest /\ txReady[s]
Readable(s) == rx[s] # <<>> \/ sockErr[s]
(* Mutant: the readable branch is taken first.                              *)
ReadyReadFirst == {e \in [sock : Ports, out : BOOLEAN] :
                     IF e.out THEN Writable(e.sock) /\ ~Readable(e.sock)
                     ELSE Readable(e.sock)}
Ready == {e \in [sock : Ports, out : BOOLEAN] :
            IF e.out THEN Writable(e.sock)
            ELSE Readable(e.sock) /\ ~Writable(e.sock)}

-----------------------------------------------------------------------------
(* The entry of main, with the globals as the loader leaves them. *)
Init ==
  /\ pc = "starting"
  /\ reload_config = TRUE
  /\ config = ZeroConfig
  /\ queue = [s \in Ports |-> <<>>]
  /\ queue_time = [s \in Ports |-> Zero]
  /\ tick = Zero
  /\ interest = {}
  /\ events = {}
  /\ rx = [s \in Ports |-> <<>>]
  /\ sockErr = [s \in Ports |-> FALSE]
  /\ txReady = [s \in Ports |-> TRUE]
  /\ now = [sec |-> 1, nsec |-> 0]
  /\ disk \in Docs
  /\ stamp = 1
  /\ lastTx = [s \in Ports |-> <<>>]
  /\ paced = [s \in Ports |-> NotPaced]
  /\ asked = FALSE

(* main before the loop: the sockets are opened and bound, the addresses    *)
(* read, both sockets registered with epoll and SIGHUP's handler installed. *)
(* Any of it may fail, and then main aborts.                                *)
Setup ==
  /\ pc = "starting"
  /\ pc' \in {"test_reload"} \cup (IF "link_down" \in Env THEN {"down"} ELSE {})
  /\ UNCHANGED <<reload_config, config, queue, queue_time, tick, interest,
                 events, wire, observers>>

(* if (reload_config) load_config(): the file is read here. *)
LoadConfig ==
  /\ pc = "test_reload" /\ MustReload
  /\ asked' = FALSE
  /\ IF LoadResults(disk) = {}
     THEN pc' = "down" /\ UNCHANGED config
     ELSE pc' = "clear_flag" /\ config' \in LoadResults(disk)
  /\ UNCHANGED <<reload_config, queue, queue_time, tick, interest, events,
                 wire, lastTx, paced>>

(* reload_config = false and the two queue times. *)
ClearFlag ==
  /\ pc = "clear_flag"
  /\ reload_config' = FALSE
  /\ queue_time' = [s \in Ports |-> Zero]
  /\ paced' = [s \in Ports |-> NotPaced]
  /\ pc' = "arm"
  /\ UNCHANGED <<config, queue, tick, interest, events, wire, lastTx, asked>>

SkipReload ==
  /\ pc = "test_reload" /\ ~MustReload
  /\ pc' = "arm"
  /\ UNCHANGED <<reload_config, config, queue, queue_time, tick, interest,
                 events, wire, observers>>

(* this_tick, write_to_a, write_to_b and the two listen_write calls. *)
Arm ==
  /\ pc = "arm"
  /\ tick' = now
  /\ interest' = WriteInterest
  /\ pc' = "epoll_wait"
  /\ UNCHANGED <<reload_config, config, queue, queue_time, events, wire, observers>>

(* epoll_wait with nothing to report blocks, without a timeout. *)
EpollSleeps ==
  /\ pc = "epoll_wait" /\ Ready = {}
  /\ pc' = "sleeping"
  /\ UNCHANGED <<reload_config, config, queue, queue_time, tick, interest,
                 events, wire, observers>>

EpollReturns ==
  /\ pc \in {"epoll_wait", "sleeping"} /\ Ready # {}
  /\ events' = Ready
  /\ pc' = "dispatch"
  /\ UNCHANGED <<reload_config, config, queue, queue_time, tick, interest,
                 wire, observers>>

(* The end of one round of the for loop over the events. *)
Dispatched(e) ==
  /\ events' = events \ {e}
  /\ pc' = IF events' = {} THEN "test_reload" ELSE "dispatch"

(* The EPOLLOUT branch.  The pause is computed from write's result, -1 for  *)
(* a failure.  A write may leave the socket without room for another.       *)
WriteFrame(e, ok) ==
  LET s == e.sock
      f == Head(queue[s])
      pause == NsToSleep(IF ok THEN f.len ELSE -1)
  IN /\ pc = "dispatch" /\ e \in events /\ e.out /\ queue[s] # <<>>
     /\ ok \/ sockErr[s] \/ "write_fails" \in Env
     /\ queue' = [queue EXCEPT ![s] = AfterWrite(@, ok)]
     /\ lastTx' = IF ok THEN [lastTx EXCEPT ![s] = <<f>>] ELSE lastTx
     /\ txReady' \in {txReady} \cup
          (IF ok /\ "tx_busy" \in Env THEN {[txReady EXCEPT ![s] = FALSE]} ELSE {})
     /\ IF config.bandwidth # 0
        THEN /\ queue_time' = [queue_time EXCEPT ![s] = TargetSleep(pause)]
             /\ paced' = [paced EXCEPT ![s] =
                  [at |-> now, tick |-> tick, pause |-> pause]]
        ELSE UNCHANGED <<queue_time, paced>>
     /\ Dispatched(e)
     /\ UNCHANGED <<reload_config, config, tick, interest, rx, sockErr, now,
                    disk, stamp, asked>>

HandleWrite == \E e \in events, ok \in BOOLEAN : WriteFrame(e, ok)

(* The read branch when read fails: abort. *)
ReadAborts ==
  /\ pc = "dispatch"
  /\ \E e \in events : ~e.out /\ sockErr[e.sock]
  /\ pc' = "down"
  /\ UNCHANGED <<reload_config, config, queue, queue_time, tick, interest,
                 events, wire, observers>>

(* The read branch: read, the test for the interface's own traffic, filter, *)
(* and the append to the other side's queue.                                *)
ReadFrame(e, dropped, corrupted) ==
  LET s == e.sock
      f == Received(Head(rx[s]))
  IN /\ pc = "dispatch" /\ e \in events /\ ~e.out
     /\ ~sockErr[s] /\ rx[s] # <<>>
     /\ rx' = [rx EXCEPT ![s] = Tail(@)]
     /\ \/ /\ OwnTraffic(f, s) \/ dropped
           /\ ~corrupted
           /\ Dispatched(e)
           /\ UNCHANGED queue
        \/ /\ ~OwnTraffic(f, s) /\ ~dropped
           /\ ~corrupted \/ "returns" \in NoReturn
           /\ \E g \in IF corrupted THEN Damage(f) ELSE {f} :
                queue' = [queue EXCEPT ![Other(s)] = Enqueue(@, Truncated(g))]
           /\ Dispatched(e)
        \/ /\ ~OwnTraffic(f, s) /\ ~dropped
           /\ corrupted /\ "hangs" \in NoReturn
           /\ pc' = "stuck"
           /\ UNCHANGED <<queue, events>>
     /\ UNCHANGED <<reload_config, config, queue_time, tick, interest, sockErr,
                    txReady, now, disk, stamp, observers>>

HandleRead == \E e \in events, dropped \in Drops, corrupted \in Corrupts :
                ReadFrame(e, dropped, corrupted)

Daemon == \/ Setup
          \/ LoadConfig \/ ClearFlag \/ SkipReload \/ Arm
          \/ EpollSleeps \/ EpollReturns
          \/ HandleWrite \/ HandleRead \/ ReadAborts

-----------------------------------------------------------------------------
(* The world around the daemon. *)

(* A frame reaches the socket of a port; beyond RxCap the kernel drops it   *)
(* and the daemon never learns of it.                                       *)
Arrive(s) ==
  /\ pc # "down"
  /\ "endless" \in Env \/ stamp <= MaxFrames
  /\ Len(rx[s]) < RxCap
  /\ \E w \in WireFrames :
       rx' = [rx EXCEPT ![s] = Append(@,
                [seq |-> stamp, dst |-> w.dst, src |-> w.src, len |-> w.len,
                 bad |-> FALSE])]
  /\ stamp' = IF "endless" \in Env THEN stamp ELSE stamp + 1
  /\ UNCHANGED <<pc, reload_config, config, queue, queue_time, tick, interest,
                 events, sockErr, txReady, now, disk, observers>>

(* SIGHUP: the default action while there is no handler; then               *)
(* signal_reload_handler, and the EINTR of a blocked epoll_wait, whose      *)
(* count of -1 skips the for loop.                                          *)
EarlySignal ==
  /\ "signal" \in Env /\ pc = "starting"
  /\ pc' = "down"
  /\ UNCHANGED <<reload_config, config, queue, queue_time, tick, interest,
                 events, wire, observers>>
Signal ==
  /\ "signal" \in Env /\ pc \notin {"starting", "down"}
  /\ reload_config' = TRUE
  /\ asked' = TRUE
  /\ pc' = IF pc = "sleeping" THEN "test_reload" ELSE pc
  /\ UNCHANGED <<config, queue, queue_time, tick, interest, events, wire,
                 lastTx, paced>>

(* Someone replaces the file. *)
Edit ==
  /\ "edit" \in Env
  /\ disk' \in Docs \ {disk}
  /\ UNCHANGED <<pc, reload_config, config, queue, queue_time, tick, interest,
                 events, rx, sockErr, txReady, now, stamp, observers>>

(* The clock advances one nanosecond. *)
ClockTicks ==
  /\ now.sec < MaxSec
  /\ now' = IF now.nsec + 1 < NsPerS
            THEN [now EXCEPT !.nsec = @ + 1]
            ELSE [sec |-> now.sec + 1, nsec |-> 0]
  /\ UNCHANGED <<pc, reload_config, config, queue, queue_time, tick, interest,
                 events, rx, sockErr, txReady, disk, stamp, observers>>

(* The driver takes what fills the send buffer of a socket. *)
TxDrains(s) ==
  /\ ~txReady[s] /\ txReady' = [txReady EXCEPT ![s] = TRUE]
  /\ UNCHANGED <<pc, reload_config, config, queue, queue_time, tick, interest,
                 events, rx, sockErr, now, disk, stamp, observers>>

(* The interface of a port goes down: its socket reports ENETDOWN. *)
LinkDown(s) ==
  /\ "link_down" \in Env /\ pc # "down"
  /\ sockErr' = [sockErr EXCEPT ![s] = TRUE]
  /\ UNCHANGED <<pc, reload_config, config, queue, queue_time, tick, interest,
                 events, rx, txReady, now, disk, stamp, observers>>

(* The init script: stop kills the daemon at any point, start begins again  *)
(* with new sockets.                                                        *)
Stop ==
  /\ "restart" \in Env /\ pc # "down"
  /\ pc' = "down"
  /\ UNCHANGED <<reload_config, config, queue, queue_time, tick, interest,
                 events, wire, observers>>
Start ==
  /\ "restart" \in Env /\ pc = "down"
  /\ pc' = "starting"
  /\ reload_config' = TRUE
  /\ config' = ZeroConfig
  /\ queue' = [s \in Ports |-> <<>>]
  /\ queue_time' = [s \in Ports |-> Zero]
  /\ tick' = Zero
  /\ interest' = {}
  /\ events' = {}
  /\ rx' = [s \in Ports |-> <<>>]
  /\ sockErr' = [s \in Ports |-> FALSE]
  /\ paced' = [s \in Ports |-> NotPaced]
  /\ asked' = FALSE
  /\ UNCHANGED <<txReady, now, disk, stamp, lastTx>>

World == \/ \E s \in Ports : Arrive(s) \/ TxDrains(s) \/ LinkDown(s)
         \/ EarlySignal \/ Signal \/ Edit \/ ClockTicks \/ Stop \/ Start

Next == Daemon \/ World
Spec == Init /\ [][Next]_vars
=============================================================================
