------------------------------ MODULE HubProofs ------------------------------
(***************************************************************************)
(* What holds of the daemon for every word size, address, frame, document, *)
(* buffer and environment.                                                 *)
(***************************************************************************)
EXTENDS HubProps, ConfigLoadProofs, SequenceTheorems, TLAPS

-----------------------------------------------------------------------------
(* Types. *)

(* The observers start as values of their types.                            *)
LEMMA ZeroType == Zero \in timespec /\ NotPaced \in [at : timespec, tick : timespec, pause : Nat]
BY DEF Zero, NotPaced, timespec

NoFramesAnywhere == [s \in Ports |-> <<>>]

(* A hub without frames has queues of frames.                               *)
LEMMA EmptyQueues == NoFramesAnywhere \in [Ports -> Seq(Frame)]
BY DEF NoFramesAnywhere

(* main is entered with every variable a value of its type.                 *)
LEMMA InitType == Init => TypeOK
<1> SUFFICES ASSUME Init PROVE TypeOK
  OBVIOUS
<1>1. ZeroConfig \in config_t
  BY ConfigAssumption DEF ZeroConfig, config_t, Ulong
<1>2. [sec |-> 1, nsec |-> 0] \in timespec
  BY DEF timespec
<1>3. NoFramesAnywhere \in [Ports -> Seq(Frame)]
  BY EmptyQueues
<1>4. /\ queue \in [Ports -> Seq(Frame)]
      /\ rx \in [Ports -> Seq(Frame)]
      /\ lastTx \in [Ports -> Seq(Frame)]
  BY <1>3 DEF Init, NoFramesAnywhere
<1>5. /\ queue_time \in [Ports -> timespec] /\ tick \in timespec
      /\ paced \in [Ports -> [at : timespec, tick : timespec, pause : Nat]]
  BY ZeroType DEF Init
<1> QED BY <1>1, <1>2, <1>4, <1>5 DEF Init, TypeOK, Labels

(* The pause of a write is a word, and its target a time, whatever write    *)
(* returned.                                                                *)
LEMMA PauseType ==
  ASSUME TypeOK, NEW len \in Int
  PROVE  /\ NsToSleep(len) \in Nat
         /\ TargetSleep(NsToSleep(len)) \in timespec
<1>1. config.bandwidth \in Int
  BY DEF TypeOK, config_t, Ulong
<1>2. config.bandwidth * len \in Int
  BY <1>1
<1>3. NsToSleep(len) \in Nat
  BY <1>2, ConfigAssumption DEF NsToSleep
<1>4. \A n \in Nat : n \div NsPerS \in Nat /\ n % NsPerS \in Nat
  BY ConfigAssumption
<1>5. tick.sec \in Nat /\ tick.nsec \in Nat
  BY DEF TypeOK, timespec
<1> QED BY <1>3, <1>4, <1>5 DEF TargetSleep, timespec

(* What filter makes of a frame that read delivered is a frame. *)
LEMMA FilterType ==
  ASSUME TypeOK, NEW f \in Frame
  PROVE  /\ Received(f) \in Frame
         /\ Truncated(f) \in Frame
         /\ Damage(f) \subseteq Frame
<1>1. config.truncate_len \in Nat
  BY ConfigAssumption DEF TypeOK, config_t, Ulong
<1>2. ASSUME NEW g \in Frame, NEW n \in Nat
      PROVE  [g EXCEPT !.len = n] \in Frame
  BY DEF Frame
<1>3. [f EXCEPT !.bad = TRUE] \in Frame
  BY DEF Frame
<1>4. Received(f) \in Frame
  BY <1>2, HubAssumption DEF Received
<1>5. Truncated(f) \in Frame
  BY <1>1, <1>2 DEF Truncated
<1>6. Damage(f) \subseteq Frame
  BY <1>3 DEF Damage
<1> QED BY <1>4, <1>5, <1>6

(* The read branch leaves the deques alone or appends one frame, no longer  *)
(* than the buffer, to the other side's.                                    *)
LEMMA ReadQueues ==
  ASSUME TypeOK, NEW e \in events, NEW dropped, NEW corrupted,
         ReadFrame(e, dropped, corrupted)
  PROVE  \/ UNCHANGED queue
         \/ \E g \in Frame :
              /\ g.len <= BufSize
              /\ queue' = [queue EXCEPT ![Other(e.sock)] = Append(@, g)]
<1> DEFINE f == Received(Head(rx[e.sock]))
<1>1. e.sock \in Ports /\ rx[e.sock] \in Seq(Frame) /\ rx[e.sock] # <<>>
  BY DEF ReadFrame, TypeOK
<1>2. Head(rx[e.sock]) \in Frame
  BY <1>1
<1>3. f \in Frame /\ f.len <= BufSize
  <2>1. f \in Frame
    BY <1>2, FilterType
  <2>2. Head(rx[e.sock]).len \in Nat /\ BufSize \in Nat
    BY <1>2, HubAssumption DEF Frame
  <2> QED BY <2>1, <2>2, <1>2 DEF Received, Frame
<1>4. ASSUME NEW g \in Damage(f) \cup {f}
      PROVE  Truncated(g) \in Frame /\ Truncated(g).len <= BufSize
  <2>1. g \in Frame /\ g.len = f.len
    BY <1>3, FilterType DEF Damage, Frame
  <2>2. Truncated(g) \in Frame
    BY <2>1, FilterType
  <2>3. Truncated(g).len <= g.len
    <3>1. config.truncate_len \in Nat /\ g.len \in Nat
      BY <2>1, ConfigAssumption DEF TypeOK, config_t, Ulong, Frame
    <3>2. [g EXCEPT !.len = config.truncate_len].len = config.truncate_len
      BY <2>1 DEF Frame
    <3> QED BY <3>1, <3>2 DEF Truncated
  <2>4. Truncated(g).len \in Nat /\ g.len \in Nat /\ BufSize \in Nat
    BY <2>1, <2>2, HubAssumption DEF Frame
  <2> QED BY <2>1, <2>2, <2>3, <2>4, <1>3
<1>5. CASE \E g \in Damage(f) \cup {f} :
             queue' = [queue EXCEPT ![Other(e.sock)] = Enqueue(@, Truncated(g))]
  BY <1>4, <1>5 DEF Enqueue
<1> QED BY <1>5 DEF ReadFrame

(* What appending a frame to a sequence of frames yields.                   *)
LEMMA AppendFacts ==
  \A q \in Seq(Frame), g \in Frame :
    /\ Append(q, g) \in Seq(Frame)
    /\ Append(q, g) # <<>>
    /\ Len(Append(q, g)) = Len(q) + 1
BY AppendProperties

(* A frame that arrives from a network is a frame.                          *)
LEMMA ArriveFrame ==
  ASSUME TypeOK, NEW s \in Ports, Arrive(s)
  PROVE  \E g \in Frame : rx' = [rx EXCEPT ![s] = Append(@, g)]
<1>1. PICK w \in WireFrames :
        rx' = [rx EXCEPT ![s] = Append(@,
                [seq |-> stamp, dst |-> w.dst, src |-> w.src, len |-> w.len,
                 bad |-> FALSE])]
  BY DEF Arrive
<1>2. [seq |-> stamp, dst |-> w.dst, src |-> w.src, len |-> w.len, bad |-> FALSE]
        \in Frame
  BY <1>1, HubAssumption DEF TypeOK, Frame
<1> QED BY <1>1, <1>2

(* Every step of the daemon and of the world keeps the types.               *)
LEMMA NextType == TypeOK /\ [Next]_vars => TypeOK'
<1> SUFFICES ASSUME TypeOK, [Next]_vars PROVE TypeOK'
  OBVIOUS
<1> USE DEF vars, wire, observers
<1>1. CASE Setup
  BY <1>1 DEF Setup, TypeOK, Labels
<1>2. CASE LoadConfig
  <2>1. IsDoc(disk)
    BY HubAssumption DEF TypeOK
  <2>2. config' \in config_t
    BY <1>2, <2>1, LoadResultsType DEF LoadConfig, TypeOK
  <2> QED BY <1>2, <2>2 DEF LoadConfig, TypeOK, Labels
<1>3. CASE ClearFlag
  BY <1>3, ZeroType DEF ClearFlag, TypeOK, Labels
<1>4. CASE SkipReload
  BY <1>4 DEF SkipReload, TypeOK, Labels
<1>5. CASE Arm
  BY <1>5 DEF Arm, WriteInterest, TypeOK, Labels
<1>6. CASE EpollSleeps
  BY <1>6 DEF EpollSleeps, TypeOK, Labels
<1>7. CASE EpollReturns
  BY <1>7 DEF EpollReturns, Ready, TypeOK, Labels
<1>8. CASE HandleWrite
  <2>1. PICK e \in events, ok \in BOOLEAN : WriteFrame(e, ok)
    BY <1>8 DEF HandleWrite
  <2>2. e.sock \in Ports /\ queue[e.sock] \in Seq(Frame) /\ queue[e.sock] # <<>>
    BY <2>1 DEF WriteFrame, TypeOK
  <2>3. Head(queue[e.sock]) \in Frame /\ Tail(queue[e.sock]) \in Seq(Frame)
    BY <2>2
  <2> DEFINE len == IF ok THEN Head(queue[e.sock]).len ELSE -1
  <2>4. len \in Int
    BY <2>3 DEF Frame
  <2>5. NsToSleep(len) \in Nat /\ TargetSleep(NsToSleep(len)) \in timespec
    BY <2>4, PauseType
  <2>6. queue' \in [Ports -> Seq(Frame)] /\ lastTx' \in [Ports -> Seq(Frame)]
    BY <2>1, <2>2, <2>3 DEF WriteFrame, AfterWrite, TypeOK
  <2>7. txReady' \in [Ports -> BOOLEAN]
    BY <2>1, <2>2 DEF WriteFrame, TypeOK
  <2>8. /\ queue_time' \in [Ports -> timespec]
        /\ paced' \in [Ports -> [at : timespec, tick : timespec, pause : Nat]]
    <3> DEFINE pause == NsToSleep(len)
               last == [at |-> now, tick |-> tick, pause |-> pause]
    <3>1. last \in [at : timespec, tick : timespec, pause : Nat]
      BY <2>5 DEF TypeOK
    <3>2. \/ /\ queue_time' = [queue_time EXCEPT ![e.sock] = TargetSleep(pause)]
             /\ paced' = [paced EXCEPT ![e.sock] = last]
          \/ UNCHANGED <<queue_time, paced>>
      BY <2>1 DEF WriteFrame
    <3> HIDE DEF pause, last
    <3>3. TargetSleep(pause) \in timespec
      BY <2>5 DEF pause
    <3>4. queue_time \in [Ports -> timespec]
      BY DEF TypeOK
    <3>5. paced \in [Ports -> [at : timespec, tick : timespec, pause : Nat]]
      BY DEF TypeOK
    <3>6. queue_time' \in [Ports -> timespec]
      BY <3>2, <3>3, <3>4, <2>2
    <3>7. paced' \in [Ports -> [at : timespec, tick : timespec, pause : Nat]]
      BY <3>1, <3>2, <3>5, <2>2
    <3> QED BY <3>6, <3>7
  <2>9. pc' \in Labels /\ events' \in SUBSET [sock : Ports, out : BOOLEAN]
    BY <2>1 DEF WriteFrame, Dispatched, TypeOK, Labels
  <2> QED BY <2>1, <2>6, <2>7, <2>8, <2>9 DEF WriteFrame, TypeOK
<1>9. CASE HandleRead
  <2>1. PICK e \in events, dropped \in Drops, corrupted \in Corrupts :
          ReadFrame(e, dropped, corrupted)
    BY <1>9 DEF HandleRead
  <2>2. e.sock \in Ports /\ rx[e.sock] \in Seq(Frame) /\ rx[e.sock] # <<>>
    BY <2>1 DEF ReadFrame, TypeOK
  <2>3. Head(rx[e.sock]) \in Frame /\ Tail(rx[e.sock]) \in Seq(Frame)
    BY <2>2
  <2>6. rx' \in [Ports -> Seq(Frame)]
    BY <2>1, <2>2, <2>3 DEF ReadFrame, TypeOK
  <2>7. queue' \in [Ports -> Seq(Frame)]
    <3>1. CASE UNCHANGED queue
      BY <3>1 DEF TypeOK
    <3>2. CASE \E g \in Frame :
                 queue' = [queue EXCEPT ![Other(e.sock)] = Append(@, g)]
      BY <3>2, AppendFacts DEF Other, Ports, TypeOK
    <3> QED BY <2>1, <3>1, <3>2, ReadQueues
  <2>8. pc' \in Labels /\ events' \in SUBSET [sock : Ports, out : BOOLEAN]
    BY <2>1 DEF ReadFrame, Dispatched, TypeOK, Labels
  <2> QED BY <2>1, <2>6, <2>7, <2>8 DEF ReadFrame, TypeOK
<1>10. CASE ReadAborts
  BY <1>10 DEF ReadAborts, TypeOK, Labels
<1>11. CASE \E s \in Ports : Arrive(s)
  <2>3. rx' \in [Ports -> Seq(Frame)]
    <3>1. PICK s \in Ports, g \in Frame : rx' = [rx EXCEPT ![s] = Append(@, g)]
      BY <1>11, ArriveFrame
    <3>2. Append(rx[s], g) \in Seq(Frame)
      BY <3>1, AppendFacts DEF TypeOK
    <3> QED BY <3>1, <3>2 DEF TypeOK
  <2>4. stamp' \in Nat
    BY <1>11 DEF Arrive, TypeOK
  <2> QED BY <1>11, <2>3, <2>4 DEF Arrive, TypeOK
<1>12. CASE \E s \in Ports : TxDrains(s) \/ LinkDown(s)
  BY <1>12 DEF TxDrains, LinkDown, TypeOK
<1>13. CASE EarlySignal \/ Signal
  BY <1>13 DEF EarlySignal, Signal, TypeOK, Labels
<1>14. CASE Edit
  BY <1>14 DEF Edit, TypeOK
<1>15. CASE ClockTicks
  <2>1. now' \in timespec
    <3>1. now.sec \in Nat /\ now.nsec \in Nat
      BY DEF TypeOK, timespec
    <3>2. \A n \in Nat : /\ [now EXCEPT !.nsec = n] \in timespec
                         /\ [sec |-> n, nsec |-> 0] \in timespec
      BY DEF TypeOK, timespec
    <3>3. \/ now' = [now EXCEPT !.nsec = now.nsec + 1]
          \/ now' = [sec |-> now.sec + 1, nsec |-> 0]
      BY <1>15 DEF ClockTicks
    <3>4. now.nsec + 1 \in Nat /\ now.sec + 1 \in Nat
      BY <3>1
    <3>5. /\ [now EXCEPT !.nsec = now.nsec + 1] \in timespec
          /\ [sec |-> now.sec + 1, nsec |-> 0] \in timespec
      BY <3>2, <3>4
    <3> QED BY <3>3, <3>5
  <2> QED BY <1>15, <2>1 DEF ClockTicks, TypeOK
<1>16. CASE Stop
  BY <1>16 DEF Stop, TypeOK, Labels
<1>17. CASE Start
  <2>1. ZeroConfig \in config_t
    BY ConfigAssumption DEF ZeroConfig, config_t, Ulong
  <2>2. queue' \in [Ports -> Seq(Frame)] /\ rx' \in [Ports -> Seq(Frame)]
    BY <1>17, EmptyQueues DEF Start, NoFramesAnywhere
  <2>3. /\ queue_time' \in [Ports -> timespec] /\ tick' \in timespec
        /\ paced' \in [Ports -> [at : timespec, tick : timespec, pause : Nat]]
    BY <1>17, ZeroType DEF Start
  <2>4. /\ interest' \in SUBSET Ports /\ sockErr' \in [Ports -> BOOLEAN]
        /\ events' \in SUBSET [sock : Ports, out : BOOLEAN]
    BY <1>17 DEF Start
  <2>5. pc' \in Labels /\ reload_config' \in BOOLEAN /\ asked' \in BOOLEAN
    BY <1>17 DEF Start, Labels
  <2> QED BY <1>17, <2>1, <2>2, <2>3, <2>4, <2>5 DEF Start, TypeOK
<1>18. CASE UNCHANGED vars
  BY <1>18 DEF TypeOK
<1> QED
  BY <1>1, <1>2, <1>3, <1>4, <1>5, <1>6, <1>7, <1>8, <1>9, <1>10, <1>11, <1>12,
     <1>13, <1>14, <1>15, <1>16, <1>17, <1>18 DEF Next, Daemon, World

(* Every variable keeps the type its declaration in main.cpp gives it: in   *)
(* particular the pause computed from a failed write is still a word and    *)
(* the configuration still five words, whatever the document said.          *)
THEOREM TypeCorrect == Spec => []TypeOK
BY InitType, NextType, PTL DEF Spec

-----------------------------------------------------------------------------
(* Events and the deques they are about. *)

(* EPOLLOUT is asked for only while the queue has a frame.                  *)
InterestHasFrames ==
  pc \in {"epoll_wait", "sleeping"} => \A s \in interest : queue[s] # <<>>

LoopInv == TypeOK /\ InterestHasFrames /\ EventsStayTrue

(* epoll reports one event for a socket, and none without a reason. *)
LEMMA ReadyFacts ==
  ASSUME TypeOK, InterestHasFrames, pc \in {"epoll_wait", "sleeping"}
  PROVE  /\ \A e \in Ready : IF e.out THEN queue[e.sock] # <<>>
                              ELSE rx[e.sock] # <<>> \/ sockErr[e.sock]
         /\ \A e, f \in Ready : e.sock = f.sock => e = f
<1>1. ASSUME NEW e \in Ready
      PROVE  /\ e \in [sock : Ports, out : BOOLEAN]
             /\ e.out <=> Writable(e.sock)
             /\ ~e.out => Readable(e.sock)
  BY DEF Ready
<1>2. ASSUME NEW e \in Ready
      PROVE  IF e.out THEN queue[e.sock] # <<>> ELSE rx[e.sock] # <<>> \/ sockErr[e.sock]
  BY <1>1 DEF Writable, Readable, InterestHasFrames
<1>3. ASSUME NEW e \in Ready, NEW f \in Ready, e.sock = f.sock
      PROVE  e = f
  BY <1>1, <1>3
<1> QED BY <1>2, <1>3

(* The loop invariant holds before the loop.                                *)
LEMMA LoopInvInit == Init => LoopInv
BY InitType DEF Init, LoopInv, InterestHasFrames, EventsStayTrue

(* Every step keeps the loop invariant: only the dispatch of an event and   *)
(* the end of the wait touch what the pending events rely on.               *)
LEMMA LoopInvNext == LoopInv /\ [Next]_vars => LoopInv'
<1> SUFFICES ASSUME LoopInv, [Next]_vars PROVE LoopInv'
  OBVIOUS
<1> USE DEF vars, wire, observers
<1>0. TypeOK /\ TypeOK'
  BY NextType DEF LoopInv
<1>1. CASE Setup \/ LoadConfig \/ ClearFlag \/ SkipReload \/ ReadAborts
           \/ EarlySignal \/ Stop \/ Start
  <2>1. pc' \notin {"dispatch", "epoll_wait", "sleeping"}
    BY <1>1 DEF Setup, LoadConfig, ClearFlag, SkipReload, ReadAborts,
                EarlySignal, Stop, Start
  <2> QED BY <2>1, <1>0 DEF LoopInv, InterestHasFrames, EventsStayTrue
<1>2. CASE Arm
  BY <1>0, <1>2 DEF Arm, WriteInterest, LoopInv, InterestHasFrames, EventsStayTrue
<1>3. CASE EpollSleeps
  BY <1>0, <1>3 DEF EpollSleeps, LoopInv, InterestHasFrames, EventsStayTrue
<1>4. CASE EpollReturns
  BY <1>0, <1>4, ReadyFacts DEF EpollReturns, LoopInv, InterestHasFrames, EventsStayTrue
<1>5. CASE HandleWrite
  <2>1. PICK e \in events, ok \in BOOLEAN : WriteFrame(e, ok)
    BY <1>5 DEF HandleWrite
  <2>2. pc = "dispatch" /\ events' = events \ {e} /\ pc' \in {"dispatch", "test_reload"}
    BY <2>1 DEF WriteFrame, Dispatched
  <2>3. \A f \in events' : f \in events /\ f.sock # e.sock
    BY <2>1, <2>2 DEF LoopInv, EventsStayTrue
  <2>4. \A s \in Ports \ {e.sock} : queue'[s] = queue[s]
    BY <2>1, <1>0 DEF WriteFrame, TypeOK
  <2>5. UNCHANGED <<rx, sockErr>>
    BY <2>1 DEF WriteFrame
  <2>6. \A f \in events' : f.sock \in Ports
    BY <1>0 DEF TypeOK
  <2> QED BY <1>0, <2>2, <2>3, <2>4, <2>5, <2>6 DEF LoopInv, InterestHasFrames, EventsStayTrue
<1>6. CASE HandleRead
  <2>1. PICK e \in events, dropped \in Drops, corrupted \in Corrupts :
          ReadFrame(e, dropped, corrupted)
    BY <1>6 DEF HandleRead
  <2>2. pc = "dispatch" /\ UNCHANGED sockErr
    BY <2>1 DEF ReadFrame
  <2>3. CASE pc' = "stuck"
    BY <1>0, <2>3 DEF LoopInv, InterestHasFrames, EventsStayTrue
  <2>4. CASE pc' # "stuck"
    <3>1. events' = events \ {e} /\ pc' \in {"dispatch", "test_reload"}
      BY <2>1, <2>4 DEF ReadFrame, Dispatched
    <3>2. \A f \in events' : f \in events /\ f.sock \in Ports /\ f.sock # e.sock
      BY <2>2, <3>1, <1>0 DEF LoopInv, EventsStayTrue, TypeOK
    <3>3. \A s \in Ports \ {e.sock} : rx'[s] = rx[s]
      BY <2>1, <1>0 DEF ReadFrame, TypeOK
    <3>4. \A s \in Ports : queue[s] # <<>> => queue'[s] # <<>>
      <4>1. CASE UNCHANGED queue
        BY <4>1
      <4>2. CASE \E g \in Frame :
                   queue' = [queue EXCEPT ![Other(e.sock)] = Append(@, g)]
        <5>1. PICK g \in Frame : queue' = [queue EXCEPT ![Other(e.sock)] = Append(@, g)]
          BY <4>2
        <5> QED BY <5>1, <1>0, AppendFacts DEF TypeOK
      <4> QED BY <2>1, <1>0, <4>1, <4>2, ReadQueues
    <3> QED BY <1>0, <2>2, <3>1, <3>2, <3>3, <3>4
            DEF LoopInv, InterestHasFrames, EventsStayTrue
  <2> QED BY <2>3, <2>4
<1>7. CASE \E s \in Ports : Arrive(s)
  <2>1. PICK s \in Ports : Arrive(s)
    BY <1>7
  <2>2. \A r \in Ports : rx[r] # <<>> => rx'[r] # <<>>
    <3>1. PICK g \in Frame : rx' = [rx EXCEPT ![s] = Append(@, g)]
      BY <2>1, <1>0, ArriveFrame
    <3> QED BY <3>1, <1>0, AppendFacts DEF TypeOK
  <2>3. UNCHANGED <<pc, queue, interest, events, sockErr>>
    BY <2>1 DEF Arrive
  <2>4. \A f \in events : f.sock \in Ports
    BY <1>0 DEF TypeOK
  <2> QED BY <1>0, <2>2, <2>3, <2>4 DEF LoopInv, InterestHasFrames, EventsStayTrue
<1>8. CASE \E s \in Ports : TxDrains(s)
  BY <1>0, <1>8 DEF TxDrains, LoopInv, InterestHasFrames, EventsStayTrue
<1>9. CASE \E s \in Ports : LinkDown(s)
  <2>1. /\ UNCHANGED <<pc, queue, interest, events, rx>>
        /\ \A s \in Ports : sockErr[s] => sockErr'[s]
    BY <1>0, <1>9 DEF LinkDown, TypeOK
  <2>2. \A f \in events : f.sock \in Ports
    BY <1>0 DEF TypeOK
  <2> QED BY <1>0, <2>1, <2>2 DEF LoopInv, InterestHasFrames, EventsStayTrue
<1>10. CASE Signal \/ Edit \/ ClockTicks \/ UNCHANGED vars
  <2>1. /\ UNCHANGED <<queue, interest, events, rx, sockErr>>
        /\ pc' \in {pc, "test_reload"}
    BY <1>10 DEF Signal, Edit, ClockTicks
  <2> QED BY <1>0, <2>1 DEF LoopInv, InterestHasFrames, EventsStayTrue
<1> QED BY <1>1, <1>2, <1>3, <1>4, <1>5, <1>6, <1>7, <1>8, <1>9, <1>10
        DEF Next, Daemon, World

(* The loop invariant holds throughout.                                     *)
LEMMA LoopInvHolds == Spec => []LoopInv
BY LoopInvInit, LoopInvNext, PTL DEF Spec

(* The write branch never takes the front of an empty deque and the read    *)
(* branch never reads a socket that has nothing, whatever arrives, fails or *)
(* is reloaded between epoll_wait and the dispatch of its last event.       *)
THEOREM EventsCorrect == Spec => []EventsStayTrue
BY LoopInvHolds, PTL DEF LoopInv

-----------------------------------------------------------------------------
(* The pause between throttled writes. *)

(* queue_time is the last pause after the last reading of the clock, in     *)
(* whole seconds; and EPOLLOUT is asked for only once that time has come.   *)
PaceInv ==
  /\ LoopInv
  /\ \A s \in Ports : queue_time[s].sec = paced[s].tick.sec + (paced[s].pause \div NsPerS)
  /\ \A s \in Ports : MayWrite(s) => tick.sec >= queue_time[s].sec

(* No port is paced before the loop.                                        *)
LEMMA PaceInvInit == Init => PaceInv
<1> SUFFICES ASSUME Init PROVE PaceInv
  OBVIOUS
<1>1. LoopInv
  BY LoopInvInit
<1>2. 0 \div NsPerS = 0
  BY ConfigAssumption
<1>3. \A s \in Ports : queue_time[s].sec = paced[s].tick.sec + (paced[s].pause \div NsPerS)
  BY <1>2 DEF Init, Zero, NotPaced
<1>4. \A s \in Ports : ~MayWrite(s)
  BY DEF Init, MayWrite
<1> QED BY <1>1, <1>3, <1>4 DEF PaceInv

(* The comparison of times decides by the seconds first. *)
LEMMA CmpTimesSeconds ==
  ASSUME NEW t \in timespec, NEW u \in timespec, CmpTimes(t, u) > 0
  PROVE  t.sec >= u.sec
BY DEF CmpTimes, timespec

(* Every step keeps the relation of queue_time to the last pause: only a    *)
(* throttled write and a reload set either, and they set both.              *)
LEMMA PaceInvNext == PaceInv /\ [Next]_vars => PaceInv'
<1> SUFFICES ASSUME PaceInv, [Next]_vars PROVE PaceInv'
  OBVIOUS
<1> USE DEF vars, wire, observers
<1>0. LoopInv /\ LoopInv' /\ TypeOK /\ TypeOK'
  BY LoopInvNext DEF PaceInv, LoopInv
<1>1. CASE ClearFlag \/ Start
  <2>1. 0 \div NsPerS = 0
    BY ConfigAssumption
  <2>2. \A s \in Ports : queue_time'[s].sec = paced'[s].tick.sec + (paced'[s].pause \div NsPerS)
    BY <1>1, <2>1 DEF ClearFlag, Start, Zero, NotPaced
  <2>3. \A s \in Ports : ~MayWrite(s)'
    BY <1>1 DEF ClearFlag, Start, MayWrite
  <2> QED BY <1>0, <2>2, <2>3 DEF PaceInv
<1>2. CASE Arm
  <2>1. UNCHANGED <<queue_time, paced>>
    BY <1>2 DEF Arm
  <2>2. ASSUME NEW s \in Ports, MayWrite(s)'
        PROVE  tick'.sec >= queue_time[s].sec
    <3>1. CmpTimes(now, queue_time[s]) > 0 /\ tick' = now
      BY <1>2, <2>2 DEF Arm, WriteInterest, MayWrite
    <3> QED BY <3>1, <1>0, CmpTimesSeconds DEF TypeOK
  <2> QED BY <1>0, <2>1, <2>2 DEF PaceInv
<1>3. CASE EpollReturns
  <2>1. UNCHANGED <<queue_time, paced, tick, interest>>
    BY <1>3 DEF EpollReturns
  <2>2. \A s \in Ports : MayWrite(s)' => MayWrite(s)
    BY <1>3 DEF EpollReturns, Ready, Writable, MayWrite
  <2> QED BY <1>0, <2>1, <2>2 DEF PaceInv
<1>4. CASE HandleWrite
  <2>1. PICK e \in events, ok \in BOOLEAN : WriteFrame(e, ok)
    BY <1>4 DEF HandleWrite
  <2>2. /\ pc = "dispatch" /\ events' = events \ {e} /\ tick' = tick
        /\ pc' \in {"dispatch", "test_reload"}
        /\ e.sock \in Ports
    BY <2>1, <1>0 DEF WriteFrame, Dispatched, TypeOK
  <2>3. \A s \in Ports : MayWrite(s)' => MayWrite(s) /\ s # e.sock
    BY <2>1, <2>2, <1>0 DEF MayWrite, LoopInv, EventsStayTrue
  <2>4. CASE config.bandwidth = 0
    <3>1. UNCHANGED <<queue_time, paced>>
      BY <2>1, <2>4 DEF WriteFrame
    <3> QED BY <1>0, <2>2, <2>3, <3>1 DEF PaceInv
  <2>5. CASE config.bandwidth # 0
    <3> DEFINE len == IF ok THEN Head(queue[e.sock]).len ELSE -1
               pause == NsToSleep(len)
               last == [at |-> now, tick |-> tick, pause |-> pause]
    <3>1. /\ queue_time' = [queue_time EXCEPT ![e.sock] = TargetSleep(pause)]
          /\ paced' = [paced EXCEPT ![e.sock] = last]
      BY <2>1, <2>5 DEF WriteFrame
    <3>2. TargetSleep(pause).sec = last.tick.sec + (last.pause \div NsPerS)
      BY DEF TargetSleep
    <3> HIDE DEF pause, last
    <3>3. \A s \in Ports : queue_time'[s].sec = paced'[s].tick.sec + (paced'[s].pause \div NsPerS)
      BY <3>1, <3>2, <2>2, <1>0 DEF PaceInv, TypeOK
    <3>4. \A s \in Ports : s # e.sock => queue_time'[s] = queue_time[s]
      BY <3>1, <2>2, <1>0 DEF TypeOK
    <3> QED BY <1>0, <2>2, <2>3, <3>3, <3>4 DEF PaceInv
  <2> QED BY <2>4, <2>5
<1>5. CASE HandleRead
  <2>1. PICK e \in events, dropped \in Drops, corrupted \in Corrupts :
          ReadFrame(e, dropped, corrupted)
    BY <1>5 DEF HandleRead
  <2>2. UNCHANGED <<queue_time, paced, tick, interest>>
    BY <2>1 DEF ReadFrame
  <2>3. pc = "dispatch" /\ pc' \in {"dispatch", "test_reload", "stuck"}
    BY <2>1 DEF ReadFrame, Dispatched
  <2>4. events' \subseteq events
    BY <2>1 DEF ReadFrame, Dispatched
  <2>5. \A s \in Ports : MayWrite(s)' => MayWrite(s)
    BY <2>3, <2>4 DEF MayWrite
  <2> QED BY <1>0, <2>2, <2>5 DEF PaceInv
<1>6. CASE \/ Setup \/ LoadConfig \/ SkipReload \/ EpollSleeps \/ ReadAborts
           \/ \E s \in Ports : Arrive(s) \/ TxDrains(s) \/ LinkDown(s)
           \/ EarlySignal \/ Signal \/ Edit \/ ClockTicks \/ Stop
           \/ UNCHANGED vars
  <2>1. UNCHANGED <<queue_time, paced, tick, interest, events>>
    BY <1>6 DEF Setup, LoadConfig, SkipReload, EpollSleeps, ReadAborts, Arrive,
                TxDrains, LinkDown, EarlySignal, Signal, Edit, ClockTicks, Stop
  <2>2. \/ pc' = pc
        \/ pc = "epoll_wait" /\ pc' = "sleeping"
        \/ pc' \notin {"epoll_wait", "sleeping", "dispatch"}
    BY <1>6 DEF Setup, LoadConfig, SkipReload, EpollSleeps, ReadAborts, Arrive,
                TxDrains, LinkDown, EarlySignal, Signal, Edit, ClockTicks, Stop
  <2>3. \A s \in Ports : MayWrite(s)' => MayWrite(s)
    BY <2>1, <2>2 DEF MayWrite
  <2> QED BY <1>0, <2>1, <2>3 DEF PaceInv
<1> QED BY <1>1, <1>2, <1>3, <1>4, <1>5, <1>6 DEF Next, Daemon, World

(* The throttle is never early by a second or more: for every bandwidth,    *)
(* frame length and clock, the loop asks to write to a port only when the   *)
(* whole seconds of that port's last pause have passed on its clock.        *)
THEOREM PauseInSecondsCorrect == Spec => []PauseHeldInSeconds
<1>1. PaceInv => PauseHeldInSeconds
  BY DEF PaceInv, PauseHeldInSeconds
<1> QED BY PaceInvInit, PaceInvNext, <1>1, PTL DEF Spec

-----------------------------------------------------------------------------
(* The backlog of a hub without limits. *)

(* No document sets a bandwidth, and drivers always have room.              *)
Unthrottled ==
  /\ "tx_busy" \notin Env
  /\ \A doc \in Docs : \A c \in LoadResults(doc) : c.bandwidth = 0

Reads(s) == IF [sock |-> s, out |-> FALSE] \in events THEN 1 ELSE 0
Writes(s) == IF [sock |-> s, out |-> TRUE] \in events THEN 1 ELSE 0

(* Every round starts with one frame per port at most, and the port that    *)
(* has one has its EPOLLOUT: what the pending reads may still add is never  *)
(* more than what the pending write will take.                              *)
BacklogInv ==
  /\ LoopInv
  /\ config.bandwidth = 0
  /\ txReady = [s \in Ports |-> TRUE]
  /\ queue_time = [s \in Ports |-> Zero]
  /\ now.sec >= 1
  /\ pc \in {"epoll_wait", "sleeping"} =>
       \A s \in Ports : queue[s] # <<>> => s \in interest
  /\ pc = "dispatch" =>
       \A s \in Ports : Len(queue[s]) + Reads(Other(s)) <= 1 + Writes(s)
  /\ BacklogBounded

(* A port has at most one read and one write pending. *)
LEMMA CountFacts ==
  ASSUME NEW s \in Ports
  PROVE  /\ Reads(Other(s)) \in {0, 1}
         /\ Writes(s) \in {0, 1}
         /\ Reads(Other(s))' \in {0, 1}
         /\ Writes(s)' \in {0, 1}
         /\ events' = {} => Writes(s)' = 0
BY DEF Reads, Writes

(* The two ports are each other's other side.                               *)
LEMMA OtherFacts ==
  \A s \in Ports : Other(s) \in Ports /\ Other(s) # s /\ Other(Other(s)) = s
BY DEF Other, Ports

(* The backlog invariant holds before the loop.                             *)
LEMMA BacklogInit == Unthrottled => (Init => BacklogInv)
<1> SUFFICES ASSUME Init PROVE BacklogInv
  OBVIOUS
<1>1. LoopInv
  BY LoopInvInit
<1>2. \A s \in Ports : Len(queue[s]) = 0
  BY EmptySeq DEF Init
<1> QED BY <1>1, <1>2 DEF Init, BacklogInv, BacklogBounded, ZeroConfig

(* One write takes one frame of its port and leaves the other alone.        *)
LEMMA WriteQueue ==
  ASSUME TypeOK, NEW e \in events, NEW ok, WriteFrame(e, ok)
  PROVE  /\ e.sock \in Ports /\ e = [sock |-> e.sock, out |-> TRUE]
         /\ Len(queue'[e.sock]) = Len(queue[e.sock]) - 1
         /\ \A s \in Ports \ {e.sock} : queue'[s] = queue[s]
<1>1. /\ e \in [sock : Ports, out : BOOLEAN] /\ e.out
      /\ queue[e.sock] # <<>> /\ queue[e.sock] \in Seq(Frame)
  BY DEF WriteFrame, TypeOK
<1>2. Len(Tail(queue[e.sock])) = Len(queue[e.sock]) - 1
  BY <1>1, HeadTailProperties
<1>3. queue' = [queue EXCEPT ![e.sock] = Tail(@)]
  BY DEF WriteFrame, AfterWrite
<1> QED BY <1>1, <1>2, <1>3 DEF TypeOK

(* One read adds one frame at most to the other port's queue. *)
LEMMA ReadQueueLength ==
  ASSUME TypeOK, NEW e \in events, NEW dropped, NEW corrupted,
         ReadFrame(e, dropped, corrupted)
  PROVE  /\ e.sock \in Ports /\ e = [sock |-> e.sock, out |-> FALSE]
         /\ Len(queue'[Other(e.sock)]) <= Len(queue[Other(e.sock)]) + 1
         /\ queue'[e.sock] = queue[e.sock]
<1>1. e \in [sock : Ports, out : BOOLEAN] /\ ~e.out
  BY DEF ReadFrame, TypeOK
<1>2. queue[Other(e.sock)] \in Seq(Frame) /\ Len(queue[Other(e.sock)]) \in Nat
  BY <1>1, OtherFacts, LenProperties DEF TypeOK
<1>3. CASE UNCHANGED queue
  BY <1>1, <1>2, <1>3
<1>4. CASE \E g \in Frame : queue' = [queue EXCEPT ![Other(e.sock)] = Append(@, g)]
  <2>1. PICK g \in Frame : queue' = [queue EXCEPT ![Other(e.sock)] = Append(@, g)]
    BY <1>4
  <2>2. Len(Append(queue[Other(e.sock)], g)) = Len(queue[Other(e.sock)]) + 1
    BY <1>2, AppendFacts
  <2> QED BY <1>1, <1>2, <2>1, <2>2, OtherFacts DEF TypeOK
<1> QED BY <1>3, <1>4, ReadQueues

(* The steps that dispatch an event. *)
LEMMA BacklogWrite ==
  ASSUME BacklogInv, TypeOK', Unthrottled, HandleWrite
  PROVE  BacklogBounded' /\ (pc' = "dispatch" =>
           \A s \in Ports : Len(queue'[s]) + Reads(Other(s))' <= 1 + Writes(s)')
<1>0. TypeOK
  BY DEF BacklogInv, LoopInv
<1>1. PICK e \in events, ok \in BOOLEAN : WriteFrame(e, ok)
  BY DEF HandleWrite
<1>2. /\ pc = "dispatch" /\ events' = events \ {e}
      /\ pc' = IF events' = {} THEN "test_reload" ELSE "dispatch"
  BY <1>1 DEF WriteFrame, Dispatched
<1>3. \A s \in Ports : Len(queue[s]) \in Nat /\ Len(queue'[s]) \in Nat
  BY <1>0, LenProperties DEF TypeOK
<1>4. \A s \in Ports : Len(queue'[s]) + Reads(Other(s))' <= 1 + Writes(s)'
  <2>1. SUFFICES ASSUME NEW s \in Ports
                 PROVE  Len(queue'[s]) + Reads(Other(s))' <= 1 + Writes(s)'
    OBVIOUS
  <2>2. Len(queue[s]) + Reads(Other(s)) <= 1 + Writes(s)
    BY <1>2 DEF BacklogInv
  <2>3. Reads(Other(s))' = Reads(Other(s))
    BY <1>0, <1>1, <1>2, WriteQueue DEF Reads
  <2>4. CASE s = e.sock
    <3>1. Writes(s) = 1 /\ Writes(s)' = 0 /\ Len(queue'[s]) = Len(queue[s]) - 1
      BY <1>0, <1>1, <1>2, <2>4, WriteQueue DEF Writes
    <3>2. Reads(Other(s)) \in {0, 1}
      BY CountFacts
    <3>3. Len(queue'[s]) + Reads(Other(s)) <= 1
      BY <1>3, <2>2, <3>1, <3>2
    <3> QED BY <2>3, <3>1, <3>3
  <2>5. CASE s # e.sock
    <3>1. Writes(s)' = Writes(s) /\ queue'[s] = queue[s]
      BY <1>0, <1>1, <1>2, <2>5, WriteQueue DEF Writes
    <3> QED BY <2>2, <2>3, <3>1
  <2> QED BY <2>4, <2>5
<1>5. BacklogBounded'
  <2>1. ASSUME NEW s \in Ports
        PROVE  /\ Len(queue'[s]) <= 2
               /\ events' = {} => Len(queue'[s]) <= 1
    <3>1. /\ Reads(Other(s))' \in {0, 1} /\ Writes(s)' \in {0, 1}
          /\ events' = {} => Writes(s)' = 0
      BY CountFacts
    <3>2. Len(queue'[s]) + Reads(Other(s))' <= 1 + Writes(s)' /\ Len(queue'[s]) \in Nat
      BY <1>3, <1>4
    <3> QED BY <3>1, <3>2
  <2>2. \A s \in Ports : Len(queue'[s]) <= 2 /\ (events' = {} => Len(queue'[s]) <= 1)
    BY <2>1
  <2> QED BY <1>2, <2>2 DEF BacklogBounded
<1> QED BY <1>4, <1>5

(* A read event adds one frame at most to the other port, and is no longer  *)
(* pending afterwards.                                                      *)
LEMMA BacklogRead ==
  ASSUME BacklogInv, TypeOK', Unthrottled, HandleRead
  PROVE  BacklogBounded' /\ (pc' = "dispatch" =>
           \A s \in Ports : Len(queue'[s]) + Reads(Other(s))' <= 1 + Writes(s)')
<1>0. TypeOK
  BY DEF BacklogInv, LoopInv
<1>1. PICK e \in events, dropped \in Drops, corrupted \in Corrupts :
        ReadFrame(e, dropped, corrupted)
  BY DEF HandleRead
<1>2. pc = "dispatch"
  BY <1>1 DEF ReadFrame
<1>3. \A s \in Ports : Len(queue[s]) \in Nat /\ Len(queue'[s]) \in Nat
  BY <1>0, LenProperties DEF TypeOK
<1>4. CASE pc' = "stuck"
  <2>1. UNCHANGED queue
    BY <1>1, <1>4 DEF ReadFrame, Dispatched
  <2> QED BY <1>2, <1>4, <2>1 DEF BacklogInv, BacklogBounded
<1>5. CASE pc' # "stuck"
  <2>1. /\ events' = events \ {e}
        /\ pc' = IF events' = {} THEN "test_reload" ELSE "dispatch"
    BY <1>1, <1>5 DEF ReadFrame, Dispatched
  <2>2. \A s \in Ports : Len(queue'[s]) + Reads(Other(s))' <= 1 + Writes(s)'
    <3>1. SUFFICES ASSUME NEW s \in Ports
                   PROVE  Len(queue'[s]) + Reads(Other(s))' <= 1 + Writes(s)'
      OBVIOUS
    <3>2. Len(queue[s]) + Reads(Other(s)) <= 1 + Writes(s)
      BY <1>2 DEF BacklogInv
    <3>3. Writes(s)' = Writes(s)
      BY <1>0, <1>1, <2>1, ReadQueueLength DEF Writes
    <3>4. Writes(s) \in {0, 1}
      BY DEF Writes
    <3>5. CASE s = Other(e.sock)
      <4>1. Other(s) = e.sock
        BY <1>0, <1>1, <3>5, ReadQueueLength, OtherFacts
      <4>2. Reads(Other(s)) = 1 /\ Reads(Other(s))' = 0
        BY <1>0, <1>1, <2>1, <4>1, ReadQueueLength DEF Reads
      <4>3. Len(queue'[s]) <= Len(queue[s]) + 1
        BY <1>0, <1>1, <3>5, ReadQueueLength
      <4> QED BY <1>3, <3>2, <3>3, <3>4, <4>2, <4>3
    <3>6. CASE s # Other(e.sock)
      <4>1. s = e.sock
        BY <1>0, <1>1, <3>6, ReadQueueLength DEF Other, Ports
      <4>2. Reads(Other(s))' = Reads(Other(s)) /\ queue'[s] = queue[s]
        BY <1>0, <1>1, <2>1, <4>1, ReadQueueLength, OtherFacts DEF Reads
      <4> QED BY <3>2, <3>3, <4>2
    <3> QED BY <3>5, <3>6
  <2>3. ASSUME NEW s \in Ports
        PROVE  /\ Len(queue'[s]) <= 2
               /\ events' = {} => Len(queue'[s]) <= 1
    <3>1. /\ Reads(Other(s))' \in {0, 1} /\ Writes(s)' \in {0, 1}
          /\ events' = {} => Writes(s)' = 0
      BY CountFacts
    <3>2. Len(queue'[s]) + Reads(Other(s))' <= 1 + Writes(s)' /\ Len(queue'[s]) \in Nat
      BY <1>3, <2>2
    <3> QED BY <3>1, <3>2
  <2>4. \A s \in Ports : Len(queue'[s]) <= 2 /\ (events' = {} => Len(queue'[s]) <= 1)
    BY <2>3
  <2> QED BY <2>1, <2>2, <2>4 DEF BacklogBounded
<1> QED BY <1>4, <1>5

(* epoll reports an EPOLLOUT for every port that has a frame. *)
LEMMA BacklogReturns ==
  ASSUME BacklogInv, TypeOK', EpollReturns
  PROVE  BacklogBounded' /\ (pc' = "dispatch" =>
           \A s \in Ports : Len(queue'[s]) + Reads(Other(s))' <= 1 + Writes(s)')
<1>0. TypeOK
  BY DEF BacklogInv, LoopInv
<1>1. /\ pc \in {"epoll_wait", "sleeping"} /\ pc' = "dispatch"
      /\ queue' = queue /\ events' = Ready
  BY DEF EpollReturns
<1>2. \A s \in Ports : Len(queue[s]) \in Nat /\ Len(queue[s]) <= 1
                     /\ (Len(queue[s]) # 0 => queue[s] # <<>>)
  BY <1>0, <1>1, LenProperties, EmptySeq DEF TypeOK, BacklogInv, BacklogBounded
<1>3. ASSUME NEW s \in Ports, queue[s] # <<>>
      PROVE  Writes(s)' = 1
  <2>1. Writable(s)
    BY <1>1, <1>3 DEF BacklogInv, Writable
  <2>2. [sock |-> s, out |-> TRUE] \in Ready
    BY <2>1 DEF Ready
  <2> QED BY <1>1, <2>2 DEF Writes
<1>4. \A s \in Ports : Reads(Other(s))' \in {0, 1} /\ Writes(s)' \in {0, 1}
  BY DEF Reads, Writes
<1>5. \A s \in Ports : Len(queue'[s]) + Reads(Other(s))' <= 1 + Writes(s)'
  BY <1>1, <1>2, <1>3, <1>4
<1>6. BacklogBounded'
  BY <1>1, <1>2 DEF BacklogBounded
<1> QED BY <1>5, <1>6

(* Every step keeps the backlog invariant when no port is throttled and     *)
(* every driver has room.                                                   *)
LEMMA BacklogNext == Unthrottled => (BacklogInv /\ [Next]_vars => BacklogInv')
<1> SUFFICES ASSUME Unthrottled, BacklogInv, [Next]_vars PROVE BacklogInv'
  OBVIOUS
<1> USE DEF vars, wire, observers
<1>0. LoopInv' /\ TypeOK /\ TypeOK'
  BY LoopInvNext DEF BacklogInv, LoopInv
<1>1. config'.bandwidth = 0
  <2>1. CASE LoadConfig
    BY <2>1, <1>0 DEF LoadConfig, Unthrottled, BacklogInv, TypeOK
  <2>2. CASE config' \in {config, ZeroConfig}
    BY <2>2 DEF BacklogInv, ZeroConfig
  <2> QED BY <2>1, <2>2 DEF Next, Daemon, World, Setup, ClearFlag, SkipReload, Arm,
       EpollSleeps, EpollReturns, HandleWrite, WriteFrame, HandleRead, ReadFrame,
       ReadAborts, Arrive, TxDrains, LinkDown, EarlySignal, Signal, Edit, ClockTicks,
       Stop, Start
<1>2. txReady' = [s \in Ports |-> TRUE]
  <2>1. CASE HandleWrite
    BY <2>1 DEF HandleWrite, WriteFrame, Unthrottled, BacklogInv
  <2>2. CASE \E s \in Ports : TxDrains(s)
    BY <2>2 DEF TxDrains, BacklogInv
  <2>3. CASE UNCHANGED txReady
    BY <2>3 DEF BacklogInv
  <2> QED BY <2>1, <2>2, <2>3 DEF Next, Daemon, World, Setup, LoadConfig, ClearFlag,
       SkipReload, Arm, EpollSleeps, EpollReturns, HandleRead, ReadFrame,
       ReadAborts, Arrive, LinkDown, EarlySignal, Signal, Edit, ClockTicks, Stop, Start
<1>3. queue_time' = [s \in Ports |-> Zero]
  <2>1. CASE HandleWrite
    BY <2>1 DEF HandleWrite, WriteFrame, BacklogInv
  <2>2. CASE queue_time' \in {queue_time, [s \in Ports |-> Zero]}
    BY <2>2 DEF BacklogInv
  <2> QED BY <2>1, <2>2 DEF Next, Daemon, World, Setup, LoadConfig, ClearFlag,
       SkipReload, Arm, EpollSleeps, EpollReturns, HandleRead, ReadFrame,
       ReadAborts, Arrive, TxDrains, LinkDown, EarlySignal, Signal, Edit, ClockTicks,
       Stop, Start
<1>4. now'.sec >= 1
  <2>1. CASE ClockTicks
    <3>1. now.sec \in Nat /\ now.sec >= 1
      BY <1>0 DEF TypeOK, timespec, BacklogInv
    <3>2. now'.sec \in {now.sec, now.sec + 1}
      BY <2>1, <1>0 DEF ClockTicks, TypeOK, timespec
    <3> QED BY <3>1, <3>2
  <2>2. CASE UNCHANGED now
    BY <2>2 DEF BacklogInv
  <2> QED BY <2>1, <2>2 DEF Next, Daemon, World, Setup, LoadConfig, ClearFlag,
       SkipReload, Arm, EpollSleeps, EpollReturns, HandleWrite, WriteFrame, HandleRead,
       ReadFrame, ReadAborts, Arrive, TxDrains, LinkDown, EarlySignal, Signal, Edit,
       Stop, Start
<1> DEFINE Armed == pc \in {"epoll_wait", "sleeping"} =>
                      \A s \in Ports : queue[s] # <<>> => s \in interest
           Bound == pc = "dispatch" =>
                      \A s \in Ports : Len(queue[s]) + Reads(Other(s)) <= 1 + Writes(s)
<1> SUFFICES Armed' /\ Bound' /\ BacklogBounded'
  BY <1>0, <1>1, <1>2, <1>3, <1>4 DEF BacklogInv
<1>5. CASE HandleWrite
  <2>1. pc' \in {"dispatch", "test_reload"}
    BY <1>5 DEF HandleWrite, WriteFrame, Dispatched
  <2> QED BY <1>0, <1>5, <2>1, BacklogWrite
<1>6. CASE HandleRead
  <2>1. pc' \in {"dispatch", "test_reload", "stuck"}
    BY <1>6 DEF HandleRead, ReadFrame, Dispatched
  <2> QED BY <1>0, <1>6, <2>1, BacklogRead
<1>7. CASE EpollReturns
  <2>1. pc' = "dispatch"
    BY <1>7 DEF EpollReturns
  <2> QED BY <1>0, <1>7, <2>1, BacklogReturns
<1>8. CASE Start
  <2>1. pc' = "starting" /\ \A s \in Ports : Len(queue'[s]) = 0
    BY <1>8, EmptySeq DEF Start
  <2> QED BY <2>1 DEF BacklogBounded
<1>9. CASE Arm
  <2>1. pc = "arm" /\ pc' = "epoll_wait" /\ UNCHANGED queue
    BY <1>9 DEF Arm
  <2>2. ASSUME NEW s \in Ports, queue[s] # <<>>
        PROVE  s \in interest'
    <3>1. CmpTimes(now, queue_time[s]) > 0
      <4>1. now.sec \in Nat /\ now.sec >= 1
        BY <1>0 DEF BacklogInv, TypeOK, timespec
      <4>2. queue_time[s].sec = 0
        BY DEF BacklogInv, Zero
      <4> QED BY <4>1, <4>2 DEF CmpTimes
    <3> QED BY <2>2, <3>1, <1>9 DEF Arm, WriteInterest
  <2> QED BY <2>1, <2>2 DEF BacklogInv, BacklogBounded
<1>10. CASE \/ Setup \/ LoadConfig \/ ClearFlag \/ SkipReload \/ EpollSleeps \/ ReadAborts
            \/ \E s \in Ports : Arrive(s) \/ TxDrains(s) \/ LinkDown(s)
            \/ EarlySignal \/ Signal \/ Edit \/ ClockTicks \/ Stop \/ UNCHANGED vars
  <2>1. UNCHANGED <<queue, interest, events>>
    BY <1>10 DEF Setup, LoadConfig, ClearFlag, SkipReload, EpollSleeps, ReadAborts,
          Arrive, TxDrains, LinkDown, EarlySignal, Signal, Edit, ClockTicks, Stop
  <2>2. \/ pc' = pc
        \/ pc = "epoll_wait" /\ pc' = "sleeping"
        \/ pc # "dispatch" /\ pc' \in {"test_reload", "arm", "clear_flag"} /\ pc \notin {"stuck", "down"}
        \/ pc' = "down"
    BY <1>10 DEF Setup, LoadConfig, ClearFlag, SkipReload, EpollSleeps, ReadAborts,
          Arrive, TxDrains, LinkDown, EarlySignal, Signal, Edit, ClockTicks, Stop
  <2>3. \A s \in Ports : Reads(Other(s))' = Reads(Other(s)) /\ Writes(s)' = Writes(s)
    BY <2>1 DEF Reads, Writes
  <2>4. \A s \in Ports : Len(queue[s]) \in Nat
    BY <1>0, LenProperties DEF TypeOK
  <2>5. BacklogBounded'
    BY <2>1, <2>2, <2>4 DEF BacklogInv, BacklogBounded
  <2>6. Armed' /\ Bound'
    BY <2>1, <2>2, <2>3 DEF BacklogInv
  <2> QED BY <2>5, <2>6
<1> QED BY <1>5, <1>6, <1>7, <1>8, <1>9, <1>10 DEF Next, Daemon, World

(* A hub without limits never holds more than two frames per port, however  *)
(* fast the networks send and whatever fails, as long as the drivers take   *)
(* what it writes: the deques of main.cpp have no bound of their own.       *)
THEOREM BacklogCorrect == Unthrottled => (Spec => []BacklogBounded)
<1> SUFFICES ASSUME Unthrottled PROVE Spec => []BacklogBounded
  OBVIOUS
<1>1. Init => BacklogInv
  BY BacklogInit
<1>2. BacklogInv /\ [Next]_vars => BacklogInv'
  BY BacklogNext
<1>3. BacklogInv => BacklogBounded
  BY DEF BacklogInv
<1> QED BY <1>1, <1>2, <1>3, PTL DEF Spec

-----------------------------------------------------------------------------
(* The length of a pause when no write fails. *)

Reliable == "write_fails" \notin Env /\ "link_down" \notin Env

(* What is queued came through in_data.                                     *)
LengthInv ==
  /\ TypeOK
  /\ sockErr = [s \in Ports |-> FALSE]
  /\ \A s \in Ports : \A i \in 1 .. Len(queue[s]) : queue[s][i].len <= BufSize
  /\ PauseBounded

(* The remainder of a natural number is one, and no larger.                 *)
LEMMA ModuloFacts == \A n \in Nat : n % Word \in Nat /\ n % Word <= n
BY ConfigAssumption

(* A product of natural numbers grows with its factor.                      *)
LEMMA ProductMonotonic ==
  ASSUME NEW k \in Nat, NEW m \in Nat, NEW n \in Nat, m <= n
  PROVE  k * m \in Nat /\ k * n \in Nat /\ k * m <= k * n
OBVIOUS

(* No frame is queued and no port paced before the loop.                    *)
LEMMA LengthInit == Init => LengthInv
<1> SUFFICES ASSUME Init PROVE LengthInv
  OBVIOUS
<1>1. TypeOK
  BY InitType
<1>2. \A s \in Ports : Len(queue[s]) = 0
  BY EmptySeq DEF Init
<1>3. PauseBounded
  BY ConfigAssumption, HubAssumption DEF Init, PauseBounded, NotPaced, ZeroConfig
<1> QED BY <1>1, <1>2, <1>3 DEF Init, LengthInv

(* Every step keeps the queued frames within the buffer and the pauses      *)
(* within its time.                                                         *)
LEMMA LengthNext == Reliable => (LengthInv /\ [Next]_vars => LengthInv')
<1> SUFFICES ASSUME Reliable, LengthInv, [Next]_vars PROVE LengthInv'
  OBVIOUS
<1> USE DEF vars, wire, observers
<1>0. TypeOK /\ TypeOK' /\ BufSize \in Nat
  BY NextType, HubAssumption DEF LengthInv
<1>1. sockErr' = [s \in Ports |-> FALSE]
  BY DEF LengthInv, Reliable, Next, Daemon, World, Setup, LoadConfig, ClearFlag,
       SkipReload, Arm, EpollSleeps, EpollReturns, HandleWrite, WriteFrame, HandleRead,
       ReadFrame, ReadAborts, Arrive, TxDrains, LinkDown, EarlySignal, Signal, Edit,
       ClockTicks, Stop, Start
<1> DEFINE Short == \A s \in Ports : \A i \in 1 .. Len(queue[s]) : queue[s][i].len <= BufSize
<1> SUFFICES Short' /\ PauseBounded'
  BY <1>0, <1>1 DEF LengthInv
<1>2. CASE HandleWrite
  <2>1. PICK e \in events, ok \in BOOLEAN : WriteFrame(e, ok)
    BY <1>2 DEF HandleWrite
  <2> DEFINE q == queue[e.sock]
  <2>2. /\ e.sock \in Ports /\ q \in Seq(Frame) /\ q # <<>> /\ ok
        /\ pc = "dispatch" /\ config' = config
    BY <2>1, <1>0 DEF WriteFrame, TypeOK, LengthInv, Reliable
  <2>3. /\ Head(q) = q[1] /\ Len(q) \in Nat \ {0}
        /\ Len(Tail(q)) = Len(q) - 1
        /\ \A i \in 1 .. Len(Tail(q)) : Tail(q)[i] = q[i + 1]
    BY <2>2, HeadTailProperties, EmptySeq
  <2>4. Head(q) \in Frame /\ Head(q).len \in Nat /\ Head(q).len <= BufSize
    <3>1. Head(q) \in Frame
      BY <2>2, HeadTailProperties
    <3>2. 1 \in 1 .. Len(q)
      BY <2>3
    <3>3. q[1].len <= BufSize
      BY <2>2, <3>2 DEF LengthInv
    <3> QED BY <2>3, <3>1, <3>3 DEF Frame
  <2>5. Short'
    <3>1. queue' = [queue EXCEPT ![e.sock] = Tail(q)]
      BY <2>1 DEF WriteFrame, AfterWrite
    <3>2. \A i \in 1 .. Len(Tail(q)) : i + 1 \in 1 .. Len(q)
      BY <2>3
    <3>3. \A i \in 1 .. Len(Tail(q)) : Tail(q)[i].len <= BufSize
      BY <2>2, <2>3, <3>2 DEF LengthInv
    <3>4. ASSUME NEW s \in Ports, NEW i \in 1 .. Len(queue'[s])
          PROVE  queue'[s][i].len <= BufSize
      <4>1. CASE s = e.sock
        BY <1>0, <3>1, <3>3, <3>4, <4>1 DEF TypeOK
      <4>2. CASE s # e.sock
        BY <1>0, <3>1, <3>4, <4>2 DEF TypeOK, LengthInv
      <4> QED BY <4>1, <4>2
    <3> QED BY <3>4
  <2>6. NsToSleep(Head(q).len) <= config.bandwidth * BufSize
    <3>1. config.bandwidth \in Nat
      BY <1>0, ConfigAssumption DEF TypeOK, config_t, Ulong
    <3> DEFINE product == config.bandwidth * Head(q).len
               most == config.bandwidth * BufSize
    <3>2. product \in Nat /\ most \in Nat /\ product <= most
      BY <3>1, <2>4, <1>0, ProductMonotonic
    <3>3. NsToSleep(Head(q).len) = product % Word
      BY DEF NsToSleep
    <3> HIDE DEF product, most
    <3>4. product % Word \in Nat /\ product % Word <= product
      BY <3>2, ModuloFacts
    <3>5. NsToSleep(Head(q).len) <= most
      BY <3>2, <3>3, <3>4
    <3> QED BY <3>5 DEF most
  <2>7. \A s \in Ports : paced'[s].pause \in {paced[s].pause, NsToSleep(Head(q).len)}
    <3>1. CASE config.bandwidth = 0
      BY <2>1, <3>1 DEF WriteFrame
    <3>2. CASE config.bandwidth # 0
      <4>1. paced' = [paced EXCEPT ![e.sock] =
              [at |-> now, tick |-> tick, pause |-> NsToSleep(Head(q).len)]]
        BY <2>1, <2>2, <3>2 DEF WriteFrame
      <4> QED BY <4>1, <2>2, <1>0 DEF TypeOK
    <3> QED BY <3>1, <3>2
  <2>8. PauseBounded'
    <3>1. \A s \in Ports : paced[s].pause <= config.bandwidth * BufSize
      BY <2>2 DEF LengthInv, PauseBounded
    <3>2. \A s \in Ports : paced'[s].pause <= config.bandwidth * BufSize
      BY <2>6, <2>7, <3>1
    <3> QED BY <2>2, <3>2 DEF PauseBounded
  <2> QED BY <2>5, <2>8
<1>3. CASE HandleRead
  <2>1. PICK e \in events, dropped \in Drops, corrupted \in Corrupts :
          ReadFrame(e, dropped, corrupted)
    BY <1>3 DEF HandleRead
  <2>2. pc = "dispatch" /\ UNCHANGED <<config, paced>>
    BY <2>1 DEF ReadFrame
  <2>3. PauseBounded'
    BY <2>2 DEF LengthInv, PauseBounded
  <2>4. CASE UNCHANGED queue
    BY <2>3, <2>4 DEF LengthInv
  <2>5. CASE \E g \in Frame : /\ g.len <= BufSize
                             /\ queue' = [queue EXCEPT ![Other(e.sock)] = Append(@, g)]
    <3>1. PICK g \in Frame : /\ g.len <= BufSize
                            /\ queue' = [queue EXCEPT ![Other(e.sock)] = Append(@, g)]
      BY <2>5
    <3> DEFINE q == queue[Other(e.sock)]
    <3>2. Other(e.sock) \in Ports /\ q \in Seq(Frame)
      BY <1>0, OtherFacts DEF TypeOK
    <3>3. /\ Len(Append(q, g)) = Len(q) + 1 /\ Len(q) \in Nat
          /\ \A i \in 1 .. Len(q) : Append(q, g)[i] = q[i]
          /\ Append(q, g)[Len(q) + 1] = g
      BY <3>1, <3>2, AppendProperties, LenProperties
    <3>4. \A i \in 1 .. Len(Append(q, g)) : Append(q, g)[i].len <= BufSize
      <4>1. \A i \in 1 .. Len(Append(q, g)) : i \in 1 .. Len(q) \/ i = Len(q) + 1
        BY <3>3
      <4> QED BY <3>1, <3>2, <3>3, <4>1 DEF LengthInv
    <3>5. ASSUME NEW s \in Ports, NEW i \in 1 .. Len(queue'[s])
          PROVE  queue'[s][i].len <= BufSize
      <4>1. CASE s = Other(e.sock)
        BY <1>0, <3>1, <3>4, <3>5, <4>1 DEF TypeOK
      <4>2. CASE s # Other(e.sock)
        BY <1>0, <3>1, <3>5, <4>2 DEF TypeOK, LengthInv
      <4> QED BY <4>1, <4>2
    <3> QED BY <2>3, <3>5
  <2> QED BY <1>0, <2>1, <2>4, <2>5, ReadQueues
<1>4. CASE ClearFlag \/ Start
  <2>1. \A s \in Ports : paced'[s].pause = 0
    BY <1>4 DEF ClearFlag, Start, NotPaced
  <2>2. config'.bandwidth * BufSize \in Nat
    <3>1. config'.bandwidth \in Nat
      BY <1>0, ConfigAssumption DEF TypeOK, config_t, Ulong
    <3> QED BY <1>0, <3>1, ProductMonotonic
  <2>3. PauseBounded'
    BY <2>1, <2>2 DEF PauseBounded
  <2>4. Short'
    <3>1. CASE ClearFlag
      BY <3>1 DEF ClearFlag, LengthInv
    <3>2. CASE Start
      <4>1. \A s \in Ports : Len(queue'[s]) = 0
        BY <3>2, EmptySeq DEF Start
      <4> QED BY <4>1
    <3> QED BY <1>4, <3>1, <3>2
  <2> QED BY <2>3, <2>4
<1>5. CASE LoadConfig
  <2>1. pc' \in {"clear_flag", "down"} /\ UNCHANGED queue
    BY <1>5 DEF LoadConfig
  <2> QED BY <2>1 DEF LengthInv, PauseBounded
<1>6. CASE \/ Setup \/ SkipReload \/ Arm \/ EpollSleeps \/ EpollReturns \/ ReadAborts
           \/ \E s \in Ports : Arrive(s) \/ TxDrains(s) \/ LinkDown(s)
           \/ EarlySignal \/ Signal \/ Edit \/ ClockTicks \/ Stop \/ UNCHANGED vars
  <2>1. UNCHANGED <<queue, config, paced>>
    BY <1>6 DEF Setup, SkipReload, Arm, EpollSleeps, EpollReturns, ReadAborts,
          Arrive, TxDrains, LinkDown, EarlySignal, Signal, Edit, ClockTicks, Stop
  <2>2. pc \in {"clear_flag", "down"} => pc' \in {"clear_flag", "down"}
    BY <1>6 DEF Setup, SkipReload, Arm, EpollSleeps, EpollReturns, ReadAborts,
          Arrive, TxDrains, LinkDown, EarlySignal, Signal, Edit, ClockTicks, Stop
  <2> QED BY <2>1, <2>2 DEF LengthInv, PauseBounded
<1> QED BY <1>2, <1>3, <1>4, <1>5, <1>6 DEF Next, Daemon, World

(* As long as no write fails, no port is silenced for longer than the       *)
(* largest frame takes at the configured bandwidth.                         *)
THEOREM PauseBoundCorrect == Reliable => (Spec => []PauseBounded)
<1> SUFFICES ASSUME Reliable PROVE Spec => []PauseBounded
  OBVIOUS
<1>1. Init => LengthInv
  BY LengthInit
<1>2. LengthInv /\ [Next]_vars => LengthInv'
  BY LengthNext
<1>3. LengthInv => PauseBounded
  BY DEF LengthInv
<1> QED BY <1>1, <1>2, <1>3, PTL DEF Spec

-----------------------------------------------------------------------------
(* Sequences: the deque of a direction followed by what the kernel holds.   *)

(* Taking the front of the deque takes the front of the direction.          *)
LEMMA TailOfConcat ==
  ASSUME NEW S, NEW q \in Seq(S), NEW r \in Seq(S), q # <<>>
  PROVE  /\ q \o r \in Seq(S) /\ q \o r # <<>>
         /\ Head(q \o r) = Head(q) /\ Tail(q) \o r = Tail(q \o r)
<1>1. /\ q \o r \in Seq(S) /\ Len(q \o r) = Len(q) + Len(r)
      /\ \A i \in 1 .. Len(q) + Len(r) : (q \o r)[i] = IF i <= Len(q) THEN q[i] ELSE r[i - Len(q)]
  BY ConcatProperties
<1>2. Len(q) \in Nat \ {0} /\ Len(r) \in Nat
  BY EmptySeq, LenProperties
<1>3. q \o r # <<>> /\ Head(q \o r) = Head(q)
  BY <1>1, <1>2
<1>4. /\ Tail(q) \in Seq(S) /\ Len(Tail(q)) = Len(q) - 1
      /\ \A i \in 1 .. Len(Tail(q)) : Tail(q)[i] = q[i + 1]
  BY HeadTailProperties
<1>5. /\ Tail(q \o r) \in Seq(S) /\ Len(Tail(q \o r)) = Len(q \o r) - 1
      /\ \A i \in 1 .. Len(Tail(q \o r)) : Tail(q \o r)[i] = (q \o r)[i + 1]
  BY <1>1, <1>3, HeadTailProperties
<1>6. /\ Tail(q) \o r \in Seq(S) /\ Len(Tail(q) \o r) = Len(Tail(q)) + Len(r)
      /\ \A i \in 1 .. Len(Tail(q)) + Len(r) :
           (Tail(q) \o r)[i] = IF i <= Len(Tail(q)) THEN Tail(q)[i] ELSE r[i - Len(Tail(q))]
  BY <1>4, ConcatProperties
<1>7. Len(Tail(q) \o r) = Len(Tail(q \o r))
  BY <1>1, <1>2, <1>4, <1>5, <1>6
<1>8. ASSUME NEW i \in 1 .. Len(Tail(q) \o r)
      PROVE  (Tail(q) \o r)[i] = Tail(q \o r)[i]
  <2>1. Tail(q \o r)[i] = (q \o r)[i + 1]
    BY <1>5, <1>7
  <2>2. i \in Int /\ i >= 1 /\ i + 1 <= Len(q) + Len(r)
    BY <1>2, <1>4, <1>6
  <2>3. (q \o r)[i + 1] = IF i + 1 <= Len(q) THEN q[i + 1] ELSE r[i + 1 - Len(q)]
    BY <1>1, <1>2, <2>2
  <2>4. CASE i + 1 <= Len(q)
    BY <1>2, <1>4, <1>6, <2>1, <2>2, <2>3, <2>4
  <2>5. CASE ~(i + 1 <= Len(q))
    <3>1. ~(i <= Len(Tail(q))) /\ i - Len(Tail(q)) = i + 1 - Len(q)
      BY <1>2, <1>4, <2>2, <2>5
    <3> QED BY <1>6, <2>1, <2>3, <2>5, <3>1
  <2> QED BY <2>4, <2>5
<1>9. Tail(q) \o r = Tail(q \o r)
  BY <1>5, <1>6, <1>7, <1>8, SeqEqual
<1> QED BY <1>1, <1>3, <1>9

(* A frame that arrives is the last of its direction.                       *)
LEMMA AppendOfConcat ==
  ASSUME NEW S, NEW q \in Seq(S), NEW r \in Seq(S), NEW g \in S
  PROVE  q \o Append(r, g) = Append(q \o r, g)
<1>1. Append(r, g) = r \o <<g>> /\ <<g>> \in Seq(S)
  BY AppendIsConcat
<1>2. q \o r \in Seq(S)
  BY ConcatProperties
<1>3. Append(q \o r, g) = (q \o r) \o <<g>>
  BY <1>2, AppendIsConcat
<1> QED BY <1>1, <1>3, ConcatAssociative

(* The front of what the kernel holds is somewhere in the direction: taking *)
(* it away leaves the others, moving something in its place to the end of   *)
(* the deque leaves the others where they were.                             *)
LEMMA MiddleOfConcat ==
  ASSUME NEW q \in Seq(Frame), NEW r \in Seq(Frame), r # <<>>
  PROVE  \E s \in Seq(Frame), i \in Nat :
           /\ s = q \o r /\ i = Len(q) + 1 /\ i \in DOMAIN s /\ s[i] = Head(r)
           /\ q \o Tail(r) = SubSeq(s, 1, i - 1) \o SubSeq(s, i + 1, Len(s))
           /\ \A g \in Frame : Append(q, g) \o Tail(r) = [s EXCEPT ![i] = g]
<1> DEFINE s == q \o r
           n == Len(q)
           i == n + 1
<1>1. /\ s \in Seq(Frame) /\ Len(s) = n + Len(r)
      /\ \A j \in 1 .. n + Len(r) : s[j] = IF j <= n THEN q[j] ELSE r[j - n]
  BY ConcatProperties
<1>2. n \in Nat /\ Len(r) \in Nat \ {0}
  BY EmptySeq, LenProperties
<1>3. /\ Tail(r) \in Seq(Frame) /\ Len(Tail(r)) = Len(r) - 1
      /\ \A j \in 1 .. Len(Tail(r)) : Tail(r)[j] = r[j + 1]
  BY HeadTailProperties
<1>4. i \in 1 .. Len(s) /\ s[i] = Head(r) /\ DOMAIN s = 1 .. Len(s)
  <2>1. ~(i <= n) /\ i - n = 1 /\ i \in 1 .. n + Len(r)
    BY <1>2
  <2>2. s[i] = r[1]
    BY <1>1, <2>1
  <2>3. r[1] = Head(r)
    BY <1>2
  <2> QED BY <1>1, <2>1, <2>2, <2>3, LenProperties
<1>5. SubSeq(s, 1, i - 1) = q
  <2>1. \A j \in 1 .. n : s[j] = q[j] /\ q[j] \in Frame
    BY <1>1, <1>2, ElementOfSeq
  <2>2. /\ SubSeq(s, 1, n) \in Seq(Frame) /\ Len(SubSeq(s, 1, n)) = IF 1 <= n THEN n - 1 + 1 ELSE 0
        /\ \A j \in 1 .. n - 1 + 1 : SubSeq(s, 1, n)[j] = s[1 + j - 1]
    BY <1>2, <2>1, SubSeqProperties
  <2>3. Len(SubSeq(s, 1, n)) = n /\ \A j \in 1 .. n : SubSeq(s, 1, n)[j] = q[j]
    BY <1>2, <2>1, <2>2
  <2>4. SubSeq(s, 1, n) = q
    BY <2>2, <2>3, SeqEqual
  <2> QED BY <1>2, <2>4
<1>6. SubSeq(s, i + 1, Len(s)) = Tail(r)
  <2>1. i + 1 \in Int /\ Len(s) \in Int /\ Len(s) - (i + 1) + 1 = Len(Tail(r))
    BY <1>1, <1>2, <1>3
  <2>2. \A j \in (i + 1) .. Len(s) : s[j] \in Frame
    BY <1>1, <1>2, ElementOfSeq
  <2>3. /\ SubSeq(s, i + 1, Len(s)) \in Seq(Frame)
        /\ Len(SubSeq(s, i + 1, Len(s))) = IF i + 1 <= Len(s) THEN Len(s) - (i + 1) + 1 ELSE 0
        /\ \A j \in 1 .. Len(s) - (i + 1) + 1 : SubSeq(s, i + 1, Len(s))[j] = s[i + 1 + j - 1]
    BY <2>1, <2>2, SubSeqProperties
  <2>4. Len(SubSeq(s, i + 1, Len(s))) = Len(Tail(r))
    BY <1>1, <1>2, <1>3, <2>3
  <2>5. ASSUME NEW j \in 1 .. Len(Tail(r))
        PROVE  SubSeq(s, i + 1, Len(s))[j] = Tail(r)[j]
    <3>1. SubSeq(s, i + 1, Len(s))[j] = s[i + 1 + j - 1]
      BY <2>1, <2>3
    <3>2. /\ i + 1 + j - 1 \in 1 .. n + Len(r) /\ ~(i + 1 + j - 1 <= n)
          /\ i + 1 + j - 1 - n = j + 1
      BY <1>2, <1>3
    <3> QED BY <1>1, <1>3, <3>1, <3>2
  <2> QED BY <1>3, <2>3, <2>4, <2>5, SeqEqual
<1>7. ASSUME NEW g \in Frame
      PROVE  Append(q, g) \o Tail(r) = [s EXCEPT ![i] = g]
  <2>1. /\ Append(q, g) \in Seq(Frame) /\ Len(Append(q, g)) = n + 1
        /\ \A j \in 1 .. n : Append(q, g)[j] = q[j]
        /\ Append(q, g)[n + 1] = g
    BY AppendProperties
  <2> DEFINE t == Append(q, g) \o Tail(r)
             u == [s EXCEPT ![i] = g]
  <2>2. /\ t \in Seq(Frame) /\ Len(t) = n + 1 + Len(Tail(r))
        /\ \A j \in 1 .. n + 1 + Len(Tail(r)) :
             t[j] = IF j <= n + 1 THEN Append(q, g)[j] ELSE Tail(r)[j - (n + 1)]
    BY <1>3, <2>1, ConcatProperties
  <2>3. /\ u \in Seq(Frame) /\ Len(u) = Len(s)
        /\ \A j \in 1 .. Len(s) : u[j] = IF j = i THEN g ELSE s[j]
    <3>1. s \in Seq(Frame) /\ i \in 1 .. Len(s)
      BY <1>1, <1>4
    <3> HIDE DEF s, i
    <3> QED BY <3>1, ExceptSeq
  <2>4. Len(t) = Len(u)
    BY <1>1, <1>2, <1>3, <2>2, <2>3
  <2>5. ASSUME NEW j \in 1 .. Len(t)
        PROVE  t[j] = u[j]
    <3>1. j \in Int /\ j >= 1 /\ j <= n + Len(r)
      BY <1>1, <1>2, <2>3, <2>4
    <3>2. u[j] = IF j = i THEN g ELSE s[j]
      BY <2>3, <2>4
    <3>3. s[j] = IF j <= n THEN q[j] ELSE r[j - n]
      BY <1>1, <1>2, <3>1
    <3>4. t[j] = IF j <= n + 1 THEN Append(q, g)[j] ELSE Tail(r)[j - (n + 1)]
      BY <2>2
    <3>5. CASE j <= n
      BY <1>2, <2>1, <3>1, <3>2, <3>3, <3>4, <3>5
    <3>6. CASE j = n + 1
      BY <1>2, <2>1, <3>2, <3>4, <3>6
    <3>7. CASE j > n + 1
      <4>1. j - (n + 1) \in 1 .. Len(Tail(r)) /\ j - (n + 1) + 1 = j - n
        BY <1>2, <1>3, <3>1, <3>7
      <4>2. Tail(r)[j - (n + 1)] = r[j - n]
        BY <1>3, <4>1
      <4>3. ~(j <= n + 1) /\ ~(j <= n) /\ j # i
        BY <1>2, <3>1, <3>7
      <4> QED BY <3>2, <3>3, <3>4, <4>2, <4>3
    <3> QED BY <1>2, <3>1, <3>5, <3>6, <3>7
  <2> QED BY <2>2, <2>3, <2>4, <2>5, SeqEqual
<1>8. s \in Seq(Frame) /\ i \in Nat /\ s = q \o r /\ i = Len(q) + 1
  BY <1>1, <1>2
<1> HIDE DEF s, n, i
<1> QED BY <1>4, <1>5, <1>6, <1>7, <1>8

-----------------------------------------------------------------------------
(* The refinement mapping. *)

(* A direction: the deque of the other port, then what the kernel holds.    *)
flight == [s \in Ports |-> queue[Other(s)] \o rx[s]]

(* A direction holds frames.                                                *)
LEMMA FlightType == TypeOK => flight \in [Ports -> Seq(Frame)]
<1> SUFFICES ASSUME TypeOK PROVE flight \in [Ports -> Seq(Frame)]
  OBVIOUS
<1>1. ASSUME NEW s \in Ports PROVE queue[Other(s)] \o rx[s] \in Seq(Frame)
  <2>1. queue[Other(s)] \in Seq(Frame) /\ rx[s] \in Seq(Frame)
    BY OtherFacts DEF TypeOK
  <2> QED BY <2>1, ConcatProperties
<1> QED BY <1>1 DEF flight

(* A step that touches one direction only. *)
LEMMA OneDirection ==
  ASSUME NEW s \in Ports,
         \A t \in Ports \ {s} : queue'[Other(t)] = queue[Other(t)] /\ rx'[t] = rx[t]
  PROVE  flight' = [flight EXCEPT ![s] = queue'[Other(s)] \o rx'[s]]
BY DEF flight

(* The frame at i leaves the direction s, or another one takes its place.   *)
Removes(s, i) == flight' = [flight EXCEPT ![s] = SubSeq(@, 1, i - 1) \o SubSeq(@, i + 1, Len(@))]
Replaces(s, i, g) == flight' = [flight EXCEPT ![s] = [@ EXCEPT ![i] = g]]

(* The steps of the pass-through, lossy or lossless, that the daemon's      *)
(* steps map to.                                                            *)
LEMMA Delivered ==
  ASSUME NEW s \in Ports, flight[s] # <<>>, ~Lossy!IsOwn(Head(flight[s]), s),
         flight' = [flight EXCEPT ![s] = Tail(@)],
         lastTx' = [lastTx EXCEPT ![Other(s)] = <<Head(flight[s])>>]
  PROVE  Lossy!PTNext /\ Lossless!PTNext
<1>1. Lossy!Deliver(s)
  BY DEF Lossy!Deliver, flight
<1>2. Lossless!Deliver(s)
  BY DEF Lossless!Deliver, flight, Lossy!IsOwn, Lossless!IsOwn
<1> QED BY <1>1, <1>2 DEF Lossy!PTNext, Lossless!PTNext

(* A frame that goes without being written is lost.                         *)
LEMMA Lost ==
  ASSUME NEW s \in Ports, NEW i \in DOMAIN flight[s],
         Removes(s, i), UNCHANGED lastTx
  PROVE  Lossy!PTNext /\ (Lossy!IsOwn(flight[s][i], s) => Lossless!PTNext)
<1>1. Lossy!Lose(s)
  BY DEF Lossy!Lose, Lossy!RemoveAt, Removes, flight
<1>2. Lossy!IsOwn(flight[s][i], s) => Lossless!Lose(s)
  BY DEF Lossless!Lose, Lossless!RemoveAt, Removes, flight, Lossy!IsOwn, Lossless!IsOwn
<1> QED BY <1>1, <1>2 DEF Lossy!PTNext, Lossless!PTNext

(* A frame that arrives is the last of its direction.                       *)
LEMMA Accepted ==
  ASSUME TypeOK, NEW s \in Ports, NEW g \in Frame,
         flight' = [flight EXCEPT ![s] = Append(@, g)], UNCHANGED lastTx
  PROVE  Lossy!PTNext /\ Lossless!PTNext
<1>1. flight[s] \in Seq(Frame) /\ flight'[s] = Append(flight[s], g)
  BY FlightType
<1>2. flight'[s] # <<>> /\ flight'[s][Len(flight'[s])] = g
  BY <1>1, AppendProperties
<1>3. Lossy!Accept(s)
  BY <1>2 DEF Lossy!Accept, Lossy!Last, flight
<1>4. Lossless!Accept(s)
  BY <1>2 DEF Lossless!Accept, Lossless!Last, flight
<1> QED BY <1>3, <1>4 DEF Lossy!PTNext, Lossless!PTNext

(* A frame whose payload is changed stays where it is.                      *)
LEMMA Spoiled ==
  ASSUME TypeOK, NEW s \in Ports, NEW i \in DOMAIN flight[s], NEW g \in Frame,
         Replaces(s, i, g), UNCHANGED lastTx,
         g.seq = flight[s][i].seq, g.len <= flight[s][i].len
  PROVE  Lossy!PTNext
<1>1. flight'[s] = [flight[s] EXCEPT ![i] = g]
  BY FlightType DEF Replaces
<1>2. flight'[s][i] = g /\ DOMAIN flight'[s] = DOMAIN flight[s]
  BY <1>1
<1>3. Lossy!Spoil(s)
  BY <1>1, <1>2 DEF Lossy!Spoil, Replaces, flight
<1> QED BY <1>3 DEF Lossy!PTNext

(* What a direction holds, or part of it, vanishes when the daemon ends.    *)
LEMMA Vanished ==
  ASSUME flight' = [s \in Ports |-> <<>>], UNCHANGED lastTx
  PROVE  Lossy!PTNext
BY DEF Lossy!PTNext, Lossy!Vanish, flight

(* A step that changes nothing of this is none.                             *)
LEMMA Stutters ==
  ASSUME UNCHANGED <<queue, rx, lastTx>>
  PROVE  UNCHANGED Lossy!ptvars /\ UNCHANGED Lossless!ptvars
BY DEF Lossy!ptvars, Lossless!ptvars

-----------------------------------------------------------------------------
(* What is queued may be sent: none of it is the interface's own.           *)

ForwardInv ==
  /\ TypeOK
  /\ \A s \in Ports : \A i \in DOMAIN queue[Other(s)] : ~Lossy!IsOwn(queue[Other(s)][i], s)

(* strncmp finds equal addresses equal. *)
LEMMA OwnIsFound ==
  ASSUME NEW f, NEW s, Lossy!IsOwn(f, s)
  PROVE  OwnTraffic(f, s)
BY DEF Lossy!IsOwn, OwnTraffic, StrncmpZero

(* What the read branch does to the frame it read: it drops it, or forwards *)
(* it with its number and addresses, no longer than it was.                 *)
LEMMA ReadForwards ==
  ASSUME TypeOK, NEW e \in events, NEW dropped, NEW corrupted,
         ReadFrame(e, dropped, corrupted)
  PROVE  LET s == e.sock
             f == Head(rx[s])
         IN  /\ s \in Ports /\ rx[s] # <<>> /\ f \in Frame
             /\ rx' = [rx EXCEPT ![s] = Tail(@)] /\ UNCHANGED lastTx
             /\ \/ /\ UNCHANGED queue
                   /\ OwnTraffic(f, s) \/ dropped \/ corrupted
                \/ /\ ~OwnTraffic(f, s)
                   /\ \E g \in Frame :
                        /\ queue' = [queue EXCEPT ![Other(s)] = Append(@, g)]
                        /\ g.seq = f.seq /\ g.dst = f.dst /\ g.src = f.src /\ g.len <= f.len
                        /\ ~corrupted => g = Truncated(Received(f))
<1> DEFINE s == e.sock
           f == Head(rx[s])
           r == Received(f)
<1>1. s \in Ports /\ rx[s] # <<>> /\ f \in Frame
  BY DEF ReadFrame, TypeOK
<1>2. r \in Frame /\ r.seq = f.seq /\ r.dst = f.dst /\ r.src = f.src /\ r.len <= f.len
  <2>1. r \in Frame
    BY <1>1, FilterType
  <2>2. f.len \in Nat /\ BufSize \in Nat
    BY <1>1, HubAssumption DEF Frame
  <2> QED BY <1>1, <2>1, <2>2 DEF Received, Frame
<1>3. OwnTraffic(r, s) <=> OwnTraffic(f, s)
  BY <1>2 DEF OwnTraffic
<1>4. ASSUME NEW g \in Damage(r) \cup {r}
      PROVE  /\ Truncated(g) \in Frame /\ Truncated(g).seq = f.seq /\ Truncated(g).dst = f.dst
             /\ Truncated(g).src = f.src /\ Truncated(g).len <= f.len
  <2>1. /\ g \in Frame /\ g.seq = f.seq /\ g.dst = f.dst /\ g.src = f.src /\ g.len = r.len
    BY <1>2, FilterType DEF Damage, Frame
  <2>2. Truncated(g) \in Frame
    BY <2>1, FilterType
  <2>3. config.truncate_len \in Nat /\ g.len \in Nat /\ f.len \in Nat /\ r.len \in Nat
    BY <1>1, <1>2, <2>1, ConfigAssumption DEF TypeOK, config_t, Ulong, Frame
  <2>4. Truncated(g).len <= g.len
    <3>1. [g EXCEPT !.len = config.truncate_len].len = config.truncate_len
      BY <2>1 DEF Frame
    <3> QED BY <2>3, <3>1 DEF Truncated
  <2>5. Truncated(g).seq = g.seq /\ Truncated(g).dst = g.dst /\ Truncated(g).src = g.src
    BY <2>1 DEF Truncated, Frame
  <2>6. Truncated(g).len \in Nat
    BY <2>2 DEF Frame
  <2> QED BY <1>2, <2>1, <2>2, <2>3, <2>4, <2>5, <2>6
<1>5. /\ rx' = [rx EXCEPT ![s] = Tail(@)] /\ UNCHANGED lastTx
  BY DEF ReadFrame, observers
<1>6. \/ UNCHANGED queue /\ (OwnTraffic(f, s) \/ dropped \/ corrupted)
      \/ /\ ~OwnTraffic(f, s)
         /\ \E g \in IF corrupted THEN Damage(r) ELSE {r} :
              queue' = [queue EXCEPT ![Other(s)] = Append(@, Truncated(g))]
  BY <1>3 DEF ReadFrame, Enqueue
<1>7. CASE ~OwnTraffic(f, s) /\ \E g \in IF corrupted THEN Damage(r) ELSE {r} :
             queue' = [queue EXCEPT ![Other(s)] = Append(@, Truncated(g))]
  <2>1. PICK g \in IF corrupted THEN Damage(r) ELSE {r} :
          queue' = [queue EXCEPT ![Other(s)] = Append(@, Truncated(g))]
    BY <1>7
  <2>2. g \in Damage(r) \cup {r} /\ (~corrupted => g = r)
    BY <2>1
  <2> HIDE DEF s, f, r
  <2> QED BY <1>1, <1>4, <1>5, <1>7, <2>1, <2>2 DEF s, f, r
<1> QED BY <1>1, <1>5, <1>6, <1>7

(* Nothing is queued at the start.                                          *)
LEMMA ForwardInit == Init => ForwardInv
<1> SUFFICES ASSUME Init PROVE ForwardInv
  OBVIOUS
<1>1. \A s \in Ports : queue[Other(s)] = <<>>
  BY OtherFacts DEF Init
<1> QED BY <1>1, InitType DEF ForwardInv

(* A write and a read, in terms of the directions. *)
LEMMA WriteMaps ==
  ASSUME ForwardInv, NEW e \in events, NEW ok, WriteFrame(e, ok)
  PROVE  LET s == Other(e.sock)
         IN  /\ s \in Ports /\ flight[s] # <<>> /\ 1 \in DOMAIN flight[s]
             /\ flight[s][1] = Head(flight[s]) /\ ~Lossy!IsOwn(Head(flight[s]), s)
             /\ flight' = [flight EXCEPT ![s] = Tail(@)]
             /\ Removes(s, 1)
             /\ IF ok THEN lastTx' = [lastTx EXCEPT ![Other(s)] = <<Head(flight[s])>>]
                      ELSE UNCHANGED lastTx
<1> DEFINE p == e.sock
           s == Other(p)
           q == queue[p]
           f == flight[s]
<1>1. /\ p \in Ports /\ s \in Ports /\ Other(s) = p
      /\ q \in Seq(Frame) /\ q # <<>> /\ rx[s] \in Seq(Frame)
  BY OtherFacts DEF WriteFrame, ForwardInv, TypeOK
<1>2. f = q \o rx[s]
  BY <1>1 DEF flight
<1>3. f \in Seq(Frame) /\ f # <<>> /\ Head(f) = Head(q) /\ Tail(q) \o rx[s] = Tail(f)
  <2>1. /\ q \o rx[s] \in Seq(Frame) /\ q \o rx[s] # <<>>
        /\ Head(q \o rx[s]) = Head(q) /\ Tail(q) \o rx[s] = Tail(q \o rx[s])
    <3> HIDE DEF q, s
    <3> QED BY <1>1, TailOfConcat
  <2> HIDE DEF q, s, f
  <2> QED BY <1>2, <2>1
<1>4. Len(f) \in Nat \ {0} /\ DOMAIN f = 1 .. Len(f) /\ f[1] = Head(f)
  BY <1>3, EmptySeq, LenProperties
<1>5. ~Lossy!IsOwn(Head(q), s)
  <2>1. 1 \in DOMAIN q /\ q[1] = Head(q)
    BY <1>1, EmptySeq, LenProperties
  <2> QED BY <1>1, <2>1 DEF ForwardInv
<1>6. flight' = [flight EXCEPT ![s] = Tail(f)]
  <2>1. queue' = [queue EXCEPT ![p] = Tail(@)] /\ rx' = rx
    BY DEF WriteFrame, AfterWrite
  <2>2. queue'[Other(s)] \o rx'[s] = Tail(f)
    BY <1>1, <1>3, <2>1 DEF ForwardInv, TypeOK
  <2>3. \A t \in Ports \ {s} : queue'[Other(t)] = queue[Other(t)] /\ rx'[t] = rx[t]
    BY <1>1, <2>1, OtherFacts DEF ForwardInv, TypeOK
  <2> QED BY <1>1, <2>2, <2>3, OneDirection
<1>7. Tail(f) = SubSeq(f, 1, 1 - 1) \o SubSeq(f, 1 + 1, Len(f))
  <2>1. Tail(f) = SubSeq(f, 2, Len(f)) /\ Tail(f) \in Seq(Frame)
    BY <1>3, TailIsSubSeq, HeadTailProperties
  <2>2. SubSeq(f, 1, 0) = <<>>
    BY SubSeqEmpty
  <2> QED BY <2>1, <2>2, ConcatEmptySeq
<1>8. IF ok THEN lastTx' = [lastTx EXCEPT ![Other(s)] = <<Head(f)>>] ELSE UNCHANGED lastTx
  BY <1>1, <1>3 DEF WriteFrame
<1>9. s \in Ports /\ f # <<>> /\ 1 \in DOMAIN f /\ f[1] = Head(f) /\ ~Lossy!IsOwn(Head(f), s)
  BY <1>1, <1>3, <1>4, <1>5
<1>10. Removes(s, 1)
  BY <1>6, <1>7 DEF Removes
<1> QED BY <1>6, <1>8, <1>9, <1>10

(* The frame that is read leaves the direction or stays in its place,       *)
(* changed.                                                                 *)
LEMMA ReadMaps ==
  ASSUME TypeOK, NEW e \in events, NEW dropped, NEW corrupted,
         ReadFrame(e, dropped, corrupted)
  PROVE  LET s == e.sock
             f == Head(rx[s])
             i == Len(queue[Other(s)]) + 1
         IN  /\ s \in Ports /\ i \in DOMAIN flight[s] /\ flight[s][i] = f /\ f \in Frame
             /\ UNCHANGED lastTx
             /\ \/ /\ OwnTraffic(f, s) \/ dropped \/ corrupted
                   /\ Removes(s, i)
                \/ \E g \in Frame :
                     /\ Replaces(s, i, g)
                     /\ g.seq = f.seq /\ g.len <= f.len
                     /\ ~corrupted => g = Truncated(Received(f))
<1> DEFINE s == e.sock
           f == Head(rx[s])
           q == queue[Other(s)]
           i == Len(q) + 1
<1>1. /\ s \in Ports /\ rx[s] # <<>> /\ f \in Frame
      /\ rx' = [rx EXCEPT ![s] = Tail(@)] /\ UNCHANGED lastTx
  BY ReadForwards
<1>2. q \in Seq(Frame) /\ rx[s] \in Seq(Frame) /\ flight[s] = q \o rx[s]
  BY <1>1, OtherFacts DEF TypeOK, flight
<1>3. /\ i \in DOMAIN flight[s] /\ flight[s][i] = f
      /\ q \o Tail(rx[s]) = SubSeq(flight[s], 1, i - 1) \o SubSeq(flight[s], i + 1, Len(flight[s]))
      /\ \A g \in Frame : Append(q, g) \o Tail(rx[s]) = [flight[s] EXCEPT ![i] = g]
  <2> DEFINE r == rx[s]
             t == q \o r
  <2>1. /\ i \in DOMAIN t /\ t[i] = Head(r)
        /\ q \o Tail(r) = SubSeq(t, 1, i - 1) \o SubSeq(t, i + 1, Len(t))
        /\ \A g \in Frame : Append(q, g) \o Tail(r) = [t EXCEPT ![i] = g]
    <3>1. q \in Seq(Frame) /\ r \in Seq(Frame) /\ r # <<>>
      BY <1>1, <1>2
    <3> HIDE DEF q, r
    <3>2. \E u \in Seq(Frame), k \in Nat :
            /\ u = q \o r /\ k = Len(q) + 1 /\ k \in DOMAIN u /\ u[k] = Head(r)
            /\ q \o Tail(r) = SubSeq(u, 1, k - 1) \o SubSeq(u, k + 1, Len(u))
            /\ \A g \in Frame : Append(q, g) \o Tail(r) = [u EXCEPT ![k] = g]
      BY <3>1, MiddleOfConcat
    <3> QED BY <3>2
  <2>2. flight[s] = t
    BY <1>2
  <2> QED BY <2>1, <2>2
<1>4. rx'[s] = Tail(rx[s]) /\ \A t \in Ports \ {s} : rx'[t] = rx[t]
  BY <1>1 DEF TypeOK
<1>5. CASE UNCHANGED queue /\ (OwnTraffic(f, s) \/ dropped \/ corrupted)
  <2>1. flight' = [flight EXCEPT ![s] = queue'[Other(s)] \o rx'[s]]
    BY <1>1, <1>4, <1>5, OneDirection
  <2>2. queue'[Other(s)] \o rx'[s] = q \o Tail(rx[s])
    BY <1>4, <1>5
  <2>3. Removes(s, i)
    BY <1>3, <2>1, <2>2 DEF Removes
  <2> QED BY <1>1, <1>3, <1>5, <2>3
<1>6. ASSUME NEW g \in Frame, queue' = [queue EXCEPT ![Other(s)] = Append(@, g)],
             g.seq = f.seq, g.len <= f.len, ~corrupted => g = Truncated(Received(f))
      PROVE  /\ Replaces(s, i, g)
             /\ g.seq = f.seq /\ g.len <= f.len
             /\ ~corrupted => g = Truncated(Received(f))
  <2>1. queue'[Other(s)] = Append(q, g)
    BY <1>1, <1>6, OtherFacts DEF TypeOK
  <2>2. \A t \in Ports \ {s} : queue'[Other(t)] = queue[Other(t)]
    BY <1>1, <1>6, OtherFacts DEF TypeOK
  <2>3. flight' = [flight EXCEPT ![s] = queue'[Other(s)] \o rx'[s]]
    BY <1>1, <1>4, <2>2, OneDirection
  <2>4. queue'[Other(s)] \o rx'[s] = [flight[s] EXCEPT ![i] = g]
    BY <1>3, <1>4, <2>1
  <2> QED BY <1>6, <2>3, <2>4 DEF Replaces
<1>7. \/ UNCHANGED queue /\ (OwnTraffic(f, s) \/ dropped \/ corrupted)
      \/ \E g \in Frame :
           /\ queue' = [queue EXCEPT ![Other(s)] = Append(@, g)]
           /\ g.seq = f.seq /\ g.len <= f.len
           /\ ~corrupted => g = Truncated(Received(f))
  BY ReadForwards
<1>8. CASE \E g \in Frame :
           /\ queue' = [queue EXCEPT ![Other(s)] = Append(@, g)]
           /\ g.seq = f.seq /\ g.len <= f.len
           /\ ~corrupted => g = Truncated(Received(f))
  <2>1. \E g \in Frame :
          /\ Replaces(s, i, g)
          /\ g.seq = f.seq /\ g.len <= f.len
          /\ ~corrupted => g = Truncated(Received(f))
    BY <1>6, <1>8
  <2> HIDE DEF f, q, i, s
  <2> QED BY <1>1, <1>3, <2>1 DEF f, q, i, s
<1> QED BY <1>5, <1>7, <1>8

(* A frame that arrives for an interface is at the end of its direction.    *)
LEMMA ArriveMaps ==
  ASSUME TypeOK, NEW s \in Ports, Arrive(s)
  PROVE  /\ UNCHANGED <<queue, lastTx>>
         /\ \E g \in Frame : flight' = [flight EXCEPT ![s] = Append(@, g)]
<1>1. PICK g \in Frame : rx' = [rx EXCEPT ![s] = Append(@, g)]
  BY ArriveFrame
<1>2. UNCHANGED <<queue, lastTx>>
  BY DEF Arrive, observers
<1>3. queue'[Other(s)] \o rx'[s] = Append(flight[s], g)
  <2>1. queue[Other(s)] \in Seq(Frame) /\ rx[s] \in Seq(Frame) /\ rx'[s] = Append(rx[s], g)
    BY <1>1, OtherFacts DEF TypeOK
  <2> DEFINE q == queue[Other(s)]
             r == rx[s]
  <2>2. q \o Append(r, g) = Append(q \o r, g)
    <3>1. q \in Seq(Frame) /\ r \in Seq(Frame)
      BY <2>1
    <3> HIDE DEF q, r
    <3> QED BY <3>1, AppendOfConcat
  <2> QED BY <1>2, <2>1, <2>2 DEF flight
<1>4. flight' = [flight EXCEPT ![s] = queue'[Other(s)] \o rx'[s]]
  <2>1. \A t \in Ports \ {s} : rx'[t] = rx[t]
    BY <1>1 DEF TypeOK
  <2> QED BY <1>2, <2>1, OneDirection
<1> QED BY <1>2, <1>3, <1>4

(* The other steps touch neither the frames nor what was sent last, except  *)
(* a start, which begins with nothing.                                      *)
LEMMA OtherSteps ==
  ASSUME [Next]_vars, ~HandleWrite, ~HandleRead, ~\E s \in Ports : Arrive(s)
  PROVE  \/ UNCHANGED <<queue, rx, lastTx>>
         \/ /\ Start
            /\ queue' = [s \in Ports |-> <<>>] /\ rx' = [s \in Ports |-> <<>>]
            /\ UNCHANGED lastTx
BY DEF Next, Daemon, World, vars, wire, observers, Setup, LoadConfig, ClearFlag, SkipReload, Arm,
       EpollSleeps, EpollReturns, ReadAborts, TxDrains, LinkDown, EarlySignal, Signal, Edit,
       ClockTicks, Stop, Start

(* Every step keeps what is queued another's than the interface's own.      *)
LEMMA ForwardNext == ForwardInv /\ [Next]_vars => ForwardInv'
<1> SUFFICES ASSUME ForwardInv, [Next]_vars PROVE ForwardInv'
  OBVIOUS
<1>0. TypeOK /\ TypeOK'
  BY NextType DEF ForwardInv
<1> DEFINE Sendable(q, s) == \A i \in DOMAIN q : ~Lossy!IsOwn(q[i], s)
<1>1. \A s \in Ports : Sendable(queue[Other(s)], s)
  BY DEF ForwardInv
<1> SUFFICES ASSUME NEW s \in Ports PROVE Sendable(queue'[Other(s)], s)
  BY <1>0 DEF ForwardInv, Lossy!IsOwn
<1> DEFINE q == queue[Other(s)]
<1>2. q \in Seq(Frame) /\ Other(s) \in Ports
  BY <1>0, OtherFacts DEF TypeOK
<1>3. CASE queue'[Other(s)] = q
  BY <1>1, <1>3
<1>4. CASE queue'[Other(s)] = Tail(q) /\ q # <<>>
  <2>1. /\ Tail(q) \in Seq(Frame) /\ Len(Tail(q)) = Len(q) - 1
        /\ \A i \in 1 .. Len(Tail(q)) : Tail(q)[i] = q[i + 1]
    BY <1>2, <1>4, HeadTailProperties
  <2>2. Len(q) \in Nat /\ DOMAIN q = 1 .. Len(q) /\ DOMAIN Tail(q) = 1 .. Len(Tail(q))
    BY <1>2, <2>1, LenProperties
  <2>3. \A i \in DOMAIN Tail(q) : i + 1 \in DOMAIN q /\ Tail(q)[i] = q[i + 1]
    BY <2>1, <2>2
  <2> QED BY <1>1, <1>4, <2>3
<1>5. CASE \E g \in Frame : queue'[Other(s)] = Append(q, g) /\ ~Lossy!IsOwn(g, s)
  <2>1. PICK g \in Frame : queue'[Other(s)] = Append(q, g) /\ ~Lossy!IsOwn(g, s)
    BY <1>5
  <2>2. /\ Append(q, g) \in Seq(Frame) /\ Len(Append(q, g)) = Len(q) + 1
        /\ \A i \in 1 .. Len(q) : Append(q, g)[i] = q[i]
        /\ Append(q, g)[Len(q) + 1] = g
    BY <1>2, AppendProperties
  <2>3. Len(q) \in Nat /\ DOMAIN q = 1 .. Len(q) /\ DOMAIN Append(q, g) = 1 .. Len(q) + 1
    BY <1>2, <2>2, LenProperties
  <2>4. ASSUME NEW i \in DOMAIN Append(q, g)
        PROVE  Append(q, g)[i] = g \/ (i \in DOMAIN q /\ Append(q, g)[i] = q[i])
    <3>1. i = Len(q) + 1 \/ i \in 1 .. Len(q)
      BY <2>3
    <3> HIDE DEF q
    <3>2. CASE i = Len(q) + 1
      BY <2>2, <3>2
    <3>3. CASE i \in 1 .. Len(q)
      BY <2>2, <2>3, <3>3
    <3> QED BY <3>1, <3>2, <3>3
  <2> QED BY <1>1, <2>1, <2>4
<1>6. CASE HandleWrite
  <2>1. PICK e \in events, ok \in BOOLEAN : WriteFrame(e, ok)
    BY <1>6 DEF HandleWrite
  <2>2. /\ e.sock \in Ports /\ queue[e.sock] # <<>>
        /\ queue' = [queue EXCEPT ![e.sock] = Tail(@)]
    BY <1>0, <2>1 DEF WriteFrame, AfterWrite, TypeOK
  <2>3. \/ queue'[Other(s)] = q
        \/ queue'[Other(s)] = Tail(q) /\ q # <<>>
    BY <1>0, <1>2, <2>2 DEF TypeOK
  <2> QED BY <1>3, <1>4, <2>3
<1>7. CASE HandleRead
  <2>1. PICK e \in events, dropped \in Drops, corrupted \in Corrupts :
          ReadFrame(e, dropped, corrupted)
    BY <1>7 DEF HandleRead
  <2> DEFINE p == e.sock
             f == Head(rx[p])
  <2>2. /\ p \in Ports
        /\ \/ UNCHANGED queue
           \/ /\ ~OwnTraffic(f, p)
              /\ \E g \in Frame : /\ queue' = [queue EXCEPT ![Other(p)] = Append(@, g)]
                                  /\ g.dst = f.dst /\ g.src = f.src
    BY <1>0, <2>1, ReadForwards
  <2>3. CASE UNCHANGED queue
    BY <1>3, <2>3
  <2>4. ASSUME ~OwnTraffic(f, p), NEW g \in Frame,
               queue' = [queue EXCEPT ![Other(p)] = Append(@, g)],
               g.dst = f.dst, g.src = f.src
        PROVE  \/ queue'[Other(s)] = q
               \/ queue'[Other(s)] = Append(q, g) /\ ~Lossy!IsOwn(g, s)
    <3>1. ~Lossy!IsOwn(g, p)
      <4>1. ~Lossy!IsOwn(f, p)
        BY <2>4, OwnIsFound
      <4> QED BY <2>4, <4>1 DEF Lossy!IsOwn
    <3>2. CASE s = p
      BY <1>0, <1>2, <2>4, <3>1, <3>2 DEF TypeOK
    <3>3. CASE s # p
      BY <1>0, <1>2, <2>2, <2>4, <3>3, OtherFacts DEF TypeOK
    <3> QED BY <3>2, <3>3
  <2> HIDE DEF f, p
  <2> QED BY <1>3, <1>5, <2>2, <2>3, <2>4
<1>8. CASE \E t \in Ports : Arrive(t)
  <2>1. UNCHANGED queue
    BY <1>0, <1>8, ArriveMaps
  <2> QED BY <1>3, <2>1
<1>9. CASE queue' = [t \in Ports |-> <<>>]
  BY <1>2, <1>9
<1> QED BY <1>3, <1>6, <1>7, <1>8, <1>9, OtherSteps

(* So none that is queued ever carries the address of the interface it came *)
(* from.                                                                    *)
LEMMA ForwardHolds == Spec => []ForwardInv
BY ForwardInit, ForwardNext, PTL DEF Spec

-----------------------------------------------------------------------------
(* Every step of the daemon is one of the lossy pass-through, or none.      *)
LEMMA LossyInit == Init => Lossy!PTInit
<1> SUFFICES ASSUME Init PROVE Lossy!PTInit
  OBVIOUS
<1>1. \A s \in Ports : queue[Other(s)] \o rx[s] = <<>>
  BY OtherFacts DEF Init
<1> QED BY <1>1 DEF Init, Lossy!PTInit

(* Every step maps to a step of the lossy pass-through, or to none.         *)
LEMMA LossyStep == ForwardInv /\ [Next]_vars => [Lossy!PTNext]_(Lossy!ptvars)
<1> SUFFICES ASSUME ForwardInv, [Next]_vars PROVE Lossy!PTNext \/ UNCHANGED Lossy!ptvars
  OBVIOUS
<1>0. TypeOK
  BY DEF ForwardInv
<1>1. CASE HandleWrite
  <2>1. PICK e \in events, ok \in BOOLEAN : WriteFrame(e, ok)
    BY <1>1 DEF HandleWrite
  <2> QED BY <2>1, WriteMaps, Delivered, Lost
<1>2. CASE HandleRead
  <2>1. PICK e \in events, dropped \in Drops, corrupted \in Corrupts :
          ReadFrame(e, dropped, corrupted)
    BY <1>2 DEF HandleRead
  <2> QED BY <1>0, <2>1, ReadMaps, Lost, Spoiled
<1>3. CASE \E s \in Ports : Arrive(s)
  BY <1>0, <1>3, ArriveMaps, Accepted
<1>4. CASE UNCHANGED <<queue, rx, lastTx>>
  BY <1>4, Stutters
<1>5. CASE /\ queue' = [s \in Ports |-> <<>>] /\ rx' = [s \in Ports |-> <<>>]
           /\ UNCHANGED lastTx
  <2>1. \A s \in Ports : queue'[Other(s)] \o rx'[s] = <<>>
    BY <1>5, OtherFacts
  <2>2. flight' = [s \in Ports |-> <<>>]
    BY <2>1 DEF flight
  <2> QED BY <1>5, <2>2, Vanished
<1> QED BY <1>1, <1>2, <1>3, <1>4, <1>5, OtherSteps

(* Whatever the documents, the networks, the failures and the restarts are, *)
(* each direction keeps its order, repeats nothing, makes nothing up and    *)
(* never forwards what carries the interface's own address.                 *)
THEOREM LossyPassThroughCorrect == Spec => LossyPassThrough
BY LossyInit, LossyStep, ForwardHolds, PTL DEF Spec, LossyPassThrough, Lossy!PTSpec

-----------------------------------------------------------------------------
(* A hub that nothing tells to break frames.                                *)

(* What has to be so for nothing to be lost: no failure and no restart, no  *)
(* document that limits, damages or drops, frames that fit the buffer, and  *)
(* addresses of the interfaces without a NUL, where strncmp stops.          *)
Harmless(c) ==
  c.drop = 0 /\ c.truncate_len = 0 /\ (c.corrupt_packets = 0 \/ c.corrupt_bytes = 0)
Faithful ==
  /\ Env \cap {"write_fails", "link_down", "restart"} = {}
  /\ \A doc \in Docs : \A c \in LoadResults(doc) : Harmless(c)
  /\ \A w \in WireFrames : w.len <= BufSize
  /\ \A s \in Ports : \A i \in 1 .. 6 : Mac[s][i] # 0

FaithfulInv ==
  /\ ForwardInv
  /\ Harmless(config)
  /\ sockErr = [s \in Ports |-> FALSE]
  /\ \A s \in Ports : \A i \in DOMAIN rx[s] : rx[s][i].len <= BufSize

(* Without a NUL in the interface's address strncmp compares all of it.     *)
LEMMA OnlyOwnIsFound ==
  ASSUME Faithful, NEW s \in Ports, NEW f \in Frame, OwnTraffic(f, s)
  PROVE  Lossy!IsOwn(f, s)
<1>1. ASSUME NEW p \in Addr, StrncmpZero(p, Mac[s])
      PROVE  p = Mac[s]
  <2> DEFINE q == Mac[s]
  <2>1. q \in Addr /\ \A i \in 1 .. 6 : q[i] # 0
    BY HubAssumption DEF Faithful
  <2> HIDE DEF q
  <2>2. \A i \in 1 .. 6 : (\A j \in 1 .. (i - 1) : p[j] = q[j] /\ p[j] # 0) => p[i] = q[i]
    BY <1>1 DEF StrncmpZero, q
  <2>3. p[1] = q[1]
    BY <2>2
  <2>4. p[2] = q[2]
    <3>1. \A j \in 1 .. (2 - 1) : p[j] = q[j] /\ p[j] # 0
      BY <2>1, <2>3
    <3> QED BY <2>2, <3>1
  <2>5. p[3] = q[3]
    <3>1. \A j \in 1 .. (3 - 1) : p[j] = q[j] /\ p[j] # 0
      BY <2>1, <2>3, <2>4
    <3> QED BY <2>2, <3>1
  <2>6. p[4] = q[4]
    <3>1. \A j \in 1 .. (4 - 1) : p[j] = q[j] /\ p[j] # 0
      BY <2>1, <2>3, <2>4, <2>5
    <3> QED BY <2>2, <3>1
  <2>7. p[5] = q[5]
    <3>1. \A j \in 1 .. (5 - 1) : p[j] = q[j] /\ p[j] # 0
      BY <2>1, <2>3, <2>4, <2>5, <2>6
    <3> QED BY <2>2, <3>1
  <2>8. p[6] = q[6]
    <3>1. \A j \in 1 .. (6 - 1) : p[j] = q[j] /\ p[j] # 0
      BY <2>1, <2>3, <2>4, <2>5, <2>6, <2>7
    <3> QED BY <2>2, <3>1
  <2>9. \A i \in 1 .. 6 : p[i] = q[i]
    BY <2>3, <2>4, <2>5, <2>6, <2>7, <2>8
  <2> QED BY <2>1, <2>9 DEF Addr, q
<1>2. f.dst \in Addr /\ f.src \in Addr
  BY DEF Frame
<1> QED BY <1>1, <1>2 DEF OwnTraffic, Lossy!IsOwn

(* No frame is too long, nothing is set to be broken, at the start.         *)
LEMMA FaithfulInit == Init => FaithfulInv
<1> SUFFICES ASSUME Init PROVE FaithfulInv
  OBVIOUS
<1>1. Harmless(config)
  BY DEF Init, Harmless, ZeroConfig
<1>2. \A s \in Ports : \A i \in DOMAIN rx[s] : rx[s][i].len <= BufSize
  <2>1. \A s \in Ports : DOMAIN rx[s] = {}
    BY DEF Init
  <2> QED BY <2>1
<1> QED BY <1>1, <1>2, ForwardInit DEF Init, FaithfulInv

(* Nothing that may happen in a faithful hub changes that.                  *)
LEMMA FaithfulNext == Faithful => (FaithfulInv /\ [Next]_vars => FaithfulInv')
<1> SUFFICES ASSUME Faithful, FaithfulInv, [Next]_vars PROVE FaithfulInv'
  OBVIOUS
<1> USE DEF vars, wire, observers
<1>0. ForwardInv' /\ TypeOK /\ TypeOK'
  BY ForwardNext DEF FaithfulInv, ForwardInv
<1>1. Harmless(config)'
  <2>1. CASE LoadConfig
    <3>1. config' = config \/ config' \in LoadResults(disk)
      BY <2>1 DEF LoadConfig
    <3>2. \A c \in LoadResults(disk) : Harmless(c)
      BY <1>0 DEF Faithful, TypeOK
    <3> QED BY <3>1, <3>2 DEF FaithfulInv, Harmless
  <2>2. CASE config' = config
    BY <2>2 DEF FaithfulInv, Harmless
  <2>3. CASE Start
    BY <2>3 DEF Start, Faithful
  <2> QED BY <2>1, <2>2, <2>3 DEF Next, Daemon, World, Setup, ClearFlag, SkipReload, Arm,
       EpollSleeps, EpollReturns, HandleWrite, WriteFrame, HandleRead, ReadFrame,
       ReadAborts, Arrive, TxDrains, LinkDown, EarlySignal, Signal, Edit, ClockTicks, Stop
<1>2. sockErr' = [s \in Ports |-> FALSE]
  <2>1. CASE sockErr' = sockErr
    BY <2>1 DEF FaithfulInv
  <2>2. CASE Start \/ \E s \in Ports : LinkDown(s)
    BY <2>2 DEF Start, LinkDown, Faithful
  <2> QED BY <2>1, <2>2 DEF Next, Daemon, World, Setup, LoadConfig, ClearFlag, SkipReload, Arm,
       EpollSleeps, EpollReturns, HandleWrite, WriteFrame, HandleRead, ReadFrame,
       ReadAborts, Arrive, TxDrains, EarlySignal, Signal, Edit, ClockTicks, Stop
<1>3. ASSUME NEW s \in Ports
      PROVE  \A i \in DOMAIN rx'[s] : rx'[s][i].len <= BufSize
  <2> DEFINE r == rx[s]
  <2>0. r \in Seq(Frame) /\ Len(r) \in Nat /\ DOMAIN r = 1 .. Len(r)
    BY <1>0, LenProperties DEF TypeOK
  <2>1. \A i \in DOMAIN r : r[i].len <= BufSize
    BY DEF FaithfulInv
  <2>2. CASE rx'[s] = r
    BY <2>1, <2>2
  <2>3. CASE HandleRead
    <3>1. rx'[s] = r \/ (r # <<>> /\ rx'[s] = Tail(r))
      BY <1>0, <2>3 DEF HandleRead, ReadFrame, TypeOK
    <3>2. ASSUME r # <<>>
          PROVE  \A i \in DOMAIN Tail(r) : Tail(r)[i].len <= BufSize
      <4> HIDE DEF r
      <4>1. /\ Tail(r) \in Seq(Frame) /\ Len(Tail(r)) = Len(r) - 1
            /\ \A i \in 1 .. Len(Tail(r)) : Tail(r)[i] = r[i + 1]
        BY <2>0, <3>2, HeadTailProperties
      <4>2. DOMAIN Tail(r) = 1 .. Len(Tail(r))
        BY <4>1, LenProperties
      <4>3. \A i \in DOMAIN Tail(r) : i + 1 \in DOMAIN r /\ Tail(r)[i] = r[i + 1]
        BY <2>0, <4>1, <4>2
      <4> QED BY <2>1, <4>3
    <3> QED BY <2>1, <3>1, <3>2
  <2>4. CASE \E t \in Ports : Arrive(t)
    <3>1. PICK t \in Ports, w \in WireFrames :
            rx' = [rx EXCEPT ![t] = Append(@,
                    [seq |-> stamp, dst |-> w.dst, src |-> w.src, len |-> w.len, bad |-> FALSE])]
      BY <2>4 DEF Arrive
    <3> DEFINE g == [seq |-> stamp, dst |-> w.dst, src |-> w.src, len |-> w.len, bad |-> FALSE]
    <3>2. g \in Frame /\ g.len <= BufSize
      BY <1>0, HubAssumption DEF TypeOK, Frame, Faithful
    <3>3. rx'[s] = r \/ rx'[s] = Append(r, g)
      BY <1>0, <3>1 DEF TypeOK
    <3> HIDE DEF g, r
    <3>4. /\ Append(r, g) \in Seq(Frame) /\ Len(Append(r, g)) = Len(r) + 1
          /\ \A i \in 1 .. Len(r) : Append(r, g)[i] = r[i]
          /\ Append(r, g)[Len(r) + 1] = g
      BY <2>0, <3>2, AppendProperties
    <3>5. DOMAIN Append(r, g) = 1 .. Len(r) + 1
      BY <3>4, LenProperties
    <3>6. ASSUME NEW i \in DOMAIN Append(r, g)
          PROVE  Append(r, g)[i].len <= BufSize
      <4>1. i = Len(r) + 1 \/ i \in 1 .. Len(r)
        BY <2>0, <3>5
      <4>2. CASE i = Len(r) + 1
        BY <3>2, <3>4, <4>2
      <4>3. CASE i \in 1 .. Len(r)
        BY <2>0, <2>1, <3>4, <4>3
      <4> QED BY <4>1, <4>2, <4>3
    <3> QED BY <2>1, <3>3, <3>6
  <2>5. CASE Start
    BY <2>5 DEF Start, Faithful
  <2> QED BY <2>2, <2>3, <2>4, <2>5, OtherSteps DEF HandleWrite, WriteFrame
<1> QED BY <1>0, <1>1, <1>2, <1>3 DEF FaithfulInv

(* Nothing is underway at the start.                                        *)
LEMMA LosslessInit == Init => Lossless!PTInit
<1> SUFFICES ASSUME Init PROVE Lossless!PTInit
  OBVIOUS
<1>1. \A s \in Ports : queue[Other(s)] \o rx[s] = <<>>
  BY OtherFacts DEF Init
<1> QED BY <1>1 DEF Init, Lossless!PTInit

(* Every step maps to a step of the lossless pass-through, or to none.      *)
LEMMA LosslessStep ==
  Faithful => (FaithfulInv /\ [Next]_vars => [Lossless!PTNext]_(Lossless!ptvars))
<1> SUFFICES ASSUME Faithful, FaithfulInv, [Next]_vars
             PROVE  Lossless!PTNext \/ UNCHANGED Lossless!ptvars
  OBVIOUS
<1>0. ForwardInv /\ TypeOK
  BY DEF FaithfulInv, ForwardInv
<1>1. CASE HandleWrite
  <2>1. PICK e \in events, ok \in BOOLEAN : WriteFrame(e, ok)
    BY <1>1 DEF HandleWrite
  <2>2. ok
    BY <1>0, <2>1 DEF WriteFrame, FaithfulInv, Faithful, TypeOK
  <2> QED BY <1>0, <2>1, <2>2, WriteMaps, Delivered
<1>2. CASE HandleRead
  <2>1. PICK e \in events, dropped \in Drops, corrupted \in Corrupts :
          ReadFrame(e, dropped, corrupted)
    BY <1>2 DEF HandleRead
  <2>2. ~dropped /\ ~corrupted
    BY DEF Drops, Corrupts, FaithfulInv, Harmless
  <2> DEFINE s == e.sock
             f == Head(rx[s])
             i == Len(queue[Other(s)]) + 1
  <2>3. /\ s \in Ports /\ i \in DOMAIN flight[s] /\ flight[s][i] = f /\ f \in Frame
        /\ UNCHANGED lastTx
        /\ \/ /\ OwnTraffic(f, s) \/ dropped \/ corrupted
              /\ Removes(s, i)
           \/ \E g \in Frame :
                /\ Replaces(s, i, g)
                /\ g.seq = f.seq /\ g.len <= f.len
                /\ ~corrupted => g = Truncated(Received(f))
    BY <1>0, <2>1, ReadMaps
  <2>4. CASE /\ OwnTraffic(f, s) \/ dropped \/ corrupted
             /\ Removes(s, i)
    <3>1. Lossy!IsOwn(flight[s][i], s)
      BY <2>2, <2>3, <2>4, OnlyOwnIsFound
    <3> QED BY <2>3, <2>4, <3>1, Lost
  <2>5. CASE Replaces(s, i, Truncated(Received(f)))
    <3>1. Truncated(Received(f)) = f
      <4>1. rx[s] # <<>> /\ rx[s] \in Seq(Frame)
        BY <1>0, <2>1 DEF ReadFrame, TypeOK
      <4>2. 1 \in DOMAIN rx[s] /\ rx[s][1] = f
        BY <4>1, EmptySeq, LenProperties
      <4>3. f.len <= BufSize
        BY <2>3, <4>2 DEF FaithfulInv
      <4>4. f.len \in Nat /\ BufSize \in Nat
        BY <2>3, HubAssumption DEF Frame
      <4>5. Received(f) = f
        BY <4>3, <4>4 DEF Received
      <4> QED BY <4>5 DEF Truncated, FaithfulInv, Harmless
    <3>2. flight' = flight
      <4>1. flight \in [Ports -> Seq(Frame)]
        BY <1>0, FlightType
      <4>2. [flight[s] EXCEPT ![i] = f] = flight[s]
        BY <2>3, <4>1
      <4> QED BY <2>3, <2>5, <3>1, <4>1, <4>2 DEF Replaces
    <3> QED BY <2>3, <3>2 DEF Lossless!ptvars, flight
  <2> QED BY <2>2, <2>3, <2>4, <2>5
<1>3. CASE \E s \in Ports : Arrive(s)
  BY <1>0, <1>3, ArriveMaps, Accepted
<1>4. CASE UNCHANGED <<queue, rx, lastTx>>
  BY <1>4, Stutters
<1>5. CASE Start
  BY <1>5 DEF Start, Faithful
<1> QED BY <1>1, <1>2, <1>3, <1>4, <1>5, OtherSteps

(* A hub that nothing tells to break frames delivers each of them once, in  *)
(* order, unchanged, and loses none but the interfaces' own: however the    *)
(* networks send, the drivers fill up, the clock goes and signals come.     *)
THEOREM PassesThroughCorrect == Faithful => (Spec => PassesThrough)
<1> SUFFICES ASSUME Faithful PROVE Spec => PassesThrough
  OBVIOUS
<1>1. FaithfulInv /\ [Next]_vars => FaithfulInv'
  BY FaithfulNext
<1>2. FaithfulInv /\ [Next]_vars => [Lossless!PTNext]_(Lossless!ptvars)
  BY LosslessStep
<1> QED BY <1>1, <1>2, FaithfulInit, LosslessInit, PTL DEF Spec, PassesThrough, Lossless!PTSpec
=============================================================================
