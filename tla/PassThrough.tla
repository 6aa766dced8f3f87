---------------------------- MODULE PassThrough ----------------------------
(***************************************************************************)
(* What the init script promises: a two-port pass-through.  A frame that   *)
(* comes in at a port is in flight in that direction until it goes out at  *)
(* the other one; each direction keeps its order, invents nothing and      *)
(* sends nothing twice.  A frame of the interface itself is not forwarded. *)
(* With Broken the hub may also lose, damage and shorten frames, which is  *)
(* what it is configured to do.                                            *)
(***************************************************************************)
EXTENDS Naturals, Sequences, SequencesExt

CONSTANTS Ports, Opposite(_), Mac, Frame, Broken

VARIABLES flight,  \* flight[s]: in at s, not yet out at Opposite(s)
          out      \* out[s]: the last frame that went out at s, if any

ptvars == <<flight, out>>

PTInit == /\ flight = [s \in Ports |-> <<>>]
          /\ out = [s \in Ports |-> <<>>]

(* Here and in Spoil the new frame is read off the next state instead of    *)
(* being quantified over, since there are infinitely many frames.           *)
Accept(s) ==
  /\ flight'[s] # <<>> /\ Last(flight'[s]) \in Frame
  /\ flight' = [flight EXCEPT ![s] = Append(@, Last(flight'[s]))]
  /\ UNCHANGED out

(* A frame that carries the interface's own address, exactly. *)
IsOwn(f, s) == f.dst = Mac[s] \/ f.src = Mac[s]

Deliver(s) ==
  /\ flight[s] # <<>> /\ ~IsOwn(Head(flight[s]), s)
  /\ out' = [out EXCEPT ![Opposite(s)] = <<Head(flight[s])>>]
  /\ flight' = [flight EXCEPT ![s] = Tail(@)]

Lose(s) ==
  /\ \E i \in DOMAIN flight[s] :
       /\ Broken \/ IsOwn(flight[s][i], s)
       /\ flight' = [flight EXCEPT ![s] = RemoveAt(@, i)]
  /\ UNCHANGED out

(* Damage keeps the frame's place, shortening never makes it longer. *)
Spoil(s) ==
  /\ Broken
  /\ DOMAIN flight'[s] = DOMAIN flight[s]
  /\ \E i \in DOMAIN flight[s] :
       /\ flight'[s][i] \in Frame
       /\ flight'[s][i].seq = flight[s][i].seq
       /\ flight'[s][i].len <= flight[s][i].len
       /\ flight' = [flight EXCEPT ![s][i] = flight'[s][i]]
  /\ UNCHANGED out

(* The hub is stopped, or falls over: all that was in flight is gone. *)
Vanish ==
  /\ Broken
  /\ flight' = [s \in Ports |-> <<>>]
  /\ UNCHANGED out

PTNext == \/ \E s \in Ports : Accept(s) \/ Deliver(s) \/ Lose(s) \/ Spoil(s)
          \/ Vanish
PTSpec == PTInit /\ [][PTNext]_ptvars
=============================================================================
