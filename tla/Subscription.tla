---------------------------- MODULE Subscription ----------------------------
(***************************************************************************)
(* What a Stream promises a client, with the tracks, the lists and the     *)
(* goroutines left out: a client subscribes once, to the source of that    *)
(* moment or to nothing; it is fed by that source and no other until it is *)
(* silenced; only then does the stream forget it, for good.                *)
(***************************************************************************)
CONSTANTS Producers, Consumers, NoProducer

VARIABLES
  current,   (* the source announced last                                  *)
  phase,     (* phase[c]: how far c's subscription is                      *)
  feed       (* feed[c]: the sources that send to c                        *)

vars == <<current, phase, feed>>

Phases == {"new", "active", "silent", "over"}

Init ==
  /\ current = NoProducer
  /\ phase = [c \in Consumers |-> "new"]
  /\ feed = [c \in Consumers |-> {}]

Change(p) ==
  /\ current' = p
  /\ UNCHANGED <<phase, feed>>

Subscribe(c) ==
  /\ phase[c] = "new" /\ current # NoProducer
  /\ \E f \in {{}, {current}} : feed' = [feed EXCEPT ![c] = f]
  /\ phase' = [phase EXCEPT ![c] = "active"]
  /\ UNCHANGED current

Silence(c) ==
  /\ phase[c] = "active"
  /\ phase' = [phase EXCEPT ![c] = "silent"]
  /\ feed' = [feed EXCEPT ![c] = {}]
  /\ UNCHANGED current

Forget(c) ==
  /\ phase[c] = "silent"
  /\ phase' = [phase EXCEPT ![c] = "over"]
  /\ UNCHANGED <<current, feed>>

Next ==
  \/ \E p \in Producers : Change(p)
  \/ \E c \in Consumers : Subscribe(c) \/ Silence(c) \/ Forget(c)

Spec == Init /\ [][Next]_vars
=============================================================================
