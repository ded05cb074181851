----------------------------- MODULE RtpChannel -----------------------------
(***************************************************************************)
(* What the RTP path of a session promises, without threads, queues or     *)
(* memory: packets 1, 2, 3, ... are accepted in reading order; while the    *)
(* gate is open they reach the socket in that order with no gap and no      *)
(* repetition; once the gate is held (PAUSE) or closed (teardown) at most   *)
(* one more packet gets through, the one the transmitter was already       *)
(* committed to.                                                            *)
(***************************************************************************)
EXTENDS Naturals

VARIABLES
  accepted,  \* number of packets handed to the channel
  last,      \* the packet that reached the socket last, 0 before the first
  gate,      \* "open", "held" (paused) or "closed" (torn down)
  late       \* TRUE iff one more packet may still pass the shut gate

chanVars == <<accepted, last, gate, late>>

ChanTypeOK ==
  /\ accepted \in Nat
  /\ last \in Nat
  /\ gate \in {"open", "held", "closed"}
  /\ late \in BOOLEAN

ChanInit ==
  /\ accepted = 0
  /\ last = 0
  /\ gate = "open"
  /\ late = FALSE

Accept ==
  /\ accepted' = accepted + 1
  /\ UNCHANGED <<last, gate, late>>

\* The packet after the last one; a closed channel has lost its queue, so the
\* straggler of a closed gate may be any later packet.
Follows(p) ==
  /\ last < p
  /\ p <= accepted
  /\ gate # "closed" => p = last + 1

Deliver ==
  /\ gate = "open"
  /\ Follows(last')
  /\ UNCHANGED <<accepted, gate, late>>

DeliverLate ==
  /\ gate # "open"
  /\ late
  /\ Follows(last')
  /\ late' = FALSE
  /\ UNCHANGED <<accepted, gate>>

\* The straggler is dropped: its queue was discarded or its socket closed.
ForgetLate ==
  /\ gate # "open"
  /\ late' = FALSE
  /\ UNCHANGED <<accepted, last, gate>>

Hold ==
  /\ gate = "open"
  /\ gate' = "held"
  /\ late' \in BOOLEAN
  /\ UNCHANGED <<accepted, last>>

Release ==
  /\ gate = "held"
  /\ gate' = "open"
  /\ late' = FALSE
  /\ UNCHANGED <<accepted, last>>

\* The transmitter may have passed its last check of the gate already, also
\* when the gate was held and its straggler is gone.
Close ==
  /\ gate # "closed"
  /\ gate' = "closed"
  /\ late' \in BOOLEAN
  /\ UNCHANGED <<accepted, last>>

ChanNext ==
  Accept \/ Deliver \/ DeliverLate \/ ForgetLate \/ Hold \/ Release \/ Close

ChanSpec == ChanInit /\ [][ChanNext]_chanVars
=============================================================================
