---------------------------- MODULE Entitlement ----------------------------
(***************************************************************************)
(* What a shop promises about the things it sells, without its handlers:   *)
(* an order is paid only once it has been earned, being paid and being     *)
(* honoured are one event, and what was given is never taken back.         *)
(***************************************************************************)
CONSTANTS Orders,     \* order ids
          Things,     \* what an order can be for
          Seats,      \* the things that are access to something
          FreeSeats   \* what is given without an order

VARIABLES
  phase,     \* of each order: "none", "unpaid" or "paid"
  seat,      \* what each order is for
  earned,    \* orders that cost nothing or whose money has been taken
  honoured,  \* orders that have been paid at some time
  access     \* the seats given

vars == <<phase, seat, earned, honoured, access>>

Init ==
  /\ phase = [o \in Orders |-> "none"]
  /\ seat \in [Orders -> Things]
  /\ earned = {}
  /\ honoured = {}
  /\ access = {}

\* What paying an order o for the thing t gives.
Honour(o, t) ==
  /\ honoured' = honoured \cup {o}
  /\ access' = access \cup ({t} \cap Seats)

Place(o, t) ==
  /\ phase[o] = "none"
  /\ seat' = [seat EXCEPT ![o] = t]
  /\ earned' \in {earned, earned \cup {o}}
  /\ \/ /\ phase' = [phase EXCEPT ![o] = "unpaid"]
        /\ UNCHANGED <<honoured, access>>
     \/ /\ phase' = [phase EXCEPT ![o] = "paid"]
        /\ o \in earned'
        /\ Honour(o, t)

TakeMoney(o) ==
  /\ phase[o] # "none"
  /\ earned' = earned \cup {o}
  /\ UNCHANGED <<phase, seat, honoured, access>>

Pay(o) ==
  /\ phase[o] # "none"
  /\ o \in earned
  /\ phase' = [phase EXCEPT ![o] = "paid"]
  /\ Honour(o, seat[o])
  /\ UNCHANGED <<seat, earned>>

\* A refund, a cancellation, a report that comes late.
Lapse(o) ==
  /\ phase[o] = "paid"
  /\ phase' = [phase EXCEPT ![o] = "unpaid"]
  /\ UNCHANGED <<seat, earned, honoured, access>>

GiveFree(s) ==
  /\ s \in FreeSeats
  /\ access' = access \cup {s}
  /\ UNCHANGED <<phase, seat, earned, honoured>>

Next ==
  \/ \E o \in Orders : \/ \E t \in Things : Place(o, t)
                      \/ TakeMoney(o) \/ Pay(o) \/ Lapse(o)
  \/ \E s \in FreeSeats : GiveFree(s)

Spec == Init /\ [][Next]_vars
=============================================================================
