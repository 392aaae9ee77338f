-------------------------------- MODULE OneWork --------------------------------
(***************************************************************************)
(* What checkout promises about a one-of-a-kind work, with payments,       *)
(* webhooks and sweeps left out: the work is kept for one order at a time, *)
(* is sold to the order it is kept for and to no other, and an order that  *)
(* has lost it never gets it back.                                         *)
(***************************************************************************)
CONSTANT Order

VARIABLES
  holder,    \* the order the work is kept for or sold to, as a set
  sold,      \* that order has been paid for
  past       \* orders that have had the work and lost it

workVars == <<holder, sold, past>>

WorkInit ==
  /\ holder = {}
  /\ sold = FALSE
  /\ past = {}

Keep(o) ==
  /\ holder = {}
  /\ o \notin past
  /\ holder' = {o}
  /\ UNCHANGED <<sold, past>>

Sell ==
  /\ holder # {}
  /\ sold' = TRUE
  /\ UNCHANGED <<holder, past>>

LetGo ==
  /\ holder # {}
  /\ holder' = {}
  /\ past' = past \cup holder
  /\ sold' = FALSE

WorkNext == Sell \/ LetGo \/ \E o \in Order : Keep(o)

WorkSpec == WorkInit /\ [][WorkNext]_workVars

================================================================================
