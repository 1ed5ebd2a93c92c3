------------------------------ MODULE TunnelSlot ------------------------------
(***************************************************************************)
(* What SessionRegistry promises to the callers of Get, with no handlers,  *)
(* locks or certificates: one slot, last writer wins, and a session is     *)
(* offered the slot at most once.                                          *)
(***************************************************************************)
CONSTANTS Sessions, NoSess

VARIABLES slot,    \* the live tunnel, or NoSess
          spent    \* sessions that have had their turn

slotVars == <<slot, spent>>

SlotInit == slot = NoSess /\ spent = {}

\* A session takes its turn; it may already be dead when it does.
Install(s) ==
  /\ s \notin spent
  /\ spent' = spent \cup {s}
  /\ slot' \in {s, NoSess}

\* A session never gets as far as the slot.
Refuse(s) ==
  /\ s \notin spent
  /\ spent' = spent \cup {s}
  /\ UNCHANGED slot

Lose ==
  /\ slot' = NoSess
  /\ UNCHANGED spent

SlotNext == Lose \/ \E s \in Sessions : Install(s) \/ Refuse(s)

Spec == SlotInit /\ [][SlotNext]_slotVars
=============================================================================
