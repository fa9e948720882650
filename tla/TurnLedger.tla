------------------------------ MODULE TurnLedger ------------------------------
(***************************************************************************)
(* What the canvas promises of its durable state: Turns are only added,     *)
(* never before their parent, and each durable Turn enters the presentation *)
(* at most once, one Turn per commit, and never leaves it.  Crashes,        *)
(* failures and recovery are invisible at this level.                       *)
(***************************************************************************)
CONSTANTS Turns, Parent, None

VARIABLES turns, presented

Init == turns = {} /\ presented = {}

Add(t) ==
  /\ t \notin turns
  /\ Parent[t] \in turns \cup {None}
  /\ turns' = turns \cup {t}
  /\ UNCHANGED presented

Present(t) ==
  /\ t \in turns \ presented
  /\ presented' = presented \cup {t}
  /\ UNCHANGED turns

Next == \E t \in Turns : Add(t) \/ Present(t)

Spec == Init /\ [][Next]_<<turns, presented>>

=============================================================================
