------------------------------ MODULE EpochChain ------------------------------
(***************************************************************************)
(* What one subject's participants are promised of its epochs, without     *)
(* rows, log and requests: one epoch runs at a time, over the window it    *)
(* advertised; a boundary ends it once, into one later epoch or into none; *)
(* and whoever asks about a boundary again hears what happened.            *)
(***************************************************************************)
EXTENDS Integers

CONSTANTS Session, None

VARIABLES
  closes,    \* per epoch ever opened, the close it advertises
  current,   \* the epoch that runs, or None
  told,      \* the boundaries announced, as <<ended, begun>>
  answered   \* the boundaries callers were told of

vars == <<closes, current, told, answered>>

Opened == DOMAIN closes

(* Epochs from before the record began have ended.                         *)
Init ==
  /\ \E S \in SUBSET Session : closes \in [S -> Int]
  /\ current = None /\ told = {} /\ answered = {}

(* One new epoch; what others advertised stays.                            *)
Begin(t) ==
  /\ current' = t /\ t \notin Opened
  /\ DOMAIN closes' = Opened \cup {t}
  /\ \A s \in Opened : closes'[s] = closes[s]

End(t) ==
  /\ current # None
  /\ answered' = answered \cup {<<current, t>>}
  /\ told' = told \cup {<<current, t>>}

Open(t) == current = None /\ Begin(t) /\ UNCHANGED <<told, answered>>
Roll(t) == Begin(t) /\ End(t) /\ closes'[t] > closes[current]
Stop    == current' = None /\ End(None) /\ UNCHANGED closes

Repeat(b) ==
  /\ b \in told /\ answered' = answered \cup {b}
  /\ UNCHANGED <<closes, current, told>>

Next ==
  \/ \E t \in Session : Open(t) \/ Roll(t)
  \/ Stop
  \/ \E b \in told : Repeat(b)

Spec == Init /\ [][Next]_vars
===============================================================================
