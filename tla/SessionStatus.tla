---------------------------- MODULE SessionStatus ---------------------------
(***************************************************************************)
(* What a dispatch can see a session do: its status, and where one session *)
(* operation can leave it.                                                 *)
(***************************************************************************)

VARIABLES health, lostCause

Health == {"DETACHED", "ATTACHED", "SUSPECT", "LOST"}
LostCause == {"crash", "disconnect"}

StatusInit == health = "DETACHED" /\ lostCause = "none"

\* Where a session operation can leave the health: a fault doubts or loses it, a
\* re-verification trusts or loses it, and an attach (which any state allows)
\* replaces it, or fails and leaves none.
Moves == [DETACHED |-> {"DETACHED", "ATTACHED"},
          ATTACHED |-> Health,
          SUSPECT |-> Health,
          LOST |-> {"LOST", "DETACHED", "ATTACHED"}]

\* Mutant: the cause of a loss is whatever fault there was.
MoveSessionAnyCause ==
    /\ health' \in Moves[health]
    /\ lostCause' \in IF health' # "LOST" THEN {"none"}
                      ELSE LostCause \union {"timeout"}

MoveSession ==
    /\ health' \in Moves[health]
    /\ lostCause' \in IF health' # "LOST" THEN {"none"}
                      ELSE IF health = "LOST" THEN {lostCause}
                      ELSE LostCause \union {"none"}

StatusSpec == StatusInit /\ [][MoveSession]_<<health, lostCause>>
=============================================================================
