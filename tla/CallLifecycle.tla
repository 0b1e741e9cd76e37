--------------------------- MODULE CallLifecycle ----------------------------
(***************************************************************************)
(* What the connector promises about a call, whatever the order of events: *)
(* it is set up, perhaps answered, and cleared; a call that is being       *)
(* cleared is never set up or answered again, and an answered call never   *)
(* goes back to set-up.  A lost MNCC connection moves many calls at once.  *)
(***************************************************************************)
CONSTANT CallId

VARIABLE phase

PhaseSet == {"idle", "setup", "answered", "clearing"}

Succ == [idle     |-> {"idle", "setup", "clearing"},
         setup    |-> {"setup", "answered", "clearing", "idle"},
         answered |-> {"answered", "clearing", "idle"},
         clearing |-> {"clearing", "idle"}]

Init == phase = [c \in CallId |-> "idle"]

Next == /\ phase' \in [CallId -> PhaseSet]
        /\ \A c \in CallId : phase'[c] \in Succ[phase[c]]

Spec == Init /\ [][Next]_phase
=============================================================================
