--------------------------- MODULE ActiveSetWalk ---------------------------
(***************************************************************************)
(* What the support search promises, without reactions, frames or rounds:  *)
(* a walk over active sets in which every step moves one contact.  A       *)
(* contact leaves, comes back gripping or breaks loose; a sliding contact  *)
(* grips again only after it has left; a pinned contact never leaves; and  *)
(* the walk is accepted only with every pinned contact in the set.         *)
(*                                                                         *)
(* The module doc of support_state.rs states these rules: one pivot per    *)
(* solve, slip is one-way within a search, lift-off is two-way; the freeze *)
(* (doc of solve_supported_frame, coupled.rs) adds the pin.                *)
(***************************************************************************)
CONSTANT Contacts

VARIABLES
  present,  (* contacts in the active set      *)
  sliding,  (* contacts that have broken loose *)
  pinned,   (* contacts held in the active set *)
  verdict   (* "open", "accepted" or "refused" *)

walk == << present, sliding, pinned, verdict >>

Init ==
  /\ present \in SUBSET Contacts
  /\ sliding = {}
  /\ pinned = {}
  /\ verdict = "open"

Leave(c) ==
  /\ verdict = "open"
  /\ c \in present \ pinned
  /\ present' = present \ {c}
  /\ sliding' = sliding \ {c}
  /\ UNCHANGED << pinned, verdict >>

Return(c) ==
  /\ verdict = "open"
  /\ c \in Contacts \ present
  /\ present' = present \cup {c}
  /\ UNCHANGED << sliding, pinned, verdict >>

BreakLoose(c) ==
  /\ verdict = "open"
  /\ c \in present \ sliding
  /\ sliding' = sliding \cup {c}
  /\ UNCHANGED << present, pinned, verdict >>

Pin(c) ==
  /\ verdict = "open"
  /\ c \in Contacts \ pinned
  /\ pinned' = pinned \cup {c}
  /\ UNCHANGED << present, sliding, verdict >>

Accept ==
  /\ verdict = "open"
  /\ pinned \subseteq present
  /\ verdict' = "accepted"
  /\ UNCHANGED << present, sliding, pinned >>

Refuse ==
  /\ verdict = "open"
  /\ verdict' = "refused"
  /\ UNCHANGED << present, sliding, pinned >>

Next ==
  \/ \E c \in Contacts : Leave(c) \/ Return(c) \/ BreakLoose(c) \/ Pin(c)
  \/ Accept
  \/ Refuse

Spec == Init /\ [][Next]_walk
=============================================================================
