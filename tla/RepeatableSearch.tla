-------------------------- MODULE RepeatableSearch -------------------------
(***************************************************************************)
(* The support search with a kernel that is a function of the frame: a     *)
(* frame that comes back after other pivots gets the answer it had before. *)
(* SupportSearch lets such a frame be answered anew, which is safe for     *)
(* what must hold and too generous for what can be violated; the searches  *)
(* that contradict a comment of the source are looked for here.            *)
(***************************************************************************)
EXTENDS SupportSearch

VARIABLE answers  (* the frames solved so far in this search, each with its answer *)

InitRepeatable == Init /\ answers = {}

(* solve_static_active_state_detailed is deterministic in the frame.       *)
Remember ==
  IF phase = "solving" /\ phase' = "updating"
    THEN /\ \A known \in answers : known.frame = frame' => known.result = result'
         /\ answers' = answers \cup {[frame |-> frame', result |-> result']}
    ELSE UNCHANGED answers

NextRepeatable ==
  \/ SearchStep /\ Remember
  \/ Finished /\ UNCHANGED answers

SpecRepeatable == InitRepeatable /\ [][NextRepeatable]_<< vars, answers >>
=============================================================================
