---------------------------- MODULE CoupledEvent ----------------------------
(***************************************************************************)
(* One load event: the coupled loop of solve_coupled_event (crates/        *)
(* stabileo-pallet/src/coupled.rs) around the support search.  A round     *)
(* partitions the load, searches the supports, advances the load on the    *)
(* deck's response and compares that response and the new shares with the  *)
(* round before.  Contacts carry over to the next round's search, re-stuck *)
(* where they stand; the round that converges is recovered and returned    *)
(* exactly as it was solved.                                               *)
(*                                                                         *)
(* The pallet's top response and the load shares are integers compared     *)
(* within a tolerance; what the rigid body does with a response is any     *)
(* share value (advance_unit_load_partition has a model of its own in the  *)
(* plan).  Search and coupling share one limit, as in the profile.         *)
(***************************************************************************)
EXTENDS SupportSearch

CONSTANTS
  Responses,     (* pallet top responses                                   *)
  LoadShares,    (* base load share vectors                                *)
  ResponseTol,   (* coupled_translation/rotation tolerance                 *)
  ShareTol,      (* coupled_load_share_tolerance                           *)
  NoResponse     (* a unit state no event has moved yet                    *)

ASSUME CouplingAssumption ==
  /\ Responses \subseteq Nat /\ LoadShares \subseteq Nat
  /\ ResponseTol \in Nat /\ ShareTol \in Nat
  /\ NoResponse \notin Responses

VARIABLES
  coupling,   (* coupling_iteration                                        *)
  unitState,  (* state: response of the round before and current shares    *)
  lastSolve,  (* request id of the solve NativeKernelPort holds in `last`  *)
  outcome,    (* "running", "converged" or the error that ended the event  *)
  answer,     (* CoupledEventResult                                        *)
  carried,    (* history: the shares the frame of lastSolve was loaded with *)
  heard       (* history: the round before and the response its solve gave; *)
              (* round 0 is whatever the unit state came with              *)

eventVars == << coupling, unitState, lastSolve, outcome, answer, carried, heard >>
allVars   == << vars, eventVars >>

NoAnswer == << >>
NoSolve  == << >>

Distance(m, n) == IF m > n THEN m - n ELSE n - m

EventInit ==
  /\ Init
  /\ coupling = 0
  /\ unitState \in [response : Responses \cup {NoResponse}, shares : LoadShares]
  /\ lastSolve = NoSolve
  /\ outcome = "running"
  /\ answer = NoAnswer
  /\ carried = unitState.shares
  /\ heard = [round |-> 0, response |-> unitState.response]

-----------------------------------------------------------------------------
(* NativeKernelPort: solving replaces the result held for recovery, and    *)
(* only that result can be recovered.  The model's Solve reuses the answer *)
(* to a frame solved again; the port is called all the same.               *)
RequestId == << coupling, round >>

(* A mutation: the port answers a frame solved again from its own memory.  *)
SearchRoundMemoized ==
  /\ outcome = "running"
  /\ SearchStep
  /\ lastSolve' = IF phase' = "updating" /\ frame' # frame THEN RequestId ELSE lastSolve
  /\ carried' = IF phase' = "updating" THEN unitState.shares ELSE carried
  /\ UNCHANGED << coupling, unitState, outcome, answer, heard >>

SearchRound ==
  /\ outcome = "running"
  /\ SearchStep
  /\ lastSolve' = IF phase' = "updating" THEN RequestId ELSE lastSolve
  /\ carried' = IF phase' = "updating" THEN unitState.shares ELSE carried
  /\ UNCHANGED << coupling, unitState, outcome, answer, heard >>

(* solve_unit_load_partition or project_package_contacts refuses before    *)
(* the first frame of the round is composed.                               *)
PartitionFails ==
  /\ outcome = "running"
  /\ phase = "solving" /\ round = 0
  /\ outcome' = "PARTITION_REFUSED"
  /\ UNCHANGED << vars, coupling, unitState, lastSolve, answer, carried, heard >>

(* The search's error is the event's.                                      *)
SearchFails ==
  /\ outcome = "running"
  /\ phase \in Refusals
  /\ outcome' = phase
  /\ UNCHANGED << vars, coupling, unitState, lastSolve, answer, carried, heard >>

(* advance_unit_load_partition loses contact or conservation, or the two   *)
(* rounds do not cover the same interfaces and contacts.                   *)
AdvanceFails ==
  /\ outcome = "running"
  /\ phase = "accepted"
  /\ outcome' = "ADVANCE_REFUSED"
  /\ UNCHANGED << vars, coupling, unitState, lastSolve, answer, carried, heard >>

(* A mutation: no response to compare with reads as no difference.         *)
ConvergedWithoutHistory(previous, next) ==
  \/ previous.response = NoResponse
  \/ /\ Distance(next.response, previous.response) <= ResponseTol
     /\ Distance(next.shares, previous.shares) <= ShareTol

(* evaluate_coupling_convergence: residuals within their tolerances, and a *)
(* first response is never converged.                                      *)
Converged(previous, next) ==
  /\ previous.response # NoResponse
  /\ Distance(next.response, previous.response) <= ResponseTol
  /\ Distance(next.shares, previous.shares) <= ShareTol

(* restick_converged_pallet_support_state: every surviving sliding contact *)
(* grips where the converged solve left it; lift-offs are untouched.       *)
Restick(s) ==
  IF s \in SlippingIn(activeState)
    THEN [activeState[s] EXCEPT !.tangential = "STICK",
                                !.anchor = result.place[s],
                                !.held = 0]
    ELSE activeState[s]

NextSeed == [s \in Supports |-> Restick(s)]

(* What this round's solve gave, for the rounds to come.                   *)
Hear(next) ==
  /\ heard' = [round |-> coupling + 1, response |-> next.response]
  /\ UNCHANGED carried

(* Mutations: the last round starts another; rounds are not counted; every *)
(* round is compared with the first response there was.                    *)
ContinueCouplingPastLimit(next) ==
  /\ ~Converged(unitState, next)
  /\ unitState' = next
  /\ coupling' = coupling + 1
  /\ IF coupling < IterationLimit
       THEN StartSearch(NextSeed) /\ UNCHANGED outcome
       ELSE outcome' = "NON_CONVERGED" /\ UNCHANGED vars
  /\ Hear(next)
  /\ UNCHANGED << lastSolve, answer >>

ContinueCouplingUncounted(next) ==
  /\ ~Converged(unitState, next)
  /\ unitState' = next
  /\ StartSearch(NextSeed)
  /\ Hear(next)
  /\ UNCHANGED << coupling, outcome, lastSolve, answer >>

ContinueCouplingFromFirst(next) ==
  /\ ~Converged(unitState, next)
  /\ unitState' = IF unitState.response = NoResponse THEN next
                   ELSE [next EXCEPT !.response = unitState.response]
  /\ coupling' = coupling + 1
  /\ IF coupling + 1 < IterationLimit
       THEN StartSearch(NextSeed) /\ UNCHANGED outcome
       ELSE outcome' = "NON_CONVERGED" /\ UNCHANGED vars
  /\ Hear(next)
  /\ UNCHANGED << lastSolve, answer >>

(* A round that has not converged: the load moves on to `next` and another *)
(* search starts from the re-stuck contacts, unless this was the last one. *)
ContinueCoupling(next) ==
  /\ ~Converged(unitState, next)
  /\ unitState' = next
  /\ coupling' = coupling + 1
  /\ IF coupling + 1 < IterationLimit
       THEN StartSearch(NextSeed) /\ UNCHANGED outcome
       ELSE outcome' = "NON_CONVERGED" /\ UNCHANGED vars
  /\ Hear(next)
  /\ UNCHANGED << lastSolve, answer >>

(* A mutation: the next search's seed leaks into the result.               *)
SnapshotOfSeed(supports, next) ==
  [supports |-> NextSeed, frame |-> frame, result |-> result, bistable |-> frozen,
   response |-> next.response, unit |-> next, rounds |-> coupling + 1]

(* CoupledEventResult of the round under way.                              *)
Snapshot(supports, next) ==
  [supports |-> supports, frame |-> frame, result |-> result, bistable |-> frozen,
   response |-> next.response, unit |-> next, rounds |-> coupling + 1]

(* The round that converges: recover on the port, then return the terminal *)
(* state of the search beside the frame, result and response of its solve. *)
ReturnResult(next) ==
  /\ Converged(unitState, next)
  /\ unitState' = next
  /\ \/ /\ lastSolve = RequestId
        /\ outcome' = "converged"
        /\ answer' = Snapshot(activeState, next)
     \/ /\ lastSolve = RequestId
        /\ outcome' = "RECOVERY_REFUSED"
        /\ UNCHANGED answer
     \/ /\ lastSolve # RequestId
        /\ outcome' = "RECOVERY_RESULT_NOT_CACHED"
        /\ UNCHANGED answer
  /\ UNCHANGED << vars, coupling, lastSolve, carried, heard >>

Couple ==
  /\ outcome = "running"
  /\ phase = "accepted"
  /\ \E next \in [response : Responses, shares : LoadShares] :
        ContinueCoupling(next) \/ ReturnResult(next)

EventStep ==
  \/ SearchRound
  \/ PartitionFails
  \/ SearchFails
  \/ AdvanceFails
  \/ Couple

EventFinished == outcome # "running" /\ UNCHANGED allVars

EventNext == EventStep \/ EventFinished

EventSpec     == EventInit /\ [][EventNext]_allVars
FairEventSpec == EventSpec /\ WF_allVars(EventStep)

-----------------------------------------------------------------------------
(* The coupled loop's variables have their types.                          *)
EventTypeOK ==
  /\ coupling \in 0 .. IterationLimit
  /\ unitState \in [response : Responses \cup {NoResponse}, shares : LoadShares]
  /\ carried \in LoadShares
  /\ heard \in [round : 0 .. IterationLimit, response : Responses \cup {NoResponse}]
  /\ lastSolve = NoSolve \/ lastSolve \in (0 .. IterationLimit) \X (0 .. IterationLimit)
  /\ outcome \in Refusals \cup
       {"running", "converged", "PARTITION_REFUSED", "ADVANCE_REFUSED",
        "RECOVERY_REFUSED", "RECOVERY_RESULT_NOT_CACHED"}

(* Recovery never meets a result the port no longer holds: whatever rounds *)
(* and freezes came before, the solve that is accepted is the last one.    *)
RecoveryIsCached ==
  /\ outcome = "running" /\ phase = "accepted" => lastSolve = RequestId
  /\ outcome # "RECOVERY_RESULT_NOT_CACHED"

(* The result is one consistent snapshot: the supports it returns are the  *)
(* ones its frame was solved with (sliding contacts still sliding, the     *)
(* re-stuck seed never leaks out), each grip at the place the solve left   *)
(* the node, and its unit state carries the response of that very solve.   *)
AnswerIsOneSnapshot ==
  outcome = "converged" =>
    /\ \A s \in Supports :
         LET row == FrameRow(answer.supports[s])
         IN  /\ row.active = answer.frame[s].active
             /\ row.sticking = answer.frame[s].sticking
             /\ row.prescribed = answer.frame[s].prescribed
    /\ DOMAIN answer.result.reaction = ActiveIn(answer.supports)
    /\ answer.bistable \subseteq ActiveIn(answer.supports)
    /\ answer.unit.response = answer.response

(* The answer is a fixed point of the coupling, to within the tolerances:  *)
(* the load its unit state puts on the pallet is the one its frame was     *)
(* solved under, and the response that moved it there is the one the solve *)
(* of the round before had given (coupled.rs: state = next).  Consecutive  *)
(* solves are compared, never an older one: what drifts or swings from     *)
(* round to round is not an answer.  A first round has no solve before it: *)
(* it is held against the response the unit state came with, and is never  *)
(* the answer where the unit state came with none.                         *)
AnswerIsAFixedPoint ==
  outcome = "converged" =>
    /\ Distance(answer.unit.shares, carried) <= ShareTol
    /\ heard.round = answer.rounds - 1
    /\ heard.response # NoResponse
    /\ Distance(answer.response, heard.response) <= ResponseTol

(* Every event returns, converged or with an error.                        *)
EventReturns == <>(outcome # "running")
=============================================================================
