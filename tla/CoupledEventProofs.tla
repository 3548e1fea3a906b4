------------------------- MODULE CoupledEventProofs -------------------------
(***************************************************************************)
(* The coupled event: what holds of every search of the event, whatever    *)
(* contacts it is seeded with, and what holds of the event's answer.       *)
(***************************************************************************)
EXTENDS CoupledEvent, SupportSearchProofs

(* An accepted search still holds the frame and the result of its last     *)
(* solve, and they are those of the state it hands back.                   *)
AcceptedIsAsSolved ==
  phase = "accepted" =>
    /\ result \in KernelResults(activeState)
    /\ frozen \subseteq ActiveIn(activeState)
    /\ \A s \in Supports :
         LET row == FrameRow(activeState[s])
         IN  /\ row.active = frame[s].active
             /\ row.sticking = frame[s].sticking
             /\ row.prescribed = frame[s].prescribed

(* Everything proved of a search from its own initial states: the seeds of *)
(* the later rounds carry a vertical reaction and are not among them.      *)
SearchInv ==
  TypeInv /\ FrozenAreInContact /\ FreezeInv /\ LiftedHoldsNothing
  /\ AcceptedIsComplementary /\ AcceptedIsAsSolved

(* A running event is in one of its rounds, and what its port holds is the *)
(* solve the search is judging or has accepted.                            *)
RoundInv ==
  outcome = "running" =>
    /\ coupling < IterationLimit
    /\ phase \in {"updating", "accepted"} => lastSolve = RequestId

(* The unit state of a running event holds the response of the round       *)
(* before, and the shares that every frame of this round's search carries. *)
HistoryInv ==
  outcome = "running" =>
    /\ heard = [round |-> coupling, response |-> unitState.response]
    /\ phase \in {"updating", "accepted"} => carried = unitState.shares

EventInv == SearchInv /\ EventTypeOK /\ RoundInv /\ HistoryInv
            /\ AnswerIsOneSnapshot /\ AnswerIsAFixedPoint
            /\ outcome # "RECOVERY_RESULT_NOT_CACHED"

-----------------------------------------------------------------------------
(* The searches of an event.                                               *)

LEMMA ConcludeIsAsSolved ==
  ASSUME TypeInv, FrozenAreInContact, Conclude PROVE AcceptedIsAsSolved'
<1>1. /\ frame = ComposeFrame(activeState)
      /\ result \in KernelResults(activeState)
  BY UpdatingIsSolved DEF Conclude
<1>2. frame' = frame /\ result' = result /\ frozen' = frozen /\ Violators = {}
  BY DEF Conclude
<1>3. \A s \in Supports : /\ activeState'[s].normal = activeState[s].normal
                          /\ activeState'[s].tangential = activeState[s].tangential
                          /\ activeState'[s].anchor = activeState[s].anchor
  BY <1>1, KeptKeepsContact DEF Conclude, TypeInv
<1>4. /\ ActiveIn(activeState') = ActiveIn(activeState)
      /\ StickingIn(activeState') = StickingIn(activeState)
      /\ SlippingIn(activeState') = SlippingIn(activeState)
  BY <1>3 DEF ActiveIn, StickingIn, SlippingIn
<1>5. result' \in KernelResults(activeState')
  <2>1. \A s \in StickingIn(activeState) : s \in Supports
    BY DEF StickingIn, ActiveIn
  <2> QED BY <1>1, <1>2, <1>3, <1>4, <2>1 DEF KernelResults
<1>6. frozen \subseteq ActiveIn(activeState)
  BY <1>2 DEF FrozenAreInContact, FirstViolator
<1>7. ASSUME NEW s \in Supports
      PROVE  /\ FrameRow(activeState'[s]).active = frame[s].active
             /\ FrameRow(activeState'[s]).sticking = frame[s].sticking
             /\ FrameRow(activeState'[s]).prescribed = frame[s].prescribed
  <2>1. frame[s] = FrameRow(activeState[s])
    BY <1>1 DEF ComposeFrame
  <2> QED BY <1>3, <2>1 DEF FrameRow
<1> QED BY <1>2, <1>4, <1>5, <1>6, <1>7 DEF AcceptedIsAsSolved

LEMMA AsSolvedStep ==
  TypeInv /\ FrozenAreInContact /\ AcceptedIsAsSolved /\ [Next]_vars => AcceptedIsAsSolved'
<1> SUFFICES ASSUME TypeInv, FrozenAreInContact, AcceptedIsAsSolved, [Next]_vars
             PROVE  AcceptedIsAsSolved'
  OBVIOUS
<1>1. CASE Conclude
  BY <1>1, ConcludeIsAsSolved
<1>2. CASE Solve \/ KernelFails \/ Exhaust
  BY <1>2 DEF Solve, KernelFails, Exhaust, AcceptedIsAsSolved
<1>3. CASE \E s \in Supports : Freeze(s) \/ Pivot(s)
  BY <1>3 DEF Freeze, Pivot, AcceptedIsAsSolved
<1>4. CASE UNCHANGED vars
  BY <1>4 DEF vars, AcceptedIsAsSolved, KernelResults, ActiveIn, StickingIn, SlippingIn
<1> QED
  BY <1>1, <1>2, <1>3, <1>4 DEF Next, SearchStep, Finished

LEMMA SearchInvInit == Init => SearchInv
<1>1. Init => TypeInv
  BY TypeInvInit
<1>2. Init => FrozenAreInContact /\ FreezeInv /\ AcceptedIsComplementary /\ AcceptedIsAsSolved
  BY DEF Init, FrozenAreInContact, FreezeInv, PivotIsCounted, FrozenWereCycling, NoPivot,
         AcceptedIsComplementary, AcceptedIsAsSolved
<1>3. Init => LiftedHoldsNothing
  BY DEF Init, LiftedHoldsNothing, SeedEntries
<1> QED BY <1>1, <1>2, <1>3 DEF SearchInv

LEMMA SearchInvStep == SearchInv /\ [Next]_vars => SearchInv'
BY TypeInvStep, PresenceStep, FreezeInvStep, LiftedStep, AcceptedStep, AsSolvedStep DEF SearchInv

(* A seed that is typed and holds nothing where it is lifted starts a      *)
(* search like any other.                                                  *)
LEMMA SearchStartsOver ==
  ASSUME NEW seed \in [Supports -> Entries], StartSearch(seed),
         \A s \in Supports : seed[s].normal = "LIFTED_OFF" <=> seed[s].tangential = "INACTIVE",
         \A s \in Supports : seed[s].normal = "LIFTED_OFF" => seed[s].held = 0
  PROVE  SearchInv'
<1> USE DEF StartSearch
<1>1. TypeInv'
  <2>1. round' \in 0 .. IterationLimit
    BY SearchAssumption
  <2> QED BY <2>1 DEF TypeInv, TypeOK, FrameIsCurrent, Zeros, Pivots
<1>2. /\ FrozenAreInContact' /\ FreezeInv' /\ AcceptedIsComplementary' /\ AcceptedIsAsSolved'
  BY DEF FrozenAreInContact, FreezeInv, PivotIsCounted, FrozenWereCycling, NoPivot,
         AcceptedIsComplementary, AcceptedIsAsSolved
<1>3. LiftedHoldsNothing'
  BY DEF LiftedHoldsNothing
<1> QED BY <1>1, <1>2, <1>3 DEF SearchInv

(* The re-stuck contacts of an accepted search are such a seed.            *)
LEMMA ReStuckIsASeed ==
  ASSUME SearchInv, phase = "accepted"
  PROVE  /\ NextSeed \in [Supports -> Entries]
         /\ \A s \in Supports : /\ NextSeed[s].normal = "LIFTED_OFF"
                                     <=> NextSeed[s].tangential = "INACTIVE"
                                /\ NextSeed[s].normal = "LIFTED_OFF" => NextSeed[s].held = 0
<1> SUFFICES ASSUME NEW s \in Supports
             PROVE  /\ Restick(s) \in Entries
                    /\ Restick(s).normal = "LIFTED_OFF" <=> Restick(s).tangential = "INACTIVE"
                    /\ Restick(s).normal = "LIFTED_OFF" => Restick(s).held = 0
  BY DEF NextSeed
<1>1. /\ activeState[s] \in Entries
      /\ activeState[s].normal = "LIFTED_OFF" <=> activeState[s].tangential = "INACTIVE"
      /\ activeState[s].normal = "LIFTED_OFF" => activeState[s].held = 0
  BY DEF SearchInv, TypeInv, TypeOK, LiftedHoldsNothing
<1>2. result.place[s] \in Places
  BY MeasuresTyped DEF SearchInv, AcceptedIsAsSolved, TypeInv
<1>3. CASE s \in SlippingIn(activeState)
  <2>1. activeState[s].normal = "ACTIVE"
    BY <1>3 DEF SlippingIn, ActiveIn
  <2> QED BY <1>1, <1>2, <1>3, <2>1 DEF Restick, Entries
<1>4. CASE s \notin SlippingIn(activeState)
  BY <1>1, <1>4 DEF Restick
<1> QED BY <1>3, <1>4

-----------------------------------------------------------------------------
(* The steps of an event.                                                  *)

LEMMA SearchRoundStep == ASSUME EventInv, SearchRound PROVE EventInv'
<1>1. SearchInv'
  BY SearchInvStep DEF EventInv, SearchRound, Next
<1>2. /\ outcome = "running" /\ outcome' = "running" /\ coupling < IterationLimit
      /\ UNCHANGED << coupling, unitState, answer >>
      /\ lastSolve' = IF phase' = "updating" THEN RequestId ELSE lastSolve
      /\ carried' = IF phase' = "updating" THEN unitState.shares ELSE carried
      /\ heard' = heard
  BY DEF EventInv, RoundInv, SearchRound
<1>3. phase' = "updating" => round' = round
  BY DEF SearchRound, SearchStep, Solve, KernelFails, Freeze, Pivot, Conclude, Exhaust, Refusals
<1>4. phase' = "accepted" => phase = "updating" /\ round' = round
  BY DEF SearchRound, SearchStep, Solve, KernelFails, Freeze, Pivot, Conclude, Exhaust, Refusals
<1>5. RoundInv'
  BY <1>2, <1>3, <1>4 DEF EventInv, RoundInv, RequestId
<1>6. EventTypeOK'
  <2>1. coupling \in 0 .. IterationLimit /\ round \in 0 .. IterationLimit
    BY DEF EventInv, EventTypeOK, SearchInv, TypeInv, TypeOK
  <2> QED BY <1>2, <2>1 DEF EventInv, EventTypeOK, RequestId
<1>7. HistoryInv'
  BY <1>2, <1>4 DEF EventInv, HistoryInv
<1> QED BY <1>1, <1>2, <1>5, <1>6, <1>7 DEF EventInv, AnswerIsOneSnapshot, AnswerIsAFixedPoint

LEMMA RefusalStep ==
  ASSUME EventInv, PartitionFails \/ SearchFails \/ AdvanceFails PROVE EventInv'
<1>1. /\ UNCHANGED << vars, coupling, unitState, lastSolve, answer, carried, heard >>
      /\ outcome' \in Refusals \cup {"PARTITION_REFUSED", "ADVANCE_REFUSED"}
  BY DEF PartitionFails, SearchFails, AdvanceFails
<1>2. SearchInv'
  BY <1>1, SearchInvStep DEF EventInv
<1>3. EventTypeOK'
  BY <1>1 DEF EventInv, EventTypeOK
<1> QED
  BY <1>1, <1>2, <1>3
     DEF EventInv, RoundInv, HistoryInv, AnswerIsOneSnapshot, AnswerIsAFixedPoint, Refusals

LEMMA ContinueStep ==
  ASSUME EventInv, outcome = "running", phase = "accepted",
         NEW next \in [response : Responses, shares : LoadShares], ContinueCoupling(next)
  PROVE  EventInv'
<1>1. /\ unitState' = next /\ coupling' = coupling + 1
      /\ heard' = [round |-> coupling + 1, response |-> next.response]
      /\ UNCHANGED << lastSolve, answer, carried >>
      /\ coupling \in 0 .. IterationLimit /\ coupling < IterationLimit
      /\ IterationLimit \in Nat
  BY SearchAssumption DEF ContinueCoupling, Hear, EventInv, EventTypeOK, RoundInv
<1>2. CASE coupling + 1 < IterationLimit
  <2>1. StartSearch(NextSeed) /\ outcome' = outcome
    BY <1>2 DEF ContinueCoupling
  <2>2. SearchInv'
    BY <2>1, ReStuckIsASeed, SearchStartsOver DEF EventInv
  <2>3. EventTypeOK'
    BY <1>1, <1>2, <2>1 DEF EventInv, EventTypeOK
  <2>4. RoundInv'
    BY <1>1, <1>2, <2>1 DEF RoundInv, StartSearch
  <2>5. HistoryInv'
    BY <1>1, <2>1 DEF HistoryInv, StartSearch
  <2> QED
    BY <2>1, <2>2, <2>3, <2>4, <2>5 DEF EventInv, AnswerIsOneSnapshot, AnswerIsAFixedPoint
<1>3. CASE ~(coupling + 1 < IterationLimit)
  <2>1. outcome' = "NON_CONVERGED" /\ UNCHANGED vars
    BY <1>3 DEF ContinueCoupling
  <2>2. SearchInv'
    BY <2>1, SearchInvStep DEF EventInv
  <2>3. EventTypeOK'
    BY <1>1, <1>3, <2>1 DEF EventInv, EventTypeOK, Refusals
  <2> QED
    BY <2>1, <2>2, <2>3
       DEF EventInv, RoundInv, HistoryInv, AnswerIsOneSnapshot, AnswerIsAFixedPoint
<1> QED BY <1>2, <1>3

(* The answer is the state, the frame and the result of the solve that was *)
(* accepted.                                                               *)
LEMMA ReturnStep ==
  ASSUME EventInv, outcome = "running", phase = "accepted",
         NEW next \in [response : Responses, shares : LoadShares], ReturnResult(next)
  PROVE  EventInv'
<1>1. lastSolve = RequestId
  BY DEF EventInv, RoundInv
<1>2. /\ unitState' = next
      /\ outcome' \in {"converged", "RECOVERY_REFUSED"}
      /\ outcome' = "converged" => answer' = Snapshot(activeState, next)
      /\ UNCHANGED << vars, coupling, lastSolve, carried, heard >>
      /\ Converged(unitState, next)
  BY <1>1 DEF ReturnResult
<1>3. SearchInv'
  BY <1>2, SearchInvStep DEF EventInv
<1>4. EventTypeOK'
  BY <1>2 DEF EventInv, EventTypeOK
<1>5. AnswerIsOneSnapshot'
  <2> SUFFICES ASSUME outcome' = "converged" PROVE AnswerIsOneSnapshot'
    BY DEF AnswerIsOneSnapshot
  <2>1. answer' = Snapshot(activeState, next)
    BY <1>2
  <2>2. /\ answer'.supports = activeState /\ answer'.frame = frame
        /\ answer'.result = result /\ answer'.bistable = frozen
        /\ answer'.unit = next /\ answer'.response = next.response
    BY <2>1 DEF Snapshot
  <2>3. /\ result \in KernelResults(activeState) /\ frozen \subseteq ActiveIn(activeState)
        /\ \A s \in Supports :
              /\ FrameRow(activeState[s]).active = frame[s].active
              /\ FrameRow(activeState[s]).sticking = frame[s].sticking
              /\ FrameRow(activeState[s]).prescribed = frame[s].prescribed
    BY DEF EventInv, SearchInv, AcceptedIsAsSolved
  <2>4. DOMAIN result.reaction = ActiveIn(activeState)
    BY <2>3 DEF KernelResults, ResultsOver
  <2> QED BY <2>2, <2>3, <2>4 DEF AnswerIsOneSnapshot, ActiveIn
<1>6. AnswerIsAFixedPoint'
  <2> SUFFICES ASSUME outcome' = "converged" PROVE AnswerIsAFixedPoint'
    BY DEF AnswerIsAFixedPoint
  <2>1. /\ answer'.unit = next /\ answer'.response = next.response
        /\ answer'.rounds = coupling + 1
    BY <1>2 DEF Snapshot
  <2>2. /\ heard' = [round |-> coupling, response |-> unitState.response]
        /\ carried' = unitState.shares
    BY <1>2 DEF EventInv, HistoryInv
  <2>3. coupling \in Int
    BY SearchAssumption DEF EventInv, EventTypeOK
  <2>4. /\ unitState.response # NoResponse
        /\ Distance(next.response, unitState.response) <= ResponseTol
        /\ Distance(next.shares, unitState.shares) <= ShareTol
    BY <1>2 DEF Converged
  <2>5. /\ answer'.unit.shares = next.shares /\ answer'.rounds - 1 = coupling
        /\ heard'.round = coupling /\ heard'.response = unitState.response
    BY <2>1, <2>2, <2>3
  <2> QED BY <2>1, <2>2, <2>4, <2>5 DEF AnswerIsAFixedPoint, Distance
<1> QED BY <1>2, <1>3, <1>4, <1>5, <1>6 DEF EventInv, RoundInv, HistoryInv

LEMMA EventStepKeeps == EventInv /\ [EventNext]_allVars => EventInv'
<1> SUFFICES ASSUME EventInv, [EventNext]_allVars PROVE EventInv'
  OBVIOUS
<1>1. CASE UNCHANGED allVars
  <2>1. UNCHANGED << vars, coupling, unitState, lastSolve, outcome, answer, carried, heard >>
    BY <1>1 DEF allVars, eventVars
  <2>2. SearchInv'
    BY <2>1, SearchInvStep DEF EventInv
  <2>3. RoundInv' /\ HistoryInv'
    BY <2>1 DEF EventInv, RoundInv, HistoryInv, RequestId, vars
  <2> QED
    BY <2>1, <2>2, <2>3 DEF EventInv, EventTypeOK, AnswerIsOneSnapshot, AnswerIsAFixedPoint
<1>2. CASE Couple
  BY <1>2, ContinueStep, ReturnStep DEF Couple
<1> QED
  BY <1>1, <1>2, SearchRoundStep, RefusalStep DEF EventNext, EventStep, EventFinished

LEMMA EventInductive == EventSpec => []EventInv
<1>1. ASSUME EventInit PROVE EventInv
  <2>1. SearchInv
    BY <1>1, SearchInvInit DEF EventInit
  <2>2. EventTypeOK
    BY <1>1, SearchAssumption DEF EventInit, EventTypeOK
  <2>3. RoundInv /\ HistoryInv
    BY <1>1, SearchAssumption DEF EventInit, Init, RoundInv, HistoryInv
  <2>4. AnswerIsOneSnapshot /\ AnswerIsAFixedPoint
    BY <1>1 DEF EventInit, AnswerIsOneSnapshot, AnswerIsAFixedPoint
  <2> QED BY <1>1, <2>1, <2>2, <2>3, <2>4 DEF EventInv, EventInit
<1> QED BY <1>1, EventStepKeeps, PTL DEF EventSpec

-----------------------------------------------------------------------------
(* Type correctness of the event.                                          *)
THEOREM EventTypeCorrect == EventSpec => []EventTypeOK
<1>1. EventInv => EventTypeOK
  BY DEF EventInv
<1> QED BY <1>1, EventInductive, PTL

(* Every search of an event, from the compiled contacts or re-stuck ones,  *)
(* is accepted only on a solution of its contact problem.                  *)
THEOREM EverySearchIsSound == EventSpec => []AcceptedIsComplementary
<1>1. EventInv => AcceptedIsComplementary
  BY DEF EventInv, SearchInv
<1> QED BY <1>1, EventInductive, PTL

(* Nor does any search of an event misstep: only quiet cycles freeze, no   *)
(* solve is repeated, and a contact grips where it stands.                 *)
THEOREM EverySearchIsWellBehaved ==
  EventSpec => OnlyQuietCyclesFreeze /\ NoSolveIsRepeated /\ GripsWhereItStands
<1>1. [EventNext]_allVars => [Next]_vars \/ (phase = "accepted" /\ StartSearch(NextSeed))
  BY DEF EventNext, EventStep, SearchRound, PartitionFails, SearchFails, AdvanceFails, Couple,
         ContinueCoupling, ReturnResult, EventFinished, Next, allVars
<1>2. ASSUME EventInv, Next
      PROVE  [FreezeIsQuietStep]_vars /\ [FrameChangesOrFreezes]_vars /\ [GripsAfter]_vars
  BY <1>2, FreezeIsQuietRound, RoundMoves, GripsStep DEF EventInv, SearchInv, GripsAfter
<1>3. ASSUME phase = "accepted", StartSearch(NextSeed)
      PROVE  FreezeIsQuietStep /\ FrameChangesOrFreezes /\ GripsAfter
  BY <1>3 DEF StartSearch, FreezeIsQuietStep, FrameChangesOrFreezes, GripsAfter
<1>4. EventInv /\ [EventNext]_allVars
        => [FreezeIsQuietStep]_vars /\ [FrameChangesOrFreezes]_vars /\ [GripsAfter]_vars
  BY <1>1, <1>2, <1>3
<1> QED
  BY <1>4, EventInductive, PTL
     DEF EventSpec, OnlyQuietCyclesFreeze, NoSolveIsRepeated, GripsWhereItStands, GripsAfter

(* The port always still holds the solve the event recovers.               *)
THEOREM RecoveryFindsItsSolve == EventSpec => []RecoveryIsCached
<1>1. EventInv => RecoveryIsCached
  BY DEF EventInv, RoundInv, RecoveryIsCached
<1> QED BY <1>1, EventInductive, PTL

(* A converged event answers with one consistent snapshot of one solve.    *)
THEOREM AnswerIsConsistent == EventSpec => []AnswerIsOneSnapshot
<1>1. EventInv => AnswerIsOneSnapshot
  BY DEF EventInv
<1> QED BY <1>1, EventInductive, PTL

(* What an event answers is a fixed point of the coupling: its frame was   *)
(* solved under the load its unit state puts on the pallet, and the solve  *)
(* of the round before had given the same response, within the tolerances. *)
THEOREM AnswersAreFixedPoints == EventSpec => []AnswerIsAFixedPoint
<1>1. EventInv => AnswerIsAFixedPoint
  BY DEF EventInv
<1> QED BY <1>1, EventInductive, PTL
=============================================================================
