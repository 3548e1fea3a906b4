--------------------------- MODULE SupportSearch ---------------------------
(***************************************************************************)
(* The support active-state search of one coupling round:                  *)
(* solve_supported_frame (crates/stabileo-pallet/src/coupled.rs) driving   *)
(* update_pallet_support_active_state (support_state.rs).                  *)
(*                                                                         *)
(* A pallet stands on supports that may only push.  Which supports are in  *)
(* contact, and which of those grip, is found by repeated linear solves:   *)
(* each round composes a frame from the active state, asks the kernel for  *)
(* reactions and translations, and applies at most ONE change (the first   *)
(* violator in canonical order).  A contact that keeps toggling with a     *)
(* tension below the solve's own resolution is frozen in contact.          *)
(*                                                                         *)
(* Forces are small integers, the horizontal position of a support node a  *)
(* member of Places; the kernel is external and answers with any reaction  *)
(* the constants allow.                                                    *)
(***************************************************************************)
EXTENDS Integers, FiniteSets

CONSTANTS
  NumSupports,     (* supports, numbered in the state's canonical order     *)
  IterationLimit,  (* profile.coupled_iteration_limit                       *)
  ComplTol,        (* profile.complementarity_tolerance_n                   *)
  Admissible,      (* bistable_admissible_n of this frame                   *)
  Mu,              (* friction coefficient                                  *)
  Normals,         (* normal reactions the kernel may report (< 0: tension) *)
  Shears,          (* tangential reactions the kernel may report            *)
  Places           (* horizontal positions of a support's node              *)

ASSUME SearchAssumption ==
  /\ NumSupports \in Nat \ {0}
  /\ IterationLimit \in Nat \ {0}
  /\ ComplTol \in Nat
  /\ Admissible \in Nat
  /\ Mu \in Nat
  /\ Normals \subseteq Int
  /\ Shears \subseteq Nat /\ 0 \in Shears
  /\ Places \subseteq Nat /\ 0 \in Places

Supports == 1 .. NumSupports

VARIABLES
  activeState,    (* support_state.active_state                             *)
  frame,          (* support rows and friction loads of the frame solved    *)
  result,         (* the kernel's answer to that frame                      *)
  frozen,         (* keys of bistable_frozen                                *)
  disclosed,      (* values of bistable_frozen                              *)
  toggles,        (* contact_toggle_count                                   *)
  poleTension,    (* pole_tension_n                                         *)
  previousPivot,  (* previous_pivot                                         *)
  round,          (* support_iteration                                      *)
  phase           (* where the loop stands, or how it ended                 *)

vars == << activeState, frame, result, frozen, disclosed, toggles,
           poleTension, previousPivot, round, phase >>

-----------------------------------------------------------------------------
(* Values.                                                                 *)

Reasons  == {"LIFT_OFF", "CONTACT_RESTORED", "STICK_TO_SLIP"}
NoPivot  == [support |-> 0, reason |-> "NONE"]
Pivots   == [support : Supports, reason : Reasons] \cup {NoPivot}

Refusals == {"NON_CONVERGED", "KERNEL_FAILURE", "PALLET_TOP_RESPONSE",
             "PALLET_RESPONSE_IMPLAUSIBLE"}
Ended    == Refusals \cup {"accepted"}

Entries == [normal     : {"ACTIVE", "LIFTED_OFF"},
            tangential : {"STICK", "SLIP", "INACTIVE"},
            anchor     : Places,   \* tangential_displacement_m
            vertical   : Nat,      \* vertical_reaction_n
            held       : Nat]      \* |tangential_reaction_n|

Rows == [active : BOOLEAN, sticking : BOOLEAN, prescribed : Places, friction : Nat]

NoFrame  == << >>
NoResult == << >>

Positive(n)   == IF n > 0 THEN n ELSE 0
Larger(m, n)  == IF m > n THEN m ELSE n

ActiveIn(state)   == {s \in Supports : state[s].normal = "ACTIVE"}
StickingIn(state) == {s \in ActiveIn(state) : state[s].tangential = "STICK"}
SlippingIn(state) == {s \in ActiveIn(state) : state[s].tangential = "SLIP"}

-----------------------------------------------------------------------------
(* What a round hands to the kernel, and what it may answer.               *)

(* The floor's push on a slipping contact, along the direction that broke  *)
(* it; a contact that broke under no shear has no direction and no load.   *)
SlipFriction(entry) ==
  IF entry.normal = "ACTIVE" /\ entry.tangential = "SLIP" /\ entry.held > 0
    THEN Mu * entry.vertical
    ELSE 0

FrameRow(entry) ==
  LET active   == entry.normal = "ACTIVE"
      sticking == active /\ entry.tangential = "STICK"
  IN  [active     |-> active,
       sticking   |-> sticking,
       prescribed |-> IF sticking THEN entry.anchor ELSE 0,
       friction   |-> SlipFriction(entry)]

ComposeFrame(state) == [s \in Supports |-> FrameRow(state[s])]

ResultsOver(active) ==
  [reaction : [active -> [normal : Normals, shear : Shears]],
   place    : [Supports -> Places],
   sunk     : SUBSET (Supports \ active)]

(* Reactions are reported for exactly the active supports; a gripping node *)
(* stays where it is prescribed, a released one goes anywhere and reports  *)
(* no shear; a lifted node may have sunk below its floor by more than the  *)
(* length tolerance.                                                       *)
KernelResults(state) ==
  { r \in ResultsOver(ActiveIn(state)) :
      /\ \A s \in StickingIn(state) : r.place[s] = state[s].anchor
      /\ \A s \in SlippingIn(state) : r.reaction[s].shear = 0 }

-----------------------------------------------------------------------------
(* One support's evaluation against the answer of this round.              *)

Reported(s)  == s \in ActiveIn(activeState)
NormalOf(s)  == IF Reported(s) THEN result.reaction[s].normal
                               ELSE activeState[s].vertical
ShearOf(s)   == IF Reported(s) THEN result.reaction[s].shear
                               ELSE activeState[s].held

(* The tension a freeze would read off this round's reactions.             *)
Tension(s)   == IF Reported(s) THEN Positive(-result.reaction[s].normal) ELSE 0

Restored(s) ==
  /\ activeState[s].normal = "LIFTED_OFF"
  /\ s \in result.sunk

(* Mutations of RemainsActive and Overcome: the freeze is forgotten, the   *)
(* friction capacity is taken from the reaction's magnitude.               *)
RemainsActiveUnfrozen(s) ==
  \/ Restored(s)
  \/ activeState[s].normal = "ACTIVE" /\ NormalOf(s) >= -ComplTol

OvercomeByMagnitude(s) ==
  ShearOf(s) > Mu * Larger(NormalOf(s), -NormalOf(s))

RemainsActive(s) ==
  \/ s \in frozen
  \/ Restored(s)
  \/ /\ activeState[s].normal = "ACTIVE"
     /\ NormalOf(s) >= -ComplTol

(* measured_utilization > 1, with the demand on its own side.              *)
Overcome(s) == ShearOf(s) > Mu * Positive(NormalOf(s))

NextTangential(s) ==
  IF ~RemainsActive(s) THEN "INACTIVE"
  ELSE IF activeState[s].tangential = "SLIP" \/ Overcome(s) THEN "SLIP"
  ELSE "STICK"

Reason(s) ==
  IF activeState[s].normal = "ACTIVE" /\ ~RemainsActive(s) THEN "LIFT_OFF"
  ELSE IF Restored(s) THEN "CONTACT_RESTORED"
  ELSE IF RemainsActive(s) /\ activeState[s].tangential # NextTangential(s)
    THEN "STICK_TO_SLIP"
  ELSE "NONE"

Violators == {s \in Supports : Reason(s) # "NONE"}

FirstViolator(s) ==
  /\ s \in Violators
  /\ \A t \in Violators : s <= t

(* Mutations of Proposed: a lift-off forgets the tangential half; a        *)
(* restored contact is prescribed back to its historical anchor.           *)
ProposedHalfLifted(s) ==
  IF RemainsActive(s) THEN [activeState[s] EXCEPT !.normal = "ACTIVE"]
                      ELSE [activeState[s] EXCEPT !.normal = "LIFTED_OFF"]

ProposedAtOldAnchor(s) ==
  [activeState[s] EXCEPT
     !.normal     = IF RemainsActive(s) THEN "ACTIVE" ELSE "LIFTED_OFF",
     !.tangential = NextTangential(s),
     !.vertical   = Positive(NormalOf(s)),
     !.held       = IF RemainsActive(s) THEN ShearOf(s) ELSE 0]

(* The entry with this round's transition applied.                         *)
Proposed(s) ==
  IF ~RemainsActive(s)
    THEN [normal |-> "LIFTED_OFF", tangential |-> "INACTIVE",
          anchor |-> activeState[s].anchor,
          vertical |-> Positive(NormalOf(s)), held |-> 0]
    ELSE [normal |-> "ACTIVE", tangential |-> NextTangential(s),
          anchor |-> IF Restored(s) THEN result.place[s] ELSE activeState[s].anchor,
          vertical |-> Positive(NormalOf(s)),
          held |-> IF activeState[s].tangential = "SLIP" THEN activeState[s].held
                                                         ELSE ShearOf(s)]

(* The entry with its transition denied, this round's measurement recorded. *)
Kept(s) ==
  IF activeState[s].normal # "ACTIVE" THEN activeState[s]
  ELSE [activeState[s] EXCEPT
          !.vertical = Positive(NormalOf(s)),
          !.held     = IF activeState[s].tangential = "SLIP" THEN @ ELSE ShearOf(s)]

(* complementarity_residual_n within tolerance: frozen tension not counted. *)
ResidualAccepted == \A s \in Supports \ frozen : -NormalOf(s) <= ComplTol

-----------------------------------------------------------------------------
(* The two-cycle's detectable face.                                        *)

ContactReasons == {"LIFT_OFF", "CONTACT_RESTORED"}

TogglesAfter(s) ==
  IF Reason(s) \in ContactReasons THEN [toggles EXCEPT ![s] = @ + 1] ELSE toggles

(* Mutations of the detection: a frozen contact may recur; any lift-off    *)
(* after any restoration passes for an inverse; one pole is measured; the  *)
(* admissible amplitude itself is refused.                                 *)
RecurringToggleUnguarded(s) ==
  Reason(s) \in ContactReasons /\ TogglesAfter(s)[s] >= 3

ExactInverseOfAny(s) ==
  Reason(s) = "LIFT_OFF" /\ previousPivot.reason = "CONTACT_RESTORED"

AmplitudeOfThisRound(s) == Tension(s)

RecurringToggle(s) ==
  /\ Reason(s) \in ContactReasons
  /\ TogglesAfter(s)[s] >= 3
  /\ s \notin frozen

ExactInverse(s) ==
  /\ Reason(s) = "LIFT_OFF"
  /\ previousPivot = [support |-> s, reason |-> "CONTACT_RESTORED"]

Amplitude(s) == Larger(Tension(s), poleTension[s])

FreezesBelow(s) ==
  /\ ExactInverse(s) \/ RecurringToggle(s)
  /\ Amplitude(s) < Admissible

Freezes(s) ==
  /\ ExactInverse(s) \/ RecurringToggle(s)
  /\ Amplitude(s) <= Admissible

-----------------------------------------------------------------------------
(* The loop.                                                               *)

Zeros == [s \in Supports |-> 0]

(* A seed grips or is lifted: a compiled state starts so, and              *)
(* restick_converged_pallet_support_state leaves no contact sliding.       *)
SeedEntries ==
  {e \in [normal : {"ACTIVE", "LIFTED_OFF"}, tangential : {"STICK", "INACTIVE"},
          anchor : Places, vertical : {0}, held : {0}] :
      e.normal = "ACTIVE" <=> e.tangential = "STICK"}

Init ==
  /\ activeState \in [Supports -> SeedEntries]
  /\ frame = NoFrame /\ result = NoResult
  /\ frozen = {} /\ disclosed = Zeros
  /\ toggles = Zeros /\ poleTension = Zeros /\ previousPivot = NoPivot
  /\ round = 0 /\ phase = "solving"

(* solve_supported_frame is entered again, with `seed`: every local anew.  *)
StartSearch(seed) ==
  /\ activeState' = seed
  /\ frame' = NoFrame /\ result' = NoResult
  /\ frozen' = {} /\ disclosed' = Zeros
  /\ toggles' = Zeros /\ poleTension' = Zeros /\ previousPivot' = NoPivot
  /\ round' = 0 /\ phase' = "solving"

(* Compose the round's frame, have it solved, and record the tension of    *)
(* every active support.  The kernel is a deterministic linear solver: the *)
(* frame it has just solved gets the answer it has just given.             *)
Solve ==
  /\ phase = "solving"
  /\ round < IterationLimit
  /\ frame' = ComposeFrame(activeState)
  /\ IF frame = ComposeFrame(activeState)
       THEN result' = result
       ELSE result' \in KernelResults(activeState)
  /\ poleTension' = [s \in Supports |->
                       IF s \in ActiveIn(activeState)
                         THEN Positive(-result'.reaction[s].normal)
                         ELSE poleTension[s]]
  /\ phase' = "updating"
  /\ UNCHANGED << activeState, frozen, disclosed, toggles, previousPivot, round >>

(* The kernel refuses the frame, or answers with an ERROR diagnostic.      *)
KernelFails ==
  /\ phase = "solving"
  /\ round < IterationLimit
  /\ frame # ComposeFrame(activeState)
  /\ phase' = "KERNEL_FAILURE"
  /\ UNCHANGED << activeState, frame, result, frozen, disclosed, toggles,
                  poleTension, previousPivot, round >>

(* A cycling contact that pulls no harder than the solve resolves is held  *)
(* in contact from here on; the proposal is rejected and the same frame is *)
(* evaluated again.                                                        *)
Freeze(s) ==
  /\ phase = "updating"
  /\ FirstViolator(s)
  /\ Freezes(s)
  /\ frozen'        = frozen \cup {s}
  /\ disclosed'     = [disclosed EXCEPT ![s] = Tension(s)]
  /\ toggles'       = TogglesAfter(s)
  /\ previousPivot' = NoPivot
  /\ round'         = round + 1
  /\ phase'         = "solving"
  /\ UNCHANGED << activeState, frame, result, poleTension >>

(* Mutations of Pivot: every proposal applied at once (a Jacobi step); the *)
(* round not counted.                                                      *)
PivotAll(s) ==
  /\ phase = "updating"
  /\ FirstViolator(s)
  /\ ~Freezes(s)
  /\ activeState'   = [t \in Supports |-> IF t \in Violators THEN Proposed(t) ELSE Kept(t)]
  /\ toggles'       = TogglesAfter(s)
  /\ previousPivot' = [support |-> s, reason |-> Reason(s)]
  /\ round'         = round + 1
  /\ phase'         = "solving"
  /\ frame' = NoFrame /\ result' = NoResult
  /\ UNCHANGED << frozen, disclosed, poleTension >>

PivotUncounted(s) ==
  /\ phase = "updating"
  /\ FirstViolator(s)
  /\ ~Freezes(s)
  /\ activeState' = [t \in Supports |-> IF t = s THEN Proposed(t) ELSE Kept(t)]
  /\ toggles'     = Zeros
  /\ phase'       = "solving"
  /\ frame' = NoFrame /\ result' = NoResult
  /\ UNCHANGED << frozen, disclosed, poleTension, previousPivot, round >>

(* One pivot per solve: the first violator changes, every other entry only *)
(* records what was measured.                                              *)
Pivot(s) ==
  /\ phase = "updating"
  /\ FirstViolator(s)
  /\ ~Freezes(s)
  /\ activeState'   = [t \in Supports |-> IF t = s THEN Proposed(t) ELSE Kept(t)]
  /\ toggles'       = TogglesAfter(s)
  /\ previousPivot' = [support |-> s, reason |-> Reason(s)]
  /\ round'         = round + 1
  /\ phase'         = "solving"
  /\ frame'         = NoFrame
  /\ result'        = NoResult
  /\ UNCHANGED << frozen, disclosed, poleTension >>

(* Nothing violates: the state is refused on its residual, refused because *)
(* the top response cannot be recovered or is a journey and not a          *)
(* deflection, or returned together with the frame it was solved in.       *)
Conclude ==
  /\ phase = "updating"
  /\ Violators = {}
  /\ IF ResidualAccepted
       THEN phase' \in {"accepted", "PALLET_TOP_RESPONSE", "PALLET_RESPONSE_IMPLAUSIBLE"}
       ELSE phase' = "NON_CONVERGED"
  /\ activeState'   = [t \in Supports |-> Kept(t)]
  /\ previousPivot' = NoPivot
  /\ UNCHANGED << frame, result, frozen, disclosed, toggles, poleTension, round >>

(* The for loop runs out.                                                  *)
Exhaust ==
  /\ phase = "solving"
  /\ round = IterationLimit
  /\ phase' = "NON_CONVERGED"
  /\ UNCHANGED << activeState, frame, result, frozen, disclosed, toggles,
                  poleTension, previousPivot, round >>

SearchStep ==
  \/ Solve
  \/ KernelFails
  \/ \E s \in Supports : Freeze(s) \/ Pivot(s)
  \/ Conclude
  \/ Exhaust

(* The call has returned.                                                  *)
Finished == phase \in Ended /\ UNCHANGED vars

Next == SearchStep \/ Finished

Spec     == Init /\ [][Next]_vars
FairSpec == Spec /\ WF_vars(SearchStep)

-----------------------------------------------------------------------------
(* Invariants.                                                             *)

(* Every variable has its type, a contact is INACTIVE tangentially exactly *)
(* while it is lifted off, and a round under way is one of the loop's.     *)
TypeOK ==
  /\ activeState \in [Supports -> Entries]
  /\ \A s \in Supports : activeState[s].normal = "LIFTED_OFF"
                           <=> activeState[s].tangential = "INACTIVE"
  /\ frame = NoFrame \/ frame \in [Supports -> Rows]
  /\ result = NoResult \/ \E active \in SUBSET Supports : result \in ResultsOver(active)
  /\ frozen \in SUBSET Supports
  /\ disclosed \in [Supports -> Nat]
  /\ toggles \in [Supports -> Nat]
  /\ poleTension \in [Supports -> Nat]
  /\ previousPivot \in Pivots
  /\ round \in 0 .. IterationLimit
  /\ phase = "updating" => round < IterationLimit
  /\ phase \in {"solving", "updating"} \cup Ended

(* What the search hands back solves the contact problem it was given: no  *)
(* contact that was not frozen pulls by more than the tolerance, no lifted *)
(* contact is sunk into the floor, nothing grips beyond its friction, every *)
(* frozen contact is in contact, and the frame returned beside the state   *)
(* has exactly the supports and the grips the state names.                 *)
AcceptedIsComplementary ==
  phase = "accepted" =>
    /\ \A s \in ActiveIn(activeState) \ frozen : result.reaction[s].normal >= -ComplTol
    /\ \A s \in Supports \ ActiveIn(activeState) : s \notin result.sunk
    /\ \A s \in StickingIn(activeState) :
          result.reaction[s].shear <= Mu * Positive(result.reaction[s].normal)
    /\ frozen \subseteq ActiveIn(activeState)
    /\ \A s \in Supports :
          /\ frame[s].active = (s \in ActiveIn(activeState))
          /\ frame[s].sticking = (s \in StickingIn(activeState))

(* Only a contact the search itself saw cycle is frozen: it was proposed   *)
(* for at least two contact changes since the search began, the freezing   *)
(* proposal included.                                                      *)
FrozenWereCycling == \A s \in frozen : toggles[s] >= 2

(* When every tension the kernel can report is quiet, the freeze ends      *)
(* every cycle: six changes per support and one last solve are enough, and *)
(* a loop that has them never ends in NON_CONVERGED.                       *)
QuietSearchSettles ==
  /\ \A n \in Normals : -n <= Admissible
  /\ IterationLimit >= 6 * NumSupports + 1
  => phase # "NON_CONVERGED"

(* A support frozen at its LIFTED pole is put back by the very next pivot: *)
(* a frozen contact is out of contact only while the frame it was frozen   *)
(* in is evaluated again, and then it is that frame's first violator,      *)
(* known to be sunk into the floor.                                        *)
FrozenAreInContact ==
  \A s \in frozen \ ActiveIn(activeState) :
     /\ frame = ComposeFrame(activeState)
     /\ Restored(s)
     /\ FirstViolator(s)

(* While a round is evaluated, and while a frozen round waits to be solved *)
(* again, frame and result are those of the current active state.          *)
FrameIsCurrent ==
  \/ /\ phase # "updating"
     /\ frame = NoFrame /\ result = NoResult
  \/ /\ frame = ComposeFrame(activeState)
     /\ result \in KernelResults(activeState)
  \/ phase \in Ended

(* The pivot an exact inverse is compared with has been counted.           *)
PivotIsCounted ==
  previousPivot.reason = "CONTACT_RESTORED" => toggles[previousPivot.support] >= 1

-----------------------------------------------------------------------------
(* Action properties.                                                      *)

(* The frame to be solved next differs from the one just judged, or one    *)
(* more contact is frozen.                                                 *)
FrameChangesOrFreezes ==
  phase = "updating" /\ phase' = "solving" =>
    \/ ComposeFrame(activeState') # frame
    \/ frozen' # frozen

(* No round repeats the last one: freezing a contact that is already       *)
(* frozen would solve one frame until the limit.                           *)
NoSolveIsRepeated == [][FrameChangesOrFreezes]_vars

(* What a freeze discloses and what the contact pulled when last active    *)
(* are both within bistable_admissible_n.                                  *)
FreezeIsQuietStep ==
  \A s \in frozen' \ frozen :
     /\ disclosed'[s] <= Admissible
     /\ poleTension[s] <= Admissible

(* A cycle louder than the solve's own force resolution is never frozen,   *)
(* whichever pole the freeze fires at.                                     *)
OnlyQuietCyclesFreeze == [][FreezeIsQuietStep]_vars

(* Static friction grips a contact where it stands: every contact that     *)
(* grips in the next solve is prescribed to the place its node had in the  *)
(* solve before, never to where it used to stand.                          *)
GripsWhereItStands ==
  [][phase = "updating" =>
       \A s \in StickingIn(activeState') :
          activeState'[s].anchor = result.place[s]]_vars

-----------------------------------------------------------------------------
(* Liveness: the search always returns.                                    *)
SearchReturns == <>(phase \in Ended)

-----------------------------------------------------------------------------
(* The walk over active sets the search implements.                        *)

Verdict == IF phase \in Refusals THEN "refused"
           ELSE IF phase = "accepted" THEN "accepted" ELSE "open"

Walk == INSTANCE ActiveSetWalk WITH
          Contacts <- Supports,
          present  <- ActiveIn(activeState),
          sliding  <- SlippingIn(activeState),
          pinned   <- frozen,
          verdict  <- Verdict

(* Every step of the search is one step of that walk or leaves it alone:   *)
(* one pivot per solve, slip one-way until the contact leaves, a frozen    *)
(* contact never leaves, acceptance only with every frozen one in place.   *)
ImplementsWalk == Walk!Spec

-----------------------------------------------------------------------------
(* What comments of the source say and the code does not do.               *)

(* coupled.rs:344-346: the tension the admissibility judges is the         *)
(* contact's recorded ACTIVE-pole tension, "exactly the force the freeze   *)
(* will hold and disclose".                                                *)
FreezeDisclosesPoleTension ==
  [][\A s \in frozen' \ frozen : disclosed'[s] = poleTension[s]]_vars

(* support_state.rs:13-15: a slipping contact is pushed by "the force [the *)
(* floor] can still supply", no more than mu times the normal force it     *)
(* carries in the solve that is accepted.                                  *)
AcceptedFrictionIsCoulomb ==
  phase = "accepted" =>
    \A s \in SlippingIn(activeState) :
       frame[s].friction <= Mu * Positive(result.reaction[s].normal)
=============================================================================
