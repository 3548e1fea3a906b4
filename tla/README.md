# Verification of stabileo-engine

TLA+ models of the parts of this repository that carry its own logic, the TLC
runs that check them, and TLAPS proofs about all of them; of the projection, only what the
bridge makes of it. The vendored finite element kernel (`vendored/stabileo`) is third-party and outside.

## 1. Inventory

| part | source | state | operations | why it is hard |
|---|---|---|---|---|
| support search | `crates/stabileo-pallet/src/coupled.rs` `solve_supported_frame`, `support_state.rs` | active state of each support, freezes, toggle counts, pole tensions, previous pivot, round | compose, solve, pivot, freeze, conclude, give up | an active-set walk that can cycle; decisions read values of earlier rounds |
| coupled event | `coupled.rs` `solve_coupled_event` | unit state, seed of the next search, coupling round | partition, search, advance, compare, re-stick, recover, return | two nested loops, values of three rounds alive at once |
| kernel port | `native_port.rs` | the one solve held for recovery | solve, recover | a cache of depth one with an identity check |
| rigid settlement | `unit_load/rigid_settlement.rs` | active contacts, pass | drop, re-admit, settle, give up | a second active-set walk, with a budget and a degenerate case |
| unit load partition | `partition.rs` | shares, contact centres and turns, free moments, interfaces, remembered shares and compliances | partition, hand over, advance | a measured secant pairs two rounds; contacts are moved by differences |
| contact, friction, criteria, resultants | `unit_load/*.rs` | none | Coulomb rule, capacity criterion, resultants and their audit | boundaries and zero capacities |
| contact projection | `pallet/projection.rs` | the contact map of a projection | find surfaces, sample, share, stand on springs, audit | a force is split twice and put right by moments |
| top response | `pallet/top_response.rs` | none | read the deck back under each contact | arms from one point, motions interpolated at another |
| kernel bridge | `kernel_bridge/*.rs` | the compiled model, id map and raw answer of one call | compile, solve, normalize, audit, recover | axes, units and ids change there and back; an answer may be incomplete |
| wasm entry | `crates/stabileo-wasm/src/lib.rs` | none | one call | - |
| SDK initialization | `src/runtime.ts` | engine handle, initialization promise | async and sync init, reset | interleaving across awaits and microtasks |
| vendoring and build | `src/scripts/vendor-stabileo.sh`, `build-wasm.sh` | `vendored/`, `LICENSE`, `src/generated/wasm` | swap, publish, cleanup | failure, signal or kill between two commands |
| bindings generator | `src/typegen` | `src/generated/bindings.ts`, `bindings.lock.json` | generate, update | the bindings are written before the lock |
| release, packaging | `publish-github-release.sh`, `release.yml`, `check-package.mjs` | GitHub and npm | publish | retry of a half-published release |

How they interact: the wasm entry calls `solve_coupled_event`, which in every
round calls `solve_supported_frame` (partition, projection of the contacts onto the
deck, then up to `coupled_iteration_limit` solves of the kernel bridge through
`KernelPort`), reads the solved deck back under every contact (top response), hands
that to `advance_unit_load_partition` (which calls
`solve_rigid_body_settlement`) and compares two rounds. Everything in Rust is
sequential: what is hard there is the order of decisions and values that are a
round old. The SDK is concurrent in the JavaScript sense (interleaving at
`await`), the scripts are exposed to failing commands, signals and kills.

What makes each part correct, in a phrase: the search accepts only states that
satisfy the contact conditions, freezes only quiet cycles and always returns; the
event returns one consistent snapshot of a round that was compared with an
earlier one; what the settlement returns is an equilibrium, and a body that rests is
not moved; the partition carries exactly the load, where the deck is; the
projection gives the deck the contacts' own force and moment; the bridge answers in
the frame's axes, units and names, or not at all; the SDK has one engine; the scripts
never lose the snapshot and never end well on a mixed set of generated files. `PROJECT.json` lists every
hazard at its line with the properties aimed at it.

## 2. Modules

### SupportSearch (core)

One `solve_supported_frame` call. A round is `Solve` (compose the frame, call the
kernel, record pole tensions; `coupled.rs:260-309`) followed by one of

* `Freeze(s)`: the first violator is cycling (exact inverse of the last pivot, or
  third contact change) and its amplitude is admissible: the proposal is denied,
  the next round evaluates the same frame (`coupled.rs:311-371`);
* `Pivot(s)`: the first violator's entry is replaced, all others record their
  measurement (`support_state.rs:279-313`);
* `Conclude`: nothing violates, and the call returns or refuses (residual, top
  response, `PALLET_RESPONSE_IMPLAUSIBLE`).

`KernelFails` and `Exhaust` are the other ends. The variables are the locals of
the function; `RemainsActive`, `NextTangential`, `Reason`, `Proposed`, `Kept`,
`Amplitude`, ... are the expressions of the same name in the source.

Abstractions. Forces are small integers and `1 + coupled_load_share_tolerance` in
the slip test is 1. The horizontal position of a node is a member of `Places`; a
penetration is only its comparison with `length_tolerance_m` (`sunk`).
Tangential reactions are magnitudes: the direction of the friction load is not
kept. The kernel is nondeterministic within what the bridge guarantees (`KernelResults`:
reactions of exactly the active supports, gripping nodes at their prescribed
place, no shear on released freedoms), except that a frame solved twice in a row
gets the same answer, because the kernel is a function of the frame. Left out:
progress callbacks (no effect on state, errors swallowed), the sentences of
refusals, and the refusals of malformed requests (`BEARING_CONTACT_MISSING`,
`SUPPORT_STATE_MISSING`, `SUPPORT_NOT_ELASTIC`), which no compiled request meets.
Init takes every seed that grips or is lifted, which is what the application
compiles and what `restick_converged_pallet_support_state` leaves.

### ActiveSetWalk (abstract)

What the module documentation of `support_state.rs` promises: a walk over active
sets in which one contact leaves, returns, breaks loose or is pinned per step,
pinned contacts never leave, and only a walk with all pinned contacts present is
accepted. `SupportSearch!ImplementsWalk` instantiates it with the refinement
mapping (present = ACTIVE, sliding = SLIP, pinned = frozen).

### RepeatableSearch

`SupportSearch` plus `answers`, the frames already solved: a frame that returns
after other pivots gets its old answer too. Used only for the runs that contradict
a comment, so that no counterexample needs a kernel that contradicts itself.

### CoupledEvent

Extends `SupportSearch` with the coupling loop and the port. `SearchRound` is any
step of the search plus the port's cache; `ContinueCoupling` is advance +
comparison + re-stick + next search (or the loop's end); `ReturnResult` recovers
and returns. `PartitionFails`, `SearchFails`, `AdvanceFails` are the `?`s. The next
shares are any value of `LoadShares`: what the partition and the rigid body do with a
response have models of their own. The unit state may come with a response
(`palletResponse` is optional in the request), so an event can converge in its first round.
`carried` and `heard` are history: what the frame of the last solve was loaded with, and what the
solve of the round before gave; no action reads them. `Admissible` is one constant although the code recomputes it
from each round's loads; no property of the event depends on its value.

### RigidSettlement

`solve_rigid_body_settlement` with exact arithmetic: a plane is three numerators
over a positive denominator (Cramer's rule, as in `solve_symmetric_3`). One action
per exit of a pass: `Drop`, `Readmit`, `Settle`, and `GiveUp` when the budget of
n + 2 passes is used. Rounding, NaN and the relative 1e-12 threshold of the
determinant are out. A contact and the compliance measured under it are springs in
series, k / (1 + k c): `Softening` is the contact's own denominator and `Scale` a
constant that every one of them divides, so every stiffness stays an integer; `Gap` is the
deck as it would stand without the force the contact carries now. `FixedPointIsUntouched` is
the property the coupled loop rests on: a body at rest under the forces it is handed is
answered with those forces, whatever compliance was measured. `SolvableLoadSettles`, and the
part of the fixed point that says the walk does not strand a resting body on a line, hold of
the requests of the run and not of all requests (section 4, observations).

### UnitLoadCriteria

The pure rules of `unit_load/`: vectors, resultants and their audit, the Coulomb rule
at one interface, the capacity criterion, in exact integers. Norms are compared through
their squares. `evaluate_normal_contact` (`contact.rs`) has no caller and is not
modelled, nor are the refusals of NaN.

### UnitLoadAdvance

`solve_unit_load_partition` and `advance_unit_load_partition`, round by round:
`Solve` hands the partition over (coverage and conservation refusals), `DeckAnswers`
lets the deck answer the shares, and `Advance` measures the secant, takes the settled
shares, moves and turns every contact, sets the free moments, interfaces and criterion;
`AdvanceRefused`, `EquilibriumLost` and `Finish` are the other ends. Shares count parts of
`Whole`, so a force is in N over `Whole` and a free moment over its square;
a compliance is over `ComplianceDen`, a constant that every change of share divides, so a
secant is an integer; `TiltAssumption` keeps to decks whose tilts have a whole length at every
contact's edge. A deck is any function of the shares; the settlement is any
share vector or none (`RigidSettlement` says which): `EquilibriumLost` stands for its two
refusals, no reaction left and an active set that does not settle. A base contact and its interface
are one; the points of a pressure field and the interfaces between packages are left out.

### KernelBridge

One static solve through the bridge. `Compile` builds the numbered model in kilo-units
with z up, or refuses; `Solve` is the kernel; `Normalize` checks coverage, reads the
answer back, audits it and refuses or answers; `Recover` serves stations from the same
answer. `frame`, `compiled`, `raw` and `answer` are the values of the same role in the
code, `stage` its position. `CompileRefusal` is every `?` of `compile_static_active_state` in
the order the code meets them, among them names that name nothing: a member's ends are
looked up before anything else (`INPUT_INVALID`), a tie's nodes before the moduli, a support's,
a load's and a connector's node last (`UNKNOWN_STABLE_ID`). A bearing left without its node, say,
is a request the model can meet, and it is refused.

The kernel is external and stated in one section: restrained freedoms stand where they
are prescribed, eliminated ones follow their masters in the compiled model's own axes,
every other freedom takes any value of `Motions`, elastic supports react to that, and a
support that restrains everything takes the balance. `Spoilt` answers miss, repeat or
invent an entry or are not finite; `Failures` are the ways a solve ends in an error.
Properties compare the frame with the answer, never with the compiled model, except
where the two paths are what is compared (`AcceptedResultBalances`).

Exact integers: `Kilo` stands for the thousand between the unit systems, `RelDen` for
the reciprocal of the audit's tolerance. Members lie along an axis. `WellFormed` says what a
request is: what the schema's types guarantee (fields, ids, enumerations, finite numbers) and
what exactness asks of an instance (whole kilo-units, members and local axes along the
frame's, loaded lengths with whole ends and middles, a multi-point constraint with a term that is not zero).
It does not say that names name anything, that ids are distinct or that a section is
possible; those are for `Compile` to refuse. Node ids are distinct because nodes are a
function of their ids. A kernel that reports reactions it did not compute also returns a
diagnosis, and what it says of reactions is promised only of an answer without one
(`Undiagnosed`); displacements are promised either way. Six diagnostic codes are reduced to
three; a connector's torsion and bending, which go the way of its axial and shear stiffness, capability
checks, number formatting and wording are left out.

### ContactProjection

The pure half of `projection.rs` and `top_response.rs`: surfaces of the top boards,
samples of every kind of contact, shares, clamping of overhanging samples, horizontal
loads at the board ends with the moment that puts them right, the rigid face on springs,
the audit, and the response under a contact. Patches are turned by quarters only, so
clipping intersects intervals; a chime ring has the points of `Ring` (four; the code has
thirty-two); a position along a board counts quarters. Refusals of malformed patches are left out, and
`CONTACT_FACE_HAS_NO_BEARING_NODES`, which no contact with a sample meets: a sample's share is not
zero at both ends of its board. The audit's tolerances absorb rounding, so `Conserved` is equality.

### DeckResponse

The composition: `Project` puts a loading on a deck, the bridge's four actions solve the
resulting frame, `ReadTop` reads the deck's motion under each contact. What the partition
hands over is followed through two modules to what the kernel is given, and back.

Two named assumptions say which decks these are. `DecksAssumption`: a deck here brings no loads of its own
(its weight, in the code, is added on both sides of every comparison). `LoadedAssumption`: a loading whose
projection passes the audit leaves a well-formed frame with nodal loads, that is, its shares
and springs are whole kilo-units. It is about the instance: TLC evaluates it on every
deck and loading of the run. That the projection makes ids, lists and nodal loads could be proved
of its definitions only by induction over the sequences it flattens and folds, which the
provers do not do. What it does not say is that anything is
conserved: that is the audit, a guard of `Project`.

### EngineInit

`initStabileoEngine` and `initStabileoEngineSync`, called repeatedly by several
callers. What runs between two awaits is one action: the source arrives, the glue
instantiates and `createEngine` runs, either fails, the `.catch` handler resets
the promise, a caller resumes. A caller's own reaction runs after the reset
handler, which was registered first. The glue and the network are external.

### VendorAndBuild

`vendor-stabileo.sh`, `build-wasm.sh` and `typegen/cli.mjs`, run after one another, as one
action per command whose failure or interruption is visible on disk. A failing command
goes to the EXIT trap (`set -e`) or to the generator's `finally`, `Kill` is SIGKILL or
power loss, `Signal` (only in `SpecInterrupted`) is HUP, INT or TERM delivered between two
commands. `WriteFails` leaves the file under the pen torn. A snapshot is its revision; what
the generator makes of a snapshot and of a build's declarations is their API (`Api`), and
two revisions may share one. `$TMPDIR` is assumed on the checkout's file system (mv
renames), the `mv` of `cleanup` to succeed; scripts do not run concurrently.

### How modules compose

`CoupledEvent` EXTENDS `SupportSearch`; `SupportSearch` INSTANCEs `ActiveSetWalk`;
`RepeatableSearch` EXTENDS `SupportSearch`. `UnitLoadAdvance`,
`KernelBridge` and `ContactProjection` EXTEND `UnitLoadCriteria`; `DeckResponse` EXTENDS
`KernelBridge` and `ContactProjection`. The MC modules only
give constants their values. Operators commented as mutations are variants of a
definition with a plausible mistake; no specification uses them.

The proofs are beside the models. `SupportSearchProofs` EXTENDS `SupportSearch`, and
`CoupledEventProofs` extends both `SupportSearchProofs` and `CoupledEvent`, because an event
runs searches. `KernelBridgeProofs` extends `DeckResponse`, because a deck's request goes through
the bridge. `EngineInitProofs`, `VendorProofs`, `UnitLoadAdvanceProofs` and `RigidSettlementProofs`
extend their modules; the last two and `KernelBridgeProofs` share `SumTheorems`, about sums and
counts over finite sets.

## 3. Runs

| run | instance | states | shows |
|---|---|---|---|
| search | 2 supports, normals {-2,-1,1,2}, shears {0,2}, limit 8 | 198k | acceptance is complementary; freezes are earned, quiet and in contact; no solve repeated; refinement |
| quiet | 2 supports, normals {-1,1}, 2 places, limit 13 | 171k | 6N+1 rounds settle every quiet search; grips are in place; the search returns |
| coupled | 2 supports, 3 responses, 2 share vectors, limit 4 | 871k | recovery, snapshot, fixed point; every event returns |
| rigid | 4 contacts, 4 layouts, 2 stiffnesses, decks with and without a measured compliance | 27k | equilibrium, the load keeps standing; on these layouts rest is a fixed point and no solvable load is refused |
| advance | 2 contacts, 4 parts, 4 decks, 3 rounds | 80k | latest secant, contacts on the deck, conservation, criterion and interfaces agree |
| deck | a two-board deck under 17 loadings, and 49 frames of three nodes | 20k | axes, constraints, attribution, balance; projection and read-back |
| bridge_mpc | 2 frames with a mixed multi-point constraint | - | violation: finding 3 |
| engine_init | 3 callers, 2 calls each | 57k | one handle, fresh retries, everyone answered |
| vendor | 6 scripts | 21k | the snapshot survives failing commands; builds match; bindings agree with the lock |
| vendor_signal | 4 scripts, signals | - | violation: finding 4 |
| freeze_disclosure, coulomb | 2 supports, limit 7, repeatable kernel | - | violations: findings 1 and 2 |

Why the bounds are enough. The search's decisions compare a reaction with 0, with
the complementarity tolerance, with the admissible amplitude and a shear with
`mu N`; with tolerance 0, admissible 1 and mu 1 the values -2, -1, 1, 2 and shears
0, 2 lie on each side of every comparison (loud and quiet tension, a push whose
friction holds 2 and one whose friction does not). Two supports give a first
and a later violator, limit 8 a freeze by recurrence, a freeze at the lifted pole
and pivots after it. `quiet` needs 13 rounds: each support can change contact twice
before its third change freezes it, be restored once more and break loose after each
restoration; at 12 rounds `QuietSearchSettles` fails, so the bound 6N+1 is tight for
N = 2. In `coupled`, four rounds give a first response, a difference, a convergence
and the loop's end. In `rigid`, four contacts are the least with two off a line and
two to drop; the layouts include a row (always degenerate) and a point inside a
triangle; two compliances soften one contact or the three others; forces are those of a
resting body or an even share. In `advance`, three rounds give two secants and one
remembered past; the decks are one that gets stiffer as it is pressed (two different secants), one
that rises and turns (refused secants, a moved contact) and two carried sideways (residual
moments without a descent); the load is pushed sideways, so an interface slips. In `deck`,
each frame varies one thing (a support's fixity, stiffness, prescription, a twin on one
node; every constraint, with and without releases; every load on members along x and z;
refused members, names that name nothing), and each loading one kind of contact or one boundary of the projection
(a corner, a sample over the edge, over the gap, beyond the board, pull and no vertical
force); the decks move and turn as one body. In `vendor`, six scripts allow snapshot, build,
update, a newer snapshot, a newer build and a generation, with a failure at any command. In
`engine_init`, three callers let one fail, one join and one start anew.

Fairness. `FairSpec` (quiet) and `FairEventSpec` (coupled): weak fairness of the step as a whole, since
the Rust code is one thread that runs until it returns; kernel calls are assumed to
return. `EngineInit`: weak fairness of the event loop and of the network's answers,
failure included (a source promise that never settles hangs its caller in the code
too); no fairness of the callers. Deadlock is checked except in `engine_init` and the
vendor runs, where callers and maintainers may simply stop, and in the two bridge runs,
where a request ends.

## 4. Findings

1. **freeze_disclosure** (`coupled.rs:356`). A freeze that fires at the lifted pole
   discloses 0 N: `tension_n` is looked up in this round's reactions, which a lifted
   support does not have. The comment at `coupled.rs:344-346` says the recorded
   active-pole tension is "exactly the force the freeze will hold and disclose".
2. **coulomb** (`support_state.rs:339`). A sliding contact is pushed by mu times the
   normal force of the round before; a round without a change is accepted without
   comparing that with the normal force it found.
3. **bridge_mpc** (`kernel_bridge/compile.rs:696`). The coefficients of a multi-point
   constraint cross the change of basis unchanged, while the kernel's second horizontal
   axis points against the frame's z: a constraint that mixes a z term with another axis
   is solved with that term's sign flipped. Constraints whose terms share an axis are right,
   and the run `deck` checks them with all the others.
4. **vendor_signal** (`vendor-stabileo.sh:68`). A signal that arrives while the old
   snapshot is being moved away runs the trap before `swap_started=1`; the old snapshot
   is deleted with the temporary directory, and the script exits 0.

Observations, of code and comments that disagree with nothing the models check:

* The settlement can refuse a load that stands, or leave a resting body on a line. The test at
  `rigid_settlement.rs:522` describes a cycle under a load that overturns: the walk drops to
  contacts on a line, the level plane of the line presses a dropped contact back in, and the
  larger set drops it again. The same cycle is met by loads that do not overturn when the deck
  has deep steps. Without compliance, springs (1, 2, 5, 5) at (2,1), (3,3), (2,-2), (3,2) on a
  deck sunk by (1, 5, 3, 0) carry (2, 2, 0, 15) at the plane 6 - 3x + 3z; asked for that
  resultant, the walk drops the second and the third, stands level on the first and the fourth,
  re-admits the third, drops it, and so on to `CONTACT_ACTIVE_SET_DID_NOT_SETTLE`. Springs
  (5, 1, 5, 2) at (2,-1), (0,-2), (-3,-2), (-2,1) on a deck sunk by (1, 6, 3, 6) carry
  (30, 1, 5, 0) at 3 + x - 2z, and the walk settles level on the first and the third: the weight
  is carried, the moments are left to the caller's free moments. No comment or test says
  otherwise; on a level deck neither was met.
* A frozen contact may pull harder, also above the admissible amplitude, in the solve that
  is accepted (`support_state.rs:104`, `bistable_residual_n` is read by nobody).
* Two active supports at one node are always refused: their reactions come back under one
  node, and `normalize.rs` refuses that as a corrupt output.
* A connector's `forceOnNodeI` is -k (uj - ui) (`normalize.rs`), which is the force on node j.
* The comment at `projection.rs:778-781` counts bearings on one line among the cases whose
  tilt is grounded; bearings on a diagonal are not (`projection.rs:964`).
* The refusals of `top_response.rs` cannot be reached from a projection of the same frame.
* The comment at `normalize.rs:590` says `over_constrained_dof` has no entry in the diagnostic
  map; `diagnostics.rs:33` has one.

## 5. Proofs

Every theorem is `Spec => []Inv` (or `[][A]_vars`, or a refinement) for all values of the
constants under the module's named assumptions, which say what a request or a configuration
is: a positive number of supports, contacts or callers, natural tolerances, integer forces,
well-formed frames.
Each proof has an inductive invariant, a step for Init, one step per action of `Next`, and a
last temporal step. The strengthenings were checked by TLC on the runs before they were proved.

### SupportSearchProofs

* `TypeCorrect`: `TypeOK` with `FrameIsCurrent`. The type invariant alone is not
  inductive: that `result.reaction[s]` exists for an active `s` needs that frame and
  result belong to the current active state whenever a round is evaluated, and stay
  so through a freeze.
* `FreezeIsEarned`: `FrozenWereCycling`. An exact inverse needs that the previous
  pivot was counted (`PivotIsCounted`), which is the strengthening.
* `FreezeIsQuietEverywhere`: `OnlyQuietCyclesFreeze`, from the amplitude being the
  larger of the two poles.
* `FrozenStayInContact`: `FrozenAreInContact`. The hard case is a freeze at the lifted
  pole: it leaves frame and result alone, so the same contact is the first violator of
  the next evaluation (it has to be restored, and cannot be frozen again), and puts it
  back.
* `AcceptanceIsSound`: `AcceptedIsComplementary`, from `FrameIsCurrent` and the absence
  of violators. `QuietResidualIsAccepted` shows on the way that the branch
  `NON_CONVERGED: support active state residual` (`coupled.rs:377-379`) is dead: when
  nothing violates, the residual is within its tolerance.
* `SearchNeverRepeats`: `NoSolveIsRepeated`, because a pivot always changes its row.
* `SearchImplementsWalk`: `ImplementsWalk`, one step of the walk per action. That a
  lifted contact holds no friction (`LiftedHoldsNothing`) is the strengthening needed.
* `GripIsWhereItStands`: `GripsWhereItStands`.
* `QuietSearchesSettle`: `QuietSearchSettles`, for any number of supports. A contact stands on
  one of the rungs 0 to 6 of a ladder (`Rung`): its contact changes, its slide, its freeze and
  what is left after it. Every round but the last moves one contact up at least one rung and none down, so the
  rounds never outnumber the rungs climbed (`RoundsAreClimbed`), and 6N+1 rounds suffice. The
  strengthenings are that every pole is quiet and that the third change freezes
  (`PolesAreQuiet`, `ThirdFreezes`).

### CoupledEventProofs

`EventInv` is everything proved of a search, now of the searches of an event (`SearchInv`: a
later search starts from re-stuck contacts with a measured reaction, which is not an initial
state of `SupportSearch`, so the search's invariants are proved to hold again there), with
`RoundInv`: while an event runs, the port holds the solve that the search is judging or has
accepted. `AcceptedIsAsSolved` is the strengthening that carries an accepted state to the
answer: it composes to the frame that was solved. From it follow `EventTypeCorrect`,
`EverySearchIsSound`, `RecoveryFindsItsSolve` (`RecoveryIsCached`) and `AnswerIsConsistent`
(`AnswerIsOneSnapshot`). `HistoryInv` says that the unit state of a running event is neither older nor
newer than its last solves: it holds the response of the round before, and the shares every
frame of this round's search carries, however many pivots and freezes the search takes.
`AnswersAreFixedPoints` (`AnswerIsAFixedPoint`) follows: what `evaluate_coupling_convergence` is handed are
two consecutive solves and the loads before and after. `EverySearchIsWellBehaved` is the action property.

### RigidSettlementProofs

`SettlementInv` is the walk's typing, that a settled walk rests, and `LoadKeepsStanding`.

* `SettlementTypeCorrect`: `TypeOK`. That the plane's denominator is positive is a fact of
  linear algebra: the moment matrix is the Gram matrix of weighted squares (`FormOfSums`), so
  its determinant is not negative (`FormOfTwo`, `FormOfThree`), and on the line fallback the
  total stiffness of a set that is not empty is positive.
* `TheLoadKeepsStanding`: `LoadKeepsStanding`. A single contact bears exactly the
  weight (`LastContactBears`), so it does not pull.
* `SettlementCarriesTheLoad`: `SettledCarriesTheLoad`. Cramer's rule (`Cramer`) solves the three
  equations of `Target`, and sums of forces over the active set are those equations (`PlaneBalances`).
* `RestIsAFixedPoint`: `FixedPointIsUntouched` whenever the walk ends off a line. The two
  springs in series press what the raw spring presses on the deck where it is
  (`SeriesIsExact`), so the rest the forces come from and the plane of the walk are two
  equilibria of one problem. Their forces differ by forces that add up to nothing and turn
  nothing (`OffSumsToNothing`), so the difference does no work against the rigid movement
  between the planes; a contact pressed deeper presses no less (`DeeperPressesMore`), so every term of
  that work is at least zero, hence zero, hence the forces are equal.

### UnitLoadAdvanceProofs, SumTheorems

`AdvanceInv` has five parts: `LoadInv` (the unit is the decomposition of the load over its
shares), `RoundInv` (which phase holds which response), `HistoryInv` (the history is the answers in
the order they came, the last one remembered), `LatestInv` (the remembered compliance is the
secant of the latest two answers that measured one) and `PlaceInv` (a contact moved by
differences stands at its compiled place plus the last translation: the differences
telescope). From it follow `PartitionTypeCorrect`, `TheLoadIsConserved`, `ContactsDoNotDrift` and `ComplianceIsPairedRight`.
`DecompositionConserves` is why no round is refused as unconserved: the free moments are
the residual shared out like the load, and shares add up to the whole.
`CriterionAgreesWithFriction` compares a sum of capacities with the sum of demands through
their squares: all interfaces sticking bounds the one by the other (`CrossTerm`,
`SumsKeepTheRatio`), all slipping the other way. `BalancedAdvanceHasNoCouple` is the action
property.

`SumTheorems` proves what `SumFunction` computes: an integer, linear in the function,
additive, of the sign of its terms, taken apart at any point. The library's induction
theorems take an operator as a parameter, which no installed prover instantiates; but an
induction over the subsets of a finite set can be stated about a set of subsets
(`SubsetInduction`), from the library's well-foundedness of strict inclusion.

### KernelBridgeProofs

`BridgeInv` says what each stage holds, relative to the request: the request is well formed;
from `compiled` on nothing in it was refused and `compiled` is what it compiles to (`IsCompiled`);
from `solved` on `raw` is an answer of the kernel to that model, whole or spoilt
(`KernelAnswered`); an answer is what `Normalize` reads out of `raw`, and `raw` was not corrupt
(`AnswerIsRead`). The properties compare the two ends, the frame and the answer, and
are silent in between; they are not inductive without what the middle holds. What is true of a state of
this invariant is a lemma, without temporal steps, so plain requests (`Spec`) and decks
(`DeckSpec`) share it.

* `ResultsAreComplete`: `TypeOK`. An id's number is how many ids are not after it, so the
  numbering is a bijection from any finite set of ids onto 1..N whatever
  the order of `Bytewise` (`SumTheorems` counts them); a list of N entries with N different known
  numbers misses none, so coverage and uniqueness together name the frame exactly.
* `ResultsBalance`: `AcceptedResultBalances`. The loads as the kernel places them, turned back
  and scaled up, are the frame's own resultant (`SentIsApplied`: a point on a member, the middle of a
  loaded length, a local force through the triad, all survive rotation and units), and what
  the audit weighs is what the kernel returned (`ReactedIsWeighed`). So an audit of
  the one against the other is an audit of the kernel against what it was given.
* `ForcesAreAttributed`: `ConstraintForcesAreAttributed`. When exactly one constraint names
  the dof of a reported force, in the frame's names and axes, the kernel eliminated that dof for it;
  every reported force is filed under exactly one key.
* `AnswersAreInFrameAxes`: `AnswersInFrameAxes`. Fixity and stiffness are permuted, motions and
  forces rotated, and each is undone by the right inverse (`RotateIsInverted`,
  `RotateIsLinear`, `RotateScales`); a triad is orthonormal, so projecting a force on it after
  combining it is the identity. A reaction is found under its node, and `Corrupt`
  leaves each node one support.
* `TiesHoldInFrameAxes`: `ConstraintsHoldInFrameAxes` of a frame whose tie stands free
  (`TiesStandFree`). `TiedFollows` is the heart of it: the slave's dof is its master's
  rigid motion at the end of the arm, and rotation commutes with the cross product; the
  releases pass through `ReleaseOrder`, a permutation. The hypothesis leaves out
  multi-point constraints, because they do not hold (finding 3); a tied dof that an active
  support holds, because a restrained freedom stands where the support puts it and not where its
  master would; and a node tied to itself. The run's frames with a rigid link, an equal
  dof and an eccentric connection meet it, and are answered.
* `DecksAnswer`: the first four again, of requests that come with contacts, and
  `ContactsReachTheKernel`: `ContactIsWhatTheKernelIsGiven`. `DeckInv` adds that once a projection is on its deck
  the frame's loads are its loads, and these have the resultant of the contacts: the audit of `projection.rs` is
  the only reason, and it is made before the bridge; `SentIsApplied` carries it through
  compile, which audits nothing.

### EngineInitProofs

`HandleIsShared` (`OneSharedHandle`) from `HandleInv`: the handle given to every caller, and the
one every resolved promise carries, is the engine's; needed of the promises because a
caller that resumes is given its promise's handle whatever a synchronous call made
meanwhile. `RetryIsANewAttempt` (`RetryStartsOver`) from `RetryInv`: what a caller saw fail was
reset before it saw it, and the promise in flight is never one that was reset. Any number of
callers and calls.

### VendorProofs

`SwapIsAtomic`, `BuildIsWhole` and `LockHolds` from `SwapInv`, `BuildInv` and `LockInv`, which say
where the old and the new files are before each command: the trap finds one snapshot in
place, or finds the mark and the old one set aside. Any number of runs, failures and kills.
`SpecInterrupted` has no theorem: finding 4 is what a signal breaks.

### Model-checked only

* Liveness (`SearchReturns`, `EventReturns`, `CallersAreAnswered`): it rests on fairness and
  ENABLED, which the prover does not handle.
* `SolvableLoadSettles`, and `FixedPointIsUntouched` where the walk ends on a line: false of
  some requests (section 4), so there is nothing to prove for every value of the constants.
* `ConstraintsHoldInFrameAxes` outside `TiesStandFree`: false of multi-point constraints
  (finding 3), and of ties a support overrides. The run checks the multi-point
  constraints whose terms share an axis.
* `SpringsBearTheContact` and `RigidDeckIsReadBack`: the springs of a face and the samples
  of a contact are folded and flattened out of sequences, so what their sums are for every
  loading is induction over data, which no installed prover does.

## 6. Plan

Written first because it matters most: the support search, then the loop around it, the
settlement it feeds, the SDK and the scripts, the partition, the bridge and the projection;
proofs about each of
them (done). Left:

1. Proofs about the projection's own operators: that shares and springs add up
   (`SpringsBearTheContact`) and that a rigid deck is read back (`RigidDeckIsReadBack`), once
   an induction over sequences can be stated to the provers; then `LoadedAssumption` shrinks to
   its part about whole kilo-units.
2. `mv` across file systems in `vendor-stabileo.sh:67`, where a copy can be cut short.
3. The WebAssembly instance behind a handle (`runtime.ts:159`), which an asynchronous
   initialization that ends after a synchronous one replaces.

### Not modelled

* The vendored kernel: third party; the models state what the bridge relies on.
* The wasm entry: one call between two JSON conversions, no state.
* `number_format.rs`: digits of sentences, on which no decision depends.
* The translation of rustdoc to TypeScript (`generator.mjs`): a compiler; only its reads, its
  check against the lock and its writes are modelled.
* Release and packaging: calls to npm, git and GitHub, whose own state decides what a retry
  finds; nothing in this repository says what that state may be.
* Rounding and NaN anywhere: arithmetic is exact, so tolerances that only absorb rounding
  are zero or below one unit.
* In the partition, the points of a pressure field (`rotate_point`) and the interfaces between
  packages; in the projection, patches at other angles than quarters and refusals of malformed
  patches; in the bridge, members at other angles than the axes'.
