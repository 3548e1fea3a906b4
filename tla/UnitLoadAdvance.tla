--------------------------- MODULE UnitLoadAdvance ---------------------------
(***************************************************************************)
(* The partition of the unit load over its base contacts and its advance   *)
(* from one coupling round to the next: solve_unit_load_partition and      *)
(* advance_unit_load_partition (crates/stabileo-pallet/src/partition.rs).  *)
(*                                                                         *)
(* Each round the partition is handed to the pallet, the deck answers with *)
(* a displacement under every contact, and the advance measures the deck's *)
(* compliance from the last two answers, settles the body, and places      *)
(* every contact where the deck took it with the share it now carries.     *)
(*                                                                         *)
(* Shares are counted in parts of Whole, so a contact's force is in N over *)
(* Whole, its free moment in Nm over Whole squared, and a compliance in    *)
(* metres per part of the load over ComplianceDen.  The settlement itself  *)
(* is the module RigidSettlement; here it may answer any share vector, or  *)
(* none.  A base contact and its interface are one; the points of a        *)
(* pressure field, which turn with it, are left out, as are the interfaces *)
(* between packages, which an advance copies.                              *)
(***************************************************************************)
EXTENDS Integers, Sequences, FiniteSets, UnitLoadCriteria

CONSTANTS
  Contacts,      (* contact_id of every base contact                       *)
  Patch,         (* per contact: kind, center, halfX, halfZ, outerRadius   *)
  Friction,      (* friction_coefficient of the interface at a contact     *)
  Whole,         (* the parts the load is shared in                        *)
  Applied,       (* force and moment of the force applications             *)
  Decks,         (* the ways the pallet may answer a share vector          *)
  ForceTol,      (* force_tolerance_n, in N over Whole                     *)
  MomentTol,     (* moment_tolerance_nm, in Nm over Whole squared          *)
  ComplianceDen, (* the parts of a metre a compliance is counted in: every *)
                 (* change of a share divides it                           *)
  Rounds,        (* bound: coupling rounds followed                        *)
  NoResponse     (* palletResponse and previousBaseLoadShares: None        *)

ShareVectors == {s \in [Contacts -> 0 .. Whole] : SumFunction(s) = Whole}

Vector    == [x : Int, y : Int, z : Int]
Responses == [Contacts -> [translation : Vector, rotation : Vector]]

ASSUME PartitionAssumption ==
  /\ IsFiniteSet(Contacts) /\ Contacts # {}
  /\ Patch \in [Contacts -> [kind : {"POINT", "RECTANGULAR_PATCH", "ANNULAR_CHIME",
                                     "ORIENTATION_BAND"},
                             center : Vector, halfX : Nat, halfZ : Nat, outerRadius : Nat]]
  /\ Friction \in [Contacts -> Nat]
  /\ Whole \in Nat \ {0} /\ Rounds \in Nat
  /\ Applied \in [force : Vector, moment : Vector] /\ Applied.force.y < 0
  /\ Decks \subseteq [ShareVectors -> Responses]
  /\ ForceTol \in Nat \ {0} /\ MomentTol \in Nat
  /\ ComplianceDen \in Nat \ {0} /\ \A n \in 1 .. Whole : ComplianceDen % n = 0

Memories == [share : ShareVectors, compliance : [Contacts -> Nat]]

(* None is no answer, and no memory of one.                                *)
ASSUME NoneAssumption ==
  /\ NoResponse \notin Responses
  /\ NoResponse \notin Memories

VARIABLES
  unit,      (* the UnitLoadActiveState                                    *)
  answer,    (* the pallet's response being advanced on                    *)
  phase,     (* "solve", "deck", "advance", "refused" or "done"            *)
  reason,    (* the sentence of a refusal                                  *)
  round,
  answered   (* history: the shares the deck was asked with and how far it *)
             (* settled under each, round by round                         *)

vars == << unit, answer, phase, reason, round, answered >>

-----------------------------------------------------------------------------
(* The load and its decomposition.                                         *)

Abs(n) == IF n < 0 THEN -n ELSE n

(* total_normal_n: what the contacts press with together.                  *)
Weight == Abs(Applied.force.y)

(* contact_tilt_gap: the patch's own edge riding on the turning deck.  The *)
(* length of a tilt is exact for the rotations modelled.                   *)
Hypot(a, b) == CHOOSE h \in 0 .. Abs(a) + Abs(b) : h * h = a * a + b * b

TiltGap(c, turn) ==
  CASE Patch[c].kind = "POINT" -> 0
    [] Patch[c].kind = "ANNULAR_CHIME" -> Hypot(turn.x, turn.z) * Patch[c].outerRadius
    [] OTHER -> Abs(turn.x) * Patch[c].halfZ + Abs(turn.z) * Patch[c].halfX

ASSUME TiltAssumption ==
  \A deck \in Decks, s \in ShareVectors, c \in Contacts :
    TiltGap(c, deck[s][c].rotation) \in Nat

(* How far the deck's surface sank under a contact, absolutely.            *)
Sunk(c, response) == TiltGap(c, response.rotation) - response.translation.y

(* The forces of a share vector, and the couple their places do not        *)
(* explain, shared out like the load.                                      *)
ForceOn(share)    == Times(share, Applied.force)
LeverMoment(s, center) ==
  SumVectors([c \in Contacts |-> Cross(center[c], ForceOn(s[c]))])

(* A mutation: the lever is taken where the contacts were compiled.        *)
ResidualWhereCompiled(s, center) ==
  Minus(Times(Whole, Applied.moment),
        LeverMoment(s, [c \in Contacts |-> Patch[c].center]))

Residual(s, center) == Minus(Times(Whole, Applied.moment), LeverMoment(s, center))

Expected == [force |-> Times(Whole, Applied.force),
             moment |-> Times(Whole * Whole, Applied.moment)]

(* The contacts' own resultant, moments over Whole squared.                *)
Observed(u) ==
  ResultantOf([c \in Contacts |->
    [point |-> Times(Whole, u.center[c]), force |-> ForceOn(u.share[c]),
     freeMoment |-> u.freeMoment[c]]])

Conserved(u) == Audited(Expected, Observed(u), ForceTol, MomentTol)

-----------------------------------------------------------------------------
(* What the interfaces and the sliding criterion say of a share vector.    *)

Flat(v) == Vec(v.x, 0, v.z)

InterfaceState(c, share, movement) ==
  LET normal  == Weight * share
      tangent == Coulomb(Flat(ForceOn(share)), normal, Friction[c], Flat(movement), ForceTol)
  IN  [normal  |-> IF normal > ForceTol THEN "CLOSED" ELSE "OPEN",
       tangent |-> tangent.state,
       along   |-> tangent.along]

(* A mutation: shares and friction are paired by the wrong index.          *)
SlidingCapacityMispaired(s) ==
  SumFunction([c \in Contacts |->
    Weight * s[c] * Friction[CHOOSE d \in Contacts : d # c \/ Contacts = {c}]])

SlidingCapacity(s) == SumFunction([c \in Contacts |-> Weight * s[c] * Friction[c]])

SlidingDemandSquare == Whole * Whole * Square(Flat(Applied.force))

Sliding(s) == Classification(SlidingDemandSquare, SlidingCapacity(s))

-----------------------------------------------------------------------------
(* The deck's compliance under a contact, measured from two rounds.        *)

Secant(sinking, change) ==
  IF change < 0 THEN -sinking * (ComplianceDen \div (-change))
                ELSE sinking * (ComplianceDen \div change)

(* A mutation: a deck that rises under its load has a compliance too.      *)
ComplianceOfAnySign(u, response) ==
  [c \in Contacts |->
     IF u.response = NoResponse \/ u.remembered = NoResponse THEN 0
     ELSE LET change == u.share[c] - u.remembered.share[c]
          IN  IF Weight * Abs(change) <= ForceTol THEN u.remembered.compliance[c]
              ELSE Secant(Sunk(c, response[c]) - Sunk(c, u.response[c]), change)]

(* A secant that is not positive, or is read off a change of force too     *)
(* small to say anything, keeps the last good one; without two rounds      *)
(* there is none.                                                          *)
Compliance(u, response) ==
  [c \in Contacts |->
     IF u.response = NoResponse \/ u.remembered = NoResponse
       THEN 0
       ELSE LET change == u.share[c] - u.remembered.share[c]
                secant == Secant(Sunk(c, response[c]) - Sunk(c, u.response[c]), change)
            IN  IF Weight * Abs(change) <= ForceTol THEN u.remembered.compliance[c]
                ELSE IF secant > 0 THEN secant
                ELSE u.remembered.compliance[c]]

-----------------------------------------------------------------------------
(* What the settlement is asked: contacts where the deck took them, and    *)
(* the moments the bearing forces must answer, over Whole.                 *)

(* A mutation: the whole answer is taken for the movement.                 *)
DeltaAbsolute(u, response, c) == response[c]

(* contact_kinematic_delta: the movement since the last answer.            *)
Delta(u, response, c) ==
  LET last == IF u.response = NoResponse
                THEN [translation |-> Zero, rotation |-> Zero] ELSE u.response[c]
  IN  [translation |-> Minus(response[c].translation, last.translation),
       rotation    |-> Minus(response[c].rotation, last.rotation)]

Moved(u, response) ==
  [c \in Contacts |-> Plus(u.center[c], Delta(u, response, c).translation)]

(* A mutation: only one of the two levers is taken off.                    *)
MomentTargetsOneLever(u) ==
  [x |-> Whole * Applied.moment.x,
   z |-> Whole * Applied.moment.z
           + Applied.force.x * SumFunction([c \in Contacts |-> u.center[c].y * u.share[c]])]

MomentTargets(u) ==
  LET height == SumFunction([c \in Contacts |-> u.center[c].y * u.share[c]])
  IN  [x |-> Whole * Applied.moment.x - Applied.force.z * height,
       z |-> Whole * Applied.moment.z + Applied.force.x * height]

(* A mutation: the shares first remembered are never replaced.             *)
MemoryOfTheFirst(u, response) ==
  [share      |-> IF u.remembered = NoResponse THEN u.share ELSE u.remembered.share,
   compliance |-> Compliance(u, response)]

(* The shares the deck has just answered, for exactly one round.           *)
Memory(u, response) ==
  [share |-> u.share, compliance |-> Compliance(u, response)]

Advanced(u, response, s) ==
  LET center   == Moved(u, response)
      residual == Residual(s, center)
  IN  [share       |-> s,
       center      |-> center,
       orientation |-> [c \in Contacts |->
                          IF Patch[c].kind \in {"RECTANGULAR_PATCH", "ORIENTATION_BAND"}
                            THEN u.orientation[c] + Delta(u, response, c).rotation.y
                            ELSE u.orientation[c]],
       freeMoment  |-> [c \in Contacts |-> Times(s[c], residual)],
       interface   |-> [c \in Contacts |->
                          InterfaceState(c, s[c], response[c].translation)],
       sliding     |-> Sliding(s),
       response    |-> response,
       remembered  |-> Memory(u, response)]

-----------------------------------------------------------------------------
(* The rounds.                                                             *)

(* The state the application compiles, by the same decomposition.          *)
Compiled(s) ==
  LET center == [c \in Contacts |-> Patch[c].center]
  IN  [share       |-> s,
       center      |-> center,
       orientation |-> [c \in Contacts |-> 0],
       freeMoment  |-> [c \in Contacts |-> Times(s[c], Residual(s, center))],
       interface   |-> [c \in Contacts |-> InterfaceState(c, s[c], Zero)],
       sliding     |-> Sliding(s),
       response    |-> NoResponse,
       remembered  |-> NoResponse]

Init ==
  /\ \E s \in ShareVectors : unit = Compiled(s)
  /\ answer = NoResponse
  /\ phase = "solve"
  /\ reason = "none"
  /\ round = 0
  /\ answered = << >>

Refuse(why) ==
  /\ phase' = "refused"
  /\ reason' = why
  /\ UNCHANGED << unit, answer, round, answered >>

(* solve_unit_load_partition: the state's own contacts, handed over for    *)
(* its own service event and only if they still carry the load.            *)
Solve(sameEvent) ==
  /\ phase = "solve"
  /\ round < Rounds
  /\ IF ~sameEvent THEN Refuse("SERVICE_EVENT_MISMATCH")
     ELSE IF ~Conserved(unit) THEN Refuse("RESULTANT_CONSERVATION_FAILED")
     ELSE phase' = "deck" /\ UNCHANGED << unit, answer, reason, round, answered >>

(* The pallet is solved: some deck answers the shares it was handed, under *)
(* every contact or under all but some.                                    *)
DeckAnswers(deck, covered) ==
  /\ phase = "deck"
  /\ answer' = Restrict(deck[unit.share], covered)
  /\ answered' = Append(answered,
                        [share |-> unit.share,
                         sunk  |-> [c \in covered |-> Sunk(c, deck[unit.share][c])]])
  /\ phase' = "advance"
  /\ UNCHANGED << unit, reason, round >>

CoverageRefusal ==
  CASE DOMAIN answer # Contacts -> "PALLET_RESPONSE_CONTACT_COVERAGE_MISMATCH"
    [] OTHER ->
         IF unit.response # NoResponse /\ DOMAIN unit.response # Contacts
           THEN "PREVIOUS_PALLET_RESPONSE_CONTACT_COVERAGE_MISMATCH"
           ELSE "none"

AdvanceRefused ==
  /\ phase = "advance"
  /\ CoverageRefusal # "none"
  /\ Refuse(CoverageRefusal)

(* The settlement leaves no reaction worth the name.                       *)
EquilibriumLost ==
  /\ phase = "advance"
  /\ CoverageRefusal = "none"
  /\ Refuse("CONTACT_EQUILIBRIUM_LOST")

(* The settlement answers with shares s.                                   *)
Advance(s) ==
  /\ phase = "advance"
  /\ CoverageRefusal = "none"
  /\ LET next == Advanced(unit, answer, s)
     IN  IF Conserved(next)
           THEN /\ unit' = next
                /\ answer' = NoResponse
                /\ phase' = "solve"
                /\ round' = round + 1
                /\ UNCHANGED << reason, answered >>
           ELSE Refuse("RESULTANT_CONSERVATION_FAILED")

Finish ==
  /\ phase = "solve"
  /\ round = Rounds
  /\ phase' = "done"
  /\ UNCHANGED << unit, answer, reason, round, answered >>

Ended == phase \in {"refused", "done"} /\ UNCHANGED vars

Next ==
  \/ \E sameEvent \in BOOLEAN : Solve(sameEvent)
  \/ \E deck \in Decks, covered \in {Contacts} \cup {Contacts \ {c} : c \in Contacts} :
       DeckAnswers(deck, covered)
  \/ AdvanceRefused
  \/ EquilibriumLost
  \/ \E s \in ShareVectors : Advance(s)
  \/ Finish
  \/ Ended

Spec == Init /\ [][Next]_vars

-----------------------------------------------------------------------------
TypeOK ==
  /\ unit.share \in ShareVectors
  /\ unit.center \in [Contacts -> Vector]
  /\ unit.freeMoment \in [Contacts -> Vector]
  /\ unit.sliding \in {"PASS", "REVIEW", "FAIL"}
  /\ unit.remembered \in Memories \cup {NoResponse}
  /\ phase \in {"solve", "deck", "advance", "refused", "done"}
  /\ round \in 0 .. Rounds
  /\ Len(answered) \in {round, round + 1}

(* The rounds whose answer, with the one before it, measures the deck      *)
(* under a contact: the force changed enough and the deck gave way to it.  *)
ForceChange(c, i)   == answered[i].share[c] - answered[i - 1].share[c]
MeasuredSecant(c, i) ==
  Secant(answered[i].sunk[c] - answered[i - 1].sunk[c], ForceChange(c, i))
Measuring(c) ==
  {i \in 2 .. round : /\ Weight * Abs(ForceChange(c, i)) > ForceTol
                      /\ MeasuredSecant(c, i) > 0}

(* partition.rs:343: the compliance the settlement uses pairs each answer  *)
(* of the deck with the shares that answer was given to: it is the secant  *)
(* of the latest two consecutive rounds that measured one, and zero while  *)
(* none has.                                                               *)
ComplianceIsTheLatestSecant ==
  phase \in {"solve", "done"} /\ unit.remembered # NoResponse =>
    \A c \in Contacts :
      unit.remembered.compliance[c]
        = IF Measuring(c) = {} THEN 0 ELSE MeasuredSecant(c, Max(Measuring(c)))

(* partition.rs:371: moving the contacts by the difference of two answers  *)
(* every round leaves them where the last answer alone would put them,     *)
(* and turned as much; they do not drift.                                  *)
ContactsStandWhereTheDeckIs ==
  unit.response # NoResponse =>
    \A c \in Contacts :
      /\ unit.center[c] = Plus(Patch[c].center, unit.response[c].translation)
      /\ Patch[c].kind \in {"RECTANGULAR_PATCH", "ORIENTATION_BAND"} =>
           unit.orientation[c] = unit.response[c].rotation.y

(* Whatever the deck answers and however the body settles, the contacts    *)
(* carry exactly the load: no advance and no hand-over is ever refused as  *)
(* unconserved.                                                            *)
LoadIsConserved ==
  /\ Observed(unit) = Expected
  /\ reason # "RESULTANT_CONSERVATION_FAILED"

(* The sliding criterion (criteria.rs) and the interfaces (friction.rs) are *)
(* judged on the same shares: a load that fails to be held by more than    *)
(* the tolerances slips at some interface that carries part of it, and one *)
(* that is held by some friction sticks at one.                            *)
SlidingAgreesWithInterfaces ==
  LET tangent(c) == unit.interface[c].tangent
      held       == SlidingCapacity(unit.share) + Cardinality(Contacts) * ForceTol
  IN  /\ unit.sliding = "FAIL" /\ SlidingDemandSquare > held * held =>
           \E c \in Contacts : unit.share[c] > 0 /\ tangent(c) = "SLIP"
      /\ unit.sliding # "FAIL" /\ SlidingCapacity(unit.share) > 0 =>
           \E c \in Contacts : tangent(c) = "STICK"

(* What the settlement is asked is what its forces must do (partition.rs:  *)
(* 392): if the new shares meet the request's moments exactly, and the     *)
(* contacts stay at one height, then the forces alone carry both tilting   *)
(* moments and no couple is put into the deck.                             *)
BalancedSharesNeedNoCouple ==
  [][ phase = "advance" /\ phase' = "solve" =>
        LET target == MomentTargets(unit)
            s      == unit'.share
            level  == \A c, d \in Contacts : unit.center[c].y = unit'.center[d].y
            about(axis) == SumFunction([c \in Contacts |->
                             Weight * s[c] * unit'.center[c][axis]])
        IN  level /\ about("x") = -target.z /\ about("z") = target.x =>
              \A c \in Contacts : unit'.freeMoment[c].x = 0 /\ unit'.freeMoment[c].z = 0
    ]_vars
=============================================================================
