--------------------------- MODULE RigidSettlement ---------------------------
(***************************************************************************)
(* The load body's own settlement: solve_rigid_body_settlement             *)
(* (crates/stabileo-pallet/src/unit_load/rigid_settlement.rs).             *)
(*                                                                         *)
(* A rigid load stands on unilateral springs.  Each pass solves the plane  *)
(* of the body's descent over the active contacts, drops the contact that  *)
(* pulls worst or, if none pulls, re-admits the one pressed deepest into   *)
(* the deck, and starts again; a pass that does neither returns.           *)
(*                                                                         *)
(* Arithmetic is exact: a plane is three integer numerators over one       *)
(* positive denominator, so rounding, NaN and the 1e-12 threshold on the   *)
(* determinant are out of the model.  A contact and the deck under it are  *)
(* two springs in series, k / (1 + k c); every stiffness is written over   *)
(* a common multiple of those 1 + k c, so it too is an integer.            *)
(***************************************************************************)
EXTENDS Integers, FiniteSets, FiniteSetsExt

CONSTANTS
  NumContacts,   (* base contacts, in the order of the request             *)
  Requests,      (* the requests the callers make                          *)
  Scale,         (* what every stiffness, and so every force, is           *)
                 (* multiplied by: every 1 + k c divides it                *)
  RestPlanes     (* descents and tilts, over den, a body may be at rest at *)

ASSUME SettlementAssumption ==
  /\ NumContacts \in Nat \ {0} /\ Scale \in Nat \ {0}
  /\ \A r \in Requests :
        /\ r.stiffness  \in [1 .. NumContacts -> Nat \ {0}]
        /\ r.deck       \in [1 .. NumContacts -> Int]
        /\ r.compliance \in [1 .. NumContacts -> Nat]
        /\ r.current    \in [1 .. NumContacts -> Nat]
        /\ r.spot       \in [1 .. NumContacts -> Int \X Int]
        /\ r.weight \in Nat /\ r.momentX \in Int /\ r.momentZ \in Int
        /\ \A c \in 1 .. NumContacts : Scale % (1 + r.stiffness[c] * r.compliance[c]) = 0
  /\ \A p \in RestPlanes : p \in [w : Int, wx : Int, wz : Int, den : Nat \ {0}]

Contacts == 1 .. NumContacts

VARIABLES
  request,   (* per contact stiffness_n_per_m, deck_settlement_m (deck),   *)
             (* deck_compliance_m_per_n, current_force_n and spot; the     *)
             (* resultant they must carry                                  *)
  active,    (* contacts the load still stands on                          *)
  pass,      (* _pass                                                      *)
  verdict    (* "walking", "settled" or "did_not_settle"                   *)

vars == << request, active, pass, verdict >>

SumOver(S, f(_)) == SumFunction([c \in S |-> f(c)])

X(c) == request.spot[c][1]
Z(c) == request.spot[c][2]

(* The two springs end to end: 1 + k c divides the contact's own stiffness. *)
Softening(c) == 1 + request.stiffness[c] * request.compliance[c]

Stiffness(c) == request.stiffness[c] * (Scale \div Softening(c))

(* A mutation: the deck is read where it is, not where it would be with    *)
(* this contact lifted.                                                    *)
GapLoaded(c) == request.deck[c]

(* Where the deck would be with this contact off.                          *)
Gap(c) == request.deck[c] - request.compliance[c] * request.current[c]

-----------------------------------------------------------------------------
(* The plane of one pass over the contacts in S.                           *)

(* A 3x3 matrix is the sequence of its rows, flattened.                    *)
Det(a) ==
  a[1] * (a[5] * a[9] - a[6] * a[8])
    - a[2] * (a[4] * a[9] - a[6] * a[7])
    + a[3] * (a[4] * a[8] - a[5] * a[7])

WithColumn(a, i, b) == [a EXCEPT ![i] = b[1], ![i + 3] = b[2], ![i + 6] = b[3]]

MomentMatrix(S) ==
  LET k   == SumOver(S, Stiffness)
      kx  == SumOver(S, LAMBDA c : Stiffness(c) * X(c))
      kz  == SumOver(S, LAMBDA c : Stiffness(c) * Z(c))
      kxz == SumOver(S, LAMBDA c : Stiffness(c) * X(c) * Z(c))
  IN  << k, kx, kz,
         kx, SumOver(S, LAMBDA c : Stiffness(c) * X(c) * X(c)), kxz,
         kz, kxz, SumOver(S, LAMBDA c : Stiffness(c) * Z(c) * Z(c)) >>

(* Sum F = W, Sum F x = -Mz, Sum F z = Mx.                                 *)
Target(S) ==
  << Scale * request.weight   + SumOver(S, LAMBDA c : Stiffness(c) * Gap(c)),
     -Scale * request.momentZ + SumOver(S, LAMBDA c : Stiffness(c) * Gap(c) * X(c)),
     Scale * request.momentX  + SumOver(S, LAMBDA c : Stiffness(c) * Gap(c) * Z(c)) >>

(* Contacts on a line carry no moment about it.                            *)
Degenerate(S) == Det(MomentMatrix(S)) = 0

(* level_settlement: the tilt held at zero.                                *)
LevelPlane(S) ==
  LET k == SumOver(S, Stiffness)
  IN  IF k = 0 THEN [w |-> 0, wx |-> 0, wz |-> 0, den |-> 1]
               ELSE [w |-> Target(S)[1], wx |-> 0, wz |-> 0, den |-> k]

Plane(S) ==
  IF Degenerate(S)
    THEN LevelPlane(S)
    ELSE LET a == MomentMatrix(S)
             b == Target(S)
         IN  [w   |-> Det(WithColumn(a, 1, b)),
              wx  |-> Det(WithColumn(a, 2, b)),
              wz  |-> Det(WithColumn(a, 3, b)),
              den |-> Det(a)]

(* How deep the body is in the deck at a contact, and what that presses,   *)
(* both times the plane's denominator, the force times Scale as well.      *)
Penetration(plane, c) ==
  plane.w + plane.wx * X(c) + plane.wz * Z(c) - Gap(c) * plane.den

(* A mutation: the deck's side of the spring and the body's are swapped.   *)
ReactionSwapped(plane, c) == -Stiffness(c) * Penetration(plane, c)

Reaction(plane, c) == Stiffness(c) * Penetration(plane, c)

-----------------------------------------------------------------------------
(* The walk over active sets.                                              *)

Init ==
  /\ request \in Requests
  /\ active = Contacts
  /\ pass = 0
  /\ verdict = "walking"

(* 0 ..= contacts.len() + 1                                                *)
PassBudget == NumContacts + 2

(* A mutation: one pass too many.                                          *)
InBudgetOverrun == verdict = "walking" /\ pass <= PassBudget

InBudget == verdict = "walking" /\ pass < PassBudget

Pulling(plane) == {c \in active : Reaction(plane, c) < 0}
Pressed(plane) == {c \in Contacts \ active : Penetration(plane, c) > 0}

(* A mutation: the contact that pulls least is dropped.                    *)
MildestPulling(plane, c) ==
  /\ c \in Pulling(plane)
  /\ \A d \in Pulling(plane) : Reaction(plane, c) >= Reaction(plane, d)

(* The least index among the contacts that pull hardest.                   *)
WorstPulling(plane, c) ==
  /\ c \in Pulling(plane)
  /\ \A d \in Pulling(plane) :
        \/ Reaction(plane, c) < Reaction(plane, d)
        \/ Reaction(plane, c) = Reaction(plane, d) /\ c <= d

(* The least index among the contacts pressed deepest.                     *)
Deepest(plane, c) ==
  /\ c \in Pressed(plane)
  /\ \A d \in Pressed(plane) :
        \/ Penetration(plane, c) > Penetration(plane, d)
        \/ Penetration(plane, c) = Penetration(plane, d) /\ c <= d

(* Nothing may pull: drop the worst offender, solve the smaller problem.   *)
Drop(c) ==
  /\ InBudget
  /\ WorstPulling(Plane(active), c)
  /\ active' = active \ {c}
  /\ pass' = pass + 1
  /\ UNCHANGED << request, verdict >>

(* ... and nothing may hover while the deck presses into it.               *)
Readmit(c) ==
  /\ InBudget
  /\ LET plane == Plane(active) IN Pulling(plane) = {} /\ Deepest(plane, c)
  /\ active' = active \cup {c}
  /\ pass' = pass + 1
  /\ UNCHANGED << request, verdict >>

(* A mutation: a contact once dropped stays dropped.                       *)
SettleOneWay ==
  /\ InBudget
  /\ Pulling(Plane(active)) = {}
  /\ verdict' = "settled"
  /\ UNCHANGED << request, active, pass >>

Settle ==
  /\ InBudget
  /\ LET plane == Plane(active) IN Pulling(plane) = {} /\ Pressed(plane) = {}
  /\ verdict' = "settled"
  /\ UNCHANGED << request, active, pass >>

(* CONTACT_ACTIVE_SET_DID_NOT_SETTLE                                       *)
GiveUp ==
  /\ verdict = "walking"
  /\ pass = PassBudget
  /\ verdict' = "did_not_settle"
  /\ UNCHANGED << request, active, pass >>

Returned == verdict # "walking" /\ UNCHANGED vars

Next ==
  \/ \E c \in Contacts : Drop(c) \/ Readmit(c)
  \/ Settle
  \/ GiveUp
  \/ Returned

Spec == Init /\ [][Next]_vars

-----------------------------------------------------------------------------
(* The walk's state is typed, and the plane it divides by is a proper one: *)
(* neither the determinant nor the total stiffness is ever negative.       *)
TypeOK ==
  /\ active \subseteq Contacts
  /\ pass \in 0 .. PassBudget
  /\ verdict \in {"walking", "settled", "did_not_settle"}
  /\ Plane(active).den > 0

(* A set of contacts that carries the load by itself: nothing in it pulls, *)
(* nothing outside it is pressed.                                          *)
Complementary(S) ==
  LET plane == Plane(S)
  IN  /\ \A c \in S : Reaction(plane, c) >= 0
      /\ \A c \in Contacts \ S : Penetration(plane, c) <= 0

(* What is returned carries the load: nothing pulls, nothing hovers, the   *)
(* reactions add up to the weight exactly, and to both moments unless the  *)
(* contacts left stand on a line.                                          *)
SettledCarriesTheLoad ==
  verdict = "settled" =>
    LET plane    == Plane(active)
        force(c) == Reaction(plane, c)
    IN  /\ Complementary(active)
        /\ SumOver(active, force) = Scale * request.weight * plane.den
        /\ Degenerate(active)
             \/ /\ SumOver(active, LAMBDA c : force(c) * X(c)) = -Scale * request.momentZ * plane.den
                /\ SumOver(active, LAMBDA c : force(c) * Z(c)) = Scale * request.momentX * plane.den

(* No load of the run that some contacts off a line can carry is refused:  *)
(* there, CONTACT_ACTIVE_SET_DID_NOT_SETTLE means a load that overturns.   *)
(* A property of these requests and no law: on a deck with deep steps the  *)
(* walk may drop and re-admit the same contacts until its budget is gone.  *)
SolvableLoadSettles ==
  verdict = "did_not_settle" =>
    \A S \in SUBSET Contacts : Degenerate(S) \/ ~Complementary(S)

(* The forces handed in are what the raw springs press at this plane on    *)
(* the deck where it is: load, springs and deck all agree.                 *)
AtRawEquilibrium(plane) ==
  \A c \in Contacts :
    LET depth == plane.w + plane.wx * X(c) + plane.wz * Z(c)
                   - request.deck[c] * plane.den
    IN  request.current[c] * plane.den
          = IF depth > 0 THEN request.stiffness[c] * depth ELSE 0

Unmoved ==
  LET plane == Plane(active)
  IN  \A c \in Contacts :
        Scale * request.current[c] * plane.den
          = IF c \in active THEN Reaction(plane, c) ELSE 0

CurrentCarriesTheLoad ==
  LET force(c) == request.current[c]
  IN  /\ SumOver(Contacts, force) = request.weight
      /\ SumOver(Contacts, LAMBDA c : force(c) * X(c)) = -request.momentZ
      /\ SumOver(Contacts, LAMBDA c : force(c) * Z(c)) = request.momentX

(* "The fixed point is untouched": a body at rest on its raw springs, on   *)
(* contacts off a line, is handed back the forces it stands with, whatever *)
(* compliance was measured under them.  A law wherever the walk ends off a *)
(* line; that it does not strand a resting body on a line is a property of *)
(* the run's requests.                                                     *)
FixedPointIsUntouched ==
  /\ verdict = "settled"
  /\ \E p \in RestPlanes : AtRawEquilibrium(p)
  /\ CurrentCarriesTheLoad
  /\ ~Degenerate({c \in Contacts : request.current[c] > 0})
  => Unmoved

(* The last contact of a load that weighs anything is never dropped.       *)
LoadKeepsStanding == request.weight > 0 => active # {}
=============================================================================
