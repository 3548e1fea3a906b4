---------------------------- MODULE DeckResponse ----------------------------
(***************************************************************************)
(* A loaded deck, from its contacts to its motion under them: the contacts *)
(* are projected onto the deck's frame (pallet/projection.rs), the frame   *)
(* goes through the kernel bridge (KernelBridge), and the motion of the    *)
(* deck under every contact is read out of the answer                      *)
(* (pallet/top_response.rs).  A frame without contacts is a plain request  *)
(* to the bridge.                                                          *)
(***************************************************************************)
EXTENDS KernelBridge, ContactProjection

CONSTANTS
  Decks,     \* the frames among Frames that have a top deck
  Loadings   \* what may stand on a deck: sequences of contacts

LoadingsOf(deck) == IF deck \in Decks THEN Loadings ELSE {<<>>}

\* The decks here bring no loads of their own, which the bridge would add to
\* the contacts' on both of its paths.  And what the audit lets through leaves
\* no rest, as a request leaves none: its shares are whole kilo-units.  The
\* loads of a projection are nodal.
ASSUME DecksAssumption ==
  \A deck \in Decks : deck.loads = <<>>
ASSUME LoadedAssumption ==
  \A deck \in Frames : \A asked \in LoadingsOf(deck) :
    LET map        == ContactMap(deck, asked)
        projection == Projection(asked, map, FaceSystems(asked, map))
        loaded     == OnFrame(deck, projection)
    IN  /\ \A n \in DOMAIN map : map[n] # <<>>
        /\ Conserved(asked, Emitted(projection.loads, loaded.nodes))
        => /\ WellFormed(loaded) /\ IsList(projection.loads)
           /\ \A l \in Range(projection.loads) : l.kind \in {"FORCE", "MOMENT"}

VARIABLES
  contacts,  \* the contacts of this request
  contactMap,\* where each bears, once the contacts are on the frame
  top        \* the motion under each contact, once it is read

deckVars == <<vars, contacts, contactMap, top>>

DeckInit ==
  /\ Asking("contacts")
  /\ contacts \in LoadingsOf(frame)
  /\ contactMap = <<>>
  /\ top = <<>>

Refuse(code) == stage' = "refused" /\ answer' = code /\ UNCHANGED <<frame, contactMap>>

\* project_package_contacts, and its result put on the frame
PutOnFrame(projection, loaded) ==
  IF Conserved(contacts, Emitted(projection.loads, loaded.nodes))
    THEN /\ contactMap' = projection.contactMap
         /\ frame' = loaded
         /\ stage' = "frame"
         /\ UNCHANGED answer
    ELSE Refuse("CONTACT_RESULTANT_CONSERVATION_FAILED")

Project ==
  /\ stage = "contacts"
  /\ \E map \in {ContactMap(frame, contacts)} :
       IF \E n \in DOMAIN map : map[n] = <<>>
         THEN Refuse("CONTACT_HAS_NO_BEARING_SURFACE")
         ELSE \E projection \in {Projection(contacts, map, FaceSystems(contacts, map))} :
                PutOnFrame(projection, OnFrame(frame, projection))
  /\ UNCHANGED <<compiled, raw, contacts, top>>

Bridge ==
  /\ Next
  /\ UNCHANGED <<contacts, contactMap, top>>

\* recover_contact_top_response
ReadTop ==
  /\ stage = "answered" /\ contacts # <<>> /\ top = <<>>
  /\ top' = [n \in DOMAIN contacts |-> TopResponse(contactMap[n], answer.nodes)]
  /\ UNCHANGED <<vars, contacts, contactMap>>

DeckNext == Project \/ Bridge \/ ReadTop

DeckSpec == DeckInit /\ [][DeckNext]_deckVars

-----------------------------------------------------------------------------
\* The loads of the kernel's model, placed by its own numbers and axes, have
\* the force and the moment of the contacts: nothing is lost or gained between
\* the partition and the kernel, over the shared board ends, the moment
\* corrections, the face and the change of basis (projection.rs audits its own
\* part, compile.rs none).
ContactIsWhatTheKernelIsGiven ==
  stage = "compiled" /\ contacts # <<>> =>
    [force  |-> InverseRotate(ToSolver(Sent.force)),
     moment |-> InverseRotate(ToSolver(Sent.moment))] = Asked(contacts)

\* The springs under a face add up to the contact's stiffness, and their
\* centre of stiffness is the weighted centre of the samples: the face sinks
\* level under a force through that centre, wherever along its boards a sample
\* lies (projection.rs: a sample's spring is split between its board's ends).
SpringsBearTheContact ==
  contactMap # <<>> =>
    \A k \in {m \in DOMAIN contacts : Presses(contacts[m])} :
      LET c == contacts[k]
          entries == contactMap[k]
          total == entries[1].total
          seats == {n \in DOMAIN frame.nodes :
                      \E t \in Range(frame.constraints) : t.slave = n /\ t.master = FaceNode(c)}
          springs == {s \in Range(frame.connectors) : s.i \in seats}
          bears(axis) == SumFunction([s \in springs |-> s.k.x * frame.nodes[s.j][axis]])
          weighted(axis) == SumFunction([n \in DOMAIN entries |-> entries[n].raw * entries[n].point[axis]])
      IN  /\ SumFunction([s \in springs |-> s.k.x]) = c.stiffness
          /\ \A axis \in {"x", "z"} : total * bears(axis) = c.stiffness * weighted(axis)

RigidMotion(p, u, at) ==
  [translation |-> Plus(u.translation, Cross(u.rotation, Minus(at, p))), rotation |-> u.rotation]

\* A deck that moved as one rigid body is read back as that motion, under
\* every contact, at the weighted centre of its samples: through the boards'
\* springs, the kernel's axes and the samples' arms (top_response.rs).
RigidDeckIsReadBack ==
  Answered /\ top # <<>> =>
    LET boards == {e \in Range(frame.elements) : e.member = "TOP_DECKBOARD"}
        deckNodes == {e.start : e \in boards} \cup {e.end : e \in boards}
        first == CHOOSE n \in deckNodes : TRUE
        rigidly(at) == RigidMotion(frame.nodes[first], answer.nodes[first], at)
    IN  (\A n \in deckNodes : answer.nodes[n] = rigidly(frame.nodes[n])) =>
          \A k \in DOMAIN contacts :
            LET entries == contactMap[k]
                mean(field) == SumVectors([n \in DOMAIN entries |->
                                 Times(Quarters * entries[n].raw, rigidly(entries[n].point)[field])])
            IN  top[k] = [translation |-> mean("translation"), rotation |-> mean("rotation")]
=============================================================================
