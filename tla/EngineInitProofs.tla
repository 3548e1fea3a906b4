-------------------------- MODULE EngineInitProofs --------------------------
(***************************************************************************)
(* One engine for every caller, and a retry that is a new attempt: proved  *)
(* for any number of callers and calls.                                    *)
(***************************************************************************)
EXTENDS EngineInit, FiniteSetTheorems, SequenceTheorems, TLAPS

Promise == [stage : Stages, handle : Nat]

(* What the variables hold.  `calls` only bounds the model.                *)
TypeInv ==
  /\ engineHandle \in Nat /\ created \in Nat /\ loaded \in BOOLEAN
  /\ promises \in Seq(Promise)
  /\ initializationPromise \in {0} \cup DOMAIN promises
  /\ awaiting \in [Callers -> {0} \cup DOMAIN promises]
  /\ answers \in [Callers -> SUBSET Nat]
  /\ failedWith \in [Callers -> SUBSET DOMAIN promises]

(* There is one handle.  What a promise resolved to and what a caller was  *)
(* given is the engine there is, and its WebAssembly instance is loaded:   *)
(* needed of the promises because a caller that resumes is given the       *)
(* handle of its promise, whatever a synchronous call made meanwhile.      *)
HandleInv ==
  /\ engineHandle # 0 => loaded
  /\ \A p \in DOMAIN promises :
       promises[p].stage = "resolved" => engineHandle # 0 /\ promises[p].handle = engineHandle
  /\ \A c \in Callers : answers[c] # {} => engineHandle # 0 /\ answers[c] = {engineHandle}

(* A rejection reaches a caller only after the handler that forgets the    *)
(* failed initialization has run: what a caller saw fail is not the        *)
(* initialization in flight.                                               *)
RetryInv ==
  /\ \A c \in Callers : \A p \in failedWith[c] : promises[p].stage = "reset"
  /\ initializationPromise # 0 => promises[initializationPromise].stage # "reset"

IInv == TypeInv /\ HandleInv /\ RetryInv

(* A promise moves on; the others stay.                                    *)
LEMMA PromiseMoves ==
  ASSUME TypeInv, NEW p \in DOMAIN promises, NEW next \in Promise,
         promises' = [promises EXCEPT ![p] = next]
  PROVE  /\ promises' \in Seq(Promise)
         /\ DOMAIN promises' = DOMAIN promises
         /\ \A q \in DOMAIN promises : promises'[q] = IF q = p THEN next ELSE promises[q]
<1>1. promises \in Seq(Promise) /\ p \in 1 .. Len(promises) /\ DOMAIN promises = 1 .. Len(promises)
  BY DEF TypeInv
<1>2. /\ promises' \in Seq(Promise) /\ Len(promises') = Len(promises)
      /\ \A q \in 1 .. Len(promises) : promises'[q] = IF q = p THEN next ELSE promises[q]
  BY <1>1, ExceptSeq
<1> QED BY <1>1, <1>2

(* An initialization is begun: a promise of its own, behind the others.    *)
LEMMA PromiseBegins ==
  ASSUME TypeInv, promises' = Append(promises, [stage |-> "source", handle |-> 0])
  PROVE  /\ promises' \in Seq(Promise)
         /\ DOMAIN promises' = DOMAIN promises \cup {Len(promises')}
         /\ Len(promises') \notin DOMAIN promises
         /\ promises'[Len(promises')] = [stage |-> "source", handle |-> 0]
         /\ \A q \in DOMAIN promises : promises'[q] = promises[q]
<1>1. promises \in Seq(Promise) /\ DOMAIN promises = 1 .. Len(promises) /\ Len(promises) \in Nat
  BY DEF TypeInv
<1>2. [stage |-> "source", handle |-> 0] \in Promise
  BY DEF Promise, Stages, InFlight
<1>3. /\ promises' \in Seq(Promise) /\ Len(promises') = Len(promises) + 1
      /\ \A q \in 1 .. Len(promises) : promises'[q] = promises[q]
      /\ promises'[Len(promises) + 1] = [stage |-> "source", handle |-> 0]
  BY <1>1, <1>2, AppendProperties
<1>4. DOMAIN promises' = 1 .. Len(promises')
  BY <1>3
<1> QED BY <1>1, <1>3, <1>4

(* Giving a caller the handle there is.                                    *)
LEMMA GivenIsTheHandle ==
  ASSUME NEW c \in Callers, NEW handle, answers \in [Callers -> SUBSET Nat],
         handle \in Nat \ {0}, Give(c, handle),
         \A d \in Callers : answers[d] = {} \/ answers[d] = {handle}
  PROVE  /\ answers' \in [Callers -> SUBSET Nat]
         /\ \A d \in Callers : answers'[d] = {} \/ answers'[d] = {handle}
<1>1. answers' = [answers EXCEPT ![c] = answers[c] \cup {handle}]
  BY DEF Give
<1>2. answers[c] \cup {handle} = {handle}
  BY Zenon
<1> QED BY <1>1, <1>2

LEMMA InitAsyncStep ==
  ASSUME IInv, NEW c \in Callers, InitAsync(c) PROVE IInv'
<1> USE DEF IInv
<1>1. UNCHANGED << engineHandle, created, loaded, failedWith >>
  BY DEF InitAsync
<1>2. CASE engineHandle # 0
  <2>1. /\ UNCHANGED << awaiting, promises, initializationPromise >>
        /\ Give(c, engineHandle)
    BY <1>2 DEF InitAsync
  <2>2. /\ answers' \in [Callers -> SUBSET Nat]
        /\ \A d \in Callers : answers'[d] = {} \/ answers'[d] = {engineHandle}
    BY <1>2, <2>1, GivenIsTheHandle DEF HandleInv, TypeInv
  <2>3. TypeInv'
    BY <1>1, <2>1, <2>2 DEF TypeInv
  <2>4. HandleInv'
    BY <1>1, <1>2, <2>1, <2>2 DEF HandleInv
  <2> QED BY <1>1, <2>1, <2>3, <2>4 DEF RetryInv
<1>3. CASE engineHandle = 0 /\ initializationPromise # 0
  <2>1. /\ UNCHANGED << answers, promises, initializationPromise >>
        /\ awaiting' = [awaiting EXCEPT ![c] = initializationPromise]
    BY <1>3 DEF InitAsync
  <2>2. TypeInv'
    BY <1>1, <2>1 DEF TypeInv
  <2> QED BY <1>1, <2>1, <2>2 DEF RetryInv, HandleInv
<1>4. CASE engineHandle = 0 /\ initializationPromise = 0
  <2>1. /\ promises' = Append(promises, [stage |-> "source", handle |-> 0])
        /\ initializationPromise' = Len(promises')
        /\ awaiting' = [awaiting EXCEPT ![c] = Len(promises')]
        /\ UNCHANGED answers
    BY <1>4 DEF InitAsync
  <2>2. /\ promises' \in Seq(Promise)
        /\ DOMAIN promises' = DOMAIN promises \cup {Len(promises')}
        /\ promises'[Len(promises')] = [stage |-> "source", handle |-> 0]
        /\ \A q \in DOMAIN promises : promises'[q] = promises[q]
    BY <2>1, PromiseBegins
  <2>3. TypeInv'
    BY <1>1, <2>1, <2>2 DEF TypeInv, Promise
  <2>4. HandleInv'
    BY <1>1, <1>4, <2>1, <2>2 DEF HandleInv
  <2>5. RetryInv'
    BY <1>1, <2>1, <2>2 DEF RetryInv, TypeInv
  <2> QED BY <2>3, <2>4, <2>5
<1> QED BY <1>2, <1>3, <1>4

LEMMA InitSyncStep ==
  ASSUME IInv, NEW c \in Callers, InitSync(c) PROVE IInv'
<1> USE DEF IInv
<1>1. UNCHANGED << initializationPromise, promises, awaiting, failedWith >>
  BY DEF InitSync
<1>2. RetryInv'
  BY <1>1 DEF RetryInv
<1>3. CASE UNCHANGED << engineHandle, created, loaded, answers >>
  BY <1>1, <1>2, <1>3 DEF TypeInv, HandleInv
<1>4. CASE engineHandle # 0 /\ Give(c, engineHandle) /\ UNCHANGED << engineHandle, created, loaded >>
  <2>1. /\ answers' \in [Callers -> SUBSET Nat]
        /\ \A d \in Callers : answers'[d] = {} \/ answers'[d] = {engineHandle}
    BY <1>4, GivenIsTheHandle DEF HandleInv, TypeInv
  <2>2. TypeInv'
    BY <1>1, <1>4, <2>1 DEF TypeInv
  <2>3. HandleInv'
    BY <1>1, <1>4, <2>1 DEF HandleInv
  <2> QED BY <1>2, <2>2, <2>3
<1>5. CASE engineHandle = 0 /\ loaded' = TRUE /\ CreateEngine /\ Give(c, engineHandle')
  <2>1. /\ engineHandle' \in Nat \ {0} /\ created' \in Nat
        /\ \A d \in Callers : answers[d] = {}
        /\ \A p \in DOMAIN promises : promises[p].stage # "resolved"
    BY <1>5 DEF CreateEngine, TypeInv, HandleInv
  <2>2. /\ answers' \in [Callers -> SUBSET Nat]
        /\ \A d \in Callers : answers'[d] = {} \/ answers'[d] = {engineHandle'}
    BY <1>5, <2>1, GivenIsTheHandle DEF TypeInv
  <2>3. TypeInv'
    BY <1>1, <1>5, <2>1, <2>2 DEF TypeInv
  <2>4. HandleInv'
    BY <1>1, <1>5, <2>1, <2>2 DEF HandleInv
  <2> QED BY <1>2, <2>3, <2>4
<1> QED BY <1>3, <1>4, <1>5 DEF InitSync

LEMMA ResumeStep ==
  ASSUME IInv, NEW c \in Callers, Resume(c) PROVE IInv'
<1> USE DEF IInv
<1>1. /\ awaiting[c] \in DOMAIN promises
      /\ awaiting' = [awaiting EXCEPT ![c] = 0]
      /\ UNCHANGED << engineHandle, initializationPromise, promises, created, loaded >>
  BY DEF Resume, TypeInv
<1>2. CASE /\ promises[awaiting[c]].stage = "resolved"
           /\ Give(c, promises[awaiting[c]].handle) /\ UNCHANGED failedWith
  <2>1. engineHandle # 0 /\ promises[awaiting[c]].handle = engineHandle
    BY <1>1, <1>2 DEF HandleInv
  <2>2. /\ answers' \in [Callers -> SUBSET Nat]
        /\ \A d \in Callers : answers'[d] = {} \/ answers'[d] = {engineHandle}
    BY <1>2, <2>1, GivenIsTheHandle DEF HandleInv, TypeInv
  <2>3. TypeInv'
    BY <1>1, <1>2, <2>2 DEF TypeInv
  <2>4. HandleInv'
    BY <1>1, <2>1, <2>2 DEF HandleInv
  <2> QED BY <1>1, <1>2, <2>3, <2>4 DEF RetryInv
<1>3. CASE /\ promises[awaiting[c]].stage = "reset" /\ UNCHANGED answers
           /\ failedWith' = [failedWith EXCEPT ![c] = @ \cup {awaiting[c]}]
  <2>1. failedWith[c] \cup {awaiting[c]} \in SUBSET DOMAIN promises
    BY <1>1 DEF TypeInv
  <2>2. TypeInv'
    BY <1>1, <1>3, <2>1 DEF TypeInv
  <2>3. RetryInv'
    BY <1>1, <1>3 DEF RetryInv, TypeInv
  <2> QED BY <1>1, <1>3, <2>2, <2>3 DEF HandleInv
<1> QED BY <1>2, <1>3 DEF Resume

(* An initialization that is neither resolved nor forgotten moves on: the  *)
(* three stages it can reach without an engine.                            *)
LEMMA AdvanceStep ==
  ASSUME IInv, NEW p \in DOMAIN promises,
         NEW stage \in {"instantiating", "rejected", "reset"},
         promises[p].stage # "reset", Advance(p, stage),
         UNCHANGED << engineHandle, created, loaded, awaiting, answers, failedWith >>,
         initializationPromise' \in {0, initializationPromise},
         stage = "reset" => initializationPromise' = 0
  PROVE  IInv'
<1> USE DEF IInv
<1> DEFINE next == [stage |-> stage, handle |-> promises[p].handle]
<1>1. promises[p] \in Promise
  <2>1. promises \in Seq(Promise) /\ p \in 1 .. Len(promises)
    BY DEF TypeInv
  <2> QED BY <2>1, ElementOfSeq
<1>2. next \in Promise
  BY <1>1 DEF Promise, Stages, InFlight
<1>3. /\ promises' \in Seq(Promise)
      /\ DOMAIN promises' = DOMAIN promises
      /\ \A q \in DOMAIN promises : promises'[q] = IF q = p THEN next ELSE promises[q]
  BY <1>2, PromiseMoves DEF Advance
<1> HIDE DEF next
<1>4. next.stage = stage
  BY DEF next
<1>5. TypeInv'
  <2>1. initializationPromise' \in {0} \cup DOMAIN promises
    BY DEF TypeInv
  <2> QED BY <1>3, <2>1 DEF TypeInv
<1>6. HandleInv'
  BY <1>3, <1>4 DEF HandleInv
<1>7. RetryInv'
  BY <1>3, <1>4 DEF RetryInv, TypeInv
<1> QED BY <1>5, <1>6, <1>7

LEMMA InstantiatedStep ==
  ASSUME IInv, NEW p \in DOMAIN promises, Instantiated(p) PROVE IInv'
<1> USE DEF IInv
<1> DEFINE next == [stage |-> "resolved", handle |-> engineHandle']
<1>1. /\ promises[p].stage = "instantiating" /\ loaded' = TRUE /\ CreateEngine
      /\ promises' = [promises EXCEPT ![p] = next]
      /\ UNCHANGED << initializationPromise, calls, awaiting, answers, failedWith >>
  BY DEF Instantiated
<1>2. /\ engineHandle' \in Nat /\ engineHandle' # 0 /\ created' \in Nat
      /\ engineHandle # 0 => engineHandle' = engineHandle
  BY <1>1 DEF CreateEngine, TypeInv
<1>3. next \in Promise /\ next.stage = "resolved" /\ next.handle = engineHandle'
  BY <1>2 DEF Promise, Stages, InFlight
<1> HIDE DEF next
<1>4. /\ promises' \in Seq(Promise)
      /\ DOMAIN promises' = DOMAIN promises
      /\ \A q \in DOMAIN promises : promises'[q] = IF q = p THEN next ELSE promises[q]
  BY <1>1, <1>3, PromiseMoves
<1>5. TypeInv'
  BY <1>1, <1>2, <1>4 DEF TypeInv, Promise
<1>6. HandleInv'
  BY <1>1, <1>2, <1>3, <1>4 DEF HandleInv
<1>7. RetryInv'
  BY <1>1, <1>3, <1>4 DEF RetryInv, TypeInv
<1> QED BY <1>5, <1>6, <1>7

LEMMA PromiseStep ==
  ASSUME IInv, NEW p \in DOMAIN promises,
         SourceArrives(p) \/ Instantiated(p) \/ Rejected(p) \/ Reset(p)
  PROVE  IInv'
<1>1. CASE SourceArrives(p)
  BY <1>1, AdvanceStep DEF SourceArrives
<1>2. CASE Rejected(p)
  BY <1>2, AdvanceStep DEF Rejected, InFlight
<1>3. CASE Reset(p)
  BY <1>3, AdvanceStep DEF Reset
<1> QED BY <1>1, <1>2, <1>3, InstantiatedStep

LEMMA Inductive == Spec => []IInv
<1>1. ASSUME Init PROVE IInv
  <2>1. promises \in Seq(Promise) /\ DOMAIN promises = {}
    BY <1>1, EmptySeq DEF Init
  <2>2. TypeInv
    BY <1>1, <2>1 DEF Init, TypeInv
  <2>3. HandleInv /\ RetryInv
    BY <1>1, <2>1 DEF Init, HandleInv, RetryInv
  <2> QED BY <2>2, <2>3 DEF IInv
<1>2. IInv /\ [Next]_vars => IInv'
  <2> SUFFICES ASSUME IInv, [Next]_vars PROVE IInv'
    OBVIOUS
  <2>1. CASE UNCHANGED vars
    BY <2>1 DEF vars, IInv, TypeInv, HandleInv, RetryInv
  <2>2. CASE Next
    BY <2>2, InitAsyncStep, InitSyncStep, ResumeStep, PromiseStep DEF Next, Progress
  <2> QED BY <2>1, <2>2
<1> QED BY <1>1, <1>2, PTL DEF Spec

(* Every handle given out, by any call of any caller, is the one handle of *)
(* the one engine there is, and its WebAssembly instance is loaded.        *)
THEOREM HandleIsShared == Spec => []OneSharedHandle
<1>1. IInv => OneSharedHandle
  <2> SUFFICES ASSUME IInv PROVE OneSharedHandle
    OBVIOUS
  <2> DEFINE given == UNION {answers[c] : c \in Callers}
  <2>1. CASE given = {}
    BY <2>1, FS_EmptySet DEF OneSharedHandle
  <2>2. CASE given # {}
    <3>1. given = {engineHandle} /\ loaded
      BY <2>2 DEF IInv, HandleInv
    <3> QED BY <3>1, FS_Singleton DEF OneSharedHandle
  <2> QED BY <2>1, <2>2
<1> QED BY <1>1, Inductive, PTL

(* No call is ever made to wait for an initialization its caller has       *)
(* already seen fail.                                                      *)
THEOREM RetryIsANewAttempt == Spec => RetryStartsOver
<1> DEFINE Fresh(c) == awaiting'[c] # awaiting[c] => awaiting'[c] \notin failedWith[c]
<1>1. ASSUME IInv, Next, NEW c \in Callers PROVE Fresh(c)
  <2>0. /\ failedWith[c] \subseteq DOMAIN promises /\ DOMAIN promises = 1 .. Len(promises)
        /\ Len(promises) \in Nat /\ awaiting \in [Callers -> {0} \cup DOMAIN promises]
        /\ initializationPromise # 0 => initializationPromise \notin failedWith[c]
    BY <1>1 DEF IInv, TypeInv, RetryInv
  <2>1. CASE \E d \in Callers : InitAsync(d)
    <3>1. PICK d \in Callers : InitAsync(d)
      BY <2>1
    <3>2. CASE engineHandle # 0 \/ c # d
      BY <2>0, <3>1, <3>2 DEF InitAsync
    <3>3. CASE engineHandle = 0 /\ c = d /\ initializationPromise # 0
      BY <2>0, <3>1, <3>3 DEF InitAsync
    <3>4. CASE engineHandle = 0 /\ c = d /\ initializationPromise = 0
      <4>1. /\ promises' = Append(promises, [stage |-> "source", handle |-> 0])
            /\ awaiting'[c] = Len(promises')
        BY <2>0, <3>1, <3>4 DEF InitAsync
      <4>2. Len(promises') \notin DOMAIN promises
        BY <1>1, <4>1, PromiseBegins DEF IInv
      <4> QED BY <2>0, <4>1, <4>2
    <3> QED BY <3>2, <3>3, <3>4
  <2>2. CASE \E d \in Callers : Resume(d)
    <3>1. PICK d \in Callers : awaiting' = [awaiting EXCEPT ![d] = 0]
      BY <2>2 DEF Resume
    <3>2. 0 \notin failedWith[c]
      BY <2>0
    <3> QED BY <2>0, <3>1, <3>2
  <2>3. CASE \E d \in Callers : InitSync(d)
    BY <2>3 DEF InitSync
  <2>4. CASE \E p \in DOMAIN promises :
               SourceArrives(p) \/ Instantiated(p) \/ Rejected(p) \/ Reset(p)
    BY <2>4 DEF SourceArrives, Instantiated, Rejected, Reset
  <2> QED BY <1>1, <2>1, <2>2, <2>3, <2>4 DEF Next, Progress
<1>2. IInv /\ [Next]_vars => [\A c \in Callers : Fresh(c)]_vars
  BY <1>1
<1> QED BY <1>2, Inductive, PTL DEF Spec, RetryStartsOver
=============================================================================
