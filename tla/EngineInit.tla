----------------------------- MODULE EngineInit -----------------------------
(***************************************************************************)
(* Initialization of the SDK: initStabileoEngine and                       *)
(* initStabileoEngineSync (src/runtime.ts) called again and again by       *)
(* several callers of one JavaScript realm.                                *)
(*                                                                         *)
(* An asynchronous call hands out the handle, joins the initialization in  *)
(* flight, or starts one: it awaits its source, awaits the generated glue, *)
(* and creates the engine.  What runs between two awaits is one action.    *)
(* The glue and the network are external: each may succeed or fail.  A     *)
(* promise is its number in `promises`; the engine handle is the number of *)
(* the createEngine call that made it.                                     *)
(***************************************************************************)
EXTENDS Naturals, Sequences, FiniteSets

CONSTANTS
  Callers,    (* independent callers                                       *)
  MaxCalls    (* calls each of them makes                                  *)

ASSUME CallsAssumption == MaxCalls \in Nat

VARIABLES
  engineHandle,           (* 0: undefined                                  *)
  initializationPromise,  (* 0: undefined                                  *)
  promises,    (* initializations begun, each with its stage and its value *)
  created,     (* engines createEngine has made                            *)
  loaded,      (* the glue holds a WebAssembly instance                    *)
  calls,       (* calls each caller has made                               *)
  awaiting,    (* promise a caller awaits, 0: none                         *)
  answers,     (* handles a caller was given                               *)
  failedWith   (* promises a caller saw rejected                           *)

vars == << engineHandle, initializationPromise, promises, created, loaded,
           calls, awaiting, answers, failedWith >>

InFlight == {"source", "instantiating"}
Stages   == InFlight \cup {"resolved", "rejected", "reset"}

Init ==
  /\ engineHandle = 0 /\ initializationPromise = 0
  /\ promises = << >> /\ created = 0 /\ loaded = FALSE
  /\ calls = [c \in Callers |-> 0] /\ awaiting = [c \in Callers |-> 0]
  /\ answers = [c \in Callers |-> {}] /\ failedWith = [c \in Callers |-> {}]

Give(c, handle) == answers' = [answers EXCEPT ![c] = @ \cup {handle}]

(* A mutation: the memory of an engine already made is not consulted.      *)
CreateEngineAnew ==
  engineHandle' = created + 1 /\ created' = created + 1

(* createEngine: the engine there is, or a new one.                        *)
CreateEngine ==
  IF engineHandle # 0
    THEN UNCHANGED << engineHandle, created >>
    ELSE engineHandle' = created + 1 /\ created' = created + 1

Advance(p, stage) == promises' = [promises EXCEPT ![p] = [stage |-> stage, handle |-> @.handle]]

-----------------------------------------------------------------------------
(* The callers.                                                            *)

MayCall(c) ==
  /\ awaiting[c] = 0
  /\ calls[c] < MaxCalls
  /\ calls' = [calls EXCEPT ![c] = @ + 1]

(* initStabileoEngine                                                      *)
InitAsync(c) ==
  /\ MayCall(c)
  /\ IF engineHandle # 0
       THEN /\ Give(c, engineHandle)
            /\ UNCHANGED << awaiting, promises, initializationPromise >>
       ELSE /\ UNCHANGED answers
            /\ IF initializationPromise # 0
                 THEN /\ awaiting' = [awaiting EXCEPT ![c] = initializationPromise]
                      /\ UNCHANGED << promises, initializationPromise >>
                 ELSE /\ promises' = Append(promises, [stage |-> "source", handle |-> 0])
                      /\ initializationPromise' = Len(promises')
                      /\ awaiting' = [awaiting EXCEPT ![c] = Len(promises')]
  /\ UNCHANGED << engineHandle, created, loaded, failedWith >>

(* initStabileoEngineSync, which never looks at an initialization in       *)
(* flight; a module the glue refuses throws and leaves nothing behind.     *)
InitSync(c) ==
  /\ MayCall(c)
  /\ \/ /\ engineHandle # 0
        /\ Give(c, engineHandle)
        /\ UNCHANGED << engineHandle, created, loaded >>
     \/ /\ engineHandle = 0
        /\ loaded' = TRUE
        /\ CreateEngine
        /\ Give(c, engineHandle')
     \/ /\ engineHandle = 0
        /\ UNCHANGED << engineHandle, created, loaded, answers >>
  /\ UNCHANGED << initializationPromise, promises, awaiting, failedWith >>

(* A mutation: a failure is swallowed and its waiters never hear of it.    *)
ResumeOnSuccess(c) ==
  /\ awaiting[c] # 0
  /\ promises[awaiting[c]].stage = "resolved"
  /\ Give(c, promises[awaiting[c]].handle)
  /\ awaiting' = [awaiting EXCEPT ![c] = 0]
  /\ UNCHANGED << engineHandle, initializationPromise, promises, created, loaded,
                  calls, failedWith >>

(* A caller resumes with the outcome of the promise it awaited.  Its       *)
(* reaction was registered after the handler that resets a failed          *)
(* initialization, and runs after it.                                      *)
Resume(c) ==
  /\ awaiting[c] # 0
  /\ LET p == awaiting[c] IN
       \/ /\ promises[p].stage = "resolved"
          /\ Give(c, promises[p].handle)
          /\ UNCHANGED failedWith
       \/ /\ promises[p].stage = "reset"
          /\ failedWith' = [failedWith EXCEPT ![c] = @ \cup {p}]
          /\ UNCHANGED answers
  /\ awaiting' = [awaiting EXCEPT ![c] = 0]
  /\ UNCHANGED << engineHandle, initializationPromise, promises, created, loaded, calls >>

-----------------------------------------------------------------------------
(* One initialization.                                                     *)

(* await (options.wasm ?? defaultWasmSource())                             *)
SourceArrives(p) ==
  /\ promises[p].stage = "source"
  /\ Advance(p, "instantiating")
  /\ UNCHANGED << engineHandle, initializationPromise, created, loaded, calls,
                  awaiting, answers, failedWith >>

(* await initializeWasm(...); return createEngine()                        *)
Instantiated(p) ==
  /\ promises[p].stage = "instantiating"
  /\ loaded' = TRUE
  /\ CreateEngine
  /\ promises' = [promises EXCEPT ![p] = [stage |-> "resolved", handle |-> engineHandle']]
  /\ UNCHANGED << initializationPromise, calls, awaiting, answers, failedWith >>

(* No source, an HTTP error, bytes the glue refuses.                       *)
Rejected(p) ==
  /\ promises[p].stage \in InFlight
  /\ Advance(p, "rejected")
  /\ UNCHANGED << engineHandle, initializationPromise, created, loaded, calls,
                  awaiting, answers, failedWith >>

(* A mutation: the failed promise stays.                                   *)
ResetForgotten(p) ==
  /\ promises[p].stage = "rejected"
  /\ Advance(p, "reset")
  /\ UNCHANGED << engineHandle, initializationPromise, created, loaded, calls,
                  awaiting, answers, failedWith >>

(* initializationPromise.catch(...)                                        *)
Reset(p) ==
  /\ promises[p].stage = "rejected"
  /\ Advance(p, "reset")
  /\ initializationPromise' = 0
  /\ UNCHANGED << engineHandle, created, loaded, calls, awaiting, answers, failedWith >>

(* What the event loop and the network do without the callers.             *)
Progress ==
  \/ \E p \in DOMAIN promises : SourceArrives(p) \/ Instantiated(p) \/ Rejected(p) \/ Reset(p)
  \/ \E c \in Callers : Resume(c)

Next == Progress \/ \E c \in Callers : InitAsync(c) \/ InitSync(c)

Spec == Init /\ [][Next]_vars /\ WF_vars(Progress)

-----------------------------------------------------------------------------
(* "async, concurrent, repeated, and sync calls share one engine handle"   *)
(* (README.md): whoever was answered, whenever and by whichever call, was  *)
(* given the same handle, and one whose WebAssembly instance is there.     *)
OneSharedHandle ==
  LET given == UNION {answers[c] : c \in Callers}
  IN  Cardinality(given) <= 1 /\ (given # {} => loaded /\ given = {engineHandle})

(* A caller that saw its initialization fail and calls again is not handed *)
(* the same failure: the retry starts over, or joins a newer attempt.      *)
RetryStartsOver ==
  [][\A c \in Callers : awaiting'[c] # awaiting[c] => awaiting'[c] \notin failedWith[c]]_vars

(* Every caller that awaits an initialization is answered.                 *)
CallersAreAnswered == \A c \in Callers : awaiting[c] # 0 ~> awaiting[c] = 0
=============================================================================
