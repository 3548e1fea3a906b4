---------------------------- MODULE VendorProofs ----------------------------
(***************************************************************************)
(* What the scripts leave behind, proved for any number of runs, any API   *)
(* and any failures and kills between them.  SpecInterrupted has no        *)
(* theorem: a run shows what a signal breaks.                              *)
(***************************************************************************)
EXTENDS VendorAndBuild, TLAPS

Trees == [revision : Nat, wasm : Nat]
Glues == [js : Nat, dts : Nat]

(* The trees and the glue are typed, and the command under way belongs to  *)
(* the script under way, which has not ended before its trap runs.         *)
ScriptInv ==
  /\ tree \in Trees /\ previous \in Trees /\ staged \in Trees /\ glue \in Glues
  /\ runs \in Nat
  /\ step \in {"idle"} \cup VendorSteps \cup BuildSteps \cup BindSteps \cup ExitSteps
  /\ step # "idle" => runs # 0
  /\ step \in VendorSteps \cup {"restore"} => script = "vendor"
  /\ step \in BuildSteps => script = "build"
  /\ step \in BindSteps => script \in {"generate", "update"}
  /\ step = "write_lock" => script = "update"

(* Where the old and the new snapshot are before each command of the swap. *)
(* The trap finds one of them in its place, or finds the mark and the old  *)
(* one set aside.                                                          *)
SwapInv ==
  /\ step \in {"acquire", "retire"} \cup BuildSteps \cup BindSteps =>
       tree.revision = found.revision /\ ~swapStarted
  /\ step = "acquire" => tree = found /\ previous = NoTree
  /\ step = "retire" => tree = found /\ tree # NoTree
  /\ step \in {"retire", "mark", "install"} => staged.revision = runs
  /\ step = "mark" => tree = NoTree /\ previous = found /\ previous # NoTree
  /\ step = "install" =>
       /\ tree = NoTree
       /\ \/ found = NoTree /\ previous = NoTree
          \/ swapStarted /\ previous = found /\ previous # NoTree
  /\ step \in {"unmark", "license", "report"} => tree.revision = runs
  /\ step = "restore" =>
       \/ tree.revision \in {found.revision, runs} /\ tree # NoTree
       \/ tree = NoTree /\ found = NoTree /\ previous = NoTree
       \/ tree = NoTree /\ swapStarted /\ previous = found /\ previous # NoTree
  /\ step = "remove" => tree.revision \in {found.revision, runs}

(* The build publishes its three files one by one, and ends well behind    *)
(* the last of them.                                                       *)
BuildInv ==
  /\ step \in {"publish_js", "publish_dts"} => tree.wasm = tree.revision
  /\ step = "publish_dts" => glue.js = tree.revision

(* Behind the look at the lock, and between the two writes of an update.   *)
LockInv ==
  /\ step = "write_bindings" /\ script = "generate" => lock = Semantic
  /\ step = "write_lock" => bindings = Semantic

IInv == /\ ScriptInv /\ SwapInv /\ BuildInv /\ LockInv
        /\ SnapshotIsOldOrNew /\ BuiltSetIsMatched /\ LockedBindings

(* What the API says depends on the snapshot and the declarations alone.   *)
LEMMA SemanticStays ==
  ASSUME tree' = tree, glue' = glue PROVE Semantic' = Semantic
BY DEF Semantic, ApiOf

LEMMA StartStep ==
  ASSUME IInv, StartVendor \/ StartBuild \/ StartBindings PROVE IInv'
<1> USE DEF VendorSteps, BuildSteps, BindSteps, ExitSteps
<1>1. /\ step = "idle" /\ runs' = runs + 1 /\ exit' = "none" /\ found' = tree
      /\ previous' = NoTree /\ staged' = NoTree /\ swapStarted' = FALSE
      /\ UNCHANGED << tree, license, glue, generated >>
  BY DEF StartVendor, StartBuild, StartBindings, Start
<1>2. \/ script' = "vendor" /\ step' = "acquire"
      \/ script' = "build" /\ step' = "compile"
      \/ script' \in {"generate", "update"} /\ step' = "translate"
  BY DEF StartVendor, StartBuild, StartBindings, Start
<1>3. ScriptInv'
  BY <1>1, <1>2 DEF IInv, ScriptInv, Trees, NoTree
<1>4. SwapInv' /\ BuildInv' /\ LockInv'
  BY <1>1, <1>2 DEF SwapInv, BuildInv, LockInv
<1> QED
  BY <1>1, <1>2, <1>3, <1>4 DEF IInv, SnapshotIsOldOrNew, BuiltSetIsMatched, LockedBindings

LEMMA VendorStep ==
  ASSUME IInv, Acquire \/ Retire \/ Mark \/ Install \/ Unmark \/ CopyLicense \/ Report
  PROVE  IInv'
<1> USE DEF VendorSteps, BuildSteps, BindSteps, ExitSteps
<1>1. /\ step \in VendorSteps /\ script = "vendor"
      /\ step' \in VendorSteps \cup {"restore"}
      /\ UNCHANGED << script, found, runs, glue >>
  BY DEF Acquire, Retire, Mark, Install, Unmark, CopyLicense, Report, Goes, Ends, files, IInv, ScriptInv
<1>2. ScriptInv'
  BY <1>1 DEF IInv, ScriptInv, Acquire, Retire, Mark, Install, Unmark, CopyLicense, Report,
              Goes, Ends, files, Trees, NoTree
<1>3. SwapInv'
  <2> USE DEF SwapInv, Goes, Ends, files
  <2>1. CASE Acquire
    BY <1>1, <2>1 DEF IInv, Acquire
  <2>2. CASE Retire
    <3>1. /\ step = "retire" /\ step' = "mark" /\ previous' = tree /\ tree' = NoTree
          /\ UNCHANGED << found, runs, staged >>
      BY <1>1, <2>2 DEF Retire
    <3>2. tree = found /\ tree # NoTree /\ staged.revision = runs
      BY <3>1 DEF IInv
    <3> QED BY <3>1, <3>2 DEF NoTree
  <2>3. CASE Mark
    BY <1>1, <2>3 DEF IInv, Mark
  <2>4. CASE Install
    BY <1>1, <2>4 DEF IInv, Install
  <2>5. CASE Unmark
    BY <1>1, <2>5 DEF IInv, Unmark
  <2>6. CASE CopyLicense
    BY <1>1, <2>6 DEF IInv, CopyLicense
  <2>7. CASE Report
    <3>1. step' = "restore" /\ tree' = tree /\ runs' = runs
      BY <2>7 DEF Report
    <3>2. tree.revision = runs /\ runs # 0
      BY <2>7 DEF Report, IInv, ScriptInv
    <3> QED BY <3>1, <3>2 DEF NoTree
  <2> QED BY <2>1, <2>2, <2>3, <2>4, <2>5, <2>6, <2>7
<1>4. BuildInv' /\ LockInv'
  BY <1>1 DEF BuildInv, LockInv
<1> QED
  BY <1>1, <1>2, <1>3, <1>4 DEF IInv, SnapshotIsOldOrNew, BuiltSetIsMatched, LockedBindings

LEMMA BuildStep ==
  ASSUME IInv, Compile \/ PublishWasm \/ PublishJs \/ PublishDts
  PROVE  IInv'
<1> USE DEF VendorSteps, BuildSteps, BindSteps, ExitSteps
<1>1. /\ step \in BuildSteps /\ script = "build"
      /\ step' \in BuildSteps \cup {"remove"}
      /\ UNCHANGED << script, found, runs, previous, staged, swapStarted >>
      /\ tree'.revision = tree.revision
  BY DEF Compile, PublishWasm, PublishJs, PublishDts, Goes, Ends, files, IInv, ScriptInv, Trees
<1>2. ScriptInv'
  BY <1>1 DEF IInv, ScriptInv, Compile, PublishWasm, PublishJs, PublishDts,
              Goes, Ends, files, Trees, Glues
<1>3. SwapInv'
  BY <1>1 DEF IInv, SwapInv
<1>4. BuildInv' /\ LockInv' /\ BuiltSetIsMatched'
  BY <1>1 DEF IInv, ScriptInv, BuildInv, LockInv, BuiltSetIsMatched, Compile, PublishWasm,
              PublishJs, PublishDts, Goes, Ends, files, Trees, Glues
<1> QED
  BY <1>1, <1>2, <1>3, <1>4 DEF IInv, SnapshotIsOldOrNew, LockedBindings

LEMMA BindStep ==
  ASSUME IInv, Translate \/ WriteBindings \/ WriteLock
  PROVE  IInv'
<1> USE DEF VendorSteps, BuildSteps, BindSteps, ExitSteps
<1>1. /\ step \in BindSteps /\ script \in {"generate", "update"}
      /\ step' \in {"write_bindings", "write_lock", "remove"}
      /\ UNCHANGED << script, found, runs, tree, previous, staged, glue, swapStarted >>
  BY DEF Translate, WriteBindings, WriteLock, Goes, Ends, files, IInv, ScriptInv
<1>2. Semantic' = Semantic
  BY <1>1, SemanticStays
<1>3. ScriptInv'
  BY <1>1 DEF IInv, ScriptInv, Translate, WriteBindings, WriteLock, Goes, Ends, files
<1>4. SwapInv' /\ BuildInv'
  BY <1>1 DEF IInv, SwapInv, BuildInv
<1>5. LockInv' /\ LockedBindings'
  BY <1>1, <1>2 DEF IInv, LockInv, LockedBindings, Translate, WriteBindings, WriteLock,
                    Goes, Ends, files, generated
<1> QED
  BY <1>1, <1>3, <1>4, <1>5 DEF IInv, SnapshotIsOldOrNew, BuiltSetIsMatched

(* A failure reaches the trap with whatever the commands before it did.    *)
LEMMA FailureStep ==
  ASSUME IInv, Fail \/ WriteFails PROVE IInv'
<1> USE DEF VendorSteps, BuildSteps, BindSteps, ExitSteps
<1>1. /\ step' = AtExit /\ exit' = "failure"
      /\ step \in VendorSteps \cup BuildSteps \cup BindSteps
      /\ step \notin {"mark", "unmark"}
      /\ UNCHANGED << script, found, runs, tree, previous, staged, glue, swapStarted >>
  BY DEF Fail, WriteFails, Fails, files
<1>2. ScriptInv'
  BY <1>1 DEF IInv, ScriptInv, AtExit
<1>3. SwapInv'
  BY <1>1 DEF IInv, ScriptInv, SwapInv, AtExit, Trees, NoTree
<1> QED
  BY <1>1, <1>2, <1>3 DEF IInv, AtExit, BuildInv, LockInv, SnapshotIsOldOrNew,
                          BuiltSetIsMatched, LockedBindings

LEMMA EndStep ==
  ASSUME IInv, Restore \/ Remove \/ Kill PROVE IInv'
<1> USE DEF VendorSteps, BuildSteps, BindSteps, ExitSteps
<1>1. CASE Restore
  <2>1. /\ step = "restore" /\ step' = "remove"
        /\ UNCHANGED << script, exit, found, runs, staged, glue, swapStarted >>
    BY <1>1 DEF Restore
  <2>2. ScriptInv'
    BY <1>1, <2>1 DEF IInv, ScriptInv, Restore, Trees, NoTree
  <2>3. tree'.revision \in {found.revision, runs}
    BY <1>1 DEF IInv, SwapInv, Restore
  <2>7. SwapInv'
    BY <2>1, <2>3 DEF SwapInv
  <2>4. step' = "remove" /\ script' = "vendor"
    BY <2>1 DEF IInv, ScriptInv
  <2>5. BuildInv' /\ LockInv'
    BY <2>4 DEF BuildInv, LockInv
  <2>6. SnapshotIsOldOrNew' /\ BuiltSetIsMatched' /\ LockedBindings'
    BY <2>4 DEF SnapshotIsOldOrNew, BuiltSetIsMatched, LockedBindings
  <2> QED BY <2>2, <2>5, <2>6, <2>7 DEF IInv
<1>2. CASE Remove \/ Kill
  <2>1. /\ step' = "idle" /\ previous' = NoTree /\ staged' = NoTree
        /\ UNCHANGED << tree, glue, script, found, runs >>
        /\ exit' \in {"success", "failure"} => exit' = exit /\ step = "remove"
    BY <1>2 DEF Remove, Kill
  <2>2. ScriptInv'
    BY <2>1 DEF IInv, ScriptInv, Trees, NoTree
  <2>3. SwapInv' /\ BuildInv' /\ LockInv'
    BY <2>1 DEF SwapInv, BuildInv, LockInv
  <2>4. SnapshotIsOldOrNew'
    BY <2>1 DEF IInv, SwapInv, SnapshotIsOldOrNew
  <2> QED
    BY <2>1, <2>2, <2>3, <2>4 DEF IInv, BuiltSetIsMatched, LockedBindings
<1> QED BY <1>1, <1>2

LEMMA Inductive == Spec => []IInv
<1>1. Init => IInv
  BY DEF Init, IInv, ScriptInv, SwapInv, BuildInv, LockInv, Trees, Glues, NoTree, VendorSteps,
         BuildSteps, BindSteps, ExitSteps, SnapshotIsOldOrNew, BuiltSetIsMatched, LockedBindings
<1>2. IInv /\ [Next]_vars => IInv'
  <2> SUFFICES ASSUME IInv, [Next]_vars PROVE IInv'
    OBVIOUS
  <2>1. CASE UNCHANGED vars
    <3>1. Semantic' = Semantic
      BY <2>1, SemanticStays DEF vars
    <3> QED
      BY <2>1, <3>1 DEF vars, IInv, ScriptInv, SwapInv, BuildInv, LockInv, SnapshotIsOldOrNew,
                        BuiltSetIsMatched, LockedBindings
  <2>2. CASE Next
    BY <2>2, StartStep, VendorStep, BuildStep, BindStep, FailureStep, EndStep DEF Next
  <2> QED BY <2>1, <2>2
<1> QED BY <1>1, <1>2, PTL DEF Spec

(* A script that was not killed leaves the old snapshot or the new one.    *)
THEOREM SwapIsAtomic == Spec => []SnapshotIsOldOrNew
<1>1. IInv => SnapshotIsOldOrNew
  BY DEF IInv
<1> QED BY <1>1, Inductive, PTL

(* A build that ended well left wasm, glue and declarations of the         *)
(* snapshot's revision.                                                    *)
THEOREM BuildIsWhole == Spec => []BuiltSetIsMatched
<1>1. IInv => BuiltSetIsMatched
  BY DEF IInv
<1> QED BY <1>1, Inductive, PTL

(* Bindings a run ended well on are the snapshot's, and the lock says so.  *)
THEOREM LockHolds == Spec => []LockedBindings
<1>1. IInv => LockedBindings
  BY DEF IInv
<1> QED BY <1>1, Inductive, PTL
=============================================================================
