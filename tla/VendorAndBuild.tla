--------------------------- MODULE VendorAndBuild ---------------------------
(***************************************************************************)
(* The scripts a maintainer runs after one another on the checkout:        *)
(* src/scripts/vendor-stabileo.sh replaces vendored/ by a fresh upstream   *)
(* snapshot, src/scripts/build-wasm.sh compiles it and publishes the wasm  *)
(* (inside vendored/) and its glue (src/generated/wasm), and               *)
(* src/typegen/cli.mjs writes the bindings of the two and, told to update, *)
(* the lock they are checked against.                                      *)
(*                                                                         *)
(* One action per command whose failure or interruption can be seen on     *)
(* disk.  `set -e` sends a failing command to the EXIT trap; a kill ends   *)
(* the shell on the spot; HUP, INT and TERM run the trap once the command  *)
(* under way is done.  A tree is the upstream revision it was copied from, *)
(* and the bindings are what a revision's API makes of them; $TMPDIR is on *)
(* the file system of the checkout, so that mv renames.                    *)
(***************************************************************************)
EXTENDS Naturals

CONSTANTS
  MaxRuns,  (* bound: scripts started                                      *)
  Api       (* the API of every upstream revision                          *)

ASSUME PipelineAssumption ==
  MaxRuns \in Nat /\ Api \in [1 .. MaxRuns -> Nat]

VARIABLES
  tree,         (* vendored/                                               *)
  previous,     (* $temporary_directory/previous-vendored                  *)
  staged,       (* $temporary_directory/vendored                           *)
  license,      (* revision LICENSE was copied from, 0 for none            *)
  glue,         (* revisions of stabileo_engine.js and .d.ts               *)
  bindings,     (* src/generated/bindings.ts                               *)
  lock,         (* src/typegen/bindings.lock.json                          *)
  swapStarted,  (* swap_started                                            *)
  script,       (* the script under way, or the last one                   *)
  step,         (* next command, "idle" between scripts                    *)
  exit,         (* how the last script ended                               *)
  found,        (* vendored/ as the script under way found it              *)
  runs          (* scripts started; run n vendors upstream revision n      *)

vars == << tree, previous, staged, license, glue, bindings, lock, swapStarted,
           script, step, exit, found, runs >>

generated == << bindings, lock >>
files     == << tree, previous, staged, license, glue, generated >>

(* A directory tree: STABILEO_REVISION and stabileo-engine.wasm (0: not    *)
(* built).                                                                 *)
Revisions == 0 .. MaxRuns
NoTree    == [revision |-> 0, wasm |-> 0]

(* A generated file that is missing, or was written only in part.          *)
Torn == << >>

VendorSteps == {"acquire", "retire", "mark", "install", "unmark", "license", "report"}
BuildSteps  == {"compile", "publish_wasm", "publish_js", "publish_dts"}
BindSteps   == {"translate", "write_bindings", "write_lock"}
ExitSteps   == {"restore", "remove"}

Init ==
  /\ tree = NoTree /\ previous = NoTree /\ staged = NoTree
  /\ license = 0 /\ glue = [js |-> 0, dts |-> 0]
  /\ bindings = Torn /\ lock = Torn
  /\ swapStarted = FALSE
  /\ script = "none" /\ step = "idle" /\ exit = "none" /\ found = NoTree /\ runs = 0

(* A script starts, in a temporary directory of its own.                   *)
Start(name, first) ==
  /\ step = "idle" /\ runs < MaxRuns
  /\ script' = name /\ step' = first /\ exit' = "none"
  /\ found' = tree /\ runs' = runs + 1
  /\ previous' = NoTree /\ staged' = NoTree /\ swapStarted' = FALSE
  /\ UNCHANGED << tree, license, glue, generated >>

StartVendor == Start("vendor", "acquire")

(* build-wasm refuses without vendored/STABILEO_REVISION.                  *)
StartBuild == tree # NoTree /\ Start("build", "compile")

StartBindings == \E name \in {"generate", "update"} : Start(name, "translate")

Goes(from, to) == step = from /\ step' = to /\ UNCHANGED << script, exit, found, runs >>

(* The last command of a script, which ends well.                          *)
Ends(from, to) ==
  step = from /\ step' = to /\ exit' = "success" /\ UNCHANGED << script, found, runs >>

-----------------------------------------------------------------------------
(* vendor-stabileo.sh                                                      *)

(* Clone, check and stage the snapshot with its revision and LICENSE.      *)
Acquire ==
  /\ Goes("acquire", IF tree = NoTree THEN "install" ELSE "retire")
  /\ staged' = [revision |-> runs, wasm |-> 0]
  /\ UNCHANGED << tree, previous, license, glue, generated, swapStarted >>

Retire ==
  /\ Goes("retire", "mark")
  /\ previous' = tree /\ tree' = NoTree
  /\ UNCHANGED << staged, license, glue, generated, swapStarted >>

Mark ==
  /\ Goes("mark", "install")
  /\ swapStarted' = TRUE
  /\ UNCHANGED files

Install ==
  /\ Goes("install", "unmark")
  /\ tree' = staged /\ staged' = NoTree
  /\ UNCHANGED << previous, license, glue, generated, swapStarted >>

Unmark ==
  /\ Goes("unmark", "license")
  /\ swapStarted' = FALSE
  /\ UNCHANGED files

(* The LICENSE is staged beside its place and renamed over it.             *)
CopyLicense ==
  /\ Goes("license", "report")
  /\ license' = tree.revision
  /\ UNCHANGED << tree, previous, staged, glue, generated, swapStarted >>

(* Reads the revision back, and leaves through the EXIT trap with 0.       *)
Report ==
  /\ Ends("report", "restore")
  /\ UNCHANGED << files, swapStarted >>

-----------------------------------------------------------------------------
(* build-wasm.sh                                                           *)

(* wasm-pack, the output checks, the glue's URL, and the three copies to   *)
(* *.next files beside their destinations.                                 *)
Compile ==
  /\ Goes("compile", "publish_wasm")
  /\ UNCHANGED << files, swapStarted >>

PublishWasm ==
  /\ Goes("publish_wasm", "publish_js")
  /\ tree' = [tree EXCEPT !.wasm = tree.revision]
  /\ UNCHANGED << previous, staged, license, glue, generated, swapStarted >>

(* A mutation: glue that is already there is kept.                         *)
PublishJsOnce ==
  /\ Goes("publish_js", "publish_dts")
  /\ glue' = IF glue.js = 0 THEN [glue EXCEPT !.js = tree.revision] ELSE glue
  /\ UNCHANGED << tree, previous, staged, license, generated, swapStarted >>

PublishJs ==
  /\ Goes("publish_js", "publish_dts")
  /\ glue' = [glue EXCEPT !.js = tree.revision]
  /\ UNCHANGED << tree, previous, staged, license, generated, swapStarted >>

PublishDts ==
  /\ Ends("publish_dts", "remove")
  /\ glue' = [glue EXCEPT !.dts = tree.revision]
  /\ UNCHANGED << tree, previous, staged, license, generated, swapStarted >>

-----------------------------------------------------------------------------
(* typegen/cli.mjs                                                         *)

(* What the rustdoc of the snapshot and the declarations of the build make.*)
ApiOf(revision) == IF revision \in DOMAIN Api THEN Api[revision] ELSE 0
Semantic == << ApiOf(tree.revision), ApiOf(glue.dts) >>

(* A mutation: bindings are generated without a look at the lock.          *)
TranslateUnlocked ==
  /\ tree # NoTree /\ glue.dts # 0
  /\ Goes("translate", "write_bindings")
  /\ UNCHANGED << files, swapStarted >>

(* Both sources are read and, to generate, the lock has to agree.          *)
Translate ==
  /\ tree # NoTree /\ glue.dts # 0
  /\ script = "generate" => lock = Semantic
  /\ Goes("translate", "write_bindings")
  /\ UNCHANGED << files, swapStarted >>

WriteBindings ==
  /\ IF script = "update" THEN Goes("write_bindings", "write_lock")
                          ELSE Ends("write_bindings", "remove")
  /\ bindings' = Semantic
  /\ UNCHANGED << tree, previous, staged, license, glue, lock, swapStarted >>

WriteLock ==
  /\ Ends("write_lock", "remove")
  /\ lock' = Semantic
  /\ UNCHANGED << tree, previous, staged, license, glue, bindings, swapStarted >>

-----------------------------------------------------------------------------
(* Endings.                                                                *)

AtExit == IF step \in VendorSteps THEN "restore" ELSE "remove"

Fails == step' = AtExit /\ exit' = "failure" /\ UNCHANGED << script, found, runs >>

(* The command under way fails without effect.                             *)
Fail ==
  /\ step \in VendorSteps \cup BuildSteps \cup BindSteps
  /\ step \notin {"mark", "unmark"}   \* assignments do not fail
  /\ Fails
  /\ UNCHANGED << files, swapStarted >>

(* A file under the pen is left torn; a torn lock reads as a missing one.  *)
WriteFails ==
  /\ Fails
  /\ \/ step = "write_bindings" /\ bindings' = Torn /\ UNCHANGED lock
     \/ step = "write_lock" /\ lock' = Torn /\ UNCHANGED bindings
  /\ UNCHANGED << tree, previous, staged, license, glue, swapStarted >>

(* HUP, INT or TERM before the next command: cleanup reads $? of the last  *)
(* command, which succeeded, and exits with it.                            *)
Signal ==
  /\ step \in VendorSteps \cup BuildSteps
  /\ step' = AtExit /\ exit' = "success"
  /\ UNCHANGED << files, swapStarted, script, found, runs >>

(* A mutation: the trap only removes the temporary directory.              *)
RestoreNothing ==
  /\ step = "restore" /\ step' = "remove"
  /\ UNCHANGED << files, swapStarted, script, exit, found, runs >>

(* cleanup() of vendor-stabileo.sh: put the old snapshot back if the swap  *)
(* had taken it away and nothing took its place.                           *)
Restore ==
  /\ step = "restore" /\ step' = "remove"
  /\ IF swapStarted /\ tree = NoTree /\ previous # NoTree
       THEN tree' = previous /\ previous' = NoTree
       ELSE UNCHANGED << tree, previous >>
  /\ UNCHANGED << staged, license, glue, generated, swapStarted, script, exit, found, runs >>

(* rm -rf of the temporary directory, whatever is still in it; exit.       *)
Remove ==
  /\ step = "remove" /\ step' = "idle"
  /\ previous' = NoTree /\ staged' = NoTree
  /\ UNCHANGED << tree, license, glue, generated, swapStarted, script, exit, found, runs >>

(* SIGKILL, or the machine goes down: nothing more happens, and no later   *)
(* script looks into this one's temporary directory.                       *)
Kill ==
  /\ step # "idle"
  /\ step' = "idle" /\ exit' = "killed"
  /\ previous' = NoTree /\ staged' = NoTree
  /\ UNCHANGED << tree, license, glue, generated, swapStarted, script, found, runs >>

Next ==
  \/ StartVendor \/ Acquire \/ Retire \/ Mark \/ Install \/ Unmark \/ CopyLicense \/ Report
  \/ StartBuild \/ Compile \/ PublishWasm \/ PublishJs \/ PublishDts
  \/ StartBindings \/ Translate \/ WriteBindings \/ WriteLock
  \/ Fail \/ WriteFails \/ Restore \/ Remove \/ Kill

Spec            == Init /\ [][Next]_vars
SpecInterrupted == Init /\ [][Next \/ Signal]_vars

-----------------------------------------------------------------------------
(* README.md:54, "atomically replaces the snapshot": a script that was not *)
(* killed leaves the snapshot it found or the new one, never neither.      *)
SnapshotIsOldOrNew ==
  step = "idle" /\ exit \in {"success", "failure"} =>
    tree.revision \in {found.revision, runs}

(* A wasm, a glue and declarations that a successful build has left are of *)
(* one revision, the snapshot's, whatever mixed set an earlier failure or  *)
(* kill between the three renames had left.                                *)
BuiltSetIsMatched ==
  step = "remove" /\ exit = "success" /\ script = "build" =>
    tree.wasm = tree.revision /\ glue = [js |-> tree.revision, dts |-> tree.revision]

(* README.md:56, "Generation fails on changes to the semantic bindings     *)
(* lock": bindings that a run has ended well on are those of the snapshot  *)
(* and the build it found, and the lock says so, whatever an update that   *)
(* failed or was killed between its two writes had left.                   *)
LockedBindings ==
  step = "remove" /\ exit = "success" /\ script \in {"generate", "update"} =>
    bindings = Semantic /\ lock = Semantic
=============================================================================
