--------------------------- MODULE KiwiPatchScript --------------------------
(***************************************************************************)
(* apply_kiwi_patches.sh: it copies the extension into net/kiwi, enables   *)
(* the disabled features, and inserts five pieces of text into files of a  *)
(* Chromium checkout, each after every line that matches the insertion's   *)
(* anchor and only if grep does not find it there yet.                     *)
(*                                                                         *)
(* Under set -e the first command that fails ends the script; it may also  *)
(* be killed.  Either way the developer runs it again, in between possibly *)
(* checking out a file afresh.  sed -i replaces a file at once or not at   *)
(* all; cp does not.  Runs do not overlap.                                 *)
(*                                                                         *)
(* External: the checkout, of which a file may be missing and an anchor    *)
(* may match no line or several.                                           *)
(***************************************************************************)
EXTENDS Integers, Sequences

CONSTANT MaxAnchors     \* bound on the lines an anchor matches

ASSUME AnchorsAssumption == MaxAnchors \in Nat

Copy == {"sources", "build", "tests"}

Insertion == {"ssl include", "ssl call", "dns include", "url include", "net include"}

\* The commands, in the order of the script.
Script == <<"sources", "build", "tests", "features",
            "ssl include", "ssl call", "dns include", "url include", "net include">>

\* The file an insertion is made in.
File == {"features.cc", "ssl_client_socket.cc", "host_resolver_manager.cc",
         "url_request_http_job.cc", "system_network_context_manager.cc"}

Target(i) ==
    CASE i \in {"ssl include", "ssl call"} -> "ssl_client_socket.cc"
      [] i = "dns include" -> "host_resolver_manager.cc"
      [] i = "url include" -> "url_request_http_job.cc"
      [] i = "net include" -> "system_network_context_manager.cc"

VARIABLES
    missing,    \* files the checkout does not have
    anchors,    \* anchors[i]: lines of the file that i's anchor matches
    copied,     \* copied[g]: how much of the group g is in net/kiwi
    features,   \* what features.cc says of the features it had disabled
    lines,      \* lines[i]: how often the text of i is in its file
    pc,         \* the command to run next; 0 when the script is not running
    outcome     \* of the last run

vars == <<missing, anchors, copied, features, lines, pc, outcome>>

Init ==
    /\ missing \in SUBSET File
    /\ anchors \in [Insertion -> 0..MaxAnchors]
    /\ copied = [g \in Copy |-> "absent"]
    /\ features = "disabled"
    /\ lines = [i \in Insertion |-> 0]
    /\ pc = 0
    /\ outcome = "none"

-----------------------------------------------------------------------------
Running(command) == pc > 0 /\ Script[pc] = command

\* The command has succeeded: on to the next, or the end of the script.
Advance ==
    IF pc = Len(Script)
      THEN pc' = 0 /\ outcome' = "complete"
      ELSE pc' = pc + 1 /\ outcome' = outcome

\* set -e.
Abort == pc' = 0 /\ outcome' = "stopped"

Start ==
    /\ pc = 0
    /\ pc' = 1
    /\ outcome' = "running"
    /\ UNCHANGED <<missing, anchors, copied, features, lines>>

CopyFiles(g) ==
    /\ Running(g)
    /\ copied' = [copied EXCEPT ![g] = "whole"]
    /\ Advance
    /\ UNCHANGED <<missing, anchors, features, lines>>

\* Faulty variant of CopyFails: the script goes on, as without set -e.
CopyFailsAndGoesOn(g) ==
    /\ Running(g)
    /\ copied' \in {copied, [copied EXCEPT ![g] = "partial"]}
    /\ Advance
    /\ UNCHANGED <<missing, anchors, features, lines>>

\* cp fails, or is killed, before its first file or between two of them.
CopyFails(g) ==
    /\ Running(g)
    /\ copied' \in {copied, [copied EXCEPT ![g] = "partial"]}
    /\ Abort
    /\ UNCHANGED <<missing, anchors, features, lines>>

\* The grep that follows the substitution only decides what is printed.
EnableFeatures ==
    /\ Running("features")
    /\ "features.cc" \notin missing
    /\ features' = "enabled"
    /\ Advance
    /\ UNCHANGED <<missing, anchors, copied, lines>>

\* Faulty variants of Insert: without the grep (as in build-kiwi.yml), and with
\* one grep for all that is inserted in a file.
InsertUnguarded(i) ==
    /\ Running(i)
    /\ Target(i) \notin missing
    /\ lines' = [lines EXCEPT ![i] = @ + anchors[i]]
    /\ Advance
    /\ UNCHANGED <<missing, anchors, copied, features>>

InsertOncePerFile(i) ==
    /\ Running(i)
    /\ Target(i) \notin missing
    /\ lines' = IF \E j \in Insertion : Target(j) = Target(i) /\ lines[j] > 0
                  THEN lines
                  ELSE [lines EXCEPT ![i] = anchors[i]]
    /\ Advance
    /\ UNCHANGED <<missing, anchors, copied, features>>

\* The text is there already (grep finds it), or sed inserts it.
Insert(i) ==
    /\ Running(i)
    /\ Target(i) \notin missing
    /\ lines' = IF lines[i] > 0 THEN lines ELSE [lines EXCEPT ![i] = anchors[i]]
    /\ Advance
    /\ UNCHANGED <<missing, anchors, copied, features>>

\* sed cannot read its file (grep's complaint about it is suppressed).
SedFails ==
    /\ \/ Running("features") /\ "features.cc" \in missing
       \/ \E i \in Insertion : Running(i) /\ Target(i) \in missing
    /\ Abort
    /\ UNCHANGED <<missing, anchors, copied, features, lines>>

Kill ==
    /\ pc > 0
    /\ Abort
    /\ UNCHANGED <<missing, anchors, copied, features, lines>>

\* The developer restores a file, or adds one that was missing.
Checkout(f) ==
    /\ pc = 0
    /\ missing' = missing \ {f}
    /\ features' = IF f = "features.cc" THEN "disabled" ELSE features
    /\ lines' = [i \in Insertion |-> IF Target(i) = f THEN 0 ELSE lines[i]]
    /\ outcome' = "none"
    /\ UNCHANGED <<anchors, copied, pc>>

Next ==
    \/ Start
    \/ \E g \in Copy : CopyFiles(g) \/ CopyFails(g)
    \/ EnableFeatures
    \/ \E i \in Insertion : Insert(i)
    \/ SedFails
    \/ Kill
    \/ \E f \in File : Checkout(f)

Spec == Init /\ [][Next]_vars

-----------------------------------------------------------------------------
\* What the script leaves in the checkout, and where it is.
PatchTypeOK ==
    /\ missing \subseteq File
    /\ anchors \in [Insertion -> 0..MaxAnchors]
    /\ copied \in [Copy -> {"absent", "partial", "whole"}]
    /\ features \in {"disabled", "enabled"}
    /\ lines \in [Insertion -> 0..MaxAnchors]
    /\ pc \in 0..Len(Script)
    /\ outcome \in {"none", "running", "stopped", "complete"}

(***************************************************************************)
(* However often the script is stopped, killed and run again, and whatever *)
(* is checked out in between, no text is inserted twice: it is in its file *)
(* once per line its anchor matches, or not at all (lines 25-64).          *)
(***************************************************************************)
AtMostOncePerAnchor == \A i \in Insertion : lines[i] \in {0, anchors[i]}

(***************************************************************************)
(* A run that reaches the end leaves everything in place, whatever the     *)
(* runs before it left undone: no guard mistakes a file patched in part,   *)
(* as ssl_client_socket.cc is between lines 28 and 32, for one patched.    *)
(***************************************************************************)
CompleteRunLeavesAll ==
    outcome = "complete" =>
        /\ \A g \in Copy : copied[g] = "whole"
        /\ features = "enabled"
        /\ \A i \in Insertion : lines[i] = anchors[i]

(***************************************************************************)
(* No file is made to refer to what is not there: text is inserted only    *)
(* while every group of files is in net/kiwi whole and the features are    *)
(* enabled, whichever runs stopped half way before (lines 13-22 before     *)
(* 25-64, under set -e).                                                   *)
(***************************************************************************)
TextComesAfterTheFiles ==
    [][\A i \in Insertion : lines'[i] > lines[i] =>
          features = "enabled" /\ \A g \in Copy : copied[g] = "whole"]_vars
=============================================================================
