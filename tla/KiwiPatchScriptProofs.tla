----------------------- MODULE KiwiPatchScriptProofs ------------------------
(***************************************************************************)
(* The script leaves a checkout patched once, in whole when it completes,  *)
(* for any number of runs, failures and lines that match an anchor.        *)
(***************************************************************************)
EXTENDS KiwiPatchScript, TLAPS

\* What a command is to bring about is so.
Done(command) ==
    /\ command \in Copy => copied[command] = "whole"
    /\ command = "features" => features = "enabled"
    /\ command \in Insertion => lines[command] = anchors[command]

\* Where a run has got to, it has done everything before.
Progress ==
    /\ pc > 0 <=> outcome = "running"
    /\ \A k \in 1..9 : k < pc => Done(Script[k])
    /\ outcome = "complete" => \A k \in 1..9 : Done(Script[k])

PatchInv == PatchTypeOK /\ AtMostOncePerAnchor /\ Progress

-----------------------------------------------------------------------------
\* The order of the commands.
LEMMA ScriptFacts ==
    /\ Len(Script) = 9
    /\ Script[1] = "sources" /\ Script[2] = "build" /\ Script[3] = "tests"
    /\ Script[4] = "features"
    /\ Script[5] = "ssl include" /\ Script[6] = "ssl call" /\ Script[7] = "dns include"
    /\ Script[8] = "url include" /\ Script[9] = "net include"
BY DEF Script

\* No command is of two kinds, and insertions come after everything else.
LEMMA CommandKinds ==
    /\ \A g \in Copy : g \notin Insertion /\ g # "features"
    /\ "features" \notin Insertion
    /\ \A k \in 1..9 : Script[k] \in Insertion => k > 4
    /\ \A g \in Copy : \E k \in 1..3 : Script[k] = g
    /\ \A i \in Insertion : \E k \in 5..9 : Script[k] = i
<1>1. /\ \A g \in Copy : g \notin Insertion /\ g # "features"
      /\ "features" \notin Insertion
  BY DEF Copy, Insertion
<1>2. \A k \in 1..9 : Script[k] \in Insertion => k > 4
  <2>1. \A k \in 1..9 : k > 4 \/ k = 1 \/ k = 2 \/ k = 3 \/ k = 4
    OBVIOUS
  <2> QED BY <2>1, ScriptFacts DEF Insertion
<1>3. \A g \in Copy : \E k \in 1..3 : Script[k] = g
  <2>1. 1 \in 1..3 /\ 2 \in 1..3 /\ 3 \in 1..3
    OBVIOUS
  <2> QED BY <2>1, ScriptFacts DEF Copy
<1>4. \A i \in Insertion : \E k \in 5..9 : Script[k] = i
  <2>1. 5 \in 5..9 /\ 6 \in 5..9 /\ 7 \in 5..9 /\ 8 \in 5..9 /\ 9 \in 5..9
    OBVIOUS
  <2> QED BY <2>1, ScriptFacts DEF Insertion
<1> QED BY <1>1, <1>2, <1>3, <1>4

(***************************************************************************)
(* A command that succeeds: it brings about what it is to, undoes nothing, *)
(* and the run goes on.                                                    *)
(***************************************************************************)
LEMMA AdvanceKeeps ==
    ASSUME PatchTypeOK, Progress, NEW command, Running(command), Advance, Done(command)',
           \A k \in 1..9 : Done(Script[k]) => Done(Script[k])'
    PROVE  /\ pc' \in 0..9 /\ outcome' \in {"running", "complete"}
           /\ Progress'
<1>1. pc \in 0..9
  BY ScriptFacts DEF PatchTypeOK
<1>2. pc \in 1..9 /\ outcome = "running" /\ Script[pc] = command
  BY <1>1 DEF Progress, Running
<1>3. \A k \in 1..9 : k <= pc => Done(Script[k])'
  <2>1. ASSUME NEW k \in 1..9, k <= pc PROVE k < pc \/ k = pc
    BY <1>2, <2>1
  <2>2. \A k \in 1..9 : k < pc => Done(Script[k])
    BY DEF Progress
  <2>3. ASSUME NEW k \in 1..9, k = pc PROVE Done(Script[k])'
    <3>1. Script[k] = command
      BY <1>2, <2>3
    <3> QED BY <3>1
  <2> QED BY <2>1, <2>2, <2>3
<1>4. CASE pc = 9
  <2>1. pc' = 0 /\ outcome' = "complete"
    BY <1>4, ScriptFacts DEF Advance
  <2>2. \A k \in 1..9 : k <= 9
    OBVIOUS
  <2>3. \A k \in 1..9 : Done(Script[k])'
    BY <1>3, <1>4, <2>2
  <2>4. \A k \in 1..9 : ~(k < pc')
    BY <2>1
  <2>5. pc' \in 0..9 /\ ~(pc' > 0)
    BY <2>1
  <2> HIDE DEF Done
  <2> QED BY <2>1, <2>3, <2>4, <2>5 DEF Progress
<1>5. CASE pc # 9
  <2>1. pc' = pc + 1 /\ outcome' = "running"
    BY <1>2, <1>5, ScriptFacts DEF Advance
  <2>2. pc' \in 0..9 /\ pc' > 0 /\ \A k \in 1..9 : k < pc' => k <= pc
    BY <1>2, <1>5, <2>1
  <2> QED BY <1>3, <2>1, <2>2 DEF Progress
<1> QED BY <1>4, <1>5

\* A run that ends before its end promises nothing.
LEMMA AbortKeeps ==
    ASSUME Abort
    PROVE  /\ pc' \in 0..9 /\ outcome' = "stopped"
           /\ Progress'
<1>1. pc' = 0 /\ outcome' = "stopped"
  BY DEF Abort
<1>2. pc' \in 0..9 /\ ~(pc' > 0) /\ \A k \in 1..9 : ~(k < pc')
  BY <1>1
<1> QED BY <1>1, <1>2 DEF Progress

\* A checkout the script has not touched.
LEMMA PatchInvInit == Init => PatchInv
<1> SUFFICES ASSUME Init PROVE PatchInv
  OBVIOUS
<1>1. /\ missing \subseteq File /\ anchors \in [Insertion -> 0..MaxAnchors]
      /\ copied = [g \in Copy |-> "absent"] /\ features = "disabled"
      /\ lines = [i \in Insertion |-> 0] /\ pc = 0 /\ outcome = "none"
  BY DEF Init
<1>2. 0 \in 0..MaxAnchors /\ 0 \in 0..9 /\ \A k \in 1..9 : ~(k < 0)
  BY AnchorsAssumption DEF AnchorsAssumption
<1>3. PatchTypeOK
  BY <1>1, <1>2, ScriptFacts DEF PatchTypeOK
<1>4. AtMostOncePerAnchor
  BY <1>1 DEF AtMostOncePerAnchor
<1>5. Progress
  BY <1>1, <1>2 DEF Progress
<1> QED BY <1>3, <1>4, <1>5 DEF PatchInv

\* Every command, failure and interruption keeps the invariant.
LEMMA PatchInvStep == PatchInv /\ [Next]_vars => PatchInv'
<1> SUFFICES ASSUME PatchInv, [Next]_vars PROVE PatchInv'
  OBVIOUS
<1>0. /\ PatchTypeOK /\ AtMostOncePerAnchor /\ Progress
      /\ copied \in [Copy -> {"absent", "partial", "whole"}]
      /\ anchors \in [Insertion -> 0..MaxAnchors] /\ lines \in [Insertion -> 0..MaxAnchors]
  BY DEF PatchInv, PatchTypeOK
<1>1. CASE Start
  <2>1. /\ UNCHANGED <<missing, anchors, copied, features, lines>>
        /\ pc' = 1 /\ outcome' = "running"
    BY <1>1 DEF Start
  <2>0. pc' \in 0..Len(Script)
    <3>1. pc' \in 0..9
      BY <2>1
    <3> QED BY <3>1, ScriptFacts
  <2>2. PatchTypeOK' /\ AtMostOncePerAnchor'
    BY <1>0, <2>0, <2>1 DEF PatchTypeOK, AtMostOncePerAnchor
  <2>3. pc' > 0 /\ \A k \in 1..9 : ~(k < pc')
    BY <2>1
  <2>4. Progress'
    BY <2>1, <2>3 DEF Progress
  <2> QED BY <2>2, <2>4 DEF PatchInv
<1>2. ASSUME NEW g \in Copy, CopyFiles(g) PROVE PatchInv'
  <2>1. /\ Running(g) /\ Advance
        /\ copied' = [copied EXCEPT ![g] = "whole"]
        /\ UNCHANGED <<missing, anchors, features, lines>>
    BY <1>2 DEF CopyFiles
  <2>2. /\ Done(g)'
        /\ \A k \in 1..9 : Done(Script[k]) => Done(Script[k])'
    BY <1>0, <2>1, CommandKinds DEF Done
  <2>3. PatchTypeOK' /\ AtMostOncePerAnchor'
    BY <1>0, <2>1, <2>2, AdvanceKeeps, ScriptFacts
       DEF PatchTypeOK, AtMostOncePerAnchor
  <2> QED BY <1>0, <2>1, <2>2, <2>3, AdvanceKeeps DEF PatchInv
<1>3. ASSUME NEW g \in Copy, CopyFails(g) PROVE PatchInv'
  <2>1. /\ Abort /\ copied' \in {copied, [copied EXCEPT ![g] = "partial"]}
        /\ UNCHANGED <<missing, anchors, features, lines>>
    BY <1>3 DEF CopyFails
  <2>2. PatchTypeOK' /\ AtMostOncePerAnchor'
    BY <1>0, <2>1, AbortKeeps, ScriptFacts
       DEF PatchTypeOK, AtMostOncePerAnchor
  <2> QED BY <2>1, <2>2, AbortKeeps DEF PatchInv
<1>4. CASE EnableFeatures
  <2>1. /\ Running("features") /\ Advance /\ features' = "enabled"
        /\ UNCHANGED <<missing, anchors, copied, lines>>
    BY <1>4 DEF EnableFeatures
  <2>2. /\ Done("features")'
        /\ \A k \in 1..9 : Done(Script[k]) => Done(Script[k])'
    BY <1>0, <2>1, CommandKinds DEF Done
  <2>3. PatchTypeOK' /\ AtMostOncePerAnchor'
    BY <1>0, <2>1, <2>2, AdvanceKeeps, ScriptFacts
       DEF PatchTypeOK, AtMostOncePerAnchor
  <2> QED BY <1>0, <2>1, <2>2, <2>3, AdvanceKeeps DEF PatchInv
<1>5. ASSUME NEW i \in Insertion, Insert(i) PROVE PatchInv'
  <2>1. /\ Running(i) /\ Advance
        /\ lines' = IF lines[i] > 0 THEN lines ELSE [lines EXCEPT ![i] = anchors[i]]
        /\ UNCHANGED <<missing, anchors, copied, features>>
    BY <1>5 DEF Insert
  <2>2. /\ anchors[i] \in 0..MaxAnchors /\ lines[i] \in {0, anchors[i]}
        /\ lines'[i] = anchors[i]
        /\ \A j \in Insertion : j # i => lines'[j] = lines[j]
        /\ lines' \in [Insertion -> 0..MaxAnchors]
    <3>1. anchors[i] \in 0..MaxAnchors /\ lines[i] \in {0, anchors[i]}
      BY <1>0 DEF AtMostOncePerAnchor
    <3> QED BY <1>0, <2>1, <3>1
  <2>3. /\ Done(i)'
        /\ \A k \in 1..9 : Done(Script[k]) => Done(Script[k])'
    BY <1>0, <2>1, <2>2, CommandKinds DEF Done
  <2>5. PatchTypeOK'
    BY <1>0, <2>1, <2>2, <2>3, AdvanceKeeps, ScriptFacts DEF PatchTypeOK
  <2>6. AtMostOncePerAnchor'
    BY <1>0, <2>1, <2>2 DEF AtMostOncePerAnchor
  <2> QED BY <1>0, <2>1, <2>3, <2>5, <2>6, AdvanceKeeps DEF PatchInv
<1>6. CASE SedFails \/ Kill
  <2>1. Abort /\ UNCHANGED <<missing, anchors, copied, features, lines>>
    BY <1>6 DEF SedFails, Kill
  <2>2. PatchTypeOK' /\ AtMostOncePerAnchor'
    BY <1>0, <2>1, AbortKeeps, ScriptFacts
       DEF PatchTypeOK, AtMostOncePerAnchor
  <2> QED BY <2>1, <2>2, AbortKeeps DEF PatchInv
<1>7. ASSUME NEW f \in File, Checkout(f) PROVE PatchInv'
  <2>1. /\ pc = 0 /\ pc' = 0 /\ outcome' = "none"
        /\ missing' = missing \ {f}
        /\ features' = IF f = "features.cc" THEN "disabled" ELSE features
        /\ lines' = [i \in Insertion |-> IF Target(i) = f THEN 0 ELSE lines[i]]
        /\ UNCHANGED <<anchors, copied>>
    BY <1>7 DEF Checkout
  <2>2. \A i \in Insertion : lines'[i] \in {0, lines[i]}
    BY <2>1
  <2>3. 0 \in 0..MaxAnchors /\ lines' \in [Insertion -> 0..MaxAnchors]
    <3>1. 0 \in 0..MaxAnchors
      BY AnchorsAssumption DEF AnchorsAssumption
    <3> QED BY <1>0, <2>1, <3>1
  <2>4. PatchTypeOK'
    BY <1>0, <2>1, <2>3, ScriptFacts DEF PatchTypeOK
  <2>5. AtMostOncePerAnchor'
    BY <1>0, <2>1, <2>2 DEF AtMostOncePerAnchor
  <2>6. ~(pc' > 0) /\ \A k \in 1..9 : ~(k < pc')
    BY <2>1
  <2>7. Progress'
    BY <2>1, <2>6 DEF Progress
  <2> QED BY <2>4, <2>5, <2>7 DEF PatchInv
<1>8. CASE UNCHANGED vars
  BY <1>8 DEF vars, PatchInv, PatchTypeOK, AtMostOncePerAnchor,
              Progress, Done
<1> QED BY <1>1, <1>2, <1>3, <1>4, <1>5, <1>6, <1>7, <1>8 DEF Next

(***************************************************************************)
(* The strengthened invariant of apply_kiwi_patches.sh.                    *)
(***************************************************************************)
THEOREM PatchInvariant == Spec => []PatchInv
<1> QED BY PatchInvInit, PatchInvStep, PTL DEF Spec

(***************************************************************************)
(* Nothing is inserted twice, however often the script is run.             *)
(***************************************************************************)
THEOREM NothingIsInsertedTwice == Spec => []AtMostOncePerAnchor
<1>1. PatchInv => AtMostOncePerAnchor
  BY DEF PatchInv
<1> QED BY <1>1, PatchInvariant, PTL

(***************************************************************************)
(* A completed run has patched the whole checkout, whatever state earlier  *)
(* runs left it in.                                                        *)
(***************************************************************************)
THEOREM CompleteRunsAreComplete == Spec => []CompleteRunLeavesAll
<1>1. PatchInv => CompleteRunLeavesAll
  <2> SUFFICES ASSUME PatchInv, outcome = "complete"
               PROVE  /\ \A g \in Copy : copied[g] = "whole"
                      /\ features = "enabled"
                      /\ \A i \in Insertion : lines[i] = anchors[i]
    BY DEF CompleteRunLeavesAll
  <2>1. \A k \in 1..9 : Done(Script[k])
    BY DEF PatchInv, Progress
  <2>2. ASSUME NEW g \in Copy PROVE copied[g] = "whole"
    <3>1. PICK k \in 1..3 : Script[k] = g
      BY CommandKinds
    <3>2. k \in 1..9
      BY <3>1
    <3> QED BY <2>1, <3>1, <3>2 DEF Done
  <2>3. features = "enabled"
    <3>1. 4 \in 1..9
      OBVIOUS
    <3> QED BY <2>1, <3>1, ScriptFacts DEF Done
  <2>4. ASSUME NEW i \in Insertion PROVE lines[i] = anchors[i]
    <3>1. PICK k \in 5..9 : Script[k] = i
      BY CommandKinds
    <3>2. k \in 1..9
      BY <3>1
    <3> QED BY <2>1, <3>1, <3>2 DEF Done
  <2> QED BY <2>2, <2>3, <2>4
<1> QED BY <1>1, PatchInvariant, PTL

(***************************************************************************)
(* Text is inserted only when the files it refers to have been copied and  *)
(* the features enabled: the run that inserts has done all that itself.    *)
(***************************************************************************)
THEOREM TextFollowsTheFiles == Spec => TextComesAfterTheFiles
<1> DEFINE Ready == features = "enabled" /\ \A g \in Copy : copied[g] = "whole"
<1>1. ASSUME PatchInv, NEW i \in Insertion, Running(i) PROVE Ready
  <2>1. PatchTypeOK /\ Progress
    BY <1>1 DEF PatchInv
  <2>2. pc \in 1..9 /\ pc > 4
    <3>1. pc \in 0..9 /\ pc > 0 /\ Script[pc] = i
      BY <1>1, <2>1, ScriptFacts DEF PatchTypeOK, Running
    <3> QED BY <3>1, CommandKinds
  <2>3. \A k \in 1..4 : k \in 1..9 /\ k < pc
    BY <2>2
  <2>4. \A k \in 1..4 : Done(Script[k])
    BY <2>1, <2>3 DEF Progress
  <2>5. features = "enabled"
    <3>1. 4 \in 1..4
      OBVIOUS
    <3> QED BY <2>4, <3>1, ScriptFacts DEF Done
  <2>6. ASSUME NEW g \in Copy PROVE copied[g] = "whole"
    <3>1. PICK k \in 1..3 : Script[k] = g
      BY CommandKinds
    <3>2. k \in 1..4
      BY <3>1
    <3> QED BY <2>4, <3>1, <3>2 DEF Done
  <2> QED BY <2>5, <2>6
<1>2. ASSUME PatchInv, Next, NEW i \in Insertion, lines'[i] > lines[i] PROVE Ready
  <2>1. /\ lines \in [Insertion -> 0..MaxAnchors]
        /\ MaxAnchors \in Nat
    BY <1>2, AnchorsAssumption DEF PatchInv, PatchTypeOK, AnchorsAssumption
  <2>2. lines[i] \in Nat /\ ~(lines[i] > lines[i]) /\ ~(0 > lines[i])
    BY <2>1
  <2>3. lines' # lines
    BY <1>2, <2>2
  <2>4. ASSUME NEW f \in File, Checkout(f) PROVE FALSE
    <3>1. lines'[i] = 0 \/ lines'[i] = lines[i]
      BY <2>4 DEF Checkout
    <3> QED BY <1>2, <2>2, <3>1
  <2>5. PICK j \in Insertion : Insert(j)
    BY <1>2, <2>3, <2>4
       DEF Next, Start, CopyFiles, CopyFails, EnableFeatures, SedFails, Kill
  <2>6. Running(j)
    BY <2>5 DEF Insert
  <2> QED BY <1>1, <1>2, <2>6
<1>3. PatchInv /\ [Next]_vars =>
        [\A i \in Insertion : lines'[i] > lines[i] => Ready]_vars
  BY <1>2
<1> QED BY <1>3, PatchInvariant, PTL DEF Spec, TextComesAfterTheFiles

(***************************************************************************)
(* The types of the script's state.                                        *)
(***************************************************************************)
THEOREM PatchTypeCorrect == Spec => []PatchTypeOK
<1>1. PatchInv => PatchTypeOK
  BY DEF PatchInv
<1> QED BY <1>1, PatchInvariant, PTL
=============================================================================
