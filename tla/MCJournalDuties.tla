--------------------------- MODULE MCJournalDuties ---------------------------
(* Instances of JournalWorkflow for TLC in which each step of a journal    *)
(* has one holder, and controllers do everything else: the states go to    *)
(* periods, statements and adjustments, not to who does what.              *)
EXTENDS JournalWorkflow, TLC

CONSTANTS clerk, reviewer, approver, poster, Controller

Staff == {clerk, reviewer, approver, poster} \cup Controller

SplitDuties ==
  [permission \in Permission |->
     CASE permission \in {"GL.JE.CREATE", "GL.JE.REVERSE", "GL.JE.RECLASS",
                          "GL.JE.EDIT",
                          "GL.JE.SUBMIT"} -> {clerk}
       [] permission \in {"GL.JE.REVIEW", "GL.JE.REJECT"} -> {reviewer}
       [] permission = "GL.JE.APPROVE" -> {approver}
       [] permission = "GL.JE.POST" -> {poster}
       [] permission \in {"GL.PERIOD.CLOSE", "GL.PERIOD.REOPEN",
                          "GL.REPORT.VIEW", "GL.REPORT.SNAPSHOT.PREPARE",
                          "GL.REPORT.SNAPSHOT.APPROVE"} -> Controller
       [] OTHER -> {}]

(* The commands compare actors, and journals, for equality only.           *)
Symmetry == Permutations(Controller) \cup Permutations(Journal)
=============================================================================
