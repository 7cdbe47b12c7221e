------------------------------ MODULE Worklist ------------------------------
(***************************************************************************)
(* What one analysis run promises its caller, whatever the schedule of the *)
(* goroutines inside it: every unit of work (a package job or a program    *)
(* group) is analysed exactly once, its findings enter the report exactly  *)
(* once, and the report is handed out only when nothing is left to do.     *)
(* CheckPool implements this specification.                                *)
(***************************************************************************)
CONSTANT Units          \* the units of work of the run

VARIABLES left,         \* units whose findings are not in the report yet
          report,       \* units whose findings are in the report
          handedOut     \* RunPlan has returned the report to its caller

vars == <<left, report, handedOut>>

Init == /\ left = Units
        /\ report = {}
        /\ handedOut = FALSE

Analyse(u) == /\ u \in left
              /\ ~handedOut
              /\ left' = left \ {u}
              /\ report' = report \cup {u}
              /\ UNCHANGED handedOut

HandOut == /\ left = {}
           /\ ~handedOut
           /\ handedOut' = TRUE
           /\ UNCHANGED <<left, report>>

Next == HandOut \/ \E u \in Units : Analyse(u)

Spec == Init /\ [][Next]_vars
=============================================================================
