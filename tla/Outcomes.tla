------------------------------ MODULE Outcomes ------------------------------
(***************************************************************************)
(* The rules estamora-core fixes once for the whole runner: how a failure   *)
(* class is blamed, how the statuses of a corpus become one verdict, and    *)
(* which number the process exits with.                                     *)
(*                                                                         *)
(* A corpus is given by a function from its vectors to their statuses and   *)
(* the set of those that are required.  The code counts them; a verdict     *)
(* depends only on which counters are zero, so sets say the same.           *)
(***************************************************************************)
EXTENDS Naturals

VectorStatuses == {"passed", "failed", "error", "skipped"}

ConformanceStatuses == {"CONFORMANT", "PARTIALLY_CONFORMANT", "NON_CONFORMANT",
                        "INCONCLUSIVE", "EXECUTION_ERROR", "PROFILE_ERROR"}

ErrorClasses == {"ProfileError", "VectorError", "ContractResolutionError", "NetworkError",
                 "ExecutionError", "AssertionFailure", "ReportError", "CertificationError",
                 "UsageError", "InternalError"}

Blame(class) ==
  CASE class \in {"ProfileError", "VectorError"}                               -> "specification"
    [] class = "AssertionFailure"                                              -> "contract"
    [] class \in {"ContractResolutionError", "NetworkError", "ExecutionError"} -> "environment"
    [] class \in {"ReportError", "CertificationError", "InternalError"}        -> "runner"
    [] class = "UsageError"                                                    -> "invocation"

\* An assertion failure that reaches the process was never classified as a vector result.
ForErrorClass(class) ==
  CASE Blame(class) = "specification"          -> 3
    [] Blame(class) = "environment"            -> 4
    [] Blame(class) = "invocation"             -> 64
    [] Blame(class) \in {"contract", "runner"} -> 5

ExitCode(status) ==
  CASE status = "CONFORMANT"                                  -> 0
    [] status \in {"NON_CONFORMANT", "PARTIALLY_CONFORMANT"}  -> 1
    [] status = "INCONCLUSIVE"                                -> 2
    [] status = "PROFILE_ERROR"                               -> 3
    [] status = "EXECUTION_ERROR"                             -> 4

VerdictExits == {0, 1, 2}

---------------------------------------------------------------------------
Passed(statuses, required)    == {v \in required : statuses[v] = "passed"}
Failed(statuses, required)    == {v \in required : statuses[v] = "failed"}
Undecided(statuses, required) == {v \in required : statuses[v] \in {"error", "skipped"}}

\* Mutant: a failure decides the verdict although other required vectors are undecided.
VerdictFailFirst(statuses, required) ==
  LET passed    == Passed(statuses, required)
      failed    == Failed(statuses, required)
      undecided == Undecided(statuses, required)
  IN  CASE failed # {} /\ passed = {}                         -> "NON_CONFORMANT"
        [] failed # {} /\ passed # {}                         -> "PARTIALLY_CONFORMANT"
        [] failed = {} /\ undecided # {} /\ passed = {}       -> "EXECUTION_ERROR"
        [] failed = {} /\ undecided = {} /\ passed # {}       -> "CONFORMANT"
        [] failed = {} /\ (undecided # {} <=> passed # {})     -> "INCONCLUSIVE"

\* RunTally::status.  An optional vector is never part of a verdict.
Verdict(statuses, required) ==
  LET passed    == Passed(statuses, required)
      failed    == Failed(statuses, required)
      undecided == Undecided(statuses, required)
  IN  CASE undecided # {} /\ passed \cup failed = {}            -> "EXECUTION_ERROR"
        [] undecided # {} /\ passed \cup failed # {}            -> "INCONCLUSIVE"
        [] undecided = {} /\ failed # {} /\ passed = {}         -> "NON_CONFORMANT"
        [] undecided = {} /\ failed # {} /\ passed # {}         -> "PARTIALLY_CONFORMANT"
        [] undecided = {} /\ failed = {} /\ passed = {}         -> "INCONCLUSIVE"
        [] undecided = {} /\ failed = {} /\ passed # {}         -> "CONFORMANT"
=============================================================================
