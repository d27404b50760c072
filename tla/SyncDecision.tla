---------------------------- MODULE SyncDecision ----------------------------
(***************************************************************************)
(* What ovirtlib.syncutil.sync does with the outcome of one attempt.        *)
(*                                                                         *)
(* exec_func either returns a result or raises an error.  The caller's      *)
(* success_criteria and error_criteria say whether the outcome is accepted  *)
(* and whether an error is terminal.  The first attempt and the attempts of *)
(* the retry loop treat an error differently: only the loop asks            *)
(* success_criteria about it, and it asks before error_criteria.            *)
(***************************************************************************)

Verdicts == {"return", "raise", "retry"}

\* Mutant: error_criteria is read the wrong way round.
FirstVerdictInverted(isError, accepted, terminal) ==
    CASE isError /\ ~terminal   -> "raise"
      [] ~isError /\ accepted   -> "return"
      [] OTHER                  -> "retry"

\* The try statement before the loop.
FirstVerdict(isError, accepted, terminal) ==
    CASE isError /\ terminal    -> "raise"
      [] ~isError /\ accepted   -> "return"
      [] OTHER                  -> "retry"

\* Mutant: error_criteria is not asked in the loop.
RetryVerdictNoTerminal(isError, accepted, terminal) ==
    IF accepted THEN "return" ELSE "retry"

\* The try statement inside the loop.
RetryVerdict(isError, accepted, terminal) ==
    CASE accepted                          -> "return"
      [] isError /\ ~accepted /\ terminal  -> "raise"
      [] OTHER                             -> "retry"

AttemptVerdict(first, isError, accepted, terminal) ==
    IF first THEN FirstVerdict(isError, accepted, terminal)
             ELSE RetryVerdict(isError, accepted, terminal)
=============================================================================
