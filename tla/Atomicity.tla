------------------------------ MODULE Atomicity ------------------------------
(***************************************************************************)
(* The orchestrator implements Generation: its loop, its subprocesses and  *)
(* the files they truncate and fill are one atomic step to whoever goes by *)
(* the exit status, however runs overlap, fail, are interrupted or killed. *)
(***************************************************************************)
EXTENDS Orchestrator

(* A run ends with its exit status; a killed one when its sqlc has ended.  *)
Phase(r) ==
    IF pc[r] = "idle" THEN "before"
    ELSE IF pc[r] = "done" THEN result[r]
    ELSE IF pc[r] = "orphan" \/ (pc[r] = "killed" /\ Writing(r)) THEN "lost"
    ELSE IF pc[r] = "killed" THEN "gone"
    ELSE "during"

(* The files count from the success of the run that had them to itself.    *)
Settled == owner # None /\ pc[owner] = "done" /\ result[owner] = "ok"

RosterOf(c) == c.roster

Passes(task, input) ==
    \/ input.verdict = "accepted"
    \/ task = "check" /\ input.verdict = "refused"

Holds(c, inputs, files) ==
    \A d \in c.roster :
        LET emitted == Emit(d, [roster |-> c.roster, prefix |-> c.prefix], inputs[d].analysis)
        IN  /\ files[d] = emitted[d]
            /\ Last(d, c.roster) => \A f \in SharedFile : files[f] = emitted[f]

G == INSTANCE Generation WITH
        Roster  <- RosterOf,
        phase   <- [r \in Run |-> Phase(r)],
        task    <- subcommand,
        loaded  <- cfg,
        alone   <- owner,
        package <- IF Settled THEN dir ELSE None

(***************************************************************************)
(* A generate that returns no error, alone, has made the package what its  *)
(* sources call for; a failed, interrupted, killed or overlapped one has   *)
(* promised nothing; a check takes nothing back (emit.go:28-35,            *)
(* run.go:36-54).                                                          *)
(***************************************************************************)
GenerateIsAtomic == G!Spec
=============================================================================
