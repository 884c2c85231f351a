----------------------------- MODULE Generation -----------------------------
(***************************************************************************)
(* What the exit status of a run promises to whoever looks at it, without  *)
(* a loop, a subprocess, a signal or a file that is half written.          *)
(*                                                                         *)
(* A run reads each dialect of the configuration it loaded once, as the    *)
(* sources are at that moment, and ends in a status.  To generate is       *)
(* atomic: from its beginning nothing can be said of the out directory,    *)
(* and with its success, if nobody else could touch the directory in the   *)
(* meantime, the directory holds what was read, until a run generates      *)
(* again.  To check says nothing of the directory and changes nothing.     *)
(***************************************************************************)
CONSTANTS
    Run, Dialect, Config, Input,
    Roster(_),        \* the dialects of a configuration
    Passes(_, _),     \* whether a task accepts an input
    Holds(_, _, _),   \* whether files are what a configuration and inputs call for
    Unread,           \* no input
    None              \* no run; no files that can be counted on

VARIABLES
    config,   \* the configuration
    sql,      \* each dialect's input
    phase,    \* where each run is
    task,     \* what it is to do
    loaded,   \* the configuration it loaded
    read,     \* the inputs it has read
    alone,    \* the run that has had the directory to itself
    package   \* the files that are known to be there

vars == <<config, sql, phase, task, loaded, read, alone, package>>

Init ==
    /\ config \in Config /\ sql \in [Dialect -> Input]
    /\ phase = [r \in Run |-> "before"]
    /\ task = [r \in Run |-> "none"]
    /\ loaded = [r \in Run |-> config]
    /\ read = [r \in Run |-> [d \in Dialect |-> Unread]]
    /\ alone = None /\ package = None

Becomes(r, to) == phase' = [phase EXCEPT ![r] = to]

(* A run that was killed may leave a process that goes on for a while.     *)
Busy(r) == phase[r] \in {"during", "lost"} /\ task[r] = "generate"

Begin(r, t) ==
    /\ phase[r] = "before" /\ Becomes(r, "during")
    /\ task' = [task EXCEPT ![r] = t]
    /\ loaded' = [loaded EXCEPT ![r] = config]
    /\ \/ /\ t = "check"
          /\ UNCHANGED <<alone, package>>
       \/ /\ t = "generate"
          /\ alone' = IF \E s \in Run : Busy(s) THEN None ELSE r
          /\ package' = None
    /\ UNCHANGED <<config, sql, read>>

Read(r, d) ==
    /\ phase[r] \in {"during", "lost"}
    /\ d \in Roster(loaded[r]) /\ read[r][d] = Unread
    /\ Passes(task[r], sql[d])
    /\ read' = [read EXCEPT ![r][d] = sql[d]]
    /\ UNCHANGED <<config, sql, phase, task, loaded, alone, package>>

Succeed(r) ==
    /\ phase[r] = "during" /\ Becomes(r, "ok")
    /\ \A d \in Roster(loaded[r]) : Passes(task[r], read[r][d])
    /\ \/ alone = r /\ Holds(loaded[r], read[r], package')
       \/ alone # r /\ UNCHANGED package
    /\ UNCHANGED <<config, sql, task, loaded, read, alone>>

(* Fails, is killed, or leaves its last process.                           *)
Quit(r) ==
    /\ \/ phase[r] \in {"before", "during"} /\ Becomes(r, "error")
       \/ phase[r] = "during" /\ Becomes(r, "lost")
       \/ phase[r] \in {"during", "lost"} /\ Becomes(r, "gone")
    /\ UNCHANGED <<config, sql, task, loaded, read, alone, package>>

Edit ==
    /\ config' \in Config /\ sql' \in [Dialect -> Input]
    /\ UNCHANGED <<phase, task, loaded, read, alone, package>>

Next ==
    \/ Edit
    \/ \E r \in Run :
          \/ \E t \in {"check", "generate"} : Begin(r, t)
          \/ \E d \in Dialect : Read(r, d)
          \/ Succeed(r) \/ Quit(r)

Spec == Init /\ [][Next]_vars
=============================================================================
