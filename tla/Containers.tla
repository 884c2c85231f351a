----------------------------- MODULE Containers -----------------------------
(***************************************************************************)
(* The life of one container-backed test: internal/containers, with        *)
(* pgtest and mysqltest on top of it.                                      *)
(*                                                                         *)
(* A test starts a container, retrying with exponential backoff; opens a   *)
(* pool against it; pings until the server answers; runs its body, which   *)
(* may register parallel subtests; and cleans up when all of them are      *)
(* done, last registered first.                                            *)
(*                                                                         *)
(* Time passes in the two sleeps only, so a server has at least the time   *)
(* modelled here.  A call that takes a context returns once the context is *)
(* done, and until then may take forever.  What the daemon, the server and *)
(* package testing do is modelled from how the code uses them.             *)
(***************************************************************************)
EXTENDS Naturals, Sequences

CONSTANTS
    StartAttempts,  \* calls of start before a test gives up
    StartDelay,     \* the first delay between two of them
    ReadyAttempts,  \* pings before a test gives up
    ReadyDelay,     \* the first delay between two of them
    ReadyMaxDelay,  \* the longest
    Patience,       \* how long a straggler is waited for, as documented
    Lags,           \* when a started server may begin or cease to answer
    Subtest         \* the parallel subtests a body may register

Attempt == 1..StartAttempts

(* The images run an init pass against a temporary server and then restart *)
(* it: a server answers from boot until restart, and from ready on.        *)
Server == {s \in [boot : Lags, restart : Lags, ready : Lags] :
             s.boot <= s.restart /\ s.restart <= s.ready}

ASSUME ContainersAssumption ==
    /\ StartAttempts \in Nat \ {0} /\ StartDelay \in Nat
    /\ ReadyAttempts \in Nat \ {0} /\ ReadyDelay \in Nat /\ ReadyMaxDelay \in Nat
    /\ Lags \subseteq Nat

VARIABLES
    pc,        \* where the test is
    result,    \* whether it has failed
    ctx,       \* its context
    attempt,   \* the attempt under way, to start or to ping
    delay,     \* the delay before the next one
    clock,     \* the time slept since start succeeded, or since the test began
    daemon,    \* whether the daemon answers a Terminate in time
    machine,   \* the container each call of start made
    owned,     \* the call whose container Run owns, or 0
    server,    \* when its server answers
    pool,      \* the pool against it
    cleanups,  \* the registered cleanups, in order of registration
    subtests   \* the parallel subtests

vars == <<pc, result, ctx, attempt, delay, clock, daemon, machine, owned,
          server, pool, cleanups, subtests>>

Place == {"start", "backoff", "open", "ping", "pause", "body", "drain",
          "cleanup", "over"}

TypeOK ==
    /\ pc \in Place
    /\ result \in {"ok", "failed", "gaveUp"}
    /\ ctx \in {"live", "done"}
    /\ attempt \in Nat /\ delay \in Nat /\ clock \in Nat
    /\ daemon \in {"answers", "hangs"}
    /\ machine \in [Attempt -> {"none", "up", "gone"}]
    /\ owned \in 0..StartAttempts
    /\ server \in [boot : Nat, restart : Nat, ready : Nat]
    /\ pool \in {"none", "open", "closed"}
    /\ cleanups \in Seq({"terminate", "close"})
    /\ subtests \in [Subtest -> {"none", "paused", "running", "done"}]

(* SkipIfNotRunning has let the test through.                              *)
Init ==
    /\ pc = "start" /\ result = "ok" /\ ctx = "live"
    /\ attempt = 1 /\ delay = StartDelay /\ clock = 0
    /\ daemon \in {"answers", "hangs"}
    /\ machine = [a \in Attempt |-> "none"]
    /\ owned = 0 /\ pool = "none"
    /\ server = [boot |-> 0, restart |-> 0, ready |-> 0]
    /\ cleanups = <<>>
    /\ subtests = [s \in Subtest |-> "none"]

(* must.NoError: the test's goroutine ends here.                           *)
Fail(why) == pc' = "drain" /\ result' = why

-----------------------------------------------------------------------------
(* StartWithRetry, and what Run registers once it has returned.  A call    *)
(* under way may still succeed when its context ends.                      *)

StartSucceeds ==
    /\ pc = "start"
    /\ machine' = [machine EXCEPT ![attempt] = "up"]
    /\ owned' = attempt
    /\ cleanups' = Append(cleanups, "terminate")
    /\ clock' = 0 /\ server' \in Server
    /\ pc' = "open"
    /\ UNCHANGED <<result, ctx, attempt, delay, daemon, pool, subtests>>

(* Mutant: one attempt more than there are.                                *)
StartFailsLate ==
    /\ pc = "start"
    /\ \E left \in {"none", "up"} : machine' = [machine EXCEPT ![attempt] = left]
    /\ IF attempt > StartAttempts THEN Fail("gaveUp")
       ELSE pc' = "backoff" /\ UNCHANGED result
    /\ UNCHANGED <<ctx, attempt, delay, clock, daemon, owned, server, pool,
                   cleanups, subtests>>

(* A call that fails may have made a container all the same: a port was    *)
(* taken, or its readiness line did not come within startupDeadline.       *)
StartFails ==
    /\ pc = "start"
    /\ \E left \in {"none", "up"} : machine' = [machine EXCEPT ![attempt] = left]
    /\ IF attempt = StartAttempts THEN Fail("gaveUp")
       ELSE pc' = "backoff" /\ UNCHANGED result
    /\ UNCHANGED <<ctx, attempt, delay, clock, daemon, owned, server, pool,
                   cleanups, subtests>>

BackOff ==
    /\ pc = "backoff"
    /\ clock' = clock + delay
    /\ delay' = 2 * delay
    /\ attempt' = attempt + 1
    /\ pc' = "start"
    /\ UNCHANGED <<result, ctx, daemon, machine, owned, server, pool, cleanups,
                   subtests>>

(* sleep: either branch of the select once the context is done.            *)
SleepCancelled ==
    /\ pc \in {"backoff", "pause"} /\ ctx = "done"
    /\ Fail("failed")
    /\ UNCHANGED <<ctx, attempt, delay, clock, daemon, machine, owned, server,
                   pool, cleanups, subtests>>

-----------------------------------------------------------------------------
(* pgtest.Run and mysqltest.Run: the pool, PingUntilReady, and the body.   *)

OpenFails ==
    /\ pc = "open"
    /\ Fail("failed")
    /\ UNCHANGED <<ctx, attempt, delay, clock, daemon, machine, owned, server,
                   pool, cleanups, subtests>>

(* Mutant: the pool's cleanup is registered before the container's.        *)
OpenPoolFirst ==
    /\ pc = "open"
    /\ pool' = "open"
    /\ cleanups' = <<"close">> \o cleanups
    /\ attempt' = 1 /\ delay' = ReadyDelay
    /\ pc' = "ping"
    /\ UNCHANGED <<result, ctx, clock, daemon, machine, owned, server, subtests>>

OpenPool ==
    /\ pc = "open"
    /\ pool' = "open"
    /\ cleanups' = Append(cleanups, "close")
    /\ attempt' = 1 /\ delay' = ReadyDelay
    /\ pc' = "ping"
    /\ UNCHANGED <<result, ctx, clock, daemon, machine, owned, server, subtests>>

Answers == \/ server.boot <= clock /\ clock < server.restart
           \/ server.ready <= clock

PingSucceeds ==
    /\ pc = "ping" /\ Answers
    /\ pc' = "body"
    /\ UNCHANGED <<result, ctx, attempt, delay, clock, daemon, machine, owned,
                   server, pool, cleanups, subtests>>

(* Mutant: the ladder stops one ping short.                                *)
PingFailsEarly ==
    /\ pc = "ping" /\ (~Answers \/ ctx = "done")
    /\ IF attempt >= ReadyAttempts - 1 THEN Fail("gaveUp")
       ELSE pc' = "pause" /\ UNCHANGED result
    /\ UNCHANGED <<ctx, attempt, delay, clock, daemon, machine, owned, server,
                   pool, cleanups, subtests>>

PingFails ==
    /\ pc = "ping" /\ (~Answers \/ ctx = "done")
    /\ IF attempt = ReadyAttempts THEN Fail("gaveUp")
       ELSE pc' = "pause" /\ UNCHANGED result
    /\ UNCHANGED <<ctx, attempt, delay, clock, daemon, machine, owned, server,
                   pool, cleanups, subtests>>

Capped(d) == IF d > ReadyMaxDelay THEN ReadyMaxDelay ELSE d

Pause ==
    /\ pc = "pause"
    /\ clock' = clock + delay
    /\ delay' = Capped(2 * delay)
    /\ attempt' = attempt + 1
    /\ pc' = "ping"
    /\ UNCHANGED <<result, ctx, daemon, machine, owned, server, pool, cleanups,
                   subtests>>

(* A parallel subtest waits until the test's own function has returned.    *)
Register(s) ==
    /\ pc = "body" /\ subtests[s] = "none"
    /\ subtests' = [subtests EXCEPT ![s] = "paused"]
    /\ UNCHANGED <<pc, result, ctx, attempt, delay, clock, daemon, machine, owned,
                   server, pool, cleanups>>

(* Mutant: Run defers Terminate instead of registering it.                 *)
ReturnAndTerminate ==
    /\ pc = "body"
    /\ pc' = "drain"
    /\ result' \in {"ok", "failed"}
    /\ machine' = [machine EXCEPT ![owned] = "gone"]
    /\ UNCHANGED <<ctx, attempt, delay, clock, daemon, owned, server,
                   pool, cleanups, subtests>>

(* The body returns, or fails and ends the same way.                       *)
Return ==
    /\ pc = "body"
    /\ pc' = "drain"
    /\ result' \in {"ok", "failed"}
    /\ UNCHANGED <<ctx, attempt, delay, clock, daemon, machine, owned, server,
                   pool, cleanups, subtests>>

-----------------------------------------------------------------------------
(* Package testing: parallel subtests, then the cleanups.                  *)

Advance(s) ==
    /\ pc = "drain" /\ subtests[s] \in {"paused", "running"}
    /\ subtests' = [subtests EXCEPT ![s] = IF @ = "paused" THEN "running" ELSE "done"]
    /\ UNCHANGED <<pc, result, ctx, attempt, delay, clock, daemon, machine, owned,
                   server, pool, cleanups>>

(* The context of a test ends before its first cleanup runs.               *)
Drain ==
    /\ pc = "drain" /\ \A s \in Subtest : subtests[s] \in {"none", "done"}
    /\ pc' = "cleanup" /\ ctx' = "done"
    /\ UNCHANGED <<result, attempt, delay, clock, daemon, machine, owned, server,
                   pool, cleanups, subtests>>

CleanUp(what) ==
    /\ pc = "cleanup" /\ cleanups # <<>>
    /\ cleanups[Len(cleanups)] = what
    /\ cleanups' = SubSeq(cleanups, 1, Len(cleanups) - 1)

ClosePool ==
    /\ CleanUp("close")
    /\ pool' = "closed"
    /\ UNCHANGED <<pc, result, ctx, attempt, delay, clock, daemon, machine, owned,
                   server, subtests>>

(* Mutant: the container is terminated on the test's context.              *)
TestContext == ctx

(* context.WithoutCancel: detached from the test's context.                *)
ShutdownContext == "live"

(* Mutant: the detached context has no deadline of its own.                *)
NeverExpires == FALSE

(* context.WithTimeout(..., ShutdownTimeout).                              *)
ShutdownExpires == TRUE

(* The daemon does nothing for a context that is done, and one that hangs  *)
(* is given up on when the timeout expires; the error is logged and        *)
(* nothing is retried.                                                     *)
Terminate ==
    /\ CleanUp("terminate")
    /\ daemon = "answers" \/ ShutdownContext = "done" \/ ShutdownExpires
    /\ machine' = IF daemon = "answers" /\ ShutdownContext = "live"
                  THEN [machine EXCEPT ![owned] = "gone"] ELSE machine
    /\ UNCHANGED <<pc, result, ctx, attempt, delay, clock, daemon, owned, server,
                   pool, subtests>>

End ==
    /\ pc = "cleanup" /\ cleanups = <<>>
    /\ pc' = "over"
    /\ UNCHANGED <<result, ctx, attempt, delay, clock, daemon, machine, owned,
                   server, pool, cleanups, subtests>>

(* The context may end earlier, where a caller's has a deadline.           *)
Cancel ==
    /\ ctx = "live" /\ pc \notin {"cleanup", "over"}
    /\ ctx' = "done"
    /\ UNCHANGED <<pc, result, attempt, delay, clock, daemon, machine, owned,
                   server, pool, cleanups, subtests>>

-----------------------------------------------------------------------------
Step ==
    \/ StartSucceeds \/ StartFails \/ BackOff \/ SleepCancelled
    \/ OpenFails \/ OpenPool \/ PingSucceeds \/ PingFails \/ Pause
    \/ \E s \in Subtest : Register(s) \/ Advance(s)
    \/ Return \/ Drain \/ ClosePool \/ Terminate \/ End

Next == Step \/ Cancel

Spec == Init /\ [][Next]_vars

(* What is bound to happen.  A sleep has its timer, Terminate has its      *)
(* timeout, a call whose context is done returns, and package testing does *)
(* its part.  A start, a ping or a body under a live context has no bound  *)
(* in the code, nor has the close of a pool: none of them is assumed fair. *)
Bounded ==
    \/ BackOff \/ Pause \/ SleepCancelled
    \/ ctx = "done" /\ (StartFails \/ OpenPool \/ OpenFails \/ PingFails)
    \/ (\A t \in Subtest : subtests[t] # "running") /\ \E s \in Subtest : Advance(s)
    \/ Drain \/ Terminate \/ End

FairSpec == Spec /\ WF_vars(Bounded)

-----------------------------------------------------------------------------
Using == pc = "body" \/ \E s \in Subtest : subtests[s] = "running"

(***************************************************************************)
(* A body or a subtest that runs has an open pool against a container that *)
(* is up, however long its parallel subtests outlast it: Run registers     *)
(* Terminate where it could have deferred it (containers.go:87-116).       *)
(***************************************************************************)
UsedWhileUp ==
    Using => /\ owned # 0 /\ machine[owned] = "up"
             /\ pool = "open"

(***************************************************************************)
(* A container is not terminated under an open pool: the pool registers    *)
(* its cleanup second and is closed first.                                 *)
(***************************************************************************)
PoolClosedFirst == pool = "open" => owned # 0 /\ machine[owned] = "up"

(***************************************************************************)
(* When a test is over, the container Run owned is gone, whatever became   *)
(* of the test, if the daemon answers: although the test's context is done *)
(* before any cleanup runs.  What stays is what a failed call of start     *)
(* made, which StartWithRetry drops and nothing terminates.                *)
(***************************************************************************)
OwnedIsReaped ==
    pc = "over" /\ daemon = "answers" /\ owned # 0 => machine[owned] = "gone"

(***************************************************************************)
(* The ladder of pings is as patient as it is documented to be, roughly:   *)
(* a test that gives up on a server has waited for it for Patience, and    *)
(* for no more than one longest delay more.                                *)
(***************************************************************************)
PatientEnough ==
    result = "gaveUp" /\ owned # 0 => clock \in Patience..(Patience + ReadyMaxDelay)

(* Where a test waits for something that nothing in the code bounds.       *)
Waiting ==
    \/ pc \in {"start", "open", "ping"} /\ ctx = "live"
    \/ pc = "body"
    \/ pc = "drain" /\ \E s \in Subtest : subtests[s] = "running"
    \/ pc = "cleanup" /\ cleanups # <<>> /\ cleanups[Len(cleanups)] = "close"

(***************************************************************************)
(* A test ends, its cleanups run, or it hangs for good in a call that the  *)
(* code leaves unbounded: never in a ladder, never behind a context that   *)
(* is done, and never on a daemon that does not answer its Terminate.      *)
(***************************************************************************)
EndsOrHangsInACall == <>(pc = "over" /\ cleanups = <<>>) \/ <>[]Waiting
=============================================================================
