---------------------------- MODULE Orchestrator ----------------------------
(***************************************************************************)
(* unison generate and unison check: internal/orchestrator's Runner, the   *)
(* sqlc it starts once per dialect, the plugin that sqlc starts in turn,   *)
(* and the one out directory that all of them write.                       *)
(*                                                                         *)
(* A run is one invocation of the tool.  Nothing locks the directory, so   *)
(* runs may overlap; each may be interrupted (SIGINT or SIGTERM cancels    *)
(* its context) or killed (SIGKILL: no deferred call runs, and the sqlc it *)
(* started keeps writing).  The developer edits queries and configuration  *)
(* while all this happens.                                                 *)
(***************************************************************************)
EXTENDS Emission

CONSTANTS
    Run,       \* invocations of the tool
    Rank,      \* a dialect's place in the sorted roster
    Config,    \* the configurations considered
    Input,     \* what sqlc and the plugin may make of a dialect's sources
    MaxEdits,  \* bound: edits by the developer
    MaxStops,  \* bound: runs that are interrupted or killed
    Overlap,   \* whether a run may begin while another is active
    None       \* no file, no run

Unread == [verdict |-> "unread"]

(* sqlc rejects broken SQL; the plugin refuses what it cannot converge.    *)
InputShape(i) ==
    \/ i \in {[verdict |-> "broken"], [verdict |-> "refused"]}
    \/ i.verdict = "accepted" /\ i.analysis \in Analysis

ASSUME OrchestratorAssumption ==
    /\ Rank \in [Dialect -> Nat]
    /\ \A d, e \in Dialect : Rank[d] = Rank[e] => d = e
    /\ Config \subseteq [roster : (SUBSET Dialect) \ {{}}, prefix : BOOLEAN,
                         pin : {"none", "match", "mismatch"}]
    /\ \A i \in Input : InputShape(i)
    /\ MaxEdits \in Nat /\ MaxStops \in Nat
    /\ Overlap \in BOOLEAN
    /\ None \notin File \cup Run

VARIABLES
    config,     \* unison.yaml as it is on disk
    sql,        \* each dialect's schema and queries on disk
    edits,      \* edits so far
    made,       \* whether the out directory exists
    dir,        \* its files
    pc,         \* where each run is
    subcommand, \* generate or check
    cfg,        \* the configuration a run loaded
    todo,       \* the dialects its loop has still to visit
    unwritten,  \* files its sqlc has been given and has not finished writing
    opened,     \* the file its sqlc has truncated and is writing
    staging,    \* its staging directory
    cancelled,  \* whether its context is cancelled
    result,     \* nil or an error, once Runner.run has decided
    read,       \* history: what sqlc read for each dialect of a run
    owner       \* history: the run that has had the directory to itself

world == <<config, sql, edits>>
out   == <<made, dir>>
sqlc  == <<unwritten, opened, read>>
vars  == <<world, out, pc, subcommand, cfg, todo, sqlc, staging, cancelled, result, owner>>

-----------------------------------------------------------------------------
(* The loop visits the roster in sorted order: the next dialect is the     *)
(* first of those to do.                                                   *)
First(d, S) == d \in S /\ \A e \in S : Rank[d] <= Rank[e]
Last(d, S)  == d \in S /\ \A e \in S : Rank[e] <= Rank[d]

(* A killed run is gone; the sqlc it had started is an orphan that goes on *)
(* to read its dialect and to write what the plugin answers.               *)
Active(r)   == pc[r] \notin {"idle", "orphan", "done", "killed"}
Writing(r)  == unwritten[r] # {}
Over(r)     == pc[r] \in {"done", "killed"} /\ ~Writing(r)
Touching(r) == \/ pc[r] \notin {"idle", "done", "killed"} /\ subcommand[r] = "generate"
               \/ Writing(r)

PluginOptions(r) == [roster |-> cfg[r].roster, prefix |-> cfg[r].prefix]
Emitted(r, d) == Emit(d, PluginOptions(r), read[r][d].analysis)

Goto(r, to) == pc' = [pc EXCEPT ![r] = to]
Return(r, value) == result' = [result EXCEPT ![r] = value]

Init ==
    /\ config \in Config
    /\ sql \in [Dialect -> Input]
    /\ edits = 0
    /\ made = FALSE
    /\ dir = [f \in File |-> Absent]
    /\ pc = [r \in Run |-> "idle"]
    /\ subcommand = [r \in Run |-> "none"]
    /\ cfg = [r \in Run |-> config]
    /\ todo = [r \in Run |-> {}]
    /\ unwritten = [r \in Run |-> {}]
    /\ opened = [r \in Run |-> None]
    /\ staging = [r \in Run |-> "none"]
    /\ cancelled = [r \in Run |-> FALSE]
    /\ result = [r \in Run |-> "none"]
    /\ read = [r \in Run |-> [d \in Dialect |-> Unread]]
    /\ owner = None

-----------------------------------------------------------------------------
(* Mutant: the roster is every engine sqlc knows, not the schemas' keys.    *)
BeginAllEngines(r, command) ==
    /\ pc[r] = "idle"
    /\ Overlap \/ \A s \in Run : ~Active(s)
    /\ Goto(r, "version")
    /\ subcommand' = [subcommand EXCEPT ![r] = command]
    /\ cfg' = [cfg EXCEPT ![r] = config]
    /\ todo' = [todo EXCEPT ![r] = Dialect]
    /\ owner' = IF command # "generate" THEN owner
                ELSE IF \E s \in Run : Touching(s) THEN None ELSE r
    /\ UNCHANGED <<world, out, sqlc, staging, cancelled, result>>

(* The command line loads and validates unison.yaml and finds sqlc.        *)
Begin(r, command) ==
    /\ pc[r] = "idle"
    /\ Overlap \/ \A s \in Run : ~Active(s)
    /\ Goto(r, "version")
    /\ subcommand' = [subcommand EXCEPT ![r] = command]
    /\ cfg' = [cfg EXCEPT ![r] = config]
    /\ todo' = [todo EXCEPT ![r] = config.roster]
    /\ owner' = IF command # "generate" THEN owner
                ELSE IF \E s \in Run : Touching(s) THEN None ELSE r
    /\ UNCHANGED <<world, out, sqlc, staging, cancelled, result>>

(* An unreadable or invalid unison.yaml, or no sqlc on PATH.               *)
CannotBegin(r) ==
    /\ pc[r] = "idle"
    /\ Goto(r, "done")
    /\ Return(r, "error")
    /\ UNCHANGED <<world, out, subcommand, cfg, todo, sqlc, staging, cancelled, owner>>

(* Mutant: the out directory is made whatever the subcommand.              *)
CheckVersionThenMkdir(r) ==
    /\ pc[r] \in {"version", "asking"}
    /\ \/ /\ pc[r] = "version" /\ cfg[r].pin # "none" /\ ~cancelled[r]
          /\ Goto(r, "asking")
          /\ UNCHANGED result
       \/ /\ \/ pc[r] = "version" /\ cfg[r].pin = "none"
             \/ pc[r] = "asking" /\ cfg[r].pin = "match"
          /\ Goto(r, "mkdir")
          /\ UNCHANGED result
       \/ cfg[r].pin # "none" /\ Goto(r, "done") /\ Return(r, "error")
    /\ UNCHANGED <<world, out, subcommand, cfg, todo, sqlc, staging, cancelled, owner>>

(* checkSQLCVersion: no pin asks nothing; a pin starts sqlc version, which *)
(* a context already cancelled forbids, and refuses any other version.     *)
CheckVersion(r) ==
    /\ pc[r] \in {"version", "asking"}
    /\ \/ /\ pc[r] = "version" /\ cfg[r].pin # "none" /\ ~cancelled[r]
          /\ Goto(r, "asking")
          /\ UNCHANGED result
       \/ /\ \/ pc[r] = "version" /\ cfg[r].pin = "none"
             \/ pc[r] = "asking" /\ cfg[r].pin = "match"
          /\ Goto(r, IF subcommand[r] = "generate" THEN "mkdir" ELSE "stage")
          /\ UNCHANGED result
       \/ /\ cfg[r].pin # "none"   \* another version, or sqlc could not be asked
          /\ Goto(r, "done")
          /\ Return(r, "error")
    /\ UNCHANGED <<world, out, subcommand, cfg, todo, sqlc, staging, cancelled, owner>>

(* os.MkdirAll of the out directory, for generate only.                    *)
MakeOut(r) ==
    /\ pc[r] = "mkdir"
    /\ \/ made' = TRUE /\ Goto(r, "stage") /\ UNCHANGED result
       \/ Goto(r, "done") /\ Return(r, "error") /\ UNCHANGED made
    /\ UNCHANGED <<world, dir, subcommand, cfg, todo, sqlc, staging, cancelled, owner>>

(* os.MkdirTemp; from here on every return removes the directory.          *)
MakeStaging(r) ==
    /\ pc[r] = "stage"
    /\ \/ /\ staging' = [staging EXCEPT ![r] = "present"]
          /\ Goto(r, "loop")
          /\ UNCHANGED result
       \/ Goto(r, "done") /\ Return(r, "error") /\ UNCHANGED staging
    /\ UNCHANGED <<world, out, subcommand, cfg, todo, sqlc, cancelled, owner>>

(* Mutant: sqlc is started without the caller's context.                   *)
RenderConfigAnyway(r) ==
    /\ pc[r] = "loop"
    /\ \/ todo[r] # {} /\ Goto(r, "sqlc") /\ UNCHANGED result
       \/ todo[r] # {} /\ Goto(r, "cleanup") /\ Return(r, "error")
       \/ todo[r] = {} /\ Goto(r, "cleanup") /\ Return(r, "ok")
    /\ UNCHANGED <<world, out, subcommand, cfg, todo, sqlc, staging, cancelled, owner>>

(* Mutant: the error return skips the removal.                             *)
RenderConfigNoDefer(r) ==
    /\ pc[r] = "loop"
    /\ \/ todo[r] # {} /\ ~cancelled[r] /\ Goto(r, "sqlc") /\ UNCHANGED result
       \/ todo[r] # {} /\ Goto(r, "done") /\ Return(r, "error")
       \/ todo[r] = {} /\ Goto(r, "cleanup") /\ Return(r, "ok")
    /\ UNCHANGED <<world, out, subcommand, cfg, todo, sqlc, staging, cancelled, owner>>

(* The head of the loop: render the next dialect's sqlc config into the    *)
(* staging directory and start sqlc on it, or return when there is none    *)
(* left.  exec's Start refuses once the context is cancelled.              *)
RenderConfig(r) ==
    /\ pc[r] = "loop"
    /\ \/ todo[r] # {} /\ ~cancelled[r] /\ Goto(r, "sqlc") /\ UNCHANGED result
       \/ todo[r] # {} /\ Goto(r, "cleanup") /\ Return(r, "error")
       \/ todo[r] = {} /\ Goto(r, "cleanup") /\ Return(r, "ok")
    /\ UNCHANGED <<world, out, subcommand, cfg, todo, sqlc, staging, cancelled, owner>>

(* Mutant: a dialect that fails is logged and skipped.                     *)
SqlcFailsContinue(r) ==
    /\ pc[r] = "sqlc"
    /\ Goto(r, "loop")
    /\ todo' = [todo EXCEPT ![r] = {d \in @ : ~First(d, @)}]
    /\ UNCHANGED <<world, out, subcommand, cfg, sqlc, staging, cancelled, result, owner>>

(* sqlcdriver.Run returns an error: sqlc rejects the SQL, the plugin       *)
(* refuses to converge it, either cannot run, or the context's end has     *)
(* killed sqlc.  The plugin answers with every file or with none, so       *)
(* nothing has been written.                                               *)
SqlcFails(r) ==
    /\ pc[r] = "sqlc"
    /\ Goto(r, "cleanup")
    /\ Return(r, "error")
    /\ UNCHANGED <<world, out, subcommand, cfg, todo, sqlc, staging, cancelled, owner>>

(* sqlc compile: the SQL checks out; the plugin is not asked.  The kill    *)
(* that follows a cancelled context is asynchronous: an sqlc that was      *)
(* running may still get this far, exit 0 and be waited for without error. *)
SqlcCompiles(r, d) ==
    /\ pc[r] = "sqlc" /\ subcommand[r] = "check"
    /\ First(d, todo[r])
    /\ sql[d].verdict # "broken"
    /\ read' = [read EXCEPT ![r][d] = sql[d]]
    /\ todo' = [todo EXCEPT ![r] = @ \ {d}]
    /\ Goto(r, "loop")
    /\ UNCHANGED <<world, out, subcommand, cfg, unwritten, opened, staging, cancelled,
                   result, owner>>

(* Mutant: shared files that are already there are not written again.      *)
SqlcGeneratesOnce(r, d) ==
    /\ pc[r] \in {"sqlc", "orphan"} /\ subcommand[r] = "generate"
    /\ First(d, todo[r])
    /\ sql[d].verdict = "accepted"
    /\ read' = [read EXCEPT ![r][d] = sql[d]]
    /\ unwritten' = [unwritten EXCEPT ![r] = {f \in SharedFile : dir[f] = Absent} \cup {d}]
    /\ Goto(r, IF pc[r] = "sqlc" THEN "write" ELSE "killed")
    /\ UNCHANGED <<world, out, subcommand, cfg, todo, opened, staging, cancelled,
                   result, owner>>

(* sqlc generate: the plugin's response names four files to write, in a    *)
(* race with the kill as above.  With the run itself killed, nobody waits  *)
(* for sqlc any more.                                                      *)
SqlcGenerates(r, d) ==
    /\ pc[r] \in {"sqlc", "orphan"} /\ subcommand[r] = "generate"
    /\ First(d, todo[r])
    /\ sql[d].verdict = "accepted"
    /\ read' = [read EXCEPT ![r][d] = sql[d]]
    /\ unwritten' = [unwritten EXCEPT ![r] = SharedFile \cup {d}]
    /\ Goto(r, IF pc[r] = "sqlc" THEN "write" ELSE "killed")
    /\ UNCHANGED <<world, out, subcommand, cfg, todo, opened, staging, cancelled,
                   result, owner>>

(* sqlc writes the files one after another, in no particular order, each   *)
(* truncated and then filled.  It goes on when its parent is killed.       *)
OpenFile(r, f) ==
    /\ f \in unwritten[r]
    /\ opened[r] = None
    /\ opened' = [opened EXCEPT ![r] = f]
    /\ made' = TRUE
    /\ dir' = [dir EXCEPT ![f] = Empty]
    /\ UNCHANGED <<world, pc, subcommand, cfg, todo, unwritten, read, staging, cancelled,
                   result, owner>>

(* Another writer may have filled the file since it was truncated: equal   *)
(* contents fall on each other, different ones may be spliced.             *)
Contents(r, f, d) ==
    IF dir[f] \in {Empty, Emitted(r, d)[f]} THEN {Emitted(r, d)[f]}
                                            ELSE {Emitted(r, d)[f], Garbled}

FillFile(r, d) ==
    /\ opened[r] # None
    /\ First(d, todo[r])
    /\ \E c \in Contents(r, opened[r], d) : dir' = [dir EXCEPT ![opened[r]] = c]
    /\ unwritten' = [unwritten EXCEPT ![r] = @ \ {opened[r]}]
    /\ opened' = [opened EXCEPT ![r] = None]
    /\ UNCHANGED <<world, made, pc, subcommand, cfg, todo, read, staging, cancelled,
                   result, owner>>

(* Mutant: the loop goes on without waiting for sqlc to finish.            *)
SqlcExitsEarly(r, d) ==
    /\ pc[r] = "write"
    /\ First(d, todo[r])
    /\ todo' = [todo EXCEPT ![r] = @ \ {d}]
    /\ unwritten' = [unwritten EXCEPT ![r] = {}]
    /\ opened' = [opened EXCEPT ![r] = None]
    /\ Goto(r, "loop")
    /\ UNCHANGED <<world, out, subcommand, cfg, read, staging, cancelled, result, owner>>

(* Mutant: the dialect that ran stays next in line.                        *)
SqlcExitsAgain(r, d) ==
    /\ pc[r] = "write"
    /\ unwritten[r] = {}
    /\ First(d, todo[r])
    /\ Goto(r, "loop")
    /\ UNCHANGED <<world, out, subcommand, cfg, todo, sqlc, staging, cancelled, result, owner>>

(* sqlc exits 0, cancelled or not, and the loop goes on.                   *)
SqlcExits(r, d) ==
    /\ pc[r] = "write"
    /\ unwritten[r] = {}
    /\ First(d, todo[r])
    /\ todo' = [todo EXCEPT ![r] = @ \ {d}]
    /\ Goto(r, "loop")
    /\ UNCHANGED <<world, out, subcommand, cfg, sqlc, staging, cancelled, result, owner>>

(* sqlc dies part way: killed because the context was cancelled, or failed *)
(* on a write.  What it wrote stays; a file it had open stays empty.       *)
SqlcDies(r) ==
    /\ pc[r] = "write"
    /\ unwritten' = [unwritten EXCEPT ![r] = {}]
    /\ opened' = [opened EXCEPT ![r] = None]
    /\ Goto(r, "cleanup")
    /\ Return(r, "error")
    /\ UNCHANGED <<world, out, subcommand, cfg, todo, read, staging, cancelled, owner>>

(* The deferred removal; its failure is only logged.                       *)
RemoveStaging(r) ==
    /\ pc[r] = "cleanup"
    /\ \E s \in {"none", "leaked"} : staging' = [staging EXCEPT ![r] = s]
    /\ Goto(r, "done")
    /\ UNCHANGED <<world, out, subcommand, cfg, todo, sqlc, cancelled, result, owner>>

-----------------------------------------------------------------------------
(* The environment: signals and edits.                                     *)

Stopped(s) == cancelled[s] \/ pc[s] \in {"orphan", "killed"}
MayStop(r) == Cardinality({s \in Run \ {r} : Stopped(s)}) < MaxStops

Interrupt(r) ==
    /\ Active(r) /\ ~cancelled[r] /\ MayStop(r)
    /\ cancelled' = [cancelled EXCEPT ![r] = TRUE]
    /\ UNCHANGED <<world, out, pc, subcommand, cfg, todo, sqlc, staging, result, owner>>

Kill(r) ==
    /\ Active(r) /\ MayStop(r)
    /\ Goto(r, IF pc[r] = "sqlc" THEN "orphan" ELSE "killed")
    /\ UNCHANGED <<world, out, subcommand, cfg, todo, sqlc, staging, cancelled, result, owner>>

(* An orphan that fails, or that only compiles, leaves no trace.           *)
OrphanEnds(r) ==
    /\ pc[r] = "orphan"
    /\ Goto(r, "killed")
    /\ UNCHANGED <<world, out, subcommand, cfg, todo, sqlc, staging, cancelled, result, owner>>

Edit ==
    /\ edits < MaxEdits
    /\ edits' = edits + 1
    /\ \/ config' \in Config \ {config} /\ UNCHANGED sql
       \/ /\ \E d \in Dialect : \E i \in Input \ {sql[d]} : sql' = [sql EXCEPT ![d] = i]
          /\ UNCHANGED config
    /\ UNCHANGED <<out, pc, subcommand, cfg, todo, sqlc, staging, cancelled, result, owner>>

-----------------------------------------------------------------------------
(* What a run does by itself once begun; beginning one is up to its user.  *)
Step(r) ==
    \/ CheckVersion(r) \/ MakeOut(r) \/ MakeStaging(r) \/ RenderConfig(r)
    \/ SqlcFails(r) \/ SqlcDies(r) \/ RemoveStaging(r) \/ OrphanEnds(r)
    \/ \E f \in File : OpenFile(r, f)
    \/ \E d \in Dialect : SqlcCompiles(r, d) \/ SqlcGenerates(r, d) \/ FillFile(r, d)
                          \/ SqlcExits(r, d)

User(r) ==
    \/ \E command \in {"generate", "check"} : Begin(r, command)
    \/ CannotBegin(r) \/ Interrupt(r) \/ Kill(r)

Next == Edit \/ \E r \in Run : Step(r) \/ User(r)

(* A system of runs that are over has nothing left to do.                  *)
Spec == Init /\ [][Next]_vars

(* The operating system schedules every process, and sqlc terminates.      *)
FairSpec == Spec /\ \A r \in Run : WF_vars(Step(r))

-----------------------------------------------------------------------------
(* Properties.                                                             *)

(* Types; a loop only ever visits dialects of the roster its run loaded.   *)
TypeOK ==
    /\ config \in Config
    /\ sql \in [Dialect -> Input]
    /\ edits \in 0..MaxEdits
    /\ made \in BOOLEAN
    /\ dir = [f \in File |-> dir[f]] /\ \A f \in File : dir[f] \in Content[f]
    /\ pc \in [Run -> {"idle", "version", "asking", "mkdir", "stage", "loop", "sqlc",
                       "write", "cleanup", "orphan", "done", "killed"}]
    /\ subcommand \in [Run -> {"none", "generate", "check"}]
    /\ cfg \in [Run -> Config]
    /\ todo \in [Run -> SUBSET Dialect] /\ \A r \in Run : todo[r] \subseteq cfg[r].roster
    /\ unwritten \in [Run -> SUBSET File]
    /\ opened \in [Run -> File \cup {None}]
    /\ staging \in [Run -> {"none", "present", "leaked"}]
    /\ cancelled \in [Run -> BOOLEAN]
    /\ result \in [Run -> {"none", "ok", "error"}]
    /\ read \in [Run -> [Dialect -> Input \cup {Unread}]]
    /\ owner \in Run \cup {None}

Roster(r) == cfg[r].roster
Succeeded(r) == result[r] = "ok" /\ subcommand[r] = "generate"

(* A run that returns no error has visited its whole roster: sqlc accepted *)
(* every dialect, and for generate so did the plugin.  No failure of one   *)
(* dialect is lost on the way to the exit status (run.go:88-106).          *)
OkVisitsRoster ==
    \A r \in Run : result[r] = "ok" =>
        \A d \in Roster(r) : \/ read[r][d].verdict = "accepted"
                             \/ subcommand[r] = "check" /\ read[r][d].verdict = "refused"

(* After a successful generate that had the directory to itself, every     *)
(* dialect of the roster has the queries file its sources converge to, and *)
(* the shared files are those of the roster's last dialect, whatever       *)
(* failed, interrupted or killed run had left there before (emit.go:28-35).*)
Fresh ==
    \A r \in Run : Succeeded(r) /\ owner = r =>
        \A d \in Roster(r) :
            /\ dir[d] = Emitted(r, d)[d]
            /\ Last(d, Roster(r)) => \A f \in SharedFile : dir[f] = Emitted(r, d)[f]

(* The queries file of a dialect that left the roster stays behind and is  *)
(* compiled with the rest.                                                 *)
StaleFilesFit(r, d) ==
    \A e \in Present(dir) \ Roster(r) :
        /\ dir[e].kind = "go"
        /\ Resolves(dir[e].body, EmitDB(PluginOptions(r), read[r][d].analysis),
                    EmitTypes(read[r][d].analysis))

(* The compiler's verdict after such a run, exactly: the package compiles  *)
(* if and only if every dialect has the structs of the last one and at     *)
(* least its methods, and the files left by dialects since removed still   *)
(* fit.  This is what "the Go compiler reports the divergence" amounts to  *)
(* (emit.go:28-35, queries.go:72-84).                                      *)
CompileVerdict ==
    \A r \in Run : Succeeded(r) /\ owner = r =>
        \A d \in Roster(r) : Last(d, Roster(r)) =>
            (Compiles(dir) <=>
                /\ \A e \in Roster(r) : Visible(read[r][e].analysis, read[r][d].analysis)
                /\ StaleFilesFit(r, d))

(* What run.go:39-41 says: the order does not matter, because if two       *)
(* dialects disagree the package does not compile.                         *)
DisagreementDoesNotCompile ==
    \A r \in Run : Succeeded(r) /\ owner = r /\ Compiles(dir) =>
        \A d, e \in Roster(r) : Agree(read[r][d].analysis, read[r][e].analysis)

(* Dialect d's analysis has reached run r's plugin, which emitted for it.  *)
HasEmitted(r, d) == subcommand[r] = "generate" /\ read[r][d].verdict = "accepted"

(* Every emission so far is of the same configuration and of analyses that *)
(* agree, in every run.                                                    *)
AllAgree ==
    \A r, s \in Run : \A d, e \in Dialect :
        HasEmitted(r, d) /\ HasEmitted(s, e) =>
            /\ PluginOptions(r) = PluginOptions(s)
            /\ Agree(read[r][d].analysis, read[s][e].analysis)

(* Last-write-wins is a no-op rather than a race: while the dialects       *)
(* agree, a shared file that has been written holds the one content they   *)
(* all emit, however many runs overlap and however their writes interleave *)
(* (convergence_test.go, emit.go:28-35, emit.go:159-168).                  *)
SharedFilesConverge ==
    AllAgree =>
        \A f \in SharedFile : \A r \in Run : \A d \in Dialect :
            HasEmitted(r, d) => dir[f] \in {Absent, Empty, Emitted(r, d)[f]}

(* Overlapping runs need no lock when they agree: once all of them have    *)
(* returned, at least one of them has generated and none failed, the       *)
(* package compiles, stale files aside.                                    *)
AgreeingRunsCompile ==
    /\ AllAgree
    /\ \A r \in Run : pc[r] \in {"idle", "done"} /\ result[r] # "error"
    /\ \E r \in Run : Succeeded(r) /\ Present(dir) \subseteq Roster(r)
    => Compiles(dir)

(* Every return after MkdirTemp removes the staging directory or logs that *)
(* it could not: only a kill leaves one behind silently (run.go:81-86).    *)
StagingRemoved == \A r \in Run : pc[r] = "done" => staging[r] # "present"

(* Nothing but a generate whose sqlc pin holds creates the out directory   *)
(* or touches a file of it (run.go:58-68, run.go:46-54).                   *)
OnlyPinnedGenerateWrites ==
    [][out' # out => \E r \in Run : /\ subcommand[r] = "generate"
                                    /\ cfg[r].pin # "mismatch"
                                    /\ pc[r] \in {"mkdir", "write", "killed"}]_vars

(* The dialect whose sqlc a run, or the orphan of a killed run, is at.     *)
InHand(r) == {d \in Dialect : pc[r] \in {"sqlc", "orphan", "write"} /\ First(d, todo[r])}

(* An interrupt spares the rest.  The sqlc in hand races the kill and may  *)
(* finish its dialect, but a dialect behind it that has not been read yet  *)
(* never is, so nothing of it is written, and the run, which has not done  *)
(* it, never returns ok (run.go:88-106, sqlcdriver.go:52-72).              *)
CancelSparesTheRest ==
    \A r \in Run : \A d \in Dialect :
        [](cancelled[r] /\ d \in todo[r] \ InHand(r) /\ read[r][d] = Unread
           => [](read[r][d] = Unread /\ result[r] # "ok"))

(* Every run that begins returns or is killed, and what its sqlc had to    *)
(* write gets written or given up.                                         *)
RunsTerminate ==
    \A r \in Run : (pc[r] = "version") ~> Over(r)

-----------------------------------------------------------------------------
(* The inductive invariant behind these.                                   *)

(* The phases a run goes through: what it has decided, asked and read.     *)
PhaseInv ==
    \A r \in Run :
        /\ pc[r] = "idle" => subcommand[r] = "none" /\ ~cancelled[r]
        /\ pc[r] \notin {"idle", "done"} => subcommand[r] # "none"
        /\ pc[r] \notin {"cleanup", "done", "killed"} => result[r] = "none"
        /\ pc[r] = "cleanup" => result[r] # "none"
        /\ result[r] = "ok" => subcommand[r] # "none" /\ todo[r] = {}
        /\ subcommand[r] = "none" => \A d \in Dialect : read[r][d] = Unread
        /\ pc[r] \in {"version", "asking", "mkdir", "stage", "loop", "sqlc", "orphan"} =>
             \A d \in todo[r] : read[r][d] = Unread
        /\ pc[r] = "write" => \A d \in todo[r] : First(d, todo[r]) \/ read[r][d] = Unread

(* What a run has passed to come where it is: only generate makes the out  *)
(* directory, only past the pin check, and only the clean-up's return is   *)
(* reached with a staging directory made.                                  *)
GateInv ==
    \A r \in Run :
        /\ pc[r] = "mkdir" => subcommand[r] = "generate"
        /\ pc[r] \in {"mkdir", "stage", "loop", "sqlc", "orphan", "write"} \/ Writing(r) =>
             cfg[r].pin # "mismatch"
        /\ pc[r] \in {"idle", "version", "asking", "mkdir", "stage", "done"} =>
             staging[r] # "present"

(* A loop has visited the first dialects of its roster, and each of those  *)
(* was accepted.                                                           *)
LoopInv ==
    \A r \in Run : subcommand[r] # "none" =>
        \A d \in Roster(r) \ todo[r] :
            /\ \A e \in todo[r] : Rank[d] < Rank[e]
            /\ \/ read[r][d].verdict = "accepted"
               \/ subcommand[r] = "check" /\ read[r][d].verdict = "refused"

(* Files are being written only for the dialect in hand, by a generate     *)
(* that has not returned.                                                  *)
WriteOK(r) ==
    /\ opened[r] # None => opened[r] \in unwritten[r] /\ dir[opened[r]] # Absent
    /\ Writing(r) => pc[r] \in {"write", "killed"} /\ result[r] = "none"
    /\ Writing(r) \/ pc[r] = "write" =>
         /\ subcommand[r] = "generate"
         /\ \E d \in Dialect : First(d, todo[r])
         /\ \A d \in Dialect : First(d, todo[r]) =>
              /\ unwritten[r] \subseteq SharedFile \cup {d}
              /\ read[r][d].verdict = "accepted"

WriteInv == \A r \in Run : WriteOK(r)

(* While a run has the directory to itself, the dialects it has visited    *)
(* have their files, and so do the shared files of the last of them.       *)
VisitedFiles(r) == \A d \in Roster(r) \ todo[r] : dir[d] = Emitted(r, d)[d]

VisitedShared(r) ==
    pc[r] \in {"version", "asking", "mkdir", "stage", "loop", "sqlc"} \/ result[r] = "ok" =>
        \A d \in Dialect : Last(d, Roster(r) \ todo[r]) =>
            \A f \in SharedFile : dir[f] = Emitted(r, d)[f]

WrittenFiles(r) ==
    pc[r] = "write" =>
        /\ opened[r] # None => dir[opened[r]] = Empty
        /\ \A d \in Dialect : First(d, todo[r]) =>
             \A f \in (SharedFile \cup {d}) \ unwritten[r] : dir[f] = Emitted(r, d)[f]

Owns(r) ==
    /\ subcommand[r] = "generate"
    /\ \A s \in Run \ {r} : ~Touching(s)
    /\ VisitedFiles(r) /\ VisitedShared(r) /\ WrittenFiles(r)

OwnerInv == \A r \in Run : owner = r => Owns(r)

(* While all emissions agree, a shared file holds one of them or none.     *)
ConvergeInv ==
    AllAgree =>
        \A f \in SharedFile :
            \/ dir[f] \in {Absent, Empty}
            \/ \E r \in Run : \E d \in Dialect : HasEmitted(r, d) /\ dir[f] = Emitted(r, d)[f]

(* What the safety properties rest on: the loop's order, what a run has    *)
(* passed, who is writing what, and whose files are there.                 *)
IInv == TypeOK /\ PhaseInv /\ GateInv /\ LoopInv /\ WriteInv /\ OwnerInv /\ ConvergeInv
=============================================================================
