---------------------------- MODULE OverlapProofs ----------------------------
(***************************************************************************)
(* What runs that overlap come to, for every roster and number of runs:    *)
(*                                                                         *)
(*   - the orchestrator implements Generation: its initial states are      *)
(*     initial states of Generation, and each of its steps is one of       *)
(*     Generation's or changes nothing that Generation sees;               *)
(*   - runs that agree need no lock: once all of them have returned, none  *)
(*     with an error, and one of them has generated, the package compiles, *)
(*     however their writes interleaved.                                   *)
(***************************************************************************)
EXTENDS Atomicity, OrchestratorProofs

-----------------------------------------------------------------------------
(* The refinement.                                                         *)

phases == [s \in Run |-> Phase(s)]
files  == IF Settled THEN dir ELSE None

(* Whether a run has its exit status, and where its file writes put it.    *)
LEMMA PhaseOf ==
    ASSUME TypeOK, WriteInv, NEW r \in Run
    PROVE  /\ Phase(r) = "before" <=> pc[r] = "idle"
           /\ Phase(r) = "ok" <=> pc[r] = "done" /\ result[r] = "ok"
           /\ Phase(r) = "during" <=> pc[r] \in {"version", "asking", "mkdir", "stage", "loop",
                                                 "sqlc", "write", "cleanup"}
           /\ Phase(r) = "lost" <=> pc[r] = "orphan" \/ (pc[r] = "killed" /\ Writing(r))
           /\ Touching(r) <=> Phase(r) \in {"during", "lost"} /\ subcommand[r] = "generate"
<1>1. /\ result[r] \in {"none", "ok", "error"}
      /\ pc[r] \in {"idle", "version", "asking", "mkdir", "stage", "loop", "sqlc",
                    "write", "cleanup", "orphan", "done", "killed"}
  BY DEF TypeOK
<1>2. Writing(r) => pc[r] \in {"write", "killed"} /\ subcommand[r] = "generate"
  BY DEF WriteInv, WriteOK
<1> QED BY <1>1, <1>2 DEF Phase, Touching, Writing

(* A step of one run moves no other.                                       *)
LEMMA OthersStay ==
    ASSUME NEW r \in Run,
           \A s \in Run \ {r} : /\ pc'[s] = pc[s] /\ result'[s] = result[s]
                                /\ unwritten'[s] = unwritten[s]
    PROVE  phases' = [phases EXCEPT ![r] = Phase(r)']
<1>1. \A s \in Run \ {r} : Phase(s)' = Phase(s)
  BY DEF Phase, Writing
<1> QED BY <1>1 DEF phases

(* While files are being written, none are counted on.                     *)
LEMMA WritingUnsettles ==
    ASSUME TypeOK, WriteInv, OwnerInv, NEW r \in Run, Writing(r)
    PROVE  ~Settled
<1>1. pc[r] # "done" /\ Touching(r)
  BY DEF WriteInv, WriteOK, Touching
<1>2. owner # None => owner \in Run /\ Owns(owner)
  BY DEF OwnerInv, TypeOK
<1> QED BY <1>1, <1>2 DEF Settled, Owns

(* A step of a run that reads nothing and does not succeed: it quits, or   *)
(* nothing of it is seen.                                                  *)
LEMMA QuitsOrStutters ==
    ASSUME TypeOK, NEW r \in Run,
           UNCHANGED <<config, sql, subcommand, cfg, read, owner>>,
           \A s \in Run \ {r} : /\ pc'[s] = pc[s] /\ result'[s] = result[s]
                                /\ unwritten'[s] = unwritten[s],
           dir' = dir \/ ~Settled,
           pc[r] # "done", ~(pc'[r] = "done" /\ result'[r] = "ok"),
           \/ Phase(r)' = Phase(r)
           \/ Phase(r) \in {"before", "during"} /\ Phase(r)' = "error"
           \/ Phase(r) = "during" /\ Phase(r)' = "lost"
           \/ Phase(r) \in {"during", "lost"} /\ Phase(r)' = "gone"
    PROVE  G!Quit(r) \/ UNCHANGED G!vars
<1>1. phases' = [phases EXCEPT ![r] = Phase(r)'] /\ phases[r] = Phase(r)
  BY OthersStay DEF phases
<1>2. Settled' = Settled
  <2>1. owner \in Run \cup {None}
    BY DEF TypeOK
  <2> QED BY <2>1 DEF Settled
<1>3. files' = files
  BY <1>2 DEF files
<1>4. CASE Phase(r)' = Phase(r)
  <2>1. phases' = phases
    BY <1>1, <1>4 DEF phases
  <2> QED BY <1>3, <2>1 DEF G!vars, phases, files
<1>5. CASE Phase(r)' # Phase(r)
  BY <1>1, <1>3, <1>5 DEF G!Quit, G!Becomes, phases, files
<1> QED BY <1>4, <1>5

(***************************************************************************)
(* The steps of the specification.                                         *)
(***************************************************************************)

LEMMA AtomicInit == Init => G!Init
<1> SUFFICES ASSUME Init PROVE G!Init
  OBVIOUS
<1>1. \A r \in Run : Phase(r) = "before"
  BY DEF Init, Phase
<1>2. ~Settled
  BY DEF Init, Settled
<1> QED BY <1>1, <1>2 DEF Init, G!Init

LEMMA AtomicEdit == TypeOK /\ TypeOK' /\ Edit => G!Edit
<1> SUFFICES ASSUME TypeOK, TypeOK', Edit PROVE G!Edit
  OBVIOUS
<1>1. UNCHANGED <<out, pc, subcommand, cfg, sqlc, result, owner>>
  BY DEF Edit
<1>2. phases' = phases /\ files' = files
  BY <1>1 DEF phases, files, Phase, Settled, Writing, out, sqlc
<1>3. config' \in Config /\ sql' \in [Dialect -> Input]
  BY DEF TypeOK
<1> QED BY <1>1, <1>2, <1>3 DEF G!Edit, phases, files, sqlc

LEMMA AtomicBegin ==
    ASSUME TypeOK, WriteInv, OwnerInv, NEW r \in Run, NEW t \in {"generate", "check"},
           Begin(r, t)
    PROVE  G!Begin(r, t)
<1>1. /\ pc[r] = "idle" /\ pc' = [pc EXCEPT ![r] = "version"]
      /\ UNCHANGED <<config, sql, dir, unwritten, read, result>>
      /\ subcommand' = [subcommand EXCEPT ![r] = t] /\ cfg' = [cfg EXCEPT ![r] = config]
      /\ owner' = IF t # "generate" THEN owner
                  ELSE IF \E s \in Run : Touching(s) THEN None ELSE r
  BY DEF Begin, Goto, world, out, sqlc
<1>2. Phase(r)' = "during" /\ phases[r] = "before"
  BY <1>1 DEF Phase, phases, TypeOK, Writing
<1>3. phases' = [phases EXCEPT ![r] = "during"]
  BY <1>1, <1>2, OthersStay DEF TypeOK
<1>4. \A s \in Run : Touching(s) <=> G!Busy(s)
  BY PhaseOf DEF G!Busy
<1>5. t = "generate" => files' = None
  <2>1. pc'[r] = "version"
    BY <1>1 DEF TypeOK
  <2> QED BY <1>1, <2>1 DEF files, Settled
<1>6. t = "check" => files' = files
  <2>1. pc'[r] = "version" /\ \A s \in Run \ {r} : pc'[s] = pc[s]
    BY <1>1 DEF TypeOK
  <2>2. owner \in Run \cup {None}
    BY DEF TypeOK
  <2> QED BY <1>1, <2>1, <2>2 DEF files, Settled
<1> QED BY <1>1, <1>2, <1>3, <1>4, <1>5, <1>6 DEF G!Begin, G!Becomes, phases, files

LEMMA AtomicRead ==
    ASSUME TypeOK, WriteInv, PhaseInv, NEW r \in Run, NEW d \in Dialect,
           SqlcCompiles(r, d) \/ SqlcGenerates(r, d)
    PROVE  G!Read(r, d)
<1>1. /\ UNCHANGED <<config, sql, dir, subcommand, cfg, result, owner>>
      /\ pc[r] \in {"sqlc", "orphan"} /\ First(d, todo[r])
      /\ read' = [read EXCEPT ![r][d] = sql[d]]
      /\ \A s \in Run \ {r} : pc'[s] = pc[s] /\ unwritten'[s] = unwritten[s]
  BY DEF SqlcCompiles, SqlcGenerates, Goto, world, out, sqlc, TypeOK
<1>2. d \in RosterOf(cfg[r]) /\ read[r][d] = Unread
  BY <1>1 DEF First, TypeOK, PhaseInv, RosterOf
<1>3. Passes(subcommand[r], sql[d])
  <2>1. CASE SqlcCompiles(r, d)
    <3>1. sql[d].verdict \in {"accepted", "refused"} /\ subcommand[r] = "check"
      BY <2>1, InputVerdicts DEF SqlcCompiles, TypeOK
    <3> QED BY <3>1 DEF Passes
  <2>2. CASE SqlcGenerates(r, d)
    BY <2>2 DEF SqlcGenerates, Passes
  <2> QED BY <2>1, <2>2
<1>4. Phase(r)' = Phase(r) /\ Phase(r) \in {"during", "lost"}
  <2>1. CASE SqlcCompiles(r, d)
    BY <2>1 DEF SqlcCompiles, Goto, Phase, TypeOK
  <2>2. CASE SqlcGenerates(r, d)
    <3>1. unwritten'[r] # {}
      BY <2>2 DEF SqlcGenerates, TypeOK
    <3>2. \/ pc[r] = "sqlc" /\ pc'[r] = "write"
          \/ pc[r] = "orphan" /\ pc'[r] = "killed"
      BY <2>2 DEF SqlcGenerates, Goto, TypeOK
    <3> QED BY <3>1, <3>2 DEF Phase, Writing
  <2> QED BY <2>1, <2>2
<1>5. phases' = phases /\ phases[r] = Phase(r)
  BY <1>1, <1>4, OthersStay DEF phases
<1>6. files' = files
  <2>1. pc'[r] # "done"
    BY <1>1 DEF SqlcCompiles, SqlcGenerates, Goto, TypeOK
  <2>2. owner \in Run \cup {None}
    BY DEF TypeOK
  <2> QED BY <1>1, <2>1, <2>2 DEF files, Settled
<1> QED BY <1>1, <1>2, <1>3, <1>4, <1>5, <1>6 DEF G!Read, phases, files

LEMMA AtomicSuccess ==
    ASSUME TypeOK, IInv, NEW r \in Run, RemoveStaging(r), result[r] = "ok"
    PROVE  G!Succeed(r)
<1>1. /\ pc[r] = "cleanup" /\ pc' = [pc EXCEPT ![r] = "done"]
      /\ UNCHANGED <<config, sql, dir, subcommand, cfg, unwritten, read, result, owner>>
  BY DEF RemoveStaging, Goto, world, out, sqlc
<1>2. todo[r] = {} /\ subcommand[r] # "none"
  BY DEF IInv, PhaseInv
<1>3. \A d \in RosterOf(cfg[r]) : Passes(subcommand[r], read[r][d])
  BY <1>2 DEF IInv, LoopInv, Passes, RosterOf, Roster
<1>4. Phase(r) = "during" /\ Phase(r)' = "ok" /\ phases[r] = "during"
  BY <1>1 DEF Phase, phases, TypeOK
<1>5. phases' = [phases EXCEPT ![r] = "ok"]
  BY <1>1, <1>4, OthersStay DEF TypeOK
<1>6. CASE owner = r
  <2>1. files' = dir
    BY <1>1, <1>6, OrchestratorAssumption DEF files, Settled, TypeOK
  <2>2. Owns(r)
    BY <1>6 DEF IInv, OwnerInv
  <2>3. ASSUME NEW d \in cfg[r].roster
        PROVE  /\ dir[d] = Emitted(r, d)[d]
               /\ Last(d, cfg[r].roster) => \A f \in SharedFile : dir[f] = Emitted(r, d)[f]
    <3>1. Roster(r) \ todo[r] = cfg[r].roster /\ d \in Dialect
      BY <1>2, OrchestratorAssumption DEF Roster, TypeOK
    <3>2. dir[d] = Emitted(r, d)[d]
      BY <2>2, <3>1 DEF Owns, VisitedFiles
    <3>3. Last(d, cfg[r].roster) => \A f \in SharedFile : dir[f] = Emitted(r, d)[f]
      BY <2>2, <3>1 DEF Owns, VisitedShared
    <3> QED BY <3>2, <3>3
  <2>4. Holds(cfg[r], read[r], files')
    BY <2>1, <2>3 DEF Holds, Emitted, PluginOptions
  <2> QED BY <1>1, <1>3, <1>4, <1>5, <1>6, <2>4 DEF G!Succeed, G!Becomes, phases, files
<1>7. CASE owner # r
  <2>1. files' = files
    BY <1>1, <1>7 DEF files, Settled, TypeOK
  <2> QED BY <1>1, <1>3, <1>4, <1>5, <1>7, <2>1 DEF G!Succeed, G!Becomes, phases, files
<1> QED BY <1>6, <1>7

(* Every other step of a run.                                              *)
LEMMA AtomicQuit ==
    ASSUME TypeOK, IInv, NEW r \in Run,
           \/ CannotBegin(r) \/ CheckVersion(r) \/ MakeOut(r) \/ MakeStaging(r)
           \/ RenderConfig(r) \/ SqlcFails(r) \/ SqlcDies(r) \/ OrphanEnds(r)
           \/ RemoveStaging(r) /\ result[r] # "ok"
           \/ \E d \in Dialect : SqlcExits(r, d)
           \/ Interrupt(r) \/ Kill(r)
    PROVE  G!Quit(r) \/ UNCHANGED G!vars
<1> USE DEF Goto, Return, world, out, sqlc, TypeOK, Phase, Writing
<1>1. UNCHANGED <<config, sql, dir, subcommand, cfg, read, owner>>
  BY DEF CannotBegin, CheckVersion, MakeOut, MakeStaging, RenderConfig, SqlcFails, SqlcDies,
         OrphanEnds, RemoveStaging, SqlcExits, Interrupt, Kill
<1>2. \A s \in Run \ {r} : /\ pc'[s] = pc[s] /\ result'[s] = result[s]
                           /\ unwritten'[s] = unwritten[s]
  BY DEF CannotBegin, CheckVersion, MakeOut, MakeStaging, RenderConfig, SqlcFails, SqlcDies,
         OrphanEnds, RemoveStaging, SqlcExits, Interrupt, Kill
<1> DEFINE Quiet == /\ pc[r] # "done" /\ ~(pc'[r] = "done" /\ result'[r] = "ok")
                    /\ \/ Phase(r)' = Phase(r)
                       \/ Phase(r) \in {"before", "during"} /\ Phase(r)' = "error"
                       \/ Phase(r) = "during" /\ Phase(r)' = "lost"
                       \/ Phase(r) \in {"during", "lost"} /\ Phase(r)' = "gone"
<1>3. ASSUME CannotBegin(r) PROVE Quiet
  BY <1>3 DEF CannotBegin
<1>4. ASSUME CheckVersion(r) PROVE Quiet
  BY <1>4 DEF CheckVersion
<1>5. ASSUME MakeOut(r) PROVE Quiet
  BY <1>5 DEF MakeOut
<1>6. ASSUME MakeStaging(r) PROVE Quiet
  BY <1>6 DEF MakeStaging
<1>7. ASSUME RenderConfig(r) PROVE Quiet
  BY <1>7 DEF RenderConfig
<1>8. ASSUME SqlcFails(r) PROVE Quiet
  BY <1>8 DEF SqlcFails
<1>9. ASSUME SqlcDies(r) PROVE Quiet
  BY <1>9 DEF SqlcDies
<1>10. ASSUME OrphanEnds(r) PROVE Quiet
  <2>1. unwritten[r] = {}
    BY <1>10 DEF OrphanEnds, IInv, WriteInv, WriteOK
  <2> QED BY <1>10, <2>1 DEF OrphanEnds
<1>11. ASSUME RemoveStaging(r), result[r] # "ok" PROVE Quiet
  <2>1. result[r] = "error"
    BY <1>11 DEF RemoveStaging, IInv, PhaseInv
  <2> QED BY <1>11, <2>1 DEF RemoveStaging
<1>12. ASSUME NEW d \in Dialect, SqlcExits(r, d) PROVE Quiet
  BY <1>12 DEF SqlcExits
<1>13. ASSUME Interrupt(r) PROVE Quiet
  BY <1>13 DEF Interrupt, Active
<1>14. ASSUME Kill(r) PROVE Quiet
  BY <1>14 DEF Kill, Active
<1>15. Quiet
  BY <1>3, <1>4, <1>5, <1>6, <1>7, <1>8, <1>9, <1>10, <1>11, <1>12, <1>13, <1>14
<1> QED BY <1>1, <1>2, <1>15, QuitsOrStutters

(* sqlc's writes, while no files are counted on; the last write of a run   *)
(* that was killed ends it.                                                *)
LEMMA AtomicWrite ==
    ASSUME TypeOK, IInv, NEW r \in Run,
           \/ \E f \in File : OpenFile(r, f)
           \/ \E d \in Dialect : FillFile(r, d)
    PROVE  G!Quit(r) \/ UNCHANGED G!vars
<1>1. UNCHANGED <<config, sql, subcommand, cfg, read, owner, pc, result>>
  BY DEF OpenFile, FillFile, world
<1>2. \A s \in Run \ {r} : unwritten'[s] = unwritten[s]
  BY DEF OpenFile, FillFile, TypeOK
<1>3. Writing(r)
  BY DEF OpenFile, FillFile, IInv, WriteInv, WriteOK, Writing
<1>4. pc[r] \in {"write", "killed"}
  BY <1>3 DEF IInv, WriteInv, WriteOK
<1>5. ~Settled
  BY <1>3, WritingUnsettles DEF IInv
<1>6. \/ Phase(r)' = Phase(r)
      \/ Phase(r) = "lost" /\ Phase(r)' = "gone"
  BY <1>1, <1>3, <1>4 DEF Phase, Writing
<1>7. pc[r] # "done" /\ pc'[r] # "done"
  BY <1>1, <1>4
<1> QED BY <1>1, <1>2, <1>5, <1>6, <1>7, QuitsOrStutters

LEMMA AtomicStutter == UNCHANGED vars => UNCHANGED G!vars
<1> SUFFICES ASSUME UNCHANGED vars PROVE UNCHANGED G!vars
  OBVIOUS
<1>1. UNCHANGED <<pc, result, unwritten, owner, dir, config, sql, subcommand, cfg, read>>
  BY DEF vars, world, out, sqlc
<1>2. phases' = phases
  BY <1>1 DEF phases, Phase, Writing
<1>3. files' = files
  BY <1>1 DEF files, Settled
<1> QED BY <1>1, <1>2, <1>3 DEF G!vars, phases, files

LEMMA AtomicStep == IInv /\ IInv' /\ [Next]_vars => [G!Next]_(G!vars)
<1> SUFFICES ASSUME IInv, IInv', [Next]_vars PROVE G!Next \/ UNCHANGED G!vars
  OBVIOUS
<1>1. CASE UNCHANGED vars
  BY <1>1, AtomicStutter
<1>2. CASE Edit
  BY <1>2, AtomicEdit DEF G!Next, IInv
<1>3. ASSUME NEW r \in Run, Step(r) \/ User(r) PROVE G!Next \/ UNCHANGED G!vars
  <2> TypeOK /\ WriteInv /\ OwnerInv /\ PhaseInv
    BY DEF IInv
  <2>1. ASSUME NEW t \in {"generate", "check"}, Begin(r, t) PROVE G!Next
    BY <2>1, AtomicBegin DEF G!Next
  <2>2. ASSUME NEW d \in Dialect, SqlcCompiles(r, d) \/ SqlcGenerates(r, d) PROVE G!Next
    BY <2>2, AtomicRead DEF G!Next
  <2>3. ASSUME RemoveStaging(r), result[r] = "ok" PROVE G!Next
    BY <2>3, AtomicSuccess DEF G!Next
  <2>4. ASSUME G!Quit(r) PROVE G!Next
    BY <2>4 DEF G!Next
  <2>5. CASE \/ \E f \in File : OpenFile(r, f)
             \/ \E d \in Dialect : FillFile(r, d)
    BY <2>5, <2>4, AtomicWrite
  <2>6. CASE \/ CannotBegin(r) \/ CheckVersion(r) \/ MakeOut(r) \/ MakeStaging(r)
             \/ RenderConfig(r) \/ SqlcFails(r) \/ SqlcDies(r) \/ OrphanEnds(r)
             \/ (RemoveStaging(r) /\ result[r] # "ok")
             \/ \E d \in Dialect : SqlcExits(r, d)
             \/ Interrupt(r) \/ Kill(r)
    BY <2>6, <2>4, AtomicQuit
  <2> QED BY <1>3, <2>1, <2>2, <2>3, <2>5, <2>6 DEF Step, User
<1> QED BY <1>1, <1>2, <1>3 DEF Next

(* A run is atomic to whoever goes by its exit status: the orchestrator,   *)
(* its subprocesses and their writes implement Generation, for any number  *)
(* of runs and dialects and any sources (run.go:36-106, emit.go:28-35).    *)
THEOREM RunsAreAtomic == Spec => GenerateIsAtomic
<1>1. Init => G!Init
  BY AtomicInit
<1>2. IInv /\ IInv' /\ [Next]_vars => [G!Next]_(G!vars)
  BY AtomicStep
<1> QED BY Inductive, <1>1, <1>2, PTL DEF Spec, GenerateIsAtomic, G!Spec

-----------------------------------------------------------------------------
(* Agreement.  While emissions agree, a file is written with one content   *)
(* only, so it never is spliced; and while nothing has gone wrong, a file  *)
(* that does not hold its emission yet is still to be written by some run. *)

FilesOf(d) == SharedFile \cup {d}

(* Nothing has gone wrong.                                                 *)
Healthy == \A r \in Run : result[r] # "error" /\ pc[r] \notin {"orphan", "killed"}

(* ConvergeInv for the dialects' own files as well.                        *)
Holding(f) ==
    \/ dir[f] \in {Absent, Empty}
    \/ \E r \in Run : \E d \in Dialect :
          HasEmitted(r, d) /\ f \in FilesOf(d) /\ dir[f] = Emitted(r, d)[f]

FilesInv == AllAgree => \A f \in File : Holding(f)

(* What has been emitted is written or about to be.                        *)
Arrives(r, d, f) == dir[f] = Emitted(r, d)[f] \/ \E s \in Run : f \in unwritten[s]

ArrivalInv ==
    AllAgree /\ Healthy =>
        \A r \in Run : \A d \in Dialect : HasEmitted(r, d) =>
            \A f \in FilesOf(d) : Arrives(r, d, f)

(* Emissions that agree give each file they have in common one content.    *)
LEMMA AgreedAnyFile ==
    ASSUME TypeOK, AllAgree, NEW r \in Run, NEW s \in Run, NEW d \in Dialect, NEW e \in Dialect,
           HasEmitted(r, d), HasEmitted(s, e), NEW f \in FilesOf(d), f \in FilesOf(e)
    PROVE  Emitted(r, d)[f] = Emitted(s, e)[f]
<1>1. CASE f \in SharedFile
  BY <1>1, AgreedFile
<1>2. CASE f \notin SharedFile
  <2> DEFINE a == read[r][d].analysis
             b == read[s][d].analysis
             o == PluginOptions(r)
  <2>1. f = d /\ e = d
    BY <1>2 DEF FilesOf
  <2>2. PluginOptions(s) = o /\ Agree(a, b)
    BY <2>1 DEF AllAgree
  <2>3. a \in Analysis /\ b \in Analysis
    BY <2>1, AcceptedAnalysis DEF HasEmitted, TypeOK
  <2>4. Emit(d, o, a)["db"] = Emit(d, o, b)["db"]
    BY <2>2, <2>3, AgreementConverges DEF SharedFile
  <2>5. HasSliceParams(a) = HasSliceParams(b)
    <3>1. Go(EmitDB(o, a)) = Go(EmitDB(o, b))
      BY <2>4, EmittedFiles
    <3>2. EmitDB(o, a) = EmitDB(o, b)
      BY <3>1 DEF Go
    <3> HIDE DEF a, b, o
    <3> QED BY <3>2 DEF EmitDB
  <2>6. Emit(d, o, a)[d] = Emit(d, o, b)[d]
    <3>1. Methods(a) = Methods(b) /\ StructTypes(a) = StructTypes(b)
      BY <2>2 DEF Agree
    <3>2. EmitQueries(d, o, a) = EmitQueries(d, o, b)
      <4> HIDE DEF a, b, o
      <4> QED BY <2>5, <3>1 DEF EmitQueries
    <3> QED BY <3>2, EmittedFiles
  <2> QED BY <2>1, <2>2, <2>6 DEF Emitted
<1> QED BY <1>1, <1>2

(* What a run that is not in trouble may do to the directory: nothing, or  *)
(* one of three steps.                                                     *)
LEMMA Writes ==
    ASSUME TypeOK, Next, Healthy'
    PROVE  \/ UNCHANGED <<dir, unwritten>>
           \/ \E s \in Run : \E g \in File : OpenFile(s, g)
           \/ \E s \in Run : \E e \in Dialect : FillFile(s, e) \/ SqlcGenerates(s, e)
<1>1. ASSUME NEW s \in Run, SqlcDies(s) PROVE FALSE
  BY <1>1 DEF SqlcDies, Return, Healthy, TypeOK
<1> QED BY <1>1 DEF Next, Step, User, Edit, Begin, CannotBegin, CheckVersion,
           MakeOut, MakeStaging, RenderConfig, SqlcFails, SqlcCompiles, SqlcExits,
           RemoveStaging, Interrupt, Kill, OrphanEnds, out, sqlc

(* Trouble stays.                                                          *)
LEMMA HealthyBefore ==
    ASSUME TypeOK, PhaseInv, WriteInv, Next, Healthy'
    PROVE  Healthy
<1> SUFFICES ASSUME NEW r \in Run PROVE result[r] # "error" /\ pc[r] \notin {"orphan", "killed"}
  BY DEF Healthy
<1>1. result'[r] # "error" /\ pc'[r] \notin {"orphan", "killed"}
  BY DEF Healthy
<1> USE DEF TypeOK, world, out, sqlc, Goto, Return
<1>2. CASE Edit
  BY <1>1, <1>2 DEF Edit
<1>3. ASSUME NEW s \in Run \ {r}, Step(s) \/ User(s)
      PROVE  result[r] # "error" /\ pc[r] \notin {"orphan", "killed"}
  BY <1>1, <1>3, OthersSame DEF Same
<1>4. CASE Step(r) \/ User(r)
  <2>1. CASE \E d \in Dialect : SqlcCompiles(r, d) \/ SqlcGenerates(r, d) \/ SqlcExits(r, d)
                                \/ FillFile(r, d)
    BY <1>1, <2>1 DEF SqlcCompiles, SqlcGenerates, SqlcExits, FillFile, PhaseInv
  <2>2. CASE (\E c \in {"generate", "check"} : Begin(r, c)) \/ \E f \in File : OpenFile(r, f)
    BY <1>1, <2>2 DEF Begin, OpenFile, PhaseInv
  <2>3. CASE \/ CannotBegin(r) \/ CheckVersion(r) \/ MakeOut(r) \/ MakeStaging(r)
             \/ RenderConfig(r) \/ SqlcFails(r) \/ SqlcDies(r) \/ RemoveStaging(r)
    BY <1>1, <2>3 DEF CannotBegin, CheckVersion, MakeOut, MakeStaging, RenderConfig,
         SqlcFails, SqlcDies, RemoveStaging, PhaseInv
  <2>4. CASE Interrupt(r) \/ Kill(r) \/ OrphanEnds(r)
    BY <1>1, <2>4 DEF Interrupt, Kill, OrphanEnds, Active
  <2> QED BY <1>4, <2>1, <2>2, <2>3, <2>4 DEF Step, User
<1> QED BY <1>2, <1>3, <1>4 DEF Next

(* Only sqlc makes emissions, one at a time.                               *)
LEMMA NewEmission ==
    ASSUME TypeOK, PhaseInv, Next, NEW r \in Run, NEW d \in Dialect, HasEmitted(r, d)'
    PROVE  HasEmitted(r, d) \/ SqlcGenerates(r, d)
<1>1. subcommand'[r] = "generate" /\ read'[r][d].verdict = "accepted"
  BY DEF HasEmitted
<1> USE DEF TypeOK, world, out, sqlc, Goto, Return, HasEmitted
<1>2. CASE UNCHANGED <<subcommand, read>>
  BY <1>1, <1>2
<1>3. ASSUME NEW s \in Run \ {r}, Step(s) \/ User(s) PROVE HasEmitted(r, d)
  BY <1>1, <1>3, OthersSame DEF Same
<1>4. ASSUME NEW c \in {"generate", "check"}, Begin(r, c) PROVE FALSE
  BY <1>1, <1>4 DEF Begin, PhaseInv, Unread
<1>5. ASSUME NEW e \in Dialect, SqlcCompiles(r, e) PROVE FALSE
  BY <1>1, <1>5 DEF SqlcCompiles
<1>6. ASSUME NEW e \in Dialect, SqlcGenerates(r, e)
      PROVE  HasEmitted(r, d) \/ SqlcGenerates(r, d)
  <2>1. subcommand' = subcommand
    BY <1>6 DEF SqlcGenerates
  <2>2. CASE e # d
    <3>1. read'[r][d] = read[r][d]
      BY <1>6, <2>2 DEF SqlcGenerates
    <3> QED BY <1>1, <2>1, <3>1
  <2> QED BY <1>6, <2>2
<1>7. CASE Edit
  BY <1>2, <1>7 DEF Edit
<1>8. CASE Step(r)
  BY <1>2, <1>5, <1>6, <1>8 DEF Step, CheckVersion, MakeOut, MakeStaging, RenderConfig,
     SqlcFails, OpenFile, FillFile, SqlcExits, SqlcDies, RemoveStaging, OrphanEnds
<1>9. CASE User(r)
  BY <1>2, <1>4, <1>9 DEF User, CannotBegin, Interrupt, Kill
<1> QED BY <1>3, <1>7, <1>8, <1>9 DEF Next

(* A fill under agreement leaves the emission, never a splice.             *)
LEMMA FillsWhole ==
    ASSUME TypeOK, WriteInv, AllAgree, FilesInv, NEW s \in Run, NEW e \in Dialect,
           FillFile(s, e)
    PROVE  /\ opened[s] \in FilesOf(e) /\ opened[s] \in unwritten[s] /\ HasEmitted(s, e)
           /\ dir' = [dir EXCEPT ![opened[s]] = Emitted(s, e)[opened[s]]]
           /\ unwritten' = [unwritten EXCEPT ![s] = @ \ {opened[s]}]
<1> DEFINE f == opened[s]
<1>1. /\ f \in unwritten[s] /\ f \in FilesOf(e) /\ f \in File /\ dir[f] # Absent
      /\ HasEmitted(s, e)
  BY DEF FillFile, WriteInv, WriteOK, Writing, HasEmitted, FilesOf, TypeOK
<1>2. ASSUME NEW r \in Run, NEW d \in Dialect, HasEmitted(r, d), f \in FilesOf(d)
      PROVE  Emitted(r, d)[f] = Emitted(s, e)[f]
  BY <1>1, <1>2, AgreedAnyFile
<1>3. dir[f] \in {Empty, Emitted(s, e)[f]}
  BY <1>1, <1>2 DEF FilesInv, Holding
<1>4. dir' = [dir EXCEPT ![f] = Emitted(s, e)[f]]
  BY <1>3 DEF FillFile, Contents
<1> QED BY <1>1, <1>4 DEF FillFile

LEMMA AgreeBefore ==
    ASSUME TypeOK, PhaseInv, Next, AllAgree'
    PROVE  AllAgree
BY EmissionsStay DEF AllAgree

LEMMA FilesStep ==
    ASSUME TypeOK, TypeOK', PhaseInv, WriteInv, FilesInv, [Next]_vars
    PROVE  FilesInv'
<1>1. CASE UNCHANGED vars
  BY <1>1 DEF vars, world, out, sqlc, FilesInv, Holding, AllAgree, HasEmitted, PluginOptions, Emitted
<1>2. CASE Next
  <2> SUFFICES ASSUME AllAgree', NEW f \in File PROVE Holding(f)'
    BY DEF FilesInv
  <2>1. AllAgree /\ Holding(f)
    BY <1>2, AgreeBefore DEF FilesInv
  <2>2. CASE dir'[f] = dir[f]
    <3>1. CASE dir[f] \in {Absent, Empty}
      BY <2>2, <3>1 DEF Holding
    <3>2. ASSUME NEW r \in Run, NEW d \in Dialect, HasEmitted(r, d), f \in FilesOf(d),
                 dir[f] = Emitted(r, d)[f]
          PROVE  Holding(f)'
      <4>1. HasEmitted(r, d)' /\ Emitted(r, d)' = Emitted(r, d)
        BY <1>2, <3>2, EmissionsStay
      <4>2. dir'[f] = Emitted(r, d)'[f]
        BY <2>2, <3>2, <4>1
      <4>3. f \in FilesOf(d)'
        BY <3>2 DEF FilesOf
      <4> QED BY <4>1, <4>2, <4>3 DEF Holding
    <3> QED BY <2>1, <3>1, <3>2 DEF Holding
  <2>3. ASSUME NEW s \in Run, NEW g \in File, OpenFile(s, g) PROVE Holding(f)'
    <3>1. dir'[f] = dir[f] \/ dir'[f] = Empty
      BY <2>3 DEF OpenFile, TypeOK
    <3> QED BY <2>2, <3>1 DEF Holding
  <2>4. ASSUME NEW s \in Run, NEW e \in Dialect, FillFile(s, e) PROVE Holding(f)'
    <3>1. /\ opened[s] \in FilesOf(e) /\ HasEmitted(s, e)
          /\ dir' = [dir EXCEPT ![opened[s]] = Emitted(s, e)[opened[s]]]
      BY <2>1, <2>4, FillsWhole
    <3>2. CASE opened[s] # f
      BY <2>2, <3>1, <3>2 DEF TypeOK
    <3>3. CASE opened[s] = f
      <4>1. dir'[f] = Emitted(s, e)[f] /\ f \in FilesOf(e)
        BY <3>1, <3>3 DEF TypeOK
      <4>2. HasEmitted(s, e)' /\ Emitted(s, e)' = Emitted(s, e)
        BY <1>2, <3>1, EmissionsStay
      <4>3. dir'[f] = Emitted(s, e)'[f] /\ f \in FilesOf(e)'
        BY <4>1, <4>2 DEF FilesOf
      <4> QED BY <4>2, <4>3 DEF Holding
    <3> QED BY <3>2, <3>3
  <2>5. CASE dir' = dir
    BY <2>2, <2>5
  <2> QED BY <1>2, <2>3, <2>4, <2>5 DEF Next, Step, User, Edit, Begin, CannotBegin, CheckVersion,
           MakeOut, MakeStaging, RenderConfig, SqlcFails, SqlcCompiles, SqlcGenerates, SqlcExits,
           SqlcDies, RemoveStaging, Interrupt, Kill, OrphanEnds, out
<1> QED BY <1>1, <1>2

LEMMA ArrivalStep ==
    ASSUME TypeOK, TypeOK', PhaseInv, WriteInv, FilesInv, ArrivalInv, [Next]_vars
    PROVE  ArrivalInv'
<1>1. CASE UNCHANGED vars
  BY <1>1 DEF vars, world, out, sqlc, ArrivalInv, Arrives, FilesOf, Healthy, AllAgree, HasEmitted,
              PluginOptions, Emitted
<1>2. CASE Next
  <2> SUFFICES ASSUME AllAgree', Healthy', NEW r \in Run, NEW d \in Dialect, HasEmitted(r, d)',
                      NEW f \in FilesOf(d)
               PROVE  Arrives(r, d, f)'
    BY DEF ArrivalInv, FilesOf
  <2>1. AllAgree /\ Healthy /\ f \in File
    BY <1>2, AgreeBefore, HealthyBefore DEF FilesOf, File
  <2>2. CASE SqlcGenerates(r, d)
    <3>1. f \in unwritten'[r]
      BY <2>2 DEF SqlcGenerates, TypeOK, FilesOf
    <3> QED BY <3>1 DEF Arrives
  <2>3. CASE HasEmitted(r, d)
    <3>1. Arrives(r, d, f)
      BY <2>1, <2>3 DEF ArrivalInv
    <3>2. Emitted(r, d)' = Emitted(r, d)
      BY <1>2, <2>3, EmissionsStay
    <3>3. CASE dir'[f] = Emitted(r, d)[f]
      <4>1. dir'[f] = Emitted(r, d)'[f]
        BY <3>2, <3>3
      <4> QED BY <4>1 DEF Arrives
    <3>4. CASE \E s \in Run : f \in unwritten'[s]
      BY <3>4 DEF Arrives
    <3>5. CASE UNCHANGED <<dir, unwritten>>
      BY <3>1, <3>3, <3>4, <3>5 DEF Arrives
    <3>6. ASSUME NEW s \in Run, NEW g \in File, OpenFile(s, g) PROVE Arrives(r, d, f)'
      <4>1. unwritten' = unwritten /\ g \in unwritten[s] /\ (f # g => dir'[f] = dir[f])
        BY <2>1, <3>6 DEF OpenFile, TypeOK
      <4> QED BY <3>1, <3>3, <3>4, <4>1 DEF Arrives
    <3>7. ASSUME NEW s \in Run, NEW e \in Dialect, SqlcGenerates(s, e) PROVE Arrives(r, d, f)'
      <4>1. dir' = dir /\ unwritten[s] = {}
        BY <3>7 DEF SqlcGenerates, out, WriteInv, WriteOK, Writing
      <4>2. \A t \in Run \ {s} : unwritten'[t] = unwritten[t]
        BY <3>7 DEF SqlcGenerates, TypeOK
      <4> QED BY <3>1, <3>3, <3>4, <4>1, <4>2 DEF Arrives
    <3>8. ASSUME NEW s \in Run, NEW e \in Dialect, FillFile(s, e) PROVE Arrives(r, d, f)'
      <4>1. /\ opened[s] \in FilesOf(e) /\ HasEmitted(s, e)
            /\ dir' = [dir EXCEPT ![opened[s]] = Emitted(s, e)[opened[s]]]
            /\ unwritten' = [unwritten EXCEPT ![s] = @ \ {opened[s]}]
        BY <2>1, <3>8, FillsWhole
      <4>2. CASE opened[s] = f
        <5>1. dir'[f] = Emitted(s, e)[f]
          BY <2>1, <4>1, <4>2 DEF TypeOK
        <5>2. Emitted(s, e)[f] = Emitted(r, d)[f]
          BY <2>1, <2>3, <4>1, <4>2, AgreedAnyFile
        <5> QED BY <3>3, <5>1, <5>2
      <4>3. CASE opened[s] # f
        <5>1. dir'[f] = dir[f] /\ \A t \in Run : f \in unwritten[t] => f \in unwritten'[t]
          BY <2>1, <4>1, <4>3 DEF TypeOK
        <5> QED BY <3>1, <3>3, <3>4, <5>1 DEF Arrives
      <4> QED BY <4>2, <4>3
    <3> QED BY <1>2, <3>5, <3>6, <3>7, <3>8, Writes
  <2> QED BY <1>2, <2>2, <2>3, NewEmission
<1> QED BY <1>1, <1>2

LEMMA AgreementInit == Init => FilesInv /\ ArrivalInv
<1> SUFFICES ASSUME Init PROVE FilesInv /\ ArrivalInv
  OBVIOUS
<1>1. \A f \in File : dir[f] = Absent
  BY DEF Init
<1>2. \A r \in Run : subcommand[r] = "none"
  BY DEF Init
<1> QED BY <1>1, <1>2 DEF FilesInv, Holding, ArrivalInv, HasEmitted

(* With nothing left to write, every emission of a healthy system is there *)
(* and the compiler sees dialects that agree.                              *)
LEMMA QuietCompiles == IInv /\ ArrivalInv => AgreeingRunsCompile
<1> SUFFICES ASSUME IInv, ArrivalInv, AllAgree,
                    \A r \in Run : pc[r] \in {"idle", "done"} /\ result[r] # "error",
                    NEW r \in Run, Succeeded(r), Present(dir) \subseteq Roster(r)
             PROVE  Compiles(dir)
  BY DEF AgreeingRunsCompile
<1> DEFINE an == [e \in Dialect |-> read[r][e].analysis]
<1>1. /\ Roster(r) \in SUBSET Dialect /\ Roster(r) # {} /\ PluginOptions(r).roster = Roster(r)
  <2>1. cfg[r] \in [roster : (SUBSET Dialect) \ {{}}, prefix : BOOLEAN,
                    pin : {"none", "match", "mismatch"}]
    BY OrchestratorAssumption DEF IInv, TypeOK
  <2> QED BY <2>1 DEF Roster, PluginOptions
<1>2. \A d \in Roster(r) : HasEmitted(r, d)
  BY DEF IInv, PhaseInv, LoopInv, Succeeded, HasEmitted
<1>3. \A s \in Run : unwritten[s] = {}
  BY DEF IInv, WriteInv, WriteOK, Writing
<1>4. \A d \in Roster(r) : \A f \in FilesOf(d) : dir[f] = Emitted(r, d)[f]
  BY <1>1, <1>2, <1>3 DEF ArrivalInv, Arrives, Healthy
<1>5. \A e \in Roster(r) : an[e] = read[r][e].analysis /\ an[e] \in Analysis
  BY <1>1, <1>2, AcceptedAnalysis DEF HasEmitted, IInv, TypeOK
<1>6. \A e \in Roster(r) : dir[e] = Emit(e, PluginOptions(r), an[e])[e]
  BY <1>4, <1>5 DEF Emitted, FilesOf
<1>7. \A d, e \in Roster(r) : Visible(an[e], an[d])
  BY <1>1, <1>2, <1>5 DEF AllAgree, Agree, Visible
<1>8. ASSUME NEW d \in Roster(r) PROVE Compiles(dir)
  <2>1. \A f \in SharedFile : dir[f] = Emit(d, PluginOptions(r), an[d])[f]
    BY <1>4, <1>5 DEF Emitted, FilesOf
  <2> HIDE DEF an
  <2>2. Written(Roster(r), d, PluginOptions(r), an, dir)
    BY <1>1, <1>5, <1>6, <2>1 DEF Written
  <2>3. Compiles(dir) <=>
          /\ \A e \in Roster(r) : Visible(an[e], an[d])
          /\ \A e \in Present(dir) \ Roster(r) :
               /\ dir[e].kind = "go"
               /\ Resolves(dir[e].body, EmitDB(PluginOptions(r), an[d]), EmitTypes(an[d]))
    BY <2>2, VerdictOfLastWriter
  <2> QED BY <1>7, <2>3
<1> QED BY <1>1, <1>8

(* Overlapping runs that agree leave a package that compiles once all have *)
(* returned without an error, with no lock (emit.go:28-35, run.go:88-106). *)
THEOREM AgreementCompiles == Spec => []AgreeingRunsCompile
<1>1. IInv /\ IInv' /\ FilesInv /\ ArrivalInv /\ [Next]_vars => FilesInv' /\ ArrivalInv'
  BY FilesStep, ArrivalStep DEF IInv
<1> QED BY Inductive, AgreementInit, <1>1, QuietCompiles, PTL DEF Spec
=============================================================================
