------------------------- MODULE OrchestratorProofs -------------------------
(***************************************************************************)
(* The orchestrator's safety properties, for every roster, every number of *)
(* overlapping runs, every set of analyses and any number of edits: IInv   *)
(* is inductive, and the properties follow from it.                        *)
(***************************************************************************)
EXTENDS Orchestrator, TLAPS

-----------------------------------------------------------------------------
(* The emitted files, for every set of dialects, queries, fields and       *)
(* analyses: what an emission holds, that agreeing dialects emit the same  *)
(* shared files, and exactly what the Go compiler sees.                    *)

(* A dialect's emission, file by file.                                     *)
LEMMA EmittedFiles ==
    ASSUME NEW d \in Dialect, NEW o, NEW a
    PROVE  /\ Emit(d, o, a)["db"] = Go(EmitDB(o, a))
           /\ Emit(d, o, a)["types"] = Go(EmitTypes(a))
           /\ Emit(d, o, a)["querier"] = Go(EmitQuerier(a))
           /\ Emit(d, o, a)[d] = Go(EmitQueries(d, o, a))
<1>1. d # "db" /\ d # "types" /\ d # "querier"
  BY EmissionAssumption DEF SharedFile
<1> QED BY <1>1 DEF Emit, SharedFile

(* An emitted file is Go source, never absent, empty or garbled.           *)
LEMMA EmittedIsGo ==
    ASSUME NEW d \in Dialect, NEW o, NEW a, NEW f \in SharedFile \cup {d}
    PROVE  /\ Emit(d, o, a)[f].kind = "go"
           /\ Emit(d, o, a)[f] \notin {Absent, Empty, Garbled}
<1>1. \E body : Emit(d, o, a)[f] = Go(body)
  <2>1. f = "db" \/ f = "types" \/ f = "querier" \/ f = d
    BY DEF SharedFile
  <2> QED BY <2>1, EmittedFiles
<1>2. PICK body : Emit(d, o, a)[f] = Go(body)
  BY <1>1
<1>3. Go(body).kind = "go"
  BY DEF Go
<1>4. Emit(d, o, a)[f].kind = "go"
  BY <1>2, <1>3
<1> QED BY <1>4 DEF Absent, Empty, Garbled

(* An emission is among the contents its files may have.                   *)
LEMMA EmittedContent ==
    ASSUME NEW d \in Dialect, NEW o \in Options, NEW a \in Analysis,
           NEW f \in SharedFile \cup {d}
    PROVE  Emit(d, o, a)[f] \in Content[f]
<1>1. f \in File
  BY DEF File
<1>2. d \in IF f \in SharedFile THEN Dialect ELSE {f}
  OBVIOUS
<1>3. Emit(d, o, a)[f] \in {Emit(d, p, b)[f] : p \in Options, b \in Analysis}
  OBVIOUS
<1> QED BY <1>1, <1>2, <1>3 DEF Content

(* Whether a package takes a list is a fact about its structs.             *)
LEMMA SliceParamsInStructs ==
    ASSUME NEW a, NEW b, StructTypes(a) \subseteq StructTypes(b), HasSliceParams(a),
           \A q \in DOMAIN a : a[q].params \in Seq(Field)
    PROVE  HasSliceParams(b)
<1>1. PICK q \in DOMAIN a : \E i \in DOMAIN a[q].params : a[q].params[i] \in ListField
  BY DEF HasSliceParams
<1>2. a[q].params # <<>>
  BY <1>1
<1>3. ParamsType(a, q) \in StructTypes(b)
  BY <1>2 DEF StructTypes
<1>4. PICK p \in DOMAIN b : ParamsType(a, q) = ParamsType(b, p)
  BY <1>3 DEF StructTypes, ParamsType, RowType
<1>5. a[q].params = b[p].params
  BY <1>4 DEF ParamsType
<1> QED BY <1>1, <1>4, <1>5 DEF HasSliceParams

(* Dialects that agree emit the same shared files: convergence does not    *)
(* depend on which of them is written last (emit.go:28-35).                *)
THEOREM AgreementConverges ==
    ASSUME NEW d \in Dialect, NEW e \in Dialect, NEW o,
           NEW a \in Analysis, NEW b \in Analysis, Agree(a, b), NEW f \in SharedFile
    PROVE  Emit(d, o, a)[f] = Emit(e, o, b)[f]
<1>1. HasSliceParams(a) = HasSliceParams(b)
  <2>1. /\ \A q \in DOMAIN a : a[q].params \in Seq(Field)
        /\ \A q \in DOMAIN b : b[q].params \in Seq(Field)
    BY EmissionAssumption DEF QueryShape
  <2>2. HasSliceParams(a) <=> HasSliceParams(b)
    BY <2>1, SliceParamsInStructs DEF Agree
  <2>3. HasSliceParams(a) \in BOOLEAN /\ HasSliceParams(b) \in BOOLEAN
    BY DEF HasSliceParams
  <2> QED BY <2>2, <2>3
<1>2. EmitDB(o, a) = EmitDB(o, b)
  BY <1>1 DEF EmitDB
<1>3. EmitTypes(a) = EmitTypes(b) /\ EmitQuerier(a) = EmitQuerier(b)
  BY DEF EmitTypes, EmitQuerier, Agree
<1> QED BY <1>2, <1>3, EmittedFiles DEF SharedFile

(* The files of a roster R as its dialects emit them under options o from  *)
(* the analyses an, the shared ones as L does.                             *)
Written(R, L, o, an, files) ==
    /\ R \subseteq Dialect /\ L \in R /\ o.roster = R
    /\ \A d \in R : an[d] \in Analysis
    /\ \A d \in R : files[d] = Emit(d, o, an[d])[d]
    /\ \A f \in SharedFile : files[f] = Emit(L, o, an[L])[f]

(* The compiler's verdict on a directory where every dialect of a roster   *)
(* has its own file and L wrote the shared ones: exactly that every        *)
(* dialect's structs are L's, that L's methods are among its methods, and  *)
(* that the files of dialects outside the roster still resolve.  In        *)
(* particular a method without params or row that only another dialect     *)
(* has is not seen (queries.go:85-114 asserts nothing about it).           *)
THEOREM VerdictOfLastWriter ==
    ASSUME NEW R, NEW L, NEW o, NEW an, NEW files, Written(R, L, o, an, files)
    PROVE  Compiles(files) <=>
             /\ \A d \in R : Visible(an[d], an[L])
             /\ \A e \in Present(files) \ R :
                  /\ files[e].kind = "go"
                  /\ Resolves(files[e].body, EmitDB(o, an[L]), EmitTypes(an[L]))
<1> USE DEF Written
<1> DEFINE b == an[L]
<1>1. /\ files["db"] = Go(EmitDB(o, b)) /\ files["types"] = Go(EmitTypes(b))
      /\ files["querier"] = Go(EmitQuerier(b))
      /\ \A d \in R : files[d] = Go(EmitQueries(d, o, an[d]))
  BY EmittedFiles DEF SharedFile
<1>2. \A body : Go(body).kind = "go" /\ Go(body).body = body /\ Go(body) # Absent
  BY DEF Go, Absent
<1>3. \A f \in SharedFile : files[f].kind = "go"
  BY <1>1, <1>2 DEF SharedFile
<1>4. \A d \in R : files[d].kind = "go" /\ d \in Present(files)
  BY <1>1, <1>2 DEF Present
<1>5. /\ files["db"].body = EmitDB(o, b) /\ files["types"].body = StructTypes(b)
      /\ files["querier"].body = Methods(b)
      /\ \A d \in R : files[d].body = EmitQueries(d, o, an[d])
  BY <1>1, <1>2 DEF EmitTypes, EmitQuerier
<1>6. \A m \in Methods(b) : Declared(m, StructTypes(b))
  <2>1. SUFFICES ASSUME NEW q \in DOMAIN b
                 PROVE  Declared(MethodSignature(b, q), StructTypes(b))
    BY DEF Methods
  <2>2. b[q].params # <<>> => ParamsType(b, q) \in StructTypes(b)
    BY DEF StructTypes
  <2>3. ReturnsRows(b[q].command) => RowType(b, q) \in StructTypes(b)
    BY DEF StructTypes
  <2> QED BY <2>2, <2>3 DEF Declared, MethodSignature, ParamsType, RowType
<1>7. ASSUME NEW d \in R
      PROVE  Implements(files[d].body, EmitDB(o, b), Methods(b)) <=> Methods(b) \subseteq Methods(an[d])
  <2>1. files[d].body = EmitQueries(d, o, an[d])
    BY <1>5
  <2>2. EmitQueries(d, o, an[d]).prefix = EmitDB(o, b).prefix
    BY DEF EmitQueries, EmitDB
  <2>3. EmitQueries(d, o, an[d]).methods = Methods(an[d])
    BY DEF EmitQueries
  <2> QED BY <2>1, <2>2, <2>3 DEF Implements
<1>8. ASSUME NEW d \in R
      PROVE  Resolves(files[d].body, EmitDB(o, b), StructTypes(b)) <=> StructTypes(an[d]) \subseteq StructTypes(b)
  <2>1. \A q \in DOMAIN an[d] : an[d][q].params \in Seq(Field)
    BY EmissionAssumption DEF QueryShape
  <2>2. StructTypes(an[d]) \subseteq StructTypes(b) => (HasSliceParams(an[d]) => HasSliceParams(b))
    BY <2>1, SliceParamsInStructs
  <2>3. files[d].body = EmitQueries(d, o, an[d])
    BY <1>5
  <2>4. EmitQueries(d, o, an[d]).asserts = StructTypes(an[d])
    BY DEF EmitQueries
  <2>5. EmitQueries(d, o, an[d]).expands => HasSliceParams(an[d])
    BY DEF EmitQueries
  <2>6. EmitDB(o, b).slicePlaceholders <=> HasSliceParams(b)
    BY DEF EmitDB
  <2>7. EmitQueries(d, o, an[d]).prefix = EmitDB(o, b).prefix
    BY DEF EmitQueries, EmitDB
  <2> QED BY <2>2, <2>3, <2>4, <2>5, <2>6, <2>7 DEF Resolves
<1>9. ASSUME NEW a, StructTypes(a) \subseteq StructTypes(b), Methods(b) \subseteq Methods(a)
      PROVE  StructTypes(b) \subseteq StructTypes(a)
  <2>1. ASSUME NEW q \in DOMAIN b
        PROVE  q \in DOMAIN a /\ MethodSignature(a, q) = MethodSignature(b, q)
    <3>1. MethodSignature(b, q) \in Methods(a)
      BY <1>9 DEF Methods
    <3>2. PICK p \in DOMAIN a : MethodSignature(b, q) = MethodSignature(a, p)
      BY <3>1 DEF Methods
    <3> QED BY <3>2 DEF MethodSignature
  <2>2. ASSUME NEW q \in DOMAIN b, b[q].params # <<>>
        PROVE  ParamsType(b, q) \in StructTypes(a)
    <3>1. q \in DOMAIN a /\ a[q].params # <<>>
      BY <2>1, <2>2 DEF MethodSignature
    <3>2. ParamsType(a, q) \in StructTypes(a)
      BY <3>1 DEF StructTypes
    <3>3. PICK p \in DOMAIN b : ParamsType(a, q) = ParamsType(b, p)
      BY <3>2, <1>9 DEF StructTypes, ParamsType, RowType
    <3> QED BY <3>2, <3>3 DEF ParamsType
  <2>3. ASSUME NEW q \in DOMAIN b, ReturnsRows(b[q].command)
        PROVE  RowType(b, q) \in StructTypes(a)
    <3>1. q \in DOMAIN a /\ ReturnsRows(a[q].command)
      BY <2>1, <2>3 DEF MethodSignature
    <3>2. RowType(a, q) \in StructTypes(a)
      BY <3>1 DEF StructTypes
    <3>3. PICK p \in DOMAIN b : RowType(a, q) = RowType(b, p)
      BY <3>2, <1>9 DEF StructTypes, ParamsType, RowType
    <3> QED BY <3>2, <3>3 DEF RowType
  <2> QED BY <2>2, <2>3 DEF StructTypes
<1>10. EmitDB(o, b).roster = R
  BY DEF EmitDB
<1>11. Compiles(files) <=>
         /\ \A e \in Present(files) : files[e].kind = "go"
         /\ \A d \in R : Methods(b) \subseteq Methods(an[d])
         /\ \A e \in Present(files) : Resolves(files[e].body, EmitDB(o, b), StructTypes(b))
  BY <1>3, <1>4, <1>5, <1>6, <1>7, <1>10 DEF Compiles
<1>12. \A d \in R : Visible(an[d], b) <=>
                      StructTypes(an[d]) \subseteq StructTypes(b) /\ Methods(b) \subseteq Methods(an[d])
  BY <1>9 DEF Visible
<1> QED BY <1>4, <1>8, <1>11, <1>12 DEF EmitTypes

-----------------------------------------------------------------------------
(* The runs.                                                               *)

(* The loop has one next dialect, and a roster one last one.               *)
LEMMA FirstUnique ==
    ASSUME NEW S \in SUBSET Dialect, NEW d \in Dialect, NEW e \in Dialect
    PROVE  /\ First(d, S) /\ First(e, S) => d = e
           /\ Last(d, S) /\ Last(e, S) => d = e
<1>1. /\ \A x \in Dialect : Rank[x] \in Nat
      /\ \A x, y \in Dialect : Rank[x] = Rank[y] => x = y
  BY OrchestratorAssumption
<1> QED BY <1>1 DEF First, Last

(* The dialect in hand comes before every other that is left.              *)
LEMMA FirstBefore ==
    ASSUME NEW S \in SUBSET Dialect, NEW d \in Dialect, First(d, S), NEW e \in S \ {d}
    PROVE  Rank[d] < Rank[e]
<1>1. Rank[d] \in Nat /\ Rank[e] \in Nat /\ Rank[d] # Rank[e]
  BY OrchestratorAssumption
<1> QED BY <1>1 DEF First

(* What sqlc does not reject is accepted or refused.                       *)
LEMMA InputVerdicts ==
    ASSUME NEW i \in Input, i.verdict # "broken"
    PROVE  i.verdict \in {"accepted", "refused"}
BY OrchestratorAssumption DEF InputShape

(* An accepted input carries an analysis.                                  *)
LEMMA AcceptedAnalysis ==
    ASSUME NEW i \in Input \cup {Unread}, i.verdict = "accepted"
    PROVE  i.analysis \in Analysis
<1>1. i # Unread /\ i \in Input
  BY DEF Unread
<1>2. InputShape(i)
  BY <1>1, OrchestratorAssumption
<1> QED BY <1>2 DEF InputShape

(* What a run emits is among the contents its files may have.              *)
LEMMA EmittedTypes ==
    ASSUME TypeOK, NEW r \in Run, NEW d \in Dialect, read[r][d].verdict = "accepted",
           NEW f \in SharedFile \cup {d}
    PROVE  /\ Emitted(r, d)[f] \in Content[f]
           /\ Emitted(r, d)[f] \notin {Absent, Empty, Garbled}
<1>1. read[r][d].analysis \in Analysis
  BY AcceptedAnalysis DEF TypeOK
<1>2. PluginOptions(r) \in Options
  BY OrchestratorAssumption DEF TypeOK, PluginOptions, Options
<1> QED BY <1>1, <1>2, EmittedContent, EmittedIsGo DEF Emitted

(* The contents that every file may have.                                  *)
LEMMA CommonContent ==
    ASSUME NEW f \in File
    PROVE  {Absent, Empty, Garbled} \subseteq Content[f]
BY DEF Content

LEMMA TypeInit == Init => TypeOK
<1> SUFFICES ASSUME Init PROVE TypeOK
  OBVIOUS
<1>1. dir = [f \in File |-> dir[f]] /\ \A f \in File : dir[f] \in Content[f]
  BY CommonContent DEF Init
<1>2. edits \in 0..MaxEdits
  BY OrchestratorAssumption DEF Init
<1>3. /\ read \in [Run -> [Dialect -> Input \cup {Unread}]]
      /\ cfg \in [Run -> Config] /\ todo \in [Run -> SUBSET Dialect]
      /\ \A r \in Run : todo[r] \subseteq cfg[r].roster
  BY DEF Init
<1>4. /\ config \in Config /\ sql \in [Dialect -> Input] /\ made \in BOOLEAN
      /\ owner \in Run \cup {None}
  BY DEF Init
<1>5. /\ unwritten \in [Run -> SUBSET File] /\ opened \in [Run -> File \cup {None}]
      /\ staging \in [Run -> {"none", "present", "leaked"}] /\ cancelled \in [Run -> BOOLEAN]
      /\ result \in [Run -> {"none", "ok", "error"}]
      /\ subcommand \in [Run -> {"none", "generate", "check"}]
      /\ pc \in [Run -> {"idle", "version", "asking", "mkdir", "stage", "loop", "sqlc",
                         "write", "cleanup", "orphan", "done", "killed"}]
  BY DEF Init
<1> QED BY <1>1, <1>2, <1>3, <1>4, <1>5 DEF TypeOK

LEMMA TypeStep == TypeOK /\ WriteInv /\ [Next]_vars => TypeOK'
<1> SUFFICES ASSUME TypeOK, WriteInv, [Next]_vars PROVE TypeOK'
  OBVIOUS
<1> USE DEF TypeOK, world, out, sqlc, Goto, Return
<1>1. ASSUME UNCHANGED vars PROVE TypeOK'
  BY <1>1 DEF vars
<1>2. ASSUME Edit PROVE TypeOK'
  <2>1. edits' \in 0..MaxEdits
    BY <1>2, OrchestratorAssumption DEF Edit
  <2>2. config' \in Config /\ sql' \in [Dialect -> Input]
    BY <1>2 DEF Edit
  <2> QED BY <1>2, <2>1, <2>2 DEF Edit
<1>3. ASSUME NEW r \in Run, NEW c \in {"generate", "check"}, Begin(r, c) PROVE TypeOK'
  BY <1>3, OrchestratorAssumption DEF Begin
<1>4. ASSUME NEW r \in Run, CannotBegin(r) PROVE TypeOK'
  BY <1>4 DEF CannotBegin
<1>5. ASSUME NEW r \in Run, CheckVersion(r) PROVE TypeOK'
  BY <1>5 DEF CheckVersion
<1>6. ASSUME NEW r \in Run, MakeOut(r) PROVE TypeOK'
  BY <1>6 DEF MakeOut
<1>7. ASSUME NEW r \in Run, MakeStaging(r) PROVE TypeOK'
  BY <1>7 DEF MakeStaging
<1>8. ASSUME NEW r \in Run, RenderConfig(r) PROVE TypeOK'
  BY <1>8 DEF RenderConfig
<1>9. ASSUME NEW r \in Run, SqlcFails(r) PROVE TypeOK'
  BY <1>9 DEF SqlcFails
<1>10. ASSUME NEW r \in Run, NEW d \in Dialect, SqlcCompiles(r, d) PROVE TypeOK'
  BY <1>10 DEF SqlcCompiles
<1>11. ASSUME NEW r \in Run, NEW d \in Dialect, SqlcGenerates(r, d) PROVE TypeOK'
  BY <1>11 DEF SqlcGenerates, File
<1>12. ASSUME NEW r \in Run, NEW f \in File, OpenFile(r, f) PROVE TypeOK'
  <2>1. (dir = [g \in File |-> dir[g]] /\ \A g \in File : dir[g] \in Content[g])'
    BY <1>12, CommonContent DEF OpenFile
  <2> QED BY <1>12, <2>1 DEF OpenFile
<1>13. ASSUME NEW r \in Run, NEW d \in Dialect, FillFile(r, d) PROVE TypeOK'
  <2>1. opened[r] \in SharedFile \cup {d} /\ read[r][d].verdict = "accepted" /\ opened[r] \in File
    BY <1>13 DEF FillFile, WriteInv, WriteOK, Writing
  <2>2. Contents(r, opened[r], d) \subseteq Content[opened[r]]
    BY <2>1, EmittedTypes, CommonContent DEF Contents
  <2>3. (dir = [g \in File |-> dir[g]] /\ \A g \in File : dir[g] \in Content[g])'
    BY <1>13, <2>1, <2>2 DEF FillFile
  <2> QED BY <1>13, <2>3 DEF FillFile
<1>14. ASSUME NEW r \in Run, NEW d \in Dialect, SqlcExits(r, d) PROVE TypeOK'
  BY <1>14 DEF SqlcExits
<1>15. ASSUME NEW r \in Run, SqlcDies(r) PROVE TypeOK'
  BY <1>15 DEF SqlcDies
<1>16. ASSUME NEW r \in Run, RemoveStaging(r) PROVE TypeOK'
  BY <1>16 DEF RemoveStaging
<1>17. ASSUME NEW r \in Run, Interrupt(r) PROVE TypeOK'
  BY <1>17 DEF Interrupt
<1>18. ASSUME NEW r \in Run, Kill(r) PROVE TypeOK'
  BY <1>18 DEF Kill
<1>19. ASSUME NEW r \in Run, OrphanEnds(r) PROVE TypeOK'
  BY <1>19 DEF OrphanEnds
<1> QED BY <1>1, <1>2, <1>3, <1>4, <1>5, <1>6, <1>7, <1>8, <1>9, <1>10, <1>11, <1>12,
           <1>13, <1>14, <1>15, <1>16, <1>17, <1>18, <1>19 DEF Next, Step, User

(* From here on the leaves of a step expand an action and the invariant    *)
(* the step preserves, nothing else.                                       *)
LEMMA PhaseStep == TypeOK /\ TypeOK' /\ PhaseInv /\ [Next]_vars => PhaseInv'
<1> SUFFICES ASSUME TypeOK, TypeOK', PhaseInv, [Next]_vars PROVE PhaseInv'
  OBVIOUS
<1> USE DEF TypeOK, PhaseInv, world, out, sqlc, Goto, Return
<1>1. ASSUME UNCHANGED vars PROVE PhaseInv'
  BY <1>1 DEF vars
<1>2. ASSUME Edit PROVE PhaseInv'
  BY <1>2 DEF Edit
<1>3. ASSUME NEW r \in Run, NEW c \in {"generate", "check"}, Begin(r, c) PROVE PhaseInv'
  BY <1>3 DEF Begin
<1>4. ASSUME NEW r \in Run, CannotBegin(r) PROVE PhaseInv'
  BY <1>4 DEF CannotBegin
<1>5. ASSUME NEW r \in Run, CheckVersion(r) PROVE PhaseInv'
  <2>1. pc[r] \in {"version", "asking"} /\ subcommand[r] # "none" /\ result[r] = "none"
    BY <1>5 DEF CheckVersion
  <2>2. UNCHANGED <<subcommand, todo, read, cancelled>>
    BY <1>5 DEF CheckVersion
  <2>3. CASE \E to \in {"asking", "mkdir", "stage"} : Goto(r, to) /\ UNCHANGED result
    BY <2>1, <2>2, <2>3
  <2>4. CASE Goto(r, "done") /\ Return(r, "error")
    BY <2>1, <2>2, <2>4
  <2> QED BY <1>5, <2>3, <2>4 DEF CheckVersion
<1>6. ASSUME NEW r \in Run, MakeOut(r) PROVE PhaseInv'
  <2>1. pc[r] = "mkdir" /\ subcommand[r] # "none" /\ result[r] = "none"
    BY <1>6 DEF MakeOut
  <2>2. UNCHANGED <<subcommand, todo, read, cancelled>>
    BY <1>6 DEF MakeOut
  <2>3. CASE Goto(r, "stage") /\ UNCHANGED result
    BY <2>1, <2>2, <2>3
  <2>4. CASE Goto(r, "done") /\ Return(r, "error")
    BY <2>1, <2>2, <2>4
  <2> QED BY <1>6, <2>3, <2>4 DEF MakeOut
<1>7. ASSUME NEW r \in Run, MakeStaging(r) PROVE PhaseInv'
  BY <1>7 DEF MakeStaging
<1>8. ASSUME NEW r \in Run, RenderConfig(r) PROVE PhaseInv'
  BY <1>8 DEF RenderConfig
<1>9. ASSUME NEW r \in Run, SqlcFails(r) PROVE PhaseInv'
  BY <1>9 DEF SqlcFails
<1>10. ASSUME NEW r \in Run, NEW d \in Dialect, SqlcCompiles(r, d) PROVE PhaseInv'
  BY <1>10 DEF SqlcCompiles
<1>11. ASSUME NEW r \in Run, NEW d \in Dialect, SqlcGenerates(r, d) PROVE PhaseInv'
  BY <1>11 DEF SqlcGenerates
<1>12. ASSUME NEW r \in Run, NEW f \in File, OpenFile(r, f) PROVE PhaseInv'
  BY <1>12 DEF OpenFile
<1>13. ASSUME NEW r \in Run, NEW d \in Dialect, FillFile(r, d) PROVE PhaseInv'
  BY <1>13 DEF FillFile
<1>14. ASSUME NEW r \in Run, NEW d \in Dialect, SqlcExits(r, d) PROVE PhaseInv'
  <2>1. \A e \in todo'[r] : read'[r][e] = Unread
    BY <1>14, FirstUnique DEF SqlcExits
  <2> QED BY <1>14, <2>1 DEF SqlcExits
<1>15. ASSUME NEW r \in Run, SqlcDies(r) PROVE PhaseInv'
  BY <1>15 DEF SqlcDies
<1>16. ASSUME NEW r \in Run, RemoveStaging(r) PROVE PhaseInv'
  BY <1>16 DEF RemoveStaging
<1>17. ASSUME NEW r \in Run, Interrupt(r) PROVE PhaseInv'
  BY <1>17 DEF Interrupt, Active
<1>18. ASSUME NEW r \in Run, Kill(r) PROVE PhaseInv'
  BY <1>18 DEF Kill, Active
<1>19. ASSUME NEW r \in Run, OrphanEnds(r) PROVE PhaseInv'
  BY <1>19 DEF OrphanEnds
<1> QED BY <1>1, <1>2, <1>3, <1>4, <1>5, <1>6, <1>7, <1>8, <1>9, <1>10,
           <1>11, <1>12, <1>13, <1>14, <1>15, <1>16, <1>17, <1>18, <1>19 DEF Next, Step, User

LEMMA LoopStep ==
    TypeOK /\ TypeOK' /\ PhaseInv /\ LoopInv /\ WriteInv /\ [Next]_vars => LoopInv'
<1> SUFFICES ASSUME TypeOK, TypeOK', PhaseInv, LoopInv, WriteInv, [Next]_vars PROVE LoopInv'
  OBVIOUS
<1> USE DEF TypeOK, LoopInv, world, out, sqlc, Goto, Return, Roster
<1>1. ASSUME UNCHANGED vars PROVE LoopInv'
  BY <1>1 DEF vars
<1>2. ASSUME Edit PROVE LoopInv'
  BY <1>2 DEF Edit
<1>3. ASSUME NEW r \in Run, NEW c \in {"generate", "check"}, Begin(r, c) PROVE LoopInv'
  BY <1>3 DEF Begin
<1>4. ASSUME NEW r \in Run, CannotBegin(r) PROVE LoopInv'
  BY <1>4 DEF CannotBegin
<1>5. ASSUME NEW r \in Run, CheckVersion(r) PROVE LoopInv'
  BY <1>5 DEF CheckVersion
<1>6. ASSUME NEW r \in Run, MakeOut(r) PROVE LoopInv'
  BY <1>6 DEF MakeOut
<1>7. ASSUME NEW r \in Run, MakeStaging(r) PROVE LoopInv'
  BY <1>7 DEF MakeStaging
<1>8. ASSUME NEW r \in Run, RenderConfig(r) PROVE LoopInv'
  BY <1>8 DEF RenderConfig
<1>9. ASSUME NEW r \in Run, SqlcFails(r) PROVE LoopInv'
  BY <1>9 DEF SqlcFails
<1>10. ASSUME NEW r \in Run, NEW d \in Dialect, SqlcCompiles(r, d) PROVE LoopInv'
  <2>1. \A e \in todo'[r] : Rank[d] < Rank[e]
    BY <1>10, FirstBefore DEF SqlcCompiles
  <2>2. read'[r][d].verdict \in {"accepted", "refused"} /\ subcommand'[r] = "check"
    BY <1>10, InputVerdicts DEF SqlcCompiles
  <2> QED BY <1>10, <2>1, <2>2 DEF SqlcCompiles
<1>11. ASSUME NEW r \in Run, NEW d \in Dialect, SqlcGenerates(r, d) PROVE LoopInv'
  BY <1>11 DEF SqlcGenerates
<1>12. ASSUME NEW r \in Run, NEW f \in File, OpenFile(r, f) PROVE LoopInv'
  BY <1>12 DEF OpenFile
<1>13. ASSUME NEW r \in Run, NEW d \in Dialect, FillFile(r, d) PROVE LoopInv'
  BY <1>13 DEF FillFile
<1>14. ASSUME NEW r \in Run, NEW d \in Dialect, SqlcExits(r, d) PROVE LoopInv'
  <2>1. \A e \in todo'[r] : Rank[d] < Rank[e]
    BY <1>14, FirstBefore DEF SqlcExits
  <2>2. read[r][d].verdict = "accepted"
    BY <1>14 DEF SqlcExits, WriteInv, WriteOK
  <2> QED BY <1>14, <2>1, <2>2 DEF SqlcExits
<1>15. ASSUME NEW r \in Run, SqlcDies(r) PROVE LoopInv'
  BY <1>15 DEF SqlcDies
<1>16. ASSUME NEW r \in Run, RemoveStaging(r) PROVE LoopInv'
  BY <1>16 DEF RemoveStaging
<1>17. ASSUME NEW r \in Run, Interrupt(r) PROVE LoopInv'
  BY <1>17 DEF Interrupt
<1>18. ASSUME NEW r \in Run, Kill(r) PROVE LoopInv'
  BY <1>18 DEF Kill
<1>19. ASSUME NEW r \in Run, OrphanEnds(r) PROVE LoopInv'
  BY <1>19 DEF OrphanEnds
<1> QED BY <1>1, <1>2, <1>3, <1>4, <1>5, <1>6, <1>7, <1>8, <1>9, <1>10,
           <1>11, <1>12, <1>13, <1>14, <1>15, <1>16, <1>17, <1>18, <1>19 DEF Next, Step, User

LEMMA GateStep ==
    TypeOK /\ TypeOK' /\ PhaseInv /\ GateInv /\ WriteInv /\ [Next]_vars => GateInv'
<1> SUFFICES ASSUME TypeOK, TypeOK', PhaseInv, GateInv, WriteInv, [Next]_vars PROVE GateInv'
  OBVIOUS
<1> USE DEF TypeOK, GateInv, Writing, world, out, sqlc, Goto, Return
<1>1. ASSUME UNCHANGED vars PROVE GateInv'
  BY <1>1 DEF vars
<1>2. ASSUME Edit PROVE GateInv'
  BY <1>2 DEF Edit
<1>3. ASSUME NEW r \in Run, NEW c \in {"generate", "check"}, Begin(r, c) PROVE GateInv'
  <2>1. ~Writing(r)
    BY <1>3 DEF Begin, WriteInv, WriteOK
  <2>2. UNCHANGED <<unwritten, staging>> /\ \A s \in Run \ {r} : UNCHANGED <<pc[s], subcommand[s], cfg[s]>>
    BY <1>3 DEF Begin
  <2>3. pc[r] = "idle" /\ pc'[r] = "version"
    BY <1>3 DEF Begin
  <2> QED BY <2>1, <2>2, <2>3
<1>4. ASSUME NEW r \in Run, CannotBegin(r) PROVE GateInv'
  BY <1>4 DEF CannotBegin
<1>5. ASSUME NEW r \in Run, CheckVersion(r) PROVE GateInv'
  BY <1>5 DEF CheckVersion, PhaseInv
<1>6. ASSUME NEW r \in Run, MakeOut(r) PROVE GateInv'
  BY <1>6 DEF MakeOut
<1>7. ASSUME NEW r \in Run, MakeStaging(r) PROVE GateInv'
  BY <1>7 DEF MakeStaging
<1>8. ASSUME NEW r \in Run, RenderConfig(r) PROVE GateInv'
  BY <1>8 DEF RenderConfig
<1>9. ASSUME NEW r \in Run, SqlcFails(r) PROVE GateInv'
  BY <1>9 DEF SqlcFails
<1>10. ASSUME NEW r \in Run, NEW d \in Dialect, SqlcCompiles(r, d) PROVE GateInv'
  BY <1>10 DEF SqlcCompiles
<1>11. ASSUME NEW r \in Run, NEW d \in Dialect, SqlcGenerates(r, d) PROVE GateInv'
  BY <1>11 DEF SqlcGenerates
<1>12. ASSUME NEW r \in Run, NEW f \in File, OpenFile(r, f) PROVE GateInv'
  BY <1>12 DEF OpenFile
<1>13. ASSUME NEW r \in Run, NEW d \in Dialect, FillFile(r, d) PROVE GateInv'
  BY <1>13 DEF FillFile, WriteInv, WriteOK
<1>14. ASSUME NEW r \in Run, NEW d \in Dialect, SqlcExits(r, d) PROVE GateInv'
  BY <1>14 DEF SqlcExits
<1>15. ASSUME NEW r \in Run, SqlcDies(r) PROVE GateInv'
  BY <1>15 DEF SqlcDies
<1>16. ASSUME NEW r \in Run, RemoveStaging(r) PROVE GateInv'
  BY <1>16 DEF RemoveStaging
<1>17. ASSUME NEW r \in Run, Interrupt(r) PROVE GateInv'
  BY <1>17 DEF Interrupt
<1>18. ASSUME NEW r \in Run, Kill(r) PROVE GateInv'
  BY <1>18 DEF Kill, Active
<1>19. ASSUME NEW r \in Run, OrphanEnds(r) PROVE GateInv'
  BY <1>19 DEF OrphanEnds
<1> QED BY <1>1, <1>2, <1>3, <1>4, <1>5, <1>6, <1>7, <1>8, <1>9, <1>10,
           <1>11, <1>12, <1>13, <1>14, <1>15, <1>16, <1>17, <1>18, <1>19 DEF Next, Step, User

(* A step of one run leaves the state of every other run alone.            *)
Same(s) ==
    UNCHANGED <<pc[s], subcommand[s], cfg[s], todo[s], unwritten[s], opened[s], staging[s],
                cancelled[s], result[s], read[s]>>

LEMMA OthersSame ==
    ASSUME TypeOK, NEW r \in Run, Step(r) \/ User(r), NEW s \in Run \ {r}
    PROVE  Same(s)
<1> USE DEF TypeOK, Same, world, out, sqlc, Goto, Return
<1>1. ASSUME NEW c \in {"generate", "check"}, Begin(r, c) PROVE Same(s)
  BY <1>1 DEF Begin
<1>2. ASSUME CannotBegin(r) PROVE Same(s)
  BY <1>2 DEF CannotBegin
<1>3. ASSUME CheckVersion(r) PROVE Same(s)
  BY <1>3 DEF CheckVersion
<1>4. ASSUME MakeOut(r) PROVE Same(s)
  BY <1>4 DEF MakeOut
<1>5. ASSUME MakeStaging(r) PROVE Same(s)
  BY <1>5 DEF MakeStaging
<1>6. ASSUME RenderConfig(r) PROVE Same(s)
  BY <1>6 DEF RenderConfig
<1>7. ASSUME SqlcFails(r) PROVE Same(s)
  BY <1>7 DEF SqlcFails
<1>8. ASSUME NEW d \in Dialect, SqlcCompiles(r, d) PROVE Same(s)
  BY <1>8 DEF SqlcCompiles
<1>9. ASSUME NEW d \in Dialect, SqlcGenerates(r, d) PROVE Same(s)
  BY <1>9 DEF SqlcGenerates
<1>10. ASSUME NEW f \in File, OpenFile(r, f) PROVE Same(s)
  BY <1>10 DEF OpenFile
<1>11. ASSUME NEW d \in Dialect, FillFile(r, d) PROVE Same(s)
  BY <1>11 DEF FillFile
<1>12. ASSUME NEW d \in Dialect, SqlcExits(r, d) PROVE Same(s)
  BY <1>12 DEF SqlcExits
<1>13. ASSUME SqlcDies(r) PROVE Same(s)
  BY <1>13 DEF SqlcDies
<1>14. ASSUME RemoveStaging(r) PROVE Same(s)
  BY <1>14 DEF RemoveStaging
<1>15. ASSUME Interrupt(r) PROVE Same(s)
  BY <1>15 DEF Interrupt
<1>16. ASSUME Kill(r) PROVE Same(s)
  BY <1>16 DEF Kill
<1>17. ASSUME OrphanEnds(r) PROVE Same(s)
  BY <1>17 DEF OrphanEnds
<1> QED BY <1>1, <1>2, <1>3, <1>4, <1>5, <1>6, <1>7, <1>8, <1>9, <1>10,
           <1>11, <1>12, <1>13, <1>14, <1>15, <1>16, <1>17 DEF Step, User

(* A file that exists is truncated or overwritten, never removed.          *)
LEMMA FilesStay ==
    ASSUME TypeOK, WriteInv, Next, NEW f \in File, dir[f] # Absent
    PROVE  dir'[f] # Absent
<1> USE DEF TypeOK
<1>1. ASSUME NEW r \in Run, NEW g \in File, OpenFile(r, g) PROVE dir'[f] # Absent
  BY <1>1 DEF OpenFile, Empty, Absent
<1>2. ASSUME NEW r \in Run, NEW d \in Dialect, FillFile(r, d) PROVE dir'[f] # Absent
  <2>1. opened[r] \in SharedFile \cup {d} /\ read[r][d].verdict = "accepted"
    BY <1>2 DEF FillFile, WriteInv, WriteOK, Writing
  <2>2. Absent \notin Contents(r, opened[r], d)
    <3>1. Emitted(r, d)[opened[r]] # Absent
      BY <2>1, EmittedTypes
    <3>2. Garbled # Absent
      BY DEF Garbled, Absent
    <3> QED BY <3>1, <3>2 DEF Contents
  <2> QED BY <1>2, <2>2 DEF FillFile
<1>3. CASE dir' = dir
  BY <1>3
<1> QED BY <1>1, <1>2, <1>3 DEF Next, Step, User, Edit, Begin, CannotBegin, CheckVersion,
           MakeOut, MakeStaging, RenderConfig, SqlcFails, SqlcCompiles, SqlcGenerates, SqlcExits,
           SqlcDies, RemoveStaging, Interrupt, Kill, OrphanEnds, out

LEMMA WriteStep ==
    TypeOK /\ TypeOK' /\ PhaseInv /\ WriteInv /\ [Next]_vars => WriteInv'
<1> SUFFICES ASSUME TypeOK, TypeOK', PhaseInv, WriteInv, [Next]_vars PROVE WriteInv'
  OBVIOUS
<1>1. CASE UNCHANGED vars
  BY <1>1 DEF vars, world, out, sqlc, WriteInv, WriteOK, Writing
<1>2. CASE Edit
  BY <1>2 DEF Edit, world, out, sqlc, WriteInv, WriteOK, Writing
<1>3. ASSUME NEW r \in Run, Step(r) \/ User(r) PROVE WriteInv'
  <2>1. ASSUME NEW s \in Run \ {r} PROVE WriteOK(s)'
    <3>1. Same(s) /\ WriteOK(s) /\ Next
      BY <1>3, OthersSame DEF WriteInv, Next
    <3>2. opened[s] # None => dir'[opened[s]] # Absent
      BY <3>1, FilesStay DEF WriteOK, TypeOK
    <3> QED BY <3>1, <3>2 DEF Same, WriteOK, Writing
  <2>2. WriteOK(r)'
    <3> USE DEF TypeOK, WriteOK, Writing, world, out, sqlc, Goto, Return
    <3>0. WriteOK(r)
      BY DEF WriteInv
    <3>1. ASSUME NEW c \in {"generate", "check"}, Begin(r, c) PROVE WriteOK(r)'
      BY <3>1, <3>0 DEF Begin
    <3>2. CASE CannotBegin(r)
      BY <3>2, <3>0 DEF CannotBegin
    <3>3. CASE CheckVersion(r)
      BY <3>3, <3>0 DEF CheckVersion
    <3>4. CASE MakeOut(r)
      BY <3>4, <3>0 DEF MakeOut
    <3>5. CASE MakeStaging(r)
      BY <3>5, <3>0 DEF MakeStaging
    <3>6. CASE RenderConfig(r)
      BY <3>6, <3>0 DEF RenderConfig
    <3>7. CASE SqlcFails(r)
      BY <3>7, <3>0 DEF SqlcFails
    <3>8. ASSUME NEW d \in Dialect, SqlcCompiles(r, d) PROVE WriteOK(r)'
      BY <3>8, <3>0 DEF SqlcCompiles
    <3>9. ASSUME NEW d \in Dialect, SqlcGenerates(r, d) PROVE WriteOK(r)'
      <4>1. result[r] = "none" /\ opened[r] = None
        BY <3>9, <3>0 DEF SqlcGenerates, PhaseInv
      <4>2. \A e \in Dialect : First(e, todo'[r]) => e = d
        BY <3>9, FirstUnique DEF SqlcGenerates
      <4> QED BY <3>9, <4>1, <4>2 DEF SqlcGenerates
    <3>10. ASSUME NEW f \in File, OpenFile(r, f) PROVE WriteOK(r)'
      <4>1. Empty # Absent /\ f # None
        BY OrchestratorAssumption DEF Empty, Absent
      <4> QED BY <3>10, <3>0, <4>1 DEF OpenFile
    <3>11. ASSUME NEW d \in Dialect, FillFile(r, d) PROVE WriteOK(r)'
      BY <3>11, <3>0 DEF FillFile
    <3>12. ASSUME NEW d \in Dialect, SqlcExits(r, d) PROVE WriteOK(r)'
      BY <3>12, <3>0 DEF SqlcExits
    <3>13. CASE SqlcDies(r)
      BY <3>13, <3>0 DEF SqlcDies
    <3>14. CASE RemoveStaging(r)
      BY <3>14, <3>0 DEF RemoveStaging
    <3>15. CASE Interrupt(r)
      BY <3>15, <3>0 DEF Interrupt
    <3>16. CASE Kill(r)
      BY <3>16, <3>0 DEF Kill, Active, PhaseInv
    <3>17. CASE OrphanEnds(r)
      BY <3>17, <3>0 DEF OrphanEnds, PhaseInv
    <3> QED BY <1>3, <3>1, <3>2, <3>3, <3>4, <3>5, <3>6, <3>7, <3>8, <3>9, <3>10,
               <3>11, <3>12, <3>13, <3>14, <3>15, <3>16, <3>17 DEF Step, User
  <2> QED BY <2>1, <2>2 DEF WriteInv
<1> QED BY <1>1, <1>2, <1>3 DEF Next

(* What a run emits depends on the configuration it loaded and on what     *)
(* sqlc read, not on the directory or on other runs.                       *)
LEMMA EmittedSame ==
    ASSUME NEW r, NEW d, cfg'[r] = cfg[r], read'[r][d] = read[r][d]
    PROVE  Emitted(r, d)' = Emitted(r, d)
BY DEF Emitted, PluginOptions

(* Nobody but the owner changes the directory, and a run that touches      *)
(* nothing starts to only by beginning to generate.                        *)
LEMMA BystanderStep ==
    ASSUME TypeOK, PhaseInv, WriteInv, NEW r \in Run, Step(r) \/ User(r), ~Touching(r),
           ~Begin(r, "generate")
    PROVE  dir' = dir /\ ~Touching(r)' /\ owner' = owner
<1> USE DEF TypeOK, Touching, Writing, Active, world, out, sqlc, Goto, Return
<1>0. /\ unwritten[r] = {} /\ opened[r] = None
      /\ pc[r] \notin {"idle", "done", "killed"} => subcommand[r] = "check"
  BY DEF WriteInv, WriteOK, PhaseInv
<1> DEFINE Goal == dir' = dir /\ ~Touching(r)' /\ owner' = owner
<1>1. ASSUME NEW c \in {"generate", "check"}, Begin(r, c) PROVE Goal
  BY <1>0, <1>1 DEF Begin
<1>2. CASE CannotBegin(r)
  BY <1>0, <1>2 DEF CannotBegin
<1>3. CASE CheckVersion(r)
  BY <1>0, <1>3 DEF CheckVersion
<1>4. CASE MakeOut(r)
  BY <1>0, <1>4 DEF MakeOut
<1>5. CASE MakeStaging(r)
  BY <1>0, <1>5 DEF MakeStaging
<1>6. CASE RenderConfig(r)
  BY <1>0, <1>6 DEF RenderConfig
<1>7. CASE SqlcFails(r)
  BY <1>0, <1>7 DEF SqlcFails
<1>8. ASSUME NEW d \in Dialect, SqlcCompiles(r, d) PROVE Goal
  BY <1>0, <1>8 DEF SqlcCompiles
<1>9. ASSUME NEW d \in Dialect, SqlcGenerates(r, d) PROVE Goal
  BY <1>0, <1>9 DEF SqlcGenerates
<1>10. ASSUME NEW f \in File, OpenFile(r, f) PROVE Goal
  BY <1>0, <1>10 DEF OpenFile
<1>11. ASSUME NEW d \in Dialect, FillFile(r, d) PROVE Goal
  BY <1>0, <1>11 DEF FillFile
<1>12. ASSUME NEW d \in Dialect, SqlcExits(r, d) PROVE Goal
  BY <1>0, <1>12 DEF SqlcExits
<1>13. CASE SqlcDies(r)
  BY <1>0, <1>13 DEF SqlcDies
<1>14. CASE RemoveStaging(r)
  BY <1>0, <1>14 DEF RemoveStaging
<1>15. CASE Interrupt(r)
  BY <1>0, <1>15 DEF Interrupt
<1>16. CASE Kill(r)
  BY <1>0, <1>16 DEF Kill
<1>17. CASE OrphanEnds(r)
  BY <1>0, <1>17 DEF OrphanEnds
<1> QED BY <1>1, <1>2, <1>3, <1>4, <1>5, <1>6, <1>7, <1>8, <1>9, <1>10,
           <1>11, <1>12, <1>13, <1>14, <1>15, <1>16, <1>17 DEF Step, User

(* The owner's own bookkeeping: no file changes hands.                     *)
LEMMA OwnerKeeps ==
    ASSUME TypeOK, NEW r \in Run, Owns(r), \A s \in Run \ {r} : ~Touching(s)',
           subcommand'[r] = subcommand[r],
           cfg'[r] = cfg[r], todo'[r] = todo[r], dir' = dir, read'[r] = read[r],
           opened'[r] = opened[r], unwritten'[r] = unwritten[r],
           pc'[r] = pc[r] \/ pc'[r] # "write",
           pc'[r] \in {"version", "asking", "mkdir", "stage", "loop", "sqlc"} \/ result'[r] = "ok" =>
             pc[r] \in {"version", "asking", "mkdir", "stage", "loop", "sqlc"} \/ result[r] = "ok"
    PROVE  Owns(r)'
<1>1. \A d \in Dialect : Emitted(r, d)' = Emitted(r, d)
  BY EmittedSame
<1>2. Roster(r)' = Roster(r) /\ Roster(r) \subseteq Dialect
  BY OrchestratorAssumption DEF Roster, TypeOK
<1>3. VisitedFiles(r)'
  BY <1>1, <1>2 DEF Owns, VisitedFiles
<1>4. VisitedShared(r)'
  BY <1>1, <1>2 DEF Owns, VisitedShared
<1>5. WrittenFiles(r)'
  BY <1>1, <1>2 DEF Owns, WrittenFiles
<1> QED BY <1>3, <1>4, <1>5 DEF Owns

(* The owner's steps.                                                      *)
LEMMA OwnerActs ==
    ASSUME TypeOK, TypeOK', PhaseInv, LoopInv, WriteInv, NEW r \in Run, owner = r, Owns(r),
           Step(r) \/ User(r)
    PROVE  Owns(r)'
<1>1. \A s \in Run \ {r} : ~Touching(s)'
  BY OthersSame DEF Owns, Same, Touching, Active, Writing
<1>2. subcommand[r] = "generate" /\ pc[r] # "idle"
  BY DEF Owns, PhaseInv
<1>3. Roster(r) \subseteq Dialect /\ todo[r] \subseteq Roster(r)
  BY OrchestratorAssumption DEF Roster, TypeOK
<1>4. WriteOK(r)
  BY DEF WriteInv
<1>5. ASSUME NEW c \in {"generate", "check"}, Begin(r, c) PROVE Owns(r)'
  BY <1>2, <1>5 DEF Begin, TypeOK, world, out, sqlc, Goto, Return
<1>6. CASE CannotBegin(r)
  BY <1>2, <1>6 DEF CannotBegin, TypeOK, world, out, sqlc, Goto, Return
<1>7. CASE CheckVersion(r)
  <2>1. /\ pc[r] \in {"version", "asking"}
        /\ UNCHANGED <<subcommand, cfg, todo, dir, read, opened, unwritten>>
    BY <1>7 DEF CheckVersion, out, sqlc
  <2>2. pc'[r] # "write"
    BY <1>7 DEF CheckVersion, TypeOK, Goto
  <2> QED BY <1>1, <2>1, <2>2, OwnerKeeps
<1>8. CASE MakeOut(r)
  BY <1>1, <1>8, OwnerKeeps DEF MakeOut, TypeOK, world, out, sqlc, Goto, Return
<1>9. CASE MakeStaging(r)
  BY <1>1, <1>9, OwnerKeeps DEF MakeStaging, TypeOK, world, out, sqlc, Goto, Return
<1>10. CASE RenderConfig(r)
  BY <1>1, <1>10, OwnerKeeps DEF RenderConfig, TypeOK, world, out, sqlc, Goto, Return
<1>11. CASE SqlcFails(r)
  BY <1>1, <1>11, OwnerKeeps DEF SqlcFails, TypeOK, world, out, sqlc, Goto, Return
<1>12. ASSUME NEW d \in Dialect, SqlcCompiles(r, d) PROVE Owns(r)'
  BY <1>2, <1>12 DEF SqlcCompiles, TypeOK, world, out, sqlc, Goto, Return
<1>13. CASE SqlcDies(r)
  <2>1. /\ todo'[r] = todo[r] /\ cfg'[r] = cfg[r] /\ read'[r] = read[r] /\ dir' = dir
        /\ pc'[r] = "cleanup" /\ result'[r] = "error" /\ subcommand'[r] = "generate"
    BY <1>2, <1>13 DEF SqlcDies, TypeOK, world, out, sqlc, Goto, Return
  <2>2. \A d \in Dialect : Emitted(r, d)' = Emitted(r, d)
    BY <2>1, EmittedSame
  <2>3. VisitedFiles(r)'
    BY <1>3, <2>1, <2>2 DEF Owns, VisitedFiles, Roster
  <2>4. VisitedShared(r)'
    BY <2>1 DEF VisitedShared
  <2>5. WrittenFiles(r)'
    BY <2>1 DEF WrittenFiles
  <2> QED BY <1>1, <2>1, <2>3, <2>4, <2>5 DEF Owns
<1>14. CASE RemoveStaging(r)
  BY <1>1, <1>14, OwnerKeeps DEF RemoveStaging, TypeOK, world, out, sqlc, Goto, Return
<1>15. CASE Interrupt(r)
  BY <1>1, <1>15, OwnerKeeps DEF Interrupt, TypeOK, world, out, sqlc, Goto, Return
<1>16. CASE Kill(r)
  BY <1>1, <1>16, OwnerKeeps DEF Kill, TypeOK, world, out, sqlc, Goto, Return
<1>21. CASE OrphanEnds(r)
  BY <1>1, <1>21, OwnerKeeps DEF OrphanEnds, TypeOK, world, out, sqlc, Goto, Return
<1>17. ASSUME NEW d \in Dialect, SqlcGenerates(r, d) PROVE Owns(r)'
  <2>1. /\ todo'[r] = todo[r] /\ cfg'[r] = cfg[r] /\ dir' = dir /\ pc'[r] \in {"write", "killed"}
        /\ unwritten'[r] = SharedFile \cup {d} /\ subcommand'[r] = "generate"
        /\ First(d, todo[r]) /\ \A e \in Dialect \ {d} : read'[r][e] = read[r][e]
    BY <1>2, <1>17 DEF SqlcGenerates, TypeOK, world, out, sqlc, Goto, Return
  <2>2. opened'[r] = None /\ result'[r] = "none"
    BY <1>4, <1>17
       DEF SqlcGenerates, WriteOK, Writing, PhaseInv, TypeOK, world, out, sqlc, Goto, Return
  <2>3. \A e \in Dialect \ {d} : Emitted(r, e)' = Emitted(r, e)
    BY <2>1, EmittedSame
  <2>4. \A e \in Roster(r) \ todo[r] : e \in Dialect \ {d}
    BY <1>3, <2>1 DEF First
  <2>5. \A e \in Dialect : First(e, todo[r]) => e = d
    BY <1>3, <2>1, FirstUnique
  <2>6. VisitedFiles(r)'
    BY <2>1, <2>3, <2>4 DEF Owns, VisitedFiles, Roster
  <2>7. VisitedShared(r)'
    BY <2>1, <2>2 DEF VisitedShared
  <2>8. WrittenFiles(r)'
    BY <2>1, <2>2, <2>5 DEF WrittenFiles
  <2> QED BY <1>1, <2>1, <2>6, <2>7, <2>8 DEF Owns
<1>18. ASSUME NEW f \in File, OpenFile(r, f) PROVE Owns(r)'
  <2>1. /\ todo'[r] = todo[r] /\ cfg'[r] = cfg[r] /\ read'[r] = read[r] /\ pc'[r] = pc[r]
        /\ unwritten'[r] = unwritten[r] /\ opened'[r] = f /\ subcommand'[r] = "generate"
        /\ dir'[f] = Empty /\ \A g \in File \ {f} : dir'[g] = dir[g]
        /\ f \in unwritten[r] /\ result'[r] = result[r]
    BY <1>2, <1>18 DEF OpenFile, TypeOK, world, out, sqlc, Goto, Return
  <2>2. pc[r] \in {"write", "killed"} /\ result[r] = "none"
    BY <1>4, <2>1 DEF WriteOK, Writing
  <2>3. PICK d \in Dialect : First(d, todo[r]) /\ unwritten[r] \subseteq SharedFile \cup {d}
    BY <1>4, <2>1 DEF WriteOK, Writing
  <2>4. \A e \in Dialect : Emitted(r, e)' = Emitted(r, e)
    BY <2>1, EmittedSame
  <2>5. \A e \in Roster(r) \ todo[r] : e \in File \ {f}
    BY <1>3, <2>1, <2>3, EmissionAssumption DEF First, File
  <2>6. \A e \in Dialect : (SharedFile \cup {e}) \ unwritten[r] \subseteq File \ {f}
    BY <2>1 DEF File
  <2>7. VisitedFiles(r)'
    BY <1>3, <2>1, <2>4, <2>5 DEF Owns, VisitedFiles, Roster
  <2>8. VisitedShared(r)'
    BY <2>1, <2>2 DEF VisitedShared
  <2>9. WrittenFiles(r)'
    BY <2>1, <2>4, <2>6 DEF Owns, WrittenFiles
  <2> QED BY <1>1, <2>1, <2>7, <2>8, <2>9 DEF Owns
<1>19. ASSUME NEW d \in Dialect, FillFile(r, d) PROVE Owns(r)'
  <2> DEFINE f == opened[r]
  <2>1. /\ todo'[r] = todo[r] /\ cfg'[r] = cfg[r] /\ read'[r] = read[r] /\ pc'[r] = pc[r]
        /\ unwritten'[r] = unwritten[r] \ {f} /\ opened'[r] = None /\ subcommand'[r] = "generate"
        /\ f # None /\ First(d, todo[r]) /\ result'[r] = result[r] /\ f \in File
    BY <1>2, <1>19 DEF FillFile, TypeOK, world, out, sqlc, Goto, Return
  <2>2. pc[r] \in {"write", "killed"} /\ result[r] = "none" /\ f \in unwritten[r]
    BY <1>4, <2>1 DEF WriteOK, Writing
  <2>3. unwritten[r] \subseteq SharedFile \cup {d}
    BY <1>4, <2>1, <2>2 DEF WriteOK, Writing
  <2>4. PICK c \in Contents(r, f, d) : dir' = [dir EXCEPT ![f] = c]
    BY <1>19 DEF FillFile, TypeOK, world, out, sqlc, Goto, Return
  <2>5. dir'[f] = c /\ \A g \in File \ {f} : dir'[g] = dir[g]
    BY <2>1, <2>4 DEF TypeOK
  <2>6. pc[r] = "write" => c = Emitted(r, d)[f]
    BY <2>1, <2>4 DEF Owns, WrittenFiles, Contents
  <2>7. \A e \in Dialect : Emitted(r, e)' = Emitted(r, e)
    BY <2>1, EmittedSame
  <2>8. \A e \in Roster(r) \ todo[r] : e \in File \ {f}
    BY <1>3, <2>1, <2>2, <2>3, EmissionAssumption DEF First, File
  <2>9. ASSUME pc[r] = "write", NEW g \in (SharedFile \cup {d}) \ unwritten'[r]
        PROVE  dir'[g] = Emitted(r, d)[g]
    <3>1. CASE g = f
      BY <2>5, <2>6, <2>9, <3>1
    <3>2. CASE g # f
      BY <2>1, <2>5, <2>9, <3>2 DEF Owns, WrittenFiles, File
    <3> QED BY <3>1, <3>2
  <2>10. \A e \in Dialect : First(e, todo[r]) => e = d
    BY <1>3, <2>1, FirstUnique
  <2> HIDE DEF f
  <2>11. VisitedFiles(r)'
    BY <1>3, <2>1, <2>5, <2>7, <2>8 DEF Owns, VisitedFiles, Roster
  <2>12. VisitedShared(r)'
    BY <2>1, <2>2 DEF VisitedShared
  <2>13. WrittenFiles(r)'
    BY <2>1, <2>7, <2>9, <2>10 DEF WrittenFiles
  <2> QED BY <1>1, <2>1, <2>11, <2>12, <2>13 DEF Owns
<1>20. ASSUME NEW d \in Dialect, SqlcExits(r, d) PROVE Owns(r)'
  <2>1. /\ todo'[r] = todo[r] \ {d} /\ cfg'[r] = cfg[r] /\ read'[r] = read[r] /\ pc[r] = "write"
        /\ pc'[r] = "loop" /\ unwritten[r] = {} /\ subcommand'[r] = "generate"
        /\ dir' = dir /\ First(d, todo[r])
    BY <1>2, <1>20 DEF SqlcExits, TypeOK, world, out, sqlc, Goto, Return
  <2>2. \A e \in Dialect : Emitted(r, e)' = Emitted(r, e)
    BY <2>1, EmittedSame
  <2>3. \A f \in SharedFile \cup {d} : dir[f] = Emitted(r, d)[f]
    BY <2>1 DEF Owns, WrittenFiles
  <2>4. Last(d, Roster(r) \ todo'[r])
    <3>1. d \in Roster(r) \ todo'[r]
      BY <1>3, <2>1 DEF First
    <3>2. ASSUME NEW e \in Roster(r) \ todo[r] PROVE Rank[e] <= Rank[d]
      <4>1. Rank[e] < Rank[d]
        BY <1>2, <2>1 DEF LoopInv, First
      <4>2. Rank[e] \in Nat /\ Rank[d] \in Nat
        BY <1>3, OrchestratorAssumption
      <4> QED BY <4>1, <4>2
    <3>3. Rank[d] <= Rank[d]
      BY OrchestratorAssumption
    <3> QED BY <2>1, <3>1, <3>2, <3>3 DEF Last
  <2>5. \A e \in Dialect : Last(e, Roster(r) \ todo'[r]) => e = d
    BY <1>3, <2>4, FirstUnique
  <2>6. VisitedFiles(r)'
    BY <1>3, <2>1, <2>2, <2>3 DEF Owns, VisitedFiles, Roster
  <2>7. VisitedShared(r)'
    BY <1>3, <2>1, <2>2, <2>3, <2>5 DEF VisitedShared, Roster
  <2>8. WrittenFiles(r)'
    BY <2>1 DEF WrittenFiles
  <2> QED BY <1>1, <2>1, <2>6, <2>7, <2>8 DEF Owns
<1> QED BY <1>5, <1>6, <1>7, <1>8, <1>9, <1>10, <1>11, <1>12, <1>13, <1>14,
           <1>15, <1>16, <1>17, <1>18, <1>19, <1>20, <1>21 DEF Step, User

LEMMA OwnerStep ==
    /\ TypeOK /\ TypeOK' /\ PhaseInv /\ LoopInv /\ WriteInv /\ OwnerInv
    /\ [Next]_vars
    => OwnerInv'
<1> SUFFICES ASSUME TypeOK, TypeOK', PhaseInv, LoopInv, WriteInv, OwnerInv, [Next]_vars,
                    NEW o \in Run, owner' = o
             PROVE  Owns(o)'
  BY DEF OwnerInv
<1>1. CASE UNCHANGED vars \/ Edit
  BY <1>1, OwnerKeeps DEF vars, Edit, world, out, sqlc, OwnerInv, Owns, Touching, Active, Writing
<1>2. ASSUME NEW r \in Run, Begin(r, "generate") PROVE Owns(o)'
  <2>1. o = r /\ \A s \in Run : ~Touching(s)
    BY <1>2, OrchestratorAssumption DEF Begin
  <2>2. \A s \in Run \ {r} : ~Touching(s)'
    BY <1>2, <2>1, OthersSame DEF Same, Touching, Active, Writing, User
  <2>3. /\ subcommand'[r] = "generate" /\ pc'[r] = "version"
        /\ todo'[r] = config.roster /\ cfg'[r] = config
    BY <1>2 DEF Begin, Goto, TypeOK
  <2> QED BY <2>1, <2>2, <2>3 DEF Owns, VisitedFiles, VisitedShared, WrittenFiles, Roster, Last
<1>3. ASSUME NEW r \in Run, Step(r) \/ User(r), ~Begin(r, "generate") PROVE Owns(o)'
  <2>1. CASE r = o
    <3>1. owner = o
      BY <1>3 DEF Step, User, Begin, CannotBegin, CheckVersion,
           MakeOut, MakeStaging, RenderConfig, SqlcFails, SqlcCompiles, SqlcGenerates, OpenFile,
           FillFile, SqlcExits, SqlcDies, RemoveStaging, Interrupt, Kill, OrphanEnds
    <3> QED BY <1>3, <2>1, <3>1, OwnerActs DEF OwnerInv
  <2>2. CASE r # o /\ owner = o
    <3>1. dir' = dir /\ ~Touching(r)'
      BY <1>3, <2>2, BystanderStep DEF OwnerInv, Owns
    <3>2. \A s \in Run \ {r} : Same(s)
      BY <1>3, OthersSame
    <3>3. \A s \in Run \ {o} : ~Touching(s)'
      BY <2>2, <3>1, <3>2 DEF OwnerInv, Owns, Same, Touching, Active, Writing
    <3> QED BY <2>2, <3>1, <3>2, <3>3, OwnerKeeps DEF OwnerInv, Same
  <2>3. owner = o
    BY <1>3 DEF Step, User, Begin, CannotBegin, CheckVersion,
           MakeOut, MakeStaging, RenderConfig, SqlcFails, SqlcCompiles, SqlcGenerates, OpenFile,
           FillFile, SqlcExits, SqlcDies, RemoveStaging, Interrupt, Kill, OrphanEnds
  <2> QED BY <2>1, <2>2, <2>3
<1> QED BY <1>1, <1>2, <1>3 DEF Next

(* What has been emitted stays so: a run keeps the configuration it        *)
(* loaded, and sqlc reads each dialect once.                               *)
LEMMA EmissionsStay ==
    ASSUME TypeOK, PhaseInv, Next, NEW r \in Run, NEW d \in Dialect, HasEmitted(r, d)
    PROVE  /\ HasEmitted(r, d)'
           /\ PluginOptions(r)' = PluginOptions(r)
           /\ read'[r][d] = read[r][d]
           /\ Emitted(r, d)' = Emitted(r, d)
<1>1. /\ subcommand[r] = "generate" /\ read[r][d].verdict = "accepted"
      /\ pc[r] # "idle" /\ read[r][d] # Unread
  BY DEF HasEmitted, PhaseInv, Unread
<1> USE DEF TypeOK, world, out, sqlc, Goto, Return
<1>2. cfg'[r] = cfg[r] /\ subcommand'[r] = subcommand[r] /\ read'[r][d] = read[r][d]
  <2>1. CASE Edit
    BY <2>1 DEF Edit
  <2>2. ASSUME NEW s \in Run \ {r}, Step(s) \/ User(s)
        PROVE  cfg'[r] = cfg[r] /\ subcommand'[r] = subcommand[r] /\ read'[r][d] = read[r][d]
    BY <2>2, OthersSame DEF Same
  <2>3. ASSUME NEW e \in Dialect, SqlcGenerates(r, e) \/ SqlcCompiles(r, e)
        PROVE  cfg'[r] = cfg[r] /\ subcommand'[r] = subcommand[r] /\ read'[r][d] = read[r][d]
    <3>1. e # d
      BY <1>1, <2>3 DEF SqlcGenerates, SqlcCompiles, PhaseInv, First
    <3> QED BY <2>3, <3>1 DEF SqlcGenerates, SqlcCompiles
  <2>4. CASE Step(r) \/ User(r)
    <3>1. CASE UNCHANGED <<cfg, subcommand, read>>
      BY <3>1
    <3>2. CASE \E c \in {"generate", "check"} : Begin(r, c)
      BY <1>1, <3>2 DEF Begin
    <3>3. CASE \E e \in Dialect : SqlcGenerates(r, e) \/ SqlcCompiles(r, e)
      BY <2>3, <3>3
    <3> QED BY <2>4, <3>1, <3>2, <3>3 DEF Step, User, CannotBegin, CheckVersion,
           MakeOut, MakeStaging, RenderConfig, SqlcFails, OpenFile, FillFile, SqlcExits,
           SqlcDies, RemoveStaging, Interrupt, Kill, OrphanEnds
  <2> QED BY <2>1, <2>2, <2>4 DEF Next
<1> QED BY <1>1, <1>2 DEF HasEmitted, PluginOptions, Emitted

(* Two emissions of runs that agree give a shared file the same content.   *)
LEMMA AgreedFile ==
    ASSUME TypeOK, AllAgree, NEW r \in Run, NEW s \in Run, NEW d \in Dialect, NEW e \in Dialect,
           HasEmitted(r, d), HasEmitted(s, e), NEW f \in SharedFile
    PROVE  Emitted(r, d)[f] = Emitted(s, e)[f]
<1>1. /\ PluginOptions(r) = PluginOptions(s)
      /\ Agree(read[r][d].analysis, read[s][e].analysis)
  BY DEF AllAgree
<1>2. read[r][d].analysis \in Analysis /\ read[s][e].analysis \in Analysis
  BY AcceptedAnalysis DEF HasEmitted, TypeOK
<1> QED BY <1>1, <1>2, AgreementConverges DEF Emitted

LEMMA ConvergeStep ==
    TypeOK /\ TypeOK' /\ PhaseInv /\ WriteInv /\ ConvergeInv /\ [Next]_vars => ConvergeInv'
<1> DEFINE Converged(f) ==
      \/ dir[f] \in {Absent, Empty}
      \/ \E r \in Run : \E d \in Dialect : HasEmitted(r, d) /\ dir[f] = Emitted(r, d)[f]
<1> SUFFICES ASSUME TypeOK, TypeOK', PhaseInv, WriteInv, ConvergeInv, [Next]_vars PROVE ConvergeInv'
  OBVIOUS
<1>1. CASE UNCHANGED vars
  BY <1>1 DEF vars, world, out, sqlc, ConvergeInv, AllAgree, HasEmitted, PluginOptions, Emitted
<1>2. CASE Next
  <2>1. AllAgree' => AllAgree
    BY <1>2, EmissionsStay DEF AllAgree
  <2> SUFFICES ASSUME AllAgree', NEW f \in SharedFile PROVE Converged(f)'
    BY DEF ConvergeInv
  <2>2. Converged(f) /\ f \in File
    BY <2>1 DEF ConvergeInv, File
  <2>3. CASE dir'[f] = dir[f]
    <3>1. CASE dir[f] \in {Absent, Empty}
      BY <2>3, <3>1
    <3>2. ASSUME NEW r \in Run, NEW d \in Dialect, HasEmitted(r, d), dir[f] = Emitted(r, d)[f]
          PROVE  Converged(f)'
      <4>1. HasEmitted(r, d)' /\ Emitted(r, d)' = Emitted(r, d)
        BY <1>2, <3>2, EmissionsStay
      <4>2. dir'[f] = Emitted(r, d)'[f]
        BY <2>3, <3>2, <4>1
      <4> QED BY <4>1, <4>2
    <3> QED BY <2>2, <3>1, <3>2
  <2>4. ASSUME NEW r \in Run, NEW g \in File, OpenFile(r, g) PROVE Converged(f)'
    <3>1. dir'[f] = dir[f] \/ dir'[f] = Empty
      BY <2>2, <2>4 DEF OpenFile, TypeOK
    <3> QED BY <2>3, <3>1
  <2>5. ASSUME NEW r \in Run, NEW d \in Dialect, FillFile(r, d) PROVE Converged(f)'
    <3>1. CASE opened[r] # f
      <4>1. dir'[f] = dir[f]
        BY <2>2, <2>5, <3>1 DEF FillFile, TypeOK
      <4> QED BY <2>3, <4>1
    <3>2. CASE opened[r] = f
      <4>1. HasEmitted(r, d) /\ dir[f] # Absent
        BY <2>5, <3>2 DEF FillFile, WriteInv, WriteOK, Writing, HasEmitted
      <4>2. dir[f] \in {Empty, Emitted(r, d)[f]}
        <5>1. ASSUME NEW s \in Run, NEW e \in Dialect, HasEmitted(s, e)
              PROVE  Emitted(s, e)[f] = Emitted(r, d)[f]
          BY <2>1, <4>1, <5>1, AgreedFile
        <5> QED BY <2>2, <4>1, <5>1
      <4>3. dir'[f] = Emitted(r, d)[f]
        BY <2>2, <2>5, <3>2, <4>2 DEF FillFile, Contents, TypeOK
      <4>4. HasEmitted(r, d)' /\ Emitted(r, d)' = Emitted(r, d)
        BY <1>2, <4>1, EmissionsStay
      <4>5. dir'[f] = Emitted(r, d)'[f]
        BY <4>3, <4>4
      <4> QED BY <4>4, <4>5
    <3> QED BY <3>1, <3>2
  <2>6. CASE dir' = dir
    BY <2>3, <2>6
  <2> QED BY <1>2, <2>4, <2>5, <2>6 DEF Next, Step, User, Edit, Begin, CannotBegin, CheckVersion,
           MakeOut, MakeStaging, RenderConfig, SqlcFails, SqlcCompiles, SqlcGenerates, SqlcExits,
           SqlcDies, RemoveStaging, Interrupt, Kill, OrphanEnds, out
<1> QED BY <1>1, <1>2

(* The initial states satisfy the whole invariant.                         *)
LEMMA InvInit == Init => IInv
<1> SUFFICES ASSUME Init PROVE IInv
  OBVIOUS
<1>1. TypeOK
  BY TypeInit
<1>2. \A r \in Run : /\ pc[r] = "idle" /\ subcommand[r] = "none" /\ result[r] = "none"
                     /\ todo[r] = {} /\ unwritten[r] = {} /\ opened[r] = None
                     /\ ~cancelled[r]
                     /\ \A d \in Dialect : read[r][d] = Unread
  BY DEF Init
<1>3. owner = None /\ None \notin Run /\ \A f \in File : dir[f] = Absent
  BY OrchestratorAssumption DEF Init
<1>4. PhaseInv
  BY <1>2 DEF PhaseInv
<1>5. LoopInv /\ GateInv
  BY <1>2 DEF LoopInv, GateInv, Writing, Init
<1>6. WriteInv
  BY <1>2 DEF WriteInv, WriteOK, Writing
<1>7. OwnerInv
  BY <1>3 DEF OwnerInv
<1>8. ConvergeInv
  BY <1>3 DEF ConvergeInv, File
<1> QED BY <1>1, <1>4, <1>5, <1>6, <1>7, <1>8 DEF IInv

(* IInv is inductive: the order of each run's loop, who is writing what,   *)
(* whose files are there, and what the shared files converge to.           *)
THEOREM Inductive == Spec => []IInv
<1>1. IInv /\ [Next]_vars => IInv'
  BY TypeStep, PhaseStep, GateStep, LoopStep, WriteStep, OwnerStep, ConvergeStep DEF IInv
<1> QED BY InvInit, <1>1, PTL DEF Spec

(* The state stays well-typed, and a loop visits only dialects of the      *)
(* roster its run loaded.                                                  *)
THEOREM TypeCorrect == Spec => []TypeOK
<1>1. IInv => TypeOK
  BY DEF IInv
<1> QED BY Inductive, <1>1, PTL

(* A run that returns no error has visited its whole roster: no dialect's  *)
(* failure is lost on the way to the exit status (run.go:88-106).          *)
THEOREM OkMeansVisited == Spec => []OkVisitsRoster
<1>1. IInv => OkVisitsRoster
  BY DEF IInv, PhaseInv, LoopInv, OkVisitsRoster
<1> QED BY Inductive, <1>1, PTL

LEMMA InvFresh == IInv => Fresh
<1> SUFFICES ASSUME IInv, NEW r \in Run, Succeeded(r), owner = r, NEW d \in Roster(r)
             PROVE  /\ dir[d] = Emitted(r, d)[d]
                    /\ Last(d, Roster(r)) => \A f \in SharedFile : dir[f] = Emitted(r, d)[f]
  BY DEF Fresh
<1>1. todo[r] = {} /\ result[r] = "ok" /\ Owns(r)
  BY DEF IInv, PhaseInv, OwnerInv, Succeeded
<1>2. Roster(r) \ todo[r] = Roster(r) /\ Roster(r) \subseteq Dialect
  BY <1>1, OrchestratorAssumption DEF IInv, TypeOK, Roster
<1>3. dir[d] = Emitted(r, d)[d]
  BY <1>1, <1>2 DEF Owns, VisitedFiles
<1>4. Last(d, Roster(r)) => \A f \in SharedFile : dir[f] = Emitted(r, d)[f]
  BY <1>1, <1>2 DEF Owns, VisitedShared
<1> QED BY <1>3, <1>4

(* A successful generate that had the directory to itself leaves every     *)
(* dialect's own file and the last dialect's shared files, whatever failed *)
(* or killed runs left before and whatever the developer edited meanwhile. *)
THEOREM SuccessIsFresh == Spec => []Fresh
<1> QED BY Inductive, InvFresh, PTL

(* After such a run the Go compiler accepts the package exactly when every *)
(* dialect has the last one's structs and at least its methods, and stale  *)
(* files of dialects since removed still fit (emit.go:28-35).              *)
THEOREM VerdictIsExact == Spec => []CompileVerdict
<1>1. IInv => CompileVerdict
  <2> SUFFICES ASSUME IInv, NEW r \in Run, Succeeded(r), owner = r,
                      NEW d \in Roster(r), Last(d, Roster(r))
               PROVE  Compiles(dir) <=>
                        /\ \A e \in Roster(r) : Visible(read[r][e].analysis, read[r][d].analysis)
                        /\ StaleFilesFit(r, d)
    BY DEF CompileVerdict
  <2> DEFINE an == [e \in Dialect |-> read[r][e].analysis]
  <2>1. Roster(r) \in SUBSET Dialect /\ PluginOptions(r).roster = Roster(r)
    BY OrchestratorAssumption DEF IInv, TypeOK, Roster, PluginOptions
  <2>2. \A e \in Roster(r) : read[r][e].verdict = "accepted"
    BY DEF IInv, PhaseInv, LoopInv, Succeeded
  <2>3. \A e \in Roster(r) : an[e] = read[r][e].analysis /\ an[e] \in Analysis
    BY <2>1, <2>2, AcceptedAnalysis DEF IInv, TypeOK
  <2>4. Fresh
    BY InvFresh
  <2>5. \A e \in Roster(r) : dir[e] = Emit(e, PluginOptions(r), an[e])[e]
    BY <2>3, <2>4 DEF Fresh, Emitted
  <2>6. \A f \in SharedFile : dir[f] = Emit(d, PluginOptions(r), an[d])[f]
    BY <2>3, <2>4 DEF Fresh, Emitted
  <2> HIDE DEF an
  <2>7. Written(Roster(r), d, PluginOptions(r), an, dir)
    BY <2>1, <2>3, <2>5, <2>6 DEF Written
  <2>8. Compiles(dir) <=>
          /\ \A e \in Roster(r) : Visible(an[e], an[d])
          /\ \A e \in Present(dir) \ Roster(r) :
               /\ dir[e].kind = "go"
               /\ Resolves(dir[e].body, EmitDB(PluginOptions(r), an[d]), EmitTypes(an[d]))
    BY <2>7, VerdictOfLastWriter
  <2> QED BY <2>3, <2>8 DEF StaleFilesFit
<1> QED BY Inductive, <1>1, PTL

(* While all emissions agree, last-write-wins on the shared files is a     *)
(* no-op: any number of runs may overlap in any way (emit.go:28-35).       *)
THEOREM AgreementNeedsNoLock == Spec => []SharedFilesConverge
<1>1. IInv => SharedFilesConverge
  BY AgreedFile DEF IInv, ConvergeInv, SharedFilesConverge
<1> QED BY Inductive, <1>1, PTL

(* Every return after os.MkdirTemp has passed the deferred removal, which  *)
(* succeeded or was logged (run.go:81-86).                                 *)
THEOREM StagingIsRemoved == Spec => []StagingRemoved
<1>1. IInv => StagingRemoved
  BY DEF IInv, GateInv, StagingRemoved
<1> QED BY Inductive, <1>1, PTL

(* Only a generate that has passed the pin check creates the out directory *)
(* or changes a file of it (run.go:58-68).                                 *)
THEOREM OnlyGenerateWrites == Spec => OnlyPinnedGenerateWrites
<1>1. IInv /\ [Next]_vars =>
        [out' # out => \E r \in Run : /\ subcommand[r] = "generate"
                                      /\ cfg[r].pin # "mismatch"
                                      /\ pc[r] \in {"mkdir", "write", "killed"}]_vars
  <2> DEFINE Writer(r) == /\ subcommand[r] = "generate"
                          /\ cfg[r].pin # "mismatch"
                          /\ pc[r] \in {"mkdir", "write", "killed"}
  <2> SUFFICES ASSUME IInv, Next, out' # out PROVE \E r \in Run : Writer(r)
    BY DEF vars
  <2>1. ASSUME NEW r \in Run, MakeOut(r) PROVE Writer(r)
    BY <2>1 DEF MakeOut, IInv, GateInv
  <2>2. ASSUME NEW r \in Run, Writing(r) PROVE Writer(r)
    BY <2>2 DEF IInv, GateInv, WriteInv, WriteOK
  <2>3. ASSUME NEW r \in Run, NEW f \in File, OpenFile(r, f) PROVE Writing(r)
    BY <2>3 DEF OpenFile, Writing
  <2>4. ASSUME NEW r \in Run, NEW d \in Dialect, FillFile(r, d) PROVE Writing(r)
    BY <2>4 DEF FillFile, IInv, WriteInv, WriteOK, Writing
  <2> HIDE DEF Writer
  <2> QED BY <2>1, <2>2, <2>3, <2>4 DEF Next, Step, User, Edit, Begin, CannotBegin, CheckVersion,
           MakeStaging, RenderConfig, SqlcFails, SqlcCompiles, SqlcGenerates, SqlcExits,
           SqlcDies, RemoveStaging, Interrupt, Kill, OrphanEnds, out
<1> QED BY Inductive, <1>1, PTL DEF Spec, OnlyPinnedGenerateWrites

(* A dialect that an interrupt has spared stays spared.                    *)
LEMMA SparedStep ==
    ASSUME IInv, [Next]_vars, NEW r \in Run, NEW d \in Dialect,
           cancelled[r], d \in todo[r] \ InHand(r), read[r][d] = Unread
    PROVE  /\ cancelled'[r] /\ d \in todo'[r] /\ d \notin InHand(r)' /\ read'[r][d] = Unread
<1> DEFINE Spared == /\ cancelled'[r] /\ d \in todo'[r] /\ d \notin InHand(r)'
                     /\ read'[r][d] = Unread
<1> SUFFICES Spared
  OBVIOUS
<1> USE DEF InHand, world, out, sqlc, Goto, Return
<1>1. TypeOK /\ PhaseInv
  BY DEF IInv
<1>2. /\ DOMAIN pc = Run /\ DOMAIN cancelled = Run /\ DOMAIN todo = Run /\ DOMAIN read = Run
      /\ DOMAIN read[r] = Dialect
  BY <1>1 DEF TypeOK
<1>3. pc[r] # "idle"
  BY <1>1 DEF PhaseInv
<1>4. ~First(d, todo[r]) \/ pc[r] \notin {"sqlc", "orphan", "write"}
  OBVIOUS
<1>5. ASSUME UNCHANGED <<pc, cancelled, todo, read>> PROVE Spared
  BY <1>5
<1>6. ASSUME NEW s \in Run, s # r, Step(s) \/ User(s) PROVE Spared
  <2>1. /\ pc'[r] = pc[r] /\ cancelled'[r] = cancelled[r] /\ todo'[r] = todo[r]
        /\ read'[r] = read[r]
    BY <1>2, <1>6 DEF Step, User, Begin, CannotBegin, CheckVersion, MakeOut, MakeStaging,
       RenderConfig, SqlcFails, SqlcCompiles, SqlcGenerates, OpenFile, FillFile, SqlcExits,
       SqlcDies, RemoveStaging, Interrupt, Kill, OrphanEnds
  <2> QED BY <2>1
<1>7. CASE User(r)
  <2>1. CASE \E c \in {"generate", "check"} : Begin(r, c)
    BY <1>3, <2>1 DEF Begin
  <2>2. CASE CannotBegin(r)
    BY <1>3, <2>2 DEF CannotBegin
  <2>3. CASE Interrupt(r)
    BY <2>3 DEF Interrupt
  <2>4. CASE Kill(r)
    BY <1>2, <1>4, <2>4 DEF Kill
  <2> QED BY <1>7, <2>1, <2>2, <2>3, <2>4 DEF User
<1>8. CASE CheckVersion(r) \/ MakeOut(r) \/ MakeStaging(r)
  BY <1>2, <1>8 DEF CheckVersion, MakeOut, MakeStaging
<1>9. CASE RenderConfig(r)
  BY <1>2, <1>9 DEF RenderConfig
<1>10. CASE SqlcFails(r) \/ SqlcDies(r) \/ RemoveStaging(r) \/ OrphanEnds(r)
  BY <1>2, <1>10 DEF SqlcFails, SqlcDies, RemoveStaging, OrphanEnds
<1>11. ASSUME NEW e \in Dialect, SqlcCompiles(r, e) PROVE Spared
  BY <1>2, <1>4, <1>11 DEF SqlcCompiles
<1>12. ASSUME NEW e \in Dialect, SqlcGenerates(r, e) PROVE Spared
  BY <1>2, <1>4, <1>12 DEF SqlcGenerates
<1>13. ASSUME NEW f \in File, OpenFile(r, f) PROVE Spared
  BY <1>5, <1>13 DEF OpenFile
<1>14. ASSUME NEW e \in Dialect, FillFile(r, e) PROVE Spared
  BY <1>5, <1>14 DEF FillFile
<1>15. ASSUME NEW e \in Dialect, SqlcExits(r, e) PROVE Spared
  BY <1>2, <1>4, <1>15 DEF SqlcExits
<1>16. CASE Edit
  BY <1>5, <1>16 DEF Edit
<1>17. CASE UNCHANGED vars
  BY <1>5, <1>17 DEF vars
<1> HIDE DEF Spared
<1>18. CASE Step(r)
  <2>1. CASE \E e \in Dialect : SqlcCompiles(r, e) \/ SqlcGenerates(r, e) \/ FillFile(r, e)
                                \/ SqlcExits(r, e)
    BY <1>11, <1>12, <1>14, <1>15, <2>1
  <2>2. CASE \E f \in File : OpenFile(r, f)
    BY <1>13, <2>2
  <2> QED BY <1>8, <1>9, <1>10, <1>18, <2>1, <2>2 DEF Step
<1> QED BY <1>6, <1>7, <1>16, <1>17, <1>18 DEF Next

(* However the kill races the sqlc in hand, an interrupted run reads none  *)
(* of the dialects behind it and does not return ok with any of them       *)
(* undone (run.go:88-106, sqlcdriver.go:52-72).                            *)
THEOREM CancelSpares == Spec => CancelSparesTheRest
<1> SUFFICES ASSUME NEW r \in Run, NEW d \in Dialect
             PROVE  Spec => [](cancelled[r] /\ d \in todo[r] \ InHand(r) /\ read[r][d] = Unread
                               => [](read[r][d] = Unread /\ result[r] # "ok"))
  BY DEF CancelSparesTheRest
<1> DEFINE Spared == cancelled[r] /\ d \in todo[r] \ InHand(r) /\ read[r][d] = Unread
           Kept   == read[r][d] = Unread /\ result[r] # "ok"
<1>1. IInv /\ Spared /\ [Next]_vars => Spared'
  BY SparedStep
<1>2. IInv /\ Spared => Kept
  BY DEF IInv, PhaseInv
<1>3. Spec => []IInv
  BY Inductive
<1> HIDE DEF Spared, Kept
<1>4. Spec => [](Spared => []Kept)
  BY <1>1, <1>2, <1>3, PTL DEF Spec
<1> QED BY <1>4 DEF Spared, Kept
=============================================================================
