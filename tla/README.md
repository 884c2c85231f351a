# A specification of unison

unison (`sqlc-gen-unison`) generates one Go package from the SQL of several
database dialects. For each dialect it runs `sqlc`, which analyzes that dialect's
queries and hands the analysis to unison again, now as a plugin; the plugin
answers with four files, three of which are the same files for every dialect.
There is no merge step: whoever writes last wins, and the design's claim is that
this is harmless when the dialects agree and a compile error when they do not.

These modules say what that claim amounts to, check it with TLC on small
instances and prove it with TLAPS for instances of any size.

## The system

| part | code | state | operations |
| --- | --- | --- | --- |
| orchestrator | `internal/orchestrator`, `internal/cli/generate.go` | the configuration a run loaded, the dialects still to visit, a staging directory | `generate`, `check` |
| sqlc driver | `internal/sqlcdriver` | one child process at a time | `Run`, `Version` under a context |
| plugin protocol | `internal/protocol`, `internal/generate`, `internal/cli/plugin.go` | none; one request, one response | `Serve`, `Files` |
| convergence | `internal/converge` | none | one analysis to the shared query shapes and the dialect's statements |
| type mapping | `internal/converge/types.go`, `times.go` | none | an engine's spelling of a type to a kind; which engines store times as text |
| prefix marking | `internal/converge/prefix.go` | none | a statement to one with a marker before its tables |
| IR | `internal/ir` | none | `Query` (shared), `Statement` (per dialect) |
| emitter | `internal/emit/gogen` | none | `Emit`: three shared files and one queries file, with their names, types, imports and time helpers |
| options | `internal/options`, `internal/orchestrator/config.go` | none | load, validate, normalize, override lookup |
| test containers | `internal/containers`, `pgtest`, `mysqltest` | a container, a pool against it, the cleanups registered for both | start with retry, ping until ready, clean up |
| version, flags | `version`, `internal/cli` | none | build information, flag parsing |

How they interact: the orchestrator starts `sqlc` once per dialect in sorted
order and waits for it; `sqlc` starts the plugin, reads exactly one response and
writes its files into the one out directory; the consumer's Go compiler later
reads that directory whole. State is shared in one place only, the out directory,
and nothing locks it. Signals cancel the context of a run, which kills the `sqlc`
it waits for, though not at once: an `sqlc` about to finish may do so, and its run
goes on to the head of its loop. `SIGKILL` kills the run and leaves its `sqlc` alive.

What is hard, then: runs that overlap; runs that stop half way; an `sqlc` that
outlives its run; sources and configuration edited during a run; files of a
dialect that has left the roster; and disagreements that the generated code must
make visible. Inside one invocation the hard part is sequential: parameters that
repeat, are renamed, or are lists, on engines that number placeholders and spell
types differently; a scanner that marks table names without parsing SQL;
identifiers, imports and times whose rendering is not one to one. In the tests it
is contexts that end, retries that give up, and cleanups that must come last and
in order. `PROJECT.json` lists each hazard at its line.

What makes each part correct:

- orchestrator: success means every dialect was visited and accepted; a
  successful run that had the directory to itself leaves exactly what its sources
  call for; failure, interruption and kill do no lasting damage; runs end. Seen
  from outside, by its exit status, a run is one atomic step.
- emitter: agreeing dialects emit the same shared files; disagreeing ones are
  told apart by the Go compiler, and exactly which disagreements are. A package
  whose names are apart compiles, with the imports and helpers it needs.
- convergence: every placeholder binds the parameter of its name, in placeholder
  order; the shared shape is the distinct parameters in first-use order; a list
  binds last; one statement over one schema converges to one shape on every
  engine, however each spells its types.
- prefix marking: a mark stands exactly where a word is spelled like a table,
  outside literals and not after a dot, which is where a table is named as long as
  tables, and only they, are spelled as in the catalog; which tables lose their
  prefix without a warning is known.
- times: an engine that stores text compares it as the others compare times.
- options: a wildcard override gives a column one type on every engine, as long as
  no exact one contradicts it (that the exact one then wins is `OverrideFor` itself).
- containers: a body and its subtests run only against a container that is up;
  the pool is closed before the container goes; the container `Run` owns is gone
  at the end, even though the test's context is done by then; and a test that never
  ends hangs in a call that nothing in this code bounds. A container made by
  a start that *failed* is another matter: `StartWithRetry` drops it, and only the
  library's external reaper removes it.

## Modules

### The run: Emission, Orchestrator

`Emission` is pure. It defines what the four files of an invocation hold, up to
what the Go compiler distinguishes: the struct types declared or asserted, the
methods declared or required, the helper and the marker referred to. A field is
its name with its rendered type, so equality of field sequences is
convertibility of structs. `Emit` is `gogen.Emit`; `Compiles` is the Go compiler
over every file of the directory. `Methods` and `StructTypes` are sets because
`converge.Package` sorts queries by name (converge.go:54-55): the order of
declarations is never a difference between dialects. The banner's two versions
and the name of the package (emit.go:85) are left out: every run considered uses one
sqlc, one unison and one package name. A stale queries file of another package name
is thus outside `CompileVerdict`, where one with another prefix is inside.

`Orchestrator` extends it with the runs. Its variables are the developer's tree
(`config`, `sql`), the out directory (`made`, `dir`), and for each run its place
in `Runner.run` (`pc`), what it loaded, the dialects its loop has still to visit,
its `sqlc` (`unwritten`, `opened`), its staging directory, context and result.
`read` and `owner` are history: what sqlc read for each dialect, and which run
has had the directory to itself since it began. Nothing but the properties and
`Emitted` reads them.

| action | code |
| --- | --- |
| `Begin`, `CannotBegin` | `application.orchestrate`, `Load` |
| `CheckVersion` | `checkSQLCVersion` |
| `MakeOut`, `MakeStaging` | `os.MkdirAll`, `os.MkdirTemp` in `run` |
| `RenderConfig` | the head of the loop, and the return after it |
| `SqlcFails`, `SqlcCompiles`, `SqlcGenerates` | `sqlcdriver.Run` and the plugin behind it |
| `OpenFile`, `FillFile`, `SqlcDies`, `SqlcExits` | sqlc writing the files, and how it ends |
| `RemoveStaging` | the deferred `os.RemoveAll` |
| `Interrupt`, `Kill`, `OrphanEnds`, `Edit` | signals, sqlc without its parent, the developer |

Every call that can fail may fail at any time. A file is truncated in one step
and filled in another, so a crash leaves it empty and two writers may splice it
(`Garbled`). A killed run's `sqlc` is an orphan that goes on to analyze and to
write. The compiler's and sqlc's own behaviour is modelled from how the code
uses them and marked external in the map.

An interrupt ends the context of a run and nothing else. `exec.CommandContext`
starts no process whose context is done, which is the guard of `CheckVersion` and
`RenderConfig`, where a process is about to be started; it kills the one that runs,
asynchronously, and so an `sqlc` that is running may fail, die half way through its
files, or finish as if nothing had happened, in the version check too (`asking`).

### What a run promises: Generation, Atomicity

`Generation` is the abstract specification, with no loop, subprocess, signal or
half-written file. A run loads a configuration, reads each dialect once as its
sources then are, and ends in a status. `Succeed` is one step: it requires that
every dialect of the roster was read and passed, and if nobody else could touch
the directory in the meantime, the directory holds from then on what was read,
until a run next begins to generate. A run that does not succeed has promised
nothing; a check takes nothing back.

`Atomicity` maps the orchestrator to it. `Phase` reduces the places of `Runner.run`
to before, during, ended with a status, or lost (killed, with an `sqlc` still
going); `Settled` says when the out directory counts; `Passes` is what either
subcommand accepts and `Holds` what the four files are to be. Opening and filling
files, staging directories, interrupts and orphans are stutters.
`GenerateIsAtomic` is the abstract specification under that mapping.

### One query: Types, Convergence, Binding

`Types` is the table of engine types, entry by entry, and `normalizeTypeName`: an
analyzer's spelling is a sequence of words, lowercased, without its catalog, cut at
its length, unsigned or not.

`Convergence` is the inside of one invocation: `convergeQuery`, as a state machine
over one query. The author's statement is a sequence of uses of arguments; each
dialect's analyzer turns it into parameters (one per use where placeholders are
positional, one per name elsewhere) and into a text with a placeholder per use.
`convergeQuery` reads the parameters one by one, keeping the shared fields
(`params`) and the dialect's argument list (`args`), then the columns, then checks
that a list has left its expansion site and binds last. `request` and `row` keep
what was reported; only the properties read them. The IR's `Type`, `Field` and
`Arg` are records here; `Shape` is an instance of `Emission`, so that what is
accepted can be compared with what the emitter takes.

| action | code |
| --- | --- |
| `ParseCommand` | `parseCommand` |
| `RefuseParam`, `ConvergeParam` | a turn of the loop of `convergeParams`, with `listOf`, `mapType` and `OverrideFor` |
| `EndParams` | the head of `convergeColumns` |
| `ConvergeColumn`, `EndColumns` | its loop, and its return |
| `CheckExpansions` | `markPrefixes` as far as it touches an expansion site, and `checkExpansions` |

What an analyzer says of a type is chosen when the plugin reads it; reports, not
code, are nondeterministic. Invocations share nothing, so they run one after the
other, each whatever became of the one before (the orchestrator would stop at the
first refusal, and has its own module). `Package`'s loop over queries is a loop
over independent calls of `convergeQuery` and is left out. Overrides of one column
are decided as `OverrideFor` walks the list: the first exact match, or else the
last wildcard.

What is assumed of the analyzers is what the code's comments say of them: repeated
parameters on MySQL only; a bare placeholder, which is all MySQL's `LIMIT` takes,
reported under a name of MySQL's own; an argument is a list at every use or at
none; an array of more than one dimension only where lists are arrays.

`Binding` extends it with run time: the generated method's expansion of lists
(`strings.Replace` of each site by `slicePlaceholders`) and argument list, and the
database that numbers the placeholders it is sent, a bare one as one past the
highest so far. A call is a length for every list, zero included.

### Table prefixes: Marks, Statements

`Marks` is `markPrefixes` over a text cut into the lexemes its scan tells apart:
words, quotes, dots, white space, digits that start no word, the rest. `marks` and
`warned` are the places of the words it rewrites and of those it warns about. The
text is read twice, as in the code.

| action | code |
| --- | --- |
| `Init` | the tables of the default schema, and the return when there are none |
| `Skip`, `Open`, `Escape`, `Close`, `EndLiterals` | the loop of `stringLiteralSpans`, and a literal left open |
| `Copy`, `LeaveLiteral`, `MarkTable`, `EndWords` | the loop of `markPrefixes`, with `inSpan` and `precededByDot` |

`Statements` gives the texts a meaning that `Marks` does not know: a statement is a
sequence of items (a table, a column, a qualified name with or without spaces, a
literal, a string in other quotes, an apostrophe in a comment, ...) and `Tables`
are the places where its author names a table, `OwnTables` one of the consumer's. An
item has both the table it names (`table`) and the word that names it (`word`), because
an analyzer folds names as SQL does and the scan compares them as they are: `FROM Users`
is about the table `users`, and `"user-roles"` about a table whose name is no word
(`oddTable`).

### Go text: Names, Rendering, TimeText

`Names` is `splitWords` and `joinWords`, rune by rune: separators, changes of case,
initialisms, the capitalization of a word's first *byte*, and the underscore before
what could not begin an identifier.

`Rendering` is `Emit` once more, now for what each file owes to itself: which paths
it imports, which packages it spells, which time helpers it declares and with what
its methods call them.

| action | code |
| --- | --- |
| `EmitDB` | `emitDB` |
| `RefuseOverride`, `CannotParseTypes`, `EmitTypes` | `emitTypes`, `renderOverride`'s errors, and `go/format` in `Emit` |
| `EmitQuerier` | `emitQuerier`, `methodSignature` |
| `WriteConstructor`, `WriteTimeHelpers`, `WriteMethod`, `WriteShapeAssertions` | the parts of `emitQueries` in their order |
| `CannotParseQueries`, `Done` | `go/format` of the queries file, and `Emit`'s return |

`goType`, `Imported`, `binder` and `Forms` are `types.go` and `times.go`. `Compiles`
is the Go compiler over these files: every import used and no name imported twice,
no struct field or constant declared twice, no receiver field named like a method,
and every helper declared and given its type. Kinds that differ in their spelling
only are one kind.

`TimeText` calls the methods rendered (`Call`) with times, and says what reaches the
driver: `timeText` formats the instant in UTC with a year of four digits, or more
where the year needs more, and the nullable forms bind NULL for what is absent.
A text is compared character by character.

### Tests: Containers

`Containers` is the life of one container-backed test: `Run` and `StartWithRetry`,
the packages `pgtest` and `mysqltest` on top of them, and package `testing` around
both.

| action | code |
| --- | --- |
| `StartSucceeds`, `StartFails`, `BackOff` | `StartWithRetry`, and the cleanup `Run` registers |
| `SleepCancelled` | `sleep`, in either ladder |
| `OpenPool`, `OpenFails` | `sql.Open` and the second cleanup in `pgtest.Run`, `mysqltest.Run` |
| `PingSucceeds`, `PingFails`, `Pause` | `PingUntilReady` |
| `Register`, `Return` | the test's body: parallel subtests, and its end |
| `Advance`, `Drain`, `End` | package `testing`: the subtests run, the context ends, the cleanups are over |
| `ClosePool`, `Terminate` | the two cleanups, last registered first |
| `Cancel` | the end of the caller's context, at any moment |

A start that fails may have left a container behind. Time passes in the two sleeps
only, so a server in fact has at least the time modelled; whether a daemon answers
is decided once. A server (`Server`) is up from one moment to a restart and again from
another on (containers.go:148-156 is about servers that do this), and what it answers
depends on when it is asked.

`MCOrchestrator`, `MCConvergence`, `MCMarks`, `MCRendering` and `MCContainers` give the
constants values for TLC.

## Runs

| run | asks | shows |
| --- | --- | --- |
| `divergence` | three dialects, one run, five analyses and both kinds of rejection, two rosters | `OkVisitsRoster`, and `CompileVerdict`: which disagreements the compiler reports |
| `overlap` | two runs at once over two dialects, analyses with and without a list | agreement makes a lock unnecessary; the package then compiles; the invariant the proofs use; and the refinement, `GenerateIsAtomic` |
| `history` | two runs in sequence, an edit of sources or roster at any moment | `Fresh`: what a failed or killed run leaves does not outlive the next success; stale queries files count in the verdict |
| `termination` | one run, all three pins, fair scheduling | it ends, cleans up and respects the pin; an interrupt spares the dialects it has not begun, and a run with any left does not return ok; an edit between two dialects does not escape the verdict |
| `binding` | statements of up to four uses of two scalars, a list, a `LIMIT` argument, a nested list and a nameless one; five sets of options; three engines; lists of 0, 1 and 2 elements | every accepted method sends every placeholder the value named there, out of one allocation; the engines agree on fields and their order; a list is the last field everywhere |
| `typing` | two engines, seven reports of type, spelling, nullability and table for each parameter and column, four sets of overrides, `:one` and `:exec` | one name has one type; a wildcard override settles it between engines; one statement and one schema have one shape; accepted shapes are renderable |
| `containers` | the delays and attempts of the code, servers that come up at five moments and may restart at any later one, two daemons, two parallel subtests, a context that ends anywhere | what runs has its container, what `Run` owns is reaped, the pool goes first, the ladder is as patient as documented, the test ends, or hangs in a call that nothing bounds |
| `marks` | every statement of up to three of nineteen items, with and without tables of the user's | the scan computes what it says; where the marker's claim holds; which tables are lost silently |
| `mismark` | the same statements | a violation: a column spelled like a table is marked |
| `rendering` | packages of nearly equal names, of pairs of parameter types, every dialect and option, called with times at the limits of the layout | well named packages compile; texts order as times |
| `unparsable` | queries named `Type`, `New` and alike, in narrow letters | a violation: a legal method name whose package cannot be parsed |
| `disagreement` | one dialect with one more query without params or row | a violation: the package compiles |

### Bounds

Three dialects give a roster a first, a middle and a last; two show every
interaction between a first and a last. The analyses are one query in the ways
the emitted code can tell apart: reordered columns, a list parameter, an extra
query without structs, the same under another annotation. Two runs show
overlap and succession. `MaxEdits` bounds edits to one, which lands between any two
steps, and `MaxStops` the runs that are interrupted or killed to one, at any step
and in either way or both. Verdicts are all three of broken, refused and accepted
where the run is about failure, accepted only where it is about what is written.
Runs are interchangeable, and the runs that use them as a symmetry set check no
liveness.

`MaxSize` bounds uses and columns of a statement together: four in `binding`, where
`MaxUses` puts a repeated argument before, between and after others and leaves room
for a list behind them, and two in `typing`, enough for a name to disagree with
itself as a parameter and for a column to recur. Three engines are the three ways of
binding (positional and expanding, numbered and expanding, numbered with arrays).
`MaxElements` is two in `binding`, one more than the shortest list whose elements
could be confused. The reports of `typing` spell each of three types in two
engines' ways, and the spellings checked for having one kind (`SpellingAssumption`,
by TLC, before anything else) are all those `types_test.go` and `prd.md:348-350` call
one type.

Container delays are those of the code in tenths of a second (five starts from one
second, ten pings from a tenth up to two seconds); a server begins to answer at once, after
one delay, at the end of ten seconds, at the last ping of the ladder or just past it
(`MCLags`), which is never as far as the ladder is concerned, and restarts, if it does,
at one of these moments and is back at a later one. Three items (`MaxItems`) put something
before and after whatever could mislead the scan. A year has one digit and four seconds in
`rendering` (`YearDigits`, `YearLength`), so that the last moment of the last year and
the first one after it are a few numbers apart, in zones on either side; two calls
(`MaxCalls`) give every pair of times, and lists of one element (`MaxElements`) go
through the helper that longer ones go through.

Runs, invocations, scans, renderings and tests come to an end, after which nothing
is left to do: deadlock is checked in none of the runs. `termination` and `containers`
check instead that the end is reached, in `containers` unless a call never returns.

### Fairness

`Orchestrator`'s `FairSpec` assumes that a run's own steps, and those of its sqlc, are
eventually taken while they can be: the operating system schedules processes, and
sqlc terminates. `Containers`' `FairSpec` assumes only what is `Bounded`: a sleep by its
timer, `Terminate` by `ShutdownTimeout`, a call whose context is done by that context,
and package `testing` does its part. Nothing bounds a start (`startupDeadline` is the
timeout of the wait for a log line, not of pulling the image or creating the container),
a ping under a context without a deadline, a test's body, or the `Close` of a pool, so none
of them is assumed to return; `EndsOrHangsInACall` says that these are the only places
where a test can stay for good (`Waiting`). Nothing is assumed of the user, of signals, of
edits, or of when a context ends.

## Three disagreements with what the code says of itself

**A disagreement that compiles.** `run.go:39-41` says the order of dialects does not
matter, because if they disagree the package does not compile; the help of `generate`
and `prd.md:214-217` say the same. `DisagreementDoesNotCompile` states it and TLC
refutes it (in its trace the dialect with one query more is `postgresql`, neither first
nor last): the shape assertions cover params and row structs, and the constructor
demands only the last writer's methods, so a query with neither params nor rows that
the last dialect lacks is noticed by nothing. `CompileVerdict` states what does hold,
as an equivalence, and is proved: the package compiles exactly when every dialect has
the structs of the last one and at least its methods, and the queries files of removed
dialects still fit. It is the order of the roster that decides whether a missing query
of this kind is reported.

**Marks that are not tables.** Every generated package says of its marker that it
marks "identifiers that are genuinely tables rather than words that look like them"
(`emit.go:140-142`). `MarksAreTables` states it of every statement; a column, or a string
in double quotes, that is spelled like a table refutes it. `TablesMarked` states where
it holds: when tables are spelled as the catalog spells them, no column or string is
spelled like one of the consumer's tables, no table is reached through its schema and no
quote stands outside a literal.

The scan fails in the other direction too. `prd.md:376-380` has the generator rewrite
whole-word table identifiers by "the analyzer's knowledge of which tokens are tables", but
what `prefix.go:92` compares is the spelling, exactly: `FROM Users`, where folding of case
makes it the table `users`, and a quoted name that is not one word get neither a marker nor
a warning, and with a prefix the query goes to a table of another name. So does a table
behind its schema (`prefix.go:102`). `LostExactly` says that it is these and no others. And
of literals `prd.md:383-385`, and the first half of the comment at `prefix.go:61-65`, say
that one that spells a table "would be rewritten too", where the code and its tests leave it
as it is and warn; `MarksExact` and `TablesMarked` follow the code.

**Go that cannot be parsed.** `emit.go:55` calls it a bug when the generator emits what
`go/format` cannot parse. A query named `Type` does it: its statement is kept in a
receiver field `type` (`queries.go:43`). This is what `unparsable` shows, over names in narrow
letters. A word of a name that begins with a letter of more than one byte does it too, for
another reason: half of the letter is capitalized (`names.go:98`, `Wide` in `Names`).
`WellNamed` excludes both, and `WellNamedCompiles` says what is then certain.

## Proofs

### The run

All for any set of dialects, queries and fields, any rosters, any number of
runs and any number of edits, from two assumptions about constants:
`EmissionAssumption` (an analysis gives well-formed shapes to at least one query,
converge.go:69-71, and no dialect is named like a shared file) and
`OrchestratorAssumption` (dialects are ranked without ties; inputs are broken,
refused or carry an analysis). TLC evaluates both in every run.

`OrchestratorProofs`: `Inductive` proves `IInv`, whose conjuncts are:

- `PhaseInv`: what a run has decided and read follows from where it is. It is
  what makes `read` write-once, so that an emission, once made, is fixed.
- `GateInv`: what a run has passed on its way (the pin check, the subcommand).
- `LoopInv`: the dialects visited come before those to do, and were accepted.
- `WriteInv`: files are being written only for the dialect in hand.
- `OwnerInv`: while a run has the directory to itself, visited dialects have
  their files, and the shared files are those of the last visited one except
  while the next is being written. The step that matters is `SqlcExits`: every
  file not among `unwritten` already holds the emission of the dialect in hand.
- `ConvergeInv`: while all emissions agree, a shared file is absent, empty or
  one of them. A filled file is never spliced, because by `AgreementConverges`
  what is there is what is being written.

From it follow `TypeCorrect`, `OkMeansVisited`, `SuccessIsFresh`, `VerdictIsExact` (with
`VerdictOfLastWriter`, the equivalence about the compiler alone), `AgreementNeedsNoLock`,
`StagingIsRemoved`, the action property `OnlyGenerateWrites` and `CancelSpares`. The last
is about any later moment: once a run is interrupted, a dialect behind the one in hand that
was not read stays so (`SparedStep`), though the `sqlc` in hand may still finish.

`OverlapProofs`: `AgreementCompiles` is about overlapping runs whose emissions agree.
It needs two more invariants. `FilesInv`: every file that is there, the dialects' own
included, is empty or holds an emission of it. `ArrivalInv`: while nothing has failed or
been killed, what has been emitted is in its file or about to be written there. When all
runs have returned, none has failed and one has generated, every file of its roster
therefore holds its emission, and `VerdictOfLastWriter` says that these compile.

There too, `RunsAreAtomic` is the refinement, `Spec => GenerateIsAtomic`. The
initial state maps to an initial state, and there is one lemma per action for what its
step maps to: `Begin` to `Begin`, an analysis that is accepted to `Read`, the return
after the last dialect to `Succeed`, failures, kills and the ends of orphans to `Quit`,
edits to `Edit`, everything else to a stutter. `OwnerInv` is what makes the step to
`Succeed` hold: at that moment the directory is what was read. That nobody changes it
afterwards without beginning to generate is why `owner` is given up as it is.

### One query

`ConvergenceProofs` is about statements of any length, any analyzers' reports, any
engines and any options, from `ConvergenceAssumption` (names and kinds are told
apart from their absence, overrides name types, and what is assumed of the
analyzers above). `ConvergenceHolds` proves `ConvergenceInv`, which is inductive
together with `TypeOK`: `ReadInOrder` (the parameters read are exactly the first
ones of the text), `FieldsInOrder` and `OneMeaning` (a field is where its name
first appeared, and of the type each of its parameters was reported with),
`ListOnce`, `RowInOrder`, and `PhaseInv` for what is decided where. The step that
matters is `ConvergeParamKeeps`, in two cases: a name seen before, where the
refusals make the old field be the new one, and a new name. Steps of other
dialects change nothing of a dialect's own (`ParamsFrame`, `RowFrame`,
`PhaseFrame`). From it follow `NothingIsTransposed` (by position where every use is
a parameter; otherwise through the first use of the name, `FirstUseRead`),
`ShapesAreRenderable` and `WildcardIsFinal`.

The same module compares dialects. On each, the fields list the names of the
statement in the order of their first use, whether a repeated use is a parameter or
not; `OneOrder` proves that there is only one such list, by its least place of
difference. `FieldsInOneOrder` is that for the statement, `ListsComeLast` follows with
the rule that an expanded list binds last. `ShapesConverge` adds types: a field has
the type of any parameter of its name, agreeing analyzers report one type in some
spelling, and `SpellingAssumption` gives the spellings of a type one kind. It is the
table's own correctness, an assumption of the theorem and evaluated by TLC for the
actual table.

`BindingProofs` follows an accepted method to the database, for statements of any length
and calls with lists of any length (`BindingAssumption` only says that the bound on them
is a number). `ArgumentsAndUses` gives every argument a use where it is read, in
increasing order, and `WhereListsExpand` shows that at most one list expands, that it is
the last argument and that its site is its only use. `PlainCall` is the case without one.
In `ExpandedCall` every other argument is first used before the list's site, so its bare
placeholders are numbered from the last argument's number on, which is where
`BoundArgs` has the elements; behind the site a numbering dialect only repeats numbers
and a positional one has no placeholder left. `NumberingIs` makes this the numbering the
recursive definition computes, and `FlattenPlaces` in `SequenceLemmas` says where each
element is. `AcceptedMethodsCallByName` is `CalledByName`.

### Scan

`MarksProofs`: `MarksTyped`, and `MarkedExactly` for texts of any length and any catalog.
`LiteralsInv` relates the first pass to the parity of the quotes behind it: a literal is
open exactly when it is odd, and a place other than a quote is in a span, or behind the
quote that opened one, exactly when it is `Quoted`. An escaped quote is where this must be
argued: it is two quotes, and the place between them is a quote itself. `WordsInv` carries
the result through the second pass.

`PlainStatementsMarked` and `LossesKnown` say what that means to the author, for
statements of any number of items (`ItemAssumption` only says what an item is). A text is
built item by item (`TextSteps`), so every place of it is in one item's spelling or the
space behind it (`ItemOf`), and no item begins after a dot (`BeginsBare`). As long as every
item is plain, each begins outside of literals too (`BeginsOutside`, the least item that
would not), and `PlainItem` decides its own words, one case per kind. Nothing is known of
the quotes before an item once an apostrophe has gone before; but a table spelled as in the
catalog is then marked or warned about by `MarkedExactly`, unless a dot is before it, and only
the schema's dot can be (`TableOfItem`, `SchemaDots`); one spelled otherwise is never even
looked at. That is `LossesOf`, an equality of two sets, and `LossesKnown` follows.

### Rendering and times

`RenderingProofs` is about any alphabet, initialisms, keywords, import paths and packages,
from `NamesAssumption` (letters, digits and separators are different runes, initialisms
are small words and spelled like themselves) and `RenderingAssumption` (a package has a
query; what `convergeQuery` refuses does not occur; field names of a query differ; packages
of the standard library are named as they are).

`WellNamedPackagesCompile` is the longest argument of the project, because two names that
differ may become one identifier. `GoName` settles that: `Scan`, the loop of `splitWords`,
loses nothing but separators (its words, lowered and joined, are the name's `Bare` form),
and every part `joinWords` writes is a word again when lowered. An identifier, lowered,
is therefore the name's `Bare` form; names whose bare forms differ have different identifiers, and
one that begins with a letter and is no keyword is legal. Wide letters are where that
breaks, and `Narrow` keeps them out. Imports are `RenderingInv`: for each file the packages
it spells are those its paths declare (`Matched`), the queries file aside until its first
method is written, because its header imports `context` before anything refers to it. A
package without queries would leave it so; there is none. Calls agree with helpers because
both go through `binder`.

`TimesOrdered` holds for any base, number of digits, length of a year, zones and times.
Years the layout has digits for have exactly that many (`DigitsFixed`); of two of them the
first digit that differs is the lesser one's (`DigitsOrder`, from quotients by powers of
the base), and where none differs the rest of the layout decides. Nothing is bound as it
is where times are texts (`HelperOfTime`), which needs that such an engine has no arrays:
`TimeTextAssumption` says so of `TextTime`, and SQLite is its only member.

`SequenceLemmas` has what these need of sequences: the least member of a set of numbers,
that functions defined by recursion exist and are unique (with a step that is a function
itself, and so no operator to pass to a library theorem), and what `FlattenSeq` yields.

### Containers

`ContainersProofs`, for any number of attempts, delays and subtests: `TypeCorrect`,
`UsedOnlyWhileUp`, `ClosedFirst` and `Reaped`, from `CleanupInv` (which cleanups are still
registered says what is up and open), `PlaceInv` (how many there are at each place) and
`ReadyInv` (whatever runs, or is paused to run later, has an open pool).
`PatientAsTheLadder` takes the pauses and what they add up to as functions and shows that a
test is always on that ladder (`LadderInv`); `Patient` computes it for the ten pings of the
code, from a tenth of a second up to two, whatever else is configured.

### Only model-checked

`RunsTerminate` and `EndsOrHangsInACall`, which are liveness under fairness and beyond
this prover.

## Not modelled

- Formatting and wording of files, logs and errors; the grouping of import blocks; the
  splicing of backticks into statement literals; path resolution; YAML, JSON and protobuf
  encoding. They are text, and no property here is about it.
- `Load`'s validation and the sorting and validation of options: they are assumptions
  about the options a plugin gets, and `CannotBegin` is all of their errors. The order
  they put overrides in decides nothing but between two overrides of one column.
- Telling plugin mode from the command line, log levels, flags, and the build
  information of `version`: they keep no state, and interact with nothing here.
- A change of the package's name between runs, which leaves a stale queries file that
  does not compile with the others.
- `go test`'s own timeout, which kills a test without its cleanups, and the external
  reaper that removes what then remains.
- A plugin that writes part of a response: `Serve` writes once, after everything else has
  succeeded, and a plugin answers here with every file or with none.

## Plan

Done: the run with its refinement, convergence with binding and types, prefix
marking, rendering with names and times, containers. What could follow: validation
of `unison.yaml` and of options as a module of its own, with the path the options
take through sqlc to each plugin; and the composition of `Convergence` with
`Orchestrator`, so that agreement of analyses is derived from agreement of sources
instead of assumed in `AgreeingRunsCompile`.
