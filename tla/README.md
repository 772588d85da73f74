# UniqueDialect: a TLA+ verification project

UniqueDialect is a Go library that lets a program written for one SQL dialect
run on a database of another. It wraps a `database/sql` driver (or a GORM
dialector), translates every statement on its way to the base driver, caches
the translations and logs what fails. This directory models the library's own
Go code. The fork of the TiDB parser it carries (`internal/parser/tidb`) is
third-party and is represented by what the library asks of it.

The subject is the 6,000 hand-written lines of the library; of the parser's
lexer the modules have the part that reads quotes and comments, as the measure
of the library's own scanners.

Modules are checked with `tlc -config X.cfg M` and proved with `tlapm M.tla`;
`PROJECT.json` lists the runs, the mutants that show each property can fail,
the lines of code behind each definition, the hazards and the theorems.

## 1. The system

| Component | Source | State it keeps | Operations | Talks to |
|---|---|---|---|---|
| Translator | `translator.go` | `cache`, `stats` behind a `sync.RWMutex` | `Translate`, `Stats` | shared by the connections of a connector; calls the pipeline with no lock held |
| Translation pipeline | `translator.go` (`translateSQL`), `internal/parser/{parser,classify,legacy_classify}.go`, `internal/normalize/{parsed_statement,normalize}.go` | none | parse, classify, block, normalise, fall back to the legacy parser, render | TiDB parser, legacy parsers, normalisers, renderer |
| SHOW, SET, transactions | `internal/normalize/tidb_{show,set,txn}.go`, `internal/render/render.go` | none | AST to IR to text | pipeline |
| ALTER TABLE | `internal/normalize/tidb_ddl.go`, `internal/parser/extensions.go` | the batch being built | patch MariaDB's conditions, split into ordered statements | pipeline |
| Other DDL | `internal/normalize/tidb_ddl.go`, `render.go` | none | CREATE TABLE, CREATE/DROP INDEX, RENAME | pipeline |
| Data statements | `internal/normalize/tidb_dml.go` | none | slice SELECT, INSERT, UPDATE, DELETE into clauses | pipeline |
| Renderer | `internal/render/render.go` | placeholder counter of one rendering | IR to the text of a target | pipeline |
| Legacy syntax parsers | `internal/syntax/**` | none | top-level scanner, clause split, raw text as last resort | pipeline |
| Driver | `sql_driver.go` | per connection: base connection, translator, logger | `Connect`, `ExecContext`, `QueryContext`, `PrepareContext`, `BeginTx`, `Ping`, `ResetSession`, `IsValid`, `CheckNamedValue`, statements | `database/sql` above, base driver below, translator and logger beside |
| Failure logger | `logging.go` | a mutex, two log files | `logTranslationFailure`, `logExecutionFailure`, `write` | called by driver operations that fail |
| Parameters | `internal/params` | none | `Normalize`, `NormalizeAll` | driver |
| DSN and options | `dsn.go`, `types.go` | none | `ParseDSN`, `FormatDSN`, `BuildDriverDSN`, `normalized` | `Open`, `OpenGORM` |
| Field encryption | `encryptor.go` | the caller's structs | encrypt before create and update, decrypt after query | GORM callbacks |
| GORM dialector | `gorm.go` | a base dialector | forwards; `Initialize` registers the encryption | GORM |
| Bootstrap planner | `bootstrap.go` | none | `CREATE FUNCTION` and `CREATE TRIGGER` for `ON UPDATE CURRENT_TIMESTAMP` columns | a migration runner |
| TiDB parser fork | `internal/parser/tidb/**` | (third-party) | `Parse` | `internal/parser` |

What makes each correct, and what is hard about it:

* **Translator.** Answers are the translation of the caller's own statement;
  counters are exact; entries never change. Hard: lookup and update are two
  critical sections with an unlocked translation between them, so goroutines
  race to translate the same statement, and a hit is counted in another
  critical section than the lookup it counts.
* **Pipeline.** What one stage supports the next one must know, and what one
  stage refuses the next must not let out: two parsers and a text classifier
  look at the same statement, each with its own list.
* **SHOW and SET.** Filters and scopes survive; an empty string stands for
  "absent" between normaliser and renderer.
* **ALTER TABLE.** One statement becomes several, whose order, completeness
  and conditions matter; the conditions are found by counting pieces of text
  and patched back by position.
* **Driver.** Retries that nobody sees: `database/sql` calls again on another
  connection after `driver.ErrBadConn`, and falls back to `Prepare` after
  `driver.ErrSkip`. Nothing untranslated may reach the database, nothing may
  take effect twice, every failure is logged.
* **Failure logger.** I/O under a mutex, its errors swallowed.
* **Data statements and renderer.** Statements are cut from their text at
  keywords and commas that stand outside quotes and parentheses, by scanners that
  know less about quotes than the lexer of the parser. Positions: `?` becomes
  `$n`, numbered in the order of rendering; arguments are never reordered.
* **Schema statements and bootstrap.** A key belongs to its table in MySQL and to
  the schema in PostgreSQL; ON UPDATE columns become functions and triggers whose
  names are made of table and column; the plan may be run again.
* **Encryption.** The caller's structs are overwritten in place, also when the
  statement is then not run; a text is encrypted already if it has a prefix.
* **Options.** Every option of a GORM dialector goes through one DSN or two:
  `ParseDSN` should undo `FormatDSN`.

## 2. Modules

```
RWMutex <- Translator <- TranslatorRefinement <- TranslatorInv <- MCTranslator
                             |                        ^--- TranslatorProof
                        TranslatorSpec
Driver <- MCDriver                    (the translator as TranslatorSpec promises it)
   ^--- DriverProof
ShowStatement <- Pipeline <- MCPipeline
                    ^--- PipelineProof
AlterTable <- AlterTableInv <- MCAlterTable
                   ^--- AlterTableProof
Scanner <- ScanText <- MCScanText
   |          ^--- ScanTextProof
   +----- Dml <- MCDml
           ^--- DmlProof
Options <- Gorm <- MCGorm
             ^--- GormProof
Schema <- MCSchema
   ^--- SchemaInv <- SchemaProof
```

**RWMutex** is Go's `sync.RWMutex` as operators on a lock record: readers, a
writer that announces itself and waits for the readers before it, readers that
park behind it and are all admitted by `Unlock`.

**Translator** has one action per step of `Translate` and `Stats` between two
points where another goroutine may run: `Call`, `LookupRLock`, `Lookup`,
`LookupRUnlock`, `LockHit`, `LoadHits`, `StoreHits`, `DoTranslate`, `LockMiss`,
`StoreText`, `StoreMisses`, `Return`, and `StatsRLock`, `CopyHits`,
`CopyMisses`. `x++` is a load into a register and a store, so that a lost update
is a behaviour unless the lock prevents it. The cache key of the code contains
the two dialects as well, which are fixed for a translator. `hitCalls` and
`missedBy` are history variables. `translateSQL` is a function of the statement
(it is: the pipeline keeps no state).

**TranslatorSpec** is what callers may rely on: a call is asked, answered in
one atomic step (hit, miss, failure, or a snapshot of both counters) and
returned. **TranslatorRefinement** maps Translator to it.

**Driver** models `Exec` and `Query` of several clients on one pool. Of the
code: `connector.Connect`, `ExecContext`/`QueryContext` (one action: they differ
in the stage they log), `PrepareContext`, the `virtualStmt`, `ResetSession`,
`IsValid`, and the logger. External, and modelled by their documented contract:
`database/sql` (reuse or open a connection, retry at most `MaxRetries` times on
ErrBadConn, the last time on a new connection, Prepare on ErrSkip) and the base
driver, which has any set of the optional interfaces and answers anything its
contract allows: an error may leave an effect behind, ErrSkip and ErrBadConn do
not. A server may die at any moment; appending to a log may fail. What a call
met, sent, did and logged is kept in history variables, the log with its order:
`failed` has every refusal of the translator and every error of the base driver,
recorded where it arises and not where it is logged, so that the log can be
compared with it.

**Pipeline** is `translateSQL` stage by stage. A text is a record of what the
two parsers and the patterns make of it, so that the control flow sees every
combination: parsed by the TiDB parser or not, several statements or none, an
extension form, a comment that hides a form from the patterns, what the legacy
parser makes of it. Which SELECT and INSERT have clauses that can be extracted
is a field of the statement; Dml says which those are. **ShowStatement** has SHOW
from AST to rendered predicate. A text in it is a word, empty perhaps, with or
without blanks around it: `strings.TrimSpace` takes them off what a WHERE compares
with (`tidb_show.go:188`, `351`), and nothing is left of a text of blanks.

**AlterTable** is the facade's handling of MariaDB's `IF [NOT] EXISTS` (count
the pieces, remove the conditions, parse, patch back by position) and the loop
of `normalizeTiDBAlterTable`, one action per group of cases that treat the
pending specs alike: keep inline, unique key, foreign key, index, fall back,
finish. `of` in a spec is a history field: the clause it comes from. `KindsOf` are
the specs a clause asks for: MODIFY one of the type and one of NULL, CHANGE
perhaps one of the name as well. What the renderer writes of a spec is not in this
module; of a changed column it writes the type, without the DEFAULT
(`render.go:723`).

**Scanner** has the hand-written scanners as functions over symbols (a quote, a
parenthesis, a comma, a backslash, the start of a comment, a word): the toggling
scanner of `internal/syntax/syntax.go` with what is built on it
(`findTopLevelKeyword`, `splitTopLevelCSV`, `findMatchingParen`), the splitter of
`extensions.go`, and the strings, quoted names and comments of the lexer of the
parser fork, which is what a text really means. **ScanText** reads a text with
all three at once, a symbol per step.

**Dml** takes SELECT, INSERT, UPDATE and DELETE from text to text: the record of
clauses the parser has, the text, the slicing of `tidb_dml.go` or of one of the
legacy parsers on that text, and the rendering piece by piece, the placeholder
counter a variable. The outcome is compared with the statement that was meant,
as clauses, not as characters. A keyword may be in small letters where the code
tells them apart: the scanner finds ` left join `, and the PostgreSQL parser, which
cuts the keyword off as a prefix in capitals (`postgres/parser.go:208`), then keeps
it as a part of the table. The MySQL parser (`mysql/parser.go:213`) takes a second
LEFT JOIN for a JOIN, since it looks again from the trimmed text, and misses a
plain one. An INSERT without columns or VALUES is kept as text; one whose
parentheses are not closed is an error.

**Options** has `normalized`, `FormatDSN`, `ParseDSN`, `BuildDriverDSN` and
`newConnector` over options and the parts of a URL (`net/url` external). **Gorm**
opens handles with them as `gorm.go` does, and models programs that create,
save, update and find rows with a field tagged `encrypt`, through handles that
may share the rows and have other keys, providers of their own or none. `Open`
is `Initialize`; `Save` and `Find` contain the callbacks of `encryptor.go`;
GORM's own part (which object a callback gets, that a statement with an error is
not run) is external.

**Schema** executes a sequence of DDL statements by a MySQL, the reference, and,
translated by `tidb_ddl.go` and `render.go` and with the artifacts of
`bootstrap.go`, by a PostgreSQL, command by command; the connection may be lost
in between and an idempotent statement run again. Both databases are external.
The reference takes a statement when the program is done with it. PostgreSQL names
the index of a primary key `<table>_pkey`, with a number when that name is taken, so
that DROP PRIMARY KEY, which is rendered for the plain name, may miss it; names are
sequences of words, so that `a` and `b_c` give the artifact of `a_b` and `c`.

The map of PROJECT.json names the lines behind every definition. The hand-written
code is covered for about three quarters; its rest is data types (`ir.go`,
`types.go` of the parser), messages, the texts of catalogue queries and what
section 6 lists. Of all Go code in the repository that is a tenth: nearly 39,000
of its 45,000 lines are the vendored parser.

## 3. Runs

| Run | Instance | Distinct states | Shows |
|---|---|---|---|
| `translator` | 3 goroutines, a good and a bad statement, fair | 158 k | no data race, exact counters, cache coherent and kept, answers correct, every call returns, refinement of TranslatorSpec with its liveness |
| `driver` | 1 client, all 16 base drivers, logging on and off, 2 retries | 459 k | only translations executed, effect once, the log is what the calls met |
| `driver_pool` | 2 clients, 2 connections, 2 retries, fair | 144 k | pool invariant under contention, reuse and retries; retries end, nobody waits for the logger or a connection for ever |
| `pipeline` | 2,215 forms of statement, 5 input and 4 target dialect names | 136 k | stages agree, refusals are final, filters and scopes survive |
| `alter_table` | every order of up to 3 of 20 clauses, and of 4 where columns and keys depend on each other | 44 k | order, completeness, keys alone, foreign keys, conditions |
| `scan_text` | every text of up to 6 of 11 symbols | 1.9 M | the scanners cut and match where the lexer does |
| `dml` | 3,206 statements of two dialects, each to the three others | 89 k | the translation is the statement that was meant |
| `gorm` | 2 handles, 2 rows, 5 steps, every pair of encryptors; every combination of connection options | 125 k | options survive the DSN, nothing is stored in plain, rows are found as given |
| `schema` | sequences of 5 of 25 statements, one lost connection | 118 k | PostgreSQL ends with MySQL's schema |

Three more runs show where the code and what is said of it differ; each stops at
the violation of one property (the `findings` of PROJECT.json quote the lines):

| Run | Property | What happens |
|---|---|---|
| `pipeline_show` | `FilterKeptOrRejected` | `SHOW TABLES LIKE ?` is rendered without its filter |
| `alter_table_comment` | `ExtensionsPatched` | a comma in a comment moves IF EXISTS to another clause |
| `dml_rows` | `EveryRowKept` | INSERT of two rows becomes INSERT of the first |

More differences are known, without a run of their own: ErrSkip and
ErrBadConn, which are requests to `database/sql`, are in the execution failure log
although the call may then succeed (`sql_driver.go:197`, `types.go:49`; LogFaithful
and FailureLogged count them among what the call met, and ask that the entry says
so); a parameter that cannot be converted, and a connection that cannot be opened or
reset, leave no entry (`sql_driver.go:107`, `231`, `261`); a value that a SHOW
compares with is trimmed, so that `WHERE Name = ' '` loses its filter (`Telling`
names the values that are not changed); a repeated join of the legacy MySQL parser
is taken for another or dropped, and a join in small letters is written twice by
that of PostgreSQL (`PlainJoins`); IF [NOT] EXISTS of ADD and DROP COLUMN is
dropped (`tidb_ddl.go:75`, `docs/reports/parser-adaptation-matrix.md:22`;
ConditionKept is about the other kinds); a key that is written before its column
becomes a statement before the one that adds the column (`tidb_ddl.go:131`;
OrderKept shows that the order is that of the text).

**Bounds.** Three goroutines are one writer, one reader and one that parks
behind the writer, which is every role of an RWMutex. `HitRange` is where the
Hits counter wraps (2^64 in Go): 2, so that wrapping happens. Misses need no
bound: `MissesExact` limits them. `MaxRetries` is 2 in `database/sql`; with 2
connections and `MaxIdle` 1 a retry meets a reused, a fresh and a closed
connection. The operations of `driver` cover a good and a bad statement, a good
and a bad parameter and both kinds of call, which differ in the stage they log.
Counters of effects and entries belong to one call and are reset with it. In
`driver_pool` both clients have all three attempts, and reuse, reset, give back and
close two connections that die. One operation and two base drivers
(`SomeDriver`) keep the liveness check small, and the view `NoHistory`, which leaves
out what is recorded and never read: no guard depends on it, nor does `PoolInv` or
`EveryCallReturns`, so that states that agree on the rest behave alike. The other
drivers, operations and the histories are in `driver`. Three ALTER TABLE clauses
are a flush before, a clause, and a flush after; the foreign key rule looks at two
added columns, a key and what separates them, hence four. Six symbols are two quotes, one doubled
or escaped, and a comma between them. Five steps of programs are two saves with a
failure between them and a find by the other handle. Five schema statements
create, rename, create again, drop and index. The proofs need none of
these bounds.
`CHECK_DEADLOCK FALSE` is set where a run ends by design: a text is
translated or read to its end, or a program has taken its steps.

**What the properties leave out**, by name. `ShowAndSetNeverRaw` is about texts of a
single statement, as is all of what Pipeline says of refusals: a text of several is
not split, goes to the legacy parser, and a SHOW in it may come out as it is.
`FilterKept` is about filters that say something (`Telling`). `FailureLogged` is
about what the translator and the base driver refuse. `UnadaptedRejected` is for texts
without comments where a form is known from the text alone: with a comment in
`START TRANSACTION WITH CONSISTENT SNAPSHOT` the patterns of `classify.go:15-17`
do not match and the statement is passed on as text. `ConditionKept` is for
statements in which the splitter counts the clauses the parser has (`Aligned`);
`alter_table_comment` is what happens otherwise. `TopLevelAgrees` and
`ParensMatch` are for texts without backslashes and comments (commas and
parentheses; that a keyword is found at the same places is not a property of its
own), `SpecSplitAgrees`
without comments and with escapes that one symbol of context tells
(`farEscape`). `Adapted` of Dml is the conjunction of seven named parts
(PlainText, InertStrings, PlainLimit, PlainInsert, PlainTable, PlainJoins,
PlainMarkers), each with the reason in a comment: a string that holds a marker
or a function name is rewritten like code, LIMIT must be of numbers, one row,
one join in the legacy MySQL parser, joins in capitals with ON in that of PostgreSQL,
and so on. Dml's TypeOK has two bounds: the counter never goes beyond the `?` of the
text, and if none of them is in a string, which the renderer numbers as well, not
beyond the arguments of the caller. Both are for SELECTs whose WHERE is not found
after ORDER BY (`ClausesInOrder`): `SelectClauses` looks for the end of ORDER BY at LIMIT alone, as the code does
(`tidb_dml.go:180`), so that a WHERE after it is rendered twice, its markers with
it. No clause order of SQL is like that, but strings are that end with an escaped
quote, which the scanner takes for code. `MisreadSelects` of the run are such
statements; without the hypothesis TLC finds the bound exceeded. `Portable` of Schema names what
MySQL can and the translation does not carry over: keys and tables that share a
name, or have one like those PostgreSQL gives to primary keys (`PortableNames`),
names that differ in case or only in where an underscore stands (`PortableUpdates`),
types without a counterpart or with that of another (`PortableTypes`), DROP INDEX of
a constraint (`PortableKeys`), the primary key of a renamed table
(`PortablePrimary`). `Expressible` of Gorm are the options a DSN can carry: no
parameter has the name of an option, and the host is one that a URL reads as it is.
A custom provider is not carried (`OptionsSurvive` is about it where there is no DSN). `plainBy`
marks rows that were stored by a handle without an encryptor or by an update of
one column, whose value GORM does not show to the callback; `ReadBack` asks that
the encryptor writes the prefix. `NeverPlainStored` names one exception: a plain text
that begins with the prefix of cipher texts is taken for one (`encryptor.go:130`) and
stored as it is. The run has such a text.

**Fairness.** A goroutine inside a call is scheduled again (WF of its steps):
the Go scheduler is preemptive. Callers are never obliged to call. Taking a
`sync.Mutex` has SF: in starvation mode (after 1 ms of waiting) the mutex is
handed to the first waiter, so a goroutine that is ready again and again gets
it; this is the inner mutex of the RWMutex and the mutex of the logger.
Readers need no such assumption because `Unlock` admits all parked ones. The
base driver is assumed to answer (part of WF of `Proceed`); connections may
die, and log writes may fail, for ever.

## 4. Proofs

All proofs are for every value of the constants, under the named assumptions.

**TranslatorProof**, for every set of goroutines, statements and texts, every
`translateSQL` and every HitRange. Assumptions: `NoThreadAssumption`,
`TranslateAssumption` (a function from statements to texts or Failed; the
markers differ from texts), `HitRangeAssumption`. The properties alone are not
inductive: that a counter is exact depends on who holds the lock, that an answer
is right on what a goroutine read before it dropped the lock. `IndInv`
(TranslatorInv) adds

* `LockInv`: the lock's fields are where the goroutines are;
* `CacheInv`: an entry exists exactly for statements whose miss was counted or
  is being counted under the write lock;
* `LocalInv`: what a goroutine's locals hold at each point. A goroutine that
  translates has not missed on its statement before: once it has, the entry is
  there and is never removed, so its later lookups hit;
* `CounterInv`: a loaded register equals the counter while the lock is held.

One lemma per part, one step per action. From `Inductive` follow `TypeCorrect`,
`RaceFreedom`, `Coherence`, `Answers`, `ExactHits`, `ExactMisses`, `EntriesKept`
and `Refinement`, which shows that each step is a step of TranslatorSpec or a
stutter.

**DriverProof**, for any number of clients, connections, retries, operations and
base drivers (`OperationsAssumption`, `PoolAssumption`). A client that writes a log
entry is, for everything but the log, where it will go on (`After`). Of each
client, `CallOf` ties the text to the statement, `TextsOf` says what the base
driver got, `EffectOf` that an attempt which has not ended had no effect (so that
a retry repeats none), `LogOf` that the entries written and the one under way are
those of `failed`, one for one and in that order unless a write was lost, and
`FailOf` that only ErrSkip and ErrBadConn let a call go on, so that what ends it is
the last it met. Proved:
`TranslationsOnly`, `EffectsOnce`, `LogsFaithful`, `FailuresLogged`,
`DriverTypes`. `PoolIsSafe` has an invariant of its own (`ConnInv`): every
connection is in the pool, closed or with one client, and one that was reported
bad is given up by the client that still holds it.

**PipelineProof**, for every set of texts and dialects. `PipeInv` says what each
stage has found and that the next one goes on from it; the properties follow by
cases on the statement. `TextsAssumption`, `NodesAssumption` and
`DialectsAssumption` are what the code asks of the parser: which fields a
statement has. All six properties of the run are proved (`PipelineTypes`,
`RefusalIsFinal`, `NeverRaw`, `FiltersKept`, `ScopesKept`, `StagesAgree`).

**AlterTableProof**, for every set of ALTER TABLE statements over any columns
(`InputsAssumption`). `IndInv` (AlterTableInv) speaks of the batch as it would
be if it were flushed now: ordered, made of clauses before `i`, covering all of
them; and of the statements and the pending specs apart: the finished ones are
sound, the pending ones hold no key of their own and keep the foreign key rule.
Two general lemmas (the batch continued by more specs, or by a statement of its
own) carry the steps of the loop. `ConditionInv` follows the conditions from the
text into the batch; that the pieces are the clauses (`Aligned`) is its
hypothesis, since `Piece` sums over the text and sums are out of reach. Proved:
`TypeCorrect`, `OrderIsKept`, `NothingIsLost`, `KeysAreAlone`,
`NoEmptyStatement`, `ForeignKeysAreSplit`, `ConditionsAreKept`.

**ScanTextProof**, for texts of any length over any symbols
(`LengthAssumption`). Two readers walk side by side: after each symbol the
scanner has the quote open that the lexer is in, and none after a quote that may
close it, so that a doubled quote closes and opens (`QuotesAgree`); parentheses
are counted alike (`DepthsAgree`). For the splitter of ALTER TABLE, which knows
escapes, `SpecQuotes` adds what the symbol before was. `Walked` ties the walk to
the operators on whole texts (`TopStates`, `LexStates`, `TopLevelPlaces`), which
are recursive functions: what they give for a text is what they give for its
beginning and one symbol more. `findMatchingParen` starts at a parenthesis and
knows nothing of the text before: from there its depth is the lexer's less a
constant, at every place until it stops (`Follows`), by the least place where it
would not be. Proved: `CutsAgree`, `SplitsAgree`, `WalksAgree`, `TypesKept`,
`ParenthesesMatch`.

**GormProof**, for any handles, rows, texts, options and encryptors
(`AssignmentsAssumption`: options have the fields of the struct and the bounds are
numbers; `LowerKeyAssumption`: the names of options are in lower case). Every text
in an object or a row carries what was given for it, and no encryptor it went
through but the last one writes the prefix (`Carries`): this is why nothing is
encrypted twice and one decryption restores it. Proved: `GormTypes`,
`PlainNeverStored`, `FoundAsGiven`. `HandlesAssembled` says that a handle has what
its dialector makes of its options; `OptionsCarried` follows from what one way
through `FormatDSN` and `ParseDSN` leaves of each field, which is lost only where it
is put back by `normalized`, and from this once more for a handle opened by a DSN.

**SchemaProof**, for any statements (`StatementsAssumption`: they have the fields
their kind has), any tables, columns and keys, any number of statements and of lost
connections. That the PostgreSQL shows the schema of the MySQL is not inductive:
between the commands of a statement it shows neither the old one nor the new one,
and that a command is possible depends on names nobody looks at. `KeptInv`
(SchemaInv) says part by part what is held for the tables (`TablesKept`,
`PrimaryKept`, `KeysKept`, `UpdatesKept`), and adds

* `NamesKept`: only the index of a primary key has a name with `pkey` in it, and it
  is `<table>_pkey` unless the table was renamed, so that DROP PRIMARY KEY finds it
  and a numbered name never is one of the program's;
* `FunctionsKept` and `Distinct`: a function belongs to one pair of table and column
  that was declared ON UPDATE, so that a trigger made again is the one that was
  dropped, and nobody else's;
* `Progress`: how far a statement is. A CREATE TABLE has a trigger to make for each
  column of `Pending`, which does not shrink while a trigger is dropped to be made
  again; a RENAME of several pairs has the tables of `Renaming` after so many of
  them; a lost connection sets it back to its first command.

`Carries` is what makes a statement portable, apart from the state it was found
portable in. The first half of the module are facts about commands and databases,
among them that the artifacts of the columns, which the code flattens, are three commands
each, in order, by the least place where they would not be. `CommandCarried` is the
step: one command is possible and brings the statement one further. `ViewKept` is the
end: what represents the tables shows them. Proved: `SchemaTypes`, `SchemaCarried`.
`TypeInv` and `KeptInv` hold on the instance of the run `schema` as well, when `Names`
is overridden by the finite set of its names; they are not among the properties of
the run, which takes `Names` as it is, all sequences of words.

**DmlProof**, for statements of any text, in every direction
(`StatementsAssumption`: a statement has one of the five types and a text that is
not empty). That no marker gets a number beyond those of the text, or beyond the
arguments where strings hold none, is not
inductive: it depends on what is still to be rendered. `IInv` adds `PiecesInOrder`:
while a statement is rendered, the pieces that are left are parts of one text, the
statement's or what follows its first word, and where the clauses are found in
order there is a place in that text which they all come after, one behind the
other, and before which there are at least as many markers as were numbered. One
lemma for each way a statement is cut says that its parts are in order
(`SelectExtracted`, `InsertExtracted`, `UpdateExtracted`, `DeleteGood`,
`WithJoinsCut`); they rest on where `FindTopLevelKeyword`, `SplitTopLevelCSV` and
`FindMatchingParen` may cut. A list of columns is of slices which `SplitTopLevelCSV`
made, flattened by `FlattenSeq`; the joins are a function of the number of rounds.
Both are recursive functions, which are shown to exist and unfolded by the least
number at which a statement about them would fail. `RenderKeeps` is the step:
rendering a piece numbers the markers in it (`CountedPiece`) and no others. Proved:
`TextInPieces`, `DmlTypes`.

Only model-checked: liveness under fairness (`EveryCallReturns`, the liveness half
of `ImplementsLiveService`; the prover has no rule for it here), and
`StatementKept` of Dml: what a statement means after it was written out and cut
again compares two texts, both of which recursion over data builds. That its
clauses come out in their order, and none of its text twice, is in `TextInPieces`;
that each is the clause it was is the run's.

## 5. Plan

Done: the core (Translator, Driver, Pipeline, AlterTable) with runs and proofs,
then Scanner, Dml, Options, Gorm and Schema with runs, then the proofs of
Driver, Pipeline, ScanText, Gorm, of the conditions of ALTER TABLE, of Schema and of
Dml.
What would come next, in order:

1. **Driver**, the rest: transactions and statements that a caller keeps, with
   their arguments, named ones included; connections opened by name, each with
   a translator and a logger of its own.
2. The batch of AlterTable executed by Driver: a failure in the middle.
3. **Schema** for the other targets, and with foreign keys, whose split is in
   AlterTable.
4. **Dml**: that the texts of `Adapted` are cut at their own keywords, which is the
   half of StatementKept that TextInPieces leaves to TLC.

## 6. Not modelled

* **Driver**: `BeginTx` and the transaction (forwarded; options are dropped when
  the base connection has only `Begin`), `Ping`, statements that the caller
  prepares and keeps, `CheckNamedValue` and which value arrives at the base
  driver (`argsFromSlice` keeps a value that `params.Normalize` refuses;
  `StmtExecContext` gets the arguments as they are). `driver.Open`, which gives
  every connection a translator and a logger of its own.
* **The texts themselves**: expressions, column types but for the few that Schema
  tells apart, the catalogue queries of SHOW, index options, the grammar of the
  targets' ALTER TABLE.
* `params.Normalize`: reflection over Go types, reduced to "converts or not".
* `internal/ir` and `internal/parser/types.go`: data types. Error messages and
  the JSON of a log entry. GORM's dialector methods, which forward.
  `.ud-check.go`: a scratch program.
* Cancellation by context: the library passes the context on and never looks at
  it. AES-GCM: a text opens with the key that sealed it.
* The bootstrap planner's patterns for texts that do not parse.
* **The TiDB parser**, its grammar and AST (`internal/parser/tidb`, 39,000 lines):
  third-party code, generated in part. What the library uses of it, which
  statements parse and with which fields, is in the texts of Pipeline and the
  records of Dml, AlterTable and Schema; its lexer's view of quotes and comments
  is in Scanner.
