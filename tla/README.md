# Formal models of webdsl

webdsl is a C program that reads one `.webdsl` file, parses it into a syntax tree and serves
the web site it describes: pages, JSON APIs, SQL queries, transformations in jq and Lua, user
accounts, e-mail. It watches its source files and reloads them, and it has a second mode,
`webdsl migrate`, that changes the schema of the PostgreSQL database.

This directory holds TLA+ modules translated from the code under `src/src/`, configurations that
check them with TLC on small instances, and proofs checked by TLAPS for every value of the
constants. `PROJECT.json` maps each definition to the lines it models.

- [Inventory](#inventory): the parts of the system, their state, and what makes them correct
- [Modules](#modules): which module models what, and how state and actions correspond to the code
- [Runs](#runs): what each configuration checks, its bounds and its fairness
- [Proofs](#proofs): what is proved, from which assumptions, by which invariant
- [Findings](#findings): where the code does not do what it says
- [Not modelled](#not-modelled) and the [plan](#plan)

## Inventory

### Threads and processes

One server process has a main thread (`main.c`), which polls the source files once per second
and reloads, and the eight threads of libmicrohttpd (`server.c`, `MHD_USE_INTERNAL_POLLING_THREAD`
with a thread pool). A connection is served by one thread from start to end, so a request is
sequential; different requests are concurrent. They share

| shared state | protected by | in |
|---|---|---|
| the pool's list, counter and `in_use` flags | `pool->lock` | `db_pool.c` |
| the cache of prepared statements | `stmt_lock` | `db.c` |
| the server's arena | nothing | `arena.c` |
| the cache of compiled jq programs | one table per thread | `routing.c` |
| the table of compiled Lua scripts | nothing; it is filled before the threads start | `lua.c` |
| rows of `users`, `sessions`, `session_store`, tokens | PostgreSQL, one transaction per query | `auth.c`, `lua.c` |
| the configuration itself | read only while the daemon runs; replaced by the main thread after `MHD_stop_daemon` has waited for all requests | `website.c` |

A `webdsl migrate` command is a process of its own that shares only the database and the
directory `migrations/` with servers and with other such commands.

### Components

| component | source | state it keeps | operations | hard behaviour | what makes it correct |
|---|---|---|---|---|---|
| connection pool | `server/db_pool.c` | list of connections, counter, flags, lock | create, get, return, close | interleaving, lost sessions, failing reconnect, the bound | a connection has one user; none leaks; the bound holds; the end is reached |
| query layer | `server/db.c` | prepared statements and their cache | plain and parameterised queries, initialise, close | a session replaced behind the cache, two nested resources, failures in the middle | queries fail for a reason; connections come back; the cache loses nothing |
| arena | `arena.c` | one counter and a buffer | create, allocate, duplicate, free | races of request threads on the server's arena | blocks are disjoint, aligned and inside |
| migrations | `migration.c` | directory, table, schema | create, up, down, status | crash between two transactions, concurrent commands, order | recorded = first migrations in order; faults do not spread |
| lifecycle and reload | `main.c`, `website.c`, `server/server.c`, `file_utils.c` | tracker of modification times, arena, daemon | poll, stop, parse, start, track, shut down | edits during a reload, failing parses and starts | no edit is lost; the daemon never runs on freed memory |
| accounts | `server/auth.c`, `server/email.c` | rows of users, sessions and tokens | register, log in and out, verify, resend, forgot, reset | check-then-insert, token used twice, e-mail fails after commit | one user per login; a token is used once; sessions belong to users |
| OAuth login | `server/github.c` | state tokens, credentials | redirect, callback | the callback is repeated or forged out of order, calls fail half way | a state token is consumed once |
| session store | `server/lua.c`, `server/mustache.c`, `server/auth.c` | one JSON object per session; the anonymous session and its return path | read, read-merge-write; create, remember, lead back | lost updates of two requests; answers that cross | what was set is read, unless two updates crossed; a login leads back |
| request handling | `server/handler.c`, `server/api.c` | context and arena of each request | first call, upload calls, final call, completion | the order of MHD's calls, disconnects in the middle | one answer per request, everything released once |
| pipeline | `server/pipeline_executor.c`, `server/jq.c`, `server/lua.c` | the JSON value between the steps | jq, Lua, SQL and dynamic steps | an error in one step | later steps see the error, or are skipped |
| routing | `server/routing.c`, `server/route_params.c` | hash tables, jq cache | build, find, match parameters | collisions, order of patterns | the first matching route is found |
| validation | `server/validation.c` | none | check a field, a form, a JSON body | boundaries | a value that passes obeys its rules |
| lexer, parser, include | `lexer.c`, `parser.c`, `include.c`, `value.c` | tokens, syntax tree, include stack | scan, parse, merge | nesting, missing and repeated includes, ends of input, errors in any file | goes on reading; closes what it opened; an error yields no site; no declaration is lost |
| string builder | `stringbuilder.c` | buffer, length, capacity | append | growth by copies, a full arena | writes inside its block; a text is whole unless it was refused |
| Lua runtime | `server/lua.c` | table of compiled scripts | fill, look up, empty | threads read it without a lock; it outlives the arena its texts are in | everything is in it before a thread looks |
| rendering, JSON dump, utilities | `server/mustache.c`, `server/css.c`, `website_json.c`, `server/utils.c` | none of their own | conversions | - | - |

### How they interact

`main` calls `reloadWebsite`, which stops the daemon, frees the arena, parses (lexer, parser,
include) into a new arena and calls `startServer`; that builds routes, opens the database (pool
and query layer), initialises Lua and starts the daemon. For a request MHD calls `handleRequest`,
possibly many times, then `handleRequestCompleted`. A handler finds its route, validates the
body, runs the pipeline, whose SQL steps lease a connection for the duration of one query, and
renders. Everything persistent is in PostgreSQL; each `executeQuery` and each prepared statement
is a transaction of its own, so two queries of one handler are two atomic steps with everybody
else's in between.

## Modules

| module | extends | what it is |
|---|---|---|
| `Lease` | | what the pool promises: connections are created up to a limit, granted to one thread, and come back |
| `ConnPool` | | `db_pool.c` in full, and PostgreSQL as its environment |
| `Database` | `ConnPool` | `db.c`: queries, prepared statements, their cache; composed with the pool |
| `Arena` | | `arena.c` and who uses which arena |
| `Migrate` | | `webdsl migrate create`, `up`, `down` as processes |
| `Lifecycle` | | `main.c`, `website.c`, `server.c`: polling, reload, shutdown |
| `Server` | `Lifecycle` | the main loop composed with the daemon's threads, and the caches that live as long as a configuration |
| `StringBuilder` | `Arena` | `stringbuilder.c` on a request's arena |
| `Parser` | | `lexer.c`, `parser.c`, `include.c`: tokens, blocks, includes, errors |
| `Sessions` | | the anonymous session, the return path and the store of a session: `mustache.c`, `lua.c`, `auth.c`, `github.c` |
| `Validation` | | `validation.c`: the rules of a field and the value they see; operators only |
| `Accounts` | | `auth.c`, `github.c`, `email.c`: handlers as sequences of queries that interleave |
| `Routing` | | `routing.c`, `route_params.c`: how a url finds its API or page; operators only |
| `Request` | `Routing`, `Validation` | `handler.c`, `api.c`, `pipeline_executor.c`, and what they use of `mustache.c` and the kinds of steps |
| `ConnPoolProofs` | `Database` | theorems about the pool and the query layer |
| `ArenaProofs` | `StringBuilder` | theorems about arenas and the texts built in them |
| `ServerProofs` | `Server` | theorems about the main loop with its threads |
| `RequestProofs` | `Request` | theorems about requests, routes and validation |
| `MigrateProofs`, `AccountsProofs`, `ParserProofs`, `SessionsProofs` | their component | theorems |
| `MC...` | their component | constants for TLC |

`MCConnPool.cfg` gives `MCConnPool` its constants, and so on; a cfg whose name continues
(`MCDatabaseStale.cfg`) checks the same module for another question.

### ConnPool and Lease

A thread's `pc` names its place in `getConnection` or `returnConnection`; everything that happens
between taking and releasing `pool->lock` is split where another thread or PostgreSQL could be
noticed: walking the list, setting `in_use`, connecting, linking, looking at `PQstatus`,
resetting, releasing. `connections`, `size` and `inUse` are the fields of the C structures of the
same name. libpq's view of a connection (`status`) and the server's (`session`) are two variables,
because `PQstatus` only reports a loss after a call on the connection has failed: that delay is
what lets a broken connection return to the pool. The environment may lose a session, stop the
database server, or restart it.

`initConnectionPool` keeps a pool that got fewer connections than it asked for, as long as it got
one, so `Init` starts with any number from 1 to `InitialSize`.

`Lease` knows only which connections exist and who holds which. `ConnPool` implements it
(`ImplementsLease`): `pooled` is the set of listed connections, and a thread holds its connection
from the moment the flag is set until it is cleared.

### Database

`Database` extends `ConnPool` and adds what a thread does while it holds a connection (`at`), the
lock `stmt_lock`, and the two sides of the cache: `cache`, the entries of the hash chains, and
`prepared`, the statements PostgreSQL knows in a live session. The linking of a new entry is two
actions (`ReadHead`, `WriteHead`), as in the code. A statement belongs to its session, so every
action that ends a session (`LoseSessions`) or replaces it (`PQreset`) removes it from `prepared`
and leaves `cache` alone. An answer is what the caller can tell apart: rows, NULL, an error (the statement is
not known to the session, or the session is gone), or `sqlError`, PostgreSQL's refusal of this execution (a
value that violates a constraint), which is no fault of the system. `executeQuery` refuses some texts before it asks
for a connection (`RefuseQuery`). `ImplementsPool` is the composition's obligation: with the variables of
the query layer hidden, its steps are steps of `ConnPool`.

### Arena

`arenaAlloc` reads `arena->used` for the test, for the pointer and for the addition. In an arena
that one thread uses they all read the same value. In the server's arena they race, so the second
and third read return either the value the test saw or the present one. `Users` says which
threads use which arena; `PrivateArenaSound` is about arenas with one user, `SharedArenaSound`
about the others.

### StringBuilder

Texts are put together in the request's arena, in which a block cannot grow: `Append` tests whether
the formatted piece and its NUL fit, otherwise `Double` computes a capacity (one action per turn of
the loop, with its stop at the limit), and `Expand` takes a new block, copies, and formats again.
Other allocations of the request come in between, and the arena may be full at any of them; then
`Refuse` leaves the piece out and nobody is told. A text is known by its length, and a piece is any
length of a small set. The block of the builder is a block of `Arena`, so the invariants of both
modules are about the same memory.

### Parser

The call stack is `stack`: a frame for each parse function that is active, with the kind of block it
reads; `goal` is what it reads next. The grammar is in tables: `Items` gives, for each kind of
block, the keywords of its loop and what must follow each of them, one table per parse function, so
an action `ParseItem` is one turn of whichever loop is innermost. Raw blocks (`html { ... }`) are one
token, as in the lexer; CSS blocks and the places where the parser asks for something else than it
says (a transform without a name, brackets or parentheses) are kept.

The text is chosen as it is read: `Advance` makes any token the current one that the lexer can
return there, and `Fail` is what follows when it is none that the parser takes. So one behaviour is
one text, of any length, as far as it is read: the parser does not look behind the brace that closes the
site, or behind a stray `}` in an included file. A number outside 1..65535 behind `port` counts as
an unknown token, since `parsePort` makes it an error. An include pushes a parser of its own with its own error flag, and
`FinishInclude` appends its lists to those read so far. Of the lists of declarations one is followed
(`focus`, chosen at the start), as numbers in the order of the text. `hadError` is the flag of the
parser that is at work, `reported` a history variable: a parser of any file has reported an error.

### Migrate

Migrations are the numbers `1..N` in the order of their directories' names, which begin with the
time of creation. `files` is what `migrate create` and the editor have left in each directory,
`records` the table `migrations` in the order of its ids, `schema` the migrations whose SQL is in
effect. A runner reads the table (`SelectApplied`), lists and sorts the directories, and then for
each pending migration reads `up.sql`, executes it and records it: two transactions, with
everything else in between. The nested loops that sort the array are `Ordered`: the listing is
any sequence of the directories that is sorted. `executeQuery`
refuses a text with a comment, and every template has one, so an unedited migration fails. The record of a
migration is an INSERT into which its name is printed, so it always fails for a name with `--` or an
apostrophe (`Unrecordable`), after the migration's SQL has been committed.

A query may fail for a reason outside the program; if it was a COMMIT, the transaction may have
happened all the same (`QueryFails`). A directory or file may not be readable (`FileFails`). A runner may be killed
anywhere (`Crash`). What it had read goes with its process, however it ends (`Vanish`). `MakeDir`
assumes that a new name is the last in the order: names begin with `localtime` in whole seconds, so two
`create`s within a second, or a clock that is set back, could make it otherwise.

### Lifecycle

The main loop is one thread, but files change between any two of its steps. A file has a
`version`, which is what a reader gets, and an `mtime` in whole seconds, which is what
`checkModifications` sees. `watched` is the tracker, `tried` the versions the latest parse read.
A context whose database could not be opened has a `daemon` field nobody wrote: `arenaAlloc` does
not clear memory, so it is `off` or `garbage`, and `stopServer` on `garbage` may crash.

### Server

`Server` puts the daemon's threads beside the main loop and shows what the reload must respect. A
step of `Lifecycle` is a step of the main thread here, with its effect on what outlives a request:
`StopDone` (which must wait for `CloseDaemon` and for the threads), `ParseText` (the arena of the old
configuration goes), `StartThreads`. Each arena made is a `generation`, and whatever points into
one remembers which: the routes, the pointers that `db.c`, `css.c`, `mustache.c` and `lua.c` keep to the
context, the texts of the compiled scripts (`chunks`), and each thread's table of jq programs.
`compiled` are the jq programs that libjq still holds; `cleanupJQCache` releases none of them, as it
looks at a variable that is never set, so the release is the destructor of the thread's key
(`EndThread`). A script whose text is in the table already is not compiled again, which is why the table
must be empty before the next start. `ImplementsLifecycle` says that with the threads hidden this is
the main loop, which goes on: stopping waits for handlers, and handlers end.

### Sessions

One browser with several tabs: `jar` are its cookies, and a request takes with it those it has when it is
sent (`sent`). A request's step is one query, so the queries and answers of several requests interleave.
A page for somebody who is not known to be logged in starts an anonymous session, unless the
request came with one, and so does a page whose pipeline does not pass `isLoggedIn` on; a page that needs a
login (`guarded`) stores its path there; a login reads the path, by password after the session was created, by GitHub before the browser is sent away, and then
the path travels with the state token. `setStore` is two queries with the merge in between. Failures
are those of `Accounts`: NULL, or a result that holds an error and is often not looked at.

The properties need to know what ought to be the case: `ideal` is the store as the scripts were told,
`missed` and `torn` say which keys an update of another key has put back, `away` and `want` where
a login should lead, `crossed` that two first visits were under way at once. No step reads them.

### Validation

A text is what the rules look at: its length, the integer it spells, the formats whose validator accepts it.
A field has no `pattern`, because the parser stores none (parser.c:555-586). Two kinds of fields make the check
undefined and are excluded from the rules (`IsDefined`): a field without a type, which is compared with
`strcmp` (validation.c:216), and a text with a range, whose two integers are then read as the pointer of a pattern
(validation.c:264, ast.h:88-96). `required` is what the code makes of it: the value is not NULL.
A JSON number counts in tenths and reaches the rules as `printf("%.0f")` makes it; `atoi` has the
width of `long`, and the `int` keeps its low bits (`IntBits`, `LongBits`). `Obeys` says what the rules mean
without the detour, and `CheckedBodyIsValid` compares the two for what the pipeline of a request gets:
up to half a unit for JSON numbers, and as long as an `int` can hold the number that is compared, which
is the one after rounding.

### Accounts

A request runs one handler once. Its `pc` names the next query or call, and every query is one
step, because `executeParameterizedQuery` is a transaction of its own; which connection it uses
does not matter here. `users` is a sequence, so that an index is an id; the other tables are sets
of rows. Login and e-mail address are one value, since `handleRegisterRequest` stores the same
string in both and a GitHub user has no address. A random token is named after the request that
generated it; `Earlier` stands for a request of the time before, so that sessions, letters and
state tokens exist at the start. Passwords stand for their hashes, and those outside `Usable` are
the lengths that `verifyPassword` refuses (`handleRegisterRequest` accepts them).

The users of the site are the environment: they know the logins and passwords they type, the tokens in
letters that reached them (`Mailed`), and cookies and state tokens of answers they got (`Given`).
GitHub confirms any account.

The handlers treat failures differently, and the model keeps that apart (`QueryFails`): NULL, for
which a handler usually gives up, and a result that holds an error, which several of them read as
"no rows" and one as success. A killed server leaves its requests unanswered and the tables as
they are. That a query commits although its answer is lost is not modelled here (it is in
`Migrate`).

### Request and Routing

`Request` follows libmicrohttpd's protocol. MHD calls `handleRequest` when the headers are there
(`FirstCall`, which makes the arena and the context), once for each part of the body (one
action per kind of part: `handleJsonPostData`, `post_iterator`, `processFormField`,
`processFileUpload`), and once when the body has ended (`AnsweringCall`). That last call
is split at each place where it decides something: `FindRoute`, `executeRouteValidation`,
`ValidateForm`, one `executePipelineStep` per step, `EndReference`, `EndPipeline`,
`handleRouteResponse`. `handleRequestCompleted` can come between any two calls: the client
disconnects, the connection times out, a handler returned `MHD_NO`, or the response is out. Calls
of one thread do not overlap, but its connections take turns (`ThreadFree`), and
`currentJsonArena`, through which jansson allocates, is a variable of the thread: `jsonArena`.
`json[c]` is the set of requests whose arenas hold JSON values of `c`.

A method without a body is answered by the second call, even if the client announced a body; MHD
then refuses the response (`Early`). How a body is cut into parts is the network's choice.

Values are abstracted to what the program looks for. A JSON value is the set of its properties
`error`, `errors` and `redirect` (`blank` is a redirect that is no string); a field's value
is a text or a number as in `Validation`, text that is not JSON, or a JSON value that is neither. What a filter or script returns is the site's choice (`execute`). Entries keep
their order and repetitions, because validation takes the first value of a name in a form and the
pipeline gets the last. Uploads are counted: `disk` are the request's temporary files, `strays`
those that exist but are not in its list.

`Routing` has no state after start. A route and a url are sequences of segments; the hash
functions are parameters, so that collisions happen; `Before` is the order in which a loop over the
table meets the entries: by slot, and in a slot's list the latest declaration first. So what a loop
finds is the first of those that fit (`FirstOf`), whatever the length of the lists.
`parseRouteParams` compares characters, and segments are what its result depends on, as long as a
`:` only stands at the beginning of a segment. It writes parameters before it knows whether the
pattern matches, into a structure that all attempts share: `Search` returns what the last attempt left. At
most `MaxParams` parameters of a route are kept.

## Runs

| run | instance | what it shows |
|---|---|---|
| `pool` | 3 threads, 2 of 3 connections, 2 faults | no sharing, no leak, the bound, the refinement of `Lease` |
| `query` | 2 threads, pool growing from 1 to 2, 2 statements of which one never prepares, plain queries, 1 fault | the cache loses nothing; a good query fails only after a lost session or by an SQL error of its own; the pool is used correctly; recovery; the end is reached |
| `query_stale` | 1 thread, 1 connection, 1 statement | violated: the cache outlives the session |
| `arena` | 1 thread, 60 bytes, pieces of 0 to 20, blocks of 0 and 9 in between | blocks are disjoint, aligned, inside; the builder stays in its block, texts are whole unless refused |
| `arena_shared` | 2 threads with one arena | violated: overlapping blocks |
| `migrate` | 2 runners, 3 migrations of which the first may be repeated and the last has a name that cannot be recorded, two `down`s, 2 faults | prefix, bounded divergence, success is complete, retrying heals |
| `server` | main file and one include, 3 seconds, 3 edits; 2 threads, 2 jq programs of which one does not compile, 1 script and the library | the daemon's memory is sound, nothing dangles, scripts are ready, programs are released, the main loop goes on; edits and repairs are noticed |
| `parser` | main file and 2 others, 2 includes, 3 declarations of a kind; texts of any length and nesting | of the tokens read every brace is matched, an error rejects the text, no declaration that was read is lost, the parser never turns in place |
| `accounts` | 3 requests, 2 logins of which one may be registered already and the other is also a GitHub account's name, 2 passwords of which one is too short, 1 fault | one registration wins, sessions and resets belong to their owners, a state token passes once, letters keep their promise, what a page says is true |
| `sessions` | 4 requests, 2 keys, 2 guarded pages, a browser that may be logged in, 1 fault | the store tells what was set last, a login leads back |
| `request` | 2 requests on one thread or two, 18 kinds of messages, 6 APIs and 3 pages in 2 slots, bodies of up to 3 parts, 2 form fields, 2 texts of which one is empty, 6 JSON values, int of 5 bits and long of 8, 1 fault | memory is released once, files are removed, JSON values stay at home, failures stop a pipeline, the answer tells the outcome, a checked body obeys its rules as the code means them, the route is the right one, every request ends |
| `request_validates` | the same, with one part | violated: a pipeline runs with fields nobody validated |

Invariants that speak of one component are checked together: `PoolSound`, `CacheSound`, `BuilderSound`,
`TableSound`, `ServerSound`, `UsersSound`, `StoreSound`, `UploadsSound` and `StackSound` each join the
types of a module's variables with the parts named beside them in the module (`NoLostConnection` and
`PoolBounded`, `NoOrphanStatement`, `BlocksAligned` and `WritesInside`, `AppliedIsPrefix`,
`ServingIsSound` and `NothingDangles`, `SessionsAreEarned`, `QuietStore`, `FilesRemoved`, `BracesMatch`).

### Bounds, and why they are enough

- *Threads.* The pool's conflicts are between two threads that want one connection; the third
  makes the case that two hold all connections and one gives up. A third thread in `Database`
  would add only waiting: `stmt_lock` orders the insertions, and two suffice to violate every
  property there by a mutant.
- *Connections.* Two allow a leased and an idle one at the same time, and the growth from one to
  two; the third structure in `pool` exists so that a pool that grew past its bound would be seen.
- *Faults.* Two in the pool allow losing a session and then failing to reconnect; two in
  `migrate` allow a killed `up` followed by a killed retry, or by a killed `down`.
- *Sizes.* The arena's size is no multiple of 8; the pieces fit, just fit, need one doubling or several,
  and several do not fit at all. `ArenaProofs` removes the bound for the blocks.
- *Texts.* The length of a text is not bounded, its nesting by the grammar only. Three declarations
  in up to three files make the cases that an include stands before, between and after others. Paths
  may repeat, and a third include is one too many.
- *Widths.* With 5 bits an `int` holds -16..15, so 35 wraps to 3; what matters is that a `long` is wider
  and that both are wider than the range of the rule.
- *One browser.* Everything in `Sessions` hangs on cookies, and two browsers share no row. Four requests
  suffice for a page, a guarded page, a login by GitHub and its callback; the store's conflicts need
  two sets and a get. With one value a lost update is a value that is gone or one that comes back.
- *Threads of the daemon.* Two: a stop waits for all of them, and one reads the table of scripts while
  another could write it. Their handlers do not exclude each other.
- *Migrations.* Two are enough for an order and for one to be missing; the third is in effect without being
  recorded, and whatever the others do meanwhile. `MigrateProofs` removes the bound.
- *Requests.* Each property of `accounts` relates two requests (two registrations, two callbacks, a
  letter and its use); the third makes the case that one of them was prepared by an earlier
  answer, such as a callback twice after a redirect. They are interchangeable, so the run uses
  their symmetry; it has no liveness property. Requests are not repeated: a retry is another
  request, and when all have ended the run stops (`CHECK_DEADLOCK FALSE`).
- *Logins.* Two tell "another's" from "one's own"; the mutants that take the first row need it.
- *Two clients.* The JSON arena is shared by the connections of a thread, so two of them show
  whose arena is used; both placements (the same thread, one each) are initial states. The first
  client sends bodies, asks for routes that overlap, or is answered without a pipeline; the second
  runs a pipeline of two steps meanwhile:
  whatever one request does between two calls of the other happens.
- *Parts and fields.* Three parts make a body with two values of one field and one more than the
  table of two fields holds. The values are inside the rules, outside, rounded into a range and out
  of it, and wrapped. One page takes the empty text although its field is required, another
  refuses it by a least length, a third asks for a format.
- *Routes.* Two slots for nine routes put several in a chain; there is a literal and a
  parameter that both fit a url, one route declared twice, an API before a page, and a pattern
  whose first segment leaves a parameter behind before it fails.
- *Edits and seconds.* Three edits allow one that starts a reload, one during it and one after.

`Apart` and `Quiet` in `server` are assumptions about people, and needed, as is the one of `MakeDir` in
`migrate` that a later `create` gets a later name (its clock, too, counts whole seconds): `st_mtime` is read in
whole seconds, so of two edits of a file within one second the later may be missed (`Apart`);
and the time of an include is taken after it has been parsed, so an edit during a reload is lost
(`Quiet`, for the include only; the main file may be edited at any moment). `DownsAlone` in
`migrate` says that nobody runs another command while `migrate down` runs. Without it the
table need not be a prefix: `down` may delete a row that a concurrent `up` has in its snapshot.
`DivergenceBounded` speaks of the migrations whose names can be recorded, and counts faults, so it would also hold in runs in which something fails all the
time; its force is that the damage does not exceed the number of faults.

### Fairness

- `query`: weak fairness of each thread's steps inside the pool and the query layer. A
  thread that runs goes on, a libpq call returns (with an error if need be), and a lock that stays
  free is taken. Nothing makes a request begin. Nothing makes a waiting thread win the lock
  against others that keep taking it (a POSIX mutex does not promise that), so no property says a
  particular request gets served. `DbStopCompletes` holds nevertheless: after the daemon has stopped
  accepting, requests end one by one.
- `query` also assumes that a stopped database server is started again: `PlainQueriesRecover` is about
  what the pool does then.
- `migrate`: the developer finishes the files that `create` began, a running command goes on,
  and the operator repeats `up`: `RetryingHeals` states what repetition achieves; the program itself never
  repeats anything.
- `request`: a handler that runs goes on (weak fairness). Completion is strongly fair: it is
  disabled while the thread is in a handler, and a request whose redirect is `blank` goes
  back to a handler again and again. A thread of MHD looks at each of its connections in every
  turn of its loop, and `MHD_OPTION_CONNECTION_TIMEOUT` (30 s) closes those that got no
  response. Nothing makes a client send.
- `server`: the main loop goes on, and so does each thread inside a handler and one that was asked to
  end (weak fairness of each). That assumes that the site's own scripts end. Nothing makes a client
  call, time pass or an editor write. `ImplementsLifecycle` derives the fairness of the loop alone.
- `parser`: the parser goes on; what a text contains is not fair.
- `pool`, `arena`, `accounts` and `sessions` check no liveness: nobody need send anything.

## Proofs

All theorems are about `Spec`, hence also about the fair specifications, for every value of the
constants that satisfies the module's `ASSUME`.

| theorem | says |
|---|---|
| `ConnPoolProofs!PoolTypeOK`, `LeaseIsExclusive`, `NothingIsLost`, `PoolStaysBounded`, together `PoolIsSound` | the invariants of run `pool` for any number of threads, connections and faults |
| `ConnPoolProofs!PoolImplementsLease` | `ConnPool` implements `Lease` |
| `ConnPoolProofs!QueriesImplementPool` | `Database` implements `ConnPool`: every path of a query, also those through errors, gets, uses and returns its connection as the pool expects |
| `ConnPoolProofs!CacheIsSound`, `ErrorsNeedLostSessions` | no prepared statement drops out of the cache; while nothing is lost, a parameterised query has no error but an SQL error of its own |
| `ArenaProofs!RequestArenaIsSound`, `BlocksStayAligned` | a private arena's blocks are disjoint and inside; all blocks are aligned, also under races |
| `ArenaProofs!BuilderIsSound`, `NoTextIsLost`, `BuildersKeepArenasSound` | builders write inside their block, and a text that nothing was refused of is whole, for any pieces and sizes |
| `ServerProofs!ServerIsSound`, `ReloadsLeaveNoPrograms` | the invariants of run `server` for any number of threads, files, edits, programs and scripts |
| `ServerProofs!ServerRefinesLoop` | `Server` implements `Lifecycle` (its safety part) |
| `MigrateProofs!TableIsPrefix`, `MigrateTypeOK`, together `TableIsSound` | with `down` alone, the table is a prefix for any number of migrations, concurrent `up`s and faults |
| `MigrateProofs!SuccessMeansRecorded`, `DamageDoesNotSpread` | with `down` alone, an `up` that succeeds has everything recorded that it listed; of the migrations that can be recorded, table and schema differ in no more migrations than there were faults and commands between their two queries |
| `RequestProofs!ArenasAreReleasedOnce`, `JsonNeverLeavesHome` | for any number of requests and threads, an arena is live from the first call to completion and freed once, and no JSON value is in another request's arena |
| `RequestProofs!FailuresStopPipelines` | nothing is executed after a step that failed or redirected, for pipelines of any length and any results |
| `RequestProofs!UploadsStaySound`, `AnswersTellOutcome` | form fields stay in their table and files go with their request; the status of an answer tells how the pipeline went |
| `RequestProofs!RoutesAreRight` | for any site, hash function and url the route found is the best one, with its own parameters |
| `RequestProofs!BodiesAreChecked` | for any rules that the parser can store and whose check is defined, any values and widths of `int` and `long`, a checked body obeys the rules as the code means them |
| `ParserProofs!TypeCorrect`, `BracesAreMatched` (together `StackIsSound`), `ErrorsReject`, `DeclarationsKept` | the invariants of run `parser` for any number of includes, paths and declarations; those about braces and declarations speak of the tokens that are read |
| `SessionsProofs!SessionsTypeOK`, `StoreIsQuiet` (together `StoreIsSound`), `StoreGivesLast` | the store tells what was set last, unless two updates crossed or a query failed, for any number of requests, keys, values and faults |
| `SessionsProofs!LoginsLeadBack` | a login leads to the page the browser was turned away from last |
| `AccountsProofs!StatePassesOnce` | at most one callback gets past a state token, for any number of requests and faults |
| `AccountsProofs!SessionsStayEarned`, `RegistrationIsUnique`, `ResetsStayAtomic`, `LettersKeepTheirWord`, `AnswersStayTrue`, `PasswordsAreTheirOwners` | the other properties of run `accounts`, for any number of requests, logins, accounts and faults |

**Pool.** Assumptions: `1 <= InitialSize <= MaxSize`, the null values are not threads or
connections. The safety invariants are not inductive one by one: exclusive leases depend on
"`in_use` is set for leased connections", which depends on who is inside the lock. `PoolInv` adds
`LockInv` (the threads inside the critical section are the lock's holder) and
`PointerInv` (what a thread at each place may rely on: in `claim` its connection is listed and
free, in `link` it is not yet listed and there is room). The refinement then has two
interesting steps: `Claim` and `Link` are `Grant` and `GrantNew`, `Release` is `Release`, and
the rest are stutters. `Lease` speaks of the cardinality of the set of connections, `ConnPool` of a
sequence: the lemma that a sequence without repetitions has as many elements as its length
connects them.

**Queries.** Assumptions: `Rejected` are statements, `Plain` is none. The refinement is the more direct part:
with `at`, the lock and the cache hidden, each action of `Database` is one of `ConnPool` or a stutter, and no
invariant is needed. The two invariants about the cache need `DbInv`. `NoOrphanStatement` hangs on the head of
the chain that a thread has read and not yet replaced: `QueryHolds` says that only the holder of `stmt_lock` is
between finding and linking, so what it read (`next`) is still the head. That a good query cannot fail
before something is lost is not a fact about queries: `Faultless` says it of all that a query touches, the
server, the listed connections, the entries of the cache and the statement in each thread's hands, and
`SessionsHold` ties `PQstatus`, sessions and statements together so that `PQreset` cannot occur without a loss.

**Arena.** Assumptions: `Capacity` and the requested sizes are natural numbers, users are threads.
`PrivateInv` says that in an arena with one user the value seen by the test is still the
counter's, and that all blocks end at or before the counter. Arithmetic of
`(size + 7) & ~7` is the lemma `AlignedUp`.

**Texts.** Assumptions: every arena has one user, none is larger than `Limit` (as handler.c makes them), sizes
are positive. `BuilderInv` contains the invariants of the arena and adds where a thread is (`StepsHold`: it is
not inside `arenaAlloc` while it appends), that the loop ended with enough or at the limit (`LoopHolds`), and
what the text should be when the append is over (`TextHolds`). The interesting case is a doubling that
stopped at the limit: the new block of that size can then not exist, since the arena is no larger and holds the
old block as well; hence the second `vsnprintf` fits whenever it is reached.

**Server.** Assumptions: `MaxTime` is positive, faulty programs are programs, the library is no script of the
site. `ServerInv` joins what is true of the main loop alone (`LoopInv`: a running daemon has a live arena, a
context and a place in the loop where that may be) with two facts that reach across threads. `ThreadsHold`: a
thread, and with it its table of jq programs, lives only while its daemon does. `PointersHold`: while there is
a daemon everything points into the present generation, and while there is none the table of scripts is
empty; so a parse, which ends a generation, happens only when nobody can follow an old pointer. The
refinement of the loop needs the invariant for `StopDone` only: the loop's stop waits for the threads.

**Migrations.** Assumption: `DownsAlone`; which names can be recorded is left open (`Unrecordable`). That the table is a prefix does not follow from itself: a
runner records the next migration of an array it made earlier. `PrefixInv` adds that directories
are created in order, so none is missing before another (`DirectoriesClosed`); that what a runner
saw as applied is still recorded (`SnapshotsHold`: nothing deletes meanwhile); that its array is
sorted and closed downwards, and everything behind its index is recorded (`LoopInv`); and that
during `down` the others are idle and its name is the last one of the table (`DownInv`). Hence the migration
about to be recorded is greater than all recorded ones or already among them, and everything
before it is recorded: it is the next one. `SuccessIsComplete` follows from the same invariant at the end of the
loop. For `DivergenceBounded` the migrations that a command is working on are taken apart (`InFlight`): of
the others, `Damaged`, no more are in disagreement than there were faults (`DamageInv`). `SchemaInv` says that
between its two queries a command knows what the first one did; each step then adds to `Damaged` only
what a fault pays for. That the runners are finitely many is assumed, because sets are counted.

**State tokens.** Assumption: the name `Earlier` is not a request's. The property itself is not
inductive, because it does not say that a consumed token stays away. `TokenInv` adds that nobody
who is past `consume` carries a token that is in the table (`ConsumedStaysConsumed`), and what
keeps `Store` from putting one back: a callback's token comes from a request that has been
answered with a redirect (`TokensWereGiven`), and an answered request takes no further step
(`AnswersAreLast`). `CallbackPlaces` keeps callbacks on their own path, so that no step of another handler
leads past `consume`. Most of the 27 steps of a handler only move the request or answer it, and
follow from `GotoKeeps` and `ReplyKeeps`; `Store`, `Consume`, `Arrive` and `Killed` have proofs of their own.

**Accounts.** One invariant, `AccountsInv`, carries the other properties. For each request it says which handler a
place belongs to (`RouteHolds`), what the request was given (`AskHolds`), whose user it has found and why
it is he (`UserHolds`), and that the row a letter speaks of exists before the letter (`RowHolds`). For the tables it
says that logins are unique, that a user inserted by one registration is no other's (`OwnersApart`),
that connections of GitHub accounts are right, that sessions belong to requests that were answered, and where
reset tokens come from. What one request knows survives the steps of the others because of
`TablesGrow`: users are only added and never change login or type, rows are only marked, letters only delivered.
So each of the 27 steps needs a proof about its own request and its own table (`StepFacts`). The attempt
to prove `UsersSound` first showed that an earlier form of it was false: see the finding about GitHub users with a
password; `HashesHold` is the part of the invariant that this case needs.

**Requests.** Assumptions: `None` is no request, placements map requests to threads. Neither
memory property is inductive: that an allocation is in one's own arena depends on the thread's
pointer, that on nobody else of the thread being inside a handler, and that the arena is live on
the context. `MemInv` adds what holds at each place (`ContextHolds`: a handler has a context, and a
context has a live arena), that a thread is in one handler (`OneAtATime`), and that the pointer of a
thread in a handler is that handler's (`ArenaIsMine`). It says nothing about the pointer of a
thread outside handlers, which completion clears and the next call sets. Three lemmas cover most steps:
inside a handler (`InsideKeeps`), beginning a call (`CallKeeps`), completion (`CompletedKeeps`).
For pipelines, `HandedOn` says that between two steps the current value is the latest result; a step
that is executed therefore saw a result that does not stop it. `RestKeeps` covers every
step that only begins a pipeline anew or leaves it.

The other properties of requests rest on `RequestInv`, one invariant for each request (`OneHolds`): what its body may
hold (`BodyHolds`), that its route is the one `findRoute` finds for its url (`RouteHolds`), and how far its
pipeline is (`PipelineHolds`: what was validated when it began, and that without an error as many steps were
executed as the counter says). A step changes one request only (`MovesOnly`), so the others keep theirs
(`SameKeeps`). Assumptions about the site: rules and routes are well formed, the check of every rule is defined
(`IsRules`: a type, no range on a text), each slot is in the table, values are texts, numbers or neither.

That the route is right is a fact about operators: for every url and method (`RouteIsRight`). The loop over the
table finds the least slot and in it the greatest index (`FirstOfIsFirst`, from the least element of a set of
numbers, which exists because `<` is well-founded), `parseRouteParams` accepts what fits (`MatchesIffFits`) and its
parameters are read off the url (`MatchReadsParams`); no property of the hash functions is used but that equal
routes have equal slots. That an accepted number obeys its rule (`AcceptedIsObeyed`) needs powers of two for any
width: `2^n` is the number of subsets of `1..n`, which gives that it doubles and grows (`PowerDoubles`,
`PowerGrows`), so `atoi` keeps what an `int` can hold (`AtoiKeepsInts`); rounding moves a number by at most half
(`RoundedIsNear`).

**Parser.** Assumptions: the main file is no path of an include, bounds are natural numbers. That braces match
is a statement about the tokens that were read: the parser has as many blocks open as braces, and accepts at the
brace that closes the site. It does not say that what follows is balanced, for nobody reads it. The stack's
elements are known by the tables, so `Tables` (every table maps keywords to goals) carries the type
invariant. `BracesMatch` compares a counter of the lexer with the number of frames on the stack:
the cardinality of `Framed` under a push and a pop are `PushShape` and `PopShape`, and `BraceInv` adds
at which goals a frame's brace is not read yet. For `NothingLost` it must be known that between
includes all lists are consecutive numbers (`ListInv`): those of the included file are appended
behind what the includer has.

**Sessions.** Assumptions: names are different, as are the places a login may lead to. `ReadIsCurrent` is
the heart of `StoreInv`: what an update has read is what the scripts were told, except for the keys that were
set since and those that were already torn. `PathInv` says, without faults and crossings, that the
anonymous session in the jar is the one that was turned away last, or none was; that a request on its way
with an anonymous session has the same one; and that the path kept with a state token is what its
callback should lead to.

**Only model-checked.** Liveness (`DbStopCompletes`, `PlainQueriesRecover`, `RetryingHeals`,
`EditsAreServed`, `EveryRequestEnds`, `AlwaysReads`, the fairness in `ImplementsLifecycle`) stays with TLC:
it needs fairness and ENABLED, which the prover does not handle. Every invariant and every action property of the
passing runs is a theorem. What TLC adds to those is that the states they speak of occur: the mutants of the
runs violate each of them.

## Findings

Runs that TLC must find violated:

1. `query_stale`: `prepareSqlStatement` looks a statement up by its `PGconn` pointer, and
   `PQreset` opens a new session behind the same pointer. After a lost session every statement
   that was cached for that connection fails until the next reload (db.c:69, db.h:26).
2. `arena_shared`: request threads allocate from the server's arena without a lock (arena.c:41).
3. `request_validates`: the README lists the validation of fields before the pipeline, but
   `executeRouteValidation` looks at an API's fields only if the body is JSON and at a page's only if it
   is a plain form; any other body is taken as valid (handler.c:616, README.md:238).

Observed while modelling, without a run:

- *Reload.* After a parse error nothing is served, though the message is "Keeping previous
  configuration" (website.c:47): the old server was stopped first; the next text that parses is
  served (`EditsAreServed`). `reloadWebsite` announces success though `startServer` returned NULL
  (website.c:43); `stopServer` reads `daemon` of a context whose start failed before the field was
  written (server.c:114, action `StopCrashes`). Edits within a second, or of an include during a
  reload, are missed (the reason for `Apart` and `Quiet`); includes of a configuration that failed
  to load are not watched. A Lua script that does not compile ends the process (server.c:67).
  `cleanupJQCache` has no effect (routing.c:320); jq programs that do not compile are compiled again
  by every request.
- *Parser.* `range` in a `validate` block as in docs/validation.md:37 and docs/syntax.md:107 is not
  accepted where they show it. "Cannot have both redirect and template" (parser.c:847) is only
  noticed in one order. Header items after the first declaration are errors, and so is an include
  in an included file; a stray `}` ends an included file without a word, and the declarations behind it are
  dropped (parser.c:1169). `website { } }` is accepted, as is any text behind the brace that closes the site:
  nothing looks for the end of the text (parser.c:1463). So `BracesMatch` and `NothingLost` speak of what was
  read. Settings (`auth`, `email`)
  of an included file are dropped (include.c:91). Incomplete blocks are accepted, such as a page without
  a route. `script { name "x" }` without code makes the start turn in place (lua.c:594).
- *Texts.* When a request's arena is full, the rest of a text is left out without a word
  (stringbuilder.c:63).
- *Sessions.* A NULL return path is read as "", so a usual login is answered with an empty Location
  instead of the "Default path" (auth.c:374); a guarded page that is visited before the browser has an
  anonymous session is not remembered (lua.c:877). `setStore` returns true for an update that failed
  with an error result, though the comment says "Return false if update failed" (lua.c:857), and after a
  failed SELECT it overwrites the row with the new key alone. A failed INSERT leaves a cookie without a
  row for a day (mustache.c:160).
- *Validation.* `required` means "present and non-empty" in docs/validation.md:88; an empty text passes, because
  only NULL is refused (validation.c:209). `pattern` (docs/validation.md:26 and :96), `enum` and
  `default` with a string are passed over without a word (parser.c:555-586), so no pattern is ever compared; those
  with a number (`minLength`, `maxLength`, `min`, `max`, `multipleOf`, docs/validation.md:94-105) are errors of the
  parser (parser.c:587). A range on a text is accepted, and its two integers are then used as the pointer to a pattern
  (validation.c:264, ast.h:88-96). A field without a type reaches `strcmp(NULL, ...)` (validation.c:216).
  A number that is wider than `int` wraps before it is compared (validation.c:279); JSON
  numbers are rounded before (validation.c:323). A range or a length from 0 to 0 is no rule.
- *Migrations.* `migrate up` refuses SQL with comments, among them its own template (db.c:290). A killed
  `migrate up` leaves a migration in effect that `status` calls pending (migration.c:314, the reason for
  `DivergenceBounded`). `create` takes names with `--` or an apostrophe (migration.c:542), but they can never be
  recorded (migration.c:308, db.c:290): the SQL is committed, the command fails, and so does each repetition.
- *Accounts.* The UPDATE of a verification that failed with an error result is announced as success
  (auth.c:691, auth.webdsl:240); `AnswersAreTrue` excepts it. A GitHub user whose credentials could not be
  stored gets a session, but at the next login the user is not found by identity and cannot be
  inserted either (github.c:351). A reset form sent twice at once sets the password twice (auth.c:863).
  A registration whose letter cannot be sent fails after the user has been created (auth.c:566). A user who came by GitHub
  has no password, but may ask for a reset link if its login is an address that receives mail, because forgot does
  not ask for the type (auth.c:781), and can then log in by password: `SessionsAreEarned` allows for it.
- *Requests.* A pipeline's redirect that is no string gets no response, so MHD repeats the call, and
  the pipeline, until the timeout (handler.c:663). An OPTIONS request runs the
  pipeline of its API, but is answered with 200 also if a step failed (`Told` excepts it). Bodies of PUT and PATCH are not passed to the
  pipeline (handler.c:447). A form value that spans two network reads becomes several entries of one name
  (handler.c:245). A GET or DELETE with a body runs its pipeline, but MHD refuses the response. A page
  with `redirect` redirects even if its form has errors (mustache.c:196). A JSON field that is neither
  text nor number counts as missing, so an optional one is not checked (validation.c:316). A
  temporary file that could be made but not opened is never removed (handler.c:90).

## Not modelled

- Text: HTML, CSS, SQL and JSON as characters, logging, the layout of messages.
- `website_json.c`, `utils.c`, `generated_scripts.c`: conversions without state.
- Vendored code under `deps/`, and libraries (libpq, libmicrohttpd, Lua, jansson, libjq): they
  appear as environment actions, as the code uses them.
- The status command of migrations: it prints a comparison of two variables and changes nothing.
- Running out of memory: the code checks some allocations and not others; an arena that is
  full is modelled in `Arena` and `StringBuilder`, the reaction of other callers is not.
- Numbers of statuses: an error may bring its own `statusCode` (api.c:77); in `Request` all of them are 400. A
  pipeline's result is NULL only when memory runs out, so the 500 for it (api.c:63) is left out.
- `SameSite` of cookies: the requests of `Sessions` come from the site's own pages, where Strict (auth.c:371,
  mustache.c:182) sends them. A callback comes from GitHub and needs no cookie. What a page sees that another
  site leads to is left out.
- Undefined behaviour of the fields that `IsDefined` excludes.
- Characters: what a regular expression of a format matches (`Validation` takes it as given), how the
  lexer cuts a text into tokens (`Parser` begins with tokens), the evaluation of jq, Lua and Mustache.

## Plan

What is modelled so far covers the program's own state. What is left, in this order:

1. Proofs: the lemmas about capacities, widths and sequences in forms that the other components can share;
   stronger promises where the invariants proved allow them, such as what a run of `up` leaves alone.
2. The composition of `Request` with `Database`: SQL steps that lease a connection, so that the pool's
   bound meets the pipelines of eight threads.
3. The formats of `validation.c` and the lexer's scanning of numbers and strings as functions on
   sequences of characters, against reference definitions.
