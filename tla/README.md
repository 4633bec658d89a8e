# vUbercool in TLA+

A verification project for vUbercool, a web server with an embedded DNS server
for a very large number of virtual hosts. The modules model the program's own
logic; TLC checks them on small instances, and TLAPS proves most of the safety
properties, and that sessions and the site table implement their abstract
specifications, for every instance.

## 1. The system

`main.cpp` starts a pool of IO threads ("pipelines", one `io_service` and one
thread each, from the external library warlib), a `StatisticsManager`, a
`VhostManager`, an `HttpDaemon` and a `DnsDaemon`, and sleeps until a signal ends
the pool. Everything else happens in the pipelines, as tasks, timers and
Boost.Asio coroutines. A pipeline runs one handler at a time, and a coroutine gives
the thread away only where it waits for a socket, so the concurrency is that of
suspended coroutines and timers in one thread, and of several threads that share
little: the key counter, the statistics, the sites.

| Component | State | Operations | Talks to | What is hard | What makes it correct |
|---|---|---|---|---|---|
| Connection manager (`HttpDaemon.cpp`, `ConnectionMgr`) | `connections_` and `dead_connections_` per pipeline, deadlines, sockets, the key counter, the housekeeping timer | accept, `OnNewConnection`, `CreateConnection`, `Kill`, `Remove`, `SetEndOfLife`, housekeeping | owns the sessions, calls statistics | a kill while the coroutine is suspended; ending after a kill; the limit; deadlines; the width of keys | no use after free, no leak, no lost wake-up, the limit holds, who was answered in time is kept, nobody waits for ever |
| HTTP session (`Connection::ProcessRequests`, `CurrentReply`) | request buffer, current request and reply, socket | read, parse, dispatch to a host, reply, move the rest of the buffer | parser, virtual hosts, manager | packets and requests have different borders; pipelining; the full buffer; state left by the previous request | replies match requests one by one and in order; progress |
| HTTP parser (`HttpRequestParser.h`, `ParseHttpRequest.cpp`) | one lexer, grammar and `req_` per thread | `Parse` | session | what an earlier request, of any connection of the thread, has left in `req_` | a request is read as if it were the first one |
| Statistics (`Statistics.h`, `StatisticsManager.cpp`) | counters per thread and daemon, totals | count, `UpdateStats`, `AddStat`, `GetStats` | both daemons, pipeline 0 | copy and reset across threads | every event counted exactly once |
| DNS zone tree (`Zone.h`) | the tree from the configuration | `Lookup`, `GetDomainName`, `GetSoaZone` | DNS daemon | wildcards, depth | the best match wins; searches end |
| DNS daemon (`DnsDaemon.cpp`) | the reply under construction: buffer, counters, zone lists, flags | receive, parse, answer, authority, additional, truncate, error reply, send | zone tree, messages, statistics | truncation and errors halfway, glue, authority, I/O errors | counts and size agree with the content, glue is complete, authority is neither over- nor understated |
| DNS messages (`Message.h`) | the parser's position and labels; label offsets in the reply | parse labels, write records with name compression, revert | DNS daemon | bytes that anybody sends; pointers; names that share endings | only what is in the datagram is accepted, parsing ends, a written name reads back as the same name |
| Virtual hosts (`VhostManager.cpp`, `Hosts.h`, `hosts/`) | site table in a mapped file, mutexes, hit counters | map or create the file, `GetHost`, `ProcessRequest`, `IncHitCount` | session | counters shared by threads, crashes and restarts, site numbers from the client | the right site, no lost hit, no access outside of the table |
| Daemon process (`main.cpp`) | the parts, the pool | start, failed start, signal, shutdown | all | threads run while parts come and go; coroutines unwound by the wrong thread; handlers that never return | no access to what is gone; the process ends |

## 2. Modules

| Module | Models | Role |
|---|---|---|
| `ConnectionMgr` | `ConnectionMgr`, the life cycle of `Connection`, accepting | component |
| `Hosts` | `GetHost`, `DefaultHost`, `StaticPageHost` | operators, used by sessions and sites |
| `RequestGrammar` | `HeaderLexer`, `RequestGrammar`, `HttpRequestParser::Parse` | operators |
| `HttpRequests` | what a request deserves, from grammar and hosts | shared by the next two |
| `HttpService` | what a client may rely on | abstract specification |
| `HttpSession` | `ProcessRequests`, `ParseRequest`, `CurrentReply` | component, implements `HttpService` |
| `PageCounters` | what the site table promises | abstract specification |
| `VhostManager` | `VectorVhostManager`, its mapped file, `IncHitCount` | component, implements `PageCounters` |
| `Statistics` | counters, housekeeping hand-over, manager | component |
| `Zones` | `Zone`, `ZoneMgr::Lookup`, `GetSoaZone` | operators |
| `DnsDaemon` | the endpoint's coroutine, query processing | component |
| `LabelHeader` | `LabelHeader`, `Question`: the bytes of a question | component |
| `NameCompression` | `AnswerBase` and the `Rdata` classes: names in a reply | operators |
| `DnsMessages` | a question parsed, copied, and records behind it | composes the last two |
| `Daemon` | `main.cpp` and what the parts run on the threads | composition of all parts by their life times |
| `Sums`, `SumTheorems` | | sums over threads, induction up to a number |
| `ConnectionMgrProofs`, `HttpSessionProofs`, `VhostManagerProofs`, `StatisticsProofs`, `DnsDaemonProofs`, `DnsMessagesProofs`, `DaemonProofs` | | theorems about the components, see section 4 |
| `MCHttpSession`, `MCVhostManager`, `MCDnsDaemon`, `MCDnsMessages` | | requests, files, zone trees, records for TLC |

Definitions marked "Mutant" are wrong versions of the definition that follows
them. No specification uses them; each shows, put in the place of the right one,
that a property is able to fail.

Conventions common to all modules: an action is everything a thread does between
two suspension points (in `VhostManager`, between two accesses to what threads
share); a value that the code keeps in a local variable across a suspension is a
variable; `pc` says where a coroutine or a thread is. `WAR_ASSERT` is taken
to be compiled out: several of its arguments do not compile
(`HttpDaemon.cpp:292` calls `find` on a deque, line 609 names an undeclared
variable), and the pair in `Message.h:418-419` excludes every record, so the
program can only be built without them.

### ConnectionMgr

`connections_` and `dead_connections_` are sets of keys per pipeline: the deque
only grows at its back and keys only grow, so `begin()` is the smallest key. `pc[c]`
is `spawned`, `reading`, `replying`, `rejecting` or `done`, `io[c]` is the state of
the operation the coroutine waits for. `expire[c]` is the deadline relative to
now. `Lookup` converts its argument to an `int` like the code does; `IntMod` and
`KeyMod` stand for 2^32 and 2^64.

`OnNewConnection` includes `CreateConnection` and the kill of the oldest entry;
`EndSession` is the destructor of `cleanup` (close, then `Remove` from the first
or the second list, which frees the `Connection`); `HttpHousekeeping` collects and
kills what expired and reschedules itself. What a request says is left open:
`HandleRequest` chooses between an answer, a 400, more data, or an exception, since
the manager cannot tell. `idle` and `answered` are history variables: the time since
a connection was created or answered, and whether it ever was answered. An accept
that fails, or whose `remote_endpoint()` throws, leaves nothing behind that a
property could see, and is left out.

### Hosts and RequestGrammar

A Host: header is the name and its first label, which is a number or not. `GetHost`
keeps the order of the code: a number before the first dot, then the aliases, the
redirects, and the check against the number of sites. Site numbers have 32 bits and
a sign is accepted by `lexical_cast` (`Castable`, `%`). A site's template is one of
the two that exist; the code takes five bits from the mapped file as an index
without a check, and what other values would do is not modelled.

A request is given as the tokens that `HeaderLexer` makes of it: those of the first
line, and for every header the tokens of its value in the lexer state that the
header's name selects. `Accepted` are the rules of the grammar, `Parse` are its
semantic actions, applied to what the parser's `req_` holds before. How Boost.Spirit
executes lexer and rules is external.

### HttpSession and HttpService

The bytes the client sends are a sequence of requests laid end to end; the buffer
is a window (`first`, `request_bytes`) on it, and a packet is any number of bytes
more. The parser is called with what is in the buffer; its `req_` may hold anything
that a request of another connection of the thread has left there
(`Leftovers`). The host is looked up with `Hosts`, and exceptions become replies as
in the code's `catch` clauses. A reply is its version, code, encoding, body and
whether the connection is closed behind it; a page carries the number of its
request, so a reply that belongs to another request would be seen.

`HttpService` is written from what the documentation and the comments promise. It has
four actions: serve the next request, reject it, lose the connection (the client goes
away, or the manager kills it), hang up. A server that still has its connection may
hang up only on a request for an unknown host. The version of a 400, and whether
it has a text, are open. Three promises are not kept by the code: a request without
a host gets the default host (`"no_host"`), one for a host that has moved is redirected
(`"moved"`), and one of exactly the maximum size is accepted (`"exact_fit"`). The constant
`Tolerated` says which of them are given up: all three in the passing run and in
the theorem, none in the run `session_promises`.

`HttpSession!ImplementsService` states that the session implements it, with
`requests <- stream`, and `open` and `lost` computed from `pc`, `reply` and `is_open`.

### VhostManager and PageCounters

The file is a sequence of words; a word is the counter of 23 bits (`HitMod`) and the
template of the site. The constructor takes two steps, since a crash between
truncating the file and writing its last byte leaves an empty file. `IncHitCount`
takes three: lock one of the mutexes (site number modulo their number), load the
word, store it and unlock. `Crash` may come at any moment; words that were
stored stay in the file (the loss of the whole machine is left out, as the code
never calls for a flush).

`PageCounters` has a hit as a single step that increments one counter and puts the
new value in the page. The mapping of `ImplementsCounters` is direct:
`table <- file.words`, `serving <- process = "up"`.

### Statistics

`counted` is a history variable: every event, when it happens. An event is then in
a thread's counters, in a queued copy, or in the totals. `AddStat` from pipeline 0
itself may run its task at once (`Dispatch`), from elsewhere it is queued. `GetStats`
is always queued; it has no caller, and one on pipeline 0 would only read earlier.

### Zones and DnsDaemon

A zone is a number, a name a sequence of labels. `Passed` descends with the labels
from the back. `GetSoaZone` returns `Spins` where the code's loop does not end, and
the endpoint is then `spinning` without a further step.

The size of a record depends on compression, so it is any of `RecordSizes`: each
`Store` may fit or not. A question carries the verdict of the label parser. Each
turn of the first pass reads the first question, because `bytes_left` is not
reduced. The header of a reply starts as a copy of the query's: an error reply keeps
its AA and TC, any other reply keeps its code, as in the code.

### LabelHeader, NameCompression and DnsMessages

These model the two things that `DnsDaemon` leaves open. `LabelHeader` parses bytes:
one action for each branch of its loop (root, normal label, pointer, invalid
length), on a datagram followed by the one byte that the code reads before it knows
that it is inside. Bytes are scaled down: `ByteMod` values instead of 256, with the
two highest bits telling lengths from pointers as on the wire. A pointer is read in
the byte order of the host and compared with the start of the label's text, as the
code does.

In `NameCompression` the reply is a sequence of cells: a label, an end mark, a
pointer, or other data. `Match` and `Usable` are the result of `ReverseCompare`,
the count of fragments that has passed zero included; `AddLabelForCompression` and
`Revert` keep `label_start_points_` as the code does: what is taken back stays in
the list.

`DnsMessages` parses a question, copies it and writes any records behind it. A
history of the names that were meant is kept in `reply.names`.

### Daemon

The parts are `pool`, `stats`, `vhosts`, `http` and `dns`. Each worker has a set of
handlers, known by their kind: tasks that are posted, and coroutines by where they are
suspended. Running one uses the parts that its code refers to (`Uses`), leaves
something of itself (`Becomes`) and may give work to another thread (`HandOver`). A
use of a part that is not there is recorded in `dangling`, with the thread that makes
it. A query for a deep name may keep its thread for ever (`GetSoaZoneSpins`, `stuck`;
the run `dns_deep` shows how). A coroutine that is still suspended when its thread's
pipeline is closed is unwound, by the thread itself (`UnwindOnWorker`) or later by
`~Threadpool` on the main thread (`UnwindOnMain`); `Cleanup` is what the destructor of
`cleanup` touches then, which depends on the thread that runs it. The other modules
are the inside of these handlers; here they meet only through the life times of what
they share.

## 3. Runs

Passing runs:

| Run | Instance | Shows |
|---|---|---|
| `connections` | 1 pipeline, 2 connections, limit 1, timeout 4 s | ownership, no leak, limit, wake-ups, deadlines of those who were answered; stalled clients are dropped, no wait is endless, the dead are freed |
| `session` | streams of up to 3 of 14 kinds of requests, buffer of 4 bytes, 2 sites | refinement of `HttpService` without three of its promises, no read into a full buffer, no over-consumption, every request is answered |
| `vhosts` | 2 threads, 2 or 3 sites, 2 mutexes, counters modulo 3 | refinement of `PageCounters` over crashes, restarts and changes of the configuration; indices stay in the mapping; mutexes are given back |
| `statistics` | 2 pipelines | conservation of events, monotonic reports, the totals catch up |
| `dns` | a tree of 9 zones, 13 names, all types, malformed queries | consistency of replies, see below; every query ends |
| `messages` | all datagrams of up to 7 bytes from 4 values, then up to 3 of 27 records | the label parser accepts only plain names inside of the datagram and ends; compressed names read back |
| `lifecycle` | 2 workers, log interval set | parts exist when threads run or unwind what refers to them, the process ends unless a thread is lost |

The DNS invariants: `CountsMatch` (the counts in the header are those of the
records, also after truncation and errors), `ReplyFits`, `GlueComplete` (a reply
that is not truncated has the addresses of all servers that it names and that we know
by that name, under that name; those that only a wildcard matches are the subject of
`messages_wildcard`),
`BestMatchAnswers` (a full match beats a wildcard, level by level, against a
declarative definition of covering and beating), `NameErrorOnlyInOwnZones`,
`AaIsEarned` (to a query for one name, asked in one or several questions, the flag is
set exactly if the nearest SOA above it is ours; with several names it is not,
see `dns_questions`), and in `TypeOK` that no null pointer is in the zone lists.

The invariants of messages: `QuestionInDatagram` (what lies behind the datagram
decides nothing), `AcceptedIsPlain` (the labels of an accepted question fill exactly
the bytes that are copied), `ParseBounded` (also for pointers that lead in a
circle), `PointersLeadBack` and `NamesReadBack` (a reader who follows the pointers
ends, and has the name that was meant), `RepeatsAreShort` (compression takes place),
`OffsetsInReply` (`Revert` leaves stale offsets behind, but nothing is written after
it).

Bounds, and why they are enough.

- `connections`: two connections with a limit of one are the smallest case in which
  a connection is killed by a newcomer while it reads, replies or ends. Pipelines
  share only the key counter, so TLC runs one. For the safety properties the
  theorems of section 4 are about any number of pipelines and connections. A lifetime
  of 3 seconds, an interval of 2 and a timeout of 4 never coincide for long, so
  housekeeping meets connections before, at and after their deadline, and those that were
  answered live longer than new ones. `connections_timeout` has the 10 seconds of the
  shipped `http.conf`.
- `session`: a buffer of four bytes holds several small requests, exactly one large
  one, and not quite another: a request of 4 bytes is taken only if its last two
  bytes arrive together, one of 5 never is. The kinds reach each reply code,
  each way to name a site and to miss it, and each way
  in which the grammar refuses. `UintMod` is 8, so that -7 and 8 are the edges of
  `lexical_cast`.
- `vhosts`: three sites on two mutexes, so that different sites share one; the old
  file's counters are one below their wrap-around; two and three sites make a file
  of the wrong size.
- `messages`: with `ByteMod` 8 a label has at most one character, 6 and 7 are
  pointers; the bytes are an end, a length that is also a character, a character
  that is no length, a pointer. A question of seven bytes has up to two labels with a
  pointer between or behind them; `MaxName` 6 lets a circle of pointers turn three
  times before it ends. A reply of 14 cells has no room for three large records, so
  `Revert` takes place.
- `dns`: a reply has room for 7 units while an ANY question may need between 6 and
  12, so truncation strikes in each section.
- `statistics`: `MaxTasks` bounds the queue; a hand-over waits when it is full.
- `lifecycle`: two workers, so that there is one which is not that of pipeline 0; a
  handler of a kind stands for all of its kind on its thread, so the number of
  connections is not bounded.

Fairness. `ConnectionMgr`: the clock, the housekeeping timer and coroutines
that are ready (an IO thread keeps running its handlers); nothing is assumed of
clients. `HttpSession`: the thread, and for this property a client that sends what
it has and takes replies, as `EveryRequestAnswered` is a promise to such a client.
`VhostManager`: a thread that can go on does, weakly; which of two waiting threads
gets a mutex is open, so the property is about mutexes and not about single
threads. `Statistics`: pipeline 0 and the timers (strongly, since the bound on the
queue may disable them for a while). `DnsDaemon`: the thread and sending; not the
arrival of queries. `Daemon`: the main thread, and the end of a thread whose pool is
closed and whose handler returns. That of a DNS query may not (`stuck`), and
`ProcessEnds` says no more than that the process ends or has such a thread; all
other handlers do a bounded amount of work between two suspensions. Nothing is
assumed of signals, clients and timers.

Deadlock checking is off where a behaviour ends: a session that is over, an endpoint
that has ended, a question that was refused or a reply that is complete, a process
that has exited.

Violation runs, each a place where the program does other than a comment, a
document or an assertion says (details in `PROJECT.json`, "findings"):

| Run | Property | What happens |
|---|---|---|
| `connections_timeout` | `NotDroppedEarly` | with a timeout of 10 s a new connection is dropped after 3 s |
| `session_promises` | `ImplementsService` | a request for a host that has moved is hung up on; with `Tolerated = {"moved", "exact_fit"}` or `{"moved", "no_host"}` the run shows the same of a request without a host, and a 400 for a request that fills the buffer |
| `dns_deep` | `EveryQueryFinishes` | `GetSoaZone` never returns for a deep name |
| `dns_questions` | `EachQuestionCopied` | the first question is processed again instead of the second; so the AA flag, too, is about the first only |
| `messages_wildcard` | `NamesReadBack` | a record named after a wildcard zone starts with an empty label and reads as the root; so a server that only a wildcard matches does not get its address |

Observations made while modelling that have no run of their own (the models
behave this way):

- Keys beyond 2^31 are not found again, since `Lookup` takes an `int`: entries leak.
  To see it, set `IntMod = 2` in `MCConnectionMgr.cfg`; `EntriesHaveSessions` fails,
  and `UnremovedAreCut` (nothing else leaks) holds.
- `Statistics::operator +=` adds `timeout_dropped_connections` to itself
  (`Statistics.h:43`), so its total stays 0. Only the log would show it.
- A `RequestStats` that is unwound by the main thread at the end counts in the
  statistics of the main thread, which nobody reads (`Statistics.h:98`; suspended at
  `HttpDaemon.cpp:572`, `:630` or `DnsDaemon.cpp:144`).
- An error reply has the AA and TC flags of the query, any other reply its code
  (`DnsDaemon.cpp:552-565`, `:380-390`).
- A 400 is sent with what the previous request of the connection left: after a HEAD
  it has no body, and its version is that of the previous request, or `UNKNOWN`.
- A number as first label of a host hides aliases and redirects. The lookup of aliases
  is case-sensitive.
- `StaticPageHost` refuses every ordinary uri: `if (page.find(badbad))` is true
  unless the path begins with "..".
- A header with an empty value, `Accept-Encoding: *`, `gzip;q=1` and
  `gzip , deflate` are answered with 400.
- If the start fails, the parts are destroyed while the threads still run handlers
  that refer to them (`main.cpp:219`). To see it, replace `failed /\ use.by = "worker"`
  by `FALSE` in `ThreadsUseLiveParts`. No comment or document speaks of this case.
- A pointer in a question is read in the byte order of the host and compared with
  the start of a label's text instead of its length byte (`Message.h:271`, `:308`);
  questions with pointers are refused.
- The suffix of a name that is longer than the one to write is not reused.
- A query with QDCOUNT 0 gets a reply that is only a header, which the assertion at
  `DnsDaemon.cpp:381` excludes.
- `DnsDaemon.cpp:150` sets the outcome of a query to `SUCESS` also after an error
  reply, so `BAD` is never counted for those.
- `async_receive_from` and `async_send_to` (`DnsDaemon.cpp:114`, `:144`) throw on an
  error, so the `else { // error` branch at line 154 is dead and the endpoint's
  coroutine ends (`IoError`, `LoopEnds`).
- The numbers of a SOA are read from the key `rname` (`DnsDaemon.cpp:593-597`).
- An unknown name below a leaf of a zone we own is ignored instead of denied
  (`Zone.h:173`; a zone without an `authorative` entry gets false at
  `DnsDaemon.cpp:587`).

## 4. Proofs

TLAPS checks the proofs. Each component has a module with its inductive invariant, a
lemma for each action, and the theorems. The invariants were checked with TLC on the
instances of section 3 before they were proved, except that of the reply: it says
that sequences of labels exist, which TLC cannot enumerate.

| Module | Theorem | States |
|---|---|---|
| `ConnectionMgrProofs` | `TypeCorrect` | `TypeOK` |
| | `NoUseAfterFree` | `SessionOwnsConnection` |
| | `LeaksAreCutKeys` | `UnremovedAreCut` |
| | `NoLeak` | `EntriesHaveSessions`, of keys that fit an `int` |
| | `DeadSocketsClosed` | `DeadAreClosed` |
| | `NoLostWakeUp` | `ClosedSocketWakes` |
| | `ConnectionLimit` | `OpenSocketBound` |
| | `DeadlineRespected` | `AnswerKeepsAlive` (action property) |
| `HttpSessionProofs` | `TypeCorrect` | `TypeOK` |
| | `ReadsHaveRoom` | `RoomToRead` |
| | `TakesWholeRequests` | `ConsumesWhatItHas` |
| | `SessionImplementsService` | `ImplementsService` (refinement), without the promises of `session_promises` |
| `VhostManagerProofs` | `TypeCorrect` | `TypeOK` |
| | `IndexInMapping` | `SiteInMapping` |
| | `TableImplementsCounters` | `ImplementsCounters` (refinement) |
| `StatisticsProofs` | `NoEventLost` | `Conserved` |
| | `ReportsNeverShrink` | `ReportsGrow` (action property) |
| `DnsDaemonProofs` | `TypeCorrect` | `TypeOK` |
| | `HeaderCountsRecords` | `CountsMatch` |
| | `RepliesFit` | `ReplyFits` |
| | `GlueIsComplete` | `GlueComplete` |
| | `AnswersAreBest` | `BestMatchAnswers` |
| | `DenialsAreOurs` | `NameErrorOnlyInOwnZones` |
| | `FlagIsEarned` | `AaIsEarned` |
| `DnsMessagesProofs` | `QuestionIsInDatagram` | `QuestionInDatagram` |
| | `AcceptedNameIsPlain` | `AcceptedIsPlain` |
| | `ParserIsBounded` | `ParseBounded` |
| | `PointersAreSafe` | `PointersLeadBack` |
| | `NamesAreMeant` | `NamesReadBack` |
| | `RepeatsArePointers` | `RepeatsAreShort` |
| | `OffsetsAreLabels` | `OffsetsInReply` |
| `DaemonProofs` | `PartsOutliveTheirUse` | `ThreadsUseLiveParts` |

What each invariant adds to the properties, and why.

- **Connection manager**, for every set of pipelines, number of connections, limit
  and timeout. `TypeCorrect` and `LeaksAreCutKeys` are about keys of any size; the
  other theorems assume `KeysFitInt` (all keys are below half of `IntMod`; without it
  `EntriesHaveSessions` is false, see the first observation). `IInv` adds: an open
  socket belongs to a live session (`OpenIsActive`; otherwise a closed session could
  hold a socket that the bound does not see); keys above `next_key` are unused
  (`UsedKeys`; a new entry is in no list); a waiting coroutine has an operation
  (`WaitersHaveIo`; so closing its socket gives it a result); and `connections_`
  itself is within the limit (`SizeBound`; open sockets are those of live entries, as
  dead ones are closed). `LookupFindsOwnEntry` is where `KeysFitInt` enters.
  `OnNewConnection` needs the cardinality argument: one entry more, one entry less.
  `LeaksAreCutKeys` needs none of it: an entry stays on the lists of its own manager,
  and only a key that `Lookup` changes is not removed. `DeadlineRespected` holds for any
  timeout, of connections that were answered: `DeadlinesKept` says that deadline and
  idle time of these add up to the timeout, and no step of another session, of the limit
  or of the clock changes the sum. Of a new connection it is false for any timeout above
  3 s (`connections_timeout`).
- **HTTP session**, for any kinds of requests of positive size, any stream of them,
  any packets, any buffer of two bytes or more. `SessionImplementsService` assumes
  `DeviationsTolerated`: the three promises of section 2 are given up. Between two requests `first` is the
  end of the last one answered and the parser's view of it is still in `current_req_`, from which a
  400 takes its version and whether it has a body (`Reading`, `Replied`); while a reply
  is under way, it is already the one that `HttpService` gives to this request
  (`Replying`, `Rejecting`). The lemma behind it is about `Parse`: whatever
  `req_` held before, it now describes the request, proved header by header. The
  refinement maps every read, and the parsing itself, to a stutter, and a completed
  write to `Serve` or `Reject`.
- **Site table**, for any threads, sites, mutexes and width of the counters.
  A thread between lock and unlock holds its site's mutex (`MutexHeld`), so the word
  it has loaded is still the one in the file when it stores (`LoadedIsCurrent`):
  this makes the three steps of an increment one step of `PageCounters`. A process
  that is not up has no thread in a page (`OnlyUpWorks`), and a file that is missing or
  about to be sized is empty (`EmptyFiles`), as a crash may leave either.
- **Statistics**, for any number of pipelines, events and tasks. Sums over threads and
  queue are `SumTo`, a recursive function; `SumTheorems` has what is needed of it
  (one term changed, one term in front). `ReportsInOrder` says that the results that
  wait in the queue grow towards its end and are between what was reported and the
  totals.
- **DNS daemon**, for any tree in which no zone has two children of the same label
  (the code does not check its configuration for this, and of two such zones only the
  first would be found), any queries and any sizes. Every
  record, stored or yet to be stored, is fine when it is made: an address in the
  answer section is that of the best match, a server that is named is noted for the
  additional section (`Fine`). `Counted` ties the counters to the content, `Asked` the
  questions to the query, `Aa` says that the flag to be is set exactly if all questions
  done so far are about names that we own (`Owned`), and `Whole` that a reply that is not
  cut short has done them all; `Glue` says that an address is in the reply, under the
  name of its zone, or still in the list. `Empty` is what an error reply has left. The operators needed most of the
  work: `Lookup` finds a zone that covers the name and that no covering zone beats
  (`PassedCovers`, `PassedBest`, `LookupIsBest`), a name belongs to one zone
  (`NamesDiffer`), `GetSoaZone` returns the nearest SOA, nothing, or not at all
  (`SoaFacts`), `AddZones` and `FlattenSeq` lose nothing.
- **Label parser**, for any byte size, limits and datagrams. Each turn adds to `size_`
  (`Sized`), which bounds the number of turns. `Circle` is the reason why no accepted
  name has a pointer: behind every label that a pointer may lead to there is a label
  from before the pointer, or the pointer, never the 0 that ends a name.
- **Names in the reply**, for any questions and limits and any records whose names are
  not empty and have no empty label (`PlainRecords`; the records of the run `messages`
  are such, those of `messages_wildcard` are not, and there `NamesReadBack` fails).
  `Chain` walks; `IsChain` says the same without walking, by what is in the buffer
  between one label and the next. Nothing that is written behind a chain changes it
  (`ChainStays`), and the walk finds it (`WalkReadsChain`, by induction over the
  labels). `SearchFacts` is what `SearchForDomainName` promises: nothing, or a place
  from where the rest of the name is spelled, and the whole name if it is known. With
  it `AppendNameFacts` builds the chain of the new name out of the labels that are
  written and the end of an old chain. `Readable` is what a client can rely on, and
  stays after `Revert`; `Ready` is what the next record relies on: every offset that
  is known is that of a label of a chain, and the first label of every name is known.
  `Revert` leaves offsets behind that break `Ready`, which does no harm because
  `Truncated` ends the reply.
- **Daemon**, for any number of workers. A part that a handler refers to, now or
  through what it will leave behind (`Needs`), exists as long as a thread runs
  (`HandlersHaveParts`), also one that is stuck; `Stages` ties the parts to the progress
  of `main`, so that a thread that unwinds its own sessions finds the connection manager,
  and the main thread unwinds only when no thread runs.

The library's induction theorems cannot be applied by the backends, as they have
operator parameters. Induction over data is done by hand instead: `SumTheorems!UpTo`,
which follows from the least number principle, has a set as its parameter. A recursive
function is first shown to exist (`WalkExists`, `PassedExists`, `AddedExists`, ...),
then to obey its equations, and then the equations carry the induction.

Only model-checked:

- liveness (`StalledReadersEnd`, `NoEndlessWait`, `DeadAreReclaimed`,
  `EveryRequestAnswered`, `TotalsCatchUp`, `EveryQueryFinishes`, `MutexGivenBack`,
  `ProcessEnds`): fairness and ENABLED are beyond the prover.

Every invariant, action property and refinement of the passing runs is a theorem, under the
assumptions named above.

## 5. Not modelled

- Reading the command line and the configuration files: it only sets what the
  modules have as constants. This is why the daemon process is "partly" modelled.
- How Boost.Spirit executes the lexer and the rules, Boost.Asio and warlib: external,
  modelled by how the code uses them.
- The bytes that gzip and deflate produce, the text of pages, logging,
  `HttpRequest.cpp` (names for the log).
- The numbers in DNS records (TTL, addresses, SOA times) are one cell of data.
- A crash of the operating system that loses stores to the mapped file.

## 6. Plan

Done: all components with their runs; every safety property, action property and
refinement of a passing run as a theorem (section 4). What is left:

1. Replies with names of wildcard zones: `NamesReadBack` is false for them, but that
   every pointer leads back, to a label or an end, should hold without `PlainRecords`.
2. The part of the liveness properties that is safety: a number that decreases with
   every step of a DNS query or of the shutdown, so that only fairness is left to TLC.
3. `RecordSizes` of `DnsDaemon` as what `WriteRecord` of `NameCompression` can return.
