# brokenhub in TLA+

brokenhub is a two-port hub that breaks traffic on purpose: a daemon forwards
Ethernet frames between two interfaces and drops, corrupts, truncates and slows
them as `/etc/brokenhub.conf` says, and a small web page edits that file. This
directory specifies the program in TLA+, checks it with TLC on small instances,
and proves part of it with TLAPS for every value of the constants.

To check one model: `tlc -config X.cfg M`; to check the proofs:
`tlapm <M>Proofs.tla`. `PROJECT.json` lists the runs with their modules, the lines
of source behind every definition, one mutation for each property that the property
catches, the hazards the properties are for, and the theorems.

## 1. Inventory

| Part | Source | State | Operations |
|---|---|---|---|
| Daemon | `src/src/main.cpp` | flag `reload_config`, two deques, two target times, epoll registrations, `this_tick`, the events of one wait | set-up, reload, arm, wait, write branch, read branch, SIGHUP handler |
| Filter | `src/src/filter.cpp` | `config`, the generator's words | `filter`, `drop_packet`, `corrupt_packet`, `rand_test` |
| Loader | `src/src/config.cpp` | `config` | `load_config`, `read_or_abort`, `percent_to_long` |
| Web page | `src/server.py`, `src/templates/base.html` | none between requests | `index`, `set_config` |
| Init script | `src/initscript` | the pid file | start, stop, reload |
| JSON parser | `parser_UTF8.cpp`, and its copy `parser_UNI.cpp` | a pointer into the text, a list of errors | `parse`, `parsefile`, one function per construct |
| JSON values | `value.cpp` | a tree of raw pointers | setters, `clone`, `addvalue`, `getchild`, `operator[]`, `deletechild`, `clear`, `operator==`, `getstring` |
| Hash table | `maps/sparsehash` | buckets, the empty and the deleted key, counts, thresholds | insert, find, erase, iterate, resize, copy, write, read |
| Text conversion | `convert.cpp` | none | UTF-8 to wide characters and back |

(The last four are under `src/json/libJSONpp/`.) The JSON tests, the makefiles and
the style sheet hold no behaviour of their own.

**How the parts meet.** The page and the daemon share only the file and a signal.
A request reads the file, merges the form into it, truncates the file, writes it
and means to call the init script, which sends SIGHUP. The signal sets a flag that
the daemon's loop tests once a round; the loop then maps the file, walks the
mapping with the parser, and converts five members into machine words, which the
read and write branches use from then on. The kernel delivers frames to two raw
sockets, reports readiness through epoll, and takes frames until a send buffer is
full. In the library the parser builds values, an object keeps its members in a
hash table, and wide text is converted at its border.

**What is hard.**

* *Daemon.* Events are computed by one call and acted on by later ones, while
  frames arrive, buffers fill, links fail and signals come. The write branch takes
  the front of a deque it does not test. The deques have no bound. The pause
  between writes is a product of machine words added to a clock reading taken
  before a wait of any length. Nothing is notified when a pause ends.
  *Correct* means: no event is acted on in vain, each direction keeps its order and
  repeats nothing, pauses are kept and are no longer than configured, deques stay
  short, what comes in goes out, a requested reload happens.
* *Loader.* Conversions between float, long, int and unsigned long at the edges
  of their ranges. *Correct*: shares, rates and counts are what was asked for.
* *Page and file.* Truncate-then-write, no lock, a reader with a shared mapping.
  *Correct*: no setting is lost, the page stays usable, the daemon can always load
  what is left, a form takes effect.
* *JSON values.* Ownership by raw pointers under any sequence of calls.
  *Correct*: one owner for each value, nothing dangling, no leak, independent copies.
* *JSON parsers.* Error recovery, a pointer that must not leave the text, two copies
  edited apart. *Correct*: what was printed is read back, a torn text fails, the text
  is not left, the copies agree.
* *Hash table.* Erasing leaves marks that take up room and that later calls clear,
  and any insertion may rebuild the table. *Correct*: to its caller it is a map.
* *Text conversion.* Sizes counted in one walk, characters written in another.
  *Correct*: what is converted comes back, damaged text does not leave its buffer.

## 2. Modules and the code

### Floats, ConfigLoad, ConfigLoadProofs

The arithmetic of `load_config`, as operators that Hub and ConfigPlane use. The
parser is abstracted to "these members, with these types and numbers". The widths
are constants: `Word` (2^64, also of the signed `aint`), `IntMod` (2^32), `FloatBits`
(24), `DoubleBits` (53), `NsPerS` (10^9), `KiB` (1024), and documents hold multiples of
`1/Den`. `Floats` is rounding to nearest, ties to even, in so many significant bits:
every operation of the loader on a float or a double is the exact one followed by it,
unless it is by a power of two and so exact. A number without a point is read by
`strtol` and stops at the ends of a long (`ReadFixed`), one with a point is rounded to a
double (`ReadFloat`); `getfloat`'s double is stored in a float (`ToFloat`); `UIMAX` has
become 2^64 as a double. A conversion out of range is undefined in C++; `FloatToUlong`
and `FloatToLong` yield any of what usual builds produce. `LoadResults(doc)` is the set
of configurations a load may leave behind, empty when the program aborts.

### Hub, HubProps, PassThrough, HubMC, HubProofs

`Hub` is the daemon between two sockets, a clock, a signal and a file. One step is
one system call, one dispatched event, or one statement that a signal can come
before or after.

| Action | Code (`main.cpp`) |
|---|---|
| `Setup` | sockets, addresses, epoll, handler: 121-139 |
| `LoadConfig`, `ClearFlag`, `SkipReload` | 144-149; the load and the clearing of the flag are two steps |
| `Arm` | `this_tick`, `write_to_a/b`, `listen_write`: 150-156 |
| `EpollSleeps`, `EpollReturns` | `epoll_wait` without a timeout: 158 |
| `HandleWrite` | 163-180: write, pop, pause |
| `HandleRead`, `ReadAborts` | 181-195: read, own-address test, `filter`, `emplace_back` |
| `Signal`, `EarlySignal` | the handler, or the default action before it is installed |
| `Arrive`, `TxDrains`, `LinkDown`, `ClockTicks`, `Edit`, `Start`, `Stop` | kernel, clock, editor, init script |

A frame is its two addresses, its length, whether bytes of it were overwritten, and
a number that only the properties read. `Env` switches behaviours of the
environment on, so that one module serves every run and every theorem: the theorems
hold for any `Env` (three of them for an `Env` without certain members).

`rand()` is any word. `corrupt_packet` has no `return`; with `g++ -O3` control may
never come back, with other builds it does. `NoReturn` says which outcomes are
possible and `stuck` is the state of a hub that hung there.

`PassThrough` is the abstract promise: two directions, each a queue; frames are
accepted at one end and delivered at the other in order; frames of the interface
itself are not forwarded; with `Broken`, frames may also be lost, damaged, shortened
or vanish. `HubProps` instantiates it with the refinement mapping *flight = the
opposite deque followed by what the kernel holds*, *out = the last frame written*,
once with `Broken` and once without.

### ConfigPlane, ConfigPlaneMC, ConfigPlaneProofs

Workers of the page, the file, the init script, and the daemon's loading. Each
worker goes through `ReadAndMerge`, `OpenFile` (truncates), `Dump`,
`CallInitScript` (which fails: `subprocess` is never imported) and may be killed
anywhere. The file is a document, its length, and the file's length: a short dump
over a longer text leaves a tail. The daemon maps the file, then walks the mapping
in two halves, because the mapping is shared: between the halves the text may
change, so the load may see a mixture, refuse, or die of a truncated page. An
empty file cannot be mapped: `mmap` returns `MAP_FAILED`, which `mapfile` takes for
success, and the daemon dies. What is loaded goes through ConfigLoad; documents of
`ByHand` are ones nobody opens the page on, so that a grid of odd numbers meets
the loader without being multiplied by the forms.

### JsonValue, JsonValueMC, JsonValueProofs

The heap of `JSON::value` nodes: `val[n]` is the datatype or the scalar at an address,
`kids[n]` maps indices or names to addresses. Every operation that changes a
value is an action; `Become` is the shared "deletevalue, then new contents" of the
setters. Names and scalars are opaque. Two calls change what the library means to
keep: `operator=` between values, which the class does not declare, so that the
compiler's copies the pointer; and `deletevalue` of the shared `nullval`. The model
makes both steps, records them in `spoiled`, and does not follow the caller further.
Not called in the model, because the code leaves the outcome open: adding an object
to itself, cloning a value into itself or into or from one below it, negative
indices, pointers the caller still owns.

`operator==` is the one call that takes several steps, because it makes values on its
way: `comparison` holds the calls of it that have not returned, each with the elements
or members left (any member may come next: the order is that of a hash map).
`Enters` is its beginning, where an undefined operand becomes null and the two are
found different or gone into; `GoOn` is one round of its loop, which calls it again
on an element, or on the member of the other object with the operands changed over,
after `operator[]` has created that member if it was missing. The caller does
nothing else until it has its answer. `Close` says which scalars it takes for equal: two
floats no more than epsilon apart. A value is not compared with one below it.

### HashSettings, DenseTable, HashMap, DenseMap, DenseMC, DenseTableProofs, DenseMapProofs

`DenseTable` has one operator for each function of `densehashtable.h` that does
something to a table: a table is a record of its buckets, counts, keys and
thresholds. `HashSettings` is what it takes from `hashtable-common.h`. The hash
function is a constant. An assertion that fails clears `ok`.
`DenseMap` is a table and its caller, one action per call, and an iterator that goes
over the map and erases on its way. A file the table is written to may be torn off
anywhere; what a failed read leaves is cleared before it is used, as the comment in
the source asks. `HashMap` is the abstract promise, a map of keys to values with the
rules about the empty and the deleted key, and `ActsAsMap` says that `DenseMap` with
*map = the entries of the occupied buckets* implements it. `DenseTableProofs` is about
one table and one call; `DenseMapProofs` about the table and its caller.

### JsonCursor, JsonParser, JsonParserWide, JsonTree, JsonText, JsonCopies, JsonTextMC, JsonParserProofs

`JsonParser` and `JsonParserWide` have one operator for each function of the two
parsers, over texts whose symbols are the characters the code treats differently (a
literal is one symbol, and so is a character that is not ASCII). The pointer, the
errors and the recovery are kept: an error does not stop the parser. `wild` records
that the pointer left the text, or that a string was copied from behind its end.
`JsonCursor` is what the two share. `JsonParser`, which the proofs are about, has its
loops and its recursion as functions of the cursor: a round is an operator with the
function as a parameter (`SkipOn`, `AtStar`, `Unescaped`, `AtQuote`, `ReadPart`), so
that a proof can say what one round does whatever the rest returns. `JsonTree` prints
trees; it and `JsonParserWide` are `RECURSIVE` operators and used by TLC only.
`JsonText` is a small machine around the parser of bytes: print a value (by
`getstring` or as the page's `json.dump`; the constant `Dump`, in the run `Printed` of
`JsonTree`), let something happen to the text (cut, tail, comment, stray symbol), read
it; or read one of the texts `Written` by hand, printed by nobody. `JsonParserProofs`
proves about `JsonText`. `JsonCopies` has the other parser read the same texts.

### Utf8Convert, TextBorder, TextBorderMC, Utf8Proofs

`convert.cpp` as operators on sequences of code points and of bytes. `Walk` keeps the
two walks of `towchar_t` apart: `olen` is what is allotted, `cells` what is
written; a cell that is skipped holds whatever the memory held, for which `Unset`
stands, a number that no bytes are decoded to. `TextBorder` is a text at the border of the library: `ToBytes` (`tostr`),
then perhaps `Tear` or `Replace`, since bytes come from files and networks, then
`ToCharacters` (`towstr`), with what it writes behind its buffer as `spilt`.

## 3. Runs

Passing runs:

| Run | What it asks | Bounds |
|---|---|---|
| `hub_clean` | no limits, nothing failing: events stay true, lossless pass-through (`PassesThrough`), input and output drain | 3 frames, 2 per socket buffer, signals, full send buffers |
| `hub_broken` | every limit and every fault: `TypeOK`, still a lossy pass-through | 2 frames of 3 kinds; edits, torn files, failing links and writes, kills, restarts, signals |
| `hub_pace` | `PauseHeldInSeconds`, `PauseBounded` | 4 ns per second, so pauses fall below, at and above a second; 3 seconds |
| `hub_busy` | networks that never fall silent: deques hold two frames, every queued frame gets its event, a requested reload happens | frames unnumbered, so the behaviour is endless |
| `plane` | requests one after the other or two at once, a web server that is killed, signals at any point: the page stays usable, no setting is lost, the daemon can load and dies only of an open or torn file; and `ShareHonoured`, `RateHonoured`, `CountsHonoured` of whatever it loads | 2 workers, 4 forms, 2 installed documents, 380 by hand: a percentage runs over every half from -2 to 102, a count or the bandwidth over the values around its edges; word 256, int 16, floats of 5 bits, doubles of 8 |
| `json_values` | ownership, leaks, the error value, independence of copies, and whether what `operator==` answers is that the operands are the same | 2 values of the caller's, `nullval`, 4 more nodes, 2 names, 3 scalars of which two are close floats; comparisons of one value with the other, and with itself |
| `json_texts` | reading back, torn texts, staying in the text, agreement of the two parsers | values two containers deep with two members or elements; 11 stray symbols, 4 comments, 3 tails, one change of a text, or a comment and a cut; and every text of at most 3 symbols out of 18 behind 14 beginnings, which lead to the places where the parsers' code differs |
| `text_border` | conversion to UTF-8 and back, torn bytes, a damaged byte | texts of up to 3 characters out of 7 at the ends of the ranges, and 4 others alone; torn anywhere, or each byte replaced by 10 others |
| `dense_map` | lookups end and are right, equality does not depend on the layout, walks that erase are complete, each call does to the entries what it should, and the whole implements a map | 3 colliding keys, 2 values, tables of 4, 8 and 16 buckets, two settings of the thresholds |

Why the bounds are enough. In the hub every rule relates at most the two ports, the
frame at the front and the one behind it; two frames in one direction and one in
the other give every relative order of reads and writes in one batch, and a third
shows that order survives a refill. Pauses need values on both sides of a second
and room for a second one after the first; `NsPerS = 4`, documents of 1 and 2
KiB/s and frames of 1 and 4 bytes, the longer cut to the 3 bytes of the buffer, give
pauses of 2, 4, 6 and 12 ns: below, at and above a second. In the plane, losing an
update or leaving a tail takes two requests and documents of two lengths. In
`json_values` four spare nodes allow a container in a container with an element, copied
once, and two containers of two entries each, or two that are two deep, to compare;
when all four are in use the caller goes on only if it can compare two containers of
one size (`StateBound`, a constraint of the run). Symmetry is over addresses, names and
the two close floats, which are interchangeable in the model. In `plane` a double
has three bits more than a float, as few as the assumptions allow, so that the
roundings show; `RoundsToNearest` in its module compares `Rounded` with what rounding
to nearest means. In `text_border` a damaged character can swallow at
most the three bytes behind it, and what it swallows ends within the next three
characters at the latest. In `dense_map` the keys share their first bucket in the
smallest table and part in the larger ones, so that three of them fill a table with
deleted marks, chain their probes through it, and make it grow and shrink twice.
`RxCap`, `MaxFrames`, `MaxSec`, `MaxIndex`, `Node`, `Compared`, `Docs`, `ByHand`,
`Written`, `MaxDoublings`, `Texts`, `Damage` and the constraint `StateBound` are the only
bounds and are declared as such.

`TypeOK` of `hub_broken` and of `plane` is what forces the loader's words to stay
words through every conversion; that of `dense_map` that the counts are true; that of
`json_values` that arrays stay sequences.

Runs that find the program at odds with what the repository says of it:

| Run | Property violated | What happens |
|---|---|---|
| `hub_stall` | `OutputDrains` | a throttled frame waits for ever once the networks fall silent: the wait has no timeout and the end of a pause is no event |
| `hub_lost_reload` | `ReloadPending` | a SIGHUP between the load and the clearing of the flag is forgotten |
| `plane_strings` | `FormTakesEffect` | the page stores what was typed as strings, which the daemon's `getfloat` and `getinteger` read as 0 |

### Known deviations that no property states

Met while modelling and, where not said otherwise, present in the models; the
properties are stated so that they hold beside them, and say where they stop.

* Nanoseconds are never carried into seconds, so the sub-second part of a pause
  is lost or longer (`main.cpp:179`); the pause counts from a clock read before the wait
  (`:177`). `PauseHeldInSeconds` promises whole seconds from that reading.
* A failed write under a limit computes the pause from -1 (`:176`).
  `PauseBounded` is checked and proved without failing writes.
* A port that always has a frame to send is never read from (`:163`). `InputDrains` is
  checked with traffic that ends.
* Without traffic, a signal between the test of the flag and the wait is not seen
  until something arrives (`:144-158`). `FlagHonoured` is checked with busy networks.
* Addresses are compared with `strncmp`, which stops at a NUL (`:189`). With one in
  an interface's address, traffic of other stations is taken for the hub's own;
  `PassesThrough` is checked and proved for addresses without.
* Shares and rates have the precision of a float, 24 bits of the 64 of a word;
  `ShareHonoured` and `RateHonoured` say how far off they may be.
* A percentage of 100, or so near to it that a float is 100, converts out of range (`config.cpp:17`): an x86-64 build drops
  nothing. A limit below 1 KiB/s is no limit (`:40`), one above 976562 KiB/s neither (`:44`).
* A reload kills the daemon before its handler is installed, and during a save.
  Concurrent requests lose updates and may leave a file the page cannot read.
* `operator==` leaves the members it created (`value.cpp:950`), and null for what was
  undefined (`:928-929`), in its operands; so `{"x": null} == {"y": 1}` is true.
  `CopiesIndependent` allows it these changes and no other, and `EqualDecides` is about
  comparisons that created nothing.
* A length beyond the end of a long is stored as that end, a number of bytes to corrupt
  beyond an int wraps (`config.cpp:35-37`): so says, or stops there, `CountsHonoured`.
* A duplicate name forgets the older value, which is then owned by nobody
  (`value.cpp:1170`); deleting a member of an object fails an assertion of the map, in
  which the library sets no deleted key; cloning an undefined value keeps the old
  contents.
* A string that ends in a backslash is not read back: `readstring` looks one
  character back only and takes the closing quote for an escaped one
  (`parser_UTF8.cpp:456`), where its comment (`:365`) refers to a grammar in which an
  escaped backslash escapes nothing. `json_texts` evaluates `BackslashRunsOn`, which says
  so, and `ReadsBack` is about values without such strings.
* A comment that ends in `**/`, with one star too many, is never closed
  (`parser_UTF8.cpp:586`). `//` at the very end of a text takes the pointer beyond it, and
  an escaped quote there has a string copied from behind it; `StaysInText` names
  both. A number or literal that does not convert is not reported, and an empty
  text gives an undefined value without an error.
* A `\x` escape of 128 or more puts a lone byte into a UTF-8 string, and a
  character into a wide one: the value of a text with such an escape is excepted from
  `ParsersAgree`. Its other exception: of a text that ends with the white space behind
  an empty name, `{\x ` for instance, the wide copy also reports the name (error 7),
  because it leaves the space where it is.
* The last code point of each size of UTF-8 takes a byte too many, and U+10FFFF
  cannot be converted (`convert.cpp:131`).
* A malformed character takes two cells where one was counted (`:235`); a second
  one is then written behind the buffer. `DamageContained` is about one damaged byte.
* `set_resizing_parameters` takes an enlarge factor of 1 (`hashtable-common.h:320`), with
  which a table fills up; the next search for an absent key probes every bucket
  and fails the assertion that says so (`densehashtable.h:845`). The library leaves the
  factor at 0.5; the runs and the theorems have factors below 1 (`Roomy`).
* `unibuffer::mapfile` takes the size of the file in bytes for its length in
  characters (`parser_UNI.cpp`). Not modelled: nothing calls it.

## 4. Fairness

`Scheduled` (runs `hub_clean`, `hub_stall`) is weak fairness of the daemon as a
whole - the operating system runs a process that can run -, of the clock, and of a
full send buffer, which its driver empties. Nothing is assumed of the order in which
events of one batch are dispatched. `BusySpec` (`hub_busy`) adds weak fairness of
arrivals at each port: it is the assumption of the run, not of the code.
No fairness is assumed of signals, edits, failures, kills or restarts, and none
anywhere else: the library is sequential, and that its loops end is part of
evaluating the operators that model them.

## 5. What is proved

For every value of the constants, under the assumptions the modules declare for
them (`ConfigAssumption`, `FloatAssumption`, `HubAssumption`, `PlaneAssumption`, `WidthAssumption`,
`ValueAssumption`, `BorderAssumption`, `SymbolsAssumption`; `SettingsAssumption`,
`StartAssumption`, `TableAssumption` and `PercentsAssumption` of the hash table). `FloatAssumption` is that a
double has three bits more than a float at least, that the number of values of a word
and a KiB are powers of two, and that a double holds the nanoseconds of a second;
`WidthAssumption` that these are fewer than a word counts, by a margin for the
roundings, that an int is no wider than a word and a word counts beyond 200. TLC
evaluates them in `plane`. Exponents of floats are not bounded in the model: a number
too large for one is out of the range of every conversion anyway, and one too small
becomes 0.

| Theorem | States | Assumes | By |
|---|---|---|---|
| `TypeCorrect` | `[]TypeOK` of the hub | - | `TypeOK` is inductive; `LoadResultsType` shows that every load leaves five words, whatever the build does out of range |
| `EventsCorrect` | `[]EventsStayTrue` | - | `LoopInv`: moreover EPOLLOUT is asked for only of ports with a frame, which is needed at `epoll_wait`; reads only lengthen deques, and a socket has one event at most |
| `PauseInSecondsCorrect` | `[]PauseHeldInSeconds` | - | `PaceInv`: each target time is the last pause after the last reading in whole seconds, and EPOLLOUT is asked for only when it has come |
| `BacklogCorrect` | `[]BacklogBounded` | `Unthrottled`: no document sets a bandwidth, send buffers have room | `BacklogInv`: deque + pending reads <= 1 + pending write, during the dispatch |
| `PauseBoundCorrect` | `[]PauseBounded` | `Reliable`: no write and no link fails | `LengthInv`: every queued frame came through the buffer |
| `LossyPassThroughCorrect` | `LossyPassThrough`, a refinement | - | `ForwardInv`: nothing queued carries the address of the interface it came from. Each of arrival, read and write appends to, removes from or changes one place of one direction, and the other steps touch neither direction nor what was sent |
| `PassesThroughCorrect` | `PassesThrough`, a refinement | `Faithful`: no failing write or link, no restart, no document that drops, damages or shortens, frames that fit the buffer, no NUL in the interfaces' addresses | `FaithfulInv`: moreover the configuration is harmless and what the kernel holds fits; then a read loses a frame only if it is the interface's own |
| `PlaneTypeCorrect` | `[]TypeOK` of the plane | - | `PlaneInv` |
| `PageStaysUsable`, `UpdatesAreKept` | `[]PageUsable`, `[]UpdateKept` | - | `PlaneInv`: without a race one worker is in a request, the file is empty exactly while it has it open, and what it is about to write is its form over what was last saved |
| `DaemonCanAlwaysLoad`, `LoadsSurvive` | `[]DaemonCanLoad`, `DiesOnlyOnOverlap` | - | `PlaneInv`: an empty file means an open or a killed worker, and a mapping that no worker came upon still covers the document it was made of |
| `SharesAreHonoured`, `RatesAreHonoured`, `CountsAreHonoured` | `[]ShareHonoured`, `[]RateHonoured`, `[]CountsHonoured` | - | `PlaneInv`: what was loaded alone is a result of the document in the file; then `ShareFacts`, `RateFacts` and `FixedFacts` of `ConfigLoadProofs`. There a result of a rounding is `Near` the exact one, by so many of 8 * 2^FloatBits parts: 8 for a float, 1 for a double (`RoundedFacts`). Parts add up, and one more, from one operation to the next (`ChainNear`), which leaves the two parts of 2^FloatBits that the properties promise |
| `ValueTypeCorrect`, `ValuesOwnedOnce`, `ValuesNeverLeak`, `NullStaysInert` | `[]TypeOK`, `[]OwnedOnce`, `[]NothingLeaks`, `[]NullInert` of the values | - | `Inv`: single live pointers, a rank that grows along them, and a root for every value. Every call but `operator=` is a rewriting of one value that deletes a closed set and adds fresh nodes (`RewriteKeeps`, `RootedKeeps`) |
| `CopiesAreIndependent` | `CopiesIndependent` | - | the same: trees of different roots are disjoint, so one call is in one of them. For `operator==` moreover `Comparing`: every call of it that has not returned is on two values in the trees of the operands, of one shape, which no step of it takes away (`KeptFits`) |
| `CharacterReadBack`, `TextReadBack` | a character, and a text of any length, is read back from its UTF-8 form, and nothing is written behind the buffer | - | digits of base 64 for one character; for texts, induction on the length from both ends: the bytes of each character stay where they were written, and the walk from there reads the rest of the text |
| `BorderTypeCorrect`, `TextsComeBack` | `[]TypeOK`, `[]Transcoded` of the border | - | `BorderInv`: the bytes are those of the text, fewer of them, or differ in one place. A byte below 128 is a character by itself, because no other byte of a character is |
| `TornTextsContained` | `[]TornContained` | - | the walk passes the characters whose bytes are there (`WalksOver`); of the one that is torn the first byte still says how many there should be |
| `DamageStaysContained` | `[]DamageContained` | - | behind a damaged byte no first byte asks for more than there is (`QuietBehind`), so at most one character is malformed, and the buffer has a cell to spare for one |
| `EveryBucketProbed` | the probes of a search visit every bucket of a table once | - | for powers of two: of two probes that met, numbers i and j, the product of i - j and i + j + 1 would be a multiple of twice the size, but one factor is odd and the other too small |
| `Invariant`, `TypeCorrect`, `LookupsRight` | `[]IInv`, `[]TypeOK`, `[]LookupRight` of the hash map | `Roomy` | `IInv` = `TableInv` and `Walk`. `TableInv`: each table is `Sound` - keys are distinct, counts are true, some bucket is empty, and every live entry is reached along its probes past no empty bucket -, unused before it has an empty key, restorable after a failed read |
| `EqualityRight`, `CallsAreRight` | `[]EqualInAnyLayout`, `[]CallsRight` | `Roomy` | searches of a sound table are exact; lemmas for each function of the table say which entries it leaves, for tables of any size |
| `WalksComplete` | `[]WalkComplete` | `Roomy` | `Walk`: what the caller has to meet it has met or has ahead, in a table that erasing marks and does not move |
| `Refinement` | `ActsAsMap` | `Roomy` | each call keeps the entries, changes them as the map does (`Keeping`, `Changing`), or fails an assertion where the map allows it (`Failing`) |
| `ParserEnds` | on every text the parser returns a value and a cursor, behind where it began or there | - | the loops end: each round is of a cursor with less text behind it (`SkippingIs`, `StringEndIs`, `ReadingIs`), where a container counts twice what is left and one more than the value it begins with |
| `ParserStaysInText`, `StaysInTextAlways` | a text that the parser leaves without an unclosed comment ends in `\"` or `//`; `[]StaysInText` | - | `Onward`: the pointer goes on, at most one symbol beyond the end, and errors are kept, for each function of the parser; then for all parts of a text at once. The machine's invariant `ReadIsParsed` is that what was read is the parse of the text, whatever became of it |
| `TornContainerFails` | every text that begins a text read as an array or object, and ends before the last symbol of that, fails or has no value | - | in the torn text the parser does what it does in the whole one (`ReadingBegun`, over all parts of the text by their size) until it is `Lost`: has met an error, the end, or a slash there that may have begun a comment; and once it is lost inside a container it reports an error (`LostFails`) |
| `TornTextAlways` | `DocumentsAreRead => (Spec => []TornTextFails)` | a text of a document that is whole, or whole but for a comment, is read as a container up to its last bracket (`DocumentsAreRead`) | `TornIsRefused`: what is cut is whole, and what was cut is refused, by the theorem above |

Each invariant is needed because the property alone is not inductive: for instance
a bound of two frames says nothing of how many reads are still pending in the batch,
and single ownership is lost by a copy into a cycle, which the rank excludes.
That a lookup is right after an erasure needs the marks to count as occupied and an
empty bucket to be left, which is why `Sound` speaks of both; `Roomy` - every enlarge
factor is below 1 - is what leaves one, and holds of the factors the library sets.
The proofs have one step per action; arithmetic on modulo, products and lengths of
sequences is in lemmas. The library's induction theorems take an operator, which the
provers cannot instantiate; `Utf8Proofs` derives induction for a set of numbers from
the theorem that every set of numbers has a least one, and shows by it that the
recursive functions of `Utf8Convert` exist; `DenseTableProofs` does so for the
functions that search, copy and read a table (`StepsExist`, `GuardedSteps`).
`JsonParserProofs` does it once for all functions whose calls are of something
smaller (`RecursionExists`), and takes the loops and the recursion of the parser from
there.

Only model-checked: liveness, which is outside the prover; and `ReadsBack`,
`EqualDecides` and `ParsersAgree`. `DocumentsAreRead`, the hypothesis of
`TornTextAlways`, is what `ReadsBack` says of the texts with at most a comment in them:
the run has each of them in a state of its own, for its values and comments, and a value
with a string that ends in a backslash would not meet it. The printer and
the other parser are recursive over the data (`RECURSIVE` operators, which the prover
does not take). `EqualDecides` would take an induction over trees; it is checked for
those of `json_values`, and `ParsersAgree` for the texts of `json_texts`.

## 6. Not modelled

* Exponents of numbers, the order of the error list, `unmap`, the two functions that
  map a wide file. Numbers are read and printed as their digits: `getstring` prints a
  float with six. A name the parser makes up for a member without one is fixed by
  its place in the text. `json.dump` writes a character beyond U+FFFF as two escapes,
  which the parsers take for two characters; the model has characters of one escape.
* Conversion for a `wchar_t` of two bytes (Windows), overlong sequences other than
  those the ranges cause, and the overloads that copy a text of the same kind.
* The sparse hash table (`sparsehashtable.h`, `sfh.cpp`): `config.h` chooses the dense
  one, and any function stands for the hash.
* The setters from raw containers (`JSON_UNSAFE_FUNS`), the getters of `value.cpp`
  that change nothing, `setdt(_nullval)`, and comparing a value with one below it.
* The generator behind `rand`, socket options, the promiscuous mode, the results of
  the calls of the set-up that nobody looks at.
* Bounds of the exponents of floats.
* Formatting of error texts, the tests, the makefiles and the style sheet.

## 7. Plan

Done, in this order: ConfigLoad, Hub with its runs and proofs, PassThrough,
ConfigPlane, JsonValue, JsonTree, JsonParser, JsonText; then the hash table,
the second parser, the escapes and fractions, the conversions, and the proofs of the
plane, the values and the two refinements; then TextBorder, and the proofs of the
hash table and of the conversions; then the parser as functions of the cursor, and
that it ends and stays in the text; then the roundings of the loader and their proofs,
`operator==` as it changes its operands, and the two parsers on texts nobody printed.

Next: a composition of ConfigPlane and the daemon's loop, with the reload of section 3
seen from the page: when is a saved form in force?
