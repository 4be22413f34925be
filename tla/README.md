# libiodefv2 in TLA+

libiodefv2 is a C library that creates, changes, queries, prints and sends IODEF v2 incident
documents. This directory holds TLA+ modules of its hand-written core, the TLC configurations that
check them on small instances, and theorems about them that TLAPS checks. Every definition is
translated from the C code; the table "map" in `PROJECT.json` names the lines. Paths below are
relative to the repository's root.

    tlc -workers 2 -config MCPathCacheReaders.cfg MCPathCache      # a run
    tlapm PathCacheProofs.tla                                      # proofs

## 1. The system

A program links the library and calls it from any number of threads. There is no background thread
and no persistent state; what is shared inside the library is the cache of parsed paths, the parser
of criteria, the list of variables and the settings of the log. Objects of a document belong to the
program, which must not use one from two threads at once.

| Component | State | Operations | Interacts with |
|---|---|---|---|
| path cache `src/iodefv2-path.c` | reference count, name and lock of each path; hash table keyed by the names inside the paths; lock of the table | `path_new`, `_ref`, `_clone`, `_destroy`, `_set_index`, `_make_child`, `_make_parent`, `_path_cache_*` | hash; called by criteria, its parser, document helpers, bindings |
| path get/set `src/iodefv2-path.c` | the document | `path_get`, `path_set` | class trees, values |
| path elements `src/iodefv2-path.c` | depth, indices and keys of a path | parsing, `set_index`, `make_*`, `ncompare` | class tables |
| class trees `src/iodefv2-tree-wrap.c` (generated), `-class.c`, `-object.c` | objects with reference counts, children, lists | `new_child`, `get_child`, `destroy_child`, accessors, copy, clone, compare | strings, data, time, lists |
| values `src/iodefv2-value.c`, `-value-type.c` | reference count, type, content or list of values | new, ref, clone, cast, match, `list_add` | class trees, criterions |
| criteria `src/iodefv2-criteria.c` | trees of criterions with `or`, `and` and negation | compose, negate, clone, match, print | paths, criterion values |
| criteria parser `.yac.y`, `.lex.l` | process-wide variables under one lock | `criteria_new_from_string` | paths, criteria |
| criterion values | value, regular expression, broken-down time | new, clone, match | values |
| identifiers `src/libiodefv2-ident.c` | last reading, count, clock sequence | `ident_generate` | system clock |
| IO objects `src/libiodefv2-io.c` | descriptor, stream or buffer with a read position | read, write, `read_wait`, delimited read/write, forward | kernel |
| data, strings `src/iodefv2-data.c`, `src/libiodefv2-string.c` | buffer, length, ownership flag | set by reference, duplicate or hand-over, copy, clone, grow, truncate | everything |
| hash, lists, variables | chains | add, set, get, remove, iterate | path cache |
| JSON, printing, binary form (generated) | token index while reading | print, read, write | class trees, IO |
| time, NTP, log, errors, common | settings of the log; otherwise none | conversions, output | C library |
| bindings, vendored code | - | C++/SWIG wrappers; gnulib, jsmn | public functions |

`PROJECT.json` lists them all as components, with what is modelled of each.

**What makes each correct**

* *path cache* - counts equal the pointers that exist; nothing is freed while it can be reached or
  kept when it cannot; a name is filed under its own key; a caller gets the path it asked for and
  changes nobody else's; every call returns.
* *get/set* - what was written is read; what was read can be written back; nothing but what the path
  names is changed, also by a call that fails.
* *criteria* - composing is boolean algebra on what is matched; an error never gives a wrong answer.
* *identifiers* - unique, in order, and a fast caller waits no longer than the clock.
* *delimited IO* - messages arrive whole, once, in order, and the end of file is told at the end or
  behind a reset.
* *path elements* - the name of a path, by which it is found, and its elements, which are followed,
  say the same after every sequence of edits.
* *forwarding* - no byte is lost, repeated or reordered; the count is what was moved; a call comes
  back.
* *data, strings, values* - a buffer is freed once, by its owner; a length fits its buffer; a
  conversion changes no number; a criterion and its negation never agree.
* *JSON* - what was printed is read back, wherever the shared token index is when a member ends.

**What is hard here.** Locks are released between finding a path and counting the reference
(interleaving); the keys of the table are the names of objects that get renamed (stale state); the
table and a path are locked in two orders (deadlock); a stream is cut anywhere (short reads and
writes, signals); allocation fails half way through a composition; indices one past the end; a clock
that moves or is set back during a call. The list "hazards" in `PROJECT.json` places each at its
line, with the properties that would show it, or a note why there are none.

## 2. The modules

| Module | What it is |
|---|---|
| `PathCache`, `MCPathCache` | the path cache with its threads and locks; instances |
| `PathValues` | what the cache promises: each handle has a value of its own |
| `PathCacheProofs` | theorems about `PathCache`: programs that share paths, and programs of one thread that change them |
| `PathTree`, `MCPathTree` | `path_get` and `path_set` over the child functions; a slice of the classes |
| `JsonText` | documents of `PathTree` printed as JSON, cut into tokens and read back |
| `PathElements` | names and elements of the paths that `PathTree` follows |
| `Criteria`, `MCCriteria` | composition and matching of criteria as trees |
| `CriteriaAlgebra` | what they promise: union, intersection and complement of sets of documents |
| `CriteriaText` | criteria printed and parsed |
| `CriteriaProofs` | theorems about `Criteria`, that it implements `CriteriaAlgebra`, and about `CriteriaText` |
| `Values`, `MCValues` | values and lists of values: references, conversions, matching |
| `ValuesProofs` | theorems about `Values` |
| `DataOwnership`, `DataOwnershipProofs` | who releases the content of a data object; theorems |
| `StringBuf`, `StringBufProofs` | growth, truncation and ownership of strings; theorems |
| `Ident`, `IdentProofs` | the generator of identifiers; theorems |
| `DelimitedIO`, `MCDelimitedIO` | delimited messages over a byte stream |
| `DelimitedIOProofs` | theorems about `DelimitedIO`, and that it implements the next module |
| `MessageChannel` | what they promise: a channel of whole messages |
| `ForwardIO`, `ForwardIOProofs` | forwarding between buffers, descriptors and files; theorems |

Three modules have a constant `Disciplined`: what a program must not do for the functions to keep
their promises. Each condition stands, with its reason, at the action it restricts; with `FALSE` TLC
shows for each module how a promise breaks (section 5).

### PathCache

A path is a number that is never used twice, so that an access to a freed path is visible, and so
that of two entries in one chain the larger number is nearer the head (`libiodefv2_list_add()` puts
new entries first). `handle` holds the pointers of the program; `pc`, `cur`, `slot` and `want` are
the call each thread is in. A critical section that takes one lock and waits for nothing inside is
one step. These are the steps:

* `iodefv2_path_new_from_root_fast()` is `NewStart`, `Lookup` (under the table's lock), then on a
  miss `Publish` (parse outside of it, insertion under it), `NewFails` or `PublishFails`, and at
  last `TakeRef`, the call of `iodefv2_path_ref()` after the lock has been released.
* `iodefv2_path_destroy()` is `Destroy` under the path's lock, then `Free`.
* the mutators are `Invalidate` (the decision by the count), `Uncache` (which waits for the table's
  lock while it holds the path's) and `Mutate` (the new name).
* `CacheLock`, `LockPath`, `CacheUnlock` and `CacheDestroy` are the helpers that the parent calls
  around `fork()`, and the end. `_iodefv2_path_cache_reinit()`, which is for the child and which
  nothing in the repository calls, is left out: a forked child is not modelled.

What the path functions do to the name is abstracted to "another name"; `PathElements` says which. A
call on a path that has been freed is not followed; `PointersLive` says whether one is possible.
`Ops` says which optional operations the program uses, because they make different promises (see the
runs).

### PathTree

An object is the sequence of its children: a leaf has a value or none, a child that is a class at
most one object, a list any number. `Get` is `iodefv2_path_get()`, `Set` is `iodefv2_path_set()`,
with the recursion over the depths of the path and over values that are lists of lists. `NewChild`,
`DestroyChild` and `Insert` are the generated functions. One action, `SetValue`, is a call with any
path and any value; reading has no effect and appears in the properties. Left out: keys as indices
(no class of this document type has a keyed list, so that no such path parses), values that are
numbers, times, data or whole objects, failing allocations, and objects the program holds a second
reference to.

The instance keeps, of the 67 classes, `document`, `additional_data`, `incident`, `contact` and
`related_activity`, with after each list the child that follows it in the whole class:
`destroy_child()` depends on that.

### JsonText

`ToJson` is what the printers write, as the tokens `jsmn_parse()` makes of it: a token of an object,
an array or a name only says how many members, elements or values it has, and what follows it is
found by reading on. `Read`, `ReadMembers` and `ReadElements` are the generated readers, which share
one index into the tokens (`idx`) and each leave it where the next one has to go on; `NewFromJson`
finds the class by `_self` first. Characters that are escaped are kept apart (`Escaped`,
`conv_string()` and `Unescaped`, the reader's), the others are one. A reader may meet members in
another order than they were printed in, as JSON allows it; `backwards` is the reverse one. The
documents are those that `PathTree` reaches, and every object inside of them is also read on its
own.

### PathElements

A name is a sequence of symbols - names of children, numbers, dots and parentheses - and a symbol
takes one place of the name's buffer. `NewPath` is the parser, `SetIndex`, `MakeChild` and
`MakeParent` are the mutators with what each writes to the name: `BuildName` writes it anew,
`MakeChild` appends, and `MakeParent` cuts at the last dot. `AllPaths` is what any sequence of these
calls makes of any name the program writes, as long as the results still fit into the buffer.

### Criteria and CriteriaText

Composing hands the second operand over, so that criteria never share a node: each is a tree, and a
handle of the program holds at most one. A node is known by its position, the links that lead to it,
and a tree is a function from a set of positions that is closed under prefixes. `Answers` gives what
`iodefv2_criteria_match()` returns for every node, with its order of questions and its errors; `Match`
is that of the root. Composing links the second operand, or clones of it, at places that are not in
use (`Graft`): `or_criteria()` at the end of the chain of alternatives (`OrPlaces`). `and_criteria()`
follows the chain of `and` and calls itself for each alternative it meets, so that it comes to every
node, and an operand ends up wherever there was no `and` (`AndPlaces`); when the clone for one of the
alternatives cannot be made, what was linked before it stays (`AndUntil`, `AndFails`). `CriteriaAlgebra` states what that means for the documents
matched. Its promises depend on where the left operand has negations: `or` appends below the node
whose flag then covers what was appended, so that the promise needs a left operand without negation
on the chain of its alternatives, and for `and` without any inside. The algebra says nothing of the
result otherwise; the code then matches something else than a reader of `!(a) || b` expects.

`TextOf` is `iodefv2_criteria_to_string()`: `Texts` has the text of every node, as `Printed` puts it
together from its criterion and the texts of its children. A criterion is printed as its path, its
relation and its value, without quotes. `Wording` is what the scanner makes of that: a path with its
relation (`Fields`, one token here), the "!" of a path that is not set, and as many words and operators
as the value has; `Meaning` is the criterion the parser makes of a word, given what it follows. Nothing
relates the two: a criterion may be read as another one, as two, or not at all. The parser is what bison
makes of the grammar, which shifts and reduces: its state (`Reading`) is what has been read of a
criteria, the operator after it, what the criterion that follows begins with, and the state outside of
the parenthesis. `Take` is what a token does to it: it is shifted where it `Fits`, and else the text is
refused. `With` and `Composed` are the rule that composes to the left with `OrCriteria` and
`AndCriteria`, and `Closed` the rules for parentheses.

### Values

A value is a leaf - a number, or the text of one in a string - or a list. `held` counts the
references of the program; a value in a list is referenced by it. `Converted` is the cast between
types, which prints a number to a string and reads it back, `Read` is `strtol()` and `strtoul()`
with the error number (`errno`) that nobody clears. `Match` is the match of a value, or of the
values in a list, with a criterion's. Integer types keep their sign and differ in width; `Half` is
half the number of values a type has.

Two functions of the code recurse into lists, and the module says what they reach as a least set.
`Inside(v)` is what is found in a list at any depth: in every set that has the list and, with a
list, its elements. `Gone(v)` is what `iodefv2_value_destroy()` releases: the least set that has
each value all of whose references are the one given back and those of lists in the set.

A disciplined program reads texts with the error number cleared and with numbers that the wider type
holds, fills a list that it has made and not cloned, and clones only lists without values.

### DataOwnership

Each buffer is free, the program's or the library's (`memory`), each object has a type, a pointer
and the one flag that says whether it releases the content. Every setter is one action, `Released`
and `Emptied` what `iodefv2_data_destroy_internal()` does first; the setters that allocate have a
failing variant. A disciplined program lends a buffer only to an object that does not own its
content, gives a time only to an object with nothing to release, and does not run out of memory
while it replaces a time.

### StringBuf

`size` and `index` are the code's, in unsigned arithmetic that wraps at `Width`; `alloc` and `nul`
say what there is in memory: the bytes of the buffer, and the first terminator. `Grow` is
`allocate_more_chunk_if_needed()`, whose outcomes the appending functions continue (`Then`). A
formatted print learns from `vsnprintf()` what it needs and grows once (`Printed`); or `vsnprintf()`
returns a negative value, as before C99, and the function calls itself with one chunk more each time
(`Retried`), until the text fits or memory runs out. For a conversion error, which no room will cure,
the latter is the only end. `wild`
records an access outside of the buffer, or a write to a borrowed one, so that the property can
speak of it. A disciplined program truncates strings that own their buffer, appends to a copy by
reference only where it must grow, and does not run out of memory in `copy_dup()`.

### Ident

The clock is a reading times `Resolution` units of 100 ns; `ClockTicks` and `ClockSetBack` may fall
between the start of a call and its reading. `Uuid` is the loop's last round together with
`uuidgen()`. A clock that is set back never increments the clock sequence, because the timestamp is
compared with the field that has just been overwritten: `clockseq` stays, and the identifiers of the
time lived twice repeat. Two properties are therefore stated between set-backs, and the third
(`RepeatsBounded`) counts the set-backs.

### DelimitedIO

The kernel moves any part of a `write()` into a buffer of `Capacity` bytes (`Transfer`); `Read` is a
round of `read_wait()`; `GotLength` and `GotBody` what `read_delimited()` does with complete bytes.
Faults (`Faults`): a `write()` that returns early, a descriptor that does not block, a signal during
`poll()`, a failing allocation, a `read()` or `poll()` that fails (`ReadFails`), and a connection
that is reset (`PeerResets`), at any moment and with any part of what is under way kept from the
reader. `sys_read()` returns an end of file for a reset as for a writer that has closed (`HangUp`),
so that the reader cannot tell the one from the other, nor that messages are missing; the model and
its properties say so, and `lost` keeps the bytes that a reset took. `torn` records that something
has happened from which the framing does not recover: a part written, an interruption inside a
message, a failing read, a lost length, or an empty message, which the reader takes for the end of
file.

### ForwardIO

A call of `iodefv2_io_forward()` is a sequence of `Read` and `Write`, each a round of
`copy_forward()` with a buffer of `Chunk` bytes; between them the peer of a descriptor goes on
writing (`Produce`), closes, or resets the connection. The backends differ in what a read gives when there is less than was
asked for (`SysRead`, `BufferRead`, `FileRead`), and in how a write fails. A byte is its position in
what the source delivers. `lost` records that a write was cut short or failed, that a
file ended inside of what was asked for, or that a reset took bytes.

## 3. The runs

| Run | Instance | Question |
|---|---|---|
| `path_cache_readers` | 2 threads, 3 handles, names `a`, `b` in one chain and `bad`, 3 paths; ref, clone, cache lock | Programs that share paths: exact counts, no early free, no leak, the path asked for, `PathValues` |
| `path_cache_owner` | 1 thread, 3 handles, names in two chains; clone and mutators | Programs that change paths they alone hold: the table is sound, `invalidate()` finds the sole holder, keys stay, `PathValues` |
| `path_cache_progress` | 2 threads, 2 handles, entries that cannot be allocated, cache lock | Every call returns |
| `path_cache_race` (violation) | 2 threads, mutators | `new()` hands out a path of another name |
| `path_tree` | 5 classes, 4 listed objects, indices -2..1, open, append, prepend; 20 tokens; names of 10 symbols | set-then-get, round trip, nothing else lost; JSON reads back; names and elements agree |
| `criteria` | 2 handles, symmetric, 3 criterions, 5 nodes | the algebra, errors that never lie, text that reads back as what its wordings mean |
| `values` | 3 values, int8, uint8 (2 bits) and int64, uint64 (4 bits), strings; lists of 2; symmetric | counts and strings are exact, conversions exact, a negation negates |
| `data` | 3 objects, 3 buffers, 2 references | everything is released once, and nothing is lost |
| `strings` | 2 strings, 3 characters a call, sizes that wrap at 48 | bounds, lengths, and growth that fails for want of memory only |
| `ident_clock` | 10 per reading of 10 units, 3 readings, 16 identifiers, 1 set-back | order and at most two of one time between set-backs, a bound on repeats over them, calls return |
| `delimited_stream` | 3 messages of 0, 1 or 3 bytes, 3 bytes of kernel buffer, all faults, resets among them | framing, end of file, conservation, delivery, the end told, `MessageChannel` |
| `forward` | every pair of backends, 5 bytes in chunks of 2, 3 calls, short and failing reads and writes, resets | bytes are conserved, the count is what was moved, calls come back |

Why the bounds are enough:

* *Path cache.* Two threads meet in every pair of windows, three paths allow a cached path, a second
  entry of the same name and a clone. With three handles two paths can be shared while a third call
  works. Two names in one chain are needed for a lookup to pass a wrong entry, one in another chain
  for a name that changes its chain. `MaxPaths` is also the failure of `calloc()`.
* *PathTree.* Four objects make lists in two lists; index -2..1 names each element from either end,
  and one past both. The values hold missing items, too few, too many, and lists of lists; one text
  is enough because the properties compare what is missing with what is not. It has nine symbols,
  each escape next to a character it is written with, so that a scan that loses its place changes
  the text.
* *JsonText.* With 20 tokens (`MaxTokens`; the code has 1024) the larger documents are refused and
  the smaller fit.
* *PathElements.* Names of one and two elements, complete and malformed, with indices from -1 to 1;
  `MaxDepth` is 3, so that the parser takes 2 elements and `make_child()` adds a third; 10 symbols
  and the end mark (`NameSize`) are what three elements with two indices take. The paths they give
  are closed under all edits.
* *Criteria.* Five nodes hold an alternative of an alternative next to an `and`; three criterions
  tell which of three parts decided. They are a value, a path that is not set, and a value in quotes of
  its own, whose wording means another criterion than it was printed for.
* *Values.* The four types are a narrow and a wide one of each sign; `int`, through which the code
  reads the narrow ones, lies between (3 bits). The numbers -2, 3 and 15 fit into some of them each.
  A list grows by 1 (`Chunk`), and a list of two can have grown and hold one value twice, or a list.
* *Data.* Three objects pass a buffer by copies of copies, while a third buffer is handed over. Two
  references tell the last from another.
* *StringBuf.* Two strings borrow from each other; a buffer grows more than once before 18 bytes
  (`MaxAlloc`) are exceeded, and at a width of 48 the growth of such a buffer by the factor 2.5 just
  does not wrap, as on a machine where no buffer takes two fifths of what a size can count.
* *Ident.* 16 identifiers with 10 per reading cover a full reading, the wait, and the next one.
* *DelimitedIO.* Bytes have two values so that a length has two bytes, both used; the buffer is
  shorter than a message with its length, so that lengths and bodies are cut everywhere, also by a
  reset.
* *ForwardIO.* Five bytes in chunks of two are two whole chunks and a part, in up to three calls
  that end anywhere.

Each property of each passing run has a mutant in `PROJECT.json`: a plausible error in one
definition under which TLC finds that property violated. Mutated forms stand next to the definition
as `<Definition>_<Error>`.

**Fairness.** `PathCache!FairSpec`: strong fairness of the steps inside a call, because a lock that
others keep taking and releasing is granted in the end; nothing forces the program to make a call,
and a call that fails to allocate the table's entry is not required. `DelimitedIO!FairSpec`: weak
fairness of the kernel and of both sides, as a blocked system call continues when it can; not of
closing or of new messages. `ForwardIO!FairSpec`: weak fairness of the two steps of a call, whose
thread is scheduled; the peer need neither write nor close. `Ident!FairSpec`: a waiting call is
scheduled and the clock moves. The other modules have no liveness: their functions are sequential
and return.

`delimited_stream` does not check deadlock: a writer may block for good behind a full buffer whose
reader has given up, and that is what the code does. Nor does `forward`, as the program stops
calling when `MaxCalls` is reached.

## 4. The proofs

For every number of threads, handles, names and paths, and every choice of `Ops` unless said
otherwise (`PathCacheProofs`):

* `TypeCorrect` - `Spec => []TypeOK`. Not inductive alone: a step that writes `refcount[cur[t]]`
  needs `PathInHand`, that a thread in such a step has a path; a hit needs `FirstMatchMatches`, that
  the youngest match of a nonempty set exists, which rests on the well-foundedness of the naturals.
* `SharedPointersLive` and `SharedRefcountExact` - under `ReadOnly` (the program does not change
  paths, and the table can allocate its entries) no handle, call or table entry points to a freed
  path, and counts are exact. The inductive invariant `SharedInv` adds to the types: what a call in
  each step has in hand (`CallsInv`: a path found but not yet counted is still in the table, which
  no step empties while a call is in progress; a path about to be freed has count zero), that two
  calls never free one path or fill one handle (`CallsApart`), and the counts themselves
  (`RefsInv`). Counts are cardinalities of sets of handles; `CountSame`, `CountGained` and
  `CountLost` say what redirecting one handle does to them.

Under the same assumption, on top of `SharedInv`:

* `SharedNothingLeaked` - what nobody reaches any more has been freed. `MoreInv` adds that a path
  with count zero is about to be freed by some call (`Freeing`), and that a table that has been
  destroyed has no entries and no call in progress (`EndInv`).
* `SharedNewFindsRequested` - a call in progress has in hand a path of the name it was asked for
  (`NamesInv`).
* `SharedImplementsValues` - `Spec => ValueSemantics`: `PathCache` implements `PathValues`. A
  thread's value of a handle is the name of the path it points to or, between the lookup and the
  reference, will point to; each step is shown to be a step of `PathValues` or to leave all values
  as they are (`ValueSame`, `ValueChanges`).

`ReadOnly` is how the library uses the cache itself: for criteria and in the document helpers. The
programs that change paths are those of the next theorems, or get what the run `path_cache_race` and
`MCPathCacheAliased.cfg` show.

For programs of one thread that create, clone, change and release paths in any order
(hypothesis `OwnsAlone`: one thread, no `iodefv2_path_ref()`, and the table
can allocate its entries; the numbers of handles, names and paths and the chains of the names are
any, and every other call may fail):

* `OwnerSoundCache`, `OwnerKeysStable`, `OwnerMutatesAlone` - the counts are exact and nothing
  dangles or leaks; what has an entry keeps the name it was filed under; and a path that is being
  changed is held by the caller only.
* `OwnerImplementsValues` - `PathValues` again, now with its `Change`: a change of one handle is
  seen through no other.

The argument is the comment in the code, "we can modify the path only if the caller is the only
entity that has pointer to it", and why a count of 2 shows that of a cached path. `OwnerInv` adds to
the types and exact counts: while the table exists, a path outside of it has a count of at most 1
(`TableInv`), which clones, new paths and renamed paths keep; so a count of 2 at `Uncache` is one
handle and the table's own entry. Because entries keep their keys and no name has two,
`hash_remove()` by name takes out that path and no other. Between a miss and the insertion nobody
inserts the wanted name (`OwnerCalls`) - with two threads this is what fails. A clone of a cached
path has a count of 1 and no entry, so that `clone` is allowed with one thread; it is a second
handle of one path by `ref` that passes for the table's entry.

For every number of objects, buffers and references, under `Disciplined` (`DataOwnershipProofs`):

* `ReleasesCorrect` and `NothingLostCorrect` - what an object would release is the library's, and no
  other object's; and what the library has taken over, some object would release. The two together
  are almost inductive; the invariant `IInv` adds that an object that does not exist has nothing to
  release (`AbsentKeepNothing`), because a clone is put in its place. One lemma (`ReplacedContent`)
  carries every setter and copy: the old content is released, and the new object would release
  exactly what has just been taken over.

For every resolution, limit, number of calls and set-backs (`IdentProofs`):

* `TypeCorrect`;
* `OrderCorrect` - under `CountFitsReading` (`UUIDsPerTick <= Resolution`, which the code's 10 and 10
  just satisfy) identifiers are in order between set-backs, and no time is given to three of those.
  The invariant says where the newest identifier is (`UpToNewest`), that all others are strictly
  before it unless a reading has just begun (`OldAreBefore`), and that the clock is at the last
  reading or a whole one later (`ClockAhead`).
* `RepeatsBoundedHolds` - after `n` set-backs no time has been given to more than `2 (n + 1)`
  identifiers. This is all that is true of identifiers over set-backs: the clock sequence is the
  same for all of them. The identifiers from before the last set-back are at most `2 n` of a time
  (`OldRepeats`), and those since then are neighbours (`Neighbours`).

For every capacity, byte base of at least 2, and messages, with all faults (`DelimitedIOProofs`):

* `TypeCorrect`, `InOrderHolds`, `EofMeansEndHolds`, `BytesConservedHolds` - until the stream is
  torn (`torn`), what was read is what was written, in order; the end of file is told behind the last
  message of a writer that has closed, or behind what a reset left; and what was read, is being read,
  is in the kernel, was taken by a reset and is still to be written are together the framed form of
  the messages. `IInv` states the last as an equation of byte sequences (`Clean`): what a reset takes
  is behind what is in the kernel (`UnderWay`), and nothing is taken otherwise (`LostByReset`). A
  length and as many bytes can be read off the front of a framed sequence in one way only
  (`FirstWire`), so that the reader finds the boundaries the writer made. The laws of `FlattenSeq`
  are proved first; they are inductions over the length of the sequence, written out as a least
  element of a set of naturals.
* `ImplementsChannel` - `Spec => MessageChannel`: accepting a message, its last byte leaving the
  stream, the reset (`Cut`) and the end of file are the channel's steps; everything else leaves the
  channel alone. The channel ends when it is empty and closed, or at any time after it was cut.

For every size of chunk, input and number of calls, and every pair of backends (`ForwardIOProofs`):

* `ConservedHolds` and `CountIsForwardedHolds` - the bytes written, in the call's buffer and not yet
  read are in line, none twice, and all there until something was cut short; the count returned is
  the number moved, unless a write of that call was cut short. `IInv` says at each stage of a call
  what its buffer holds (`Stages`) and how what was moved and what is left add up (`Counted`).

For every number of strings, size of memory and width, under `Disciplined` (`StringBufProofs`):

* `InBoundsHolds`, `LengthIsLengthHolds`, `OnlyMemoryFailsHolds` - no access outside of a buffer or
  to a borrowed one, the length is that of the text, and the test for a sum that wraps refuses
  nothing that fits. `IInv` calls a string `Sound` when size, index, terminator and allocation fit
  together; the subtractions modulo `Width` in it never wrap, and the growth stays below `Width`.

For every set of values, width of the types and size of lists (`ValuesProofs`):

* `SoundValuesHolds` and `ConversionsExactHolds` (under `Disciplined`) - references are counted
  exactly, no list outgrows its allocation, the strings to release are those of the values that
  will, and no chain of conversions changes a number. `IInv` says that counts are exact (`Counted`)
  and each value is `Sound`. It holds of undisciplined programs too, whose lists, contents and
  strings alone go wrong. Release is the step that is not local: `GoneIsLeast` shows that the
  least set is exactly the values that lose all of their references, so that what stays has lost
  only pointers from what goes. Conversions rest on arithmetic modulo the width of a type:
  `CastCheckExact` shows that the two tests of `CASTCHK` together accept exactly the numbers the
  type has, and `ReadExact` the same of reading, with the negative numbers `strtoul()` turns.
* `NegationNegatesHolds` (for every program) - a criterion and its negation never agree.

For criteria of every size, every set of criterions and of handles (`CriteriaProofs`):

* `TypeCorrect` - each handle holds a finite tree or none.
* `ErrorsNeverLieHolds` - an answer that is given although some criterion has no outcome is the one
  that every outcome of it would have led to (`AnswersDespiteErrors`).
* `ImplementsAlgebraHolds` - `Spec => ImplementsAlgebra`: composing is union, intersection and
  complement of what is matched, where the algebra promises it; and an `and` that fails half way
  loses no document that both operands match.
* `ReadsBackHolds` - a criteria without a negation, whatever composed it, is read back from its text
  node by node as what its wordings mean, and with the root negated from the text after a "!". This
  takes criterions whose wording is that of one criterion (`Worded`): of a phrase it is not true, see
  section 5. That a wording also means what it was printed for is not assumed.

All of it rests on an induction over trees (`TreeInduction`: a set that a node is in whenever the
nodes below it are has all nodes), which the depth of the positions turns into one over the naturals.
`Answers` is a recursive function over positions; that it satisfies its defining equation is the first
use of it (`AnswersDef`). `Transfer` says that a node answers as its likes in another tree when both
have the same nodes below, `GraftTree`, `GraftChildren` and `GraftCopies` what a tree with copies
linked into it is made of. Then `MatchOr` and `MatchAnd` follow a question from the places where the
copies hang up to the root: what `and` adds is asked exactly where a branch had matched, which needs
that no negation turns the answer round on the way. Each action is then shown to be a step of the
algebra or to leave it alone (`StepImplements`).

Reading back is an induction over the tree too. `ParseSubtree` says what the text of a node does to
the parser wherever a criteria may come next: it adds the part of the tree below that node
(`Subtree`), with each criterion replaced by the one its wording means (`RewordedFacts`). Four facts
carry it. The wording of one criterion adds what it means (`ParseWording`). Texts one after the other
are read one after the other (`ParseBoth`), and the parentheses of an alternative leave what was read before them alone
(`ParseGrouped`). A node with what is below it is what `or` and `and` make of its criterion and its
children (`SubtreeComposed`), so that the parser, which has only these two, can make it. And what is
printed without parentheses is read from the left although it was nested to the right: that is the
same tree because adding a criterion and then another with `and` is adding their conjunction
(`AndInTurn`). For `or` this would be as true, but its operands are printed in parentheses.

The named assumption `ConstantsAssumption` of each module is used, `WordingAssumption` of
`CriteriaText` (the scanner tells fields, words and operators apart, and a path with its relation is
followed by a value), and `WidthAssumption` of `Values`: types of one width have equally many values, an `int` is wider than 16 bits, and the
widest type is a multiple of it, as in every C implementation the code compiles with. TLC evaluates
them in the runs.

*Only model-checked:* liveness, which the prover does not do; `PathCache` with mutators in several
threads, or with `ref` next to mutators, where the promises do not hold in general; and `PathTree`,
`JsonText` and `PathElements` (`SetThenGet`, `SetListThenGet`, `RoundTrip`, `NothingElseLost`,
`JsonReadsBack`, `EditsAgree`). In these an object holds objects, to the depth the classes allow, and
the readers and writers call each other for them. They are recursive operators, which the prover
cannot expand, and no function can take their place as in `Criteria`: its domain would be a set of all
the objects there can be.

## 5. Deviations met while modelling

The race in `new()` is shown by a run (a finding). The others have a configuration of their own here
where one is named, and were otherwise seen while the code was read.

*Paths*

* A clone with two handles passes `invalidate()`, so that a change of one shows in the other
  (`MCPathCacheAliased.cfg`).
* `path_new()` returns success and leaves a freed path in the caller's pointer when the table cannot
  allocate an entry (`PublishFails`).
* A mutator and `_path_cache_lock()` take the two locks in opposite orders and can block each other.
* NULL written to one past the end of a list deletes the next child (`MCPathTreeDelete.cfg`).
* `make_child()` cuts a name that gets too long and returns success; the `strncat()` bounds of
  `build_name()` are one too large, so that the terminator of a name of full length lands behind the
  buffer.
* The parser takes 15 elements, `make_child()` makes 16: the name of such a path does not parse.
* `compare()` looks at positions and indices only: two paths of different root classes can be equal.

*Identifiers and IO*

* A clock that is set back never changes the clock sequence. The eleventh identifier of a reading is
  the first of the next one (`IdentRepeats.cfg`).
* `write_delimited()` promises that the reader can "safely know if it got all the data", which a
  short write undoes (`MCDelimitedIOShortWrite.cfg`); of an empty message it is read as the end of
  file.
* A reset of the connection is told as the end of file, although "zero indicates end of file" and
  the reader is to "safely know if it got all the data": messages that were sent are missing, and
  nothing says so (`ReadEof` with `reset`). An end of file that `poll()` reports without data, as for
  a pipe, is the generic error "expected POLLIN event" instead.
* `read_wait()` does not repeat a `poll()` that was interrupted, although the comment on the reading
  functions says EINTR is handled: a message being read loses its place (`ReadInterrupted`). On a
  buffer object it polls a descriptor the object does not have.
* `forward()` counts what it read: a short write loses bytes and the full count is returned
  (`Wrote`).
* `forward()` "attempts to transfer up to" a count, but from a buffer or file with less it returns 0
  or end of file, although bytes have been moved; what a file has left of a chunk is taken out and
  lost (`FileRead`).

*Criteria*

* `!(!(a))` sets the flag twice and stays a negation; `!(a) || b` is matched as `!(a || b)`, and
  parsed so is `!(a) && b`.
* `to_string()` does not print negations (`TextOf`).
* `iodefv2_criterion_to_string()` prints a string value without quotes (`iodefv2-criteria.c:265-267`),
  and the scanner ends a value without quotes at a blank, a parenthesis, `&` or `|`
  (`iodefv2-criteria-string.lex.l:143`). A criterion for the value `My String`, as in
  `tests/iodefv2-criteria.c:42`, prints a text that is refused; one for `a || !url` prints a text that is
  read, without an error, as two criterions (`ReadsItself` in `MCCriteriaPhrase.cfg`). Quotes and
  backslashes inside a value are taken for the text's own and dropped.
* A broken-down time prints its month from 0 (`iodefv2-criterion-value.c:268-269`) and reads it from 1
  (117): a criterion for April reads back as one for March.
* Releasing a nested clone of criteria that failed frees it twice.

*Values* (`Disciplined = FALSE` in `MCValues.cfg` shows the first three)

* The readers of numbers test `errno` without clearing it: after one number out of range every
  number is refused. 8 and 16 bit readers cut to `int` before they test the range (4294967297 is an
  int8 of 1). `uint32` and `uint64` accept a minus sign.
* The clone of a list with values releases it after the first value and returns an error; that of a
  list without any has no room for the length it has, and the next `list_add()` writes behind it.
* A conversion into another value takes the ownership away from the elements of a list, and leaks a
  string that the source does not own.
* `list_add()` loses its list when `realloc()` fails; `set_class()` does not set the type's number;
  integers are ordered by `memcmp()`, which on a little-endian machine puts 256 before 1; an integer
  may be compared with a string; a match of no value with a list dereferences NULL; nothing is
  unequal to an empty list.

*Data and strings* (`Disciplined = FALSE` in `DataOwnership.cfg` and `StringBuf.cfg`)

* "The buffer pointed by @data will be freed if the @data object is marked as _dup or _nodup": a
  buffer that is set by reference in an object that owned its content is freed, too, because the
  flag stays (`SetPtrRef`).
* `set_time()` does not release the previous content; a duplication that fails leaves the pointer of
  a time that has been released.
* Truncating a borrowed string allocates a buffer of no bytes and writes the text to it; clearing
  one writes into the borrowed buffer.
* Appending to a copy by reference that has spare room computes a size that wraps and converts it
  through a double: undefined.
* `copy_dup()` that fails leaves size and length with a null buffer; `new_dup()` that fails leaks
  the structure; a formatted print that fails leaves text behind the length, so that a buffer that
  is then handed out is not terminated there.

*Additional data, JSON*

* The check of additional data demands a final zero byte of every type, numbers included, as one
  operand of its condition is a constant; the type is set before the data, also when this fails.
* A document of more than 1024 tokens is printed, and cannot be read.
* The class of the outermost object is looked for among its first tokens: when its `_self` comes
  after a nested object, it is read as that object's class. The printers write `_self` first.
* A member that comes twice is concatenated; a list given as one object is not skipped, its members
  are taken for the outer object's; after an unknown member the caller has an object that is filled
  in part.

## 6. Not modelled, and why

* The bindings, the vendored code (of jsmn only the tokens are modelled) and the generator are
  outside the program's own logic. The generated accessors, printers and readers repeat one pattern
  for each of 67 classes; the child functions, and the printer and reader of JSON, are modelled
  once, for a slice of the classes. This is most of the repository's lines: the share that the
  modules stand for is small for that reason, and would not say more if each copy were counted.
* `iodefv2-document-read.c` and the `iodefv2-message-*` files are not compiled into the library.
* Numbers, enumerations, times and data in JSON, and the binary form: leaves with a conversion of
  their own, in the same walk.
* Document helpers are calls of the modelled functions one after the other. Additional data sets a
  type and calls one setter of `DataOwnership`.
* Variables are a list of strings, searched from the front. The table's `hash_set()` is called by
  nothing; the lists are sequences in `PathTree` and sets with an order in `PathCache`; removal
  during iteration is left to the plan.
* Times, addresses, configuration lines and regular expressions are conversions whose behaviour lies
  in `strptime()`, `mktime()`, `strtoul()` and `regexec()`.
* Of the text of criteria, a list of values after one relation, which is never printed, and a
  quotation mark that opens in one criterion and closes in another.
* Log and error tables carry no state the properties tell apart. gnulib's locks are taken to be
  mutual exclusion.

## 7. Plan

What is left, the most useful first.

1. `PathCache`'s "another name" as the edits of `PathElements`; comparison of paths.
2. `ListHash`: intrusive lists under removal during iteration, `hash_set()`.
3. JSON of the other leaf types, and of the texts that no printer wrote.
