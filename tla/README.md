# pbnjson in TLA+

libpbnjson parses, builds, validates and prints JSON. This directory holds a
specification of the parts of its C core that are easy to get wrong: what owns
what, what threads may do to each other, and in which order things are taken
apart again. The modules are checked with TLC on small instances; the
properties that matter most are proved with TLAPS for every instance.

Paths below are relative to the repository's `src/pbnjson_c/`.

## The system

| Part | State it keeps | Operations | Correct when |
|---|---|---|---|
| Interned object keys (`key_dictionary.c`) | a process-wide weak hash table, a mutex; the atomic counter of each key | lookup, copy, release, destructor | one live key per name, no use after free, no resurrection, nothing leaks, lookups return |
| JSON values (`jobject.c`) | reference-counted strings, numbers, arrays, objects; static constants | create, copy, release, put, set, insert, append, remove, splice, duplicate, compare | counters equal references, no cycles, nothing unreachable, refused calls consume what they promise to consume |
| DOM builder and streaming parser (`jparse_stream.c`) | stack of open containers, validation state, yajl handle, errors | one callback per JSON token, feed, end, deinit | the document is built once, every abandoned part is released, validation precedes building |
| Pool of DOM parsers (`jparse_stream.c`) | four static parsers with `used` flags under a mutex | alloc, free | no parser handed out twice |
| String memory of a DOM (`dom_string_memory_pool.c`) | list of chunks, each with an atomic counter; a thread-local current pool | alloc, mark as free, create, destroy | a chunk lives while one of its strings does and no longer |
| Parser memory pool (`parser_memory_pool.c`) | a fixed buffer, `prev`, `current` | malloc, realloc, free | blocks never overlap, contents survive realloc |
| Validation engine (`validation/`) | a stack of validators and a stack of their contexts per parse | one check per token, push, pop, reactivate | accepts exactly the documents the schema means |
| Schema loading (`jschema.c`, `validation/uri_*.c`, `validation/reference.c`) | documents and fragments by URI, reference counts of validators | parse, add, look up, resolve, steal | every resolvable reference resolved, the loop ends, each validator freed once |
| Generator (`jgen_stream.c`, `jvalue_tostring.c`, `jtraverse.c`) | a yajl generator, an error; the text kept in each value | stringify; one call per token, finish | the text says the value, and stands as long as it may be read |
| Errors (`jerror.c`, the reports of `jparse_stream.c`) | one error per parser, the texts of schema and syntax | set, get, free | the first error is told, of the right kind, and freed once |
| Schema parser (`validation/json_schema_grammar.y`, `schema_parsing.c`, `schema_builder.c`) | the stack of the parser, features and validators with counts | one reduction per rule, four passes | each object is freed once, whether the schema is good or not |
| Number conversion (`jvalue/num_conversion.c`, `jobject.c`) | none | conversions with error flags, comparison | flags tell overflow and loss of precision, the order is one |
| Selectors (`selectors/`) | a chain of generators over a tree | create, init, next | every match once, in document order |
| C++ parsers (`JParser.cpp`, `JDomParser.cpp` in `src/pbnjson_cxx/`) | the memory of a C parser, a schema, an error handler, the document taken from it | begin, reset, feed, end, parse, destructors | documents counted, handlers told of every failure, nothing freed is used |
| Other C++ classes, command-line tool, logging | - | - | not modelled, see below |

Who calls whom: the parser sends each token through the validation engine and,
if it passes, to the DOM builder, which looks keys up in the key dictionary,
takes string memory from the pool of the document, and puts values into
arrays and objects. The engine calls back into the builder for defaults and
for `uniqueItems`. Dropping the last reference to a tree walks down into the
dictionary's destructor and the string pool, on whatever thread it happens.

Hard to test: the race of key destruction against lookups (the comment at the
top of `key_dictionary.c` says so), references given away to calls that then
refuse, insertions that would close a cycle through other containers, parse
errors in the middle of nested containers, chunk memory freed from other
threads, and schema references that arrive in any order. `PROJECT.json` lists
each hazard with its line and the properties aimed at it.

## Modules

| Module | Models |
|---|---|
| `InternTable` | the promise of the key dictionary, without threads, lock or counters |
| `KeyDictionary` | `key_dictionary.c` with `jvalue_copy` and `j_release`, one action per step another thread can see |
| `KeyDictionaryProofs` | its inductive invariant and theorems |
| `MCKeyDictionary` | its instances for TLC |
| `JValueGraph` | values, containers and references of `jobject.c`, one action per API call |
| `JValueGraphProofs` | its inductive invariant and theorems |
| `MCJValueGraph` | its instances for TLC |
| `Document` | what a stream of JSON tokens denotes: a tree, with no memory and no references |
| `DomBuilder` | the DOM callbacks of `jparse_stream.c` and their client, on top of `JValueGraph` |
| `DomBuilderProofs` | its inductive invariant and theorems |
| `DomTree` | reads the values in memory as a tree; states that `DomBuilder` implements `Document` |
| `DomTreeProofs` | the proof that it does |
| `MCDomBuilder` | its instances for TLC |
| `Schema` | JSON documents, their events, and what a schema means |
| `Validators` | the validators that the schema parser builds of a schema |
| `Validation` | the stack machine of `validation/`, fed one event at a time |
| `MCValidation` | schemas and documents for TLC |
| `SchemaResolver` | documents and fragments, the search for references, `jschema_resolve`, references that are followed |
| `SchemaBuild` | the schema parser, its passes and every count, until the schema is released |
| `MCSchemas` | schemas for TLC, of both |
| `SchemaResolverProofs` | the inductive invariant of `SchemaResolver` and theorems |
| `ParserMemPool` | the memory pool inside a parser |
| `ParserPool` | the static DOM parsers and their mutex |
| `DomStringPool` | the chunks of strings of a document |
| `SaxErrors` | how a SAX parser reports what goes wrong |
| `ArraySplice` | `jarray_splice` and what it is made of |
| `CxxParser` | the two parsers of the C++ binding |
| `PartsProofs` | inductive invariants and theorems of `ParserPool`, `ParserMemPool`, `SaxErrors`, `ArraySplice`, `CxxParser` and `DomStringPool` |
| `JValueOrder` | `jvalue_compare`, `jvalue_equal`, `jvalue_duplicate` |
| `ProofLemmas` | counting, minima and functions: the lemmas several of the proofs need |
| `NumConversion` | `num_conversion.c` and the number functions of `jobject.c` |
| `JQuery` | queries over a document |
| `GenStream` | `jvalue_stringify` and its relatives |
| `JValueProofs` | inductive invariants and theorems of `JValueOrder` and `GenStream` |
| `MCParts` | instances for TLC of the ten components without an instance above |

### KeyDictionary

A thread is at a `pc`; the labels are the points between the mutex operations,
the atomic counter operations and the table accesses of `keyDictionaryLookup`,
`keyStringDtor` and `j_release`. What a thread does under the mutex to its own
locals is joined with the step it leads to. `table` is the weak hash table,
`refCnt` and `text` are the fields of a key's block, `allocated` the blocks
between `calloc` and `free`; blocks are reused, so that a stale pointer can
meet a new key at the same address. A `handle` is any place that owns a
reference: a local of a client, a member of an object.

`SanityRead` is the test `m_refCnt < 0` at the end of `j_release`. The thread
owns nothing by then. If the block has been freed, the read may give anything,
and the model lets it.

Two threads never work on one handle at a time, as the API demands; copying
from a handle and releasing it are each one step.

### JValueGraph

One action is one call of the C API, on a tree used by one thread at a time.
`kind`, `refCnt`, `text`, `size` are fields of a block; `elem`, `keyOf` and
`value` are the references inside arrays and objects; `handle` the references
of the client. The arguments that a call borrows are anything `Visible`: what
the client owns and what is inside it, as `jobject_get`, `jarray_get` and the
iterators return them.

`j_release` is recursive. Its recursion is unfolded: a call puts the references
it has to release into `dropped`, and `ReleaseLocal`, `ReleaseElem`,
`ReleaseKey`, `ReleaseValue` and `Free` work them off. No other call starts
before that is done (`Quiet`), so a call and its releases are one unit to the
client. TLC's deadlock check would report a release that gets stuck.

`jarray_put_unsafe` releases the element it replaces and stores the new one after that
(`jobject.c:1162`). `PutElem` empties the slot and leaves the new value in `dropped["new"]`
and the place in `slot`; only when the release has worked off all that the old element
held (`Released`) does `Store` put it there. Whatever goes wrong in between, a new value
that was part of the old one for example, would show.

`check_insert_sanity` walks everything below the child. The model says the
same without recursion: the child does not reach the parent if some set of
blocks contains the child and everything its members contain, but not the
parent. The absence of cycles is stated in that style, too, which makes both
accessible to the provers.

A call that forgets a reference (`jarray_set` and `jarray_append` when they
refuse) moves it to `lost`, where nobody releases it. Everything else must be
accounted for.

Static values (`JNULL`, `JINVALID`, `JTRUE`, `JFALSE`, the empty string) are one
value `Const`: no call counts them. It may be a key, as the empty string (`Empty`,
`Spells`), which `jobject_put` and `jobject_set2` accept. Numbers are leaves like strings. A string
used as a key is a block of its own with a reference of its own. Allocation
does not fail. Arguments are not NULL.

### DomBuilder

`DomBuilder` extends `JValueGraph`: each step of a callback makes one call of
the API, with all its preconditions, and the releases that follow are the steps
of `JValueGraph` again. The `DomInfo` records are a stack: record `d` is the
one `d` links above `topLevelContext`, `context` the innermost, and `mValue[d]`
its `m_value`, which is the container that record `d + 1` fills, or the key that
waits for its value. Variables that own a reference name a handle; which handle
is free is of no importance, so `Takes` picks the first. `pc` is the point
within a callback: the value exists (`place`, `copy`), its copy exists
(`attach`). Between tokens (`feed`) the client may fetch the result, release
results it holds, or close the parser; `jdom_create` is the client that does it
all in one go.

yajl is external. `yajl` holds what its grammar expects in each open container,
`status` whether it has stopped. Validation may refuse any token, and it adds
members with defaults before a closing brace (`DefaultProperty`, from
`object_validator.c` through `on_default_property`): a default may be a
container, whose tokens come as nested callbacks with no client in between. The brace
may be refused after some defaults are in (`RefusesDefaults`): one validator of several
has handed them out when the next says no.
`given` is the key as the text had it; only properties look at it.

The branches in which a callback finds itself at an "improper place" are part
of the actions; `CallbacksFit` says that no document leads there.

Left out: text chunks (a token is whole), comments, the memory pools, and
allocation failures.

`Document` knows open containers as partial trees with a hole where the next
one goes. `DomTree` computes those from the heap, and the refinement
`ImplementsDocument` says that the heap never holds anything but what the
tokens so far denote. `TreeInv` is the part of the state that only this
refinement needs. That is what sharing keys, replacing members and closing
in the right order is about.

### Schema, Validators, Validation

`Schema` defines the meaning of a schema by recursion on the document (`Valid`)
and the defaults it lacks (`Missing`): it is the reference. `Validators`
translates what the grammar, `schema_parsing.c` and the setters of the validator
classes make of a schema (`Compile`); a setter that upgrades a shared instance,
forwards to the validator of a type or ignores the feature does so in `Apply`.
`Validation` is the engine. `state` is a `ValidationState`: the two stacks of the
code, validators and contexts, are one stack of frames, and a reference pushes
and pops its target with itself. Each `Check...` operator is the `check` function
of one class; it returns the answer, the state left, whether the client heard of
an error, and the defaults handed out. A combined validator's context holds a
state per part, and feeding an event feeds it to each. The actions are
`LoadSchema`, `Begin`, one `Feed` per event, `Complete` and `Close`, round and round,
and `LoadAnother`, since `combined_validator_collect_errors` changes a vtable that
every schema shares (`collecting`).

The traversal of a tree and the streaming parser send the same events in the
same order, so one `Feed` serves both; they differ in whether defaults are
filled (`Begin`). A receiver may refuse a default (`object_validator.c:103`, a callback of
the client that answers false): `unwanted` is the key it refuses and the keys the hash
table had not come to yet. The validator then gives up without a word and without leaving the
stack (`Denied`). `denied` remembers it, so that `VerdictMatchesSchema` and `ToldIfRefused`
can tell this refusal from those of the schema.

Abstractions: numbers are counted in halves, to have integers and others; a
string is its identity; a pattern is the set of keys it matches. `maximum` stands
for the limits of numbers and strings, which are all decided within one event.
A key that several patterns match must follow one of their schemas, as the
comment in `object_pattern_properties_find` says and JSON Schema does not. `items`
in its array form, `itemList`, and `types`, the array form of `type`, have names of
their own. Left out: reference counts, references that do not resolve, booleans
(decided like null and strings), repeated keys (trees have none; see the
hazards), `enum` beside `type` and the array form of `extends`. `Compile` ignores the
sizes and the uniqueness of arrays unless a schema says `"type": "array"`, as the
combined types do; the schemas of the runs always say it, since `Valid` counts
those keywords in any case. Patterns are looked up only where `additionalProperties` is
false (`object_validator.c:149`; without the keyword it is the generic validator, 444), and
the schemas of the runs have `patternProperties` only there: `patternProperties` that are
never looked at are a case left out. Nor is there a default
below `oneOf` or `not`, whose parts may be fed in vain: `Missing` does not say what a part
that is dropped later has handed out.

`ToldIfRefused` holds until the vtable is switched (`collecting`) and says nothing
after that: then `anyOf` reports errors of documents it accepts, and `oneOf` and `not`
refuse without a word (`combined_validator.c:463`).

### SchemaResolver

The table of documents of `uri_resolver.c`, with the key each document is stored
under and the fragments it has; the pass that collects references and
definitions of a parsed schema while a stack of base URIs grows and shrinks
(`uri_scope.c`, `collect_uri` in `validator.c`); and `jschema_resolve` as the loop
it is: find a document without a fragment, compare it with the one before, ask
the client, steal the documents of the schema that came, give the document its
name. One action is one step of that loop. `FollowReference` is the lookup a
reference makes when it is first used, before resolving or at any time after.

A schema text is the sequence of what the pass meets. `world` gives each document
its text and is chosen in the beginning; the client may also fail, or supply a
schema that was parsed under its URI, a path or nothing (`RootScope`). The order
in which a hash table is walked is not defined: `jschema_resolve` asks for any
document that is missing, and a merge that meets a document twice has taken any
part of the others. `ReferencesFind` is about schemas that are parsed under the URI
they are asked for by (`Disciplined`); the others are part of the other
properties.

### SchemaBuild

`heap` has all that counts references: validators, features, definitions,
defaults. A node holds others in named slots; for each class a few sets say
which slots its destructor releases and which the passes visit, and the
properties compare them with the counts. `frames` is the stack of the Lemon
parser: each reduction of `json_schema_grammar.y` is an action on it. A syntax
error may come at any token, and what the destructors of the grammar release
is released then. The passes are one action each, as they run in one call, one
thread: `phase` goes from `parsing` through them to `loaded`. A finished schema can
be copied, matched with a key by its patterns (`MatchKey`, from
`object_pattern_properties_find`, which only an object asks whose `additionalProperties`
is false: `Consulting`) and released (`done`). An `enum` whose first
value is broken off makes the code destruct a list it has not made yet: the model
stops there (`EnumWithoutList`, `crashed`).

### The allocators

`ParserMemPool`. A byte of the buffer is represented by the block whose contents it
holds: the client, yajl, writes all it is given and relies on `realloc` to carry it
along. `torn` has the blocks that lost contents on the way to the heap. yajl never
asks for 0 bytes.

`ParserPool`. `at` is where a thread is within `jdomparser_alloc_memory`,
`jdomparser_new`, `jdomparser_create`, `jdomparser_release` and
`jdomparser_free_memory`: before the mutex, in it before the table is read, before
it is written, behind it. `parser` is a local of the thread; `heap` counts the
parsers that came from `malloc`. `CreateFails` is the branch of `jdomparser_create` for a
parser that cannot be initialised; `jsaxparser_init` always answers true today
(`jparse_stream.c:1137`), so it takes a change there to enter it.

`DomStringPool`. A thread that runs `jdom_create` has a pool, a list of chunks
(`tail`, `cprev`); strings are cut off the newest, and `ref` counts those of a chunk.
A release is the atomic decrement, and, for the last string, the steps after it:
unlinking the chunk from the list of a parse that still goes on, and `free`.
`author` is the parse a string belongs to. When the document is returned, any
thread may release any of its strings at any time. Addresses of chunks are reused
after `free`. `madvise`, which gives pages of a chunk back early, changes nothing
that is read again and is left out.

### ArraySplice

Two arrays are slots and a size, since the interesting mistakes are in the slots
behind the size. The loop of `jarray_splice` is taken step by step, each with the
whole `jarray_remove`, `jarray_put` or `jarray_insert` it calls. `spShould` is what the
call asks for, computed from the contents at its beginning. Elements are
scalars. Both builds are there: with the assertions of the loops (`spChecked`), which
stop the program where one fails (`Abort`), and without. `spLent` counts the references
that `SPLICE_NOCHANGE` leaves in both arrays: the counters must be right but for exactly those.
Two cases are marked and excepted by name: `spTorn`, a transfer of elements in front of
others, which leaves a gap in the other array and references that no count knows, and
`spEntangled`, an array spliced into itself, of which the counts hold and the order does not.

### JValueOrder

Values are rows of a table. A container refers to rows above its own, as it can
only hold what was made before it; so values may be nested to any depth and share
parts, and the recursion of the code is a recursive function. `rank` stands for what
`memcmp`, lengths and the comparison of numbers tell apart, `at` for the buffer a
string is in, which `jvalue_equal` looks at. The loops over elements and over sorted
keys are one operator, `Lexicographic`. Two `int64_t` are compared as such, anything
with a double as doubles: `AsDouble` gives the double an integer becomes, of which several
may become one (`CompareNumbers`). So there are numbers that compare as equal and are not
(`Blurred`), and with them a third the comparison is no order: `Ordered` promises one of all
values that have no such numbers below them, which is all there is to promise (see the
findings). `jvalue_duplicate` adds the rows of the copy
and leaves gaps for what it does not copy; the code copies a part that is held twice
two times over, the model once.

`Confused` names where `jvalue_equal` says yes and `jvalue_compare` does not answer 0:
`JNULL` and `JINVALID`, and strings of different length that begin at the same byte.

### CxxParser

One object, its C parser and everything around it. `cxx` has the members of a
`JDomParser`, or of a client's subclass of `JParser`; `cxxC` what is in the memory
`m_parser` points to: whether it was initialised, which schema its validators are of,
and what a deinit has left dangling. `cxxRefs` counts the references of each document.
A text is fed in pieces, and what a piece does to the C parser is an outcome; the
modules above say how it comes about. Clients keep the rules of the headers: feed and
end only between begin and a failure or the end, an error handler lives until the
parse it was given for is over, schemas come and go at any time. Behaviour that C++
does not define ends the program, and `cxxFault` keeps what it was. `FaultsNamed` says
that these are the only ways there:

- A `begin` of the older interface that says no because a reference does not resolve
  (`JDomParser.cpp:160`) leaves memory raw or deinitialised; the next call deinitialises
  it again (`unresolved`).
- `reset(schema)` (`JDomParser.cpp:141`) and `JParser::parse` release the schema whose
  validators the C parser still has on its stack (`swapped`).
- After a reset, failures are told to the handler of the last begin.
- `JParser` gives `this` to its callbacks, which take it for a `JErrorHandler`
  (`JParser.cpp:134` and `:257`).

### NumConversion

`numberParse` reads a text character by character into fraction, exponent and flags;
each action adds a character. The widths are parameters, scaled down: `Width` for the 64
bits of fraction and result, `IntWidth` for 32 bits, `ExpWidth` for those of the
exponent, `Mantissa` for that of a double, which is an integer count of 2^-`Scale`,
`LongMantissa` for that of a long double, in which a text's fraction is multiplied with
a power of ten before it is rounded again to a double (`Rounded`,
`num_conversion.c:607`), `Tolerance` for the 1e-9 within which a double is told for an
integer (`WholeOf`, 654 and 707). The parser and the conversions are translated with
their wrap-arounds; the conversion of a double that is out of range, which C leaves
undefined, gives either end of the range. The code reads behind a text that ends in
zeroes after the dot: any count of further zeroes may come of that (`Components`). Where
the code has left arithmetic behind, `odd` says in which way, and the comment at
`NumberTold` lists them; no step reads it. `powl` is external and taken to round
correctly.

What `NumberTold` can say of a double made of a text is therefore that it is the number or
one of its two neighbours, and of an integer made of a double without a flag that it is
within the tolerance, not that it is the number itself. `NumbersOrdered` is about two
numbers at a time; what chains of comparisons do is `ValuesOrdered`.

### JQuery

The grammar's actions turn the syntax of a query into a chain of queries
(`asked`, `query`); `jquery_init` and `jquery_next` are actions, the generators and
selectors below them recursive operators that return the changed generator with
what was found: a generator that survives from one value to the next is part of
the state, as in the code. `Matches` is the meaning: a value by itself, its
ancestors and siblings, without generators. Strings are compared by identity and
order, containers by identity. `Loose` and `Repeats` name the queries whose answer the
code does not keep to that meaning (selectors with queries of their own, of which
one may be left half way; a class with a pseudo class; an expression that meets a
value once for each value above it), `early` a restart before a query is depleted.

### GenStream

`genTodo` is what `jvalue_traverse` still has to visit, `genStream` the generator of
yajl, external: it refuses what cannot come next, and the stream ignores that, as
`jgen_stream.c` ignores every status. A text is a sequence of tokens. `genString` is
`m_string` of a value with the mark whether its destructor is set, `genHeap` the texts
allocated. A call first frees the earlier text, and may fail after that. Members may
come in any order. Constants are never released. Threads stringify different values that
share parts; that no two stringify one value is assumed, although for the constants,
which all threads share, no client can see to it (`jvalue_tostring.c:113`); the streams
are opened with `TOP_None`, as all callers do.

### SaxErrors

A parser of either interface is fed in pieces or whole. A piece passes, is refused
by the schema or by a callback of the client, or breaks the syntax. `m_unknown`, the
client's error handler, may be absent with the rest of the callbacks, stop or
continue. `error`, `schemaError` and `yajlError` are the three records a parser keeps;
`saxTexts` counts what is allocated of each, `saxReason` what really went wrong first.

## Runs

| Run | Instance | Shows |
|---|---|---|
| `keydict_safety` | 3 threads, 2 names, 3 handles, 5 blocks, symmetry | interning, exact counters, no dangling or leaked key, no double destruction |
| `keydict_liveness` | 3 threads, 1 name, 2 handles, 4 blocks, fairness | refinement of `InternTable`; lookups return; dying keys are freed |
| `keydict_counter_check` | 2 threads, 1 name, 2 handles, 3 blocks | violation: the counter check of `j_release` on freed memory |
| `graph_safety` | 3 blocks, 1 key name, 2 handles, arrays of up to 2, 1 lost reference, symmetry | exact counters, no cycles, nothing unreachable, well-formed containers |
| `graph_append` | the same | violation: `jarray_append` is not `jarray_put` at the end |
| `dom_builder` | 4 blocks, 2 key names, 6 handles, 3 levels, arrays of up to 2, 1 result, symmetry | callbacks agree with the grammar, open containers hang in the tree, everything is released, refinement of `Document` |
| `dom_result` | 2 blocks, 2 levels | violation: `jdomparser_get_result` after an error |
| `validation` | 214 schemas, 58 documents, with and without defaults, which a receiver may refuse, shared vtable switched at any time | verdicts agree with the meaning of the schema, the stack ends with the document, refusals are reported and nothing else is, missing defaults are handed out |
| `validation_not` | 2 schemas with `not` | violation: a part of `not` that has refused comes back to life |
| `parts` | the ten components of `MCParts`, each behaviour about one of them; see the bounds | blocks keep their contents, parsers and chunks are in the right hands, splices keep order and counts, with and without assertions, numbers are converted truthfully, values ordered (but for blurred numbers) and copied, queries answered, texts standing, errors told, C++ parsers in order |
| `schemas` | 3 documents with 7, 9 and 2 texts; schemas of up to 5 tokens, 4 levels, lists of 2; fairness | resolving ends and tells the truth, references find what they mean, every count is exact and nothing is left behind, the passes reach everything |
| `schema_patterns` | schemas of up to 6 tokens, `additionalProperties` false, a key that matches two patterns | violation: a match of two patterns frees validators of the schema |

Bounds. Three threads let two lookups meet one destructor, and a new key be
inserted while an old one of the same block is still on its way out. Enough
blocks are there for every handle and every destructor, which the
assumption `EnoughCells` checks, since `calloc` is taken to succeed. Three
blocks are two containers and a key, or a chain of three containers: enough
for a cycle through an intermediate container, for a shared child and for an
object or an array that is replaced by its own content. Array size 2 gives holes, shifts
up and down and an end that moves. `MaxSize` bounds the size of arrays and
`Lost` the number of forgotten references; both only disable calls that would
exceed them. In `graph_safety` at most one place
holds a constant when a call begins and no value has more than three references
(`FewConstants`, `FewReferences`): one each of the client, a container and a call
under way. States beyond that are checked but not continued. Four blocks are three nested containers and a key, or an object with
two members, one of them a container, in place of a replaced one; three levels
are the first at which a record is neither the parser's own nor the innermost.
The parser uses a handle for each level, two in a running callback, and one for
the result: six.

The schemas have every keyword by itself, every ordered pair of seven schemas under
each of `allOf`, `anyOf` and `oneOf`, and combinators inside objects, arrays, each
other and references. The seven are refused at the first event, inside an array,
at a member, and at the end of an object, so the parts of a pair leave at every
relative order. Documents have up to two elements or members and three levels.
Of a default that is refused, each key and each set of keys that come after it.
In `validation`, `not` is applied to schemas that refuse at the first event, in an
array, or with the last frame of their stack; the others are `validation_not`.

`parts` is one run because its components share no state; each has its own bounds.

- Memory pool: a buffer of 4 bytes and 3 blocks of 1 to 5 bytes: a last block, one
  before it, and one on the heap, and every alignment of `prev` and `current`.
- Parser pool: 2 static parsers and 3 threads, so that one is turned away to the heap.
- Strings: 2 threads, 3 chunks of 2 bytes, 3 strings of 1 or 3 bytes: a chunk
  with two strings, one too long for an ordinary chunk, a chunk unlinked from the
  middle of a list while another thread releases. Chunks are symmetric.
- Splice: arrays that hold nothing, one or three elements, which they may share, every
  index and count, every ownership with either array, 2 splices after each other,
  7 slots, with and without assertions.
- Values: a table of 14, with both nulls, an integer and a double that are equal, an
  integer that becomes the same double, strings in one buffer, arrays and objects that
  begin alike; 2 duplicates, of originals or of duplicates.
- C++: 1 schema of a client beside `AllSchema`, 1 handler, 2 documents: one in the
  C parser while `m_dom` has the one before.
- Numbers: `Width` 8, `IntWidth` 5, `ExpWidth` 6, `Mantissa` 3, `LongMantissa` 5,
  `Scale` 8, `Tolerance` a quarter of 1, the digits 0, 1, 2
  and 8 and up to 6 characters: enough for a fraction that overflows, for digits
  cut off behind it, and for exponents beyond either end.
- Queries: 3 documents of 15 values, every selector by itself, pairs and chains of
  the combinators, groups, `:has` and `:expr` of them, 1 restart.
- Texts: an object with an array with an object in it, a part of that and a constant,
  2 threads, `YajlMaxDepth` 4 (it only bounds how deep the values are).
- Errors: all clients and parsers; no bound is needed.

`schemas`: three documents are the first number at which a schema that was supplied
brings another that is missing, or one the client's schema has already. The texts
have references into their own and other documents and under nested ids, and
documents that call themselves by another name. `Tokens` bounds what the schema
parser is given, `Deepest` and `Widest` nesting and lists, `Keys` and `Types` the variety:
the lengths reach a schema inside a list inside a schema, a key that is repeated, and
each feature beside each other one. `Matching` is how many patterns a key may match:
1 in `schemas`, since 2 is the subject of `schema_patterns`.

The specifications of `validation`, `dom_builder` and `parts` state no fairness: nothing
there must happen unless a client asks for it. That of `schemas` has weak fairness of
`ResolverStep`: `jschema_resolve` is a loop within one call, so it runs on, and the
client's callback returns. Following references, and building, is up to clients.

Fairness (`FairSpec` of `KeyDictionary`). A thread inside a call keeps running
(weak fairness). A thread that waits for the mutex gets it if it is free again
and again (strong fairness): pthread mutexes promise no order, but no
scheduler starves one waiter for ever. Nobody is obliged to call anything.
`LookupsReturn` is conditional: while other threads keep creating and
destroying the same name, a lookup may retry each time. It returns once the
releases cease.

## Proofs

`KeyDictionaryProofs` shows for any finite number of handles and any sets of
threads, names and blocks that `IInv` is inductive, and derives all safety
properties of `keydict_safety` and the refinement of `InternTable`. The
properties alone are not inductive. What has to be added: the mutex is held
exactly by the thread in a critical section (`MutexInv`), a lookup's handle is
its own (`RequestInv`), an owned key is in the table under its name
(`OwnerInv`), and a dying key has an entry exactly until its steal (`DyingInv`).
The last two meet in the central argument: while a dying key has its entry, a
lookup cannot insert another key of that name, so the destructor that searches
by content finds itself. At most one speculative bump exists, as it is made and
undone under the mutex (`CountInv`), so the counter of a dying key returns to 0
before anybody else looks at it.

`JValueGraphProofs` shows that `IInv`, the conjunction of the four invariants
`TypeOK`, `CountsExact`, `Acyclic` and `WellFormed`, is inductive: each call moves
references between places and changes the counter where it makes or drops one
(`Change`, `Balance`), the shifts of array elements permute the places
(`Rotate`), and an insertion adds edges from one block into a closed set that
does not contain it, so it closes no cycle (`Grow`). The conjuncts need each
other: the destructors find everything because of `WellFormed`, an object's keys
stay strings because a referenced block cannot die (`Referenced`, from the
counts), and `Grow` needs `WellFormed` to know a key for a leaf. `CallInv` adds
`SlotWaits`: while the element that a put replaces is released, the slot is an empty one of an
array the client holds, so no step of the release disturbs it, and the new value still
may go there.
`NothingUnreachable` then follows: of the blocks outside a closed set, one is
contained in no other of them (`Acyclic`), so whatever refers to it lies in the
set, which is closed. Reference counting leaks only because no cycle exists.

`DomBuilderProofs` extends that argument to the parser, for every depth of
nesting, every number of blocks, keys, handles and results. `DomInv` is inductive
together with the `IInv` of the values (`DomInductive`):

- `Slots`: a reference belongs to one variable of the parser or to one result. So
  what clean-up finds in the records is all there is.
- `Frames`: the records up to `Depth` hold distinct containers, each inside the
  one below. A replaced member cannot take an open container along, since the
  record refers to it, too.
- `Phase`: what a callback holds between two calls. Above all, a new container is
  empty when it goes into its parent, so `check_insert_sanity` never refuses it
  (`FreshSane`), and neither `jarray_append` nor `jobject_put` loses a reference.
- `Grammar`: the kinds of the open containers and the pending key agree with the
  stack of yajl.
- `Kept`: nothing was improper, and no reference is lost.

Each action has its lemma; most are instances of a few: a call that fills one
handle (`TakesApart`), one that takes references from variables (`GivesApart`),
one that leaves the records alone (`CalmFrames`). `StepIsCall` shows that each step
is a call `JValueGraph` allows (`Call`: `Store` is not among them, as the parser replaces no
element), hence `DomRefinesSpec`: what is proved of the values
holds of the parser. `NothingLeftBehind` combines both: with all variables empty
the empty set is closed and contains all references, so by `NothingUnreachable`
nothing is in use.

`DomTreeProofs` shows the refinement itself: `DocumentBuilt`, for every document, every
finite set of blocks and any keys. `TreeInv` is inductive together with the two
invariants above: an array holds its elements without gaps (`Packed`), an open
container is held by the one below it in the stack and by no other, and one that has no
place yet by none (`Chained`), and a key or string that waits spells what the text had
(`TokensKept`).

- A tree is read off the heap by a recursive function. Nothing holds itself, so every
  set of blocks has one that holds none of the set (`HasSink`): this is the induction
  over trees, by a least set that would have none. From it, `TreeOf` obeys its
  definition (`TreesExist`), and blocks that keep what they hold keep their trees, if
  the set of them is closed (`SameTrees`).
- What is complete is in no open container's way: the blocks below a finished member
  are none of those being filled, and no step touches them (`DoneTrees`).
- The open containers are then one document: each is what it holds, with a hole where
  the next one hangs. A token that begins or ends a container changes the last two of
  that list, any other the last one, exactly as in `Document`; a member with a key that
  is there already replaces one on both sides.
- Each action has its lemma, and most are one of three kinds: the callback only moves
  references (the document stutters), it puts a value into the innermost container, or
  it opens or closes one.

`PartsProofs` has six components. Its first part shows for any finite set of threads
and any number of static parsers that no parser is in two hands and none is
forgotten. `PoolInv` adds to the types that the mutex is held by exactly the thread
that reads or writes the table (`LockInv`), that what a thread has found is still free
when it marks it (`FoundInv`, which needs `LockInv`), that marks and holders match one
to one (`HeldInv`), and the count of the heap (`HeapInv`).

The memory pool: a buffer of any size. The key is `Placed`: only the last block reaches
beyond `m->prev`. So it may grow in place, and the copy of a block that moves, which the
code bounds by `m->current`, is never too short.

String memory (`PartsProofs`): any threads and chunks and a finite set of strings. A
pool is a linked list in memory; it is stated as the least set closed under the
`prev` links (`ListFrom`), and that it has no cycle as "no chunk is in the list that
starts behind it" (`NoCycle`), which spares an induction over its length.
`LongerList` and `ShorterList` are what a chunk added and a chunk unlinked do to
it. `StringInv` has the lists apart from each other and within allocated memory
(`ListInv`), the strings of a parse in its pool and those of finished documents in
none (`HomeInv`), strings within the used part of their chunks (`PlaceInv`), exact
counts (`RefInv`), and one thread for each chunk that is counted down to 0
(`DyingInv`). `HomeInv` is what makes the unlinking safe: a thread in a parse finds the
chunk in its own list and in no other.

Error reports (`PartsProofs`): a lemma for each operator, so that the steps need not look
into them: yajl stands still exactly since something went wrong (`BrokenInv`), from then
on everybody is told no but the handlers that continue (`TellInv`), and a parser
nobody feeds is a new one (`IdleInv`), after any number of parsers and feeds.

Splicing (`PartsProofs`): arrays of any capacity, fillings and number of splices. A splice
is a loop over two arrays, and the invariant says what its remainder will do: `Ahead`
gives each element of the result as one of what is in the arrays now, so that the
last step has nothing left to show. `LoopFits` keeps the indices within the arrays,
`OnlyPresent` says which slots are in use while a transfer leaves a gap in the other
array, and `Counted` that counters equal the slots that hold an element. Each round takes
the element at `j` out of the first place of what is ahead. All of this is claimed
until `spTorn`; the order also not after `spEntangled` (`SpliceIInv`). Where an assertion
fails the loop is one of a transfer, as without one array2 keeps its size and `j` its bound.

The C++ parsers (`PartsProofs`): `CParserOfObject` ties what is in the memory of a C parser
to the phase of its object; above all that a deinitialised one is only ever met after a
`begin` that said no, and that its validators are of the object's schema unless a reset or a
parse has changed it. `DocumentMade` and `DocumentTaken` are the two ways references to
documents move; the rest is one lemma for each call.

`SchemaResolverProofs`: any finite set of files, any texts with any references and nested
ids, any stack of scopes. `LoopInv` needs no discipline: the table always has
the client's document, what is asked for is in the table and empty, a visit's stack
of bases is that of the scopes around it. From this `ResolveAnswers` follows. With
discipline, `WholeInv` says that a document is in the table in full or not at all
(`Whole`), and that what each reference was made to look for is what its author
meant (`LeadsTo`). `Rooted` relates the stack of base URIs to the nested ids of a
text, for any depth, by taking the innermost id that names a document (`Naming`).
`FragmentsStay` is an action property: what was in the table stays, so a reference
followed again finds the same part.

The order of values (`JValueProofs`): values of every type, nested to any depth and
shared in any way. The comparison and the equality are recursive functions, and the
library's theorems about recursion are out of reach of the provers (see below). Two
ideas replace them. That a recursive function equals its body is shown by building, for
a least table row where none exists, the function one row longer (`CompareExists`,
`EqualExists`, `BelowExists`). And a law that fails has a least failing value
(`LeastValue`), whose parts obey the law, which contradicts the laws of `Lexicographic`
(`LexOpposite`, `LexTransitive`, `LexZero`): so answers turn round with their arguments
(`Antisymmetric`), they follow from one another where no numbers below are blurred
(`Transitive`; `SharpHeld` hands that down to the parts), and equality agrees with it
where nothing is `Confused` (`ZeroEqual`, `EqualZero`). `SortedExists` shows that
sorting the keys gives a sequence at all. For duplicates, `Mirrors` is inductive: later
rows change nothing about what is below an earlier one (`GrowsBelow`).

Texts (`JValueProofs`): any values and threads, members in any order. What must be shown
is that a walk, interrupted anywhere by other threads, still ends with a text of its value
(`TextsOf`). What a thread has left to tell is a chain of calls: each link takes the
generator's states, and a set of things that may still be written, to the next states and
set (`Link`, `Chain`). A call for a value stands for whatever texts the value has; when
it is made and the value is a container, its link is replaced by a chain for the items and
the end (`ContainerLeads`). So the text so far, with anything that may follow, says
the value (`Walk`), and every callback keeps it so (`WalkOn`), for the separators yajl
writes of its own accord as well. That `TextsOf` obeys its definition is shown by building
it for ever deeper values (`TextsExist`). The rest of `GeneratorInv` says who owns which
text: no value that is being stringified keeps one (`AskedApart`), a destructor is
set exactly for a text of the value's own (`TextsOwned`), and a client's text is
the value's (`TextsHeld`). `GenValuesAssumption` asks that values nest finitely, and
less deep than yajl's generator has states for.

The proofs assume `NoneAssumption`, `HandlesFinite`, `MaxSizeAssumption`,
`ConstsDiffer`, `FiniteConstants`, `DomAssumption`, `NamesAssumption`,
`PoolSlotsAssumption`, `NobodyAssumption`, `UsersFinite`, `MemSizeAssumption`,
`NoBlockAssumption`, `SizesAssumption`, `StringsFinite`, `NilAssumption`,
`CapacityAssumption`, `ElementsAssumption`, `FillingsAssumption`, `MannersAssumption`,
`TablesAssumption`, `RoundingAssumption` (greater integers become no lesser doubles),
`CxxNamesAssumption`, `GenValuesAssumption`, `FirstAssumption` and `WorldsAssumption`,
which TLC evaluates in the runs.

Only model-checked: liveness (out of reach of the prover), validation, the schema parser
and queries (they recur on documents, validators and generators with RECURSIVE
operators, which the provers cannot take), numbers (bit patterns and texts), and the
violations. Induction over data as such, with a theorem that takes a predicate, is out
of reach as well; what is proved of the recursive functions of `JValueOrder`,
`GenStream` and `DomTree` goes by least counterexamples instead.

## Findings

- `keydict_counter_check`: after a decrement that was not the last, `j_release`
  reads `m_refCnt` again (`jobject.c:366`) with no reference of its own.
- `dom_result`: `jdomparser_get_result` (`jparse_stream.c:1352`) returns what has
  been built although the parse failed; `jparse_stream.h:320` promises an
  invalid value. `jdom_create` and `jdom_parse` ask for the result only after
  success.
- `graph_append`: `jarray_append` (`jobject.c:1230`) does not release a value it
  refuses; `jobject.h:721` calls it equivalent to `jarray_put`, which does.
- `validation_not`: `not_check` (`combined_validator.c:211`) keeps a part that has
  refused as long as its stack is not empty; its comment says that such a part is
  not kept. `{"not":[{"properties":{"a":{"type":"number"}}}]}` refuses
  `{"a":"text"}`.
- `schema_patterns`: where `additionalProperties` is false (`object_validator.c:149`),
  `object_pattern_properties_find` (`object_pattern_properties.c:119`)
  puts validators into a new `anyOf` without counting them, while
  `object_pattern_properties.h:64` tells the caller to release the result: that frees
  validators the schema still holds.

Seen while modelling, where code and comment differ but no run is about it:

- `jarray_splice` asserts that the index is within array2 (`jobject.c:1323`, 1357), which
  `SPLICE_TRANSFER` makes shorter with each element. Two or more elements from the end, what
  `jarray_splice_inject` and `jarray_splice_append` take, stop every build but RELEASE, which
  alone defines `NDEBUG`. `SplicedAsAsked` lets transfers stop there and nothing else.
- `jdouble_to_i32` and `jdouble_to_i64` (`num_conversion.c:654`, 707) answer `CONV_OK` within
  1e-9, 1 for 1.0000000001; `jobject.h:1150` calls that an accurate value, and
  `jconversion.h:50` wants the flag for a double with decimals.
- The integers 2^53 and 2^53 + 1 both compare as equal to the double 2^53 (`jobject.c:1805`),
  and not to each other, while `jobject.h:126` tells less, greater or identical and gives
  rules of ordering.
- `jobject.h:768` says that `jarray_splice_append` appends; it inserts in front of the last
  element (`jobject.c:1391`).
- `jobject.h:261` lets a text of `jvalue_tostring` live as long as its value; the next
  call on the value frees it. For constants that call may be another thread's.
- `jcallbacks.h:55` calls every field of the error callbacks optional; `m_unknown` is
  called without a look (`jparse_stream.c:783`).
- `jquery.h:53` says that `jquery_next` returns results for the document of the last
  `jquery_init`; generators further down still have values of the earlier one.
- A number like `1000000000000000000.1` is called an overflow (`NumConversion`, `wraps`).
- A value nested deeper than 128 is cut off in its text: yajl's generator refuses it, and
  every status is dropped (`jgen_stream.c:59`). `GenStream` excludes such values.
- `m_inRecursion` of a resolver is raised and never lowered (`jschema.c:168`).
- `JParser`'s copy constructor dereferences the wrapper of a resolver that may be null.
- The four faults of the C++ parsers, under `CxxParser` above.
- The newer interface keeps a refusal of the schema as such, but `jsaxparser_get_error`
  returns yajl's "client cancelled" with it; the older reports it as a syntax error.

## Plan

The most important behaviour came first: the dictionary, the values, the DOM builder
and their proofs; then validation, the allocators, splicing, numbers, queries, texts,
error reports, and schemas with their references; then comparing and copying values, the
C++ parsers, and proofs of all that stands under Proofs. Left, in this order:

1. `DomBuilder` with `Validation` instead of a validation that refuses at will:
   `uniqueItems` asks the builder, and defaults go through it into the tree, also
   into one that is being traversed.
2. Texts with repeated keys in `Validation`, which needs a meaning of schemas for
   them first.
3. The conversions of `NumConversion` at all widths.

## Not modelled

- The rest of the C++ binding (`src/pbnjson_cxx/`): the operators and iterators of
  `JValue`, `JGenerator`, `JValidator`, `JQuery` and the copy constructor of `JParser` forward
  to one call of the C API each.
- Logging and `debugging.c`: nothing else reads what they keep.
- `pbnjson_validate`: a command-line tool around the library, input and output only.
- The tables Lemon generates and the lexers: the grammars are modelled by their
  reductions, and take sequences of tokens.
- yajl, URIs as texts, regular expressions, `strtod`: external, represented by what
  the code expects of them.
- Files: `jdom_fcreate` and schemas read from disk map a file and pass its text on.
- Wording and layout: messages of errors, indentation and escapes of texts, doubles
  of more than the 14 digits that `jgen_stream.c:124` prints.
- `TOP_Object` and `TOP_Array` streams, which nothing opens; `jsax_changeContext`, a
  setter; `madvise`, which only tells the system about memory.
- Failing allocations: most of the code does not handle them.
- What the rules of the API forbid: one value used by two threads, a container changed
  while it is walked, a handler that releases its parser.
