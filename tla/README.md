# get1t in TLA+

get1t reads a file of n-gram queries (tokens, any of which may be the wildcard
`<*>`), makes one pass over a directory of gzipped n-gram counts (the Web 1T
corpus), and writes the count of every query. These modules model the program:
`TLC` checks them on small instances, `tlapm` proves theorems about all the
detailed ones for every value of their constants.

    tlc -config MCQueryTrie.cfg MCQueryTrie.tla     # one run; see the table below
    tlapm QueryTrieProofs.tla                       # all proofs of a module

## 1. The system

get1t is one process with one thread. `main` (`g1tmain.c:48`) goes through its
phases in order: options, queries, corpus, output. Nothing is stored between
two invocations. What is hard about it is therefore not concurrency but shared
structure, buffers that are changed in place and retried, and errors in the
middle of a long sequence of calls.

| component | state it keeps | operations | where |
|---|---|---|---|
| query tree and counting pass | `counters->queries`, a tree of hash tables of depth n; `wordTable`; `counthits`/`numhits`; `bigcount` | `addQuery`, `incrementQueries`, `incrementWords` | `g1tquery.c:149`, `g1tproc.c:38`, `:177`, loop of `g1tinp.c:263` |
| hash table library | `htbl`, `currentsz`, counters of used and deleted slots, error bits | `hshinit`, `hshinsert`/`reorganize`, `hshfind`, `hshdelete`, `hshwalk`, `hshkill` | `hashlib.c` |
| hash table items | `exactitem` (token, pointer to a counter), `setitem` (token, table) | hash, compare, duplicate, free | `g1thash.c` |
| tokeniser | none of its own: cuts the caller's buffer in place, may enlarge `originalline` | `cleanline` and four variants | `g1ttok.c` |
| corpus reader | two buffers of two blocks each, `curbuf`, `curpos`, `bufpos`, the directory stream; with `NOZLIB` one buffer that grows | `findHits`, `findFileHits` | `g1tinp.c` |
| query file reader | a line buffer | loop of `makeCounters` | `g1tquery.c:104` |
| co-occurrence counting (`-o`) | the same tree with n = 2; both orders of a pair share one counter | `addTokPair`, `incrementCooc`, `rationaliseCounts` | `g1tquery.c:256`, `g1tproc.c:114`, `g1tout.c:95` |
| output | `outputState`: the path of tokens walked so far and its depth | `writeTotal`, `writeWordCounts`, `writeNgramAndWildCounts` | `g1tout.c` |
| main and options | the global option variables | `parse_args`, the phases | `g1tmain.c` |
| debug printing | none | | `g1tdebug.c` |

How they interact: `findHits` reads a block and hands each line to `cleanline`;
if the number of tokens is right, `findFileHits` calls `incrementWords` (under
`-s`, `-r`) and `incrementQueries`, which look tokens up in the tree through
`hshfind`; a line some query matched is printed from the copy `cleanline` made.
Callbacks go from the hash library into `g1thash.c` (hash, compare, duplicate,
free) and into `g1tout.c` (walks).

What makes each component correct, and what is hard about it:

- *Tree*: a line matches up to 2^n queries, which share inner tables. Each
  matching query must be counted exactly once, through backtracking that goes
  along the line's token and then along `<*>` at every level.
- *Hash library*: probing without a bound, tombstones, growth in the middle of
  an insertion, counters that must agree with the table, an allocation that may
  fail at any point, and error bits that stay set.
- *Tokeniser*: a partial line is cut, found to be partial, and put back so that
  it can be cut again, from a copy or from one remembered tab position.
- *Reader*: a line may span two blocks; the overhang moves to the other buffer.
- *Query file*: a line buffer that still holds earlier lines, and a tokeniser
  that is not told how much of it is new; lines that are dropped.
- *Co-occurrence*: counters with two owners, whose pointers tell pairs apart
  during the count, and one of whom must give up his before they are freed.
- *Output*: one array and one depth shared by all levels of a recursion.
- *Main*: files that cannot be opened or read, at every point of the sequence.

`PROJECT.json` lists these hazards one by one, each with its line and with the
property that would notice it going wrong, or why none does yet.

## 2. The modules

    NgramCounts <--- QueryTrie <--- MCQueryTrie          (<--- : implements / extends)
                         ^--------- QueryTrieProofs
    KeyStore    <--- HashLib   <--- MCHashLib
                         ^--------- HashLibProofs
                     Tokeniser <--- MCTokeniser
                         ^--------- TokeniserProofs
    LineStream  <--- LineReader <-- MCLineReader
                         ^--------- LineReaderProofs
    PairCounts  <--- CoocCounter <- MCCoocCounter
                         ^--------- CoocCounterProofs
                     QueryFile <--- MCQueryFile
                         ^--------- QueryFileProofs
    Get1t (over NgramCounts and LineStream) <--- MCGet1t
                         ^--------- Get1tProofs <--- AnswerProofs

`NgramCounts`, `KeyStore`, `LineStream` and `PairCounts` are abstract specifications: what a
user of the component is promised. The module to the right implements each under
a refinement mapping; that is the property `PromiseSpec` (or `StreamSpec`).

In every detailed module an operator that no action uses, standing just before
another of the same shape, is a wrong version of it (a forgotten reset, an
off-by-one, a dropped guard): put in the other's place, it makes the
property meant for it fail.

### NgramCounts, QueryTrie

`NgramCounts` says: queries are collected; then every line adds its count, in
one step, to each query that matches it; words are counted by occurrence (`-s`)
or by line (`-r`); `-i` lists the lines that matched.

| QueryTrie | code |
|---|---|
| `sets`, `leaves`, `count` | the tree below `counters->queries`; a table is named by the path to it; `*exactitem.count` |
| `words`, `wordCount` | `counters->wordTable` |
| `choice`, `at` | the C stack of `incrementQueries`: which of the two lookups led into each table, and what is next in the top one |
| `counthits`, `i` | the array `counthits[0..numhits-1]`, the loop index of `incrementWords` |
| `asking`, `pos`, `level` | `wstarts`, the loop index and `currentQueryLevel` of `addQuery` |
| `AddQuery`, `EndQueries` | a call of `addQuery` in the loop of `makeCounters`; the end of the loop |
| `AddSet`, `AddSetFails` | the find or insert of a `setitem`, and the way into its table; an insertion that fails ends the program |
| `AddLeaf`, `AddLeafFails` | that of the `exactitem` of the last token; nobody looks whether it failed |
| `AddWord`, `AddWordFails` | the insertion of the token into `wordTable`, likewise, and the next turn |
| `ReadLine`, `EndLine` | `findFileHits` before and after the counters get a line |
| `IncrementWord`, `OverrunHits`, `EndWords` | one turn of `incrementWords`; its store past `counthits`; its end |
| `LookupExact`, `LookupWild`, `LookupLeaf`, `Return` | one lookup of `incrementQueries`; both lookups in a table of leaves; its return |

The mapping gives the promise the queries and counts as they will be once the
query or the line in progress is done: `FinalQueries` has the query that
`addQuery` is at until its leaf turns out not to fit into memory, and
`Pending(q)` says, from the stack alone, whether the walk has still to come by
the leaf of `q`. A query or a word that could not be inserted is what
`NgramCounts` calls `Lose` and `LoseWord`: the promise then is that of the others.

Hash tables are sets and functions here, which `HashLib` justifies. Tokens are
compared as the tokeniser delivers them. Assumed: the corpus does not contain
the token `<*>` itself, lines have n tokens and a count (`findFileHits` takes
another line for an incomplete one, reads on, and counts it with what an earlier
line left: `g1tinp.c:342`, a hazard listed in `PROJECT.json`).

### KeyStore, HashLib

`KeyStore` is a set of keys with insert, find and delete, whose failures stay on
record. Its action `Lose` says what remains of the promise once they do.

| HashLib | code |
|---|---|
| `htbl`, `currentsz`, `hentries`, `hdeleted`, `herror` | `master->htbl`, `->currentsz`, `->hstatus` |
| `Slot`, `FirstProbe`, `Hunt`, `Landing` | the probing loops of `putintbl` and `huntup`; `Landing` has `putintbl`'s early end once `herror` is set |
| `NewSize`, `TSPACE`, `TTHRESH` | `ithprime` and the choice in `reorganize`; the macros |
| `HshInsert`, `BeginReorganize`, `ReorganizeFails` | `hshinsert` up to the table having room, needing a new one, or getting none |
| `MoveEntry`, `EndReorganize`, `SanityFails` | one turn of `reorganize`'s loop; its end, with and without success |
| `Put` | `putintbl` of the new item, with a failing `dupe` |
| `HshFind`, `HshDelete` | `hshfind`, `hshdelete` (`get1t` never calls the latter; the library offers it) |

`hash` and `rehash` are arbitrary functions. The probe and miss statistics are
not modelled; `hshwalk` and `hshkill` are in `CoocCounter` and `Get1t`, as visits
of the items in any order.

### Tokeniser

`cleanline` one character per step, with its caller: `SkipNewline`,
`NothingLeft`, `Dispatch` are `cleanline` itself; `Lettered`, `Separator`,
`LineEnd` one turn of the loop in `cleanOnly`, `cleanIgnoreCase`, `cleanCopy`,
`cleanIgnoreCopy` (the constants of a behaviour, `copying` and `ignoreCase`,
say which); `OutOfInput` undoes a partial line; `Grow` enlarges the copy and starts
over; `ReadMore` and `CallNext` are the next calls of `findFileHits`. Characters
are what the code distinguishes: a letter in either case, space, tab, newline.

Assumed: a line begins with a token; there is no vertical tab or form feed
(which are spaces but not separators); a line has at most n + 1 tokens, so that
`wstarts` is large enough. The last one is listed under the hazards.

### LineStream, LineReader

`LineStream` delivers every line of every database file once and in order, and
reports the files it gives up. `LineReader` is `findHits` and `findFileHits`:
`SkipEntry`, `OpenFails`, `Open` for a directory entry; `CutLine` a line that is
complete in the buffer; `MoveOverhang`, `Refill`, `Retry` the other case;
`AtEnd`, `ReadFails`. The buffers hold the *places* of characters in the files,
so that a character from elsewhere cannot pass for the right one. `cleanline`
is abstracted to what module `Tokeniser` shows of it (`RefusedIffPartial`,
`TokensRight`). It shows that only for lines that fit into the first copy: with
`-i` (`wild`), a line that does not comes back with fewer tokens, as `tokens_long`
has it, and then takes the path of a partial line and is counted with stale
starts (`g1tinp.c:342`). `CopyFits` marks these lines, and `CutLine` and `Retry` of
one lead to `undefined`, of which nothing is said.

The build with `NOZLIB` is the same module with `zlib` false: `Fread` takes a
block from the pipe into the one buffer if it has `Room`, `Double` makes room,
`SkipChar` passes
over what is no line, `EndBuffer` ends the file.

Assumed: for the build with zlib, a line, with the empty lines before it, fits
into a block (102400 bytes in the code), and a file ends with the newline of its
last line. The other build needs neither, and is also checked with files that
end in blank lines or in the middle of a line (`Ragged`). For both builds, with
`-i`, a line with its end fits into the first copy (1024 characters in the code,
`originallinelength` here, `ShortLines` in `Init`): `NeverUndefined`, `RoomForBlock`
and `StreamSpec` are all stated under these limits, and none holds of the program
for longer lines. The lines of the corpus are shorter.

### PairCounts, CoocCounter

`PairCounts` says: queries are unordered pairs; a line adds its count once to
each pair of which it has both tokens, in different places; each pair is written
once, with its tokens in the order of strcmp, whichever was asked for (see
section 3). It does not promise that of a pair of a token with itself (see
`cooc_self`).

| CoocCounter | code |
|---|---|
| `starts`, `leaves` | the items of `counters->queries`, and of the tables below |
| `counter`, `cleared`, `heap`, `freed` | `exactitem.count` as `addTokPair` set it, whether it is NULL now, what it points to, whether that was freed |
| `AddTokPair`, `AddOtherOrder`, `AddReturns` | the two turns of `addTokPair`'s loop, its return |
| `LookupPair`, `LookupStart`, `OverrunHits`, `EndLine` | one lookup of `incrementCooc` in a table found before, one in the table of first tokens; the store past `counthits`; the end |
| `Rationalise` | `doRation` for one item |
| `WriteQuery`, `FreeExact` | `writequery`; `freeexact` |
| `table`, `todo` | two nested `hshwalk`s (or `hshkill`s): table by table, in any order |

The mapping gives each pair the count it will have once the line in progress is
done, as in `QueryTrie`. Modelled without `-s`, `-r` and `-i`, which do the same
here as for n-grams, and with allocations succeeding.

### QueryFile

The loop of `makeCounters` over `fgets` and `cleanline`. The buffer starts with
anything and keeps what a line does not overwrite; `cleanline` works on all of
it. `CutLine` and `RefuseLine` are the two ends of `cleanIgnore` (or, with `-c`,
`cleanPlain`), a line per step, on lines of any shape (blanks at either end,
nothing but newlines). `cleanIgnore` makes the letters of the buffer lower case,
and they stay so when a line is refused (`Simplified`, in `Cut` and `Restored`).
`AskedRight` compares the queries with `Owed`, which is defined on the file
alone, in lower case unless `-c` is given. What the code does and the property states as it is: a last line without
a newline is dropped; a line too long for the buffer is dropped, but what follows
its first 10239 characters counts as a line; a blank line may add a query whose
first token is empty, which no line of the corpus matches; a read error ends the
file. A carriage return occurs only before a newline, and there are no tabs here.
`InOrder` lists the members of a set of numbers; `tokens` is the starts of the
tokens in the order in which the scan meets them.

### Get1t

`main` from `makeCounters` to its exit, over what the other modules promise:
`Ask` and `CountLine` are steps of `NgramCounts` (with `-i` if the file of matches
could be opened, without otherwise: `Listing`, `Quiet`), `CountLine` and `NextFile`
steps of `LineStream`, with the grams of a file in place of its characters. The
output is modelled in full: `walks` are the calls of `hshwalk` in
progress, `query` and `currentDepth` the fields of `outputState`; `EnterSet` and
`LeaveSet` are `writeNgramAndWildCountsR` before and after the walk it starts.
`OpendirFails`, `FopenFails`: the two kinds of failure `main` meets; the second
is a crash, as nothing looks at the result of `fopen`. n is 2 or more (with n = 1 the
output is one flat walk, like that of `WriteWordCounts`).

## 3. The runs

| run | instance | states | shows |
|---|---|---|---|
| `trie` | trigrams over 2 words (and one of 3), 2 queries out of 19, 7 lines, one failing insertion, `-i`, with `-s`, `-r` and neither | 1.1 M | `PromiseSpec`: each line counted once per matching query, and listed once, words by the mode; `TreeHoldsQueries`, `WildcardTotal`, `GeneralCountsMore`, `WordsCoverQueries` |
| `query_lost` | all trigrams over 2 words, the same without `-i` | | **violation** of `QueriesKept` |
| `hits` | bigrams, `-r` | | **violation** of `HitsFit` |
| `hash` | 4 keys, sizes 5 and 7, 2 x 2 hash functions, failing allocations | 237 k | `PromiseSpec`, `Reachable`, `RoomLeft`, `CountsExact`, `SanityHolds`, `InsertReturns` |
| `hash_loses` | the same | | **violation** of `ReinsertsAll` |
| `tokens` | first line up to 4 characters, then nothing or more lines, first copy of 3 | 242 k | `TokensRight`, `CopyRight`, `RefusedIffPartial`, `Returns` |
| `tokens_long` | the same | | **violation** of `CountsTokens` |
| `reader` | two entries, texts up to 12 and 5 characters, blocks of 3, both faults, both builds, `-i` with a first copy of 2 | 446 k | `StreamSpec`, `RoomForBlock`, `NeverUndefined`, `AllRead` |
| `cooc` | lines of 3 tokens over 3 words, up to 3 counters, total 2 | 446 k | `PromiseSpec`: each pair counted once per line and written once, in the order of strcmp; `CounterPerPair`, `FreedOnce`, `AllFreed`; `Finishes` |
| `cooc_self` | the same with `-z` | | **violation** of `EveryPairWritten` |
| `queries` | files of up to 3 lines out of 16, a buffer of 7, 1 or 2 tokens, with `-c` and without, two contents of the buffer | 682 k | `AskedRight`, `Ends` |
| `get1t` | trigrams, 3 queries out of 5, 5 directories, all options | 525 k | `AnswersRight`: at exit 0 the report is the sums over the database; `RowsRight`: the walk reports each query once with its own count; `PathNamed`; `Exits` |

**Bounds, and why they are enough.** `MaxQueries` = 2: interference between
queries is between two that share a beginning, and n = 3 gives a tree with an
inner table, a terminal one and leaves, so every pair of `<*>` positions occurs.
One failing insertion (`MaxFailures`) leaves a query without its leaf, a word
without its counter, or the program aborted, before, between and after queries
that share tables with it.
`MaxTotal` caps `bigcount` (`long long` in the code) and admits a line with a
count of 2 or two lines. A line of three tokens over two words has a word twice,
which `-s` and `-r` treat differently; the one line of three words is where
`-r` stores more hits than there is room for. `Queries` and `Lines` leave out
what differs from the rest in the first token only: no query begins with the
second word, since `a` and `<*>` are two beginnings that a line may have, and two
lines that begin with it are enough, as they take the second of these only. In
`hash`, a table of 5 has room for 3 items, one of 7 for 4: three items and
a tombstone, growing, cleaning up in place, and the end of the prime table all
occur; the hash functions make all keys collide, with equal and with different
steps, or form clusters that meet. `Eighth` is 2 instead of 8, so that such
small tables have free slots. In `tokens`, four characters hold two tokens with
a tab or two separators between them, and a copy of 3 is too small for some of
these lines and has to grow. In `reader`, twelve characters are four blocks, so
both buffers carry an overhang more than once; the second file finds what the
first left behind; a buffer of 4 has to double twice. In `cooc`, three words give
every pair, of equal tokens too, a partner that shares a token with it, and a
line of three tokens holds three pairs or one pair twice, in both orders. In `queries`, a
buffer of 7 is overfull with a line of two tokens, and three lines are one that
leaves something, a blank one, and one that shows the damage. In `get1t`, n = 3
is the least n where the recursion of the output calls itself, and the queries
share no, one or two tokens at their beginning.

**Fairness.** The thread never waits for anything but `gzread`, which returns.
So each module has weak fairness on the steps of a call that is under way
(`ProcessQuery \/ ProcessLine`, `Reorganize \/ Put`, `cleanline`, and in `CoocCounter` a call of
`addTokPair`, a line, and the output) and, in `LineReader`, `QueryFile` and `Get1t`, on the
whole of `Next`, since the directory and all files are finite. No action of an
environment (a new query, a new line, a new call) is assumed to happen.
Deadlock is not checked: the program ends, and the bounds stop the models.

**Disagreements with the documentation.**

1. `hits`: `procPrep` "ensure[s] required memory buffers are allocated"
   (`g1tproc.c:231`) with n - 1 entries for `counthits`; a line of n distinct words that are all
   asked for stores n of them under `-r`.
2. `hash_loses`: `reorganize` is to "reinsert all entries from the old table in
   the new" (`hashlib.c:257`). `herror` is never reset and cuts probing short,
   so after one failed insertion a later reorganization drops colliding entries
   and its count still adds up. `KeyStore!Lose` is this weaker promise.
3. `tokens_long`: "Return value is the number of tokens found" (`g1ttok.c:43`).
   When the copy has to grow in the middle of a line, the second try meets the
   NULs of the first, which are not spaces, and the tokens before them become
   one. `TokensRight` and `CopyRight` are therefore stated for lines that `Fits`.
4. `cooc_self`: the output "contains the totals for each query" (`README.txt:79`).
   A pair of a token with itself is accepted and counted, but `doRation`
   (`g1tout.c:134`) takes its one item for the other order, and clears its
   counter: it is never written, not even under `-z`, nor freed.
5. `query_lost`: the same sentence. When the last token of a query cannot be
   inserted, `addQuery` does not notice (`g1tquery.c:221`), although it aborts when
   a token before it cannot: the query has no total and nothing says so.

Four more have no run of their own, because the promises are stated as the code has
it, and what the code does is plain from it. A passing run does not vouch for the
words of the documentation here:

- `-r`: the help text says "each word is counted once per query it occurs in"
  (`g1tmain.c:158`). The code counts a word once per line of the corpus it
  occurs in, however many queries have it, and on lines that match none of
  them (`g1tproc.c:177`). `NgramCounts!WordShare`, and with it `PromiseSpec` of
  `trie` and `AnswersRight` of `get1t`, follow the code.
- `-o`: totals are "reported in the same way the query was specified"
  (`README.txt:79`). Of the two orders of a pair `doRation` keeps the one whose
  smaller token is first (`g1tout.c:117`), so a query `b a` is reported as `a b`.
  `PairCounts!Write` has this order.
- Case: the same sentence. Without `-c` queries are made lower case when they are
  read (`g1ttok.c:124`) and reported so. `AskedRight` says as written under `-c` only.
- Under `-i`, a line of more than 1024 characters with its end is counted with the
  tokens of another one (`tokens_long` for the tokeniser's half, `g1tinp.c:342` for the reader's).

## 4. The proofs

All proofs are complete: no step is left out, and nothing but the named assumptions of the
modules is taken for granted.

**QueryTrieProofs**, for every n > 0, vocabulary, mode and set of counts
(`NAssumption`, `WordsAssumption`, `CountsAssumption`, `ModesAssumption`,
`InputsAssumption`, `FailuresAssumption`; the bounds
play no part).

- The inductive invariant `IInv` is `TypeOK`, `TreeHoldsQueries` and three parts.
  `LevelRight`: `addQuery` is in the table its tokens so far lead to, and the tree
  has it and all before it, whichever query put them there; that makes the path
  complete when the leaf goes in. `WordsKept`: until an insertion fails, every
  word of a query is in the table of words or will be when `addQuery` returns.
  `Phases`: where `at` can be. `TreeHoldsQueries` is needed even for the counts:
  where the walk finds no table, no query may lie below.
- `TypeCorrect`, `TreeClosed` follow from it.
- `TreeKeepsPromise` (`Spec => NgramCounts!Spec` under the mapping): `AddQuery`,
  `EndQueries`, `ReadLine` are the abstract steps `Ask`, `StartScan`, `Scan`, and
  `AddLeafFails` and `AddWordFails` may be `Lose` and `LoseWord`; all others leave
  the mapped state alone (`ProcessQueryMaps`, and lemmas `...Silent`). The heart
  is how `Pending` changes when the walk enters a table (`DeeperAgree`,
  `DeeperLater`, `LookupPending`), counts in one (`LeafPending`) and leaves one
  (`ReturnPending`).
- `WildcardTotalCorrect`, `GeneralCountsMoreCorrect`, `WordsCoverQueriesCorrect`
  are read off the invariant `Sums`, which says of the mapped counts at every
  step what the properties say between lines.

**HashLibProofs**, for all keys, hash functions and allocation failures, and any
table of sizes such that steps below a size reach all its slots (`FullCycle`, in
`SizesAssumption`) and a larger size has a larger threshold. That the twenty
sizes of `hashlib.c:107` are primes is the assumption `PrimesArePrime` of
`MCHashLib`, which TLC evaluates; that a prime has `FullCycle` is arithmetic
outside the project, except for the small sizes, where TLC evaluates it too.

- `IInv` is `TypeOK`, reachability of both tables, the relation of `hentries` and
  `hdeleted` to the table (exact without an error; with one, `hentries` is still
  an upper bound, which is what keeps a slot NULL), and `Moving`, the loop
  invariant of `reorganize`. `NullReached` and `FirstProbeFirst` justify the
  `CHOOSE` in the model by the termination of the probing loops.
- `TypeCorrect`, `ReachableCorrect`, `RoomLeftCorrect`, `CountsExactCorrect`, the
  action property `SanityHoldsCorrect`, and `TableKeepsPromise`
  (`Spec => KeyStore!Spec` under the mapping).

**CoocCounterProofs**, for every n > 1 and vocabulary, and every order of the
walks (`NAssumption`, `WordsAssumption`, `CountsAssumption`).

- `IInv` is `TypeOK` and five parts. `Counters`: an item has the counter of its
  pair. `Orders`: only between the two turns of `addTokPair` may an item be without
  the other order, and then `thecount` is its counter; without this the second
  turn could give a pair a second counter. `Scanning`: where `incrementCooc` is in the
  line, which bounds `hitstarts`. `Kept`: after the first walk one order of each
  pair is cleared, never the one with its smaller token first, and of a pair of
  different tokens not both. `Freeing`: what is
  freed are the counters of the items visited, so that an item that still has
  its counter is the first to free it.
- `TypeCorrect`, `CounterPerPairCorrect`, `FreedOnceCorrect` and `AllFreedCorrect`
  follow from it.
- `PairsKeepPromise` (`Spec => PairCounts!Spec` under the mapping) needs two more
  invariants over `IInv`. `Looking`: `hitstarts` holds the tables of the tokens
  before `i` that start a pair, and every pair of places already passed has used
  its counter. `Writing`: the rows are those of the visited items that kept
  their counter. `Sum(e)`, the counter of an item and what the line in progress
  has still to add to it, is then the mapped count of its pair, whichever of its
  two items one looks at, and only `EndLine` and the ends of calls change it.

**LineReaderProofs**, for every directory, block size, first size of the growing buffer and
set of faults, in both builds (`EntriesAssumption`, `DirectoriesAssumption`: with
zlib a line fits into a block, `BlockAssumption`, `JunkAssumption`).

- `IInv` is `TypeOK` and four parts. `Counted`: the lines delivered are those that
  end in what was passed (`Passed`, the offset less the overhang). `Cells`: the
  unread part of the buffer is the next characters of the file, which survives
  the change of buffers because it is said of places, not of buffers. `Phases`:
  what each point of the loop relies on; before a retry there is a whole line in
  the buffer, and only then. `Entries` has, besides types, that with `-i` the
  lines of the directory are short, from which `LineFits` has that `cleanline`
  returns all the tokens of one.
- `TypeCorrect`, `RoomForBlockCorrect` (what is carried over is shorter than a
  block, since it has no whole line), `NeverUndefinedCorrect`, and
  `ReaderKeepsPromise` (`Spec => LineStream!Spec` under the mapping). `NthEndIs`
  and `UptoNext` relate the number of a line to its place.

**TokeniserProofs**, for every text whose lines begin with a token, every way of
cutting it into blocks, every first size of the copy, and all four functions
behind `cleanline` (`TextsAssumption`, `OneKAssumption`).

- `IInv` is `TypeOK` and three parts. `Data`: a cell may have lost its case, and a
  separator may have become NUL, and this only on the line in progress and in
  what was read. `Cursor`: where the line begins, and that the copy is as far as
  the scan. `Tokens`, for a line that `Fits`: up to `curpos` the line is cut and its
  starts are in `wstarts`; from there on it is `Intact`. `Intact` is weaker than
  being the text: without a copy, a refused line gets back one separator before
  each token and loses the others. It says just what makes this enough: each
  token has a separator before it, and no NUL comes right after a separator,
  where it would be taken for a token.
- `SeparatorsRestore`, `CopyRestores`: the two ways of undoing a partial line make
  it `Intact` again. `GrowNever`: a line that `Fits` is never started over.
- `TypeCorrect` and `RefusedIffPartialCorrect` (for every line), and
  `TokensRightCorrect` and `CopyRightCorrect` (for lines that `Fits`; see
  `tokens_long` for the others).

**Get1tProofs**, for every n > 1, vocabulary, query file, directory and all
options (`NAssumption`, `QueryFilesAssumption`, `DirectoriesAssumption`: a gram is
a line of its own).

- `IInv` is `TypeOK` and three parts. `Counters`: the types of what is counted.
  `Nested`: the walk of level k goes through the table at the end of the first
  k - 1 tokens of the shared array, each of which its own level is done with, and
  `currentDepth` is what the number of walks makes it. `Written`: written are the
  queries that are wanted and that no walk has still in front of it (`Pending`).
- `TypeCorrect`, `PathNamedCorrect`, `RowsRightCorrect`.

**AnswerProofs**, under the assumptions of `Get1tProofs`, proves `AnswersRightCorrect`:
the report of a run that gave nothing up is the sums over the database.

- What is printed is compared with `SumFunctionOnSet` of the community modules,
  which is a recursion over a set. `SumIs` shows that it is some function that
  adds a member at a time (`AddsExists`, by the size of the set), and `SumMore`
  how a sum changes with one member more. Nothing else about it is used.
- `Delivered` are the places of the lines the corpus has handed out; `DeliverAdds`
  and `EndFileSame` say what the two steps of `LineStream` do to it.
- `JInv` holds besides the `IInv` of `Get1tProofs`. `Sums`: as long as no file was
  given up, each counter is the sum over the lines delivered that match. `Fresh`:
  while queries are added nothing is counted, so that a query asked for late has
  missed nothing. `Read`: output begins when no file is left. `Printed`: the
  total and the words written are what the counters hold. `SumsAnswer` puts them
  together with `RowsRight`, for the rows of the queries.

**QueryFileProofs**, for every query file over every alphabet in which a carriage return
is followed by a newline, every length of the line buffer from 2 on, number of
tokens, and earlier contents of the buffer (`TextsAssumption`, `LettersAssumption`: a
blank, a line end and NUL are no letters, `LengthsAssumption`, `FillsAssumption`).

- `IInv` is the types and three parts, one for each place in the loop, which say
  the same of it: what was asked, and what the rest of the file owes, is what the
  whole file owes. `Reading`: the buffer holds the line from some place on
  (`Holds`) and that line is still owed. `Cutting`: if the number of tokens is
  right, it holds with the query `Handed` added. This makes the line in
  progress part of the account, without which the step that cuts it and the one
  that hands it on could not be told to agree.
- A line is one of three. Without an end in the buffer it is refused (`NoEnd`).
  A blank one leaves cleanline at the NUL that fgets wrote, and whatever it
  finds there begins with an empty token (`BlankLine`). Any other ends inside
  what fgets read: its tokens begin where those of the file do (`StartsAre`,
  `Moved`), and each, read up to the NUL put behind it, is the token of the file
  (`CutEnds`, `StringIsToken`).
- With `-c` or without, cell by cell: `Simplified` makes no blank, line end or NUL
  of a letter (`SimplifiedIs`), so lower case moves no token, and each is
  `Read` as it should be.
- `OwedSolves`: the recursion from the end of the file has a solution, since every
  call of fgets but the last gets somewhere (`Delivered`).
- `TypeCorrect` (with it, that a line and its NUL fit into the buffer) and
  `AskedRightCorrect`. `IInv` was model-checked on the instance of `queries` as well.

**Only model-checked.** The liveness properties (`InsertReturns`, `Returns`, `AllRead`, `Finishes`, `Ends`, `Exits`): the installed
prover has no rules for ENABLED or fairness. Every invariant and every action
property of a passing run, and every refinement, is a theorem. Where a property
mentions a function defined by recursion (the sums of `Get1t`, `Owed` of
`QueryFile`), the proofs show that the recursion has a solution and use the
equation; a least counterexample (`LeastNumber`) replaces induction, because the
induction theorems of the library cannot be instantiated. That the modules of
different components fit together is shown only as far as `Get1t` uses the
promises `NgramCounts` and `LineStream`, which `QueryTrie` and `LineReader` are proved
to keep.

## 5. Not modelled

- Option parsing, default file names and help (`g1tmain.c:138` on): input handling.
- `g1tdebug.c` and the debug output: no effect on the state.
- The statistics and the string hashes of the hash library.
- `writeWildMatches`, `writeset`, `addexact` (`g1tout.c:211`, `:270`): no caller is
  left for them (`g1tmain.c:108`), and `wildMatches` stays empty.
- The end of gzip in the `NOZLIB` build: its exit status is not looked at
  (`g1tinp.c:245`), so that a damaged file is one that ends early (see `Ragged`).
- `-o` together with `-s`, `-r` or `-i`, and `-o` with n = 1, where the table of
  first tokens is made for counters (`g1tquery.c:78`).
- Failing allocations outside the hash library.

## 6. Plan

1. Proofs that join components: that a run of `Get1t`, seen through its counters,
   is a run of `NgramCounts`, and seen through its reader one of `LineStream`.
2. Failing insertions in `addTokPair` (`g1tquery.c:331`), as `addQuery` has them.
