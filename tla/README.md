# watool in TLA+

This directory is the verification development of watool, a C library
(`lib/`) and a command-line tool (`bin/pb.c`) that embed Lua and JavaScript and
give scripts files, HTTP, regular expressions, digests and text helpers. It
holds TLA+ modules translated from the source, configurations for TLC, theorems
checked by TLAPS, and `PROJECT.json`, which ties each definition to source
lines. Source paths below are relative to the repository.

## The system

watool is a single-threaded library. Nothing in it runs concurrently, so the
hard behaviours are long sequences of calls on state that is kept in static
variables, failures in the middle of a call, a network peer that may do
anything, and recursive algorithms with saved positions.

| Component | State it keeps | Operations | What makes it correct | Model |
|---|---|---|---|---|
| memory pool, `lib/mem.c:8-182` | pages of slots (24 and 184 bytes), per page a stack of free slot numbers and a byte counter; a count of malloc'ed blocks | `wa_alloc`, `wa_revert`, `wa_finalize`, `wa_memreport` | no slot has two holders; every index stays in its array; counters never fall below what is out | `MemPool` |
| scratch ring, `lib/mem.c:203-226` | 32 buffers with their sizes, a counter | `wa_ephemem` | the last 32 results are usable; no buffer is lost | `EpheMem` |
| file reading, `lib/file.c:4-33` | open files | `wa_readfile` | the buffer holds the file and its terminating zero | `EpheMem` |
| HTTP client, `lib/tcpclient.c`, `lib/extlua.c:370-447` | during a call: socket, request buffer, what was received, the parsed length | `wa_opentcp`, `wa_http`, `px.http_get`, `px.http_post` | a call returns, unless the server never takes the request; nothing is left open; the buffer holds a prefix of the reply | `HttpClient` |
| regular expressions, `lib/regex.c` | the program being built; while matching, the recursion, an offset, the captures | `wa_match` | a reported match is one; captures are their groups' text; the call returns | `Regex` |
| console and log, `lib/file.c:36-135`, `lib/utest.c` | the capture buffer, the log file, the report and sums of the unit tests | `wa_prtto`, `wa_prtcs`, `wa_prtdup`, `wa_setfd4l`, `wa_log`, `wa_ut*` | what is captured is the beginning of what was printed; a text that was handed out is left alone; report and sums agree | `Console` |
| digests, `lib/md5.c:5-643` | MD5 and SHA1 contexts: block and counter of bits | `wa_md5`, `wa_sha1` and the functions under them | the padded message is the same however it is cut into portions; the digest is the algorithm's | `MessageDigest`, `DigestInput`, `Md5Context`, `Sha1Context`, `Compression`, `HexDigest` |
| encodings, `lib/md5.c:645-796`, `lib/extlua.c`, `bin/pb.c` | none | base64, base16, `dyn2str` and `el` (C arrays) | decoding undoes encoding, in the room that was allocated | `Encodings` |
| calendar, random, `lib/time.c` | none | `wa_datediff`, `wa_calendar`, `wa_rands` | differences are those of the calendar | `Calendar` |
| utf8, `lib/extlua.c:26-292` | none | `len`, `codepoint`, `char`, `offset`, `codes` | what is decoded is well-formed; the walks agree on where characters are | `Utf8` |
| px functions, `lib/extlua.c:294-570` | none | `lsdir`, `lsfile`, and bindings of the components above | every name that `stat` knows is listed once, by its mode | `DirScan` |
| Lua bridge, `lib/brl.c` | the Lua stack | `wa_linit`, `wa_ldofile`, `wa_debug_lua`, `wa_lclose`, `wa_split_args` | the right function is called with what was pushed; looking at the stack keeps it | `LuaBridge` |
| JavaScript bridge, `lib/brscr.c` | the MuJS stack | `wa_bsload`, `wa_bsfunc`, `wa_bsmethod`, `require` | what is called is what was asked for, after any failed call | `ScriptBridge` |
| `pb`, `bin/pb.c` | where a run is, its words, a Lua state; the kept text and depth of `xlispindent` | sub-commands | a script gets the words it was given; indentation follows the brackets | `PbCommand`, `LispIndent` |
| Lua prelude, `lib/lupt/pb.lua` | none between calls, the unit-test counters and stubs apart | strings, tables, sets, ranges, JSON | decode undoes encode; set laws | not yet |
| the rest: automatic release, environment and directory functions, `uname`, snippets, build files | | | one system call each, or no state | not modelled |

Components meet as follows. The Lua and JavaScript bindings call the HTTP
client, the scratch ring (results are handed to the interpreter, which copies
them before 32 later calls) and the pool. `wa_dupstr` and `wa_dupbin` allocate
from the pool. The Lua bridge's error reports print through the console, so
they end up in a capture that is in progress, and `wa_debug_lua` redirects the
console. `pb` drives the Lua bridge. All of these are plain calls; except for a
script's `require`, no callback re-enters a component in the middle of an
operation.

`PROJECT.json` lists every component with its status, and under `hazards` what
can go wrong, at the line where it would.

## The modules

### Memory pool: `Allocator`, `MemPool`

`Allocator` is the promise of `walib.h`: a pointer handed out belongs to one
variable until it is given back. `MemPool` is the code: one action per way
through `wa_alloc_` and `wa_revert_`. The macro `DECLARE_FIX_MEM_FUNC`,
instantiated for each slot size, becomes a parameter `Bulk`.

| C | TLA+ |
|---|---|
| `sv_m##B##mem[s] != NULL` | `mem[pg]`, `pg = <<B, s>>` |
| `canuse[]`, `used[]` of a page | `canuse[<<pg, i>>]`, `used[pg]` (a byte: `Byte(x) == x % 256`) |
| the header (mask, page, index) before a pointer | the pointer itself, `<<pg, i>>`; `HeaderMask` reads the mask |
| `sf_borrow_m##B`: slot of a page with room; new page | `BorrowSlot`, `BorrowNewPage`; `StopsAt` is the loop |
| `sf_borrow_large` | `AllocLarge` (malloc may fail) |
| `wa_revert_` by mask | `RevertSmall`, `RevertLarge`, `RevertNull` |
| `wa_finalize` | `Finalize`: it forgets pages and keeps counters, as the code does |

`lent`, `large` and `owner` record who holds what and are not in the code.

### Scratch memory: `EpheMem`

`sf_epheidx` is `NextSlot`; `wa_ephemem` is `Scratch` with its two ways
(`Reuse`, `Replace`, which frees first, so that malloc may return the same
block) and `EphememRefused`. `wa_readfile` is `ReadFileWhole`, `ReadFileTooBig`
(which leaves the file open: `files` counts them) and `ReadFileUnopened`.
`recent` is what callers remember: the last results and how many bytes each of
them may write.

### HTTP client: `HttpCall`, `HttpClient`

`HttpCall` is what callers rely on: a call comes back once, with -1, -2 or a
length that leaves room for the terminating zero; and it does come back, unless
it never gets past `send`. `HttpClient` follows
`wa_http`, `httpreq` and `_http_do`, one system call a step (`pc` names the
place), against a server that sends its reply in pieces of any size, may stop,
close or reset at any point, and answers only a request that was sent whole.
Bytes are counted, not represented: a reply is the lengths of its head and
body, and the places of the two words that `find_content_length` looks for, with
the number that `atoi` reads behind each as more of its digits come (`Place`).
`Named` is that function: it searches the whole buffer, head and body, for
`Content-Length:`, and only then for `content-length:`.

### Regular expressions: `RegexProgram`, `Regex`, `RegexLanguage`, `RegexMeaning`

`RegexProgram` has the program (`struct slre`) and the functions that build it:
`Emit`, `Store`, `Literal`, `SetJump`, `Relocate`, `Quantify`, `FixupBranch`,
`Branch`. Code and data are sequences, jumps are relative as in C, so that
relocation errors are errors of the model. Cells are unsigned chars: the length
of a string is cut to one (`Literal`), and a character of 0x80 or above (`High`) is
never equal to one of a set, because the text's is negative (`MatchSet`). `Regex` is the machine: `frames` are
the calls of `compile` in progress, a character of the pattern a step; `stack`
are the calls of `match`, an instruction a step. A call that waits for another
one records what C keeps in its locals (`saved`, `matched`) and where it goes on
(`wait`). `RegexLanguage` says what an expression means, by recursion on its
tree and without a matcher; `Show` prints it as the code takes it.
`RegexMeaning` relates the two.

The phase `lost` stands for reading or writing behind an array's end, which the
code does for an unclosed bracket, a final backslash and some patterns that are
too long, and for the assertion that ends the program at an opcode it does not
know (`MatchUnknown`), which a backslash before a character of 0x80 or above
produces; nothing is claimed from there on.

### Console, bridges and `pb`: `Console`, `LuaBridge`, `PbCommand`, `ScriptBridge`

`Console` represents what is printed by the numbers from 1 on, so that a text
tells what it misses. `pstr` is `_pstr` with its four fields; `heap` keeps every
buffer that `wa_prtto` ever allocated and `held` those that `wa_prtdup` gave to a
caller. `wa_prtto` with a size while a capture is running loses the buffer, as
the code does. `Appended` is the `vsnprintf`. `wa_setfd4l` opens before it
closes; its `fopen` may fail, and may give the same `FILE` again after the caller
has closed it (`CloseLog`, as the unit test does). `_wa_utok` is one check, `RunTest` one test function
with any of its checks failing; `Tests` lists the test functions of
`lib/utest.c` with the lines of their checks, because the report prints them.

`LuaBridge` adds the Lua stack (`stack`, its last element the top) and what
`lua_pcall` was last given (`called`). `RunFile` is `wa_ldofile` from the chunk on
top of the pushed words to the cleared stack: `Inserted` is `lua_insert` with the
index the code computes, so that a wrong index calls the wrong value.
`_print_one_lua_val` goes through a table an entry a turn (`NextEntry`): `lua_next`
takes the key off the top and pushes the next one and its value, or nothing;
`lua_pop` takes the value (`Popped`). After five turns the loop stops and leaves
its last key.

`PbCommand` is a run of `pb`: `pc` names the function that comes next (`main`,
`cli_entry`, `linit`, `run_lua`, `lclose`, `lsnip`, `enc_lua`, `Return`), over the
state of `LuaBridge`. `main` takes words from the command line or cuts a line of a
pipe into them (`wa_split_args`, whose array malloc may refuse); `usage` ends the
process from anywhere. `enc_lua` encodes what `luac.out` holds after `_luac` or a
compiler of the caller's has returned 0 (`Dumped`, `Left`), which is a cut file
(`Part`) if the write failed in the `fclose` that nobody looks at.

`ScriptBridge` is `lib/brscr.c` over the stack of MuJS. `asked` is what the C
program wanted called, `pcalled` what `js_pcall` was given. A format letter that
stands for no type ends the call without making it; the stack is cleared on
every way out. `frame` is the stack of a script's own call of `require`.

### Text tools: `LispIndent`, `DirScan`

`LispIndent` follows `xlispindent` a line (or a piece of a long line) at a time:
`output` is the text kept since the last blank line, `lonely` the depth; `shown` and
`given` record what was written and read. `DirScan` is the loop that `lsdir` and
`lsfile` share, a name of `readdir` a step, with the buffer of `stat` (`v_st`) kept
from one name to the next, as in C: `stat` may fail for any name, and leaves the
buffer alone. `answered` records the names it succeeded for. The bit 0x4000 that is
tested is a directory's, but also a block device's or a socket's (`Bit4000`).

### Digests: `MessageDigest`, `DigestInput`, `Md5Context`, `Sha1Context`, `Compression`, `HexDigest`

`MessageDigest` is the promise: what is compressed is the message, one bit,
zeros, and its length, however it was cut. `Md5Context` and `Sha1Context` are the
code's contexts, with the transforms represented by the bytes they were given
(`fed`). MD5 takes a portion as a whole (`MD5Update`), SHA1 byte by byte
(`InputByte`); SHA1 also refuses input after the digest was given. `DigestInput`
holds what both share: the text, and `Word` for 2^32. `Compression` has the
rounds of both algorithms, as operators on the bytes that were fed: a word is a
pair of 16-bit halves (TLC's own integers are signed), sums are modulo 2^32. `HexDigest` is the writing of the digits, a
`strcat` a step, with the terminating zero where the code puts it.

### Functions on data: `Encodings`, `Utf8`, `Calendar`

`Encodings` and `Utf8` are operators. `Encodings` has base64 and base16 in both
directions with the sizes that `lib/extlua.c` allocates for their results, and
the C arrays that `dyn2str` and `el` print. `Utf8` has the decoder, strict and
lax, and the functions of the library on positions. `Calendar` has
`wa_datediff`, where `mktime` is external (days counted by the calendar), and
counts days from a first one by the calendar (`Tomorrow`). `Conversions` gives
the operators texts that grow byte by byte, and runs the digests and the
calendar beside them.

## What TLC checks

| Run | Question | Result |
|---|---|---|
| `pool` | `FreeSlotsSound`, `CountsCover`, `NoAlias`, `PagesContiguous`, `CountFollowsLent`, and that the pool implements `Allocator`, with `wa_finalize` called whenever no page is full | holds |
| `pool_any` | the three conditions of a page that the comments of `sf_borrow` name, with `wa_finalize` called at any time | violated |
| `ephemem` | the last results are usable (`WindowSound`), no buffer is lost (`RingOwnsHeap`) | holds |
| `http` | `StoredPrefix`, `Released`, `NoWaitForMore`, `SplitIsWhole`, and that the client implements `HttpCall`, liveness included (a call that is past `send` returns) | holds |
| `http_doc` | -2 means that the buffer is too short, as `walib.h:47` says | violated |
| `http_body` | the loop ends normally when the body is complete, as the comment says | violated |
| `regex` | instructions and offsets stay where they belong (`TypeOK`); `Sound`, `CapturesSound`, `FirstFound` against the reference, for the patterns they are stated for; the call returns (`Returns`) | holds |
| `regex_lazy` | a match is one for every pattern (`AlwaysSound`), on non-greedy loops with more than one instruction behind them | violated |
| `regex_bracket` | a bracket that was not opened is refused with -11 (`walib.h:73`) | violated |
| `digest` | both contexts implement `MessageDigest` (`Md5ImplementsDigest`, `Sha1ImplementsDigest`) and hold what they were given (`Md5Absorbed`, `Sha1Absorbed`); digests are those of an independent implementation (`KnownDigests`); `DecodesExactly`, `Utf8Walk`, `EncodingsInvert`, `DatesSubtract` | holds |
| `bridge` | captures (`CapturedPrefix`, `HandedOutKept`), the report (`ReportAgrees`), the Lua stack (`DebugKeeps`), what `pb` and C programs call (`ArgsAgree`), what MuJS is asked to call (`FrameIsAsked`), `IndentKeeps`, `ListsSplit` | holds |
| `sha1_room` | `wa_sha1` writes into the 41 bytes that `walib.h:16` asks for | violated |

The violated ones are the project's findings:

* `wa_finalize` keeps `used[]`. If a page was full, its next use lends slot
  number P of a page with slots 0 to P-1 (`lib/mem.c:56`).
* A failing `select` is reported as -2 (`lib/tcpclient.c:142`).
* A body that contains the words of a `Content-Length` header ends the receive
  loop early when the head has none, or has it in small letters
  (`lib/tcpclient.c:83`).
* `loop_non_greedy` does not go back to where the code behind the loop began:
  `^a*?b$` is reported to match `abab` (`lib/regex.c:473`).
* The pattern `a)` is compiled for ever (`lib/regex.c:380`, `433`).
* `wa_sha1` ends with `dst[41] = 0`, one byte behind the 41 that `walib.h:16` asks
  for and that its callers have (`lib/md5.c:640`).

Two runs cover several programs each, because the programs share no state:
`Conversions` and `Programs` compose the components, choose one at the start
(`program`) and let it alone move; `MCDigest` and `MCBridge` give their constants
values. The capture, the Lua state and the stack are shared by the C program
(`host`) and by `pb`, which is where components meet. The theorems about those
components are theorems of the composed specifications.

The models also show where the code does less than a caller may think. These are
conditions of the properties, not findings: `IndentKeeps` is stated while no line
closes more than is open (after one, `pb.c:214` cuts visible text away);
`ListsSplit` for the names that `stat` succeeds for, as it is given a name without
its directory and its result is not looked at (`extlua.c:478`); `NoWaitForMore` and
`SplitIsWhole` take the head's length where it decides (`Decided`), and else any
that the body's text may give; `FrameIsAsked` says what is called,
not that a failed call is reported, since an exception's value is read as the
output (`brscr.c:71`); `ReportAgrees` depends on `utest.c` having fewer than a
thousand lines (`file.c:69`); `Utf8Walk` leaves out zero and codes above 10FFFF,
which `utf8.char` turns into an empty string (`extlua.c:184`).

### Bounds

* `pool`: two pages of two slots for size 24, one page of two for 184, three
  variables, one large block, requests 0, 24, 25 and 185. This fills pages,
  opens a second one, exhausts a pool and reuses pages after `wa_finalize`; more
  slots repeat the same stack discipline, and the theorems cover them. Variables
  are symmetric. All sizes and counts are parameters.
* `ephemem`: a ring of three slots with the real size limit, and sizes on each
  side of every test; four interchangeable blocks, one more than the ring holds,
  so that malloc has a choice.
* `http`: heads of two or three bytes, bodies of up to four, pieces of up to
  three, buffers of 1, 3, 4, 5 and 8 bytes: every boundary lies inside, at the end
  of and between pieces. The eleven replies are the kinds the code tells apart: a
  length in the head, in either spelling, right, too large, too small, negative or
  of two digits; none; one in the body only; and one in each, where the head's
  counts and where the body's does.
* `regex`: several hundred patterns of up to three items (groups, nested groups,
  alternatives, all repetitions, classes, sets, anchors) on the texts of up to
  three letters over two, and some others with digits and brackets and with a
  character of 0x80 or above. The patterns that the properties except are among
  them: loops over what matches the empty string, a string and a loop behind one of
  as many characters as a cell has values, sets with such a character, non-greedy
  loops with more behind them. 32 cells of code, and as many values of a cell,
  instead of 256, so that one pattern has no room; four captures instead of ten.

* `digest`: a text of 130 bytes, so that messages end before, at and behind the
  boundaries of two blocks and at 55, 56, 119 and 120 bytes, where the padding
  changes; `Word` is 1024 in the contexts, so that the counter's low word wraps
  within the text (the proofs have any multiple of 512; the compression always
  uses 2^32). `KnownDigests` compares nine lengths; it is these that involve the
  arithmetic. Texts for utf8 and the encodings have up to four bytes (`TextSize`;
  six where a lead byte asks for it), each byte the end of a range: `Bytes` are the
  first and last lead and continuation bytes, `Codes` digits, padding, letters and
  bytes outside the alphabet. Dates: `LastDay` = 70 days from each of
  `FirstDays`, which lie before the ends of the years 1999 and 2099 and of
  the Februaries of a common year, a leap year, and a century with and without a
  leap day.
* `bridge`: captures of one and three bytes, two blocks, prints of up to three
  characters (`MaxPrinted`), so that a capture is empty, partly filled, exactly
  full and overfull; two pushed values (`MaxPushed`) among words and tables of 0, 3,
  5 and 6 entries, so that the loop ends by `lua_next` and by its count; two log files; every subset of failing checks; 23 command
  lines and 8 lines of a pipe; 7 formats; files of up to 12 characters
  (`MaxOutput`; the last piece may go beyond) with the indentation limited to three
  (`MaxIndent`, 65 in the code), so that the limit is met; three names, one
  hidden.
* `sha1_room`: none; the run is one call.

The bounds named in the modules are `MaxOpen` (files a process may hold open),
`CodeSize` and `MaxSub`; the variables of the pool and the ring are
bounded by their own guards.

### What the regex properties leave out, and why

`FirstFound` is stated for plain patterns (no alternative, no `?`, no non-greedy
loop, and only single characters repeated). For others the code is
incomplete by design: it does not come back to a choice once the
instruction is done, so `a?a` does not match `a`. `Sound` has no
such restriction, except that all three are stated for ordinary patterns (`Ordinary`):
those shorter than a cell has values, whose sets list no character of 0x80 or
above, and whose non-greedy loops have at most one item behind them, unlike those
with which `regex_lazy` refutes `AlwaysSound`. `regex` runs the others, too.
What the code does with them differs from the documentation, without a run
of its own: a set with a character of 0x80 or above never matches it, and the set's
complement always does (`regex.c:485,501`), although `walib.h:82-83` names no such
limit; a run of exactly 256 ordinary characters has the length 0 in its cell and
matches anywhere (`regex.c:199,219`); a backslash before a character of 0x80 or above
ends the program (`regex.c:676`); and `\xDD` of `walib.h:96`, which
`get_escape_char` does not know, is an `x` and two characters. `CapturesSound` is for groups that no match goes without: the code
keeps the captures of attempts that failed later. `nsub` stops at the first
empty capture and so differs from `walib.h:66`. Loops whose
body matches the empty string, such as `(a*)*b` or `a**`, do not end in C: the body
matches without moving, again and again at one depth of recursion. `Returns` excepts
them (`LoopsAdvance`), and strings of 256 characters, which are such a body. A match is
tried from each character but not from the text's end, so `$` alone does not
match `ab`; `FirstFound` takes the code's starting points.

`RegexAssumption` asks of every pattern, in all runs and in the theorem, that it is
not empty, that its brackets have room in `sub[]`, and that a quantifier follows
something. At the beginning of a pattern, and directly behind an opening bracket,
the code would look at cells it has not written yet (`regex.c:295`). Behind a bar, with at most anchors in between,
`last_op` still holds a position from before the bar moved the code, and the
quantifier breaks the branch apart: for `a|*` TLC finds that `TypeOK` fails, which
is why the assumption is needed. An escaped bracket or bar is an ordinary
character, and a quantifier may follow an anchor at the pattern's or a bracket's
beginning.

### Fairness

* `HttpClient`: weak fairness of the client's next step, `send` excepted. `connect`
  comes back, `select` ends after `rcvtimeo` seconds; the client is a program that
  runs. `send` blocks without a timeout (`tcpclient.c:99`), so a server that accepts
  and does not read may hold it for ever, and the model lets it. Nothing is
  assumed of the server, and a failing `select` is never relied upon.
* `Regex`: weak fairness of the next step. It is a function that runs.
* All other modules: none; no liveness is claimed. Their loops run over data that
  is there.

Deadlock is checked, except in the regex runs and in `digest`, `bridge` and
`sha1_room`, where programs end.

## What is proved

TLAPS checks these for every value of the constants that satisfies the modules'
assumptions.

* `MemPoolProofs`: `PoolInvariant`, and from it `PoolTypeCorrect`, `PoolNoAlias`,
  `PoolCountsCover`, `PoolFreeSlots`, `PoolCountFollowsLent`, `PoolPagesContiguous`
  and `PoolImplementsAllocator`. They assume `FinalizeWhen = "notfull"`; `pool_any`
  shows why. The invariant `IInv` joins the properties, which are not inductive
  one by one: that the slot at `canuse[used]` is free needs `FreeSlotsSound`,
  which needs counters that cover the lent slots, which needs that no two
  variables hold one slot. Its last conjunct, a page without memory has room, is
  what a new page relies on when it lends the slot numbered by a counter that
  `wa_finalize` left behind. The lemmas split the argument: lending and returning
  are described once (`Lends`, `Returns`), the code's actions shown to be such
  steps, and cardinalities handled in `LendCount` and `ReturnCount`.
  The assumptions are that counters and slot numbers fit a byte and that slot
  sizes have different masks, none of them that of large blocks.
* `EpheMemProofs`: `RingInvariant`, `RingTypeCorrect`, `RingWindowSound`,
  `RingOwnsHeapAlways`, for a ring of any length. `IInv` adds that the result of `a` calls ago is the buffer
  of slot `SlotOf(a)`; `RecentShifts` is the step of that argument.
* `HttpClientProofs`: `HttpInvariant`, `HttpTypeCorrect`, `HttpStoredPrefix`,
  `HttpReleased`, `HttpNoWaitForMore`, `HttpSplitIsWhole`, `HttpHeadDecides`, and
  `HttpImplementsCall`, the safety part of the refinement. `IInv` adds what each
  place in the code knows of the resources it holds, of the head it has found, and
  that the length was read from some beginning of the reply that had the whole head
  (`NamedUpTo`). `HttpHeadDecides` is what makes the two properties about the head:
  where the word searched for first is the head's, or the reply has none and the
  other is the head's, all these beginnings give one number.
* `DigestProofs`: `Md5TypeCorrect`, `Md5AbsorbedAlways`, `Sha1TypeCorrect`,
  `Sha1AbsorbedAlways`, for every text, every cut into portions and every
  `Word` that is a multiple of 512, as 2^32 is. `Md5Absorbed` reads the index off a
  counter that wraps, so it is not inductive: `Md5Holds` adds that the counter's
  low word differs from eight times the bytes given by a multiple of 512
  (`WordSteps` says that reducing modulo `Word` keeps this, `IndexIsRest` that it
  is enough for the index). `CollectAbsorbs` is one call of `MD5Update`: with
  `BlockAppended` and `PieceOfPiece` the filled buffer, the whole blocks and the
  rest are put together to the text. For SHA1 the step is one byte
  (`TakeByteAbsorbs`), and the invariant needs the index below 64 between bytes.
  `Md5Digests` and `Sha1Digests` are the refinements of `MessageDigest`: what is
  compressed is the message, its padding and its length, and SHA1 gives the same
  digest however often it is asked and whatever input comes late. Their
  invariants (`Md5Exact`, `Sha1Exact`) say in addition that the counter is exactly
  eight times the length modulo `Word` * `Word`, because that is what the padding
  writes at the end.
* `BridgeProofs`, about the composed specification of `Programs`:
  `CapturedPrefixAlways` and `HandedOutIsKept` for captures of any size, whose
  invariant says that `len` is the text's length and lies below `cap`, and that a
  buffer that is still written to is nobody's;
  `FrameIsAskedAlways` for any formats and any scripts, from what each way out
  leaves on the stack; `ListsSplitAlways` for directories of any size and for `stat`
  failing anywhere, with what `v_st` holds from the name before.
  About `pb`: `SplitFindsWords`, that `wa_split_args` finds exactly the words of
  any line, by induction over the line; with it `ArgsAgreeAlways`, for all command
  lines and pipes; `DebugKeepsAlways`, for any stack, with the keys that tables of
  five entries or more leave behind: `EntryShown` is one turn of the loop over
  `lua_next` (`Shown` says what is above the stack after each), `OneShown` the loop,
  `OneLooked` one value and `PrintedLooked` the stack.
  About unit tests: `ReportAgreesAlways`, for any groups of tests and any failing
  checks. `UtIInv` adds that the tests still to run are distinct and not yet in
  the report; `AllChecked` follows the loop over one test's lines, and
  `TotalOfAppend` and `TotalOfChange` the sums of `utest_all_stop`.
  About Lisp files: `IndentKeepsAlways`, for files of any length. `LispIInv` says
  where each line begins, where its first character that is no space stands and
  where one that can be seen (`Placed`), that what is written looks as what was
  read (`Same`), and that `lonely` is the number of open brackets. The character
  that can be seen is what a line cannot lose when the next one is pulled up to
  it, which takes ends of lines off (`LinesCut`, `LineAdded`, `LinesEnded`).
* `RegexProofs`: `TypeOKAlways`, for all patterns and texts. That an instruction
  of `match` is the beginning of one that `compile` wrote rests on the shape of
  programs (`Shape`): a set S of positions where instructions begin, such that the
  next instruction and the ends of all jumps are in S again. While `compile` is
  under way this is not enough, because `relocate` puts cells into the middle of
  the code and corrects no jump. The code gets by because it only does so at
  positions that no jump from before leads beyond (`Whole`); `FrameOK` and
  `LastOK` say that `branch_start` and `last_op` of every pending call are such
  positions, and `Nested` that those of an outer call lie before those of an inner
  one. O are the branches whose second jump is still open; `fixup` belongs to one
  of them or is 0. `Becomes` describes what every way of adding code keeps
  (`FixupContinues`, `CloseContinues`, `AlternativeContinues`, `QuantifyContinues`
  are its cases), and each character of the pattern has one lemma about the calls
  and their places. `Completed` passes the shape on to the program that is run
  (`Runs`); there, what waits for a call stands at the instruction that its `wait`
  names (`WaitsAt`), and every offset it keeps is inside the text. `WalkArrives`
  ties S to `IsInstruction`, which walks through the code from its start.
* `ConversionProofs`, about `Conversions`: `DatesSubtractAlways`, from any first day
  and over any number of days (`YearIsLong` and `MonthsAre` tie the formula's
  quotients to the calendar's years and months, and `TomorrowCounts` is one day);
  `EncodingsInvertAlways`, for texts of any length and any bytes (`GroupRead` is
  one group of base64, `ArrayIs` says where each cell of a C array is);
  `DecodesExactlyAlways`, over all bytes: strict decoding takes exactly the
  sequences of the table of the Unicode standard, and gives the code point that
  they encode. Its cases are the first bytes (`DecodesTwo` to `DecodesFour`,
  `RefusesOthers`), each a comparison of the table's conditions on the second byte
  with the code's limits on the number decoded.
  `Utf8WalkAlways`, for texts of any length, strict and lax: the walks through a
  text agree. All of them are compared with one list of the characters, where each
  begins and what it is (`Chars`): `CharsEnd` says that `len` and `codepoint` go
  along it to the end of the text (`Whole`) or to where it is invalid. `offset`
  only looks for continuation bytes; that these are the inner bytes of the
  characters (`CharIs`, `EdgesAre`) brings it to the same places forward, back and
  from the middle (`MovedOn`, `MovedBack`, `OffsetsAre`). `codes` stops one
  character earlier than the others where continuation bytes follow one that is
  complete (`IterNext`, `IterFails`), so that it is `CodesOfWhole` and
  `CodesOfBroken` that make it agree. `PutTogether` joins `DecodesExactlyAlways` at
  every place (`DecodeMoved`, `CharBytes`) to what `char` writes.

Induction over data. The library's induction theorems take an operator as a
parameter, which the provers at hand cannot instantiate. `Induction` gets around
that for data that is indexed by numbers: from the well-ordering of the naturals
it proves `UpTo`, that a set of numbers which contains 0 and the successor of each
of its members contains a whole interval, and that what is defined by recursion
over an interval as a function (`f[i] == ... f[i - 1] ...`) exists and satisfies its
equation. A fact is then proved by putting those `i` into a set for which it
holds. The folds of the community modules (`FlattenSeq`) are reached the same
way. Operators declared `RECURSIVE` (the meaning of regular expressions) stay out
of reach.

The assumptions of the theorems are the modules' named ones. Those about the
environment and the inputs are: `FormatsAssumption` (a format is a name and has
an input for each of its letters), `LuaAssumption` and `PbAssumption` (words and lines
are sequences of characters), `LispAssumption` (what `fgets` gives: some characters,
an end of line only as the last of them), `CalendarAssumption` (days
are counted from dates that exist), `ConversionsAssumption` (a text consists of
bytes), `RegexAssumption` (below). TLC evaluates all of them in the runs.

Only model-checked:

* liveness (that HTTP calls and `wa_match` return), which is out of the prover's
  reach;
* what regular expressions mean: `Sound`, `CapturesSound` and `FirstFound` compare
  with a meaning that recurses over trees;
* `KnownDigests`, which compares numbers.

What the models assume of the environment: a page's, capture's or scratch
buffer's malloc succeeds (the code does not test it); files are smaller than 2
GB; callers do not touch a pointer after giving it back or after `wa_finalize`;
they leave room for a pattern's groups in `sub[]`; they call `wa_prtdup` once for
each capture; a C program that passes arguments to `wa_ldofile` has pushed those
and nothing else (with other values below them the code puts the chunk at the
bottom and calls something else, `brl.c:196`). A caller may close the file that
`wa_setfd4l` gave it; what `wa_log` then writes to it, and what closing it again
does, is undefined and left out. `MD5Update` is modelled for lengths at which `i+64`
does not wrap (`md5.c:74`) and which fit the `unsigned int` that `strlen` is cut to
(`md5.c:213`): messages below 4 GB. `mktime` gives whole days, as it does in a zone
without changes of the clock, so that the division by 86400 (`time.c:34`) cuts
nothing off.

## What is not modelled, and the plan

* Wording and layout of messages; Lua, MuJS and the C library, which are external
  and appear as what they may leave behind; system calls that are only passed
  through (`setenv`, `wa_msleep`, `wa_get_exe_path`, `wa_calendar`), the bit operators
  of `px`, and `wa_rands`.
* Everything that exists on Windows only: code pages (`lib/md5.c:797-879`), the
  socket start-up. The models are of the POSIX build.
* The lines of captured bytes behind a buffer's end, wherever the code does not
  look for room (`pb.c:217`, `file.c:82`, `regex.c:288`): undefined behaviour is
  marked, bounded or excluded, never followed.
* The names of the files that `dyn2str` and `el` write, and the tables that `ascii`
  and `usage` print.
* Automatic release (the compiler's cleanup attribute), scripts, snippets and build
  files: no state.
* The Lua prelude (`lib/lupt/pb.lua`).

What would come next:

1. `Json` and `Prelude` (`lib/lupt/pb.lua`): the JSON decoder as a machine over
   tokens with its stack, against the values' trees; set, range and split helpers
   against set definitions.
2. The meaning of regular expressions by recursion over numbered parts of the
   pattern instead of trees, so that `Sound` can be proved for any pattern.
