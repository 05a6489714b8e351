# hunkpick, specified

hunkpick reads a git diff and writes a smaller one: `select` keeps chosen
sub-hunks or single changed lines, `split` cuts one hunk into pieces at context
lines, `list` shows what can be chosen. Whatever it writes is meant for
`git apply`, so a wrong line number, a hunk that overlaps another or a newline in
the wrong place damages somebody's work tree. This directory holds TLA+ modules
translated from the Rust source in `src/src/`, TLC runs that check them on small
instances, and TLAPS proofs of the theorems that hold for every instance.

Paths below are relative to the repository's root as it is checked out in `src/`,
so `src/split.rs` is the file `src/src/split.rs`.

## 1. Inventory

The command is one process with one pipeline. Only one part of it is concurrent
(running git); everything else is a chain of loops over the parsed diff.

    stdin/file --read_limited--> reject_non_diff --> parse --> validate_input
        --> list | select | split                      (list: writes its text)
        --> renumber_new_side --> validate_internal --> git apply --check --> emit

| component | state it keeps | operations | what makes it correct |
|---|---|---|---|
| Reading the input (`main.rs` read_limited, load_and_parse, reject_non_diff) | bytes read, the limit | read at most limit + 1 bytes; a blank input is a no-op; refuse byte-order marks, UTF-16 without one, NUL bytes, text without a marker | an input over the limit is refused, never cut; the refusal names what the input is |
| Parser (`parser.rs`) | the open file and hunk, remaining old and new lines, `in_hunk`, `saw_hunk`, `saw_marker_pair`, trailer lines with the number of hunks above each | one step per line: header, file header, hunk header, body line, no-newline marker, trailer | every line of the input ends up in exactly one place; a body ends when its counts are used up; emit(parse(x)) = x |
| Diff model (`model.rs`) | files, hunks, lines, trailer positions, `no_trailing_newline` | counts, `tail`, `ends_on_a_trailer_line` | counts agree with bodies |
| Validation (`validate.rs`) | the running delta, the previous hunk's end on both sides | `validate_input` (no new-start check), `validate_internal` (with it), `check_one_hunk` | accepts what git accepts; a defect of the input is exit 2, never exit 70 |
| Auto-split (`split.rs` auto_split_hunk) | the runs of a hunk, line counts before a piece | one sub-hunk per maximal run of changes | pieces are sound, disjoint, ordered, and stand where their lines stood |
| Line slicing (`split.rs` slice_changed_lines) | the body under construction, the changed-line number | keep / retain as context / leave out, then repair no-newline markers | any subset of changed lines gives an applicable hunk |
| Split command (`split.rs` split_file_hunk, split_patch_hunk) | the cuts not met yet, `new_no`, pieces, trailer positions, the crop flag | scan, rebuild pieces, splice, shift trailers | the result does what the input did, nothing else moves |
| Selectors over files (`select.rs` parse_selectors, resolve_*, emit_selection) | picks per file (`FilePicks`, `Chosen`), the cache of split files, id and path indexes, the index budget | parse arguments, resolve them one by one, reject conflicts, emit entry by entry, keep tails and the trailing-newline flag | what is taken is what every argument means on its own, each once, in file order |
| Selection within a file (`select.rs` materialise_picks, `split.rs`) | the hunk under construction | materialise whole and sliced picks | exactly the picked changes |
| Renumbering (`renumber.rs`) | the delta of the hunks passed | recompute every new-side start | each hunk is found at its own line by git |
| Emitter (`emit.rs`) | the trailer cursor | headers, hunks, trailer lines in place, crop of the last newline | round trip with the parser |
| Running git (`gitenv.rs`) | three threads, three pipes, the child and its environment | pin the locale, drop the variables that locate a repository, spawn, feed, drain, wait or kill, join, assemble | whole answers only, no deadlock, a failed wait is reported; git speaks the language its verdict is read in |
| Verification and exit codes (`main.rs`, `validate.rs`, `error.rs`) | how far the checks got, stdout's buffer | internal check, directory check, git check, write, flush | nothing leaves unchecked; exit 70 only for the tool's own result; exit 0 only when all was delivered |
| Listing (`list.rs`, `main.rs` run_list) | none of its own | show the sub-hunks, filtered by `--only`; write the text, then its newline | a number or an id it prints selects what it stands beside |
| Command line (`cli.rs`) | none | clap declarations | - |
| git apply (external; `gittest.rs` drives it in tests) | the file | apply a hunk at its line | - |

How they interact: by values handed down the pipeline in one thread; the only
shared state are the pipes between hunkpick's helper threads and git, and the
buffer of stdout. The parsed `Patch` is the state several operations modify in
turn, which is where most of the hazards lie: positions recorded by the parser
(trailer positions, the trailing-newline flag, starts in headers) are used after
other operations have changed what they refer to. `select` and `list` share the
selectors, the numbering of sub-hunks and their ids: what one prints the other is
asked for in a later run.

The behaviours that are hard here:

* **Stale positions.** New-side starts, trailer positions and the crop flag all
  describe the input and are used on the result.
* **The empty side.** A side without lines reports the line before it; the rule
  is applied in four places (split, renumber, validate, the crop of split).
* **u32 and i64.** Starts come from the input and can be anything in u32.
* **No-newline markers** under partial selections.
* **Threads, pipes and a child that may do anything**: block, die, close its
  stdin, speak before it reads; and every system call in between may fail.
* **Error attribution.** git's exit 128 means two different things, told apart by
  English words; a broken pipe is sometimes an error and sometimes an answer.
* **Several names for one thing.** A path is either side of an entry, an id is
  every sub-hunk with the same change, a number may be listed twice, and the
  arguments share one allowance of numbers.

`PROJECT.json` lists the hazards one by one, at their lines, with the properties
that would notice.

## 2. Modules

| module | models | extends |
|---|---|---|
| `Hunks` | lines, hunks, counting, anchors, `expected_new_start`, `check_one_hunk`, `rebuild_subhunk` as operators | - |
| `ResultDiff` | the loops every result goes through: `check_hunks` on input and result, `renumber_new_side` | `Hunks` |
| `ResultDiffInv` | what those loops have established about the hunks they have passed | `ResultDiff` |
| `SelectFile` | `select` on one text entry: auto-split, picks, slicing, the no-newline repair, the refusal of partial deletions | `ResultDiff` |
| `SelectFileInv` | the inductive invariant of `SelectFile` | `SelectFile`, `ResultDiffInv` |
| `SplitFile` | `split --at` on one text entry: scan, pieces, splice, trailer shift, crop flag | `ResultDiff` |
| `SplitFileInv` | the inductive invariant of `SplitFile` | `SplitFile`, `ResultDiffInv` |
| `GitApply` | external: `git apply` as far as positions, context and final newlines go | `Hunks` |
| `SelectMeaning`, `SplitMeaning` | what the result does to a file, and the strengthened invariants that say so of every state | `SelectFileInv`, `SplitFileInv`, `GitApply` |
| `DiffScripts` | for the MC modules: hunks, and the full diff they are cut from | `GitApply` |
| `DiffLines` | the lines of a diff and the entries they are read into | `Hunks` |
| `Parse` | `parse`: the automaton, one action per branch of its loop | `DiffLines` |
| `ParseInv` | the inductive invariant of `Parse` | `Parse` |
| `DiffText` | the text a parsed diff stands for, by where each line belongs | `DiffLines` |
| `ParseMeaning` | what `Parse` makes of a text, compared with the text | `ParseInv`, `DiffText` |
| `EmitText` | what `emit` promises: what is written in the end is that text | `DiffText` |
| `EmitPatch` | `emit` with its trailer cursor | `EmitText` |
| `RunChild` | abstract: a program is run and its whole answer, or an error, is returned | - |
| `Selectors` | what is addressed and how: entries, arguments, selectors, ids | `Hunks` |
| `ChooseSubhunks` | abstract: the answer to a request, from what each argument means on its own | `Selectors` |
| `ResolveSelectors` | `parse_selectors`, `resolve_selectors`, `emit_selection`, the rows of `list`, `resolve_hunk` | `Selectors`, refines `ChooseSubhunks` |
| `ResolveInv` | the inductive invariant of `ResolveSelectors` | `ResolveSelectors` |
| `FeedAndWait` | `feed_and_wait`: three threads, three bounded pipes, wait, kill, assemble | refines `RunChild` |
| `GitEnv` | the environment git is started with, and (external) what git reads in it | - |
| `EmitVerified` | `emit_verified`, `validate_with_git`, `write_out`, `flush_out`, exit codes | `GitEnv`, instantiates `FeedAndWait` |
| `DiffEvidence` | what a byte stream is taken for: marks, UTF-16 sniffing, lines a diff writes | - |
| `RunCommand` | a whole run: `read_limited`, `load_and_parse`, `run_list`, `run_select`, `run_split`, to the exit code | `EmitVerified`, `DiffEvidence` |
| `RunCommandInv` | the inductive invariant of `RunCommand` | `RunCommand` |
| `MC...` | constants for TLC: the entries tried | |
| `HunksTheorems` | lemmas about counts, slices, pieces and lists of hunks | |
| `ResultDiff_proofs` | the shared loops keep `ResultDiffInv!LoopInv`; what hunks that stand in a full diff do to a file | |
| `SelectFile_proofs`, `SplitFile_proofs`, `Parse_proofs`, `FeedAndWait_proofs`, `ResolveSelectors_proofs`, `RunCommand_proofs` | the theorems of each component; those of `EmitPatch` are in `Parse_proofs`, with the theory of texts they share | |

### Correspondence with the code

`ResultDiff.phase` is the stage of the pipeline; its last three values are exits.
One action is one iteration of the loop it is named for; a loop's locals
(`delta`, `prev_old_end`, ...) are variables. The code's `Option`s that start as
`None` are 0 where 0 refuses as little. `SelectFile.step` and `SplitFile.step`
tell which inner loop runs in phase `"cut"`. Errors of the request (`OutOfRange`,
`NotAContextLine`, `EmptySelection`, ...) all end in phase `"usage"`: nothing here
depends on which message is printed.

A body line is its kind, an opaque text and whether a no-newline marker follows
it. The section of a hunk header, paths, colours, quoting and line terminators are
left out: nothing modelled so far reads them. Starts are u32 (`MaxU32` stands for the
last value; TLC gives it a small one), sums of them are i64 and never overflow,
counts are unbounded because a count outside u32 needs 2^32 lines in memory.
`new_no` in `split_hunk_at` wraps, as it does in a release build.

`GitApply` knows two real files as one list of lines, the diff with all its
context (`full`); the old file is its context and deletions, the new one its
context and additions, and `FileWith(full, S)` the file with the changes numbered
in `S` made. An entry of `SelectMeaning` or `SplitMeaning` says whether it is such
a diff (`real`), of what (`full`) and below which line of it each hunk stands
(`tops`). `RealAssumption` says what that means: the lines of a hunk are the lines
of `full` there and its old start counts the old lines above it (`Stands`), the
hunks are in order and hold every change, and no-newline markers are where a side
ends (`WellMarked`); the entry that removes its file is one hunk and leaves nothing
of it.

`SelectFile` takes the picks as given, one choice per sub-hunk: not picked, whole,
or any set of changed lines up to one past the last. `ResolveSelectors` is what
leads there: its `picks` are picks of this kind. The two are checked apart, since
neither looks into what the other does: `SelectFile` does not care who asked,
`ResolveSelectors` knows a sub-hunk only by the body that auto-split gave it.

In `ResolveSelectors`, `phase` names the loop: reading arguments (`"parse"`, and
`"set"` within a list of numbers), resolving selectors, emitting entries (`"pick"`
within one), listing, and the one address of `split`. `named`, `whole` and `cuts`
are the map `Chosen` of `FilePicks`; `cache` is `subs_cache`; `left` is
`IndexBudget`. An argument is already taken apart at its last `:`, numbers are
numbers, and a text that is none (or one that leaves `usize`) is `NaN`. The hash of
an id is a constant operator, so the theorems hold for one that collides. What is
left of an entry in `out` says whether its result ends on the last line of the
input's entry, as `select_from_file` reports it, and which lines were taken.
`why` names the `SelectError`. A row of a listing is of one entry; its sub-hunks are
filed under their number among all of the entry, which is also the order they are
printed in.

A line of a diff is its leading character, the rest of it as one opaque value and,
for a hunk header that `parse_hunk_header` can read, its four numbers; a header it
refuses is the one line `BadHeader`, and each marker the parser looks for
(`diff --git`, `---`, `+++`, `@@@`, the binary markers, the no-newline marker) is one
line, too. Inside a body the same `--- x` is a deletion: that is the point of several
properties. `Parse.phase` ends in `"parsed"` or in the name of the `ParseError`; the
next line is chosen when it is read, so all texts over the given lines are read.
`no_trailing_newline` and the paths of an entry are not read by `parse` again and
are left out. `EmitPatch.step` is where `emit` is in its nested loops.

`FeedAndWait.main` is where the calling thread is; `thread[t]` how each helper
fares; a pipe is a bounded sequence. The three pipe ends the code moves into
closures are dropped by the thread that ends, or by unwinding when
`scope.spawn` itself panics (exit 101, and the child is neither killed nor
awaited). The child is external: at any time it may read, close its stdin, speak,
exit with any code or be killed.

`EmitVerified` starts where `select` and `split` hand over their result and ends
with the exit code. stdout is a `LineWriter`: whole lines are delivered as they
are written, what follows the last newline stays in the buffer until `flush_out`.
The environment the program was started with is chosen when git is called;
`GitEnv.ChildEnv` is what git gets of it.

`RunCommand` puts the reading in front: `load` is where `load_and_parse` has come
to, `buf` how many bytes were read, `answer` why the input or the request was
refused. Parsing, validating and choosing are steps that succeed or fail, whatever
the input: `Parse`, `SelectFile`, `SplitFile` and `ResolveSelectors` say which. A
stream is a sequence of symbols; the head of a line that a diff writes (`--- `,
`rename to `) is one symbol, so that a window of code units does not have to be
long, and an encoding turns each symbol into one, two or four bytes.

## 3. Runs

| run | question | result |
|---|---|---|
| `Parse` | do the entries stand for exactly the text read, whatever its lines are; does a body keep to its counts, an entry to its file; is every line of a well-formed diff read in the role it was written in? | passes |
| `ParseMarkers` | is every line of an accepted input kept? | violated: finding 5 |
| `EmitPatch` | does the cursor write every trailer line once and at its place? | passes |
| `SelectFile` | does the result of any selection make exactly the picked changes, and what survives of it for headers that no real diff has? | passes |
| `SelectHeadersDefect` | is a defect of the input always exit 2? | violated: finding 1 |
| `SelectAddAboveDel` | is every subset of changed lines applicable, in whatever order a run has them? | violated: finding 2 |
| `ResolveSelectors` | is what a request comes to what its arguments mean, does nothing panic or leave its allowance, and does a listing name what `select` takes? | passes |
| `SplitFile` | does cutting leave the meaning of the diff, its trailers and its last newline alone? | passes |
| `SplitCrop` | is the crop flag kept whenever it should be? | violated: finding 3 |
| `SplitRenumbers` | are the other hunks left in place? | violated: finding 4 |
| `FeedAndWait` | are answers whole and to the whole input, is a failed wait reported, is `RunChild` implemented, does the call come back with every child that goes on? | passes |
| `RunCommand` | is the limit exact, is the input named for what it is, does each exit code mean what it says, does nothing unchecked leave, does the command end? | passes |

**`Parse`, `ParseMarkers`.** All texts of up to six lines over
eleven: the three file headers, the combined and the binary marker, the no-newline
marker, a hunk header of one old and one new line, one of two new lines and none
old, a malformed one, a blank line (which is an empty context line in a body) and a
deletion. The first entry begins on the second line at the latest; more preamble
changes nothing. Six lines are enough for a hunk that ends early or in time, with a
line of any kind next to it, in a git entry, a plain one or one after another; a
longer hunk or a third entry meets the same state of the automaton, which the
proofs confirm. `RoundTrip` compares `DiffText.PatchText` of what
was read so far with the text itself. It excepts two no-newline markers in a row
(finding 5), and a blank context line regains its space, as the code says it does.
A `@@@` header directly below a complete hunk is read while `in_hunk` is still set
(`parser.rs:94`): it becomes a trailer line, in its place, instead of a refusal.

The other direction: texts are built from diffs (one or two
entries, git's and plain ones, binary ones, up to two hunks with deletions `--- x`,
separators after each hunk, a mail signature `-- ` at the end) and every prefix of
one is read, too. `Recovered` says that what comes out is a diff of this kind. Pairs
that no parser can tell apart are left out (`MayPrecedePlain`).

**`EmitPatch`.** Entries of up to two hunks with up to three trailer lines, tagged
in any order from 0 to two past the last hunk, alone and above another entry; so
the sort, lines of equal tag, and lines left for the end all occur.

**`ResolveSelectors`.** Patches of none, one or two entries: with the same change
twice in one file, in two files, under different paths on either side; two
different changes with one id, in one file and in two; renames whose new path is
another entry's old one, two entries of one path, deletions of a whole file, binary
and header-only entries, an entry without a path. Each of these is asked for with
every one, and every pair, of the arguments that parse (stars, numbers, lists that
name a number twice, cuts, ids), with every kind of argument that does not, and
with three arguments that spend the allowance between them; `MaxIndices` is 4, so
ranges of just that size and one more both occur. Two entries suffice, because the
loops carry nothing from entry to entry but the picks of each and the last one
emitted; two sub-hunks of two changed lines suffice for every order in which a
number can be named twice or cut and named.

`Chooses` is the refinement: `ChooseSubhunks` says in one step what the arguments
mean, argument by argument, without order, cache, budget bookkeeping or merging;
`ResolveSelectors` with `Answered` for its answer implements it. A refusal is one
answer there. Which error it is, is left to `RefusalNamesItsCause`: the code checks
in an order of its own, and the property asks that the error named is really
there, not that it comes first. `ListedIsSelectable` compares a row of a listing with
what its number and id select; a path that several entries share selects nothing,
which the code refuses and the property leaves out. `CropsOnlyTheLastLine` compares
the flag with the last line of the input, found by position. That entries and
sub-hunks come out in order and none twice (`EachSubHunkOnce`) is a conjunct of the
inductive invariant the run checks.

**`SelectFile`.** Entries are all bodies of up to four lines with at least one
change, as a file of their own, below a hunk that grows the file and above a hunk
that deletes; with every combination of no-newline markers a real diff can have
(above the other hunk, none: a marked line ends its file); and whole-file deletions
of up to four lines. Every pick of every
sub-hunk is tried. Four lines give two runs in one hunk, a run between two
contexts, pure insertions and deletions at either end and every order of `+` and
`-` in a run of up to four; two hunks are enough because the loops carry only sums
and the previous hunk's end from one hunk to the next.
`SelectionApplies` applies the result with `GitApply`, each hunk exactly at its
line, and compares it with the file in which the picked changes were made one by
one. It is about diffs whose runs have their deletions first (`DeletionsFirst`, the
order git writes; finding 2 is what happens in the other). `DeletionLeavesNothing` is
about the refusal of partial deletions. The run has about 590,000 states.

The same run takes headers that no real diff has: all pairs of four sound bodies with
old starts from 0 to 3 and at the three last positions of u32 (here 40, so that sums
reach it), and hunks with wrong counts, no lines or no changes. Two of the bodies are
cut in two, so an offset is added to a start at the top of u32, and the second piece
of one has no old lines: its start is clamped and has 1 taken off, which puts it above
the piece before it. `OnlyOrderCanFail` says that such a result is refused for the order
of its hunks and nothing else, `OwnResultAccepted` that the diff of a file that ends
by the last position never gives one. On all entries the run checks the inductive invariant of the proofs (`MInv`, with `IInv` in it) and what it
implies; `SelectionApplies` excepts results that reach the last position, where a
start may be a clamped one.

**`SplitFile`.** All bodies of up to four lines, alone (with every combination of
no-newline markers, or with none and the last u32 for a stale new start, so that
`new_no` wraps), below a hunk, or above one with a right and a stale new start; cut
at every set of one or two of the numbers 1..8, with trailer lines in three
arrangements, as the last entry of the patch with a missing final newline and, for
single hunks, as another one. Two cuts give three pieces, so a piece between two others
occurs, and pieces that are dropped first, in the middle and last.

Beside these, hunks at the edges of u32 (20 here), on either side: a start of 0 with
lines under it, 1, and each of the last four positions, old and new independently, in
bodies with two context lines to cut at and with pieces that have lines on both sides,
on one, or no change; alone, above and below an addition or a deletion at line 0 and at
the last position; cut at each of those numbers, and at the last two together. So
`new_no` wraps above, at and below a cut, and the sum of a start and an offset leaves
u32. There the meaning for a file is not asked (there is no such file), but that a
git-shaped diff is not refused (`OwnResultAccepted`) and the invariant are. Its part
`AskedInv` says which lines are cut: those whose number, counted from the header's
start over the lines of the new side and reduced to u32, was given to `--at`; every
given number is met before pieces are built, and no other line ends one. About 2.0
million states in all.

A cut on the last context line of a hunk leaves the piece below it without a
context line of its own, although `split.rs:401-403` says that every piece keeps
one. The piece applies nevertheless (`SplitAppliesTheSame`, for runs in any order).
The run checks the inductive invariant of the proofs (`MInv`) on the same entries.

**`FeedAndWait`.** The input is two units and a pipe holds one; the child says up
to two units on a stream. So every pipe can be full while its owner has more to
write, and empty while more is to come, which is all that blocking can depend on.

**`RunCommand`.** Texts are up to two lines that a diff may or may not write (a
head of each class, alone, with what belongs to it, with blanks before that, with
text in another script), and three where the first is blank or foreign, and a NUL
below a line of a diff or at the start; in one byte per symbol, in UTF-16 of
either byte order without a mark, and a few in UTF-16 and UTF-32 with one. The
window is five code units, so lines end within it, at its edge and beyond it.
`Evidence` in `EncodingIsNamed` finds the lines by position in the text, not by
cutting the bytes as the code does. The mark of UTF-16LE in front of a NUL is the
mark of UTF-32LE, byte for byte, and is answered so. Limits are 0 (none), one to three, around the
length of the short texts, and the largest there is (`MaxU64` is 40, more than any
text has), where `limit + 1` would wrap. The result has two lines and a tail; a listing
has two lines, a JSON document two and a tail, and the human listing of a patch without
entries nothing at all, where the newline written after it is all that goes out; the
child speaks on stderr only, as `git apply --check` does, and its words are what
`is_parse_verdict` tells apart. The environment is any locale and at most one
variable that points git at another repository. Once the input is loaded its
buffer is gone (`Dropped`), and one path through the rest of the run stands for
every input.

The type invariants of `SelectFile`, `SplitFile`, `ResolveSelectors`, `FeedAndWait`,
`Parse` and `RunCommand` are conjuncts of the inductive invariants their runs check
(`IInv`, `FeedInv`, `MInv`).

Every property of a passing run has a mutant: a plausible slip in one mapped
definition under which the run fails (`PROJECT.json`, `mutants`).

### Findings

1. `renumber.rs:34` - an input hunk that claims old lines at old start 0 passes
   `validate_input`; renumbering the result may clamp, or the result may be out of
   order, and the command exits 70, which `main.rs:138-139` reserves for faults of
   hunkpick's own. (`OwnResultAccepted` shows that starts as real diffs have them
   are safe.)
2. `split.rs:323` - in a run where an addition stands above the deletion it
   replaces and is the new file's last line, without a newline, picking the addition
   alone keeps the deleted line (which has its newline in the trace) as context below
   an unterminated line. `split.rs:280-283` says
   every subset can be realised. Git itself writes deletions first, and for such
   diffs `SelectionApplies` holds.
3. `split.rs:267` - `last_hunk_old_end` uses the recorded start of a piece without
   old lines, which is one less than where it stands. A cut whose last piece is a
   pure addition therefore clears `no_trailing_newline` and the output gains a
   newline the input did not have.
4. `main.rs:122` - `split` renumbers the whole patch; ADR 0010 says it does not.
5. `parser.rs:476` - two no-newline markers below one body line: the second
   replaces the first and the diff comes back out one line short. The comment above
   it (`parser.rs:469-470`) names exactly this as what must not happen.

## 4. Fairness

The parser, emitter, selection and split modules are sequential and state no fairness: they are
checked for safety only, and stop in one of their exits.

`FeedAndWait.Spec` is weakly fair to the calling thread, to the writer and to each
reader separately: the operating system schedules runnable threads, and no strong
fairness is needed because a pipe that has room, or data, keeps it until the one
thread at this end takes it. Nothing is assumed of the child in `Spec`, and without
an assumption the call need not end: a git that hangs hangs hunkpick, which has no
timeout. What holds is `FailedWaitIsReported` and the refinement of `RunChild`, which
promises an answer once the child has ended. `CallEnds` therefore assumes weak fairness
of the child's steps, as a premise of the property: then the call always returns,
whatever the child reads and says in whatever order. Faults (a failing system call, a
panic, a kill) are never fair. `RunCommand.Spec` is weakly fair to the steps of the
main thread, one condition each for reading, for checking and writing a result and
for writing a listing, of which at most one is enabled at a time; to the threads of
`FeedAndWait` as above; and to git, since without that assumption the command need
not end. Reading is fair because its input comes to an end: a writer that never
closes the pipe keeps hunkpick waiting, as it should.

Assumptions about the outside: killing a live child succeeds (`wait_or_kill`
ignores the error, which is only returned for a child that is gone); git leaves no
grandchild that keeps the pipes open; closing a pipe end is immediate. `CommandEnds`
assumes besides that whoever reads hunkpick's stdout goes on reading or leaves: a write
to stdout is a step of the main thread that fairness brings about, where a reader that
keeps the pipe open and full would block it for ever, as it would any filter.

## 5. Proofs

`ResultDiff_proofs` proves, for both commands that make a result, that the loops over
input and result keep `LoopInv`, and `LoopAcceptsResult`: if the input is the diff of
real files and the command handed on hunks that are sound and in order, the second
check stops at nothing but the last position of u32. `LoopInv` records for each loop
what it has established about the part it has passed: `InputInv` the accepted prefix
of the input, `RenumberInv` that hunk j was numbered with the net growth of the hunks
above it, `ResultInv` that the second check walks over the same numbers. New sides in
order follow from old sides in order because every hunk is shifted by the growth
above it (`NewSidesInOrder`).

`SelectFile_proofs` proves for every set of entries, every `MaxU32` above 0 and
every pick:

* `Invariance`: `Spec => []IInv`, and `TypeCorrect` from it;
* `OwnResultIsAccepted`: on an accepted diff whose starts are those of real files,
  the internal check can fail only when the result reaches the last u32 position;
* `OrderIsTheOnlyFault`: on any accepted input it can only fail on hunk order;
* `SubHunksDoNotOverlap`, `PositionsArePositive`;
* `MeaningInvariance`: `Spec => []MInv`;
* `SelectionMakesThePickedChanges`: on a diff of two real files, whatever its size and
  whatever is picked, `git apply` takes the old file to the file with exactly the
  picked changes, each hunk found at the very line its header names;
* `RemovalsLeaveNothing`: a result that removes its file takes every line of it, so
  that git has no contents to refuse it for.

`SplitFile_proofs` proves for every set of entries and of cuts:

* `Invariance`, `TypeCorrect`, and again `OwnResultIsAccepted`,
  `OrderIsTheOnlyFault`, `PositionsArePositive`;
* `TrailerKeepsItsPlace`: however the hunk is cut and whichever pieces are dropped,
  each trailer line keeps the changes above it that it had;
* `OnlyTheLastLineIsCropped`: the crop flag outlives only a result that ends on the
  line of the input it was set for;
* `MeaningInvariance`: `Spec => []MInv`, and `SplittingKeepsTheMeaning`: on a diff of
  two real files, however a hunk is cut and whichever pieces are dropped, the result
  takes the old file to the same new file.

Assumed of the constants: `MaxU32 \in Nat \ {0}`, that entries are of the shape the
parser gives them, that cuts are sets of u32 (`MaxU32Assumption`,
`EntriesAssumption`, `SplitAssumption`), and what it means that an entry is a diff of
real files (`RealAssumption`; an entry need not be one, and then the theorems about
files say nothing of it).

The properties are not inductive: that the result is accepted in phase `"result"`
depends on the deltas renumbering used, on the order of the hunks handed on, on the
soundness of each and on where every body line stood in the input. `SelectFileInv`
adds to `LoopInv` that the last sub-hunk ends above where the next piece begins
(`SplitInv`), that the last hunk picked ends above the next sub-hunk (`PickInv`), and
that a slice keeps the old side line for line and has met at least one picked change
(`SliceInv`, `FixInv`). `SplitFileInv` adds that cuts met are context lines in order
(`ScanInv`, `BuildInv`), that they are the lines asked for (`AskedInv`: a number that
wrapped and is counted on is the count from the start, wrapped, `WrapsOnce`), that the
pieces built so far hold every change above the
next line and the last of them ends where those changes do (`PiecesInv`), and that
renumbering and checking move no trailer line and no crop flag (`SplicedInv`). The
number of changes above a place is what ties a trailer position of the input to
one of the result (`ChangedTo`): a piece that is dropped has none. The arithmetic
comes from `HunksTheorems`: counts of a slice and of a concatenation, `PieceIsSound`
(a piece with a change has a header its body bears out) and `PieceStands` (it stands
on the old side where its lines stood, empty sides included).

**What a result does to a file.** The second half of `ResultDiff_proofs` is about
`GitApply`, for both commands. Its functions (`Listing`, `Apply`) are recursive
functions over a range: that such a function is defined at all, and takes the steps
it is written with, is proved once, by a least counterexample among the natural
numbers (`Upward`, `WalkExists`, `ListingSteps`, `ApplyWalks`). On that rest:

* `FileStep` and `StepApplies`: a hunk that stands at line f of the full diff and
  takes some of its changes takes the file in which the changes above f were made as
  picked to the one in which its own were, too. The file above f is as it will stay,
  the file below as it was, and the hunk's new side is as far from its old one as the
  file has grown. What needs most care is the last newline: a line that loses its
  place at the end gains its newline (`Ended`), so a hunk may only stand where no
  marked line is above it (`Unmarked`) and must not leave an old line below a marked
  one (`Sealed`).
* `PicksApply`: hunks that hold picks of sub-hunks stacked in the full diff
  (`Stacked`, `Selected`), numbered with the net growth above them (`Moved`), make the
  union of the picks. `EmittedMoves` is where `RenumberInv` comes in, and where a
  precondition came from: at the last position of u32 a clamped start may stand for
  any later line, so both properties except `OutOfPositions`.
* `PieceIsPlaced`: a piece of a hunk that stands, stands; cutting a body at any line
  that is context or begins a run leaves no marked line above a piece
  (`NoMarkAboveContext`).
* `AppliesTheSame`: hunks that stand and hold all changes make all changes. Here
  `Sealed` follows because no change is missing (`NothingOldBelowMarks`), which is why
  `split` needs no order within a run; a selection may miss some, hence
  `DeletionsFirst` (`SealedBelow`), and finding 2 without it.

`MInv` adds to `IInv` what each loop has established about the files. For `split` it
is that hunks and pieces stand and no change is lost (`HunksStand`, `PiecesStand`).
For `select`: the sub-hunks stand (`SubsStand`) and hold every change above the next
piece (`PassedInv`); the lines kept so far by the slice loop are, on the old side, the
old lines passed, and on the new side those that stay with the lines picked
(`SliceSides`); the repair of markers changes neither side but for the newline that a
line above the end must have (`FixSides`, lemma `MendedGrows`); each hunk taken takes
its pick (`PickedInv`, counted by `TakenOf`); and renumbering touches new starts only
(`HandedOver`). For an entry that removes its file (`RemovalInv`): it is one run, so
one sub-hunk; no slice of it adds a line; and since the refusal of partial deletions
left no context line in the result, none of its lines stays.

`Parse_proofs` proves for every set of lines an input can be made of:

* `ParseInvariance` and `ParseTypeCorrect`: what is left of a hunk never falls
  below zero, where the subtraction on u32 would panic or wrap;
* `BodiesKeep`: no body outgrows the counts of its header, and the budget the guards
  see is what the last hunk still lacks;
* `OneFilePerEntry`: an entry whose hunks are all complete, as `validate_input` asks,
  has not swallowed the header of another file;
* `ParsingKeepsTheText`: `Spec => []RoundTrip`. After any lines in any order, of any
  number, what was read stands for the lines read, each in its place, as long as no
  two no-newline markers follow one another;
* `EmittingWritesTheText`: `Emit!Spec => []EmitsTheText`. `EmitPatch` is
  instantiated with every diff of such lines (`Diffs`): entries with any number of
  hunks, trailer lines in any order and tagged anywhere. All that is asked of a diff
  is that a binary entry has no hunks;
* `ParsedIsADiff`: whatever is read is one of these diffs. With the two theorems
  before, what is parsed and written again is what was read.

Assumed (`LinesAssumption`): a hunk header carries u32 starts and counts and nothing
else, a body line is its character and one of the `Texts`, and a line without a
character is empty. `OneFilePerEntry` is not inductive: `ParseInv!StateInv` adds
that `saw_hunk` says whether the entry being read has hunks, that `remaining` is what
its last hunk lacks, and that a file header among the trailer lines stands below a
hunk that is incomplete and that no later line can complete (`LeftIncomplete`: a later
hunk is being read, or none). For the round trip it says where trailer lines can stand
(`KeptInPlace`), and `PlaceInv` that the place of the next line is the end of the
text: there are no entries while the preamble grows, nothing is kept below a hunk
whose body grows, and a body line that has its marker was followed by it
(`JustMarked`), so that a second marker is one next to the first. `IInv` is both.

The proof has two halves. The first is about texts alone: what `Concat` joins grows at
the end when its last sequence does (`ConcatOfLonger`), a trailer line appended shows at
its own tag only (`TaggedAppend`), and so an entry that is given one more header,
payload line, trailer line, hunk, body line or marker has one more line at the end of
its text (`HeaderGrows`, `PayloadGrows`, `TrailerGrows`, `HunkGrows`, `BodyGrows`). The
second goes through the branches of the loop (`LineIsTheLast`): each puts the line
where it is the last, itself or with its space restored.

What `emit` writes is compared with the same text. Sorted by tag, the trailer lines of
an entry are those tagged up to n and then those tagged past it, for every n, whether
or not n is a tag (`OrderSplits`). `EmitInv` says that between two hunks the cursor has
passed exactly the lines tagged above the next one, and that what is written is the text
up to there; below a hunk, what was passed since is what was written since. That a
cursor which stops before a line tagged further down has passed all that belongs here is
`CursorStops`; that the lines it passed below one hunk are those tagged for it and no
others follows by taking away what was passed before (`BelowIs`, `Cancelled`), and so do
the lines past the last hunk (`RestIs`).

`FeedAndWait_proofs` proves for every size of input, pipe and answer:

* `FeedInvariance` and `FeedTypeCorrect`;
* `WholeAnswers` and `WholeInput`: an answer passed on is the child's, complete, on
  the right streams; and a child that read to the end of its input was given all
  of it, or is not believed;
* `RunsAChildSafely`: every step maps to a step of `RunChild` or a stutter.

`FeedInv` says that threads start in order, that nothing is lost between child and
reader (`said = got \o pipe`), that a reader which is done saw the end of the
child, and what the two ends of the input pipe know of each other.

`ResolveSelectors_proofs` proves for every set of patches and requests, every hash
and every allowance:

* `Invariance` and `TypeCorrect`;
* `BudgetIsKept`: numbers held by selectors, numbers being read and what is left
  make up the allowance, at any time, so it never falls below nothing and no
  argument gets one of its own;
* `LookupsAreSafe`: the two `expect`s of the emission never fail;
* `NoSubHunkTwice`: entries and sub-hunks come out in the order of the diff, none
  twice, whatever the order and form they were named in;
* `CropIsOfTheLastLine`: the final newline is taken off only when the result ends
  on the last line of the input;
* `CausesAreNamed`: an error that names a path, an index or an id has its cause in one
  of the arguments, and a selection is called empty only if nothing was asked for;
* `ListedNumbersSelect`: what a listing shows beside a sub-hunk selects that sub-hunk,
  and an id as many as it is counted for;
* `ChoosesRightly`: `Spec => Chooses`, the refinement of `ChooseSubhunks`: the command
  answers with what its arguments mean, each by itself and all together, or refuses
  exactly where that cannot be had.

Assumed: `SelectorsAssumption` (the values that stand for no path and an empty one
are no paths; `MaxIndices` is a natural number) and `InputsAssumption` (patches and
requests are of their types, binary entries have no sub-hunks, and `split` takes one
argument). None of these properties is inductive. `ResolveInv!IInv` adds that an argument whose
numbers are being read is a set (`NumbersFromOne`), that the numbers held are a
finite set and make up the allowance with what is left (`Spent`; each number taken
adds a pair to `Held`, lemma `HeldGrows`), that an entry with a pick is split and its
picks are of sub-hunks there (`Stored`), that what is still to materialise stands
above what is done (`Ascending`, `InOrder`), that an entry emitted is recorded with
the end its picks have (`EntriesRecorded`: the flag is decided by that record after
the picks are gone), that the selectors are the arguments, one by one, and every one
resolved has named an entry (`Traced`: a refusal looks at the selector, its cause is
in the argument), and that every row is of its entry (`Listed`).

For the refinement it adds `Meant`, which says of every phase that what it has done so
far is what the arguments it has passed mean. The selectors read list the numbers of
their arguments (`ReadAsSaid`), and the allowance has been charged for as many as they
ask for (`Charged`: what is asked for, a set of numbers tagged with argument and part,
is finite, and its size and what is left make up the allowance). What `named`, `whole`
and `cuts` hold is what the arguments resolved so far mean (`ChosenAsMeant`); a
sub-hunk that two arguments cut has two cuts (`CutsAsMeant`), so that `Conflicting`,
which looks at the entry, agrees with `Compatible`, which looks at the arguments.
Every entry emitted has exactly its picks and could be emitted (`EmittedAsMeant`), and
the rows are of the entries passed that the filter shows (`ListedAsMeant`). A step that
refuses refutes what the answer rests on: an argument that does not read or is not
known (`OneIsEnough`), an allowance that does not suffice (`TooMuchIsAsked`), an entry
that cannot be emitted (`RefusedInEmission`). A step that ends has the answer
(`EmittedIsTheSelection`, `ShowedIsMeant`, `AddressIsMeant`), and every other step
stutters (`StepsChoose`).

`RunCommand_proofs` proves for every set of inputs, every limit, window, size of
result and of pipes, and everything git may say:

* `Invariance`, of which the types are a part;
* `TheLimitIsExact`, `BlankIsNoOp`: what is read, and which input ends as a no-op;
* `EncodingIsRight`: the refusal of an input that is no UTF-8 names its encoding;
* `CheckedBytesLeave`: nothing reaches stdout before the checks asked for have passed;
* `SeventyMeansAFault`, `RefusalMeansSeventy`: exit 70 takes the internal check's
  verdict, git's, or a panic, and git's refusal of the result is always exit 70;
* `DeliveredInFull`: exit 0 means that everything was delivered, or nobody was there.

Assumed: `EmitAssumption`, `WindowAssumption`, `SourcesAssumption` and, for the call of
git, `FeedAssumption` (`GitAssumption`): sizes are natural numbers and a text is of the
symbols of `DiffEvidence`. The call is a part of the run: its theorems are instantiated
(`P == INSTANCE FeedAndWait_proofs`), so `FeedInv` is a conjunct of `IInv` and its
preservation is not proved twice. `LoadInv` and `RefusalInv` say what was established
about the input before each step, `CheckInv` which checks lie behind each stage and
what git was told of its environment, `OutputInv` how much has been delivered, and
`FaultsAreReal` that a helper thread is blamed only for a panic of its own. For
`EncodingIsRight` the lines that count, cut from a window of bytes, are brought into
correspondence with the whole lines found by position in the text (`CountsIs`,
`EvidenceIs`), the units of an encoding with the symbols of the text (`UnitsOf16`,
`TextOfIs`), and the wrong byte order is shown to read as no text at all (`SidesAre`).
That a line ends where it does needs a least position, which a well-founded order on
natural numbers supplies (`LeastIs`).

Model-checked only:

* `Recovered`, which is about the diffs the run builds its texts from;
* all liveness (`CallEnds`, `CommandEnds`, `FailedWaitIsReported`, the fair half of
  `RunsAChild`): fairness and `ENABLED` are out of the proof system's reach.

The induction theorems of the library take an operator parameter, which the installed
provers cannot instantiate. Where a recursive function over a range is proved about,
its induction is spelled out (`Upward`); elsewhere the modules under proof count with
`Cardinality`, and file the rows of a listing by number instead of filtering a
sequence. No module that is proved about declares a `RECURSIVE` operator.

## 6. Not modelled

* **The path in a header** (`unquote`, `strip_ab`, `split_diff_git_paths`): text
  taken apart character by character. Paths are opaque everywhere, and the hazard
  at `parser.rs:634`, a `diff --git` line cut at a wrong place, has no property. It
  would need a model of text of its own.
* **The look of a listing** (`list.rs`: wording, columns, colours, sanitising of
  control characters, previews, JSON syntax). What a row says is modelled.
* **clap** (`cli.rs`) and the rendering of errors. The commands, their arguments
  and their exit codes are modelled; a command line that clap refuses is not.
* **UTF-32 without a mark**: the code does not know it either, and it ends as
  binary.
* **Hashing** of ids: any function of the content.
* **The composition of parsing, choosing and slicing by value.** `RunCommand` takes
  each by its outcome. What `Parse` yields is in the shape `SelectFile` and
  `SplitFile` start from, and what `ResolveSelectors` picks in the shape
  `SelectFile` takes, but no run carries one diff through all of them.

## 7. What is left

1. **Header paths**, as a module of short strings over a small alphabet, if a
   property beyond the round trip of quoting is found.
