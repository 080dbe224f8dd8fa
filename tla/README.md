# A verification project for c_mini_projects

The repository holds five small C programs that share no code. This directory
holds TLA+ modules translated from their sources, the TLC configurations that
model-check them on small instances, and TLAPS proofs of what matters most.
`PROJECT.json` maps every definition to the source lines it stands for, lists
the hazards of the code with the properties that watch them, and for every
property a plausible bug that breaks it.

    tlc -config Chat.cfg MCChat        # one model-checking run
    tlapm ChatServerProofs.tla         # the proofs of one module

## 1. The system and its parts

### socket-server (a chat server; `main.c`, `clients.c`, `net.c`)

*State.* A table of `MAX_CLIENTS` slots (`fd`, address, nickname, an
accumulation buffer `inbuf` with `in_used`), one listening socket. Around it the
kernel's: descriptors, the accept backlog, one socket buffer each way for each
connection.

*Operations.* One thread: build the fd_set, `select`, at most one `accept` in a
round (greeting, or rejection when no slot is free), then for each slot that was
reported one `recv`; the bytes are appended to `inbuf` and every complete frame
(4-byte length, payload) is cut out and given to `on_message`. `/nick x` sets
the name and answers the sender; anything else is labelled and sent to all other
slots (not to its sender, against the documentation: section 3). A slot is emptied on end of file, error, oversized frame, full buffer,
and when a send to it fails: so the table changes while `main` iterates over it.

*Interaction.* `drain_frames_from_inbuf` calls back into `main.c`, which calls
`clients_broadcast_text_framed`, which may call `clients_remove` on any other
slot, inside the loops over slots, frames and receivers. All sockets block.

*Hard.* TCP cuts the stream anywhere; peers leave, reset, stop reading or
connect at any point of a round; `rfds` and `ready` were computed before all of
that; descriptors and slots are reused.

*Correct means.* Frames are delivered exactly, in order, at once; slots and
descriptors agree; nobody misses or repeats a text of the others; no label is left over from
another client; `recv` never blocks; every round ends; everybody is served.

### mini-bash-like-shell (`main.c`, `parse.c`, `sig.c`, `common.h`)

*State.* The token vector of the current line, `last_status`, up to two children
and the pipe between them; the SIGINT disposition.

*Operations.* `tokenize` (quotes, escapes, `|`, `<`, `>`), built-ins `cd`, `pwd`,
`env`, `exit`, one external command, one pipeline of two commands, one redirection.

*Interaction.* fork, pipe, waitpid, Ctrl-C to the whole foreground group; the
children inherit "ignore SIGINT" until `restore_default_sigint`.

*Hard.* Ends of a pipe left open keep a reader waiting for ever; the children
end in any order, are killed by SIGPIPE or fail to exec; a fork can fail when
one child is already there; `argv` is overwritten by the function that runs it
and freed by `main`; the tokenizer looks ahead and grows its buffer.

*Correct means.* The prompt comes back if the programs end; nothing (children,
pipe ends, memory) is left behind; the status tells the truth; Ctrl-C works;
tokens are those the quoting rules define.

### stack-calculator (`calc.c`, `token_stack.c`, `number_stack.c`)

*State.* The tokens of a line, an operator stack, the postfix output, a number
stack. *Operations.* strtok, infix to postfix, evaluation, frees. Sequential;
nothing is validated. *Hard.* Malformed lines, array bounds, int arithmetic.
*Correct means.* The value of a well-formed expression; arrays not overrun for
any line.

### json-parser (`read_file.c`, `lexer_next.c`, `parser.c`, `value.c`, `dump.c`, `main.c`)

*State.* A buffer that grows while the file is read; the lexer's position, line
and column; one token of look-ahead; the recursion of `parse_value`; a tree of
malloc'd cells. *Operations.* `parse`: read, parse, print, free. `get`: read,
parse, resolve a path, print, free. *Interaction.* The parser calls `lexer_next`
for each token it needs; tokens point into the buffer, and strings are copied
out of it. *Hard.* Room for the NUL, look-ahead at the end of the text,
ownership on some ten error exits at any depth with allocations that fail,
growth of arrays, the corners of the grammar and of paths. *Correct means.* The
buffer holds; nothing behind its NUL is read; one owner for every block; JSON and
only JSON is accepted; printing gives back what was read, each token converted once; a
path finds what it means.

### mycp (`main.c`)

Copies a file, or a directory with everything below it. *State.* The file system
and the recursion of `copy_dir`, with one open directory for each level.
*Operations.* `main` decides what the destination is and may make it;
`copy_file` opens, truncates and copies block by block; `copy_dir` makes the
directory and goes through its entries. *Hard.* A destination that is the origin
or inside it, so that the program reads what it is writing; a call that fails
half-way, or without a word; entries that are neither file nor directory; symbolic links, which
every call but `mkdir` follows. *Correct means.* Nothing
but the copy is touched; if there was no message the copy is complete; the
program ends.

## 2. Modules

| module | models | extends / uses |
|---|---|---|
| `FrameStream` | abstract: what one slot's receive path promises | |
| `Framing` | recv, `clients_feed_frames`, `drain_frames_from_inbuf`, slot reuse | implements `FrameStream` |
| `FramingProofs` | theorems about `Framing` | `Framing` |
| `ChatRoom` | abstract: one conversation, members, inboxes | |
| `ChatServer` | main's loop, the table, `on_message`, broadcast, sends; kernel and peers | implements `ChatRoom` |
| `ChatServerProofs` | theorems: tables, recv, rounds, types, texts, labels, the refinement | `ChatServer` |
| `MCChat` | instances | `ChatServer` |
| `FrameLine` | abstract: whole frames in order, until the connection fails | |
| `SendFrame` | `send_frame`, `send_all`, byte by byte | implements `FrameLine` |
| `SendFrameProofs`, `MCSendFrame` | theorems; four frames | `SendFrame` |
| `Shell` | main loop, `run_external`, `run_pipe`, `run_redirect`, children, Ctrl-C | |
| `ShellProofs`, `MCShell` | theorems, about `Tokenize` too; lines | `Shell`, `TokenReference` |
| `Tokenize` | `tokenize` | |
| `TokenReference`, `MCTokenize` | what the tokens of a line are by the quoting rules; lines | `Tokenize` |
| `Calculator` | `calc` | |
| `CalculatorGrammar` | the grammar of expressions, with the value of each | `Calculator` |
| `CalculatorProofs`, `MCCalculator` | theorems; numerals and lines | `CalculatorGrammar` |
| `ReadFile` | `read_file_all` | |
| `JsonLexer` | `lexer_next` on the buffer that `ReadFile` leaves | `ReadFile`, `JsonText` |
| `JsonTokens` | the rules for tokens and their places, over the text | `JsonLexer` |
| `JsonLexerProofs`, `MCJsonLexer` | theorems; files, and what printed strings stand for | `JsonTokens` |
| `JsonText` | characters, `dump_string_escaped` | |
| `JsonParser` | `parser.c`, `value.c`, the calls of `main` | |
| `JsonCli` | `get`: `resolve_path` between parsing and freeing | `JsonParser` |
| `JsonGrammar` | JSON's grammar, over tokens | `JsonParser` |
| `JsonDump` | `dump_impl`, token by token, with the conversions of strings and numbers | `JsonParser`, `JsonText` |
| `JsonPath` | what a path means, over the text of a document | `JsonCli`, `JsonDump` |
| `JsonParserProofs` | theorems about memory, grammar, round trip and the value found, for both commands | `JsonCli`, `JsonGrammar`, `JsonDump` |
| `MCJsonParser` | strings, numbers and paths of the instance | `JsonPath`, `JsonGrammar` |
| `MyCp`, `MCMyCp` | `main`, `copy_file`, `copy_dir`; six small file systems | |
| `MyCpProofs` | theorems, for any file system with any links | `MyCp` |

### Framing

A byte is named by its position in the connection's stream, and `inbuf` is a
sequence of positions; a byte lost, doubled or moved shows. What a header
decodes to is a function of its position (`stream`), also in the middle of a
payload, so reading a header at the wrong place gives an arbitrary length.
`pc = "select"` is the code outside, `pc = "drain"` inside the while loop of
`drain_frames_from_inbuf`; one turn of the loop is one step (`DrainDeliver`,
`DrainTooLarge`, `DrainEnd`). `FeedOverflow` and `FeedFrames` are
`clients_feed_frames` up to the drain. The slot is taken again after it was
emptied (`ClientsAdd`); all connections of one behaviour send the same stream,
and every stream is an initial state. `FrameStream` is the promise with no
buffer at all; the refinement maps `open` to the slot's being occupied.

### ChatServer

Here a frame is a unit. `pc` says where the single thread is: in `select`, at the
accept, in the for loop ("scan"), in the drain loop, in the broadcast loop
("cast"); `i`, `j`, `ready`, `rfds` are the locals. The steps are split where the
environment can intervene in a way the code could notice: every send of a
broadcast is a step, enabled only while the receiver's socket buffer has room
(`SNDBUF` frames), because a blocking send stops the thread there. `accept`,
`clients_add` and the greeting are one step; the greeting goes into an empty
buffer. `file` is the process's descriptor table: the lowest free number is
handed out, so numbers are reused as in the kernel. Peers connect, send, read,
close (`"fin"`, they still read) or reset (`"rst"`) on their own. Failing calls
are chosen by `Faults`: `select` and `recv` with an errno other than EINTR,
`accept` for any reason; without a free descriptor `accept` fails anyway.
`inbox` (the texts sent to each client, in order), `log` and `joined` are history variables.
`ChatRoom` is mapped with `members` = the connections in the table and the same `inbox`.
It is the code's room: a sender is not handed its own texts (`clients.c:143`), although
`README.md:89` of the server shows that it is (section 3).

### SendFrame

One connection for its whole life, byte by byte. `part` and `sent` are the call of `send_all`
and its local; `Send(n)` is one `send()` that takes `n` bytes, as many as are left
and fit into `SNDBUF`, and blocks while there is no room. The peer reads and leaves
when it likes. `Frames` says for each call whether its result is looked at (a
broadcast, which removes the client) or ignored (greeting and answer). A byte is
named by its frame and its place, so that a hole or a repetition shows.
`FrameLine` is what `ChatServer` takes for granted when a frame is a unit there: `line`
is mapped to the frames whose last byte is on the wire, `cut` to "some call failed".

### Shell

`pc` is the shell's place, `at[k]` that of child `k`: born (ignores SIGINT),
ready (after `restore_default_sigint`), run (after exec), zombie, reaped.
`pfd` and `ends[k]` are the pipe ends each process holds; end of file and
SIGPIPE follow from them. A few programs stand for all: `gen` writes and ends,
`yes` writes for ever, `sink` reads to the end, `quit` exits with 3, `nocmd` does
not exist, every other program runs until it is killed. `heap` counts the
line's token strings. `lost` and `strays` count pipe ends and children that the
shell has forgotten.

### Tokenize

One turn of the for loop per step (`Loop`, from `Start`); `buf`, `cap`, `st`, `i` are the locals, and
every character without a meaning behaves like `a`. Tokens remember whether they
are operators outside quotes, which the code's strings do not. `TokenReference` says for each
character of a line how it is quoted, and from that where tokens begin and end, with no buffer.

### Calculator

One token of the input, or one pop, per step. Reading below an array, dividing by
zero and `free` of an unset entry are phases of their own ("undefined", "trap",
"badfree"), at which the model stops. `int` is two's complement of any width. `CalculatorGrammar` says which lines are
expressions and what their values are, by the usual grammar of sums and products.

### JsonParser

Tokens are chosen as the parser asks for them; they are the kinds `JsonLexer`
returns. Every malloc is a numbered block;
`cells` holds contents, `live` what is not freed, `bad` a second free or a use
after free, `lost` what nobody points to any more. `stack` is the C recursion with its
locals. Any allocation may fail, up to `MaxFails`. `JsonCli` adds the command
`get`: when the parser is done, a path is looked up by `resolve_path`, character by
character, and only then the tree is freed; the copy of a key may find no memory (`GetNoMemory`).
`JsonGrammar` defines the documents of each length by JSON's rules alone. `JsonDump` is what `dump.c`
writes of a tree, a sequence of characters for each token: a string's kept text (`Chars`) is escaped by
`dump_string_escaped` character by character; a number is a double, `strtod` of its token, and is printed as `Format`
("%.17g") of that, two functions of which nothing is assumed. `JsonPath` says what a path means from
the text alone: it cuts the document at the commas of each level and the path at its dots and brackets.

### ReadFile and JsonLexer

`ReadFile` keeps `fread`'s freedom: any number of characters up to `CHUNK`, an error
together with the characters read, an allocation that fails. `cap` is what is
allocated, `storage` what was written. `JsonLexer` runs when the buffer is there. One
step looks at one character (`Scan`, with the state of `scan_number` or
`scan_string` in `st`), or returns a token, or skips white space. A token
remembers its kind, place, length, line and column. `NumberMove` and `StringMove` are the two
scanners as transitions over character classes; `"x"` stands for letters that
mean nothing. `JsonTokens` says without a scanner which pieces of a text are tokens
and at which line and column they begin.

### MyCp

A path is a sequence of names. The file system is a function from places, which are
paths without links, to nodes (directory, file with blocks, special file); `links` says
where each symbolic link leads, whether anything is there or not, and `Real` follows them along a path.
`open` follows a link to nothing and creates the file at its end (`Room`), `mkdir` does not (`Vacant`). `pc` is the
function and stage, `stack` holds one record for each level of `copy_dir`, with
what `readdir` has returned (`seen`) and what it must return before its regular end (`entries`); it may
also return what was made meanwhile. Up to `MaxFails` calls fail when they like; calls
that cannot succeed fail always. Two failures go unnoticed by the code: `readdir` (the loop ends as at the end of the
directory, `LeaveUnread`) and `close` (the last blocks may be lost, `CloseFails`); `missed` remembers
where that happened. `was` keeps the file system of the beginning, `told` whether a message was printed.

## 3. Runs

### Those that pass

| run | states | what it shows | bounds |
|---|---|---|---|
| `Framing` | 152 k | frames exact, in order, without delay; drops only for cause; implements `FrameStream` | streams of 7 bytes, header 2, limit 2, lengths 0, 2, 3, reads of 1..3 bytes: headers and payloads cut everywhere, several frames in one read, an empty frame, an oversized one, a full buffer, a slot used again |
| `Chat` | 245 k | table = descriptors; no gaps or repeats in what the others say; implements `ChatRoom` | three clients with a slot each, two talking, one of them leaving or resetting at any time, one sending an oversized frame, select and recv failing; socket buffers of one frame |
| `ChatLive` | 60 k | recv never blocks; labels; a round reads all it should; rounds end; all are served | three connections, two slots and three descriptors: rejection, reuse of slot and number, accept failing at any time, an empty nickname, a text too long for its label |
| `SendFrame` | 609 | bytes in order, results honest; implements `FrameLine` | four frames of 4..7 bytes, one of them empty, a socket buffer of 5, every way to cut them, the peer leaving between any two calls |
| `Shell` | 64 k | prompt, children, pipe ends, statuses, memory, Ctrl-C | two lines of 28 kinds, some with two operators or a built-in in front of one, pipe and fork failing, one Ctrl-C; pipe of one unit, two units written, so writers block |
| `Tokenize` | 126 k | tokens are those of the reference definition; no access out of bounds | all lines of up to 5 characters of 7 kinds, buffer of 2 growing |
| `Calculator` | 266 k | arrays, stack order, nothing lost; right values | all sequences of up to 5 of 7 tokens; all expressions of up to 7 tokens over three numerals, `+ * /` and parentheses; 6-bit ints, so that they wrap |
| `JsonLexer` | 411 k | the buffer holds, the lexer stays in it; tokens, lines and columns are those of the rules; strings are printed as JSON strings for the characters typed | all texts of up to 5 characters out of those of numbers, strings, escapes or white space; all texts of up to 3 pieces out of 23; pieces of 2 into a buffer of 2, reads of 1 or 2, one error |
| `JsonParser` | 1369 k | one owner for each block; the language; the round trip; paths | all documents of up to 9 tokens, with two strings (one with an escape in it), a number that `%.17g` does not give back as typed, and a literal; one failing allocation, also that of `get`; arrays that grow after one item; 114 paths: keys that come first, second, twice or not at all, indices, and malformed ones |
| `MyCp` | 58 k | only the copy is touched; silence means a complete copy; it ends | six file systems of about ten nodes on two levels: plain, with special files, with links at the destination (to a file, a directory, nothing), in the origin (to a directory elsewhere, to one above, to nothing); 54 pairs of places, each with and without a final `/`; one call failing; six names, paths of up to 3 of them |

Why the bounds are enough: the loops of the code treat all slots, all frames and
all characters alike, and each hazard involves at most three parties (a sender, a
receiver that fails, a bystander or newcomer), two rounds, or two nested
constructs. What does not depend on the bounds is proved (section 5).
Deadlock checking is off except in `Framing`: peers, users and documents may simply be
at their end, and the model then stops.

`RoundTrip` compares structure, which values in which places and order, and that each is converted just once on the
way; what the conversion of a string does is the subject of `PrintsTheText`. `AcceptsJson`,
`TokensRight` and `MatchesReference` compare the state machines with definitions
that do not use them (JSON's grammar; which pieces of a text are numbers, strings
and literals, and where lines begin; how each character is quoted), as do `ResultRight`
(a grammar of expressions that carries values along) and `GetFindsIt` (the document and the path cut
into pieces).

### Those that show a disagreement

| run | property | what the code does |
|---|---|---|
| `ShellForkFails` | `EveryChildAwaited` | when the second fork of a pipeline fails, nobody ever waits for the first child (`main.c:103`, against `README.md:114`: waitpid waits for the children) |
| `JsonTrailing` | `FreedOnce` | data after a complete value: the root is freed, written to, freed again (`parser.c:41`, `main.c:117`) |

### Observed while modelling, without a run of their own

socket-server:

- A text is not sent back to the one who said it: the broadcast skips the sender's slot (`clients.c:143`). The session in
  `README.md:89`-`96` shows the opposite ("Hello everyone!" is followed by "[Alice] Hello everyone!" on Alice's own
  terminal), and the comment at `clients.c:119` speaks of all clients. `NoGaps`, `ChatRoom` and with it
  `RefinesRoom` follow the code: that they hold says nothing for the documented behaviour, which the code does not have.
- One client that stops reading blocks `send`, and with it the server (`net.c:41`), while
  `README.md:11` speaks of non-blocking I/O. Hence the fairness of section 4.
- Peers whose frames are all legal are dropped when they pipeline: the room test at
  `clients.c:107` comes before the complete frames are taken out.
- A labelled text may exceed `MAX_FRAME_SIZE`, and a legal text whose label leaves no
  room is dropped with a message on stderr only (`clients.c:132`).
- While the process is out of descriptors, `accept` fails in every round and
  `select` returns at once: a busy loop, in which the other clients are served.
- `Client clients[MAX_CLIENTS]` is an array of about 67 MB on the stack of `main` (`main.c:68`, `clients.h:7`): with the usual
  limit of 8 MB the program does not get as far as its first `select`. The models begin behind that.
- Nothing bounds descriptors by `FD_SETSIZE`: with a raised limit `FD_SET` writes
  past the set (`clients.c:55`). `FdSetIsLargeEnough` gives the limit that is safe.

mini-bash-like-shell:

- When a fork fails in a pipeline, the first or the second, both ends of the pipe stay open in the shell (`main.c:91`, `103`).
- A Ctrl-C between `fork` and `restore_default_sigint` is lost to that child.
- Each pipeline or redirection leaks the operator's string, each unmatched quote the
  last token (`LosesOneAtMost` says it is never more).
- `run_command` compares texts, so a quoted `"|"` is an operator; a second operator is
  passed on as an argument; a built-in in front swallows the pipeline.

stack-calculator:

- `-` passes as a number, of value 0 (`calc.c:24`), so a binary minus never
  subtracts: the expression of `README.md:74` gives 8, not the 6 of line 75. `Calculator` has that behaviour;
  the expressions of its run leave binary minus out.
- `free` is called for all `STACK_MAX` entries, set or not (`calc.c:130`).

json-parser:

- When `parse_value` fails the root's children are lost (`parser.c:36`); main exits.
- The lexer accepts unknown escapes and control characters in strings, also a raw line
  end after a backslash, for which no line is counted; a NUL in the file ends the document silently.
- Strings keep their escapes as they were typed and are escaped again when printed:
  `"\n"` comes out as `"\\n"` (`parser.c:75`, `dump.c:12`). `PrintsTheText` says that the output
  stands for exactly the characters that were typed.
- Numbers are printed as `%.17g` of a double: `0.1` comes out as `0.10000000000000001`, and `1e999` as `inf`, which is
  no JSON (`parser.c:121`, `dump.c:34`).
- `parse_value` calls itself for each level and nothing limits the depth (`depth` is only counted, `parser.c:90`), so a document that is
  nested deeply enough overflows the C stack, as do `jv_free` and `dump_impl`. The model's stack has no end.
- When `get` cannot allocate the copy of a key it says that the path was not found (`main.c:40`).
- An empty key cannot be reached by a path. Failed allocations give "unknown error" at 0:0.

mycp:

- Copying a file onto itself empties it (`O_TRUNC`, `main.c:25`); copying a directory into itself goes on
  until the paths are too long. `QuietMeansCopied` leaves both out, `OnlyCopiesChange` and `Ends` do not.
- A `readdir` that fails is taken for the end of the directory (`main.c:77` does not ask `errno`), and the results of `close` are
  not looked at (`main.c:51`-`52`): there is no message, the status is 0, and the rest of the directory or of the file
  is not there. `QuietMeansCopied` excepts exactly those directories and files (`missed`).
- A link to nothing at the destination is followed: the file is created where the link leads, outside the copy (`main.c:25`).
  `OnlyCopiesChange` therefore speaks of the places to which the paths of the copy lead. Links in the origin are followed, too
  (`stat`, not `lstat`), and what they lead to is copied as a file or directory of its own; a link to nothing ends the program at
  that entry (`main.c:95`).
- A failure inside `copy_file` or `copy_dir` prints a message and the exit status is 0; special files inside a
  directory are skipped without one.
- `copy_dir` only looks whether its destination exists, not whether it is a directory (`main.c:66`; `main.c:165` asks
  at the top level). If a file is in the way of a directory, every file below fails with a message; but a
  directory with nothing to copy in it is then left out in silence. `QuietMeansCopied` excepts just that
  (`Barren`); without the exception its proof fails, which is how it was found.

## 4. Fairness

`ChatServer.FairSpec`: weak fairness of the server's step (the thread runs when it
is not blocked) and of the reads of every peer that is not in `Mute`. Nothing is
assumed of connecting, sending or closing. Weak is enough: once enabled, these steps
stay enabled until taken, or until the peer is reset. Without the peers' part `RoundsEnd` fails: a
client that does not read stops the server, as section 3 notes.

`Shell.FairSpec`: weak fairness of the shell's own steps and of each child's, the operating
system's scheduler. Nothing is assumed of the user. `PromptReturns` leaves out the
lines with programs that never end; `InterruptFrees` covers them.

`MyCp.FairSpec`: weak fairness of the one process's steps; no call of its blocks for ever.
The other modules state no liveness and assume no fairness.

## 5. Proofs

For all values of the constants that satisfy the modules' ASSUMEs (sizes are numbers,
positive where a zero would be meaningless; in `Calculator`, parentheses and operators are not numerals, since
`is_number` wants a digit but for the lone "-", which `Value` treats by itself; in `MyCp`, the file systems to begin with are trees of directories, with links from places in them to any place;
`strtod`, `Format` and `Chars` are any functions).

| theorem | statement |
|---|---|
| `FramingProofs!TypeCorrect` | `[]TypeOK`: `inbuf` never holds more than `INBUF_CAP` bytes |
| `FramingProofs!BufferStaysInStep`, `NothingStuck`, `DropsForCause` | the safety properties of run `Framing` |
| `FramingProofs!Refinement` | `Spec => FS!Spec` |
| `ChatServerProofs!SlotsMatchSockets` | `[]OneSlotPerSocket` |
| `ChatServerProofs!RecvSafe` | `[]RecvNeverBlocks` |
| `ChatServerProofs!FdSetIsLargeEnough` | with `MAX_FILES <= FD_SETSIZE`, all registered descriptors fit the fd_set |
| `ChatServerProofs!RoundsComplete` | `RoundComplete`: no round ends early |
| `ChatServerProofs!ServerTypeCorrect` | `[]TypeOK` of the server |
| `ChatServerProofs!NobodyMissesOut` | `[]NoGaps`: each member has every text that the others have said since it joined, once, in order |
| `ChatServerProofs!LabelsRight` | `[]LabelIsSenders`: no name of another client |
| `ChatServerProofs!ImplementsRoom` | `Spec => Room!Spec`, step by step |
| `SendFrameProofs!BytesInOrder` | `[]BytesRight`: no gap, no repetition, honest results, for any frames and buffers |
| `SendFrameProofs!Refinement` | `Spec => FL!Spec` |
| `ShellProofs!TypeCorrect` | `[]TypeOK` of the shell |
| `ShellProofs!PromptClean` | `[]CleanPrompt` |
| `ShellProofs!LossBounded` | `[]LosesOneAtMost`, however long the session |
| `ShellProofs!StatusHonest` | `[]PipeStatusHonest` |
| `JsonLexerProofs!StorageSuffices` | `[]BufferHolds`: any file, any pieces, any sizes |
| `JsonLexerProofs!LexerStaysInside` | `[]InBuffer`: any text |
| `JsonLexerProofs!CutsIntoTokens` | `[]TokensRight`: any file, read in any way, is cut into the tokens of JSON's rules, each with its line and column |
| `JsonParserProofs!ParserTypeCorrect` | `[]TypeOK`: no array holds more than it has room for, at any nesting |
| `JsonParserProofs!EveryBlockOwned`, `ProgramBlocksOwned` | `[]OneOwner`, for any document and any failing allocations; with `get` too |
| `JsonParserProofs!MemorySafeButForTrailingData`, `ProgramMemorySafe` | the double free of section 3 is the only misuse of memory |
| `JsonParserProofs!OnlyLiveBlocksTouched` | every pointer the parser or the printing follows is to a live block |
| `JsonParserProofs!SuccessFreesAll` | a run that returns 0 has freed everything |
| `JsonParserProofs!OnlyJsonIsAccepted`, `ProgramAcceptsJson` | `[]AcceptsJson`: the documents accepted are the JSON values, and while memory lasts one is refused at the first token with which no JSON value goes on |
| `JsonParserProofs!FreedTwiceAfterValueOnly`, `ProgramFreesTwiceAfterValueOnly` | `[]FreedTwiceOnlyAfterValue`: it takes a complete JSON value with something behind it |
| `JsonParserProofs!PrintedIsRead`, `ProgramPrintsWhatItRead` | `[]RoundTrip`: what is printed are the tokens read, all of them in their order, each converted just once, for any document and whatever `strtod` and `%.17g` do |
| `JsonParserProofs!FoundPartIsLive` | `[]FoundIsLive`: what `get` prints is a part of the root's tree of which nothing was freed, for any document and path |
| `ShellProofs!NoReadPastEnd`, `NoWritePastBuffer` | `[]InLine`, `[]BufferFits` of `Tokenize`: any line, any initial buffer size of at least 2 |
| `ShellProofs!FindsTheTokens` | `[]MatchesReference`: the tokens are those of the quoting rules, and the lines refused are those that end inside quotes |
| `CalculatorProofs!TypeCorrect`, `NoOverflow`, `OperatorsRise` | any line, well-formed or not |
| `CalculatorProofs!ConversionKeepsTokens` | `[]NothingLost`: each operator once, the numbers in their order |
| `CalculatorProofs!ArithmeticIsRight` | `[]ResultRight`: expressions without a binary minus get the value arithmetic gives them, for any numerals and width of `int`; it traps only where there is none |
| `MyCpProofs!OnlyTheCopyChanges` | `[]OnlyCopiesChange`: any tree with any links, any two places, any failing calls |
| `MyCpProofs!SilenceMeansCopied` | `[]QuietMeansCopied`: without a message the copy is complete, but for what the property names (failures of `readdir` and `close`, which are silent, overlaps, devices, barren directories) |

The arguments:

- *Framing.* `BufferInStep` (the buffer is a contiguous piece of the stream ending with the
  last byte received, and the undelivered part starts at the next frame) is the core;
  the others need it, since "where the next frame starts" is read through the buffer. With
  `LoopState` (outside the loop `offset` is 0; the loop runs only for an occupied
  slot) the conjunction is inductive. The refinement maps each turn of
  the loop to `Deliver`, `Close` or a stutter, each recv to `Arrive`.
- *ChatServer tables.* `OneSlotPerSocket` is not inductive alone: `Pending` adds that a
  waiting connection is there once and has connected, and `Turn` that the backlog is not
  empty at an accept and that the slot being drained or broadcast for is occupied (else
  `clients_remove` would close descriptor -1).
- *recv never blocks.* `StillReady`: each slot still to be scanned whose descriptor is in
  `rfds` holds a connection that is readable. It survives an accept, because a new
  descriptor was not registered when `rfds` was built; and a removal by a broadcast, because the number is not handed
  out again before the round is over. Readability of a peer never goes away by itself.
- *Rounds.* `Countdown`: the slots still to be served number at most `ready` (one less while one is being
  served or the listening socket is). It begins as an equality, by a bijection between the
  occupied slots and the descriptors that `select` reported; removals and accepts only make it slacker.
- *Server types.* `Amounts`: never more frames are taken than were sent, and the batch being drained is a
  part of the difference, so `on_message` is only called for frames of the sender's script.
- *Nobody misses a text.* `NoGaps` speaks of the time between rounds. The invariant says it of every
  moment (`Handed`): the client of a slot has what it is due of all texts, except that during a broadcast
  the slots from `j` on lack the last one. `Casting` is what keeps them due it: nobody has joined since it was posted,
  and its author is the one the loop skips. `Unheard` is needed when a slot is taken: nothing was sent to
  a connection before. A send that fails removes the receiver, so it leaves no gap but no member either.
- *Labels.* `Names`: the name in an occupied slot is the last one its client has asked for. A slot
  that is emptied and taken again must have lost its name, which is why it needs the tables' invariant.
- *The room.* A client joins at its accept, a text is posted by `OnText` and handed out by `CastSend`, a
  removal is a leave; all other steps stutter. That `CastSend` is the room's step, for a text that its
  receiver has not had, follows from `Handed`.
- *Sending.* As long as no call has failed, the wire ends exactly at the place where the locals of
  `send_all` are (`AtPlace`), which makes the next bytes the right ones. After a failure the
  connection is gone, so that no later call sends anything (`NoneAfter`), which is why ignoring the result is
  harmless; and nothing of what comes later is on the wire (`NotAhead`), so that a result of success means the frame's last byte.
- *Shell.* `Family` says which children there can be at each place of the shell, and that those of an
  earlier command are over; `PipeOpen` where it may hold pipe ends; `Strings` counts: during a
  command the line's own tokens are allocated and at most one string for each earlier line.
  The statuses need `Family` too: an external command has no second child whose status could be mistaken for its own.
- *Reading and lexing.* Until the NUL is written there is room for one character more than was read
  (`RoomLeft`). The lexer moves on only over characters it has seen not to be NUL (`Moved`), a literal over
  those it was compared with, and the last character of the buffer is a NUL.
- *Tokens.* What was read from the file is the file (`WholeFile`), so the rules speak of the storage up to its first NUL
  (`TextIs`). A state of `scan_number` tells how far its digits, fraction and exponent go, and for every number that
  begins here how far into it the scanner is (`NumberAt`); so it neither takes what is no number (`NumberEnds`) nor gives one up
  (`NumberLasts`), and the same for strings, where a state also says whether the next character is escaped: by the
  parity of the backslashes before it (`EscapedNext`). Between two tokens `Good` holds: those so far are right,
  the gaps are white space, and `line` and `col` are what the gaps make them. Only there `skip` takes CR LF
  for one line's end, so the invariant must say that no step stops between the two.
- *The parser's memory.* `PInv` shares the live blocks out among levels: level 0 is `main` with the root, level
  `k` the `k`-th call in progress, which owns the tree below the cell it fills in and its key (`Share`). The trees of
  two levels are disjoint, and what a call writes to is the cell of the level below (`Calls`). A step
  moves blocks from one level to the next (`arr_push`, `obj_push`), adds a new one, or frees all that its level owns, and must leave
  the other levels' trees as they were: they are trees of a heap in which every item is younger than its
  container (`Sound`), so a write changes only the trees that its cell is part of (`TreeKept`). `ArrayApart`
  says that an array which grows is in no tree but its own container's. `Afterwards` has the two ways a run can end, and
  the one in which the root is freed twice. `LookupOnlyReads` carries it all over to `get`.
- *The parser's language.* `JInv` says what is left to read: with one language `A[k]` for each call in progress
  (what may follow the value that level `k` is reading), the texts that make what was read a JSON value are those of
  `Left(A)`, as far as the token looked at allows (`Promises`). Each step takes the first token off that language: a
  container's rules say which first tokens its items and its end have (`Starts`), and no two of them share one. After an
  error that was not memory's no text is left (`Refused`). The grammar is a recursive function over lengths; that it
  exists, and what each of its rules contains, is proved by strong induction.
- *The round trip.* `RInv` says what would be printed so far is what was read, each token as it comes back (`Back`): the text `A[k]` of a level is that of the level
  below, the bracket, the items with their commas, and the key that waits for its value (`Written`); what was read is the
  text of the innermost level, with the value that has just returned (`Kept`). It needs that members have keys and other items have none
  (`AllWhole`), that the container of each call is of the kind its function fills (`Shaped`), and from `PInv` that the cell written
  to is in no other level's tree, so that what is printed of those stays the same (`DumpKept`). That a token is converted once, when it is
made a cell and when that is printed, is `StringBack` and its like, for each kind of token.
- *What get finds.* The loop of `resolve_path` is a recursive function over the characters of the path; from the last to the first it is shown
  that the value it returns is below the one it is at (`WalkBelow`): a member or an item of a cell is in the cell's tree. With
  `PInv`, by which the root's tree is live until `main` frees it, the value found is live.
- *Tokenizer.* Memory: `i <= Len(line)`, `Len(buf) < cap`, `cap >= 2`. Tokens: at every character the
  automaton's state is how the reference says that the character is quoted, `buf` holds what is kept of the token it is in, and the
  tokens finished are those that end before it.
- *Calculator.* `Room` counts: every token handled adds at most one entry to the output and the
  operator stack together, a pop moves one across, and each number pushed uses up an
  output token; with the type invariant this bounds all three arrays. `NothingLost` needs in addition that
  no number is ever on the operator stack (`NoNumberWaits`).
- *The calculator's values.* `RInv` follows an expression of value `w` through both passes. While it is converted
  (`Reads`), each entry of the operator stack is a level that knows where the operand being read may end, and with which
  value so that the line becomes `w` (`Levels`): below it all is complete, and an operator is popped exactly where no product can go
  on (`GoesOnProduct`). Where a sum or product may end is the set of places from which steps of the grammar's left
  recursion lead to one that is known (`Reach`), so no induction over the line is needed. `Posted` says which
  values the number stack will hold after each token of the output; the second pass finds them there (`Holds`). A value is a set, and
  an impossible division the empty one, which spoils all that is made of it (`SpoiltToTheEnd`): so a trap means that the
  expression has no value.

- *Links.* Where a path leads is a recursive function over its length, and exists for any links (`LeadExists`); a path that
  leads to something has only directories above it (`AboveIs`). No step makes or removes a link, so a path leads to the same
  place throughout (`RealStays`).
- *What mycp touches.* `CInv`. `Settled`: once `main` has looked, nothing changes where the copy goes, since a
  copied file makes no directory and for a directory the place does not depend on what is there. `Places`:
  each call in progress copies a path of the origin to where `Moved` puts it, which `DestPath` keeps up level by level
  (`MovedChild`). So every write is to a place that `OnlyCopiesChange` allows, wherever links lead.
- *What mycp's silence means.* If the two do not overlap, all that the origin's paths lead to is as it was (`Untouched`): a write there
  would be one to a place that the copy leads to, too. `AllMet` (in `Quiet`) then says of each path of the origin that it was
  handled, is still ahead (in the call being made, or under an entry that a `copy_dir` in progress has not yet seen), or lies in a
  directory whose reading failed (`Unread`). What was handled stays so, because without an overlap no two paths are copied to one
  place. A directory is left when all that was there at its opening has been seen (`Listed`), or with its reading failed; at the end
  nothing is ahead. This is an induction along the program's steps, which replaces the one over the tree.

`Tree`, `NumbersOf` and the grammars are recursive functions. That they exist is proved from the well-foundedness of `<`
on numbers (`TreesExist`, `PicksExist`, `LangExists`), by an induction over a set of numbers (`Downwards`, `Upwards`)
in the place of the library's, which quantifies over an operator. What is said of them holds for every heap and every line.

Only model-checked: all liveness (fairness and ENABLED are beyond the prover), and two comparisons of a program with a
definition that goes over the data itself: `GetFindsIt`, `PrintsTheText`.
The type invariants of the server, the shell and the calculator are proved and are
in no run; those of `Framing` and `JsonParser` are proved and checked.

## 6. What is not modelled

- `ChatServer` sends a frame in one step. That is what `SendFrame` is for: there frames are cut anywhere, and
  `RefinesFrameLine` is the assumption that `ChatServer` makes.
- After an error of `send` the connection is taken to be dead; a passing error (`ENOBUFS`) is not modelled.
- `setup_listen_socket`; EINTR: select and send are retried without a change of state, and the branch of `main.c:123` in which a recv that
  was interrupted leaves the client in the table is left out of `ChatServer` (no handler is installed); messages on stderr.
- Shell: texts of prompts and directories; allocation failures; signals other than SIGINT and
  SIGPIPE. `getline` has no limit on a line's length.
- Calculator: reading the line (`fgets` of 100 characters, so a longer line is cut); numerals
  too large for `atoi`.
- json-parser: wording of errors; the layout of `dump.c`, and what `strtod` and `%.17g` compute (any two functions, in the run those of one
  number); of the control characters that are printed as `\u00..` two; the limit of the C stack on the parser's recursion; line and column overflow; an index in a
  path that does not fit `size_t`; `resolve_path.c` (a second copy of the function that no other file uses); `jv_copy` and
  `jv_get_string`, which nothing calls (if it were called: after a failed allocation in an object `jv_copy` gives `jv_free` a value
  whose members are freed already or not yet set, `value.c:117` and `135`). `clients_find_by_fd` is not called either.
- mycp: permissions and times (the code copies none), hard links (two places with one node), other processes that change the tree,
  `malloc` (its result is not tested). A chain of links is one link to its end, and `ELOOP` is among the failures for the
  length of a path (`PATH_MAX` is compared with the names of the path itself, not of what its links stand for).

## 7. Plan

Done, in this order: Framing with its abstract specification and proofs; ChatServer with
ChatRoom; Shell; Tokenize; Calculator; JsonParser; JsonLexer on ReadFile; JsonCli; MyCp;
SendFrame with FrameLine; the proofs of Shell, SendFrame and JsonLexer; those of ChatServer up to
the refinement, of JsonParser's memory, of NothingLost in Calculator, and of MyCp; those of the tokens of
Tokenize and JsonLexer, of JsonParser's language, of its round trip and of the value `get` finds, and of Calculator's values;
symbolic links and silent failures in MyCp, and the proofs over them.

Every program is modelled now, and every function that is called but those that section 6 names. What is left: a model
in which frames are bytes and the callback broadcasts, `Framing` and `ChatServer` in one, for the locals that
`drain_frames_from_inbuf` keeps across the callback; and a run of its own for the text that is not sent back to its sender.

Runs stay few: one passing run per question, and those that show a disagreement only as long as
they say more than the line in section 3.
