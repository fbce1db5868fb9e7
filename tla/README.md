# A verification project for vmecs

vmecs is a proxy: an *inbound* protocol accepts clients and learns from each
the target it wants, an *outbound* protocol opens the way to that target, and a
*relay* copies bytes between the two sockets. This directory holds TLA+ models
of that program, translated from the source, the TLC configurations that check
them on small instances, and TLAPS proofs of what matters most.

## The system

| Component | State | Operations | Interacts through |
|---|---|---|---|
| epoll relay `proto/relay/etcp.c` | per worker: epoll set; per connection: two linked `etcp_relay_conn_t` with their count of ends of file | accept, handshake, dial, register, read/write loop, half close, remove | `tcp_socket_t` function tables, edge-triggered epoll |
| threaded relay `proto/relay/tcp.c` | per connection: handler, reader and writer thread, retry count | handshake, dial with retries, copy, close, join | the same sockets, `thread_join` |
| sockets `proto/tcp.h`, `native`, `socks`, `vmess`, `dokodemo` | descriptor, target or proxy; VMess: `read_buf`, `raw_buf`, serialiser, key | read, try_read, write, handshake, connect, close (= half close), free | kernel TCP |
| buffers `proto/buf.c` | `vbuffer_t`: bytes, capacity, eof, mutex, two condition variables; `rbuffer_t`: bytes, capacity | read, try_read, write, close, wait for drain, drain; decode from a descriptor | threads; decoders |
| VMess stream `proto/vmess/{tcp,vmess,decoding}.c` | serialiser's pending bytes; the peer's undecoded bytes | digest into trunks, end trunk, decode a trunk | a TCP stream that cuts and joins as it likes |
| handshakes `proto/socks/{tcp,socks4,socks5}.c`, `proto/vmess/{tcp,request,response,decoding}.c` | an `rbuffer_t`, the target, the time of the request | encode, decode incrementally, answer, reject | a TCP stream, the server's clock |
| configuration `toml/` | tokens, syntax tree, hash tables of objects | lex, parse, generate, look up, free | `toml_load`, `toml_lookup` |
| program `app/vmecs/main.c` | the configuration, one inbound, one outbound, a server socket per worker | load, look up, build, bind, serve | configuration, inbound and outbound interfaces, epoll relay |
| vhook `app/vhook/` | `proxy_on`; per thread the calls of `connect` it is in | launch, initialise, hooked `connect` | threads of the hooked program, SOCKS5 client, libc |
| crypto, `pub/` | none | wrappers | - |

What is hard here: edge-triggered readiness (an event that is missed never
comes again), two half-closes that may come in either order or together with
errors, sockets that are freed from the handler of the opposite one, user-space
buffers between the kernel and the relay, streams that fragment, threads that
share a socket, a hook that calls itself under a flag all threads share, and a
configuration that may be wrong at each of five stages.

What makes each part correct: the relays deliver each stream in order, whole,
announce its end only after its data, free exactly what they made and nothing
that is still used, and do not get stuck; the buffers keep their bytes in order
within their allocation and never leave a caller asleep; the VMess stream
returns the bytes written, however they were cut, and an end exactly at the end;
a handshake hands the server the target the client asked for, never takes a
valid message for an invalid one, leaves the stream at the first byte of data,
and ends; the configuration that is looked up is the one the file means, and
vmecs serves exactly when that is complete; a hooked connection reaches the host
the program asked for, through the proxy unless another thread dials it.

## Modules

| Module | Models | State and code |
|---|---|---|
| `Relay` | what a relay promises | per connection a phase; per end what was sent, delivered, ended, announced |
| `TcpSocket` | one socket as a relay sees it, as pure operators | record `Socket`: kernel buffer, FIN, RST; `raw` = `raw_buf`, `eof` = closed `read_buf`, `wshut` = `close_func` was called |
| `EtcpRelay` | a worker of the epoll relay | `pc`/`cur`/`harvested`/`chunk` = the worker inside `etcp_worker` and `etcp_handle`; `epoll` = the epoll set and its ready list; `conn`, `nclosed` = the relay conns; `st`, `sock` = the sockets; `peer` = the other programs |
| `TcpRelay` | one connection of the threaded relay | `hpc`, `retry` = `_tcp_relay_handler`; `tpc`, `chunk` = reader and writer |
| `VBuffer` | `vbuffer_t` under concurrent callers | `mut`, `buf`, `size`, `eof`; `pc` = where each caller's call is |
| `VmessStream` | a VMess writer, the wire and a VMess reader with `rbuffer_t` | serialiser, trunks on the wire byte by byte, `raw_buf`, `read_buf`, both reads |
| `Codecs` | the messages of SOCKS4, SOCKS5 and VMess: encoders and incremental decoders | sequences of bytes; a decoder returns -1, 0 or a size as in the code |
| `Handshake` | a SOCKS or VMess handshake between an inbound of vmecs and a client | `pc` = the message a side waits for; `rbuf`, `should_read` = `rbuffer_read`; `target` = `addr.target`; `in`, `cut` = the TCP stream |
| `HashTable` | `toml/table.c`, as pure operators | a table is its slots in use, its `size` and its `cap`; probing from the slot of the hash |
| `TomlLexer` | `lexer()` with the table of `toml_lexer` | `Table` = the transitions; a lexing = `state`, `i`, `j` and the tokens |
| `TomlParser` | the descent of `toml/parser.h` with the rules of `toml.c` | `Grammar` = the rules; a match = tokens taken and the node made |
| `TomlObjects` | `obj.c` and the generation in `ast.c` | `heap`, `live` = the objects; `env` = `cur_env` |
| `Dictionary` | what a configuration file means | a function from paths to values |
| `Vmecs` | the program from its command line to its serving workers | `pc` = how far `load_config` and `main` are; `inbound`, `outbound`, `servers` = what they built |
| `VHook` | the launcher and the library's `connect` in every thread | `proxy_on`; `stack` = the calls of `connect` each thread is in, with the route of each call's sockets |
| `MC*` | small instances of the above | |
| `TcpSocketProofs`, `EtcpRelayProofs`, `TcpRelayProofs`, `VBufferProofs`, `VmecsProofs`, `VHookProofs`, `VmessStreamProofs`, `HandshakeProofs` | theorems | |

`EtcpRelay` and `TcpRelay` extend `TcpSocket`, and each refines `Relay`
through an `INSTANCE Relay WITH` (property `RelaySpec`). `Handshake` extends
`Codecs`; what it shows of a handshake is what the relays take for granted when
they read one header and succeed or fail. `Vmecs` extends `TomlParser`, which
extends `TomlLexer`, and `TomlObjects`, which extends `HashTable`; it refines
`Dictionary` (property `LoadsDictionary`). Where `Vmecs` ends, with every worker
serving, `EtcpRelay` begins.

How the source is abstracted:

- The unit of data in the relays is a block: one read of a plain socket or one
  VMess trunk. Blocks are numbered by their sender, so order, loss and
  duplication show. `VmessStream` works on single bytes.
- `native` and dokodemo sockets differ from SOCKS ones in the handshake only,
  so a socket has one of three protocols. A handshake is reading one header,
  together with any part of the data behind it, the end trunk of VMess
  included, and success or failure.
- A dokodemo inbound has no target; dialling any outbound but dokodemo's then
  dereferences NULL, which the models show as the program's end (`crashed`).
- Blocking calls are disabled until they can return. The relays' blocking
  writes wait for room in the peer's window.
- Every action is one handler step with all it changes; the kernel may wake a
  descriptor between any two steps of the handler that works on it.
- `shutdown` wakes whoever polls the socket, whichever side called it.
- In `Handshake` a client is any program that speaks the protocol: it may offer
  other authentication methods, send another command or another user id, and
  need not turn the text of an address into that address as vmecs's client
  does. It sends its data after its handshake, as the relays do.
- Fields of 16 bytes that nothing looks into have `Wide` cells; with
  `Wide = 16` the positions of the VMess request are those of the code.
- Hash values stand for what they are computed from: a validation code for the
  user id and its time, a key and an iv likewise, a checksum for the bytes it
  covers. (`crypto_fnv1a` adds the prime where FNV-1a multiplies by it; both
  sides do the same.) AES-128-CFB shifts every cell by an amount that key and
  iv determine: a piece decrypts by itself, and under the wrong key or iv no
  cell of it is a byte. `VmessStream` leaves the encryption of trunks out.
- The text of an address is a dot followed by the address: all that matters is
  that `inet_pton` finds the address in it and in no name.
- A configuration is a sequence of characters, but a run of letters counts as
  one: no rule of the lexer tells letters apart, and `f`, `alse`, `t`, `rue` are
  letters of their own because the keywords are compared by prefix. `any` is a
  character the lexer does not name; in a string it stands for a colon.
- The hash is a constant, as any function from names to numbers will do. The
  run's hash makes half of the names collide in the last slot.
- A port that was never set (an empty `port`) is any value of `AnyPort`.
- A connection of the hooked program is the list of hosts it goes through. A
  `connect` of libc and the SOCKS5 handshake succeed or fail as a whole.
- The receive timeout that new sockets get is left out: `fd_read` tries again
  when it expires.
- Memory is assumed never to run out, as the code asserts.

## Runs

| Run | Question | Bounds |
|---|---|---|
| `etcp_safety` | is every connection of the epoll relay relayed faithfully, without leak or use after free, and nothing left without an event, for each pair of protocols | 1 connection, 2 blocks each way, 2 blocks of receive buffer, window 1 |
| `etcp_live` | does every stream that ends arrive, and every connection whose streams ended go, except what a VMess handshake stranded | 1 connection, 1 block each way |
| `etcp_pair` | is every client accepted by a worker that already serves one | 2 connections, no data, all handshakes and ends |
| `tcp_relay` | the same questions for the threaded relay | 2 blocks each way, 2 dials |
| `vbuffer` | does the buffer keep order and bounds and wake whom it must | 3 threads, 3 bytes, pieces of up to 2 |
| `vmess_stream` | are the bytes written read, however the wire cuts them | 3 bytes, trunks of up to 2, reads of up to 3, a raw buffer that starts at one byte |
| `handshake` | does every handshake agree on the target, end, and leave the stream in step | each protocol, an address of each type and one as text, the right and a wrong user id, a byte of padding or none, clocks up to 2 apart with a window of 1, one byte of data each way |
| `config` | is a file of any form read as the dictionary it means, and does vmecs serve exactly what it says, or end | every text of up to 3 characters, up to 3 entries that nest, repeat and obstruct each other, tables of 8 names and a ninth, configurations with each field of each side wrong or missing once; 4 workers |
| `vhook` | whom do concurrent connects reach, by which way, and do they return | 2 threads with 2 connects each, to a host or to the proxy itself, on each kind of descriptor |
| `etcp_double_eof` | what a comment of the source says and the code does not do | as `etcp_safety` |
| `socks4_ipv6` | the same, for an IPv6 target of a SOCKS4 client | one target |
| `vmess_padding` | the same, for the padding of a request | one target, up to `VMESS_P_MAX` = 16 bytes of padding |

Why the bounds are enough: two blocks and a buffer of two let a handshake take
none, one or all of what follows it, let a block be pending while another is
copied, and let a FIN come with and without data in front; a window of one
makes every second write block. Two connections are what it takes for an event
of one to be pending while the other is handled. Three threads are a reader, a
writer and one that waits, drains or closes at the same time. Three bytes in
trunks of two give a write of two trunks, a read that leaves a rest, and a raw
buffer that doubles twice. A handshake message is cut at every place in the
run, so one byte of padding is as good as fifteen, and sixteen is the run
`vmess_padding`; clocks two ticks apart lie inside, at and outside a window of
one, and move while a request is on its way. Three characters put every
character behind every two others, in each state of the lexer, and at the end
of the text; three entries let a header move the base of the next entries and
conflict with both. Eight names fill a table of `TABLE_INIT_BUF` slots. Two
threads are what it takes to meet in the section where the flag is off, and a
second connect of each to find it left off.

Deadlock is not checked: connections and streams end, and a model whose peers
have nothing more to send may stop.

### Fairness

- `EtcpRelay`: the worker runs whenever it can (`WF` on its handler steps);
  `epoll_wait` serves the ready list, and `accept` the backlog, in order, so
  neither passes one entry by for ever (`SF`). A peer reads what it is sent
  and completes or abandons the handshake it owes (`WF`); nothing else is asked
  of it: it need not send, end or reset anything. Without the peer's part a
  worker may block for ever in a write or a handshake, since the code sets no
  limit there.
- `TcpRelay`: every thread is scheduled, a peer reads.
- `VBuffer`: a thread that holds the mutex or was woken goes on. No caller is
  required to write, read or close.
- `VmessStream`: the network delivers, the reader reads.
- `Handshake`: both programs go on, unless they die, and TCP delivers; a client
  need not send data.
- `Vmecs`: the program runs. `Fairness` spells out weak fairness of `Steps` with
  the state predicate `CanStep`, since TLC would evaluate the parser for each
  `ENABLED`. The other program may hold the port; `EventuallySettled` supposes
  that it leaves it for good at some time.
- `VHook`: every thread runs, and the proxy answers or closes. A proxy that does
  neither keeps its caller in the handshake, and the flag off for all threads.

## What the violated runs show

- `etcp_double_eof`: an end of file counts twice. The relay shuts the other
  socket down when a stream ends; the wake-up this causes, or the FIN reported
  again, lets the first direction read 0 a second time, and the shared count
  reaches 2 while the other direction still carries data.
- `socks4_ipv6`: `socket_sockaddr_ipv6` sets the family `AF_INET`. The SOCKS4
  client, which means to refuse what is not IPv4, takes the zero flow label of
  the sockaddr for an IPv4 address and asks for 0.0.0.0.
- `vmess_padding`: the client draws the number of padding bytes from 0 to 16 and
  writes it into four bits. 16 is written as 0, and the server rejects one in
  seventeen requests for a wrong checksum.

Without a run of their own:

- data or an end trunk that the VMess handshake's read took along lie in
  `raw_buf`, and if nothing is left in the kernel no event tells the epoll worker
  (`vmess/tcp.c:184`, `buf.c:99-111`, `etcp.c:138`): until more of the stream or
  its FIN arrives the data is not delivered, and the connection of a stream that
  ended is not removed (`Stranded` in `EtcpRelay`);
- a VMess connection that closes inside a trunk is not removed by the epoll
  relay for this end of file, which the non-blocking read reports like `EAGAIN`
  (`buf.c:106`);
- values that are floats or arrays are refused with the whole file, although
  `toml.h:7` says "support types: string, int, float, bool, array" and the
  grammar at `toml.c:264-268` lists the float: the lexer scans it, but no rule
  takes it (the second part of `ParsesMeaning`);
- a table never grows, because its size is never incremented: the ninth name of
  one table ends the program with the assertion at `table.c:104`
  (`LoadsDictionary` allows just this);
- data that arrives in the segment of the last SOCKS message is dropped with the
  handshake's buffer (`socks/tcp.c:257`);
- after one half ended, an error removes a connection without closing the half
  that had not, so that a VMess peer gets no end trunk (`etcp.c:69-72`);
- a dokodemo inbound with an outbound that needs a target ends the program with
  its first connection; the configuration allows the pair;
- a text the lexer rejects ends the program, because `toml_lexer` looks at the
  list that `lexer()` did not return (`toml.c:230`);
- the names `f`, `fa`, `t`, `tr` and so on are keywords, because the keywords are
  compared over the length of the name (`toml.c:90`);
- a string whose last character is an escaped end of the text is accepted and
  ignored (`toml.c:170`);
- vhook started without a slash in its own name runs the program unhooked
  (`vhook/main.c:13`), and each hooked connection leaves a descriptor open
  (`hook.def:72`).

These limits shape the other runs: `handshake` stays below 16 bytes of padding
and gives SOCKS4 clients no IPv6 target, its `InStep` lets the client of a SOCKS
server lose data, `etcp_safety` and `etcp_live` have no SOCKS *outbound* (whose
server may speak first), `Quiescent` and the liveness properties of `EtcpRelay`
except an end that is `Stranded`, and `OnlyHandshakesStrand` says that nothing
else leads there, `RelaySpec` allows a connection to go once one stream has
ended, so that only `GracefulClose` shows the end of file that counts twice,
`ParsesMeaning` starts from the tokens as the keywords leave them and asks for no
floats or arrays, `Tiles` lets an open string
be ignored, and `BypassOnlyInRace` allows what the shared flag cannot prevent.

## Proofs

`VBufferProofs` proves for any threads, sizes and bounds the type invariant,
which says that the bytes held fit the capacity, `Fifo`, `NoLostData`,
`NoLostDrain` and `ClosedForGood`, which no run checks. The order of bytes is not inductive by
itself; the invariant adds the ledger: the bytes taken, followed by those held,
number 1 to `wrote` until the first loss, and the capacity is at least one so
that doubling makes it grow.

`EtcpRelayProofs` proves for any finite set of connections and any protocols
the type invariant, `NoUseAfterFree` and `NoLeak`. Neither is inductive: the
invariant adds which sockets the worker holds at each of its locations, that
the two ends of a connection are registered and freed together, and that at
most one event is in flight and belongs to a live connection, which is where
`maxevents = 1` enters.

A second invariant, `FInv`, follows the streams of the same worker. It has the
ledger of the blocks: until a connection fails or is removed, what a peer sent
is, in this order, what the other peer got, the block in the worker's hands, and
what `raw_buf` and the kernel hold. It says what an end without an event hides:
nothing in the kernel, and for a plain socket no end of stream that was not
passed on. That part depends on two details of the code. The kernel buffer is read
until it is empty, and `shutdown` comes before the end is left to wait for
its next event. It also says why a worker may be where it is: about to shut down
a side, because the whole of the other stream is written; about to give up,
because a peer has reset its connection or ended its stream. From `FInv` follows
the refinement (`RelaySpec`) for any number of connections: a registration is an `Establish`,
a write one `Deliver`, a half close an `Announce` behind all of the stream, a
removal a `TearDown`.

`Quiescent` is about `raw_buf` too, and a third invariant, `WInv`, follows what
events tell. An end without an event has nothing in `raw_buf`, neither data nor
the end trunk, and is not reset, or it is stranded (`Told`). A `read_buf` that is
closed belongs to an end that was counted and passed on or is about to be
(`Passed`), and an end that is about to be passed on has been read to its last
trunk (`AtEnd`), since a read returns one trunk and the handler repeats it until
nothing comes. `NothingUnannounced` follows for every protocol, and so does
`HandlersStrandNothing`: of all steps only the registration after a VMess
handshake can leave an end stranded.

`TcpSocketProofs` has the lemmas about the socket
operators: their types, and what a read, a harvest and a handshake leave of a
stream.

`TcpRelayProofs` proves the same three of the threaded relay, for any protocols,
blocks and number of dials; its `NoLeak` speaks of every dial, the first and the
repeated ones, as well as of the end. Its invariant adds which sockets the handler holds
at each location, that the threads run only while it waits for them, and that
the dials counted stay within the limit.

It also proves `FinMeansAll` of the threaded relay, again for any bounds. What
holds of a thread that stops is not inductive; the invariant is the ledger of
the blocks. Until the thread closes, what a peer sent is, in this order, what
the other peer got, what the thread has in its hands, and what `raw_buf` and the
kernel hold. With it go the three stages in which the end of a VMess stream
passes through a socket, that a handshake reads nothing but its header from a
stream that has not begun, and that a read returns -2 only when the peer broke
off inside a trunk. From it follows the refinement (`RelaySpec`): a write is one
`Deliver`, because a thread holds one block at most, a close is an `Announce`,
because a thread about to close has seen the end of everything or a reset, and
joining the threads, or the crash on a size of -2, is a `TearDown`. Both
theorems assume that no outbound is SOCKS, as the run does: the buffer of a
SOCKS handshake is freed with what was read behind the answer, and a SOCKS
server, unlike a client, may send data right behind it.

`VHookProofs` proves for any threads, hosts and number of connects the type
invariant, `ReachesHost` and `BypassOnlyInRace`, and that the flag is off only in
the section (`OffOnlyInSection`). The invariant says of every call on every
stack what its route and its tunnel are at its location, that only the last call
of a stack runs and the one below it waits for it, and that a call of the
library goes to the proxy.

`VmessStreamProofs` proves for any size of the trunks, of the first buffer and of
reads and writes the type invariant, `InOrder` and `EofMeansAll`. The invariant
takes the stream as a whole, the cells in `raw_buf`, in the kernel and under way:
it is a sequence of trunks, of which the last may be cut short, and their bytes
are the numbers that follow those handed out, up to those taken from the
serialiser. How it ends depends on the sender: with a whole trunk while it is
open, with the end trunk, and with nothing behind it, when it closed, anyhow but
without an end trunk when it broke off. TCP only moves cells between the parts,
so that a step that delivers leaves the stream as it is; the decoder takes a
prefix that is one trunk; cutting the stream short keeps all of it but that the
last trunk is whole.

`HandshakeProofs` proves of every handshake, for any targets, offers, clocks,
window and data, and wherever the messages are cut, the type invariant, `InStep`,
`TargetKept` and `NoSpuriousReject`. None is inductive. The invariant says, for
each thing the two parties can be waiting for at once, what the unread bytes of
each are: before the other has spoken, a part of the message it is sending;
after it, the message with the data behind it; and when one of them has given
up or broken off, a part of what it would have sent. It also fixes the message
itself, as the encoding of the target that was asked for, so that what the server
decodes is that target.

The lemmas it rests on are about the codecs, one per message. A decoder that is
given less than its message asks for more; given the message, and anything
behind it, it consumes just the message; and what it returns is what was
encoded. That holds for names of any length up to 255 and for any checksum,
of which the proof only needs that equal bytes have equal ones and that it is a
number. The latter is shown by a smallest counterexample over the length,
since the checksum is a recursive function.

Four hypotheses stand behind this. The padding is less than 16 bytes; the run
`vmess_padding` shows the failure of `VMESS_P_MAX`. For `TargetKept`, what a
SOCKS4 client is handed is no IPv6 address, which is the run `socks4_ipv6`. The
targets can be sent at all: an address has the size of its family and the
length of a name fits a byte, as the assertions and fields of the code require.
And a text that looks like an address is one (`TargetsAssumption`), and a name
resolves to four bytes (`ResolvedAssumption`).

`VmecsProofs` proves of the configuration, for any documents and any number of
workers, the type invariant, `Tiles`, `TreeShaped` and the refinement
`LoadsDictionary`. Its first part is about `HashTable`: for any hash function and
any number of slots, an insertion leaves every key where a search for it ends, a
lookup returns what was inserted last, the table never grows, and the assertion
fails exactly for a new name in a full table.

`Tiles` is inductive once it says, for each state of the automaton, what the
characters taken since the last token are the beginning of: an identifier, a
number, a string with or without a backslash at its end, a comment (`LexOK`). The
proof goes through the transitions of `Table`, of which only the first that
takes the character counts.

The other three rest on one inductive invariant, `ConfigOK`. It says what the
tokens and entries are until the objects are made, what the objects are until the
program gives up or serves, and what has been built when. The objects are
described by giving each one a path: the root has the empty path, an object that
a table holds has the path of its owner with its name behind it, every object
but the root is held by one that was made before it, and all paths are
different. The last is what makes a tree of them. It is also why a lookup in the
tables of the code can be compared with a function from paths to values: an
object is found by following a path exactly when that is its path. An entry is
handled in one loop, whose steps keep this and extend the path by one name; so
each way out of the loop is one step of `Dictionary`, an entry defined, a
conflict noticed, or the program aborted for a full table.

That entries have paths and values of the right form is shown of the parser by
going through the rules of `Grammar`: `match_rule` and the nesting of the rules
are recursive functions, bounded by `Depth`, since a rule that calls itself has
taken a token before. `HashNat` is the one hypothesis: the hash of a string is a
number. It is no ASSUME, because TLC cannot enumerate all strings.

Apart from these, about hashes, about SOCKS outbounds, and about the padding and
SOCKS4 in the handshakes, the proofs make no assumptions but the named ASSUMEs
of the modules. Those of `Vmecs` say that there are ten digits, that marks and
letters are other characters, that `NULL` is no object, that a document is a
sequence of characters without the one that ends a text (`DocumentsAssumption`),
and that counts and ports are numbers.

Only model-checked, and why:

- `ParsesMeaning`: that the parser accepts a language defined without it is an
  induction over the tokens and over the nesting of the rules at once, and the
  library's induction theorems cannot be used with the provers at hand.
- `StartsAsConfigured`: it compares the program with what each document of the
  run is known to ask for, which is an input of the run and not of the code.
- All liveness, the end of every handshake (`EventuallySettled`) included: the
  prover does not handle fairness and `ENABLED`.

## Not modelled

Cryptography itself (pure; see the abstractions above), the resolution of names
(a name resolves or not), the options of sockets, tests, what programs print.
The list with reasons is in `PROJECT.json`.

## Plan

1. The target's way from a SOCKS inbound through a VMess hop to the dialling
   server, and vmecs's SOCKS client with a server that refuses.
