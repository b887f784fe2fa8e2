# TLA+ models of rxf

This directory holds specifications of rxf's parts, the TLC runs that check them on small instances,
and the TLAPS proofs that hold for every instance. Paths are relative to the repository's root, and
those without a directory are under `src/pymergetic/rxftk`; S1 to S11 are the sections of
`docs/20-EXECUTION-POLICY.md`.

Contents: inventory; the execution policy; the network; the live side; stores, tools and world; the
runs; fairness; proofs; findings; what the code does otherwise; what is not modelled; plan.

## Inventory

rxf is a tool kit around an object model: an image of typed objects that is authored, compiled,
certified, booted and edited while it runs. `PROJECT.json` lists the parts with their files, what is
modelled of each, and every hazard at its line.

| part | state | operations | hard behaviour | what makes it correct |
|---|---|---|---|---|
| dispatcher, ring cell, arena (`tests/host/smp_*.c`) | run cells, ready-ring, slots and claims | dispatch, park, wake, resolve, compact | threads race on atomic words; cells move under claims | one owner and one ticket per run, no wake lost, an address is the cell's |
| asynchronous tasks (`tests/host/smp_asyncio.c`) | timers, events, waiters | spawn, await, cancel, scan, fire | cancel against wake against timer | nobody forgotten, no await returns early |
| network plan and link plane (`net/control`, `net/link/link.py`) | the open cells of the graph | plan, apply, commands, device events | a commit inside a commit | one successor per commit; an applied plan is in force |
| firewall (`net/fw`) | chains, rules, sets, counters, flows | author, walk a packet, track | jumps and returns; both directions of a flow | one verdict, one entry |
| SLIP line, WireGuard device (`net/link`) | decoder; sessions, windows, keys | frame, feed; initiate, respond, seal | noise; loss, repeats, reordering, restarts | packets whole; no packet twice, no nonce twice |
| streams and sockets (`net/transport/*.py`) | descriptors, ports, inboxes | connect, wait, close, send | a close under a parked wait | calls end, names reach their holder |
| FTP, HTTP (`net/transport/ftp`, `http`) | dialogue, data streams, exchanges | transfer, ask, answer | a stream that refuses or ends anywhere | every reply answers its command, messages are whole |
| TLS (`net/transport/tls`) | transcripts, keys, records | flights, retry, alert, close | partial writes, key changes, refusals | both ends agree; a refusal is heard |
| live channel and gate (`live/client.py`, `link.py`, `frames.py`, `machine.py`) | rings, sequence numbers, locks | dump, apply, pump, close | late answers, crashes, two processes | an answer is its request's; no leaf runs unmapped |
| front end (`live/front.py`, `console`, `server/editor.py`) | mirror, submissions | type, install, poke, reset | steps of several users | mirror is image |
| world registry and runners (`console/world.py`, `server/live`) | registrations, segments, seats | build, boot, attach, end | hosts race and die | one runner, nothing left |
| physical form (`live/physical.py`, `live/arena_image.py`) | records, handles | compile, apply, load | order of deletes and creates | a delta is the difference |
| memory store (`memory`) | cell table | remember, supersede, recall, consolidate, decay | repeated passes | memories accrete |
| certification and packaging (`certify`, `binary`) | statements, trust store, artifact | issue, admit, revoke, build, check | the judged bytes against the booted ones | what boots was certified; a verdict is right |
| mount, honors (`mount`, `honors`) | `sys.modules`, finder; ledger | import, uninstall; append | leftovers, refusals half way | one image reached; the file verifies |
| world page (`world`) | layers, streams, plan of the city | ask, compute, edit, lay out | requests share one cache | computed once; parts reassemble; streets are clear |
| composer, compilers, interpreter (`tools/native`, `native/graph.rxfs`) | words, slots, frames | compose, eliminate, compile, run | edges that overwrite what they read | the words mean what the source says |
| starter synchronisation (`tools/native/*_sync.py`) | the starter tree, its pins | sync, build, edit | tools read what another wrote | pins name the bytes |

The rest is listed under "Not modelled".

How the parts meet. A source goes through a compiler (`RxfSource`) or is authored as a graph, the
composer makes words of it (`Composer`), the interpreter runs them (`ComposedRun`), and the sync
tools keep all of it in the starter (`StarterSync`). A build packs an image with its statements and
the boot path judges it (`Packaging`). A running image is a machine behind a gate, registered
at a link (both `LiveWorld`), spoken to over a channel (`LiveWire`), edited through a mirror
(`LiveFront`) by physical deltas (`LivePhysical`) and shown as a world (the load of `LivePhysical`, `SceneServer`,
`CellFloors`, `City`). The network is planned (`NetDoc`, `NetText`, `NetPlan`),
filtered (`Firewall`), carried by devices (`SlipLine`, `WireGuard`) and spoken over sockets
(`HostSocket`, `Tls`, `Http`, `Ftp`). Under all native execution is the dispatcher (`SmpSched`), its
ring (`ReadyRing`), its arena (`SmpArena`) and its tasks (`SmpAsyncio`).

A module models one part with its own variables. Three modules put parts side by side: `MCNet` and
`MCStore` for TLC, and `HostParts`, which `MCLive` instantiates and about which `Transport_proofs` and
`Live_proofs` prove.
`MCNet` extends `WireGuard`, whose constants `net_parts.cfg` gives, and has a second tunnel as an instance. The
initial state picks the part (`part`), every action is one of that part's, the properties are the parts'
own. Two parts that interact are one module (the two ends of a line, a client and the image, users and the
front end), or one module over another (`NetPlan` over `NetDoc`, `ComposedRun` over `Composer` and
`SemanticGraph`).

## The execution policy

### The dispatcher: `SmpSched`, `RunPolicy`, `MCSched`

`SmpSched` is `tests/host/smp_sched.c` with the edge shim, the watchdog and the start and stop of a
world from `smp_witness.c` and `smp_asyncio.c`. One action is one atomic operation on a shared word:
a CAS, an exchange, a store, one critical section of the ring lock or of the edge mutex. The plain
words of a run cell belong to the carrier that owns the run, so they fold into the owner's next
atomic operation; what the properties need of them is one bit, `dirty`: program words were written
since the checksum was.

    state, token             the two atomic words of a run cell
    ring                     the ready-ring as a sequence of handles; Stale is a freed one
    work                     the edge shim's predicate; a carrier at "asleep" is in the timed wait
    parkCarrier, deferred    the words behind the force_cross_resume knob
    pc, cur, tgt             where a thread is, the run it popped, the run it wakes or starts
    owed                     history: a wake was asked for since the run's last step began

| code | actions |
|---|---|
| `smp_dispatch_one`, the pop and the take | `Stopped NotStopped PopEmpty PopRun Defer Take RefuseTake CheckSum` |
| its step and what follows | `StepWake StepSpawn StepAgain StepDone SealAgain SealDone Requeue Finish Push PushRefused` |
| `smp_park` | `StepPark SealPark ParkCas ParkSleeps ParkWoken SelfWake WakerWon` |
| `smp_wake` | `SetToken WakeCas NotParked WakePush RingRefuses TryAgain TakeBack Retract` |
| `edge_notify`, `edge_wait` | `Bell ClaimWork Sleep Timeout` |
| `watchdog_main`, the join | `SeesParked EdgeEnds Stop` |

A program is what its step may do to others: wake runs of `WakeOf`, start runs of `SpawnOf`, then
answer AGAIN, DONE or park if it is in `Parkers`. `RunPolicy` is the abstract specification: the
state table of `smp_sched.h` and one FIFO queue, with READY split into the queue and one hand. It
knows no thread, token, checksum or doorbell; a retracted wake is a step from the hand back to
PARKED. `KeepsPolicy` is the refinement, proved as `Keeps`.

The ring is a sequence here, each operation one step; `ReadyRing` is why it may be.

### The ring cell: `ReadyRing`, `HandleQueue`

The ring is itself a cell of the arena: lock word, head, tail and slots at an address the compactor
changes. `ReadyRing` models `ring_lock`, `smp_ring_push` and `smp_ring_pop` store by store
(`Claim Look Lock LockTaken Release PushFull PushSlot PushHead PopNothing PopSlot PopTail Unlock
Leave`) against `rxf_smp_compact_move` of that one cell (`Grab Copy Publish Open`); a vacated place
becomes `Junk` at once, the worst the other cells of the pass can make of it. `HandleQueue` is the
abstract bounded queue whose calls take effect at one point between invocation and answer; the
mapping `CallOf` says what each caller knows, and the refinement is linearizability, proved as
`RingIsQueue`.

### The arena: `SmpArena`

Memory is an array of 8-byte units; a record is three units of header (type and generation, the link
word that C_FORWARD borrows, the size) and a payload of one value, so a torn or overlapping copy is
seen. A carrier resolves (`Claim Refused StaleNow ReadGeneration ReadOffset`), works (`Write`) and
releases. The one mutator frees (`FreeClaim Free FreeOpen`), allocates (`Alloc AllocGeneration
AllocOffset AllocRefused`) and runs a pass (`PassBegins PassClaim PassKeeps Slide Publish PassOpen
PassEnds Finish`). `Slide` is the `memmove`, the header words and the forwarding word in the order
the code writes them; `PassEnds` includes the mutator's read-back of the forwarding words.

Left out: the statistics; the branch of the pass for a record whose slot is already dead, which is
unreachable because the free clears the offset while it holds the claim. `rxf_smp_arena_free` does
not advance the generation and `rxf_smp_arena_alloc` takes no claim on the slot it reuses, so a
handle freed while the world runs can meet a slot between its new generation and its new offset and
be handed the new cell (see "What the code does otherwise"). `smp_arena.h:125-127` sets
concurrent allocation aside, and no program of the repository does it, so the instance hands carriers only handles
that live, or that were stale before the start; the theorem says it as a hypothesis (`HandlesKept`).

### The tasks: `SmpAsyncio`, `MCAsyncio`

A task is a run cell and a program, a sequence of ops (`sleep spawn join wait set clear cancel`); an
await registers under the loop lock, re-checks the raise slot and parks. Atomic steps are each
critical section of the loop lock and each access to the words several threads touch (state, token,
raise slot). The ready-ring, the take and the doorbell are abstracted to what `SmpSched` shows of
them: a READY run waits for any carrier (`Take`). The edge thread of `aio_run` reads the run states
one by one (`ScanBegins Look Confirm`), fires the earliest timers (`Fire`), or ends the world
(`NoTimer`, `Stop`); the wall-clock deadline may pass at any turn of its loop. The epoch is the bit
`straddled`: it moved since the scan read it.

Two history variables name what goes wrong elsewhere. `misjudged`: the edge acted on a scan of a world
that was not quiet; `MainEnds` is claimed where this has not happened, and that it can happen is one of
the findings. `eaten`: the tasks whose newer wake the late exchange of `smp_park` ate (`EatsWake`: the
token was set, the run is RUNNING on another carrier and registered on nothing), until the next await.
`NobodyForgotten` says that this is the only way to lose a sleeper, the stop and a wrong fire included;
with two carriers it takes a misjudging edge, with three the newer waker is a carrier. `NoEarlyReturn` excepts a task with a deposit: one resumed by a
left-over token and cancelled between its poll and its look at what it was served passes its await
on the cancel's account and may reach its end with the deposit unread, where `smp_asyncio.h:24-26`
says the target consumes it at its next poll.

Left out: the result folds and the trace (data), the parser, the counters of the report, the
compactor's claim on a scanned cell (the scan then answers busy, as it does for a running task), the
scheduled flag of the MicroPython seam (no program of the tasks sets it).

## The network

### Plan and links: `NetDoc`, `NetPlan`, `NetText`

`NetDoc` is the pure half of `net/control/netplan.py`: the composition of a document with its
includes (`Composed`), the refusals of `check` (`Checked` and its parts) and the cells a document
wants (`CompileDesired`). `NetPlan` runs it against the link plane of `net/link/link.py`. A cell is
a record, the graph a function from open paths to cells, a digest the graph itself.

| code | actions |
|---|---|
| `plan`, `apply` | `StagePlan Apply` |
| `MemoryGraph.write` and its queue | `Commit Land EndCommit`: one write lands at a time |
| `create_*`, `_set_fields`, `add_address`, `add_route`, `remove_*`, `delete_device` | the disjuncts of `Commands` |
| `Hotplug` and the rulebook | `Appear Change Disappear` |

A device event may come between two writes; its own commit is queued. `Converged`: once an apply has
landed another plan of the same document is empty and every name in the graph stands (`Coherent`),
whatever commands and events left behind. `OneSuccessor`: at the end of a commit the graph is what
its writes make of the graph it began on.

`NetText` renders a document and parses it back line by line as `_parse_block` does, over lines
told apart by indentation, mark, key and scalar. Between the two a text is edited (a line dropped,
doubled, moved, indented, its mark split off). `Canonical` is the round trip, `NothingDropped` says
an accepted text loses no word on the way into the document, `AddressReads` checks the writer and
the reader of inet6 literals against every address of eight groups.

### Firewall

Authoring (`AddBaseChain AddRegularChain AddRule AddSet AddMember`) with what it refuses, the walk of
a packet (`Run`, `Evaluate`, the recursion of `engine._chain` with its depth), the counters it
batches (`WriteCounter`), and the connection plane (`Observe Transition Expire Tick`). `WalksAgree`
compares the code's recursion with a walk over an explicit stack, in verdict and in the rules
passed; `SetsExact` says the merged intervals of a set hold the numbers its members hold;
`JumpsEnd`, `OneEntryPerFlow`.

### SLIP and WireGuard: `SlipLine`, `WireGuard`

`SlipLine` is the codec of `net/link/slip.py` byte by byte (`Encoded`, `DecodeByte`) on two ends
with the driver of `device.py` and its knobs; the wire adds noise. `PacketsArrive`: what was written
onto the wire and fits the other end comes out there in order.

`WireGuard` is two devices on a network that loses, repeats and reorders. Keys are terms: a
transport key is the pair of sender indices its handshake mixed and a direction. `Open Close Move
Tick Initiate Send Receive Process`, and under `Process` the three consumers of the code
(`ConsumeInitiation ConsumeResponse ConsumeTransport`) with the replay window as the code shifts it
(`Fresh`, `Recorded`). Cookies, padding and message bytes are left out. `QueuedOnce`, `NonceOnce`,
`OneSessionPerInitiation`, `SessionsCross`.

### Sockets: `HostSocket`

One host socket under two threads: `Call Operate MakeSocket Connecting Store WaitHead Select
ParkEnds Wake` of the one, `CloseFlag CloseField CloseFd` of the other, each access to `_closed` and
`_sock` a step of its own; the kernel and the peer are the environment, a tick is the cap of one
park. `CloseCuts`: a wait that was parked when its socket was closed answers StaleHandle, and every
call ends; `SocketsHold`: the close releases what the socket held. Beside it the datagram fabric
(`Open Bind SendTo RecvFrom Close`, the table of names, the lookup with its wildcards, the bind that is
refused and has spent its assigned port), where a send reaches who holds the name.

### FTP and HTTP: `Ftp`, `Http`

`Ftp` has both faces statement by statement: the client's calls (`Transfer Begin Read Write
ClientEnds Final`, `Say` and `Hear` of the control stream) and the server's loop (`ReadCommand
OpenData ServerAccept Send Receive Finish Answer`), the data streams they open actively or
passively, and a bounded number of refusals of a data stream, counted at the face they meet. While none
meets the client, whatever the server's side refuses, `RepliesInStep` pairs every reply with its command,
`WholeFiles` every file with what was sent, `CallsReturn` every call with its end. One that meets the
client leaves a reply unread and the dialogue slips by it (see "What the code does otherwise").

`Http` has one exchange after another over a connection that may be cut (`Cut`) anywhere in a head
or a body, or is opened and left without a request when the caller's own message is refused (`Ask`, `Abandon`): what each side writes (`Writes`), what it accepts of the other (`Reads`), which refusals
end the accept loop (`Falls`). A server answers the request of the stream it accepted (`Accept`) once and goes
round to the next one. `ExchangesWhole`: a handler sees the very request, a caller the very
answer.

### TLS: `Tls`

Both ends of `tls/handshake.py` over inner streams whose room, one record or more, is a choice of the
initial state (`room`). Keys, transcripts
and signatures are terms. A call is a context that stops changing once it raised (`Then`), so a
handler that fails half way keeps what it had changed, as the code does. `Step` is `step()` with
every handler of client and server (`ClientServerHello ClientEncryptedExtensions ClientCertificate
ClientCertificateVerify ClientFinished`, `ServerClientHello SendHelloRetry ServerFlight
ServerFinished`), `Read`, `Write`, `Close`. Foreign hellos and servers are choices of the initial
state, one thing wrong at a time. `HandshakeAgrees`: no record fails to open, and two ends that
finished agree on what both configurations allow. `HandshakeEnds`: no handshake hangs and a refusal
reaches the peer by name. A handler that a full socket cuts before it sets its state (`Stalled`,
`CutShort`) is excepted from both, because such a handshake does hang; a second hello that is cut, and
every alert, is not.

## The live side

### The channel: `LiveWire`

Clients of one image over its two rings or a serial line. A client takes numbers, writes a request,
pumps, reads what is there and drops what is late (`Begin Send Pump Read Take Timeout`), inside a
transaction (`Enter` to `Leaves`) or bare; `Crash` ends a process inside a call and leaves its
answer in the ring. The image is that of
`core/live/live.cpp` and `native/live.rxfs`: it answers one request at a time (`Pumped`, `Serve`), resets and
writes its stage, applies a commit against its base, grows (`Does`, `Verdict`, `Says`). What it asks for when
it is short of room is live.rxfs's (`Needs`), and only a client on the rings sees it (`Refused`). `OwnAnswer`
and `TransactionsHold` hold while nobody crashed. The framing below the line (`frames.py`) is beside
it: `Damage` changes tokens, `Feed` and `Turn` are the decoder, `WholeFramesCome` says that no
damage makes it deliver what was not sent.

### The machine and the registry: `LiveWorld`

Two machines of state. `MachineSpec` is the gate (`RLock`, then `flock`) around run and pump, and the
close of the machine under its threads; another process maps the same segment. `NeverUnderLeaf`:
whoever runs the image's code finds the block mapped and is alone in it. `Spec` is the race for a link: runners
(`MakeSeat LayHead Reserve Begins Open Boot Shutdown LifespanEnds FreeLink Forget Unlink`), bare
sessions, consoles that attach, in processes with a registry each. `OneRunner`, `NothingLeft`.

### The front end: `LiveFront`

Users of one image through mirrors: a console's lines until the blank one (`Type Quit EndOfInput`),
the editor's edits and pokes (`Edit Poke PokeUnrebased`), an install step by step (`SendSource Run
ReadOut InstallWords Enter`), with a bounded number of faults. `InstalledIsSubmitted`,
`MirrorFollows`.

### The physical form: `LivePhysical`

`LivePhysical` compiles two images into the ordered operations of `physical.py` and applies them one
by one: none is refused, and the result is the image after. Its second part, with variables of its
own (`LoadInit`, `LoadImage`), is `arena_image.load`: the
world a sequence of entries was made of is the world loaded from them, through the wiring that reads
references by layouts which are themselves loaded.

## Stores, tools and world

### Memory: `MemoryGraph`

Every operation of `memory/store.py` over the cell table (`Remember LinkCells MakeIdentity Rename
SupersedeAgain RecallMemories Consolidate Decay Advance`), with what each refuses and what it has
written by then. `MemoriesAccrete`: nothing is destroyed or changed but an interval that closes and
a salience that fades, nothing is promoted or counted twice. Scoring is reduced to what ranks.

### Certification and packaging: `Packaging`, `BinaryCheck`

`Packaging` has statements, trust stores, the quorum of the Python seat (`VerifyQuorum`) and the one
of the boot path (`Activate`, from `native/wrap/wrap_activate.c` as the packer fills it), and the
files of `rxf certify issue`, `verify`, `revoke` and `rxf binary build`, which may be cut off between
two writes while the source changes. `PackageStands`: what a package carries was certified, and one
made in one world boots in it. `BinaryCheck` is `rxf binary check`: the walk that decides a function
while it decides its callees, with its memo, against the greatest set of functions that can run
(`VerdictRight`).

### Mount and honors: `Mount`, `Honors`

`Mount`: install, import through the finder, uninstall, against `sys.modules` and the names bound in
parents; `OneImageReached`. `Honors`: appends by a seat and by commands on one file, refusals half
way; `FileVerifies`.

### The world page: `SceneServer`, `CellFloors`, `City`

`SceneServer` is the session of `world/__init__.py`: requests of several threads, one at a time
computing the passes its part needs over `Layers`, edits between; and the stream of an arena cut
into parts and districts, whose parts reassemble. `CellFloors` computes the floors of a cell's
building, the voids of poisoned runs and what rides the ring: the floors are the cell's bytes,
in a cell with a payload or without, poisoned or not, and where the poison has no cell.
Its second part (`LeafInit Layout`, over variables of its own) is `ArenaScene.layout`: the leaves of a
type lie in it and apart (`LeavesFit`), and what a value names, by reference or enumeration, is read back
(`Written`). `City` is the plan:
districts and tiles (`_base_pass`), blocks, streets and ring (`_network`), rails, routes
(`_routes`), ducts and stubs (`_bundles`); streets are clear of buildings and lead from the ring to each
other, a leg of a cable that follows a street is clear of buildings, and every leg is drawn once, by a duct
or by a stub.

### Composer and interpreter: `SemanticGraph`, `Composer`, `ComposedRun`

`SemanticGraph` is the abstract specification: a graph of blocks over named values, activations
that bind them, nothing of words or slots. `Composer` is `compose.py` (frame, slots, encoding of
every instruction, edge and terminator, expressions with status checks and temporaries) and
`graphpass.py` (the checks, `EliminateUnreachable`). `ComposedRun` is `native/graph.rxfs` over
those words: loads, moves, calls, links, jumps through the staging bytes, refusals. Its refinement
mapping reads the values of an activation back from the bytes at their slots; `ComposedAnswers` says
that the run implements `SemanticGraph` for the graphs as they were before elimination, and that an
expression answers its value. `compose.py` does not call the pass; the tests do, and this module
composes the two. `SuccessorStands` says the pass keeps a sound graph sound and keeps every block
and value something reaches.

### The source compilers: `RxfSource`

The Maker of `rxfc.py` over a bounded language (variables, temporaries, folding, branches, loops,
switches, procs with their call stack, inlined functions and macros), the run of the words it makes,
and `rxfgraph.py`, which cuts the words into a graph that the composer must turn into the same words.
`AnswersAsSaid` compares the run with the source's meaning, in which one statement is not what it looks
like (`OfItself`: see `x = x` under "What the code does otherwise").

### The starter: `StarterSync`

The starter tree as a function of files, `sync.py` and the tools it calls in their order, copying
back file by file with a crash between; edits of sources, moves of keys, edits of the boot glue,
boot builds. A digest is what it was taken of. `TreeStands`: a settled tree settles again to itself,
blobs are of the text their pins name, and the pins of the glue are what `make` builds.

## Runs

Nine runs pass, three must end in a violation (see Findings).

| run | instance | shows |
|---|---|---|
| `sched_safety` | 2 carriers, watchdog, main thread, 2 runs that wake each other, one started by the other, ring one slot too small | `RunsHeld`, `HandedOver`, `KeepsPolicy`: ownership, wholeness, tickets, tokens, doorbell; pushes are refused and wakes taken back |
| `sched_live` | fair, a sender and a receiver, knob on, a stale handle first in the ring | `Progress`: READY runs are stepped, tokens wake, the stop ends every thread; `KeepsPolicy` |
| `sched_watchdog` | fair, watchdog, a run enqueued twice | `WatchdogRepairs`: every watched parked run goes again |
| `ring_safety` | 2 threads, 2 live handles and a stale one, 2 usable slots, 3 places | `RingHeld`: one inside, no old address; `QueueServed`: linearizable queue, progress |
| `arena_safety` | 2 carriers, 4 cells (one pinned, one churned, one reused), 2 passes, 1 allocation | `CellsHold`: addresses, contents, packing, forwarding words; `ResolveAnswers` |
| `asyncio_safety` | 3 tasks, 4 programs, 2 carriers and the edge | `SleepersKept`: registrations, no sleeper forgotten, no overdue timer; `AwaitsAnswer`: no early return, the main task ends |
| `net_parts` | the parts plan, text, filter, track, line, tunnel, roam | `PlanKept`, `TextKept`, `TableHolds`, `PacketsArrive`, `TunnelHolds` |
| `host_parts` | the parts ftp, http, socket, fabric, tls, wire, frames, machine, front, world, physical, load, mount, honors | `DialogueHolds`, `CallsReturn`, `ExchangesWhole`, `SocketsHold`, `CloseCuts`, `HandshakeAgrees`, `HandshakeEnds`, `WireAnswers`, `FramesCome`, `FrontFollows`, `LinkOwned`, `FormsAgree`, `OneImageReached`, `FileVerifies` |
| `store_parts` | the parts run, pass, rxf, sync, memory, package, check, session, stream, floors, city, leaves | `ComposedAnswers`, `SuccessorStands`, `SourceStands`, `TreeStands`, `MemoriesAccrete`, `PackagesHold`, `SceneServed`, `FloorsFit`, `CityStands` |
| `sched_lost_wake` | 3 carriers, sender and receiver | violated: `NoLostWake` |
| `ring_compactor` | 2 threads, one usable slot, 2 places | violated: `CompactorGetsIn` |
| `asyncio_quiet` | 2 tasks, 2 carriers | violated: `DeadlockIsReal` |

The three `*_parts` runs do not check deadlock: a part whose calls are spent stops.

Why the bounds are enough: the execution policy. Two runs are what a waker and its target need to
differ, and two carriers with a watchdog put three threads on one run: its waker, its late parker and
its new owner. The lost wake needs a fourth role, a newer waker, hence the third carrier. The code
gives the ring 16 more slots than runs (`Capacity`); `sched_safety` takes the ring too small on
purpose, because the refused push and the retracted wake are reached no other way. Three places let
the ring slide twice, so a lock can be taken in one copy and released in the next but one. In the
arena a slide of one unit of a record of six overlaps its old place and the next does not, the pinned
cell stops the pass, and a second pass finds what the first and the allocation left; `MaxAllocs` and
`MaxPasses` bound the mutator only. Three tasks are a chain of two joins, or an event with two
waiters; sleeps are at most two units, so timers are armed out of order and fall due together. The
four programs of `MCAsyncio` follow `tests/asyncio_corpus/programs.py`.

The network. Two names and three documents that stand (a tagged link over an addressed one, a bridge
with an include, a veth pair) give a carrier, a master and a peer to lose; eight documents are
refused, one per check. One event and one command (`MaxEvents`, `MaxOps`) are what it takes to come
between two writes, and one tick (`MaxClock`) to plan again later. A text takes two edits, which is a
line moved and one doubled. Three rules, two regular or base chains to jump to and a set of three
overlapping members give a chain two ways into it. The window has two numbers, so three packets
shift, fill and leave it; four sender indices are two handshakes of both ends, or a restart in one;
roaming has a run of its own with two packets. A line of mtu 1 or 2 and packets of one or two bytes
meet the overrun at every place of an escape.

The hosts. Two names, three calls and one refusing data stream put a refusal before, inside and
after the transfer that follows it. Two exchanges keep a connection or lose it between them. The
deadline of the socket lies inside its clock (`MaxClock` 3), so a park ends by readiness, by its
timeout, by the deadline or by the close. A socket buffer of four records
takes every flight of the handshake whole; beside it the client's holds one or two and the server's
one to three, so the second hello, the client's Finished, the retry and the server's flight are each
taken whole or cut at every record. Two clients with two jobs and one crash meet each
other's late answers; two fronts with two users, three lines and two pokes interleave an install with
everything else; two runners and a session in two processes race for a link in every order.

The stores and the world. Three memories with their sessions and three calls on top (`MaxCalls`)
consolidate twice and decay after a recall. Four packaging calls are an issue, an edit, a build and a
pin. Four functions hold every cycle of three with one outside it. Two requests and one edit cross in
every pass. The city has a choice of widths, of buildings (eleven in a narrow district outgrow its raster)
and of four sets of cables on three districts in two columns: a street between two rows, an avenue beside one, a cable that leaves the
ring. Graphs for the pass are all graphs of three blocks of the shapes in `MCStore`; the worlds that
are run divide by zero, loop with a swap of parameters, catch and pass on refusals, and recur until
the depth or the cell runs out. A word of two bytes of 32 values overflows where the code's 64 bits
do, and every comparison of a shift with the width has both outcomes.

## Fairness

The host schedules every thread, and the timed wait of the edge ends, so every thread's steps are
weakly fair in the modules of the policy. In `SmpSched` the end of a program's step is strongly fair
(a step is one instruction or one safe-point interval, so it ends, however often it wakes others
first), and so is the watchdog's look at each run (its loop comes to every run, while the run may come
and go). Nothing makes a program wake or start anybody, makes the world stop, makes a thread start a
ring call or a resolve, or makes the deadline pass.

`HostParts` states the fairness of the hosts: the client and the server of `Ftp` are threads that
take their next step, whoever refuses; of `HostSocket` the steps of the user and of the close are
fair, those of the kernel and of the peer are not, so a wait ends only by what the code does; in `Tls`
both ends go on calling `step`, and close after a refusal. Calls are never forced to begin.

`owed`, `misjudged`, `eaten`, `size`, `last`, `counted`, `kept`, `carried`, `seen`, `arrived`, `begun`,
`intent` and `applied` are history variables: no guard reads them, or only the bounds do.

## Proofs

Every theorem holds for any constants that meet the module's assumption.

`SmpSched_proofs` proves the two invariants of `sched_safety` and what they consist of. The argument,
each step inductive over the ones before it:

1. `Typing`: `TypeOK` and `Control`, what each thread holds at each place in the code (a carrier has
   a run exactly between its pop and its drop; a wake has a target; only a stopped world retracts).
   `Control` is what `TypeOK` lacks to be inductive.
2. `OneOwner`: `SingleOwner`. The owner is the carrier between the CAS READY to RUNNING and the CAS
   out of RUNNING. It needs nothing of the ring, which is why a run enqueued twice is harmless.
3. `Whole`: `WholeAtHandoff`, through `Sealed`: at the places after the seal the run of a carrier is
   clean, and by `SingleOwner` nobody else makes it dirty there.
4. `TokenHeard`: `TokenNeverStrands`, over `Control` alone: whoever stores a token on a parked run is
   before its CAS, whoever parks a run with one is before its second exchange.
5. `Doorbell`: `DoorbellHeard`, through `Rung`: a run in the ring has a bell about to ring, the work
   word, or a carrier not yet at its wait; and nobody sleeps on the work word.
6. `Ticket`: `OneTicket`, for initial rings that name no run twice. Five lemmas say how a ticket
   moves (born in a hand, pushed, popped, spent, untouched); each action is one of them.
7. `Table`: `StateTable`, from `OneTicket`: a run that is taken or retracted is in a hand, so it is
   not in the ring.
8. `Held` and `Handed`: `RunsHeld` and `HandedOver`, as the runs check them.

`ReadyRing_proofs` proves `OneInside`, `AddressCurrent` and `TypeOK` (`RingExclusion`,
`RingAddresses`, `RingTyping`, together `RingHolds`) from one inductive invariant, `RingInv`: the
claim word counts those between claim and release, the moving bit means none and says where the two
copies are, every address held is the current place, and whoever is inside has the lock word set in
that copy.

The same module proves that the calls implement the queue. `QueueInv` adds to `RingInv` what every
caller has in hand between the two halves of an operation (`Calling`) and that no slot in use is empty
(`Filled`). `Used`, the sequence the mapping reads off the slots, is a slice of a circle (`SliceSeq`,
`SlicePush`, `SlicePop`, `Wraps` are its arithmetic), so that each store is one step of `HandleQueue`
or none: the push takes effect at `PushHead`, the pop at `PopTail`, the refusals at the reads that
decide them, and a move of the compactor changes nothing. `RingIsQueue` is `Spec => ImplementsQueue`;
`RingServes` says that of the checked property `QueueServed` only the liveness half, `RingProgress`, is
left to TLC.

`SmpSched_proofs` ends in the refinement: `Implements` is `Spec => ImplementsPolicy` and `Keeps` is
`Spec => KeepsPolicy`, for initial rings that name no run twice. `Ticket` says where a READY run is
(once in the ring or in one hand), which is what `RunPolicy` splits READY into; `Table` gives the step.

`SmpArena_proofs` proves `CellsHold` (`CellsAlwaysHold`) from one inductive invariant, `ArenaInv`
(`ArenaSafe`): types; a claim word counts its holders or is the mutator's alone; who names which cell
at which generation; addresses are current; live records are disjoint, whole and where their slot says;
in a pass the cells before the scan are packed, the one being slid is between its two places, and the
forwarding words left behind lie in what nobody has taken. The hypothesis `HandlesKept` (no carrier is
given a handle of a cell the mutator frees) is what the programs of the repository keep to; without it the
claim is false, as said below.

`SmpAsyncio_proofs` proves `SleepersKept` (`SleepersAreKept`) for any number of tasks, events and
carriers and any programs, from `AsyncioInv`: which places a carrier may be at with a run it has for
itself (`Exclusive`) and with one another carrier may have taken (`Late`, the tail of `smp_park`); a
registration belongs to the op the task is at (`Positions`); a deposit for a registered task is found
before it parks (`Deposits`: only its own carrier, at the re-check of `aio_block`, can still have one);
and a task on its way to sleep is registered, or the token it will find is set, or the waker that took
it off its list has still to set it (`Retiring`). Every action is one of four kinds, each with its
lemma: a carrier moves for itself (`MoveKeeps`), a late parker lets go (`LateGone`), a waker goes on
(`WakerGoesOn`), someone takes tasks off a list and has them to wake (`HandsKeep`). Without its
exception for `eaten` the claim is false with three carriers, as said below.

The same module proves the safety half of `AwaitsAnswer`, `NoEarlyReturn` (`AwaitsAreAnswered`), from
`ReturnInv` beside `AsyncioInv`: which calls a program can be at where the handlers are (`Kinds`), that a
waker who holds a task has the reason in hand (`Wakers`), when a task is done (`Ended`), and that a task
whose registration was taken got what it waits for or a cancel (`Answered`). `AwaitsEnd` then says that
`AwaitsAnswer` is equivalent to `MainEnds`, the liveness half, which stays with TLC.

`Transport_proofs` and `Live_proofs` prove about the parts of `HostParts`, each alone and then beside the
others: a step of the whole is a step of its part and leaves the rest (`TransportStep`, `PartsStep`), so
what is inductive for a part is inductive for the whole, and the theorems state what `host_parts` checks.

`LinkIsOwned` proves both halves of `LinkOwned`. `LinkAlwaysOwned`, for hosts that are apart from
one another (`HostsApart`), from `LinkInv`: who has the segment, the reservation and the registration at
each point of a life. `LeafIsAlone`, for threads that are apart, from `MachineInv`: who has the lock,
who has the flock, and that whoever runs the code has both and finds the block mapped.

`WireGuard_proofs` proves `TunnelHolds` (`TunnelAlwaysHolds`) for any devices, peers, allowed prefixes,
addresses and any positive window, where no device is its own peer (`Configured`), from `TunnelInv`. An
index was sent by one device to one peer (`SentOnce`), so an initiation names who asked whom. The keys
of a session are made of its two indices, and the initiator's one is of an initiation between these two
ends (`SessionsMatched`), which makes the sessions of a handshake crosswise (`MatchedCross`); a local
index is of one session, on whatever device (`LocalsApart`).
What was sealed under a session's key lies below its counter (`SealedBehind`); this and the distinctness
of keys give `NonceOnce`. A queued packet's counter is spent in the window of every session that could
open it (`QueuedSpent`), and stays spent as the window shifts (`RecordedIsSpent`, `SpentStays`: the
arithmetic of the bitmap at its edge), which gives `QueuedOnce`. A responder that began a session keeps
the stamp that refuses the initiation again until it restarts (`BegunKept`).

`SocketsAlwaysHold` proves `SocketsHold` for any timeouts (`TicksOrNone`) and
any sockets, hosts and ports (`NamesApart`: None is neither a socket nor a name). `SocketInv` says who
owns each descriptor the kernel has open (the field, the connect that made it, or the close that took
it), that the field is emptied before the descriptor goes and stays empty, and that a wait which a close
found parked is still parked or on its way to the check of the flag. This gives `CloseReleasesAll` and
`ParkedIsToldStale`; with the latter `CloseCutsAll` leaves of `CloseCuts` only `CloseEndsCalls`, which is
liveness. `FabricInv` says that a name in the table is that of its socket, that what a socket was
given bears its name, is in the order of the wire and was given to no other, and that a bind below the assigned ports is found until its
socket is closed (`DatagramsReach`).

`DialoguesHold` proves `DialogueHolds` for any file (`FtpConstants`: it is a sequence, and None is not a
number) and any names, secured or not. `FtpInv` claims `Dialogue` while no data stream has refused the
client. Client and server are two programs that share two queues and an endpoint, so the proof says, for
each place of the client, where the server is and what lies in each queue (`InStep`): it has not heard the command yet, it has
answered, or it is inside the transfer. In a transfer the server is at it (`Busy`) or has answered 226 or
426 (`Over`), and what was read, what is on the wire and what was written are consecutive pieces of the file
(`Carries`), so whoever finds the wire empty and its other face closed has the whole of it (`Pieces`). With
`Secure` the invariant has no transfer at all: each face waits for the other's handshake first. That is
the deadlock of `client.py:161`, here as a consequence of the code's order for every file.

`ExchangesAreWhole` proves `ExchangesWhole` for any requests, responses, routes and hosts (`HttpConstants`: they
are messages, whose headers are a sequence with a count or a word as value, and None is no sequence). What remains of a
message after a cut is a part of it, and a part of a part is one (`PartIs`, `PartOfPart`). `Decodes` is the lemma about
the codec: whatever part of a written message is left, it is read as the start line and the body that
were written, or not as a message. It goes from what is rendered (`RenderedIs`: every content-length counts the
body, and a body has one) over where the head ends (`HeadIs`) to the count that is read (`LengthIs`). `HttpInv`
adds that what is on the stream is a part of what the last request or answer writes, and that the handler ran on that
request.

`WireAlwaysAnswers` proves `WireAnswers` for any clients, pages, jobs and losses (`WireAssumption`: None is
no client, no answer and no result, the bare clients are clients, an image has a page). Its invariant, `WireKept`, is claimed while no process has died: types
(`WireTyped`); who is inside a call has the gate of the rings, or the line, for itself (`GateHeld`); what is on its way
is the request or the answer of the one who waits, or older than its number (`Awaited`, `Numbered`); what
the image has staged is what the one inside a transaction sent (`Works`); and what a client was last
told is an answer to this very job, with the job applied if it says so (`Told`).

`FramesAlwaysCome` proves `FramesCome` for any payloads, any damage and any number of frames
(`PayloadsPlain`: a payload holds bytes and what looks like a header, no check token). `FramesInv` says that
the frames sent lie in a row, that the bytes to come are theirs as damaged, that the decoder stands inside a
frame only behind a byte of it that is broken and was fed, and that what it has yielded are the whole
frames behind it, in their order. A turn that skips leaves a whole frame standing (`SkipKeeps`), and what is
valid where a frame begins is that frame, whole (`ValidIsWhole`), since a check says what it was made over.

`FrontAlwaysFollows` proves `FrontFollows` for any users, consoles, fronts and lines, from `FrontInv`:
whoever has the transaction is on its way through it (`OneInside`), what it has from the image so far is made of
the text it submitted (`Carried`), and the one mirror is the image but for the words a run has written and nobody
has read (`Follows`). `TypedLinesAreSubmitted` says of a console that at the end of its input no line is
left in its buffer, and that every line typed is part of a submission.

`Mount` holds its proof itself. `MountInv` is what `OneImageReached` lacks: what a
module of `sys.modules` has bound under a name is what `sys.modules` has under it, or nothing
(`BoundInSys`). It says why `uninstall` may look at the parents that are still there only. `LedgerInv` says
that the file is sound and so is what a command has read of it, while the copy of the seat need not
be: a refused append leaves half an entry there, which no command ever writes. `ModulesAreOneImages` and
`LedgerFileVerifies` are `OneImageReached` and `FileVerifies` as the run checks them.

Each inductive invariant was an invariant of a run before it was proved, but for `FrontInv` and for
`HttpInv`, which speaks of all messages.

Only model-checked: liveness, which is fairness and ENABLED and so out of the prover's reach
(`Progress`, `WatchdogRepairs`, `RingProgress`, `MainEnds`, `ResolveAnswers`, `CloseEndsCalls` and that of the other hosts); the
refinement `ComposedAnswers`; and, of the hosts, `HandshakeAgrees` and `FormsAgree` (two translations of data); and the other parts of the
network, the stores and the world. Several of those are recursive functions over data (compilers, texts, layouts): the library's induction
theorems take an operator, which the installed provers cannot instantiate. Where a proof could not do
without an induction (`StartOf` of the arena, `Without` and `Deepest` of the tasks) it is made from the
least number of a set of naturals (`LeastNat`, from the well-foundedness of <), which takes no operator.

## Findings

Each of the three is a run that must end in a violation.

* **A wake can be lost** (`sched_lost_wake`, `smp_sched.c:226`). The second exchange of `smp_park`
  comes after the run is PARKED, when it may be somebody else's: a waker has requeued it, another
  carrier steps it, a newer wake stores its token and finds RUNNING, the late exchange eats that
  token, and the second carrier parks the run with token 0. S4 says no wake is ever lost. The
  watchdog repairs it for the runs it watches (`WatchdogRepairs`).
* **The compactor's wait is not bounded** (`ring_compactor`, `smp_arena.c:214`). It waits for a claim
  word of 0 and nothing keeps new claims off meanwhile; two threads whose claims overlap keep it
  above 0 for ever, each for one short call. S4 bounds the wait by one step of the holder.
* **A deadlock is reported of a world that runs** (`asyncio_quiet`, `smp_asyncio.c:470`). `aio_wake`
  counts the epoch before the CAS that makes its target READY; a scan that begins between the two
  sees the target PARKED, the waker ended and the epoch unmoved. With a timer armed the clock jumps
  early instead. A self-wake of `smp_park` does not move the epoch at all. With such a wrong fire the
  lost wake needs two carriers only: the edge is the newer waker.

## What the code does otherwise

Statements of the code's own comments or documents that the models refute, or hazards met while
modelling. Those in parentheses are definitions of the module named; a check of one as an invariant
or property of its part finds the behaviour. They have no run of their own here.

Policy. `smp_sched.h:151` calls the ring cell pinned; `smp_sched.c:123` allocates it as any other, and
it moves (which is what `ReadyRing` models). `smp_sched.h:192-194` and S4 describe the answers of
`smp_wake` otherwise than its returns. The generation does not always refuse a stale handle
(`HeldAddress`, with a carrier that holds a handle of a churned cell): the resolve passes the test of
the generation of a freed slot, `rxf_smp_arena_alloc` then bumps it and stores the new cell's offset
without a look at the claim, and the resolve reads that offset; `smp_arena.c:172` and
`docs/20-EXECUTION-POLICY.md:313-314` promise a refusal. With three carriers the late exchange of `smp_park`
loses a sleeping task with no misjudging edge in it (`NobodyForgotten` without `eaten`).

TLS. `write` seals and then flushes; a `WouldBlock` of the flush is answered by writing the same data
again (`ReadsWhatWasWritten`). `_send_hello_retry` folds the transcript before the first hello joins
it (`MessageHashCarriesHello`). `handshake.py:113-114` calls `step()` "the
non-blocking driver of the handshake (one unit of progress per call, `WouldBlock`-free)", and yet a
flight that the socket does not take whole raises `WouldBlock` out of its handler, before the state
that goes with the flight is set (`handshake.py:308`, `:337`, `:939-948`, `:709-716`): the records still go
out with the next `step`, but the server waits for another hello, or the client for the flight it has
answered, and with `Settles` and `SealsOpen` asked of every buffer both are refuted by the buffers of
one or two records (`CutShort`, which the two properties except). `establish` lets the same
`WouldBlock` out of `wrap`. A second hello that is cut loses nothing: its handler has nothing left
to do, and there the properties hold without the exception. `wait` ignores whole records that are buffered already.

WireGuard. Two initiations that cross may leave sessions of different handshakes at the two ends; the
source of an inner packet is checked against any prefix of the peer and not the longest; the second of
two initiations within one second is refused by its stamp; a refusal ends the pump with the rest of
the queue unread.

Network plan. A device event inside a commit decides by the half-landed view; `delete_device` of a
member leaves the segment naming its port, `create_bridge` takes a member from another; `add_address`
and `add_route` do not ask whether the device stands; a carrier goes while a VLAN is on it. A member
name of digits alone and a NIC with a peer do not survive the round trip through the text, nor does a
default route whose network has bits.

Firewall. A rule may jump into a base chain; entries of the connection table answer until `expire` is
called, and `observe` does not renew them; `add_rule` checks neither its counter nor its path.

Transport. After a data stream refused the FTP client, replies may stay one behind for the rest of
the connection; a PASV data stream is left open on some refusals; with TLS the passive client wraps
its data stream before it sends the command the server wraps on, and neither goes on
(`ftp/client.py:161`); an orderly close in the middle of a STOR is stored as a whole file. A refusal
nobody named ends the HTTP accept loop (`OnlyCloseStops`). A close between the check of a wait and its
`select` raises `ValueError` (`OnlyRefusals`, `hostsocket.py:299`); one that races a connect leaves
its descriptor open. A datagram socket's assigned name may displace an explicit bind.

Live side. After a crash inside a call the next client may be handed the dead one's answer, which
may say "ok" of a job that was not done (`OwnAnswer` and `ToldIsDone` without their `crashed = 0`), and a
client may wait for ever (`JobsEnd`). A close of the gate's descriptor
under a thread raises while the `RLock` is held. `Front._send` applies a delta to
the mirror before the image has it; a console of another process keeps a stale mirror; `live.h:67` promises a `grow_request` after a refusal for lack of room,
which `native/live.rxfs:6778-6787` sets and its twin `core/live/live.cpp` never does (`docs/32`:
the two "must move together"), so there the refusal stands; `install_source` compiles twice and
drops the second verdict; the editor offers a poke of `name` that `poke` refuses. A false header holds
back the valid frames behind it. `arena_image.load` with a predecessor may cut trailing zeros.

Memory. A write that is refused may have written before (`RefusedWritesNothing`); a memory may
come again among its own successors (`ChangesEnd`); consolidation promotes a working memory that is closed
to an episode that is open; a decay that is refused has moved its mark, so the boosts of its recalls
are lost.

Certification, packaging, honors. A package may be built that its own boot path refuses
(`BuiltBoots`); two ids may share a public key; `issue` writes its key and statement before the store
refuses; an id that was revoked stays so when admitted again. `rxf binary check` does not name every
call of what cannot run (`EveryCallListed`), and a callee that does not resolve is passed over. Two
commands on one ledger lose an entry (`LedgerKeeps`); a name somebody took in advance closes the
ledger to unnamed entries (`StaysOpen`); the law of `embodies` is left to the caller.

World page. The inspector keeps its cells while the layers are rebuilt; the arena cache takes the
digest before the arena and has no lock; the index of streamed parts carries no digest; a record whose
alias walks through another district cannot be decoded alone (`DecodesAlone`); `_near_rails` does not keep ties
in the order its comment says.
`world/export.py:193` says "A cable never crosses a building volume that is not its own endpoint",
and so does `_routes` (`export.py:1668`): it holds of the legs that lie on a street
(`CablesClear`) and not of the others (`RoutesClear`). Two pads side by side whose plugs are the same stretch of
lane lose that lane to `_tidy`, and the leg that is left runs a pin's reach from the pads, through
the building beside them. An uncut cell without payload that is poisoned gets a floor of no bytes
(`export.py:667`); a void behind the last cell has no building.

Tools. A call card with a result narrower than eight bytes is refused 6 by `m_answer`;
`compose.edges` does not hold to `RXF_GRAPH_COPY`; `graph.h:88-93` names a frame limit the composer
does not use; `graphpass.check` accepts a `ReturnValue` without a result; a leaf's refusal is dropped
where its call has no status slot; `rxfc` folds `a << 64` to 0 where the run refuses the shift. After a
key moved to another file the old source module stays (`SourcesAreTheFiles`); a first sync of a tree
without graph does not settle; the blob of a machine whose codes went stays. `x = x;` leaves 0 in `x`: the compiler emits a MOVE of the
slot to itself (`rxfc.py:677`), and `native/graph.rxfs:335` zeroes the destination before it copies,
under the comment "the bytes the source has, the rest zero" (`:320`); the reference interpreter of the
tests reads first (`tests/graph_reference.py:226`). The meaning `SourceStands` compares with says
so of this one statement (`OfItself`) and is the plain one for all others.

## Not modelled

* Weak memory. Actions interleave; the sources order their shared words by acquire and release (and
  relaxed for the stop word and the counters). Where the argument needs a store before a later load
  of another word (`smp_wake`: token, then state), the later access is a read-modify-write, a full
  barrier on the x86 host the tests run on; on a weaker machine that order would need its own proof.
* Time, but for virtual and bounded clocks: a timed wait ends at some time.
* Bytes where only their identity matters: programs, checksums, digests, message encodings, keys and
  signatures are terms or model values.
* The C importer (`rximport.py`), the Python front end (`rxpy.py`) and the lexers and parsers of the
  other compilers: translations whose state space is that of the programs they translate; the
  compiled language of `RxfSource` is the sample.
* Pages, templates, texts, colours, labels and cameras of the server and the world page; the
  inspector.
* The C++ core (object arena, deltas, tree, meta, XML, documents, hash, kinds), the numeric and crypto
  primitives, the rxfb reader: functions of data without a state that outlives a call.
* Boot stubs, wrappers, line drivers and the lwIP glue: hardware and vendored code.

## Plan

1. Theorems: `TableHolds` of `Firewall`, whose recursive operators have to become recursive functions
   first.
2. Fault models further out: a crash inside the front end's install, a partition between two runners
   of one link, a damaged pin in the starter.
3. `RxfSource` with the bitwise operators and the copies of memory; a part of the C importer's
   statement lowering over the same run.
