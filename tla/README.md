# A TLA+ verification project for druid

druid stacks *block devices*: files and memory at the bottom, layers on top of
them that slice, join, mirror, check, encrypt or partition what is below, and a
Lua script that puts the stack together and serves it over the network.  This
directory holds TLA+ modules translated from the C sources, the TLC
configurations that check them on small instances, and proofs for TLAPS.
`PROJECT.json` maps every definition to the lines it models.

To check: `tlc -config MCXor.cfg MCXor`, and so on for the table under "Runs";
`tlapm XorProofs.tla`, and so on for the modules under "Proofs".

## Inventory

The program is one thread.  A call into a device runs to completion, calling the
devices below it; between two calls the thread is in a script, in a callback of
the event loop, or waiting in libevent.  What makes the code hard is therefore
not two threads but what a call leaves behind when one of its steps fails, what
caches hold when the process ends, and the order in which the network calls back.

| Component | State | Operations | Interacts with | What makes it correct |
|---|---|---|---|---|
| bdev interface (`bdev.h`) | the function pointers of a `struct bdev` | read, write, flush, sync, clear_caches, close | implemented by every layer, called by the layer above and by Lua | a read returns the last write; what was flushed survives |
| generic byte access (`bdev.c`) | `generic_block_buffer` | generic_read_bytes, generic_write_bytes | read_block and write_block of the same device | exact ranges; bytes next to the range never change |
| block cache (`block-cache.c`) | slots with label, dirty flag, data | read_block, write_block, flush, clear, destroy | used by lazyzero | no write is lost to another block in the same slot |
| xor (`layers/xor.c`) | one cached slice, its number, a dirty flag | the bdev operations | N devices below | one device may be lost; no made-up data |
| verify (`layers/verify.c`) | one cached hash block and its number | the bdev operations | one device below | no damaged block is returned as good; good ones are |
| lazyzero (`layers/lazyzero.c`) | header, bitmap through the block cache | the bdev operations, create, open | block cache, one device below, generic byte access | unwritten blocks read as zero, written ones do not |
| slice, concat, stripe | the device concat found last | the bdev operations | devices below | every block has a place of its own |
| encrypt (`layers/encrypt.c`) | the header on disk: key verification number, encrypted base iv; in memory the key and the base iv | create, open, the bdev operations | one device below | a block decrypts to what was written; no wrong key opens the device |
| partitioner (`layers/partitioner.c`) | header, allocation bitmap and maps on disk; a buffer of one block for bitmap and for map, the place to scan from | initialize, set_part_size, open, the bdev operations | one device below | no two partitions share a block; a partition keeps its contents while others grow |
| baseio (`layers/baseio.c`) | memory, a file descriptor | the bdev operations | system calls | the bottom of the stack |
| event loop (`loop.c`) | sockets, timers, listeners, the shared evdns_base and its count, the early-exit flag | loop_tcp_connect, loop_tcp_listen, loop_sock_close, loop_add_timer, loop_until_done, loop_exit_early, ... | libevent below, bindings above | resolver lives as long as it is used and not longer; timers fire; the loop ends |
| socket binding (`lua/bind-socket.c`) | userdata per socket and listener, their references in the Lua registry | tcp_connect, tcp_listen, close, write, callbacks into Lua | event loop, scripts | references lead to their owner; handles are freed once; sockets that ended are closed |
| device binding (`lua/bind-bdevs.c`) | userdata per device, its references to the devices below | constructors, finalizers, the bdev operations from Lua | layers, scripts, Lua's collector | a device is not used after it was closed; what a script cannot reach is closed |
| timer binding, main (`lua/bind-timer.c`, `lua/main.c`) | the interactive loop | runloop | event loop | scripts end when they have nothing to wait for |
| nbd (`layers/nbd.c`, `lua-examples/nbd-server.lua`) | requests half received | the protocol | sockets, devices; nothing calls `nbd.c` | requests in pieces, replies in order |
| reed-solomon (`rs/`) | tables | encode, decode | none yet | decode inverts encode |
| crc, byte order, logger, porcelain | none | pure functions, output, argument checks | everybody | |

Hard behaviours, with the lines where they bite, are the `hazards` of
`PROJECT.json`: partial failure of a call that writes several devices or blocks
(xor, verify, lazyzero, generic_write_bytes), a crash between two such writes,
caches whose label and contents part (xor, verify, block cache, concat), a
transient failure taken for a permanent one (verify, lazyzero), boundaries
(ranges of bytes, the last block of a device, unequal devices), and on the side
of the event loop the order of callbacks and the end of the loop; then what is
referenced from where: slots of the Lua registry that are given back and taken
again in the middle of a callback, devices closed by a garbage collector, and
blocks of the partitioner that bitmap and map must agree on.

## Modules

| Module | Models | State and actions |
|---|---|---|
| `BlockDevice` | the abstract promise of a `struct bdev` | `may[b]`: what a read of block b may return; `durable[b]`: what b may be after a crash; `reply`: the last successful read |
| `Xor` | `layers/xor.c` | `disk`, `slice`, `slice_index`, `slice_dirty` as in `struct xor_io`; `ReadBlock`, `WriteBlock`, `Flush`, `Sync`, `ClearCaches`, `Reopen` (close or crash, and open); environment: `Decay`, `KilledInFlush`.  `SwitchSlice` is xor_switch_slice with its flush, its reads, its reconstruction and its repairing write |
| `Verify` | `layers/verify.c` | `disk` (hash and data blocks of the device below), `hash_block`, `which_hash_block`; the bdev operations; `CorruptData`, `CorruptHash` |
| `BlockCache` | `block-cache.c` as functions on a cache record | `bcache_create`, `_evict`, `_read_block`, `_write_block`, `_flush`, `_clear`; what is true of a cache whoever uses it (`Labelled`, `CleanIsOnDisk`, `Newest`) |
| `BlockCacheDevice` | a caller of the block cache that follows its header, over a failing device | `ReadBlock`, `UpdateBlock`, `FlushClearOrDestroy`, `Crash` |
| `LazyZero` | `layers/lazyzero.c`, EXTENDS `BlockCache`, with the byte writes of `bdev.c` that share its buffer | `bc` (cache and base device), `open`; the bdev operations, `WriteBytes`, `Close`, `Crash`, `Open` |
| `GenericBytes` | generic_read_bytes, generic_write_bytes | the local variables of the loop; one action per kind of iteration |
| `Encrypt` | `layers/encrypt.c` as operators: header, cipher, place of a block | |
| `Aggregate` | `layers/slice.c`, `concat.c`, `stripe.c`, composed, EXTENDS `Encrypt`: a concat of slices of one encrypted device and of a stripe over others | `last`, `last_offset`, `last_len` of `struct concat_io`; `io`, the `struct enc_io`; devices below with a cache of their own; the bdev operations, `EncryptCreate`, `Open` with any key, `CloseAll`, `Crash` |
| `Partitioner` | `layers/partitioner.c` | `disk`, `io` (the `struct part_io`); each function of the file is an operator on a machine state (disk, handle, the device call that fails, the result); `Initialize`, `SetPartSize`, `OpenPartition`, `ReadBlock`, `WriteBlock`, `ClearCaches`, `Close`, each a whole call with a fault in any of its device calls.  A loop of the code is a recursive function of how often its body ran (`ScanFree`, `MarkRange`, `RemapAll`, `ShiftAll`, ...) |
| `EventLoop` | `loop.c`, and runloop of `lua/main.c` | `pc` of the one thread, sockets, timers, listeners, `base_dns`, `base_dns_users`, `exiting`; calls, events, steps of the thread |
| `BindSocket` | `lua/bind-socket.c`, EXTENDS `EventLoop` | `sd`, `server`, `refs`, `lrefs`, `orefs` (userdata and their references), `slots`, `head` (the Lua registry and its free list), `frame` (the C callback that is waiting for the script), `setups` (the tcp_connects that are), `early` (sockets closed in their own handler); calls of the script, callbacks, and what each does after the script returns |
| `BindBdevs` | life times of devices: `lua/bind-bdevs.c`, the end of `lua/main.c`, and gc_loop_fn | `dev`, `below` (bare pointers), `dev_refs` (registry), `held` (variables of the script), `condemned` (userdata to finalize); constructors, `Drop`, `GcLoop`, `Allocation`, finalizers, the end of main |
| `MC...` | instances for TLC | |
| `...Proofs` | theorems | |

What the data is abstracted to:

- *xor*: a block is one bit.  The layer combines blocks byte by byte with
  exclusive or, so every bit position evolves like the model.
- *verify*: the crc is any function of a block into words; exclusive or of words
  is any operation with the laws listed in `WordAssumption`.  Blocks are named
  values, and `Junk` is a block nobody wrote.
- *lazyzero*: a block is the set of its one bits, since bitmap, header and data
  share blocks in this layer, and what a bit set in one does to the other is
  the point.
- *generic byte access*: a byte is named by where it comes from.  `Leaves` is what a
  failed read may leave in a buffer: for the proofs anything, for TLC a block or a
  part of one.
- *encrypt*: Blowfish in ofb64 mode adds a stream that depends on key and iv, and
  adding it again takes it away: a block is a text and the set of streams on it.
- *partitioner*: a block is a header, a part of the bitmap, a part of a map or
  data, and reading one as another is defined: new map blocks have old data in
  them until they are cleared.  A header that cannot be read is not noticed
  (`layers/partitioner.c:216`), and the sizes are what the buffer has in their place:
  any number of `Junk`, for the proofs any set of numbers.
- *bindings*: a reference is a slot of the registry, and luaL_ref and luaL_unref
  are modelled with the free list they keep, so that a slot given back is the next
  one taken.  The script is any sequence of calls; it may fail in any callback.
- *event loop*: the contents of buffers are left out; libevent delivers any
  event of any registered socket, timer or listener, in any order.

Ghost variables record what no variable of the program does: `may`, `durable`
(the promise), `intact` (blocks of verify that were written successfully and not
damaged since, nor the layer by writing a hash block that was not theirs), `stray`,
`guests` and `other` (of verify: that the cached hash block is not the one its label
names, whose crcs it has instead, and whose have been written to the device), `wrong` (what each block of lazyzero may read as
by a mishap), `remains` (of the partitioner: what a block may hold because the write that gave it a
place failed after the map),
`torn` (slices of xor whose blocks no longer belong together), `leaked` (uses of the
evdns_base that no socket will give back), `lost` of `BindBdevs`
(devices kept by references nobody has), `faults` (faults so far in `Partitioner`),
`mishaps` of `Partitioner` and `BindSocket`.

A *mishap* is a place where the code goes on with something broken: memory is used
after it was freed, or a failed step of several is neither undone nor reported.
The two modules with `mishaps` name each of them, reach each of them, and end there; their
properties say that nothing else goes wrong.  The list is at the properties of
`Partitioner`, and below under "Where code and words disagree" for both.

## Runs

| Run | Configuration | Result |
|---|---|---|
| `xor` | `MCXor.cfg`: three devices, two slices; a read, one write or two at once, and the repair may fail; a failed write keeps the old block, lands, or loses the block; the process may die between two device writes of a flush; blocks decay | reads return what the history accounts for; each slice that is not torn is redundant; a slice that is clean is on the devices; while no slice is torn, each step is one of `BlockDevice`; the invariant of the proof holds |
| `xor_one_failure` | `MCXorNewest.cfg`: writes to one device may fail, nothing else does | **violated**: the second finding below |
| `verify` | `MCVerify.cfg`: reads that fail and leave any part of what is on the device in the buffer, writes of one block that fail, silent corruption of it and of its hash block | nothing is returned that does not have the crc of a block written there, or of one that came there after a failed read of a hash block; a block that was written and not damaged stays readable until a hash block is written in its chunk that a failed read left zeroed or filled with another |
| `cache` | `MCBlockCache.cfg`: three blocks in two slots, failing reads and write backs, crashes | reads return what was written; a failed write back costs that block its last writes and no other anything; labels are right |
| `lazyzero` | `MCLazyZero.cfg`: failing reads and write backs of the bitmap, failing writes and writes of parts of one block, crashes, old data below | every block is what was written to it, or zero; but for four named mishaps, each until the whole block is written |
| `lazyzero_reopen` | `MCLazyZeroReopen.cfg`: nothing fails | **violated**: the finding below |
| `generic_bytes` | `MCGenericBytes.cfg`: every start and length on four blocks of three bytes, any block operation failing, reads that leave something in the buffer when they do | assertions and loop invariant hold, reads are exact and stay in the caller's range, writes are a prefix of the range, calls return |
| `aggregate` | `MCAggregate.cfg`: two slices of one encrypted device and a stripe over two of different sizes; crashes, also before the header is flushed; opening with a right and a wrong key | routes do not collide whatever concat remembers, foreign blocks and the header are not written, the stack implements `BlockDevice` |
| `partitioner` | `MCPartitioner.cfg`: two partitions that grow, in either order, on a device with old data; one device call fails, fails and lands, or the process dies there | no block has two owners, partitions keep their contents, reads through a handle with the right offset return them, and the handle's buffers are what is on disk, up to the first mishap; a block whose first write failed may have what its place had before |
| `sockets` | `MCBindSocket.cfg`: two sockets, clients or servers, a listener, another reference; anything closed in any callback and in its own handler, handlers that refuse or fail, several callbacks for one event | the loop has a handle for exactly the live sockets; references lead to their own objects, closed sockets leave nothing in the registry and ended ones are closed, but for sockets closed in their own handler; all until a mishap |
| `bdevs` | `MCBindBdevs.cfg`: three devices, stacked in every way, dropped in any order, collected at any allocation | no device is closed under an open one, unreachable stacks are closed if events keep coming, the end of the program closes all |
| `event_loop` | `MCEventLoop.cfg`: two sockets, two timers, a listener, standard input, everything that can fail | the evdns_base is there while a socket resolves; its count is exact; an idle loop returns unless a use was left behind; timers fire; stop_loop stops |

### Bounds

- *Three devices* are the least xor_open accepts, and the number from which there
  is a device before, at and behind the parity; *two slices* are enough for the
  cached slice to differ from another, and put the parity in two places.  Larger
  sizes are covered by the proofs.  `Faults` lists what may fail in one call: a write,
  two writes, a read, a repair, a read and its repair.  `MaxFaults` is two calls that
  a failure makes differ: one to tear a slice or to leave a stale block, and one to
  lose or rebuild a block of it.  `Writes` leaves out one of the values of one block,
  which saves half of the states.
- *Five blocks and two hashes per block* give verify a full chunk and a short one.
  `Rotting`, the one block that damage and failed writes hit, is in the full chunk: it
  has a neighbour, and the other chunk lends it crcs.
- *Three blocks in two slots* give the block cache two blocks that compete and one
  that does not.
- *Eight base blocks, chunks of two, two bits per block* give lazyzero two full chunks
  and a short one, and two bitmap blocks with one slot for both: the header, with a zero
  where the bit of the first chunk goes and a one where that of the second goes, as the
  first byte of the magic number has; and the block behind it, which lazyzero_create
  leaves as it is.  `Written` is a block of each of the chunks that share a bitmap block,
  each with a neighbour; to the first of them, writes may fail (`Faulty`) or be in part
  (`ByteBlocks`).  `lazyzero_reopen` has five base blocks and one bitmap block.
- *Four blocks of three bytes* have a first, two inner and a last block, and bytes
  at both ends and in the middle of each.
- *Two slices of an encrypted device of three blocks, two striped devices of sizes
  2 and 1* have a gap between the slices, a boundary between each two parts, a
  header, and a device with a tail.  Two keys: the one of the device, and another.
- *Nine blocks, five to a bitmap block, two to a map block, two partitions of at
  most three blocks* give the partitioner two bitmap blocks, up to three map blocks,
  entries of both partitions in one map block, data in the way of a growing map,
  and a full device.  `MaxTotal` keeps the map on the device, which the code does not check.
  `MaxFaults` is one fault to a behaviour: the code promises nothing after two.
  `Junk` has nothing, a size that partitions have, and one that is larger than any, with
  which a handle goes beyond the partition and its map.
  `MaxCalls` bounds the device calls of partitioner_set_part_size (the fault is one
  of them) and is more than it makes.
- *Two sockets, a listener, one other reference, each used once; two of the four
  callbacks; two buffers to a read event* (`Callbacks`, `MaxChunks`): the slots one
  socket gives back are taken by the other, by the listener or by the other
  reference, between the callback and what follows it.  The callbacks left out are
  referenced and given back like those left in.
- *Three devices* make a stack of three, and a device shared by two.  `GC_INTERVAL`
  is two in place of ten, so that there are turns with and without a collector step.
- `MaxUsers` bounds `base_dns_users` in `EventLoop` (a guard of `Connect`), so that
  uses left behind do not grow for ever: three is one more than the sockets.

### Fairness

- `GenericBytes`: weak fairness of iterations in which no block operation fails;
  the loop is plain sequential code, and its end must not depend on a failure.
- `EventLoop`: weak fairness of the steps of the thread itself (`StartLoop`,
  `CallbackReturns`, `Whenever`, `NoEvents`): scripts and callbacks return, and the
  code of loop_until_done runs on.  Strong fairness of each timer: event_base_loop
  examines its timers in every iteration, but other callbacks run in between, so
  that the event is enabled again and again and not continuously.  Strong fairness
  of connecting sockets: resolving and connecting end, if only by the timeouts of
  evdns and TCP.  None of data, ends of streams, errors of open sockets, incoming
  connections or input: a peer may stay silent for ever.  None of calls from
  scripts.
- `BindSocket`: weak fairness of what follows a callback (`Returns`) and of the steps
  of the loop (`LoopRuns`), as above; none of events or of calls.
- `BindBdevs`: weak fairness of the steps of main's end, and nothing else.  A turn of
  the loop needs an event, and event_base_loop waits while none comes (`loop.c:422`), so
  `GarbageIsClosed` says of itself what it supposes (`EventsCome`): that `GcLoop` happens
  again and again, or the program stops.
- The layers have safety properties only, and no fairness.

Deadlock is checked except in `generic_bytes` (one call, which ends), in `event_loop`,
`sockets` and `bdevs` (the process ends), and in `partitioner` and `sockets` also because
the model ends at a mishap.

### Mutants

A definition `...Mutant` before a definition is a mistake that would be plausible
at that place of the code: a dropped guard, an off-by-one, a missing reset.  No
specification uses it.  With the definition replaced by its mutant TLC finds the
property violated that `PROJECT.json` names beside it, in the run it names: every
property of every passing run has one, so none holds whatever the code does.

## Proofs

| Module | Theorem | Says |
|---|---|---|
| `XorProofs` | `XorInvariant`, `XorTypeOK`, `XorReadsAreExplained`, `XorEachBlockIsRedundant`, `XorCleanSlicesAreNewest`, `XorImplementsBlockDevice` | for any number of devices and slices, whatever reads, writes and repairs fail, whatever a failed write leaves, whatever decays, wherever in a flush the process dies |
| | `XorTornImplementsBlockDevice` | over devices that do not fail, the refinement also of slices torn by a crash |
| `VerifyProofs` | `VerifyTypeOK`, `VerifyReadsPassTheCheck`, `VerifyIntactIsReadable` | for any size, any crc, and a device below that fails, tears, keeps or silently changes blocks, and leaves any mixture of words in the buffer of a failed read |
| `BlockCacheProofs` | `CacheInvariant`, `CacheReadsAreExplained`, `CacheSlotsAreLabelled`, `CacheImplementsBlockDevice` | for any number of slots and any hash |
| `LazyZeroProofs` | `LazyZeroInvariant`, `LazyZeroEveryBlockIsExpected`, `LazyZeroReadsAreExpected` | for any geometry, any size and hash of the cache, any header, and whatever reads and writes fail |
| `GenericBytesProofs` | `LoopIsOnTrack`, `LoopAssertionsHold`, `BytesInvariant`, `BytesTypeOK`, `BytesReadIsExact`, `BytesWritesAPrefix` | for every block size, device size, start and length, and a failure at any block |
| `AggregateProofs` | `AggregateInvariant`, `AggregateRoutesAreApart`, `AggregateOthersUntouched`, `AggregateImplementsBlockDevice` | for any number of slices, wherever they lie, any number of striped devices, and any sizes |
| `PartitionerProofs` | `PartitionerIsSound`, `OwnersAreApart`, `ContentsSurvive`, `ReadsAreTheirOwn`, `BuffersAreNotStale` | for any geometry of the device, any number and sizes of partitions, any contents, any number of faults and every device call at which one may happen |
| `BindProofs` | `LoopDnsWhileResolving`, `LoopDnsIsCounted`, `LoopTypeOK` | of the event loop alone, for any finite number of sockets, and any timers and listeners |
| | `BindDnsWhileResolving`, `BindHandlesAreOwned`, `BindRefsAreOwn`, `BindClosedAreForgotten` | of the binding over it, for any finite number of sockets, any listeners, other references and callbacks |
| | `BindBdevsIndInv`, `BindBdevsStackIsOpen` | of the life times of devices, for any number of devices and any `GC_INTERVAL` |

**Xor.**  Nothing is assumed of the devices: a write that fails may keep the old
block, put the new one there, or leave one that cannot be read, and the process may
die between any two of them.  That every read is explained is not inductive: what
will be read is in the cache, or on the devices, or has to be rebuilt.  `Sound` says of
every slice that each block on a device is one that `durable` allows; and that a slice
which is not *torn* also *encodes* some row of parity zero (agrees with it where it is
readable) that `durable` allows, as long as at most one of its blocks is unreadable,
which is what xor_switch_slice requires before it rebuilds.  Both are said again of
`may`, except of the slice that is cached and dirty.  The cached slice itself is what
`may` allows and has parity zero, unless it is torn.

The history variable `torn` has the slices of which a device write in a flush failed,
or was not reached when the process died, as long as the blocks on the devices are not
those of the cached slice.  A flush that gets through while the slice is still in the
cache mends it.  Once it has been loaded from the devices its parity is wrong and stays
wrong, also when the slice is written again, since xor_write_block changes the parity
by the difference of the blocks; only a repair makes it zero again.  A block rebuilt from the rest of such a slice is made up, and `may` allows
any from then on.  What `may` makes of a flush that failed at one device and was
taken for a success: the blocks the devices did not get may again be what they are
after a restart.

The lemmas: parity of a row splits off any device (`XorSplits`), the update in
xor_write_block keeps it (`WriteKeepsParity`), block numbers are placed injectively and
off the parity (`Placement`, `PlacementInjective`), rebuilding recovers the encoded row
(`RebuildRecovers`), and each function of the file keeps a sound state sound
(`FlushIsSound`, `LoadIsSound`, `SwitchIsSound`, `WrittenIsSound`, `ClearedIsSound`).
`Quietly` carries the refinement through them: what a caller may read is as before,
and some blocks are more certain.  That holds of a call with no slice torn before and
after it, and of every call when no device fails: crashes alone tear slices, and cost
only what was not flushed (`XorTornImplementsBlockDevice`).

**Verify.**  The invariant: each crc in a hash block on the device, and each crc in
the cached hash block, is that of a block the caller may expect there, or of one that
the history variables name for that place, or is that of damage, which no block has
(`DamageAssumption`).  `LayoutIsDisjoint`, `SlotsFit` and `LayoutFits` show that hash
and data blocks never overlap and stay on the device.
`VerifyIntactIsReadable` is the other direction, that no good block is refused.  It says
of the hash block on the device, and of the cached one unless it is astray, that it has
the crc of the data block; in this form it is inductive, given the types.

**Block cache.**  The invariant `Coherent`: slots are labelled where the hash puts
them, a clean slot equals the device, the newest value of every block is in its
slot or, if it is not cached, on the device, and the device has a value that may be
there after a crash; with `may` within `durable`.  The refinement additionally assumes
that write backs succeed (`WriteFaults = {{}}`): a failed one is forgotten by
bcache_evict, which a block device must not do.

**Lazyzero.**  Header, bitmap and data share blocks, and a bit is looked up through a
cache that may lose it.  The invariant: of the cache, that it is labelled, that its
clean slots are on disk, that it holds bitmap blocks only, and that a cached block has
at least the bits that are stored (bits are only ever set); and of each data block
(`Kept`) two statements with the same form, one of the bit as the cache has it and
`may`, one of the bit as it is stored and `durable`: if the bit is set, the block on the
device is one that is allowed; if not, zero is.  They are separate because a crash
takes the process from the first to the second, and because a failed write back
does so for the chunks of one bitmap block.  `wrong` weakens both.  The geometry
lemmas (`BitmapSize` and those after it) show that the bitmap has a bit for every
chunk and that no data block is one of the bitmap.

**Generic bytes.**  The loop invariant relates the position in the device
(`start_block`, `skip_bytes`) to the bytes done; the assertions of the two loops
follow from it.  `DataInv` adds the data: the buffer of the caller holds what was
read so far and is otherwise as it was, except for the block into which a read has
failed, which is given the caller's memory itself (`bdev.c:39`); and the device holds what was written so far
and is otherwise as it was, except for one block more when the call has failed.

**Aggregate.**  concat_find starts at the part it found last.  The invariant: what it
remembers is a part as it is (number, offset and length belong together), so every
block has one route, whatever was asked before; the encrypted device is closed or
opened as it was created; the home of each block holds what was promised of it, and
what is no home holds what it held at first, the header excepted.  `Offset`, where a
part begins, is a recursive function: that it has a solution and is monotonic is
proved by the least counterexample (`OffsetEquation` and the lemmas after it).

**Partitioner.**  The only assumption beyond the geometry is `DATA_START(MaxTotal) < N`:
the map of all partitions leaves a block for data, which the code does not check.  The
properties are claimed until the first mishap, and so is the invariant.  It has three
parts.  `DiskIsSound`: what a block is tells the header from all others, and, once
there is a header, the entries of the map are distinct, marked and behind the map, and
everything before the data is marked (`Owned`).  `HandleIsSound`: a buffer with a label is
the block on the device.  Nothing is said of the size and the offset in the handle, which
may come from a header that was not read, or be wrong as below.
`ContentsAreKept`: each block of a partition is one that `may` or `remains` allows, and a block
that the partition does not have yet may be zero, which is what it is when the partition
grows.  A write belongs to the block whose entry it uses (`OwnerIs`: there is one, since
entries are one to one with blocks of partitions), whatever the handle calls it.  `PartitionsAreKept` alone speaks of the blocks a partition has, so it would say
nothing of the blocks that the next growth adds.

The functions of the file are operators on a machine state, and each has a lemma that
says what it does to a machine whose buffers are sound, whether or not it
fails (`ScanFinds`, `MarkRangeDoes`, `RemapDoes`, ...).  Three relations carry them from
one call to the next: `Unseen(n, d, t)`, no block of a partition can be told apart on the
disks d and n (data that moves, a bitmap that changes); `Reworked`, only the map has
changed; `Outside`, neither header nor data have.  A loop is a recursive function over
the numbers of its turns: that it has a solution, and that what one turn keeps all turns keep,
are proved by the least counterexample, as for `Offset` above.  Growing is then
`RemapAllDoes` (after it no entry is where the map will be, and nothing was seen to move),
`MakeRoomDoes` (the entries behind the partition are shifted, those in between are zero)
and `GrownKeeps` (the offsets of the new sizes lead each block to its old entry).  A fault
leaves the disk as it was for everybody, or is one of the mishaps.

**Event loop.**  `base_dns` is there exactly while the count is positive, exactly
the connecting sockets have `has_dns`, and the count is their number plus the uses
left behind.

**Socket binding.**  `BindStepIsLoopStep`: every step of the binding is a step of the
loop or leaves it alone, so that the invariant of the loop, proved once, holds of
any use the binding makes of it.  That the handles of the loop are those of the
live sockets is not inductive: a socket that is being accepted has a userdata and
no handle yet.  `BindInv` adds `NewInHandler`: such a socket is the one in the frame of a
handler that has not returned, and a handler's socket is new or was closed in it; and
`SetupsOK`: the calls of tcp_connect that wait for their handlers are of different
sockets, which are not set up.

`RefsAreOwn` and `ClosedAreForgotten` need the registry itself.  `GoodRegistry`: the free
list leads from free slot to free slot, to none of them twice and never to its head,
so that luaL_ref gives out no slot that is in use and luaL_unref adds none that is
free.  `RefInv` adds that what a live socket references is in the slot it remembers
and in no other, and that a closed socket is in none (`SocketRefs`), with what is left of
both for a socket that was closed in its own handler and set up afterwards.  `RefStep` and `UnrefStep` say what one
luaL_ref and one luaL_unref do to a good registry; the steps that take or give
several references in a row follow by applying these to each.  As all the properties
of `BindSocket`, this holds until a mishap.

**Device binding.**  That no device is closed under an open one depends on the order
of finalizers and on the references together.  The invariant: a device is younger than the
devices below it (`OldestBelow`), references and pointers are the same (`RefsAreBelow`),
and what is condemned is held by nobody and, until lua_close condemns everything,
referenced by nobody that is open (`CondemnedAreFree`); in lua_close the order alone, newest
first, saves the stack.

Only model-checked:

- Liveness (`Returns`, `IdleLoopReturns`, `TimersFire`, `ExitIsObeyed`, `EndedAreClosed`,
  `GarbageIsClosed`, `EndClosesAll`), which the prover does not reach.

## Where code and words disagree

Two with a run that TLC finds violated.

**lazyzero**, run `lazyzero_reopen`.  The bitmap is addressed from block 0, which is
the header (`layers/lazyzero.c:17` lays the bitmap behind it): the first write to a
chunk whose bit is zero changes the magic number, and the device does not open
again.

**xor**, run `xor_one_failure`.  xor_flush_slice takes one failed device write for
success.  The comment at `layers/xor.c:50` expects of that a "loss of protection", and
"immediate data loss" only "if any two do".  But pwrite may fail and keep the old block
(`layers/baseio.c:203`), and so may verify, whose write fails before its data block is
written (`layers/verify.c:133`).  The device then goes on to return that block, and a
later read of the layer is one of data that was overwritten; no second failure is
needed, and no call fails.  The caller of this run knows what it wrote last
(`newest`); the properties of the run `xor` instead say what is true all the same.

Met while modelling, without a run of their own.  The layers:

- *xor*: xor_flush, xor_sync and xor_clear_caches fail `assert(io->slice_index != -1)`
  (`layers/xor.c:48`) when no slice is loaded.  `Xor` has this as `Abort`; no other
  property suffers from it.
- *verify*: "assume it's zeroed - we won't lose any more data than we've already lost
  by doing this" (`layers/verify.c:121`): after one transient read error of a hash
  block, the other blocks of the chunk, readable until then, are lost.
- *verify*: a failed read of a hash block may leave a buffer that is not what
  `which_hash_block` says (`layers/verify.c:86`): a base that is a verify device itself
  fills it with the block before it refuses it (`layers/verify.c:93`).  Blocks that are
  good are then refused until the caches are cleared or another hash block is read; a
  write to the chunk in the meantime makes that permanent; and a block of the chunk that
  silently turned into what was written to the same place of the other chunk is passed.
  `ReadsPassTheCheck` and `IntactIsReadable` name these cases, and say there are no
  others.
- *lazyzero*: four mishaps, which `EveryBlockIsExpected` names.  A fresh device reads old
  data of the base device in chunks whose bit is a one of the header, against
  `layers/lazyzero.c:31` and `tests/lazyzero.lua:23`: for the same reason as in
  `lazyzero_reopen`.  A write to a chunk whose bitmap block cannot be read for a moment
  clears the chunk (`layers/lazyzero.c:56`).  A bitmap block that cannot be written back
  is dropped (`block-cache.c:71`), and the chunks that came into use since read as zero,
  although lazyzero_flush returned and their data is on the device.  And the first
  byte-wise write to an unused chunk writes zeroes, since the buffer it writes from is
  the one that is zeroed to clear the chunk (`layers/lazyzero.c:81`).
- *encrypt*: encrypt_create does not flush the header (`layers/encrypt.c:137`).  A crash
  that takes it leaves a device that does not open; `aggregate` covers that nothing
  else is lost, since nothing can be written before the header is.
- *partitioner*: the offset of a partition is its own size times its number
  (`layers/partitioner.c:227`), wrong as soon as one before it has another size;
  `tests/partitioner.c:68` expects reads to return what was written to the partition.
  A handle with a wrong offset reads and writes other partitions, or entries that no
  partition has.  It takes no fault.  The properties say nothing of what it reads; what it
  writes counts as written to the block whose entry it uses, and no block but that one
  changes.  A write by an entry that no partition has is the mishap `astray`: the block
  comes up in a partition that grows there.
- *partitioner*: a first write to a block that fails after the map is written leaves
  the block with what its place on the device had (`:497`), which may be old data of another
  partition, and which reads return until the block is written again.  The ghost variable `remains`
  is that, and nothing else.
- *partitioner*: partitioner_open does not notice that the header could not be read
  (`:216`, `:224`), and makes a handle with any size and any offset.
- *partitioner*: the other mishaps.  A failure between map and bitmap leaves a block
  that is mapped and free (`:497`, `unmarked`); remapping goes on with block 0 when no
  block is free (`:367`, `full`) and may choose a block that the map grows into as well
  (`in the way`); results of writes are not looked at (`ignored`); set_part_size goes on with
  a size that it could not read (`misread`, where the model stops: the maps may be shifted by
  any number); a failure in the middle of the shift (`unlucky`) is the
  one that the code announces.
- *partitioner*: the map is marked one block too far (`:428`, `<=`), which wastes a
  block; that the map fits on the device is not checked; set_part_size to the size
  a partition has does not close its handle (`:344`); two open handles allocate from
  separate copies of the bitmap; partitioner_open never assigns the `sync` of the device it
  makes (`:577`), so that a sync of a partition calls an uninitialised pointer.
- *baseio*: fd_read_block fills what a short read did not return with zeroes and
  succeeds (`layers/baseio.c:191`).

The loop and the bindings:

- A socket that is closed while it connects, or whose connection cannot be started,
  keeps its use of the evdns_base (`loop.c:152`, `:227`; `loop.c:33`: deallocate "when
  unused"): the loop never returns.  The ghost `leaked` counts these uses, and
  `IdleLoopReturns` is about loops without one.
- An error from accept ends the process (`loop.c:255`, `assert(0)`).
- bind_loop_socket_setmetatable gives the metatable to index 1 of the stack
  (`lua/bind-socket.c:358`), which in tcp_connect is the host name: client sockets have no
  methods and no finalizer, and the end of one raises an error out of the loop.
  `BindSocket` has this as what it is: only the sockets in `server` can be closed.
- A handler that closes the socket it was given: bind_loop_sock_gc gives back sd_ref
  (`lua/bind-socket.c:153`), and bind_loop_accept_cb sets the socket up all the same
  (`:547`).  It has a handle, a state and callbacks again, but its sd_ref leads to whatever
  took the slot, often its own read callback, and that is what its callbacks are
  given.  These are the sockets in `early`, which `RefsAreOwn`, `ClosedAreForgotten` and
  `EndedAreClosed` exempt in what they say; their handles are owned like the others'.
- The mishaps of `BindSocket`: a read callback closes its socket and
  bind_loop_read_cb reads on from the freed handle (`:275`); a script writes to a
  socket before it is set up, or after its handler refused it (`:184`); one that was
  closed in its own handler is closed again, which gives back the slot of another
  (`:153`); bufferevent_socket_new fails for an accepted socket, its handle is freed while
  the script keeps it (`loop.c:284`), and the script or the collector closes it.
- Left in the registry for ever: sd_ref of a connection that its handler refused,
  the callbacks of a tcp_connect that failed at once, handler_ref of a tcp_listen
  with a port it cannot have, and the devices given to a constructor that fails
  or finds an argument twice (`lua/bind-bdevs.c:218`, the case of `tests/verify.lua:41`).
  `lost` has the last.
- `start+len <= size` in bind_bdev_read_bytes (`lua/bind-bdevs.c:77`) wraps around for
  lengths near 2^64.

## Not modelled

- *baseio*: its reads and writes are system calls; the layers see it as a device that
  may fail.
- *nbd*: `layers/nbd.c` runs an event loop of its own and nothing calls it; the server
  in use is an example script.
- *reed-solomon*: matrix arithmetic over a field of 65536 elements, which no layer
  uses; TLC cannot reach the sizes at which it could go wrong, and induction over
  data is out of the prover's reach.
- *crc, byte order, logger, porcelain*: pure functions, output, argument checks.
- *slice_read_bytes, slice_write_bytes*: they add an offset and pass the call on.
- A script that calls the finalizer of a device by name, which closes it under
  whatever is stacked on it.
- Two handles of the partitioner on one device: nothing keeps them in step.
- Memory exhaustion of the C code other than where loop.c tests for it.

## Plan

Done, in this order: the promise of a device (`BlockDevice`) and `Xor`, `Verify`; the
block cache and `LazyZero`; `GenericBytes`, `Aggregate`; `EventLoop`; then `BindSocket` over it
and `BindBdevs`; `Partitioner`; `Encrypt` below `Aggregate`; with the proofs listed above.

Left:

1. A composition of `Xor` over `Verify`, which turns silent corruption into blocks that
   cannot be read, and failed writes of its own into stale ones.
2. Two handles of the partitioner on one device, with a copy of the bitmap each: the
   invariant of `PartitionerProofs` is about one, and does not hold of two.
