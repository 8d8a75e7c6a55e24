# A verification project for genwqe-user

genwqe-user is the user space side of IBM's GenWQE / CAPI compression
accelerators: a zlib replacement that compresses on a card when there is one,
the libraries below it that hand DDCBs (device driver control blocks, the
commands of the card) to the hardware, and tools.  This directory models the
parts of it whose correctness depends on order, sharing and bookkeeping, checks
them with TLC and proves what is most important with TLAPS.

## 1. The system

| Layer | Source | State | Operations | Module |
|---|---|---|---|---|
| zlib front end | `lib/wrapper.c` | per stream: `impl` (HW or SW), cached dictionary, `gzhead`, `priv_data` | every zlib function; the switch between hardware and software at the first call with data | `ZlibWrapper` |
| zlib adapter, software | `lib/software.c` | table of `dlopen`ed symbols | forwards | `ZlibWrapper` |
| zlib adapter, hardware | `lib/hardware.c` | input and output buffer per stream, cache of card handles | `h_deflate`, `h_inflate`, `__zedc_open` | `HwDeflate`, `HwInflate`, `StreamEnd`, `HwHandles` |
| compression stream | `lib/deflate.c`, `include/deflate_fifo.h` | output FIFO, bits left over, header / EOB / trailer flags, two dictionary pages | `zedc_deflate` and friends | `DeflateStream` |
| decompression stream | `lib/inflate.c` | header and trailer parsers, output FIFO, tree and scratch bits, two dictionary pages | `zedc_inflate` and friends | `InflateStream` |
| handles, formats | `lib/libzHW.c` | card handle, workspace | `zedc_open`, `zedc_memalign`, `zedc_free` | `HwHandles` |
| dispatch | `lib/libddcb.c` | list of accelerator types, statistics | `accel_open`, `accel_close`, `accel_malloc` | `HwHandles` |
| CAPI access | `lib/ddcb_capi.c` | per card: DDCB ring, client counter, mode, done thread; per handle: semaphore, completion code, next card | `card_open`, `card_close`, `ddcb_execute`, done thread | `DdcbQueue`, `CardClients` |
| GenWQE access | `lib/libcard.c` | lists of handles and of descriptors, state per card, health and inotify thread | `genwqe_card_open`, `..._close`, `..._execute_ddcb`, health check | `Libcard` |
| card monitor | `tools/agzipd.c` | per card: handle, state machine, contexts; server and clients | card threads, server, `do_exit` | `AgzipDaemon` |
| flash, product data | `tools/genwqe_update.c`, `genwqe_vpd*.c`, `lib/libcard.c` | flash of the card, files | write, verify, show, convert, save | `VpdFile`, `CardFlash` |
| other tools, stress tests | `tools/`, `misc/` | none of interest | callers | |

A call of `deflate()` goes down this table: wrapper, `h_deflate`,
`zedc_deflate`, `accel_ddcb_execute`, and then either an `ioctl` (GenWQE) or the
ring of `ddcb_capi.c` (CAPI), where it blocks until the done thread posts it.
Streams are used by one thread each; what threads share is a card, the cache of
card handles, and the library's global state.

What is hard:

* **The ring of a CAPI card.**  Application threads, the done thread and the
  accelerator work on one ring without knowing each other.  Two semaphores, two
  indices, status fields and sequence numbers are updated on different paths,
  commands come in chains, interrupts get lost, commands time out while the
  accelerator still works on them.
* **Sharing cards.**  Reference counting, two kinds of handles, modes, a device
  that opens in two visible steps in another thread, and a done thread that
  outlives its clients.
* **Streams.**  Bytes of several origins have to come out in the right order,
  in pieces of any size; bits of a byte are left over from one request to the
  next; a dictionary alternates between two pages; headers and trailers stop and
  resume at any byte.
* **GenWQE's redundant mode.**  Cards come and go; descriptors are closed by a
  health thread while others use them; retries.
* **Switching implementations** under a stream that has been used already.
* **Sharing without locks.**  The cache of handles, and the data of the daemon.
* **Writing flash.**  Anything can stop in the middle.

What makes each component correct, and the places where it could go wrong, are
the `hazards` of `PROJECT.json`, each with its line.

## 2. The modules

### DdcbService, DdcbQueue

`DdcbService` is what `include/libddcb.h` promises: a bounded FIFO service.
`DdcbQueue` is `__ddcb_execute_multi`, `__ddcb_done_post`, `__ddcb_process_irqs`
and `__ddcb_process_polling`, and is checked to implement it.

A step is what the code does under `ctx->lock`, or what it does between two
critical sections.  `Call`, `TakeFree`, `Enqueue`, `Wakeup`, `Return` are the
path of a caller through `__ddcb_execute_multi`: entering, `sem_wait` on
`free_sem`, filling the slot, `sem_wait` on its own semaphore, returning.  The
done thread reads an event, times out or fails in `select()`, and then calls
`__ddcb_done_post` once (`OncePost`, `OnceNothing`: the two paths that ignore its
result) or until it says stop (`DrainPost`, `DrainStop`).  `DonePost` is the
whole of that function: what `ddcb_2_cmd` finds, the completion code, both
`sem_post`s, `ddcb_out`, the status of the slot.

The environment is the AFU (`AfuFetch`, `AfuComplete`), which walks the ring by
itself and writes its result into the slot whoever owns it by then; the events
the driver reports; and time: `Expire` says that a slot is older than
`ctx->tout`.  `Faults` selects what may go wrong in an instance.

Left out: the card is open (see `CardClients`), payloads, and which bits a
register has.  Each thread has a handle of its own; a handle that two threads
share would share its `wait_sem`, which the code does not support.
`posted` and `flaws` are history variables; no guard reads them.  `flaws` is kept with polling
only, where it is asked for.  The mode is one for each behaviour: that a client which opens
the card anew sets `ctx->mode` while the loop of the done thread stays the same is in `CardClients`.

### CardClients

`card_open` of a single and of a redundant handle, card by card; `__client_inc`
in the four cases the code has (clients there, done thread there, device
missing, device opened and then accepted or taken back).  The last one is two
steps, `IncOpenDev` and `IncFinish`, since `afu_h` is visible in between to
`ddcb_execute`, which reads it without the lock.  `Foreign` cards are CAPI cards
that are not the GZIP accelerator: the device opens and the check of the
application id takes it back.  A command is `Execute` (choosing the card),
`Refuse` or `Submit`, and `Serve`.  `Exit` and `CardDevClose` are the library's
destructor.

### Libcard

Everything under `fds_mutex` is one step; an `ioctl` is a step of its own, on a
descriptor number that was read before.  Descriptors are numbers that `open`
reuses (`FreeFd` takes the lowest), so that a stale number may mean another card.
`Execute`, `Completes`, `Retries` and `GivesUp` are `__genwqe_card_execute`;
`Health` is one round of the health thread, `MHealth` with redundant handles and
`SHealth` without; `Notify` is the inotify thread; `ExitMark` and `ExitFixup` the
destructor.  Cards fail, go away and come back (`CardFails`, `CardGoes`,
`CardReturns`).

### DeflateStream, InflateStream

One call of `zedc_deflate` or `zedc_inflate` is one step, as its caller is
blocked for all of it.  In `DeflateStream` bytes are numbers in the order in which
the stream emits them, relative to the next one the application is to get, so that
"nothing lost, nothing overtaken" is an equation about the FIFO (`InOrder`).  The
accelerator may consume any part of the input as long as it fills the output
buffer then, and may leave bits and up to 31 bytes over.  `obyte` and `onumbits` are
kept as numbers, since `EobBits` and `SyncBits` are about the bits.

In `InflateStream` a file is a sequence of tokens with their lengths in bits.
Input bytes are known by their index in the file, so that what is kept in tree
and scratch buffers can be compared with what has not been decoded yet.  The
accelerator stops wherever input or output ends, in the middle of a block or of a
byte.  The parsers of header and trailer go byte by byte and stop where the input
ends, with the flags and counters of the code.

An application is assumed to keep calling with `ZEDC_FINISH` once it did, to
give no further input then, and to do nothing but reset a stream that failed.

### HwDeflate, HwInflate, StreamEnd

They EXTEND the two streams: an iteration of the loop of `h_deflate` or
`h_inflate` calls the stream below, so that these runs check the composition and
not an adapter on an ideal stream.  `StreamEnd` is `__check_stream_end`, the search
for an empty final block behind a raw stream, on the actual bits.

### HwHandles

Card handles, the two buffers and the workspace of a stream, with their
addresses, so that double frees and leaks show.  The lookup in the cache
`zedc_cards`, the opening and the store are steps of their own, since there is no
lock.  Every error path of an opening is an action's alternative.

### ZlibWrapper

One action per zlib call.  A wrapper state and a stream below it are objects on a
heap of `Ids`.  What a stream was told (format, dictionary, header) is kept as
history beside what the objects remember, and `SettingsKept` compares the two.

### AgzipDaemon

A card thread is a state machine in the code already (`DO_CARD_OPEN`,
`COLLECT_TRANS_DATA`, ...); a step of it is a step here, except that the contexts are
collected one by one, since client threads read them meanwhile.  Devices change under the daemon.

### VpdFile, CardFlash

`VpdFile` has both conversions of product data as operators: which lines and
fields are accepted, what is dropped, what is cut.  `CardFlash` has the programs
that use them, side by side on the same files and the same card: each program is
a sequence of the calls that can fail or be interrupted, and the card erases and
programs a partition block by block.

## 3. The runs

| Run | Question | distinct states |
|---|---|---|
| `queue` | Is the ring consistent, is every caller woken exactly once and not too early, is all of it the FIFO service?  With polling: does every command get its own result? | 1,972,595 |
| `queue_live` | Do calls return? | 450,279 |
| `cards` | Counting, modes, devices; are picked cards served; does the destructor free every AFU? | 13,515 |
| `libcard` | Are the shared list and its users consistent, is a chain executed once, is a working card found, are handles freed for a cause? | 87,984 |
| `deflate` | Order of bytes, bits of the markers, dictionary pages, trailer, end of stream | 87,076 |
| `inflate` | Is what is carried over exactly the rest of the file; headers, output, dictionary, end of stream | 35,462 |
| `hw_deflate` | Input compressed once, output given out once, flush modes, bounds of the buffers, end | 74,714 |
| `hw_inflate` | Output given out once and in order through three places where it can wait; end of raw streams | 33,755 |
| `wrapper` | One owner for every object; nothing lost when implementations are switched | 484,560 |
| `handles` | Handles usable, owned, of the right card; memory owned and freed the way it was taken | 1,033,641 |
| `daemon` | Handles, failure counts, threads and data of the monitor at every moment, also at exit | 440,080 |
| `flash` | What success, an error and a kill say about the flash and the files | 206,834 |

All are expected to pass.  The properties, and what they are conjunctions of; for nearly
every part there is a mutant of the code in `PROJECT.json` that the property detects:

| Property | Parts |
|---|---|
| `queue`: `TypeOK`, `RingConsistent`, `NoOverwrite`, `WakeupOwed`, `ReturnedChainPosted`, `ImplementsService` | one statement each |
| `AnswersAgree` | numbers are consecutive, with polling the AFU stays in the window, a call gets its own results |
| `queue_live`: `ExecuteReturns` | |
| `cards`: `ContextsShared` | types, `ClientsCounted`, `ModeShared`, `ClientsHaveDevice` |
| `CommandsServed` | `OpenHasCard`, `PicksOpenCard`, `QueuedIsServed` |
| `ExitFreesAfus`, `CallsReturn` | |
| `libcard`: `ListConsistent` | types, `CursorInList`, `DescriptorsOwned`, `OpenCardListed` |
| `ChainOnce`, `WorkingCardIsUsed` | |
| `HandlesFreed` | `FreedForCause`, `ClosedIsFreed`, `ExitClosesCards` |
| `deflate`: `InOrder`, `DictCurrent` | |
| `MarkerBits` | `EobBits`, `SyncBits` |
| `EndIsReached` | types, `TrailerFinal`, `FinishProgress` |
| `inflate`: `RequestHoldsRest` | types, `ScratchHoldsRest`, `TreeKept`, `InDictIsWindow` |
| `HeaderParsed` | `HeaderConsumed`, `HeaderSaved` |
| `Delivered` | `OutputOnce`, `EndIsEnd` |
| `InflateEnds` | |
| `hw_deflate`: `BytesOnce` | types, `InputOnce`, `OutputOnce`, `EndIsEnd`, `BoundSuffices` |
| `FlushReaches` | `FinishIsLast`, `FlushDelivers` |
| `FinishEnds` | |
| `hw_inflate`: `HDelivered` | types, `HOutputOnce`, `BufferAgrees`, `HEndIsEnd` |
| `HInflateEnds` | |
| `wrapper`: `Owned` | |
| `StreamKept` | types, `SettingsKept`, `DataKept` |
| `handles`: `CardsOwned` | types, `HandlesUsable`, `HandlesOwned`, `CardAsked`, `OpensCounted` |
| `MemorySound` | `MemoryOwned`, `FreedAsTaken` |
| `daemon`: `ResourcesSafe` | types, `AfuOpen`, `HandlesAccounted`, `FreedAfterThread` |
| `ReportsTrue` | `GivesUpAfterTwo`, `SummaryAgrees`, `EndsForAReason` |
| `FollowsCards` | `DeadIsClosed`, `GoodIsMonitored`, `ExitEnds` |
| `flash`: `SuccessIsTrue` | types, `SuccessIsOnCard`, `ReadIsPartition` |
| `FlashIsWhole` | `VpdIsWhole`, `TornIsReported` |
| `ConversionsAgree` | `ConvertedIsAsked`, `ConvertedIsAccepted`, `DumpRestores` |
| `ToolsEnd` | |

### Bounds

*`queue`.*  Two threads, two slots, chains of two and sequence numbers modulo 4
that start at 3.  So the ring wraps, `ddcb_in` meets `ddcb_out` both when full and
when empty, two chains interleave, threads hold tokens at the same time, and the
counter wraps.  `PollingModes` gives both modes.  More threads or slots show no new
relation between the variables of a slot and of its owner, and the main invariants
are proved for all of them.  Commands time out, and `select()` fails, which posts whatever is
in the ring.  `queue_live` takes one slot and chains of two, so that a chain is longer than the
ring and holds the slot for which it, or the other thread, waits; with time-outs, lost
interrupts and reserved events, after which a single slot is posted.  Liveness with failures of
`select()` is not in it.  `MaxChain` is the only bound of the module.

*`cards`.*  `Sites`: a GZIP card, a foreign one and an empty slot with single
handles of two modes, the same with masters, and redundant handles with one card of
three missing.  Three cards, so that "next", "last good one" and "start" differ; two
handles.

*`libcard`.*  Two cards, three descriptors (`Fds`), two handles: `h1`, which is
redundant or for one card (`OpensAs`), executes chains of two DDCBs (`Callers`,
`Chain`), `h2` is redundant and shares the list.  `MaxFaults` = 2 failures or removals:
both cards, or one of them twice.

*`deflate`.*  Two bytes of input, in one or two requests; output buffers of 5 bytes
(smaller than every header, marker and trailer) and of 60.  The FIFO has 48 bytes and
the header limit is 32, the same distance as the code's 256 and 240.  `MaxObits` is
the code's 31 bytes, and `MaxOut` of 480 bits lets a byte of input become 60 of output, so
that a request fills either buffer.

*`inflate`.*  Seven files: raw, zlib and gzip with optional fields; dynamic, fixed
and stored blocks, with an end-of-block marker inside a byte; a preset dictionary; a
wrong checksum.  `Chunks`: input comes in pieces of no, one or 20 bytes; `OutSizes`:
room for no, one or 9 bytes.  `TreeLen` is the size of the buffer for tree and scratch: 24
bytes take the trees of these files with the longest token behind them.  `XlenBits` is the width of the counter
of the extra field.

*`hw_deflate`, `hw_inflate`.*  No buffer, or one of two bytes (`IbufSizes`,
`ObufSizes`), which is smaller than the data and than the header; the `PageSize` of 48
enters the code's bound for its output buffer, `BoundSuffices`; it holds two FIFOs of 24 bytes, as
the code's 4096 holds two of 256.  `MaxOut` = 15 bits is the 15/8 that `h_deflateBound` allows for
each byte.  `Modes` are the flush modes of the application.

*`wrapper`.*  One stream that decompresses, or two that compress (`Apart`: kinds
share nothing but the global settings, so they need not be mixed); two wrapper
states and two streams below (`Ids`); calls with nothing, less than
`zlib_inflate_threshold` and that much (`Sizes`); an old zlib without
`inflateGetDictionary` and a full one (`SwLibs`); software that cannot be started at
init (`SwFails`).

*`handles`.*  Two threads, two streams, the redundant handle, one card, and card 128,
for which the cache has no place.  Six pieces of memory, two of each size (`Fits`), are what two
streams need, and let a leak be reached.  `MaxOpens` = 2 opens of a type.  With and without
caching, flat buffers and buffers at all.

*`daemon`.*  A card that is in turn anything a card may be (`MCDevices`) and one that
is missing; two contexts; one client; `HeapFailCnt`, `HeapMaxCtx`: what memory from
`malloc` may hold in the two fields the code reads before it sets them.

*`flash`.*  Four of the ten lines of product data, one of each mode, and the checksum;
images of two blocks; three program runs by two processes; one fault, which is a kill,
a failure of the card, a wrongly programmed block or an image file that is replaced
(the copy begins while an update uses the file).  Each partition has one writer.

`CHECK_DEADLOCK FALSE` is set where the system stops: `cards`, `libcard` and `daemon`
end with the process, `handles` and `flash` with their bounds.

### Fairness

Weak fairness stands for the scheduler, which runs every thread that can run.

* `queue_live`: POSIX semaphores are not handed out in turn, so strong fairness of
  `TakeFree` is an assumption: a thread is not overtaken for ever.  In interrupt
  mode nothing is assumed of the AFU, only that time passes (`Expire`) and that
  the done thread runs; in polling mode, where nothing times out, that the AFU
  executes what was started.
* `cards`: calls and the destructor go on; strong fairness where a mutex is taken.
* `libcard`: the health thread runs (every 4 seconds); a card that works is not busy
  for ever (SF of `Completes`).  The 30 seconds of the retries are not assumed to
  pass.  A DDCB may fail on a card that works (`GivesUp`), but a request has to end so only if it
  is for a single card that does not work.
* `inflate`, `hw_inflate`, `hw_deflate`: the application keeps calling, with input as
  long as it has some and room for output, and gives the dictionary it is asked for;
  a call that was entered goes on.  That streams get to their end then is checked, as
  nothing in the code waits.
* `daemon`: the card threads run, the main thread goes on (`Create`, `Exits`).  Nothing
  is assumed of cards, clients and signals.
* `flash`: a program that was not killed goes on, that is, the driver's `ioctl`
  returns.

`FinishProgress` of `deflate` states progress per call, as an invariant, and needs no
fairness: it is the application that has to call.

### Known limitations

These were met while modelling: places where the code does not do what one could
expect, or what a comment says.  The runs leave them out, or their properties except them,
as said here.

*CAPI queue and cards*
* `__ddcb_done_post` keeps one completion code per handle, so the last command of a
  chain overwrites the error of an earlier one.
* A wrong sequence number replaces the completion code only if that is an error
  already (`ddcb_capi.c:951`), the opposite of the comment above it; a late result of a
  timed-out command completes the next owner of the slot with `DDCB_OK`.
  (`OwnAnswers` speaks of polling, where nothing is timed out.)
* In polling mode nothing times out.  (`ExecuteReturns` assumes an AFU that answers.)
* Closing a redundant handle decrements the counter of every card, also where the
  open failed, or found the card open in another mode.  A counter of -1 makes the next client "join" a card that is not open.
  (`Countable`.)
* The done thread of a master handle only sleeps; it stays after the close, and a later
  slave handle queues its commands to it.  (`MastersApart`.)
* A redundant `card_open` for which every card failed returns a handle with
  `ctx == NULL`.  (`OpenHasCard` is about single handles, and redundant ones
  where some card can be opened.)
* `ddcb_execute` can pick a card whose `afu_h` is about to be taken back.  (`PicksOpenCard`
  needs `Orderly`.)
* When a card is opened with polling while its done thread still waits for interrupts, commands
  are started without interrupt and end only when `select()` times out.  (`Serve` is one step,
  whichever loop it is.)

*libcard*
* A card that is opened by a new handle between the inotify event and the health
  thread is in the list twice, and a dead descriptor of it can stay there.
* Single handles are freed with their card while the owner still has them, if there are no
  redundant ones; what the owner does with them afterwards is undefined.  (`FreedForCause`
  allows just this.)
* Single handles are not looked at, and at the end of the program not freed, while there are
  redundant ones.  (`ClosedIsFreed` and `ExitClosesCards` except it.)
* The health thread forgets a card that the inotify thread reports while it opens another one.
  (`MHealth` may lose these events.)

*Streams*
* 240 bytes of name, comment and extra field pass the check of `deflate_add_header` and
  need 256 bytes with everything around them; the FIFO takes 255 and drops the last one.
  (The headers of the run fit.)
* `zedc_deflateSetDictionary` and `zedc_inflateSetDictionary` of a raw stream are
  accepted between two calls and always write page 0, whatever page is in use.
  (`LateDict = FALSE`; with `TRUE` TLC finds `DictCurrent` and `InDictIsWindow` violated.)
* An extra field of length 0 makes the header parser skip 65536 bytes
  (`inflate.c:492`).  (The files have none.)
* After a call with `ZEDC_BLOCK` the stream stops for good once the header is done
  (`inflate.c:1112`).  (`Flushes` does not have it.)
* `h_inflate` with `Z_NO_FLUSH` returns before it looks for output that can be had
  without input.  (`HInflateEnds` is about applications that use `Z_SYNC_FLUSH`.)
* `h_deflate` looks for input that was not absorbed, not at the result of the stream: a failure
  after all of the input was taken gives `Z_OK`, and may end in `Z_STREAM_END` without the end
  of the file.  (`FailureSwallowed` in `FinishEnds`; what comes after it is not followed.)
* `h_inflate` with a buffer does not report a header that was refused: `ZEDC_ERR_GZIP_HDR` is not
  among the results it looks for, and the application gets `Z_OK` for every byte it gives.
  (`HeaderRefused` in `HInflateEnds`.)
* Output that waits in the dictionary is given out without `next_out` going on
  (`hardware.c:1461`).  (The model has the numbers of bytes only, in which it does not show.)
* The input taken by the search for the end of a raw stream is counted wrong for most
  positions (`hardware.c:1363`), which matters to applications that go on behind it.

*Front end and handles*
* `inflateReset2` does not keep the new `windowBits`; with an old zlib a refused
  dictionary is stored; bits given with `inflatePrime` are lost at the switch to
  hardware.  (`NotSaved` in `SettingsKept`.)
* When the switch, or `deflateParams`, ends the hardware stream and cannot start
  software, state is lost or freed twice.  (`RestartsWork`; with `"switch"` or
  `"params"` in `SwFails` TLC finds `Exclusive` violated.)
* Two threads that open a card for the cache at the same time lose one handle.
  (`HandlesOwned` allows just this.)  The cache ignores type and mode.  (`RetypeCached`, which
  excepts what depends on the type.)
* `h_deflateCopy` loses its workspace on every later failure, also when another thread's failed open
  has emptied the cache.  (`leaked` in `MemoryOwned`.)  It calls `free()` for an input buffer that may be
  the driver's.  (`CopyStopsAt` has this for memory of the heap only.)

*agzipd*
* `card_open` loses the handle for errors -2 to -6, and the thread tries again.  (`lost` in
  `HandlesAccounted`.)
* Client threads are neither cancelled nor waited for and may read freed data.
  (`FreedAfterThread` is about the card threads.)

*Flash and product data*
* The size of an image is checked before the file is opened: a file that is replaced
  meanwhile is flashed as far as it goes, even an empty one, with success.  (`SuccessIsOnCard`
  claims a whole image if the file did not change.)
* Any failure with `errno` `ENOSPC`, of the writing too, is a success of `genwqe_update`, whatever
  it leaves in the partition.  (`SuccessIsOnCard` and `TornIsReported` except it.)
* Product data are never read back.  With a wrong checksum they are shown with success,
  and `genwqe_vpdconv` then puts the checksum right, so that damaged data become good.
* The last two characters of every CSV line are cut: a line that ends with a digit and a
  bare newline loses the digit.
* Texts with commas, quotes or characters that cannot be printed do not survive a dump
  and a conversion.
* `genwqe_vpdconv --reverse` ends with success although the file was refused, and
  `genwqe_vpdupdate -s` although the product data were and the dump broke off.  (`SuccessIsTrue`
  is about `genwqe_update` with verification, `genwqe_vpdupdate -u` and `genwqe_flash_read`;
  `DumpRestores` is about what such a dump is good for.)

## 4. The proofs

A theorem holds for every value of the constants that the named assumptions of its module
allow: any number of threads, cards, handles, contexts, clients and streams, any depth of the
ring, any chain length, any modulus greater than the depth, both modes and all faults.

| Module | Theorem | Statement |
|---|---|---|
| `CapiProofs` | `TypeCorrect` | `Spec => []TypeOK` |
| | `RingCorrect` | `Spec => []RingConsistent` |
| | `NeverOverwrites` | `Spec => []NoOverwrite` |
| | `WokenOnce` | `Spec => []WakeupOwed` |
| | `ChainPosted` | `Spec => []ReturnedChainPosted` |
| | `CallsGetOwnAnswers` | `Spec => []AnswersAgree` |
| | `QueueImplementsService` | `Spec => ImplementsService` |
| | `DaemonKeepsResources` | `DSpec => []ResourcesSafe` |
| | `DaemonReportsTrue` | `DSpec => []ReportsTrue` |
| `CardClientsProofs` | `ContextsCorrect` | `Spec => []ContextsShared` |
| | `CommandsReachDevice` | `Spec => []CommandsServed` |
| | `DestructorFrees` | `Spec => []ExitFreesAfus` |
| `LibcardProofs` | `ListStaysConsistent` | `Spec => []ListConsistent` |
| | `ChainExecutedOnce` | `Spec => []ChainOnce` |
| | `HandlesFreedForCause` | `Spec => FreedForCause` |
| | `ExitClosesShared` | `Spec => ExitClosesCards` |
| `HwHandlesProofs` | `HandlesAreOwned` | `Spec => []CardsOwned` |
| | `MemoryIsOwned` | `Spec => []MemorySound` |
| `DeflateProofs` | `StreamInvariant` | `Spec => []IInv` |
| | `DictionaryIsWindow` | `LateDict = FALSE` proves `Spec => []DictCurrent` |
| | `BytesInOrder` | `HeadersFit` proves `Spec => []InOrder` |
| | `EndIsComplete` | `HeadersFit` proves `Spec => []EndIsReached` |
| | `MarkersAreComplete` | `Spec => []MarkerBits` |
| | `AdapterInvariant` | `HSpec => []HIInv` |
| | `BytesCompressedOnce` | `HeadersFit` proves `HSpec => []BytesOnce` |
| | `FlushTakesAll` | `HeadersFit` proves `HSpec => []FlushReaches` |
| `InflateProofs` | `Invariance` | `ExtraUsed` proves `Spec => []IInv` |
| | `RequestContinues` | `ExtraUsed` proves `Spec => [](TypeOK /\ ScratchHoldsRest /\ TreeKept)` |
| | `RequestIsWhole` | `ExtraUsed`, `LateDict = FALSE` prove `Spec => []RequestHoldsRest` |
| | `HeaderIsParsed` | `ExtraUsed` proves `Spec => []HeaderParsed` |
| | `OutputDelivered` | `ExtraUsed` proves `Spec => []Delivered` |
| `ZlibWrapperProofs` | `ObjectsOwned` | `Spec => []Owned` |
| | `StreamsKept` | `Spec => []StreamKept` |
| `CardFlashProofs` | `Invariance` | `ImagesFit`, `FilesApart` prove `Spec => []IInv` |
| | `Success` | `ImagesFit`, `FilesApart` prove `Spec => []SuccessIsTrue` |
| | `WholeFlash` | `ImagesFit`, `FilesApart`, `OneVpdUpdate` prove `Spec => []FlashIsWhole` |

Every invariant below was checked with TLC on the run of its module before it was proved.
Each module has, in this order, lemmas about operators, one lemma per action (or per action and
conjunct) that the invariant is kept, and the theorems.

*Ring* (`CapiProofs`).  `RingConsistent` counts: the slots in use are
`NumDdcbs - free_sem - |Holding|` slots from `ddcb_out` on, where `Holding` are the
threads that took a token and have not used it.  The inductive invariant `IInv` is
the type invariant, this count, and that `next` stays within the chain.  Taking a
token moves one unit from the semaphore to `Holding` (`TakeFreeCount`), filling a slot moves
it to the ring (`EnqueueCount`), posting moves it back (`DonePostCount`).  `NoOverwrite`
follows: if the slot at `ddcb_in` were in use the ring would be full, and then nobody can hold
a token.

*Wake-ups* (`CapiProofs`).  `WakeupOwed` is not inductive: that a blocked caller
has exactly one wake-up coming depends on its last command being in the ring, on that
command being the last of *its own* commands there, and on which of them were posted.
`WInv` adds this: the owner of a used slot is known and inside its call, the slot
that owes the wake-up is behind all the others of its owner, and the commands of
a call are accounted for as posted, in the ring, or still to be enqueued.
It is inductive relative to `IInv`, and `ReturnedChainPosted` follows.

*Answers* (`CapiProofs`).  `AInv` says where the sequence numbers of the slots
come from, and, for polling, what the status fields, the AFU's position and the completion
codes of the calls have to do with each other: the AFU is at the end of the finished slots, and
what it finished carries the number the done thread will compare it with.  The modulus need
only be greater than the depth: then two slots in use never have the same number.

*Refinement* (`CapiProofs`).  The queue of the service is the ring from `ddcb_out` on
(`Service`), as a sequence of pairs of caller and command.  A call, an `Enqueue`, a
`DonePost` that posts, and a `Return` are steps of the service; taking tokens, waking up,
events, time and the AFU are stutters.  That `DonePost` takes the *first* element and `Enqueue`
adds behind the *last* is `RingConsistent`, that a call returns with all its commands served is
`WInv`; `QInv` puts them together.

*Contexts* (`CardClientsProofs`).  `CInv` counts who holds a card (`Holders`): handles that
have it, that are just opening it, and those that still have to close it on their way through
the cards.  The hard step is the opening of a device, where `afu_h` is set before it is known
whether the card will be kept, while other clients may come and go on other cards.  The three
theorems need only parts of it.

*List of descriptors* (`LibcardProofs`).  `IInv` says one by one what `ListConsistent` says with
sets and sizes: no two nodes of `__fd_m_list` have one descriptor, and it is open on the card of
the node (`Fits`); no two single handles have one, nor does a node (`SinglesOwn`); every open
file is one of these (`AllOwned`).  With it go the pointers into the list, the marks of the
cards, that the list is empty without redundant handles (`ListHeld`), and that a destructor that
has begun leaves no handle open (`ExitHolds`).  The lemmas are about the three operations that
change the list: `OpenAddGives` (`__m_open_add` of any cards takes as many free descriptors as
it adds nodes), `WithoutGives` (`__fd_m_del` of any nodes), `HeadAllGood` (all pointers to the
head); a round of the health thread is an `OpenAdd`, a `Without` and a `HeadAll` in this order
(`ChecksListInv`).  They rest on `NthEnumerates`: a finite set of numbers has a `k`-th smallest
one for every `k` up to its size, once each, since counting the smaller ones is a bijection.
`FreedForCause` and `ExitClosesCards` are the two parts of `HandlesFreed` that are about
single steps.

*Handles and memory* (`HwHandlesProofs`).  `HInv` says for every call under way and every stream
which handle and which pieces of memory are its own: without the cache handles have one user each
(`Unshared`), with it the cache has them and nothing closes them (`CacheOK`); a piece is that of one
buffer of one stream, of one call, or leaked (`PieceOK`).  All ways in which a call can end are two,
`Builds` and `GivesUp`: that the `goto` labels free exactly what was allocated before is `UnwindsAll`.

*Daemon* (`CapiProofs`).  `MInv` ties the state of a card's thread to the handle it
has, to the list of contexts it is collecting and to the main thread's way through `do_exit`.

*Front end* (`ZlibWrapperProofs`).  `ZInv`: every object on the heap that is in use is that of
one open stream (`Links`), and the stream below is what the wrapper state and the calls of
the application say (`SoundStream`).  The lemmas follow a call through the heap: what frees an
object frees one, what allocates one gets an unused one (`FreeId`), what changes the stream of
one `z_stream` leaves the others.

*Compression stream* (`DeflateProofs`).  A call is one step that passes the stream through
up to eight operators, so the lemmas say of each operator what it does to a stream (`Pushed`,
`WrittenOut`, `HeaderEmitted`, `FinishedEffect`, `FlushedEffect`, `ProcessedEffect`), then which
part of the invariant it keeps (`WrittenSound`, `ProcessedSound`, ...), and `DeflateStep` puts
them in the order of the code.  `IInv` says of a stream and the phase its application is in:
its types and the FIFO's free byte (`Typed`); the two marks of the end are set together, after
the header, when all input is consumed (`EndSound`); the page in use is the first one as long as no
data was compressed, and holds the window (`DictSound`); the FIFO holds the numbers 1 to `owed`
and is empty until the header goes into it (`FifoSound`).  Why no byte is lost: a request is
only sent when the FIFO is empty, it leaves at most 31 bytes, and 11 more close the stream.
The markers (`MarkersAreComplete`) need of `IInv` only that there are 0 to 7 bits left over of
some byte.  The lemmas give bit i of what the code pushes (`EobBytesGive`, `SyncBytesGive`) and of
what RFC 1951 asks for (`MarkedGives`, `PaddedGives`), and `EobFollows` and `SyncFollows` compare
them.

*Adapter* (`DeflateProofs`).  `HIInv` has the stream's `IInv`, and says that the adapter has
the input and the output the stream does not (`Working`) and what a call may tell the application
(`Reported`).  The central lemma is `CallEffect`: a call with room for the expanded input
and two FIFOs consumes all its input, and a flush then leaves the FIFO empty; `Enough` shows
that the output buffer of `h_deflateBound` is that large for every size of the input
buffer.  So "not all input absorbed" means that the accelerator failed.

*Decompression stream* (`InflateProofs`).  `IInv` says everything of a stream from its position
in the file.  Before the end of the header, the state of the parser is that of the next
byte (`StateAt`), what it has put into the application's buffers is what lies before that byte
(`SavedAt`), and nothing was sent (`Fresh`).  Behind it, eight times the bytes read is the
first bit not decoded plus the bits in the scratch, which is less than a byte or
less than the next token (`BitsAt`); the buffer has the bytes of the tree and of the scratch in
their places (`AreaSound`).  What was delivered and what is in the dictionary adds up to what was
decoded (`OutSound`), the end of the stream is at the end of the file (`EndSound`), and the page in
use holds the window (`DictSound`, for `LateDict = FALSE`).  All of it is needed: where the next
request starts depends on the bits, whether they fit on the tree, and both on the header.  The
header parser is a loop over the bytes of a call, in the model the function that `Passes`
describes; `LoopUnfolds` shows that there is just one such function, and then the loop is followed by
induction over the bytes that are left.  The rest of a call goes through its operators in the
order of the code.  `AssembledGives` and its companions say what the scratch holds after copies
out of the old scratch and the input, with what the code does when a tree begins in either;
`TreeOutcomeGives` covers the tree of the block the accelerator stopped in, `CutPlaced` the
header that is made up for the rest of a stored block, `PostGives` the result as a whole, and
`BehindSound` with `BehindDict` what comes behind it, to the end of the trailer.  `InflateStep`,
`SetDictionaryStep`, `GetHeaderStep` and `ResetStep` are the actions.

*Flash* (`CardFlashProofs`).  What a program says when it ends relates what it read in its first
steps to what is in the flash after its last, while the others write too.  `IInv` says of each
program, at each point of its run, what it knows (`Local`): `genwqe_update` has in its buffer an
image of the right size if nobody replaced the file since it was checked (`BufOK`); the blocks before
`off` of its partition are those of its buffer if nobody disturbed the partition, whatever the card
programmed, since a block that does not verify ends the run (`WrittenOK`); what is saved is still
what was read (`SaveOK`).  With it go the types of flash and files, that no two programs save to
one file (`SavesApart`), and that an erased block is one that somebody still has to program or
that was reported (`ErasedOK`).  There is one lemma per action; that the *other* programs know what
they knew is `LocalKept`, which is where `disturbed` is needed.  `WholeFlash` adds `VpdOK`: what is
written as product data is complete with a good checksum, and before the first field is
programmed all are erased, so that a partly written partition is one with erased fields.  This
rests on the conversion (`OkGives`): `csv_2_bin` accepts only files whose lines are those of the
table in its order, so that what it returns has all fields in their lengths.

*Assumptions.*  Each is named, declared in the module of the component, and evaluated in its
run.  Some say that model values differ (`None` is not a handle, a slot, an id), some that sets
are finite.  `HeapAssumption` of `AgzipDaemon` says what may be in the memory its two
fields start from.  `RoomAssumption` of `DeflateStream`: the FIFO takes what a request leaves over
with the end of the stream (31 and 11 bytes of 255).  `PageAssumption` of `HwDeflate`: a page
holds two FIFOs, and the accelerator does not expand data by more than the 15/8 that the code
reckons with.  `RefAssumption` of `VpdFile` is the shape of the reference table
`vpd_ref_102`: a version first, a checksum last.  `FilesAssumption` of `InflateStream`
is the format: the tokens of a file are numbered, and lie in blocks as RFC 1951 has them
(`InBlocks`); an extra field has up to 255 bytes, so that the high byte of its length is 0.
`BoundsAssumption` has `TreeLen`: the buffer for tree and scratch takes the tree of a
block together with the longest token in it; in the code it has 512 bytes, and a tree at most
288 (`deflate_ddcb.h:84`).  `FlashAssumption` of `CardFlash`: images are
blocks and product data fields, a command line names a partition its program
accepts, the flash is not erased at first.

*Premises.*  Some properties are implications, with what they exclude as a named premise, so that
it is in the statement and not in the choice of constants; each is one of the known limitations.
`Countable(c)`: card `c` is used with single handles, or can be opened and all handles ask for one
mode (`Uniform`).  `Orderly`: the same for a machine, without foreign cards where handles are
redundant.  `MastersApart`: masters are not mixed with others.  `RestartsWork`: software can
be started at a switch.  `HeadersFit`: the headers the application sets that pass the
length check leave the FIFO its free byte; the check itself admits headers of one byte too
many.  `ExtraUsed`: an extra field that is there has at least a byte.
`LateDict = FALSE`: dictionaries are set before any data.
`ImagesFit`: an image is no longer than the partitions, which `genwqe_update` leaves to the driver.
`FilesApart`: no program writes to a file that another one flashes or saves to, since nothing locks
files.  `OneVpdUpdate`: one process updates product data; two at a time may mix
theirs, as nothing locks the card between the commands of one.  The runs have instances where each of them holds, with all the
interleavings that matter; those of `cards` also have some where they do not.

### What is only model-checked

* Liveness (`ExecuteReturns`, `CallsReturn`, `WorkingCardIsUsed`, `ClosedIsFreed`,
  `InflateEnds`, `FinishEnds`, `HInflateEnds`, `FollowsCards`, `ToolsEnd`): out of the
  prover's reach.
* `HDelivered` of `HwInflate` (output in three places, and the end found by `h_inflate`): the
  theorems about `InflateStream` do not carry over, since `__check_stream_end` and the reading
  of pending output change the stream below from outside; a proof would have to relate the
  bits that the search sees to the tokens of the file.
* `ConversionsAgree` of `CardFlash`: that a dump of product data converts back to them, for
  which the characters of every line are filtered and filled up again; TLC goes over all files of
  the run.

## 5. What is not modelled

* Register access, statistics, traces, error texts and dumps: no state that anything
  depends on.
* Checksums and what the accelerator computes: the accelerator is the environment.
* Memory that cannot be had, semaphores and threads that cannot be created, except in
  `HwHandles`, which is about them.
* The destructor of `ddcb_capi.c` while calls are under way: it cancels threads that may
  hold a lock.
* `deflateBound`, `inflateBack` and the `gz...` functions: they forward and keep
  nothing.
* The other tools (`genwqe_gzip`, `genwqe_memcopy`, `genwqe_echo`, `genwqe_csv2vpd`, ...) and the
  stress tests in `misc/`: single threads that parse options and call the library.

## 6. The plan

Done: the CAPI queue, card clients, libcard, both streams, the adapter on top of them,
handles, front end, daemon and flash are modelled and checked; all the safety properties but
`HDelivered` and `ConversionsAgree` are proved.  Left, in this order:

1. The output side of `HwInflate` (`HOutputOnce`, `BufferAgrees`), from `IInv` of
   `InflateProofs`, and then the end of a raw stream (`HEndIsEnd`).
2. The conversions of `VpdFile` for every table (`ConversionsAgree`).
