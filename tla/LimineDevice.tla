---------------------------- MODULE LimineDevice ----------------------------
(***************************************************************************)
(* The device layer of limine-binary/limine.c, the tool that iso.sh runs   *)
(* on the image of NyaOS: a cache of one block, reads and writes that go   *)
(* through it, the log of overwritten data, its replay when an install     *)
(* fails or is uninstalled later, and I/O errors at every call of stdio.   *)
(* What bios_install writes is a plan; its decisions are in BiosInstall.   *)
(***************************************************************************)
EXTENDS Integers, Sequences

CONSTANTS
  block_size, NBlocks,  \* the device, in cells that stand for ranges of bytes
  Original,             \* what it holds at first
  Plans,                \* sequences of device_read and device_write calls
  UNINSTALL_DATA_MAX,
  MaxFaults             \* bound: failing calls of stdio

Cells == 0 .. (NBlocks * block_size - 1)
CallCells(c) == c.loc .. c.loc + c.count - 1
Calls == [kind : {"read", "write"}, loc : Nat, count : Nat \ {0}, data : Seq(Nat), name : STRING]

\* The calls stay on the device; a buffer is always read in the same length, and what is
\* written is given or was read before.
PlanOk(p) ==
  /\ p \in Seq(Calls)
  /\ \A j \in DOMAIN p : CallCells(p[j]) \subseteq Cells
  /\ \A j, k \in DOMAIN p : p[j].kind = "read" /\ p[k].kind = "read" /\ p[j].name = p[k].name
                             => p[j].count = p[k].count
  /\ \A j \in DOMAIN p : p[j].kind = "write" =>
       \/ Len(p[j].data) = p[j].count
       \/ /\ p[j].data = <<>>
          /\ \E k \in 1 .. j - 1 :
               p[k].kind = "read" /\ p[k].name = p[j].name /\ p[k].count = p[j].count

ASSUME DeviceAssumption ==
  /\ block_size \in Nat \ {0} /\ NBlocks \in Nat \ {0} /\ UNINSTALL_DATA_MAX \in Nat
  /\ MaxFaults \in Nat /\ Original \in [Cells -> Nat]
  /\ \A p \in Plans : PlanOk(p)

None == -1
NoCall == [loc |-> 0, count |-> 0, progress |-> 0, got |-> <<>>, name |-> "none", phase |-> "none",
           data |-> <<>>]
NoFile == <<>>

VARIABLES
  dev,     \* disk, cache, cached_block and cache_state (dirty)
  buf,     \* what the device_read calls of bios_install have read
  todo,    \* the calls bios_install has still to make
  call,    \* the running _device_read or _device_write
  log,     \* uninstall_data[0 .. uninstall_data_i - 1]
  run,     \* control of the process: pc, ok, and the locals of uninstall
  uninstall_file,  \* what the uninstall data file holds
  faults,  \* failed calls of stdio (history)
  plan,    \* the plan of this behaviour (history)
  torn     \* cells of a device_write that failed half way (history)

device_vars == <<dev, buf, todo, call, log, run, uninstall_file, faults, plan, torn>>
-----------------------------------------------------------------------------
(***************************************************************************)
(* The cache. An operation yields its possible outcomes; a failing fwrite  *)
(* or fread may have transferred the first cells of the block.             *)
(***************************************************************************)
Block(d, b) == [o \in 0 .. block_size - 1 |-> d.disk[b * block_size + o]]

Stored(d, k) ==
  [c \in Cells |-> IF c \div block_size = d.cached_block /\ c % block_size < k
                   THEN d.cache[c % block_size] ELSE d.disk[c]]

Success(d) == {[ok |-> TRUE, dev |-> d]}
Failure(D) == IF faults < MaxFaults THEN {[ok |-> FALSE, dev |-> d] : d \in D} ELSE {}

device_flush_cache(d) ==
  IF ~d.dirty THEN Success(d)
  ELSE Success([d EXCEPT !.disk = Stored(d, block_size), !.dirty = FALSE])
         \cup Failure({[d EXCEPT !.disk = Stored(d, k)] : k \in 0 .. block_size - 1})

\* Mutant of FillCache: the block number is set and the block is not read.
FillCacheEarly(d, b) ==
  Success([d EXCEPT !.cached_block = b, !.dirty = FALSE])

FillCache(d, b) ==
  Success([d EXCEPT !.cache = Block(d, b), !.cached_block = b])
    \cup Failure({[d EXCEPT !.cache = [o \in DOMAIN @ |->
                     IF o < k THEN Block(d, b)[o] ELSE @[o]]] : k \in 0 .. block_size - 1})

device_cache_block(d, b) ==
  IF d.cached_block = b THEN Success(d)
  ELSE UNION {IF f.ok THEN FillCache(f.dev, b) ELSE {f} : f \in device_flush_cache(d)}

\* uninstall and its retry forget the cache, without a flush.
DropCache(d) == [d EXCEPT !.dirty = FALSE, !.cached_block = None]
-----------------------------------------------------------------------------
(***************************************************************************)
(* One chunk of the loops of _device_read and _device_write.               *)
(***************************************************************************)
Pos == call.loc + call.progress
Idle == call.phase = "none"
Chunk == LET left == call.count - call.progress
             room == block_size - (Pos % block_size)
         IN IF left < room THEN left ELSE room
CacheChunk(d) == [j \in 1 .. Chunk |-> d.cache[(Pos % block_size) + j - 1]]
LastChunk == call.progress + Chunk = call.count

reverse_uninstall_data(l) == [j \in 1 .. Len(l) |-> l[Len(l) + 1 - j]]

StartOf(mode) == [pc |-> "undo", mode |-> mode, ok |-> FALSE, i |-> 1,
                  retry |-> FALSE, bad |-> FALSE]

\* Mutant of BeginUndo: the log is replayed in the order it was written.
BeginUndoForward(d, entries, mode) ==
  dev' = DropCache(d) /\ log' = reverse_uninstall_data(entries) /\ run' = StartOf(mode)

\* uninstall: it forgets the cache and replays the entries from the first on.
BeginUndo(d, entries, mode) ==
  dev' = DropCache(d) /\ log' = entries /\ run' = StartOf(mode)

\* goto cleanup with EXIT_FAILURE: the log is reversed and replayed.
InstallFails(d, cells) ==
  /\ BeginUndo(d, reverse_uninstall_data(log), "install")
  /\ call' = NoCall /\ torn' = cells
  /\ UNCHANGED <<buf, todo, uninstall_file>>

\* A call of stdio or malloc failed, unless ok.
Count(ok) == faults' = faults + IF ok THEN 0 ELSE 1

LogFull == Len(log) >= UNINSTALL_DATA_MAX

StartCall ==
  /\ run.pc = "install" /\ Idle /\ todo # <<>>
  /\ \/ /\ Head(todo).kind = "write" /\ LogFull
        /\ InstallFails(dev, {}) /\ UNCHANGED faults
     \/ /\ Head(todo).kind = "write" /\ ~LogFull
        /\ faults < MaxFaults /\ Count(FALSE)                       \* malloc
        /\ InstallFails(dev, {})
     \/ /\ Head(todo).kind = "write" => ~LogFull
        /\ LET c == Head(todo)
           IN call' = [loc |-> c.loc, count |-> c.count, progress |-> 0, got |-> <<>>,
                       name |-> c.name,
                       phase |-> IF c.kind = "read" THEN "read" ELSE "save",
                       data |-> IF c.kind = "write" /\ c.data = <<>>
                                THEN buf[c.name] ELSE c.data]
        /\ UNCHANGED <<dev, buf, todo, log, run, uninstall_file, faults, torn>>
  /\ UNCHANGED plan

\* _device_read, for bios_install or to save what a write is to replace.
ReadChunk ==
  /\ call.phase \in {"read", "save"}
  /\ \E o \in device_cache_block(dev, Pos \div block_size) :
       /\ Count(o.ok)
       /\ \/ ~o.ok /\ InstallFails(o.dev, {})
          \/ /\ o.ok /\ dev' = o.dev
             /\ LET got == call.got \o CacheChunk(o.dev)
                    done == LastChunk /\ call.phase = "read"
                IN /\ call' = IF done THEN NoCall ELSE
                       [call EXCEPT !.got = got,
                          !.progress = IF LastChunk THEN 0 ELSE @ + Chunk,
                          !.phase = IF LastChunk THEN "write" ELSE @]
                   /\ buf' = IF done THEN [buf EXCEPT ![call.name] = got] ELSE buf
                   /\ todo' = IF done THEN Tail(todo) ELSE todo
             /\ UNCHANGED <<log, run, uninstall_file, torn>>
  /\ UNCHANGED plan

Written(d) ==
  [d EXCEPT !.dirty = TRUE,
    !.cache = [o \in DOMAIN @ |-> IF o - (Pos % block_size) \in 0 .. Chunk - 1
                                  THEN call.data[call.progress + o - (Pos % block_size) + 1]
                                  ELSE @[o]]]

\* Mutant of EntryDone: the replay stays at the entry.
EntryDoneStays == run' = [run EXCEPT !.retry = FALSE]

EntryDone == run' = [run EXCEPT !.i = @ + 1, !.retry = FALSE]

\* The loop of _device_write. In an install the log entry counts only when the
\* last chunk is in the cache.
WriteChunk ==
  /\ call.phase = "write"
  /\ \E o \in device_cache_block(dev, Pos \div block_size) :
       /\ Count(o.ok)
       /\ \/ ~o.ok /\ run.pc = "install" /\ InstallFails(o.dev, CallCells(call))
          \/ /\ ~o.ok /\ run.pc = "undo"
             /\ dev' = o.dev /\ call' = NoCall
             /\ \/ run.retry /\ run' = [run EXCEPT !.i = @ + 1, !.retry = FALSE, !.bad = TRUE]
                \/ ~run.retry /\ run' = [run EXCEPT !.pc = "recover"]
             /\ UNCHANGED <<buf, todo, log, uninstall_file, torn>>
          \/ /\ o.ok /\ dev' = Written(o.dev)
             /\ \/ ~LastChunk /\ call' = [call EXCEPT !.progress = @ + Chunk]
                              /\ UNCHANGED <<todo, log, run>>
                \/ /\ LastChunk /\ run.pc = "install" /\ call' = NoCall
                   /\ log' = Append(log, [loc |-> call.loc, data |-> call.got])
                   /\ todo' = Tail(todo) /\ UNCHANGED run
                \/ LastChunk /\ run.pc = "undo" /\ call' = NoCall /\ EntryDone
                             /\ UNCHANGED <<todo, log>>
             /\ UNCHANGED <<buf, uninstall_file, torn>>
  /\ UNCHANGED plan
-----------------------------------------------------------------------------
\* A failure to store the log is not reported.
store_uninstall_data ==
  \/ uninstall_file' = reverse_uninstall_data(log) /\ UNCHANGED faults
  \/ faults < MaxFaults /\ Count(FALSE) /\ UNCHANGED uninstall_file

\* Flush, success, and the uninstall data file if one is named.
FinishInstall ==
  /\ run.pc = "install" /\ Idle /\ todo = <<>>
  /\ \E o \in device_flush_cache(dev) :
       \/ ~o.ok /\ Count(FALSE) /\ InstallFails(o.dev, {})
       \/ /\ o.ok /\ dev' = o.dev
          /\ run' = [run EXCEPT !.pc = "exit", !.ok = TRUE]
          /\ store_uninstall_data \/ UNCHANGED <<uninstall_file, faults>>
          /\ UNCHANGED <<buf, todo, call, log, torn>>
  /\ UNCHANGED plan

UndoEntry ==
  /\ run.pc = "undo" /\ Idle /\ run.i <= Len(log)
  /\ call' = [loc |-> log[run.i].loc, count |-> Len(log[run.i].data), progress |-> 0,
              got |-> <<>>, name |-> "none", phase |-> "write", data |-> log[run.i].data]
  /\ UNCHANGED <<dev, buf, todo, log, run, uninstall_file, faults, plan, torn>>

\* Between the first attempt at an entry and its retry.
Recover ==
  /\ run.pc = "recover"
  /\ \E o \in device_flush_cache(dev) :
       /\ Count(o.ok) /\ dev' = DropCache(o.dev)
       /\ run' = [run EXCEPT !.pc = "undo", !.retry = TRUE, !.bad = @ \/ ~o.ok]
  /\ UNCHANGED <<buf, todo, call, log, uninstall_file, plan, torn>>

EndUndo ==
  /\ run.pc = "undo" /\ Idle /\ run.i > Len(log)
  /\ \E o \in device_flush_cache(dev) :
       /\ Count(o.ok) /\ dev' = o.dev
       /\ LET bad == run.bad \/ ~o.ok
          IN run' = [run EXCEPT !.pc = "exit", !.bad = bad,
                                !.ok = run.mode = "uninstall" /\ ~bad]
  /\ UNCHANGED <<buf, todo, call, log, uninstall_file, plan, torn>>

\* A later process: --uninstall with the file the install left.
Uninstall ==
  /\ run.pc = "exit" /\ run.mode = "install" /\ run.ok /\ uninstall_file # NoFile
  /\ BeginUndo(dev, uninstall_file, "uninstall")
  /\ UNCHANGED <<buf, todo, call, uninstall_file, faults, plan, torn>>

\* device_init finds no block, or load_uninstall_data fails.
UninstallFails ==
  /\ run.pc = "exit" /\ run.mode = "install" /\ run.ok /\ uninstall_file # NoFile
  /\ faults < MaxFaults /\ Count(FALSE)
  /\ run' = [run EXCEPT !.mode = "uninstall", !.ok = FALSE]
  /\ UNCHANGED <<dev, buf, todo, call, log, uninstall_file, plan, torn>>
-----------------------------------------------------------------------------
NoBuffers(p) == [n \in {p[j].name : j \in DOMAIN p} |-> <<>>]

DeviceInit ==
  /\ plan \in Plans /\ todo = plan
  /\ dev = LET d == [disk |-> Original]
           IN [disk |-> Original, cache |-> Block(d, 0), cached_block |-> 0, dirty |-> FALSE]
  /\ buf = NoBuffers(plan)
  /\ call = NoCall /\ log = <<>> /\ uninstall_file = NoFile
  /\ run = [StartOf("install") EXCEPT !.pc = "install"]
  /\ faults = 0 /\ torn = {}

DeviceNext ==
  \/ StartCall \/ ReadChunk \/ WriteChunk \/ FinishInstall
  \/ UndoEntry \/ Recover \/ EndUndo \/ Uninstall \/ UninstallFails

DeviceSpec == DeviceInit /\ [][DeviceNext]_device_vars /\ WF_device_vars(DeviceNext)
-----------------------------------------------------------------------------
\* What the first calls of a plan make of a device and of the buffers, one whole call
\* at a time.
Effect(s, c) ==
  IF c.kind = "read"
  THEN [s EXCEPT !.buf[c.name] = [j \in 1 .. c.count |-> s.disk[c.loc + j - 1]]]
  ELSE LET data == IF c.data = <<>> THEN s.buf[c.name] ELSE c.data
       IN [s EXCEPT !.disk = [x \in Cells |-> IF x \in CallCells(c)
                                             THEN data[x - c.loc + 1] ELSE @[x]]]
After(p) ==
  LET state[j \in 0 .. Len(p)] ==
        IF j = 0 THEN [disk |-> Original, buf |-> NoBuffers(p)] ELSE Effect(state[j - 1], p[j])
  IN state

Exit(mode, ok) == run.pc = "exit" /\ run.mode = mode /\ run.ok = ok
Undone == \/ Exit("install", FALSE) /\ ~run.bad
          \/ Exit("uninstall", TRUE)

\* An install that returns EXIT_SUCCESS (limine.c:1217) has put exactly the
\* planned bytes on the device, though every one of them went through the cache.
InstalledWhole == Exit("install", TRUE) => dev.disk = After(plan)[Len(plan)].disk

\* When uninstall reports no error (limine.c:524-574), after a failed install or
\* in a later --uninstall, the device holds its original bytes, whichever calls
\* failed and were retried; excepted are the bytes of a device_write that failed
\* half way, which never enters the log.
UndoRestores == Undone => \A c \in Cells \ torn : dev.disk[c] = Original[c]

\* Bytes that the plan does not write keep their value through every failure,
\* although whole blocks are read, modified and written back.
OthersKept ==
  \A c \in Cells : (\A j \in DOMAIN plan : plan[j].kind = "write" => c \notin CallCells(plan[j]))
                     => dev.disk[c] = Original[c]
=============================================================================
