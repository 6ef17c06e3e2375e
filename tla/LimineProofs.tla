---------------------------- MODULE LimineProofs ----------------------------
(***************************************************************************)
(* Proofs about limine-binary/limine.c: what an undoing restores, what an  *)
(* install that succeeds has written, and what enroll_config changes.      *)
(***************************************************************************)
EXTENDS EnrollConfig, LimineCache, WellFoundedInduction

\* The loop of _device_write.
LEMMA WriteKeeps == ASSUME UndoInv, WriteChunk PROVE UndoInv'
<1>1. call.phase = "write" /\ plan' = plan /\ run.pc \in {"install", "undo"} /\ Working(call) /\ Types
  BY DEF WriteChunk, UndoInv, Types, Runs, Idle
<1> DEFINE b == Pos \div block_size
<1>2. b \in 0 .. NBlocks - 1 /\ dev \in Devices
  BY <1>1, ChunkIs, CellBlock DEF Types
<1>3. PICK o \in device_cache_block(dev, b) :
       \/ ~o.ok /\ run.pc = "install" /\ InstallFails(o.dev, CallCells(call))
       \/ /\ ~o.ok /\ run.pc = "undo"
          /\ dev' = o.dev /\ call' = NoCall
          /\ \/ run.retry /\ run' = [run EXCEPT !.i = @ + 1, !.retry = FALSE, !.bad = TRUE]
             \/ ~run.retry /\ run' = [run EXCEPT !.pc = "recover"]
          /\ UNCHANGED <<buf, todo, log, uninstall_file, torn>>
       \/ /\ o.ok /\ dev' = Written(o.dev)
          /\ \/ ~LastChunk /\ call' = [call EXCEPT !.progress = @ + Chunk]
                           /\ UNCHANGED <<todo, log, run>>
             \/ /\ LastChunk /\ run.pc = "install" /\ call' = NoCall
                /\ log' = Append(log, [loc |-> call.loc, data |-> call.got])
                /\ todo' = Tail(todo) /\ UNCHANGED run
             \/ LastChunk /\ run.pc = "undo" /\ call' = NoCall /\ EntryDone
                          /\ UNCHANGED <<todo, log>>
          /\ UNCHANGED <<buf, uninstall_file, torn>>
  BY Zenon DEF WriteChunk
<1>4. /\ Outcome(o)
      /\ \A x \in Cells : Truth(o.dev, x) = Truth(dev, x) /\ o.dev.disk[x] \in {dev.disk[x], Truth(dev, x)}
      /\ o.ok => o.dev.cached_block = b /\ (Coherent(dev) => Coherent(o.dev))
  BY <1>2, Cached
<1>5. o.dev \in Devices
  BY <1>4 DEF Outcome
<1>6. CASE run.pc = "install"
  <2>1. Installing /\ InPlan /\ Coherent(dev) /\ OldestFirst(log)
    BY <1>6, SMTT(30) DEF UndoInv, Installing
  <2>2. CASE ~o.ok /\ InstallFails(o.dev, CallCells(call))
    <3>1. \A x \in Cells \ CallCells(call) : ~Covered(log, x) => o.dev.disk[x] = Original[x]
      BY <1>4, <1>6, <2>1 DEF Installing
    <3>2. CallCells(call) \in SUBSET Cells
      BY <1>1 DEF Working
    <3>3. Types' /\ Installing' /\ Installed' /\ Undoing' /\ UndoRestores'
      BY <1>1, <1>5, <2>1, <2>2, <3>1, <3>2, FailingUndoes, SMTT(30)
    <3>4. UNCHANGED <<buf, todo, plan>> /\ call' = NoCall
      BY <1>1, <2>2 DEF InstallFails
    <3>5. InPlan'
      BY <2>1, <3>4, NoCallIs, SamePlan, SMTT(30)
    <3>6. QED
      BY <3>3, <3>5 DEF UndoInv
  <2>3. CASE o.ok
    BY <1>1, <1>3, <1>4, <1>5, <1>6, <2>1, <2>3, InstallWriteKeeps, SMTT(30)
  <2>4. QED
    BY <1>3, <1>6, <2>2, <2>3
<1>7. CASE run.pc = "undo"
  <2>1. ~run.bad => Coherent(dev)
    BY <1>7 DEF UndoInv, Undoing
  <2>2. CASE o.ok
    BY <1>1, <1>3, <1>4, <1>5, <1>7, <2>1, <2>2, ReplayWriteKeeps, SMTT(30)
  <2>3. CASE ~o.ok
    BY <1>1, <1>3, <1>4, <1>5, <1>7, <2>3, ReplayFailKeeps, SMTT(30)
  <2>4. QED
    BY <2>2, <2>3, SMTT(30)
<1>8. QED
  BY <1>1, <1>6, <1>7

\* The install is done, and its log may be stored.
LEMMA FinishKeeps == ASSUME UndoInv, FinishInstall PROVE UndoInv'
<1>1. run.pc = "install" /\ call.phase = "none" /\ todo = <<>> /\ plan' = plan /\ run \in Runs
  BY DEF FinishInstall, Idle, UndoInv, Types
<1>2. /\ Types /\ InPlan /\ dev \in Devices /\ Coherent(dev) /\ OldestFirst(log)
      /\ \A x \in Cells : ~Covered(log, x) => dev.disk[x] = Original[x] /\ Truth(dev, x) = Original[x]
  BY <1>1, InstallIs
<1>3. PICK o \in device_flush_cache(dev) :
        \/ ~o.ok /\ Count(FALSE) /\ InstallFails(o.dev, {})
        \/ /\ o.ok /\ dev' = o.dev
           /\ run' = [run EXCEPT !.pc = "exit", !.ok = TRUE]
           /\ store_uninstall_data \/ UNCHANGED <<uninstall_file, faults>>
           /\ UNCHANGED <<buf, todo, call, log, torn>>
  BY Zenon DEF FinishInstall
<1>4. /\ Outcome(o)
      /\ \A x \in Cells : Truth(o.dev, x) = Truth(dev, x) /\ o.dev.disk[x] \in {dev.disk[x], Truth(dev, x)}
  BY <1>2, Flushed
<1>5. \A x \in Cells : ~Covered(log, x) => o.dev.disk[x] = Original[x]
  BY <1>2, <1>4
<1>6. CASE ~o.ok /\ InstallFails(o.dev, {})
  <2>1. Types' /\ Installing' /\ Installed' /\ Undoing' /\ UndoRestores'
    BY <1>1, <1>2, <1>4, <1>5, <1>6, FailingUndoes DEF Outcome
  <2>2. UNCHANGED <<buf, todo, plan>> /\ call' = NoCall
    BY <1>1, <1>6 DEF InstallFails
  <2>3. InPlan'
    BY <1>2, <2>2, NoCallIs, SamePlan
  <2>4. QED
    BY <2>1, <2>3 DEF UndoInv
<1>7. CASE o.ok
  <2>1. /\ dev' = o.dev /\ dev' \in Devices /\ run' = [run EXCEPT !.pc = "exit", !.ok = TRUE]
        /\ UNCHANGED <<buf, todo, call, log, torn>>
    BY <1>3, <1>4, <1>7 DEF Outcome
  <2>2. run' \in Runs /\ run'.pc = "exit" /\ run'.ok = TRUE /\ run'.mode = run.mode
    BY <1>1, <2>1, Zenon DEF Runs
  <2>3. uninstall_file' \in {NoFile, reverse_uninstall_data(log)}
    BY <1>1, <1>2, <1>3, <1>7, Zenon DEF store_uninstall_data, Types
  <2>4. /\ LogOk(reverse_uninstall_data(log)) /\ OldestLast(reverse_uninstall_data(log))
        /\ \A x : Covered(reverse_uninstall_data(log), x) <=> Covered(log, x)
    BY <1>2, Reversed DEF Types
  <2>5. LogOk(uninstall_file') /\ torn = {}
    BY <1>1, <1>2, <2>3, <2>4 DEF Types
  <2>6. Types'
    BY <1>1, <1>2, <2>1, <2>2, <2>5 DEF Types, Idle
  <2>7. InPlan'
    BY <1>1, <1>2, <2>1, SamePlan
  <2>8. Installed'
    BY <1>5, <2>1, <2>3, <2>4, <2>5, SMTT(30) DEF Installed
  <2>9. Installing' /\ Undoing'
    BY <2>2 DEF Installing, Undoing
  <2>10. UndoRestores'
    <3>1. run.mode = "install"
      BY <1>1 DEF UndoInv, Types
    <3>2. QED
      BY <2>2, <3>1 DEF UndoRestores, Undone, Exit
  <2>11. QED
    BY <2>6, <2>7, <2>8, <2>9, <2>10 DEF UndoInv
<1>8. QED
  BY <1>3, <1>6, <1>7, Zenon

\* The replay takes up its next entry.
LEMMA UndoEntryKeeps == ASSUME UndoInv, UndoEntry PROVE UndoInv'
<1>1. /\ run.pc = "undo" /\ call.phase = "none" /\ run.i <= Len(log) /\ run \in Runs /\ LogOk(log)
      /\ Types /\ InPlan /\ Undoing
      /\ UNCHANGED <<dev, buf, todo, log, run, uninstall_file, faults, plan, torn>>
  BY DEF UndoEntry, Idle, UndoInv, Types
<1>2. run.i \in 1 .. Len(log) /\ log[run.i] \in Entries
  BY <1>1 DEF Runs, LogOk
<1> DEFINE e == log[run.i]
<1>3. /\ e.loc \in Nat /\ e.data \in Seq(Nat) /\ Len(e.data) \in Nat /\ Len(e.data) > 0
      /\ EntryCells(e) \subseteq Cells
  BY <1>1, <1>2, SMTT(30) DEF LogOk, Entries
<1>4. call' = [loc |-> e.loc, count |-> Len(e.data), progress |-> 0, got |-> <<>>, name |-> "none",
               phase |-> "write", data |-> e.data]
  BY DEF UndoEntry
<1>5. /\ call' \in Running /\ call'.loc = e.loc /\ call'.count = Len(e.data) /\ call'.progress = 0
      /\ call'.got = <<>> /\ call'.phase = "write" /\ call'.data = e.data
  <2>1. "none" \in AllNames
    BY DEF AllNames
  <2> HIDE DEF e
  <2>2. QED
    BY <1>3, <1>4, <2>1 DEF Running
<1>6. Working(call')
  BY <1>3, <1>5 DEF Working, CallCells, EntryCells
<1>7. Types'
  BY <1>1, <1>5, <1>6 DEF Types, Idle
<1>8. InPlan'
  BY <1>1, SamePlan, SMTT(30)
<1>9. Undoing'
  <2>1. call'.loc .. call'.loc + call'.progress - 1 = {}
    BY <1>3, <1>5, SMTT(30)
  <2>2. QED
    BY <1>1, <1>5, <2>1, SMTT(30) DEF Undoing
<1>10. Installing' /\ Installed' /\ UndoRestores'
  BY <1>1 DEF Installing, Installed, UndoRestores, Undone, Exit
<1>11. QED
  BY <1>7, <1>8, <1>9, <1>10 DEF UndoInv

\* The flush before a second attempt puts the truth on the disk, or is reported.
LEMMA RecoverKeeps == ASSUME UndoInv, Recover PROVE UndoInv'
<1>1. /\ run.pc = "recover" /\ call.phase = "none" /\ run \in Runs /\ Types /\ InPlan /\ Undoing
      /\ UNCHANGED <<buf, todo, call, log, uninstall_file, plan, torn>> /\ dev \in Devices
  BY SMTT(30) DEF Recover, Idle, UndoInv, Types
<1>2. PICK o \in device_flush_cache(dev) :
        /\ dev' = DropCache(o.dev)
        /\ run' = [run EXCEPT !.pc = "undo", !.retry = TRUE, !.bad = @ \/ ~o.ok]
  BY Zenon DEF Recover
<1>3. /\ Outcome(o) /\ o.dev \in Devices /\ o.ok \in BOOLEAN
      /\ o.ok => \A x \in Cells : o.dev.disk[x] = Truth(dev, x)
  BY <1>1, Flushed DEF Outcome
<1>4. /\ dev' \in Devices /\ Coherent(dev') /\ \A x \in Cells : Truth(dev', x) = o.dev.disk[x]
  BY <1>2, <1>3, Dropped
<1>5. /\ run' \in Runs /\ run'.pc = "undo" /\ run'.i = run.i /\ run'.bad = (run.bad \/ ~o.ok)
  <2> DEFINE worse == run.bad \/ ~o.ok
  <2>1. worse \in BOOLEAN /\ run' = [run EXCEPT !.pc = "undo", !.retry = TRUE, !.bad = worse]
    BY <1>2
  <2> HIDE DEF worse
  <2>2. run' \in Runs /\ run'.pc = "undo" /\ run'.i = run.i /\ run'.bad = worse
    BY <1>1, <2>1, Zenon DEF Runs
  <2>3. QED
    BY <2>2 DEF worse
<1>6. Types'
  BY <1>1, <1>4, <1>5 DEF Types, Idle
<1>7. InPlan'
  BY <1>1, <1>5, SamePlan, Zenon
<1>8. Undoing'
  <2>1. ASSUME ~run'.bad PROVE o.ok /\ ~run.bad
    BY <1>3, <1>5, <2>1, ZenonT(30)
  <2>2. QED
    BY <1>1, <1>3, <1>4, <1>5, <2>1 DEF Undoing
<1>9. Installing' /\ Installed' /\ UndoRestores'
  BY <1>5 DEF Installing, Installed, UndoRestores, Undone, Exit
<1>10. QED
  BY <1>6, <1>7, <1>8, <1>9 DEF UndoInv

\* The last flush of the replay.
LEMMA EndUndoKeeps == ASSUME UndoInv, EndUndo PROVE UndoInv'
<1>1. /\ run.pc = "undo" /\ call.phase = "none" /\ run.i > Len(log) /\ run \in Runs /\ Types /\ InPlan
      /\ Undoing /\ UNCHANGED <<buf, todo, call, log, uninstall_file, plan, torn>> /\ dev \in Devices
      /\ LogOk(log)
  BY DEF EndUndo, Idle, UndoInv, Types
<1>2. PICK o \in device_flush_cache(dev) :
        /\ dev' = o.dev
        /\ run' = [run EXCEPT !.pc = "exit", !.bad = run.bad \/ ~o.ok,
                              !.ok = run.mode = "uninstall" /\ ~(run.bad \/ ~o.ok)]
  BY Zenon DEF EndUndo
<1>3. /\ Outcome(o) /\ o.dev \in Devices /\ o.ok \in BOOLEAN
      /\ o.ok => \A x \in Cells : o.dev.disk[x] = Truth(dev, x)
  BY <1>1, Flushed DEF Outcome
<1> DEFINE worse == run.bad \/ ~o.ok
           good == run.mode = "uninstall" /\ ~worse
<1>4. /\ run' \in Runs /\ run'.pc = "exit" /\ run'.bad = worse /\ run'.ok = good /\ run'.mode = run.mode
  <2>1. worse \in BOOLEAN /\ good \in BOOLEAN /\ run' = [run EXCEPT !.pc = "exit", !.bad = worse, !.ok = good]
    BY <1>2
  <2> HIDE DEF worse, good
  <2>2. QED
    BY <1>1, <2>1, Zenon DEF Runs
<1>5. Types'
  BY <1>1, <1>2, <1>3, <1>4, SMTT(30) DEF Types, Idle
<1>6. InPlan'
  BY <1>1, <1>4, SamePlan, SMTT(30)
<1>7. Undoing' /\ Installing' /\ Installed'
  <2>1. run'.mode = "install" => ~run'.ok
    BY <1>4, Zenon
  <2>2. QED
    BY <1>4, <2>1 DEF Undoing, Installing, Installed
<1>8. UndoRestores'
  <2>1. ASSUME Undone' PROVE o.ok /\ ~run.bad
    BY <1>3, <1>4, <2>1, ZenonT(30) DEF Undone, Exit
  <2>2. ASSUME NEW x \in Cells \ torn, ~run.bad PROVE Truth(dev, x) = Original[x]
    <3>1. run.i .. Len(log) = {}
      BY <1>1 DEF Runs, LogOk
    <3>2. QED
      BY <1>1, <2>2, <3>1 DEF Undoing
  <2>3. QED
    BY <1>1, <1>2, <1>3, <2>1, <2>2 DEF UndoRestores
<1>9. QED
  BY <1>5, <1>6, <1>7, <1>8 DEF UndoInv

\* A later --uninstall with the file of the install.
LEMMA UninstallKeeps == ASSUME UndoInv, Uninstall \/ UninstallFails PROVE UndoInv'
<1>1. /\ run.pc = "exit" /\ run.mode = "install" /\ run.ok /\ uninstall_file # NoFile
      /\ call.phase = "none" /\ run \in Runs /\ Types /\ InPlan /\ Installed
      /\ UNCHANGED <<buf, todo, call, uninstall_file, plan, torn>>
  BY Zenon DEF Uninstall, UninstallFails, UndoInv, Types, Idle
<1>2. CASE Uninstall
  <2>1. /\ BeginUndo(dev, uninstall_file, "uninstall") /\ dev \in Devices /\ torn' \subseteq Cells
        /\ plan' \in Plans /\ LogOk(uninstall_file) /\ LogOk(uninstall_file') /\ OldestLast(uninstall_file)
        /\ \A x \in Cells \ torn' : ~Covered(uninstall_file, x) => dev.disk[x] = Original[x]
    BY <1>1, <1>2 DEF Uninstall, Types, Installed
  <2>2. call' \in Running /\ call'.phase = "none"
    BY <1>1 DEF Types
  <2>3. Types' /\ Installing' /\ Installed' /\ Undoing' /\ UndoRestores'
    BY <2>1, <2>2, ReplayBegins
  <2>4. InPlan'
    BY <1>1, SamePlan
  <2>5. QED
    BY <2>3, <2>4 DEF UndoInv
<1>3. CASE UninstallFails
  <2>1. run' \in Runs /\ run'.pc = "exit" /\ run'.mode = "uninstall" /\ run'.ok = FALSE /\ UNCHANGED <<dev, log>>
    BY <1>1, <1>3, ZenonT(30) DEF UninstallFails, Runs
  <2>2. Types'
    BY <1>1, <2>1 DEF Types, Idle
  <2>3. InPlan'
    BY <1>1, SamePlan
  <2>4. Installing' /\ Installed' /\ Undoing' /\ UndoRestores'
    BY <2>1 DEF Installing, Installed, Undoing, UndoRestores, Undone, Exit
  <2>5. QED
    BY <2>2, <2>3, <2>4 DEF UndoInv
<1>4. QED
  BY <1>2, <1>3

\* Every step keeps the invariant, with any number of failing calls in any place.
LEMMA DeviceStep == ASSUME UndoInv, [DeviceNext]_device_vars PROVE UndoInv'
<1>1. CASE UNCHANGED device_vars
  <2>1. UNCHANGED <<dev, buf, todo, call, log, run, uninstall_file, faults, plan, torn>>
    BY <1>1, Zenon DEF device_vars
  <2>2. Types' /\ Installing' /\ Installed' /\ Undoing' /\ UndoRestores'
    BY <2>1, SMTT(30) DEF UndoInv, Types, Installing, Installed, Undoing, UndoRestores, Undone, Exit, Idle
  <2>3. Done' = Done /\ Names' = Names /\ DataOf(todo[1])' = DataOf(todo[1])
    BY <2>1 DEF Done, Names, DataOf
  <2>4. InPlan'
    BY <2>1, <2>3 DEF UndoInv, InPlan, Idle
  <2>5. QED
    BY <2>2, <2>4 DEF UndoInv
<1>2. QED
  BY <1>1, StartKeeps, ReadKeeps, WriteKeeps, FinishKeeps, UndoEntryKeeps, RecoverKeeps,
     EndUndoKeeps, UninstallKeeps, SMTT(30) DEF DeviceNext

\* For every device, block size and plan, and for any calls of stdio that fail: when
\* uninstall reports no error, every byte is what it was, but for those of a device_write
\* that failed half way.
THEOREM UndoIsExact == DeviceSpec => []UndoRestores
<1>1. UndoInv => UndoRestores
  BY DEF UndoInv
<1>2. QED
  BY <1>1, DeviceStart, DeviceStep, PTL DEF DeviceSpec
-----------------------------------------------------------------------------
(***************************************************************************)
(* What an install has written.                                            *)
(***************************************************************************)
States == [disk : [Cells -> Nat], buf : [Names -> Seq(Nat)]]
Begin(p) == [disk |-> Original, buf |-> NoBuffers(p)]
IsAfter(p, f, N) == f = [j \in 0 .. N |-> IF j = 0 THEN Begin(p) ELSE Effect(f[j - 1], p[j])]

\* Whole calls have had their effect, and of the running write what is in the chunks so
\* far.
AsPlanned == run.pc = "install" =>
  /\ After(plan)[Done] \in States /\ buf = After(plan)[Done].buf
  /\ \A x \in Cells : Truth(dev, x) =
       IF call.phase = "write" /\ x \in call.loc .. call.loc + call.progress - 1
       THEN call.data[x - call.loc + 1] ELSE After(plan)[Done].disk[x]
  /\ call.phase = "read" => \A j \in 1 .. Len(call.got) :
       call.got[j] = After(plan)[Done].disk[call.loc + j - 1]

PlanInv == AsPlanned /\ InstalledWhole

\* A set of numbers has a least one.
LEMMA LeastNumber ==
  ASSUME NEW S \in SUBSET Nat, S # {}
  PROVE  \E x \in S : \A y \in S : x <= y
<1>1. PICK x \in S : \A y \in S : ~(<<y, x>> \in OpToRel(<, Nat))
  BY NatLessThanWellFounded, WFMin, Zenon
<1>2. ASSUME NEW y \in S PROVE x <= y
  <2>1. ~(y < x)
    BY <1>1, Zenon DEF OpToRel
  <2>2. QED
    BY <2>1
<1>3. QED
  BY <1>2

\* The effects of the calls of a plan, one after the other, exist.
LEMMA AfterExists ==
  ASSUME NEW p, NEW N \in Nat
  PROVE  \E f : IsAfter(p, f, N)
<1> DEFINE Bad == {m \in Nat : ~\E f : IsAfter(p, f, m)}
<1> SUFFICES ASSUME Bad # {} PROVE FALSE
  BY Zenon
<1>1. PICK m \in Bad : \A l \in Bad : m <= l
  <2>1. Bad \in SUBSET Nat
    OBVIOUS
  <2> HIDE DEF Bad
  <2> QED
    BY <2>1, LeastNumber
<1>2. m \in Nat /\ ~\E f : IsAfter(p, f, m)
  OBVIOUS
<1>3. m # 0
  <2> DEFINE f == [l \in 0 .. 0 |-> Begin(p)]
  <2>1. IsAfter(p, f, 0)
    BY DEF IsAfter
  <2>2. QED
    BY <1>2, <2>1
<1>4. m - 1 \in Nat /\ m - 1 \notin Bad
  <2>1. m - 1 \in Nat /\ ~(m <= m - 1)
    BY <1>2, <1>3
  <2>2. QED
    BY <1>1, <2>1, Zenon
<1>5. PICK g : IsAfter(p, g, m - 1)
  BY <1>4
<1> DEFINE f == [l \in 0 .. m |-> IF l = m THEN Effect(g[m - 1], p[m]) ELSE g[l]]
<1>6. \A l \in 0 .. m - 1 : f[l] = g[l]
  BY <1>2
<1>7. f[m] = Effect(g[m - 1], p[m]) /\ f = [l \in 0 .. m |-> f[l]]
  BY <1>2
<1> HIDE DEF f
<1>8. ASSUME NEW l \in 0 .. m PROVE f[l] = IF l = 0 THEN Begin(p) ELSE Effect(f[l - 1], p[l])
  <2>1. CASE l = m
    <3>1. m - 1 \in 0 .. m - 1 /\ l # 0
      BY <1>2, <1>3, <2>1
    <3>2. f[m - 1] = g[m - 1]
      BY <1>6, <3>1
    <3>3. QED
      BY <1>7, <2>1, <3>1, <3>2, Zenon
  <2>2. CASE l # m
    <3>1. l \in 0 .. m - 1 /\ (l # 0 => l - 1 \in 0 .. m - 1)
      BY <1>2, <2>2
    <3>2. g[l] = IF l = 0 THEN Begin(p) ELSE Effect(g[l - 1], p[l])
      BY <1>5, <3>1, Zenon DEF IsAfter
    <3>3. f[l] = g[l] /\ (l # 0 => f[l - 1] = g[l - 1])
      BY <1>6, <3>1
    <3>4. QED
      BY <3>2, <3>3, Zenon
  <2>3. QED
    BY <2>1, <2>2
<1>9. IsAfter(p, f, m)
  BY <1>7, <1>8, Zenon DEF IsAfter
<1>10. QED
  BY <1>2, <1>9

\* After is what its definition says.
LEMMA AfterIs ==
  ASSUME NEW p, Len(p) \in Nat
  PROVE  /\ After(p)[0] = Begin(p)
         /\ \A j \in 1 .. Len(p) : After(p)[j] = Effect(After(p)[j - 1], p[j])
<1> DEFINE F(f) == [j \in 0 .. Len(p) |->
                      IF j = 0 THEN [disk |-> Original, buf |-> NoBuffers(p)] ELSE Effect(f[j - 1], p[j])]
<1>1. PICK g : g = F(g)
  <2>1. PICK g : IsAfter(p, g, Len(p))
    BY AfterExists
  <2>2. g = F(g)
    BY <2>1, Zenon DEF IsAfter, Begin
  <2>3. QED
    BY <2>2, Zenon
<1>2. After(p) = CHOOSE f : f = F(f)
  BY Zenon DEF After
<1>3. After(p) = F(After(p))
  BY <1>1, <1>2, Zenon
<1>4. IsAfter(p, After(p), Len(p))
  BY <1>3, Zenon DEF IsAfter, Begin
<1>5. \A j \in 0 .. Len(p) : After(p)[j] = IF j = 0 THEN Begin(p) ELSE Effect(After(p)[j - 1], p[j])
  BY <1>4, Zenon DEF IsAfter
<1>6. 0 \in 0 .. Len(p) /\ \A j \in 1 .. Len(p) : j \in 0 .. Len(p) /\ j # 0
  OBVIOUS
<1>7. QED
  BY <1>5, <1>6, Zenon

\* A call that reads.
LEMMA ReadEffect ==
  ASSUME NEW s \in States, NEW c \in Calls, c.kind = "read", CallCells(c) \subseteq Cells, c.name \in Names
  PROVE  /\ Effect(s, c) \in States /\ Effect(s, c).disk = s.disk
         /\ Effect(s, c).buf = [s.buf EXCEPT ![c.name] = [j \in 1 .. c.count |-> s.disk[c.loc + j - 1]]]
<1> DEFINE v == [j \in 1 .. c.count |-> s.disk[c.loc + j - 1]]
           w == [s.buf EXCEPT ![c.name] = v]
<1>1. c.loc \in Nat /\ c.count \in Nat /\ s.disk \in [Cells -> Nat] /\ s.buf \in [Names -> Seq(Nat)]
  BY DEF Calls, States
<1>2. ASSUME NEW j \in 1 .. c.count PROVE c.loc + j - 1 \in Cells
  <2>1. c.loc + j - 1 \in CallCells(c)
    BY <1>1 DEF CallCells
  <2>2. QED
    BY <2>1
<1>3. v \in Seq(Nat)
  <2>1. \A j \in 1 .. c.count : s.disk[c.loc + j - 1] \in Nat
    BY <1>1, <1>2
  <2>2. v \in [1 .. c.count -> Nat]
    BY <2>1
  <2> HIDE DEF v
  <2>3. QED
    BY <1>1, <2>2, Sequence, Zenon
<1>4. Effect(s, c) = [s EXCEPT !.buf = w]
  BY DEF Effect
<1> HIDE DEF v
<1>5. w \in [Names -> Seq(Nat)]
  BY <1>1, <1>3
<1> HIDE DEF w
<1>6. /\ Effect(s, c) \in States /\ Effect(s, c).disk = s.disk /\ Effect(s, c).buf = w
  BY <1>4, <1>5, Zenon DEF States
<1>7. QED
  BY <1>6 DEF v, w

\* A call that writes.
LEMMA WriteEffect ==
  ASSUME NEW s \in States, NEW c \in Calls, c.kind = "write", NEW data \in Seq(Nat), Len(data) = c.count,
         data = IF c.data = <<>> THEN s.buf[c.name] ELSE c.data
  PROVE  /\ Effect(s, c) \in States /\ Effect(s, c).buf = s.buf
         /\ \A x \in Cells : Effect(s, c).disk[x] = IF x \in CallCells(c) THEN data[x - c.loc + 1] ELSE s.disk[x]
<1> DEFINE w == [x \in Cells |-> IF x \in CallCells(c) THEN data[x - c.loc + 1] ELSE s.disk[x]]
<1>1. c.loc \in Nat /\ c.count \in Nat /\ s.disk \in [Cells -> Nat] /\ s.buf \in [Names -> Seq(Nat)]
  BY DEF Calls, States
<1>2. ASSUME NEW x \in CallCells(c) PROVE data[x - c.loc + 1] \in Nat
  <2>1. x - c.loc + 1 \in 1 .. Len(data)
    BY <1>1, SMTT(30) DEF CallCells
  <2>2. QED
    BY <2>1, SMTT(30)
<1>3. w \in [Cells -> Nat]
  BY <1>1, <1>2
<1>4. Effect(s, c) = [s EXCEPT !.disk = w]
  BY DEF Effect
<1> HIDE DEF w
<1>5. /\ Effect(s, c) \in States /\ Effect(s, c).disk = w /\ Effect(s, c).buf = s.buf
  BY <1>3, <1>4, Zenon DEF States
<1>6. QED
  BY <1>5 DEF w

\* Where the plan begins.
LEMMA PlanStart == ASSUME DeviceInit PROVE PlanInv
<1>1. UndoInv
  BY DeviceStart
<1>2. Len(plan) \in Nat /\ buf = NoBuffers(plan) /\ buf \in [Names -> Seq(Nat)] /\ run.pc = "install"
      /\ call.phase = "none" /\ Done = 0
  <2>1. Len(plan) \in Nat /\ todo = plan
    BY <1>1, PlanIs DEF UndoInv, DeviceInit
  <2>2. run.pc = "install"
    BY DEF DeviceInit, StartOf
  <2>3. QED
    BY <1>1, <2>1, <2>2 DEF DeviceInit, UndoInv, InPlan, Done, NoCall
<1>3. After(plan)[Done] = Begin(plan)
  BY <1>2, AfterIs, Zenon
<1>4. Begin(plan) \in States /\ Begin(plan).disk = Original /\ Begin(plan).buf = buf
  BY <1>2, Sizes DEF Begin, States
<1>5. \A x \in Cells : Truth(dev, x) = Original[x]
  BY DEF DeviceInit, Truth
<1>6. QED
  BY <1>2, <1>3, <1>4, <1>5, SMTT(30) DEF PlanInv, AsPlanned, InstalledWhole, Exit

\* An install that fails, and all that comes behind it.
LEMMA PlanLeft ==
  ASSUME run'.pc # "install", run'.pc = "exit" => ~(run'.mode = "install" /\ run'.ok = TRUE)
  PROVE  PlanInv'
BY Zenon DEF PlanInv, AsPlanned, InstalledWhole, Exit

\* What a call finds that is running.
LEMMA RunningCall ==
  ASSUME UndoInv, PlanInv, run.pc = "install", ~Idle
  PROVE  /\ Types /\ InPlan /\ Working(call) /\ todo # <<>> /\ todo[1] \in Calls /\ Len(plan) \in Nat
         /\ Done \in Nat /\ Done + 1 \in 1 .. Len(plan)
         /\ After(plan)[Done] \in States /\ buf = After(plan)[Done].buf
         /\ After(plan)[Done + 1] = Effect(After(plan)[Done], todo[1])
         /\ call.loc = todo[1].loc /\ call.count = todo[1].count /\ call.name = todo[1].name
         /\ CallCells(call) = CallCells(todo[1]) /\ todo[1].name \in Names
         /\ call.data = DataOf(todo[1]) /\ (call.phase = "read" <=> todo[1].kind = "read")
<1>1. Types /\ InPlan /\ Working(call) /\ todo # <<>>
  BY DEF UndoInv, Types, InPlan
<1>2. /\ todo[1] \in Calls /\ Done \in Nat /\ Done + 1 \in 1 .. Len(plan) /\ todo[1] = plan[Done + 1]
      /\ todo[1].name \in Names /\ Len(plan) \in Nat
  BY <1>1, NextCall, PlanIs, SMTT(30)
<1>3. After(plan)[Done + 1] = Effect(After(plan)[Done], todo[1])
  <2>1. (Done + 1) - 1 = Done
    BY <1>2
  <2>2. QED
    BY <1>2, <2>1, AfterIs, ZenonT(30)
<1>4. After(plan)[Done] \in States /\ buf = After(plan)[Done].buf
  BY DEF PlanInv, AsPlanned
<1>5. /\ call.loc = todo[1].loc /\ call.count = todo[1].count /\ call.name = todo[1].name
      /\ call.data = DataOf(todo[1]) /\ (call.phase = "read" <=> todo[1].kind = "read")
  BY <1>1 DEF InPlan
<1>6. CallCells(call) = CallCells(todo[1])
  BY <1>5 DEF CallCells
<1>7. QED
  BY <1>1, <1>2, <1>3, <1>4, <1>5, <1>6, SMTT(30)

\* goto cleanup leaves the plan.
LEMMA FailingLeaves == ASSUME NEW d, NEW cells, InstallFails(d, cells) PROVE PlanInv'
<1>1. run'.pc = "undo"
  BY DEF InstallFails, BeginUndo, StartOf
<1>2. QED
  BY <1>1, PlanLeft

\* A call begins with nothing read or written.
LEMMA StartPlans == ASSUME UndoInv, PlanInv, StartCall PROVE PlanInv'
<1>1. CASE InstallFails(dev, {})
  BY <1>1, FailingLeaves, SMTT(30)
<1>2. CASE UNCHANGED <<dev, buf, todo, log, run, uninstall_file, faults, torn>>
           /\ call'.phase \in {"read", "save"} /\ call'.got = <<>>
  <2>1. run.pc = "install" /\ call.phase = "none" /\ plan' = plan
    BY DEF StartCall, Idle
  <2>2. Done' = Done /\ Names' = Names
    BY <1>2, <2>1 DEF Done, Names
  <2>3. States' = States
    BY <2>2, Zenon DEF States
  <2>4. AsPlanned'
    BY <1>2, <2>1, <2>2, <2>3, SMTT(30) DEF PlanInv, AsPlanned
  <2>5. QED
    BY <1>2, <2>1, <2>4, Zenon DEF PlanInv, InstalledWhole, Exit
<1>3. ASSUME ~InstallFails(dev, {})
      PROVE  UNCHANGED <<dev, buf, todo, log, run, uninstall_file, faults, torn>>
             /\ call'.phase \in {"read", "save"} /\ call'.got = <<>>
  <2> DEFINE c == Head(todo)
  <2>1. /\ UNCHANGED <<dev, buf, todo, log, run, uninstall_file, faults, torn>>
        /\ call' = [loc |-> c.loc, count |-> c.count, progress |-> 0, got |-> <<>>, name |-> c.name,
                    phase |-> IF c.kind = "read" THEN "read" ELSE "save",
                    data |-> IF c.kind = "write" /\ c.data = <<>> THEN buf[c.name] ELSE c.data]
    BY <1>3, Zenon DEF StartCall
  <2>2. QED
    BY <2>1
<1>4. QED
  BY <1>1, <1>2, <1>3

\* A chunk that is read is what the plan's calls so far have left.
LEMMA ReadPlans == ASSUME UndoInv, PlanInv, ReadChunk PROVE PlanInv'
<1>1. call.phase \in {"read", "save"} /\ plan' = plan /\ run.pc = "install" /\ ~Idle /\ Working(call)
  BY Zenon DEF ReadChunk, UndoInv, Types, Runs, Idle
<1> DEFINE b == Pos \div block_size
           s == After(plan)[Done]
           c == todo[1]
<1>2. /\ b \in 0 .. NBlocks - 1 /\ dev \in Devices /\ Coherent(dev) /\ Types /\ InPlan
      /\ Len(call.got) = call.progress
  BY <1>1, ChunkIs, CellBlock, SMTT(30) DEF UndoInv, Types, Installing
<1>3. /\ todo # <<>> /\ c \in Calls /\ Done \in Nat /\ Len(plan) \in Nat /\ s \in States /\ buf = s.buf
      /\ After(plan)[Done + 1] = Effect(s, c) /\ call.loc = c.loc /\ call.count = c.count /\ call.name = c.name
      /\ CallCells(call) = CallCells(c) /\ c.name \in Names
      /\ (call.phase = "read" <=> c.kind = "read")
  BY <1>1, RunningCall, ZenonT(30)
<1>4. \A x \in Cells : Truth(dev, x) = s.disk[x]
  BY <1>1 DEF PlanInv, AsPlanned
<1>5. call.phase = "read" => \A j \in 1 .. Len(call.got) : call.got[j] = s.disk[call.loc + j - 1]
  BY <1>1 DEF PlanInv, AsPlanned
<1> HIDE DEF s, c
<1>6. PICK o \in device_cache_block(dev, b) :
        \/ ~o.ok /\ InstallFails(o.dev, {})
        \/ /\ o.ok /\ dev' = o.dev
           /\ LET got == call.got \o CacheChunk(o.dev)
                  done == LastChunk /\ call.phase = "read"
              IN /\ call' = IF done THEN NoCall ELSE
                     [call EXCEPT !.got = got,
                        !.progress = IF LastChunk THEN 0 ELSE @ + Chunk,
                        !.phase = IF LastChunk THEN "write" ELSE @]
                 /\ buf' = IF done THEN [buf EXCEPT ![call.name] = got] ELSE buf
                 /\ todo' = IF done THEN Tail(todo) ELSE todo
           /\ UNCHANGED <<log, run, uninstall_file, torn>>
  BY Zenon DEF ReadChunk
<1>7. CASE ~o.ok /\ InstallFails(o.dev, {})
  BY <1>7, FailingLeaves
<1>8. CASE o.ok
  <2> DEFINE got == call.got \o CacheChunk(o.dev)
             done == LastChunk /\ call.phase = "read"
  <2>1. /\ o.dev \in Devices /\ Coherent(o.dev) /\ o.dev.cached_block = b
        /\ \A x \in Cells : Truth(o.dev, x) = s.disk[x]
    BY <1>2, <1>4, <1>8, Cached, SMTT(30) DEF Outcome
  <2>2. /\ got \in Seq(Nat) /\ Len(got) = call.progress + Chunk
        /\ \A j \in 1 .. Len(got) : got[j] = IF j <= call.progress THEN call.got[j]
                                             ELSE Truth(o.dev, call.loc + j - 1)
    BY <1>1, <1>2, <2>1, GotIs, Zenon
  <2>3. /\ dev' = o.dev /\ run' = run
        /\ done => call' = NoCall /\ buf' = [buf EXCEPT ![call.name] = got] /\ todo' = Tail(todo)
        /\ ~done => /\ call' = [call EXCEPT !.got = got, !.progress = IF LastChunk THEN 0 ELSE call.progress + Chunk,
                                            !.phase = IF LastChunk THEN "write" ELSE call.phase]
                    /\ buf' = buf /\ todo' = todo
    BY <1>6, <1>8, ZenonT(30)
  <2> HIDE DEF got
  <2>4. ASSUME NEW j \in 1 .. Len(got), call.phase = "read" PROVE got[j] = s.disk[call.loc + j - 1]
    <3>1. /\ call.loc \in Nat /\ call.progress \in Nat /\ call.count \in Nat /\ Chunk \in Nat
          /\ call.progress + Chunk <= call.count
      BY <1>1, ChunkIs DEF Working
    <3>2. j \in Nat /\ j >= 1 /\ j <= call.count
      BY <2>2, <3>1
    <3>3. call.loc + j - 1 \in CallCells(call)
      BY <3>1, <3>2, SMTT(30) DEF CallCells
    <3>4. call.loc + j - 1 \in Cells
      BY <1>1, <3>3 DEF Working
    <3>5. j <= call.progress => j \in 1 .. Len(call.got)
      BY <1>2, <3>1, <3>2, SMTT(30)
    <3>6. QED
      BY <1>5, <2>1, <2>2, <2>4, <3>4, <3>5, Zenon
  <2>5. run'.pc = "install" /\ \A x \in Cells : Truth(dev', x) = s.disk[x]
    BY <1>1, <2>1, <2>3, SMTT(30)
  <2>6. CASE done
    <3>1. /\ Len(got) = c.count /\ c.kind = "read" /\ call.phase = "read"
      BY <1>3, <2>2, <2>6, SMTT(30) DEF LastChunk
    <3>2. /\ Effect(s, c) \in States /\ Effect(s, c).disk = s.disk
          /\ Effect(s, c).buf = [s.buf EXCEPT ![c.name] = [j \in 1 .. c.count |-> s.disk[c.loc + j - 1]]]
      <4>1. CallCells(c) \subseteq Cells
        BY <1>1, <1>3 DEF Working
      <4>2. QED
        BY <1>3, <3>1, <4>1, ReadEffect, Zenon
    <3>3. got = [j \in 1 .. c.count |-> s.disk[c.loc + j - 1]]
      <4> DEFINE v == [j \in 1 .. c.count |-> s.disk[c.loc + j - 1]]
      <4>1. got = [j \in 1 .. c.count |-> got[j]]
        BY <2>2, <3>1, SMTT(30)
      <4>2. \A j \in 1 .. c.count : got[j] = s.disk[c.loc + j - 1]
        BY <1>3, <2>4, <3>1
      <4>3. QED
        BY <4>1, <4>2, Zenon
    <3>4. buf' = Effect(s, c).buf
      BY <1>3, <2>3, <2>6, <3>2, <3>3, Zenon
    <3>5. Done' = Done + 1 /\ Names' = Names
      <4>1. todo \in Seq(Calls) /\ Len(todo) \in Nat /\ Len(todo) > 0
        BY <1>2, <1>3 DEF InPlan
      <4>2. Len(todo') = Len(todo) - 1
        BY <2>3, <2>6, <4>1, SMTT(30)
      <4>3. QED
        BY <1>1, <1>3, <4>1, <4>2, SMTT(30) DEF Done, Names
    <3>6. States' = States /\ After(plan')[Done'] = Effect(s, c)
      BY <1>1, <1>3, <3>5 DEF States
    <3>7. call'.phase = "none"
      BY <2>3, <2>6, NoCallIs, Zenon
    <3>8. AsPlanned'
      BY <2>5, <3>2, <3>4, <3>6, <3>7, Zenon DEF AsPlanned
    <3>9. QED
      BY <2>5, <3>8, Zenon DEF PlanInv, InstalledWhole, Exit
  <2>7. CASE ~done
    <3>1. call \in Running /\ Chunk \in Nat /\ call.progress \in Nat /\ call.loc \in Nat
      BY <1>1, <1>2, ChunkIs DEF Types, Working
    <3> DEFINE q == IF LastChunk THEN 0 ELSE call.progress + Chunk
               h == IF LastChunk THEN "write" ELSE call.phase
    <3>2. call' = [call EXCEPT !.got = got, !.progress = q, !.phase = h] /\ (h = "write" => q = 0)
      BY <1>1, <2>3, <2>7
    <3>3. h = "read" => call.phase = "read"
      BY <1>1
    <3> HIDE DEF q, h
    <3>4. call'.got = got /\ call'.progress = q /\ call'.phase = h /\ call'.loc = call.loc
      BY <3>1, <3>2 DEF Running
    <3>5. Done' = Done /\ Names' = Names /\ buf' = buf
      BY <1>1, <2>3, <2>7, SMTT(30) DEF Done, Names
    <3>6. States' = States /\ After(plan')[Done'] = s
      BY <1>1, <3>5 DEF States, s
    <3>7. ASSUME NEW x, call'.phase = "write" PROVE x \notin call'.loc .. call'.loc + call'.progress - 1
      BY <3>1, <3>2, <3>4, <3>7, SMTT(30)
    <3>8. AsPlanned'
      BY <1>3, <2>4, <2>5, <3>3, <3>4, <3>5, <3>6, <3>7, SMTT(30) DEF AsPlanned
    <3>9. QED
      BY <2>5, <3>8 DEF PlanInv, InstalledWhole, Exit
  <2>8. QED
    BY <2>6, <2>7, Zenon
<1>9. QED
  BY <1>6, <1>7, <1>8, Zenon

\* A chunk that is written becomes part of what the plan's calls leave.
LEMMA WritePlans == ASSUME UndoInv, PlanInv, WriteChunk PROVE PlanInv'
<1>1. call.phase = "write" /\ plan' = plan /\ run.pc \in {"install", "undo"} /\ ~Idle /\ Working(call)
  BY DEF WriteChunk, UndoInv, Types, Runs, Idle
<1> DEFINE b == Pos \div block_size
           s == After(plan)[Done]
           c == todo[1]
<1>2. b \in 0 .. NBlocks - 1 /\ dev \in Devices /\ Types /\ InPlan /\ run \in Runs /\ Len(call.data) = call.count
  BY <1>1, ChunkIs, CellBlock DEF UndoInv, Types
<1>3. PICK o \in device_cache_block(dev, b) :
       \/ ~o.ok /\ run.pc = "install" /\ InstallFails(o.dev, CallCells(call))
       \/ /\ ~o.ok /\ run.pc = "undo"
          /\ dev' = o.dev /\ call' = NoCall
          /\ \/ run.retry /\ run' = [run EXCEPT !.i = @ + 1, !.retry = FALSE, !.bad = TRUE]
             \/ ~run.retry /\ run' = [run EXCEPT !.pc = "recover"]
          /\ UNCHANGED <<buf, todo, log, uninstall_file, torn>>
       \/ /\ o.ok /\ dev' = Written(o.dev)
          /\ \/ ~LastChunk /\ call' = [call EXCEPT !.progress = @ + Chunk]
                           /\ UNCHANGED <<todo, log, run>>
             \/ /\ LastChunk /\ run.pc = "install" /\ call' = NoCall
                /\ log' = Append(log, [loc |-> call.loc, data |-> call.got])
                /\ todo' = Tail(todo) /\ UNCHANGED run
             \/ LastChunk /\ run.pc = "undo" /\ call' = NoCall /\ EntryDone
                          /\ UNCHANGED <<todo, log>>
          /\ UNCHANGED <<buf, uninstall_file, torn>>
  BY Zenon DEF WriteChunk
<1>4. CASE run.pc = "undo"
  <2>1. run'.pc \in {"undo", "recover"}
    BY <1>2, <1>3, <1>4, Zenon DEF EntryDone, Runs
  <2>2. QED
    BY <2>1, PlanLeft, Zenon
<1>5. CASE run.pc = "install" /\ ~o.ok
  BY <1>3, <1>5, FailingLeaves, SMTT(30)
<1>6. CASE run.pc = "install" /\ o.ok
  <2>1. /\ todo # <<>> /\ c \in Calls /\ Done \in Nat /\ Len(plan) \in Nat /\ s \in States /\ buf = s.buf
        /\ After(plan)[Done + 1] = Effect(s, c) /\ call.loc = c.loc /\ call.count = c.count
        /\ CallCells(call) = CallCells(c) /\ call.data = DataOf(c) /\ c.kind # "read"
    BY <1>1, <1>6, RunningCall, Zenon
  <2>2. /\ Coherent(dev)
        /\ \A x \in Cells : Truth(dev, x) = IF x \in call.loc .. call.loc + call.progress - 1
                                            THEN call.data[x - call.loc + 1] ELSE s.disk[x]
    BY <1>1, <1>6, Zenon DEF PlanInv, AsPlanned, UndoInv, Installing
  <2> HIDE DEF s, c
  <2>3. /\ o.dev \in Devices /\ Coherent(o.dev) /\ o.dev.cached_block = b
        /\ \A x \in Cells : Truth(o.dev, x) = Truth(dev, x)
    BY <1>2, <1>6, <2>2, Cached DEF Outcome
  <2>4. dev' = Written(o.dev) /\ run' = run /\ buf' = buf
    BY <1>3, <1>6, Zenon
  <2>5. \A x \in Cells : Truth(dev', x) = IF x \in Pos .. Pos + Chunk - 1
                                          THEN call.data[x - call.loc + 1] ELSE Truth(dev, x)
    BY <1>1, <1>2, <2>3, <2>4, TruthWritten, Zenon
  <2>6. /\ Pos = call.loc + call.progress /\ Chunk \in Nat /\ call.loc \in Nat /\ call.progress \in Nat
        /\ call.count \in Nat /\ call.progress + Chunk <= call.count
    BY <1>1, ChunkIs DEF Working
  <2>7. \A x \in Cells : Truth(dev', x) = IF x \in call.loc .. call.loc + (call.progress + Chunk) - 1
                                          THEN call.data[x - call.loc + 1] ELSE s.disk[x]
    <3> SUFFICES ASSUME NEW x \in Cells
                 PROVE  Truth(dev', x) = IF x \in call.loc .. call.loc + (call.progress + Chunk) - 1
                                         THEN call.data[x - call.loc + 1] ELSE s.disk[x]
      OBVIOUS
    <3>1. x \in call.loc .. call.loc + (call.progress + Chunk) - 1
            <=> x \in Pos .. Pos + Chunk - 1 \/ x \in call.loc .. call.loc + call.progress - 1
      <4>1. x \in Nat
        BY CellBlock
      <4>2. QED
        BY <2>6, <4>1
    <3>2. QED
      BY <2>2, <2>5, <3>1, Zenon
  <2>8. run'.pc = "install" /\ Names' = Names
    BY <1>1, <1>6, <2>4, SMTT(30) DEF Names
  <2>9. CASE ~LastChunk
    <3>1. call' = [call EXCEPT !.progress = @ + Chunk] /\ todo' = todo
      BY <1>3, <1>6, <2>9
    <3>2. /\ call'.loc = call.loc /\ call'.data = call.data /\ call'.phase = "write"
          /\ call'.progress = call.progress + Chunk
      BY <1>1, <1>2, <2>9, <3>1, CallGoesOn
    <3>3. Done' = Done /\ States' = States
      BY <1>1, <2>8, <3>1 DEF Done, States
    <3>4. After(plan')[Done'] = s
      BY <1>1, <3>3, SMTT(30) DEF s
    <3>5. AsPlanned'
      BY <2>1, <2>4, <2>7, <3>2, <3>3, <3>4, ZenonT(30) DEF AsPlanned
    <3>6. QED
      BY <2>8, <3>5 DEF PlanInv, InstalledWhole, Exit
  <2>10. CASE LastChunk
    <3>1. call' = NoCall /\ todo' = Tail(todo)
      BY <1>3, <1>6, <2>10, Zenon
    <3>2. c.kind = "write" /\ call.data = IF c.data = <<>> THEN s.buf[c.name] ELSE c.data
      BY <2>1 DEF Calls, DataOf
    <3>3. call.data \in Seq(Nat) /\ Len(call.data) = c.count
      BY <1>1, <1>2, <2>1, Zenon DEF Working
    <3>4. /\ Effect(s, c) \in States /\ Effect(s, c).buf = s.buf
          /\ \A x \in Cells : Effect(s, c).disk[x] = IF x \in CallCells(c) THEN call.data[x - c.loc + 1]
                                                     ELSE s.disk[x]
      BY <2>1, <3>2, <3>3, WriteEffect, SMTT(30)
    <3>5. CallCells(c) = call.loc .. call.loc + (call.progress + Chunk) - 1
      BY <2>1, <2>6, <2>10, Zenon DEF LastChunk, CallCells
    <3>6. \A x \in Cells : Truth(dev', x) = Effect(s, c).disk[x]
      BY <2>1, <2>7, <3>4, <3>5, SMTT(30)
    <3>7. Done' = Done + 1
      <4>1. todo \in Seq(Calls) /\ Len(todo) \in Nat /\ Len(todo) > 0
        BY <1>2, <2>1 DEF InPlan
      <4>2. Len(todo') = Len(todo) - 1
        BY <3>1, <4>1, SMTT(30)
      <4>3. QED
        BY <1>1, <2>1, <4>1, <4>2, SMTT(30) DEF Done
    <3>8. States' = States /\ After(plan')[Done'] = Effect(s, c) /\ call'.phase = "none"
      BY <1>1, <2>1, <2>8, <3>1, <3>7, NoCallIs, SMTT(30) DEF States
    <3>9. AsPlanned'
      BY <2>1, <2>4, <3>4, <3>6, <3>8 DEF AsPlanned
    <3>10. QED
      BY <2>8, <3>9 DEF PlanInv, InstalledWhole, Exit
  <2>11. QED
    BY <2>9, <2>10, Zenon
<1>7. QED
  BY <1>1, <1>4, <1>5, <1>6

\* The last flush puts all of it on the disk.
LEMMA FinishPlans == ASSUME UndoInv, PlanInv, FinishInstall PROVE PlanInv'
<1>1. /\ run.pc = "install" /\ call.phase = "none" /\ todo = <<>> /\ plan' = plan /\ run \in Runs
      /\ dev \in Devices /\ Types
  BY DEF FinishInstall, Idle, UndoInv, Types
<1>2. PICK o \in device_flush_cache(dev) :
        \/ ~o.ok /\ InstallFails(o.dev, {})
        \/ o.ok /\ dev' = o.dev /\ run' = [run EXCEPT !.pc = "exit", !.ok = TRUE]
  BY Zenon DEF FinishInstall
<1>3. CASE ~o.ok /\ InstallFails(o.dev, {})
  BY <1>3, FailingLeaves, Zenon
<1>4. CASE o.ok /\ dev' = o.dev /\ run' = [run EXCEPT !.pc = "exit", !.ok = TRUE]
  <2>1. Done = Len(plan)
    BY <1>1, PlanIs, SMTT(30) DEF Done
  <2> DEFINE s == After(plan)[Len(plan)]
  <2>2. s \in States /\ \A x \in Cells : Truth(dev, x) = s.disk[x]
    BY <1>1, <2>1 DEF PlanInv, AsPlanned
  <2>3. o.dev \in Devices /\ \A x \in Cells : o.dev.disk[x] = Truth(dev, x)
    BY <1>1, <1>4, Flushed, Zenon DEF Outcome
  <2> HIDE DEF s
  <2>4. s.disk \in [Cells -> Nat] /\ o.dev.disk \in [Cells -> Nat]
    BY <2>2, <2>3, SMTT(30) DEF States, Devices
  <2>5. \A x \in Cells : o.dev.disk[x] = s.disk[x]
    BY <2>2, <2>3
  <2>6. dev'.disk = s.disk
    BY <1>4, <2>4, <2>5
  <2>7. run'.pc = "exit"
    BY <1>1, <1>4, SMTT(30) DEF Runs
  <2>8. InstalledWhole'
    BY <1>1, <2>6 DEF InstalledWhole, s
  <2>9. QED
    BY <2>7, <2>8 DEF PlanInv, AsPlanned
<1>5. QED
  BY <1>2, <1>3, <1>4

\* Every step keeps the invariant.
LEMMA PlanStep == ASSUME UndoInv, PlanInv, [DeviceNext]_device_vars PROVE PlanInv'
<1>1. run \in Runs
  BY DEF UndoInv, Types
<1>2. CASE UndoEntry \/ Recover \/ EndUndo \/ Uninstall \/ UninstallFails
  <2>1. CASE UndoEntry \/ Recover \/ Uninstall
    <3>1. run'.pc = "undo"
      <4>1. CASE UndoEntry
        BY <4>1 DEF UndoEntry
      <4>2. CASE Recover
        BY <1>1, <4>2 DEF Recover, Runs
      <4>3. CASE Uninstall
        BY <4>3 DEF Uninstall, BeginUndo, StartOf
      <4>4. QED
        BY <2>1, <4>1, <4>2, <4>3, SMTT(30)
    <3>2. QED
      BY <3>1, PlanLeft
  <2>2. CASE UninstallFails
    <3>1. run'.pc = "exit" /\ run'.mode = "uninstall"
      BY <1>1, <2>2 DEF UninstallFails, Runs
    <3>2. QED
      BY <3>1, PlanLeft
  <2>3. CASE EndUndo
    <3>1. PICK good, worse : /\ good = (run.mode = "uninstall" /\ ~worse)
                             /\ run' = [run EXCEPT !.pc = "exit", !.bad = worse, !.ok = good]
      BY <2>3, Zenon DEF EndUndo
    <3>2. run'.pc = "exit" /\ run'.mode = run.mode /\ run'.ok = good
      BY <1>1, <3>1, Zenon DEF Runs
    <3>3. QED
      BY <3>1, <3>2, PlanLeft, Zenon
  <2>4. QED
    BY <1>2, <2>1, <2>2, <2>3
<1>3. CASE UNCHANGED device_vars
  <2>1. UNCHANGED <<dev, buf, todo, call, log, run, plan>>
    BY <1>3, SMTT(30) DEF device_vars
  <2>2. Done' = Done /\ Names' = Names
    BY <2>1 DEF Done, Names
  <2>3. States' = States
    BY <2>2 DEF States
  <2>4. QED
    BY <2>1, <2>2, <2>3 DEF PlanInv, AsPlanned, InstalledWhole, Exit
<1>4. QED
  BY <1>2, <1>3, StartPlans, ReadPlans, WritePlans, FinishPlans, SMTT(30) DEF DeviceNext

\* For every device, block size and plan: an install that reports success has left on the
\* device what its calls of device_read and device_write amount to, each made whole and at
\* once, although all of them go through one cached block, in chunks.
THEOREM InstallIsWhole == DeviceSpec => []InstalledWhole
<1>1. DeviceInit => UndoInv /\ PlanInv
  BY DeviceStart, PlanStart
<1>2. UndoInv /\ PlanInv /\ [DeviceNext]_device_vars => UndoInv' /\ PlanInv'
  BY DeviceStep, PlanStep
<1>3. UndoInv /\ PlanInv => InstalledWhole
  BY DEF PlanInv
<1>4. QED
  BY <1>1, <1>2, <1>3, PTL DEF DeviceSpec
-----------------------------------------------------------------------------
(***************************************************************************)
(* FirstOccurrence of EnrollConfig. The invariant of the search: the       *)
(* checked_count characters before i match the signature's first ones, and *)
(* the signature occurs nowhere before the place where that match began.   *)
(***************************************************************************)
Begun == i - checked_count

Searching ==
  /\ i \in Nat /\ checked_count \in 0..(Len(Sign) - 1) /\ Begun >= 0
  /\ \A j \in 1..checked_count : orig[Begun + j] = Sign[j]
  /\ \A p \in 0..(Begun - 1) : ~Occurs(p)

Found ==
  /\ checksum_loc \in Nat
  /\ checksum_loc # 0 => /\ Occurs(checksum_loc - Len(Sign))
                         /\ \A p \in 0..(checksum_loc - Len(Sign) - 1) : ~Occurs(p)

EnrollInv ==
  /\ orig \in Seq(Nat) /\ Found
  /\ pc \in {"args", "search", "patch", "success", "failure"}
  /\ pc \in {"args", "search"} => file = orig /\ Searching

USE EnrollAssumption DEF EnrollAssumption, min_size

\* The search starts at the first character, with nothing matched.
LEMMA EnrollStart == Init => EnrollInv
<1> SUFFICES ASSUME Init PROVE EnrollInv
  OBVIOUS
<1>1. orig \in Seq(Nat) /\ file = orig /\ i = 0 /\ checked_count = 0 /\ checksum_loc = 0 /\ pc = "args"
  BY DEF Init
<1>2. Len(Sign) \in Nat
  BY SMTT(30)
<1> QED
  BY <1>1, <1>2 DEF EnrollInv, Found, Searching, Begun

\* Steps that change neither the file nor what the search knows.
LEMMA EnrollSame ==
  ASSUME EnrollInv, UNCHANGED <<file, orig, i, checked_count, checksum_loc>>,
         pc' \in {"args", "search", "patch", "success", "failure"},
         pc' \in {"args", "search"} => pc \in {"args", "search"}
  PROVE  EnrollInv'
BY DEF EnrollInv, Found, Searching, Begun, Occurs

\* One character compared.
LEMMA SearchStep == ASSUME EnrollInv, Search PROVE EnrollInv'
<1> DEFINE N == Len(Sign)
<1>1. /\ pc = "search" /\ file = orig /\ Searching /\ Found /\ orig' = orig /\ file' = file
      /\ orig \in Seq(Nat) /\ N \in Nat \ {0} /\ HashLen \in Nat /\ Len(orig) \in Nat
  BY DEF EnrollInv, Search
<1>2. i \in Nat /\ checked_count \in 0..(N - 1) /\ Begun \in Nat /\ i = Begun + checked_count
  BY <1>1 DEF Searching, Begun
<1>3. i < Len(orig)
  BY <1>1, <1>2 DEF Search, InLoop
<1>4. \A p : Occurs(p)' <=> Occurs(p)
  BY <1>1 DEF Occurs
<1>5. CASE file[i + 1] # Sign[checked_count + 1]
  <2>1. i' = Begun + 1 /\ checked_count' = 0 /\ UNCHANGED <<pc, checksum_loc>>
    BY <1>5, <1>2 DEF Search, Restart, Begun
  <2>2. ~Occurs(Begun)
    <3>1. checked_count + 1 \in 1..N /\ Begun + (checked_count + 1) = i + 1
      BY <1>1, <1>2
    <3> QED
      BY <3>1, <1>1, <1>5, SMTT(30) DEF Occurs
  <2>3. \A p \in 0..Begun : ~Occurs(p)
    BY <2>2, <1>1, <1>2 DEF Searching
  <2>4. Begun' = Begun + 1
    BY <2>1, <1>2 DEF Begun
  <2>5. \A p \in 0..(Begun' - 1) : ~Occurs(p)'
    BY <2>3, <2>4, <1>2, <1>4, SMTT(30)
  <2>6. Searching'
    BY <2>1, <2>4, <2>5, <1>1, <1>2, SMTT(30) DEF Searching
  <2>7. Found'
    BY <2>1, <1>1, Zenon DEF Found, Occurs
  <2> QED
    BY <2>1, <2>6, <2>7, <1>1, Zenon DEF EnrollInv
<1>6. CASE file[i + 1] = Sign[checked_count + 1]
  <2>1. \A j \in 1..(checked_count + 1) : orig[Begun + j] = Sign[j]
    <3> SUFFICES ASSUME NEW j \in 1..(checked_count + 1) PROVE orig[Begun + j] = Sign[j]
      OBVIOUS
    <3>1. CASE j \in 1..checked_count
      BY <3>1, <1>1 DEF Searching
    <3>2. CASE j = checked_count + 1
      <4>1. Begun + j = i + 1
        BY <3>2, <1>2
      <4> QED
        BY <4>1, <3>2, <1>1, <1>6
    <3> QED
      BY <3>1, <3>2, <1>2
  <2>2. CASE checked_count + 1 = N
    <3>1. checksum_loc' = i + 1 /\ pc' = "patch"
      BY <1>6, <2>2 DEF Search
    <3>2. checksum_loc' - N = Begun /\ Begun + N <= Len(orig)
      BY <3>1, <2>2, <1>1, <1>2, <1>3, SMTT(30)
    <3>3. Occurs(Begun)
      BY <2>1, <2>2, <3>2, Zenon DEF Occurs
    <3>4. Occurs(checksum_loc' - N) /\ \A p \in 0..(checksum_loc' - N - 1) : ~Occurs(p)
      BY <3>2, <3>3, <1>1, Zenon DEF Searching
    <3>5. Found'
      BY <3>1, <3>4, <1>1, <1>2 DEF Found, Occurs
    <3> QED
      BY <3>1, <3>5, <1>1 DEF EnrollInv
  <2>3. CASE checked_count + 1 # N
    <3>1. i' = i + 1 /\ checked_count' = checked_count + 1 /\ UNCHANGED <<pc, checksum_loc>>
      BY <1>6, <2>3 DEF Search
    <3>2. Begun' = Begun /\ checked_count' \in 0..(N - 1) /\ i' \in Nat
      BY <3>1, <2>3, <1>1, <1>2, SMTT(30) DEF Begun
    <3>3. \A p \in 0..(Begun' - 1) : ~Occurs(p)'
      BY <3>2, <1>1, <1>4, SMTT(30) DEF Searching
    <3>4. Searching'
      BY <2>1, <3>1, <3>2, <3>3, <1>1, <1>2, SMTT(30) DEF Searching
    <3>5. Found'
      BY <3>1, <1>1, Zenon DEF Found, Occurs
    <3> QED
      BY <3>1, <3>4, <3>5, <1>1, Zenon DEF EnrollInv
  <2> QED
    BY <2>2, <2>3
<1> QED
  BY <1>5, <1>6, Zenon

\* Every step of the command keeps the invariant.
LEMMA EnrollStep == ASSUME EnrollInv, [Next]_vars PROVE EnrollInv'
<1>1. CASE ParseArg
  BY <1>1, EnrollSame DEF ParseArg, EnrollInv
<1>2. CASE Open
  <2>1. pc = "args" /\ pc' \in {"search", "failure"}
    BY <1>2 DEF Open
  <2> QED
    BY <1>2, <2>1, EnrollSame DEF Open
<1>3. CASE Search
  BY <1>3, SearchStep
<1>4. CASE NotFound
  BY <1>4, EnrollSame DEF NotFound
<1>5. CASE Patch
  <2>1. pc' \in {"success", "failure"} /\ UNCHANGED <<orig, checksum_loc>>
    BY <1>5 DEF Patch
  <2> QED
    BY <2>1, Zenon DEF EnrollInv, Found, Occurs
<1>6. CASE UNCHANGED vars
  BY <1>6, EnrollSame DEF vars, EnrollInv
<1> QED
  BY <1>1, <1>2, <1>3, <1>4, <1>5, <1>6 DEF Next

-----------------------------------------------------------------------------
(***************************************************************************)
(* OptionsRemoved: what is left of argv are arguments that were given, in  *)
(* their order, f; those behind n are the last ones, and those before it   *)
(* are no options.                                                         *)
(***************************************************************************)
Kept(f) ==
  /\ f \in [1 .. Len(argv) -> 1 .. Len(given)]
  /\ \A j, k \in 1 .. Len(argv) : j < k => f[j] < f[k]
  /\ \A j \in 1 .. Len(argv) : argv[j] = given[f[j]]
  /\ \A j \in n .. Len(argv) : f[j] = j + (Len(given) - Len(argv))
  /\ \A j \in 1 .. n - 1 : argv[j].text \notin Options
  /\ \A k \in 1 .. Len(given) : given[k].text \notin Options => \E j \in 1 .. Len(argv) : f[j] = k

ArgsInv ==
  /\ given \in Seq(Args) /\ argv \in Seq(Args) /\ n \in 1 .. Len(argv) + 1 /\ Len(argv) <= Len(given)
  /\ \E f : Kept(f)
  /\ pc = "args" => checksum_loc = 0
  /\ pc = "args" \/ n > Len(argv) \/ (pc = "success" /\ checksum_loc = 0)

\* No argument is removed at first.
LEMMA ArgsStart == ASSUME Init PROVE ArgsInv
<1>1. given \in Seq(Args) /\ argv = given /\ n = 1 /\ checksum_loc = 0 /\ pc = "args" /\ Len(given) \in Nat
  BY DEF Init
<1> DEFINE f == [j \in 1 .. Len(given) |-> j]
<1>2. Kept(f)
  BY <1>1, SMTT(30) DEF Kept
<1>3. QED
  BY <1>1, <1>2 DEF ArgsInv

\* remove_arg takes an option out of argv.
LEMMA OptionGoes ==
  ASSUME ArgsInv, n <= Len(argv), argv[n].text \in Options, argv' = remove_arg(argv, n), n' = n, given' = given
  PROVE  argv' \in Seq(Args) /\ n' \in 1 .. Len(argv') + 1 /\ Len(argv') <= Len(given') /\ \E f : Kept(f)'
<1> DEFINE L == Len(argv)
           at(j) == IF j < n THEN j ELSE j + 1
<1>1. /\ argv \in Seq(Args) /\ L \in Nat /\ n \in 1 .. L /\ Len(given) \in Nat /\ L <= Len(given)
      /\ given \in Seq(Args)
  BY DEF ArgsInv
<1>2. \A j \in 1 .. L - 1 : at(j) \in 1 .. L /\ at(j) # n /\ (j < n => at(j) = j) /\ (j >= n => at(j) = j + 1)
  BY <1>1
<1>3. argv' = [j \in 1 .. L - 1 |-> argv[at(j)]]
  BY DEF remove_arg
<1> HIDE DEF at
<1>4. argv' \in [1 .. L - 1 -> Args]
  BY <1>1, <1>2, <1>3, SMTT(30)
<1>5. argv' \in Seq(Args) /\ Len(argv') = L - 1 /\ \A j \in 1 .. L - 1 : argv'[j] = argv[at(j)]
  <2>1. \A j \in 1 .. L - 1 : argv'[j] = argv[at(j)]
    BY <1>3, Zenon
  <2> DEFINE M == L - 1
  <2>2. M \in Nat /\ argv' \in [1 .. M -> Args]
    BY <1>1, <1>4, SMTT(30)
  <2> HIDE DEF M
  <2>3. argv' \in Seq(Args) /\ Len(argv') = M
    BY <2>2
  <2>4. QED
    BY <2>1, <2>3, SMTT(30) DEF M
<1>6. PICK f : Kept(f)
  BY DEF ArgsInv
<1>7. PICK g : g = [j \in 1 .. L - 1 |-> f[at(j)]]
  BY Zenon
<1>8. \A j \in 1 .. L - 1 : g[j] = f[at(j)]
  BY <1>7, SMTT(30)
<1>9. g \in [1 .. L - 1 -> 1 .. Len(given)]
  BY <1>2, <1>6, <1>7, SMTT(30) DEF Kept
<1> HIDE DEF L
<1>10. \A j, k \in 1 .. L - 1 : j < k => g[j] < g[k]
  <2> SUFFICES ASSUME NEW j \in 1 .. L - 1, NEW k \in 1 .. L - 1, j < k PROVE g[j] < g[k]
    OBVIOUS
  <2>1. at(j) < at(k)
    BY <1>1, <1>2, SMTT(30)
  <2>2. QED
    BY <1>2, <1>6, <1>8, <2>1, SMTT(30) DEF Kept, L
<1>11. \A j \in 1 .. L - 1 : argv'[j] = given[g[j]]
  <2>1. \A j \in 1 .. L : argv[j] = given[f[j]]
    BY <1>6 DEF Kept, L
  <2>2. QED
    BY <1>2, <1>5, <1>8, <2>1, ZenonT(30)
<1>12. \A j \in n .. L - 1 : g[j] = j + (Len(given) - (L - 1))
  <2> SUFFICES ASSUME NEW j \in n .. L - 1 PROVE g[j] = j + (Len(given) - (L - 1))
    OBVIOUS
  <2>1. j \in 1 .. L - 1 /\ at(j) = j + 1 /\ j + 1 \in n .. L
    BY <1>1, <1>2, SMTT(30)
  <2>2. f[j + 1] = (j + 1) + (Len(given) - L)
    BY <1>6, <2>1, SMTT(30) DEF Kept, L
  <2>3. QED
    BY <1>1, <1>8, <2>1, <2>2, SMTT(30)
<1>13. \A j \in 1 .. n - 1 : argv'[j].text \notin Options
  <2> SUFFICES ASSUME NEW j \in 1 .. n - 1 PROVE argv'[j].text \notin Options
    OBVIOUS
  <2>1. j \in 1 .. L - 1 /\ at(j) = j
    BY <1>1, <1>2
  <2>2. QED
    BY <1>5, <1>6, <2>1, ZenonT(30) DEF Kept
<1>14. ASSUME NEW k \in 1 .. Len(given), given[k].text \notin Options PROVE \E j \in 1 .. L - 1 : g[j] = k
  <2>1. PICK j \in 1 .. L : f[j] = k /\ argv[j] = given[k]
    BY <1>6, <1>14, SMTT(30) DEF Kept, L
  <2>2. j # n
    BY <1>14, <2>1, Zenon
  <2>3. CASE j < n
    <3>1. j \in 1 .. L - 1 /\ at(j) = j
      BY <1>1, <1>2, <2>3, SMTT(30)
    <3>2. QED
      BY <1>8, <2>1, <3>1, SMTT(30)
  <2>4. CASE j > n
    <3>1. j - 1 \in 1 .. L - 1 /\ at(j - 1) = j
      BY <1>1, <1>2, <2>4, SMTT(30)
    <3>2. QED
      BY <1>8, <2>1, <3>1, SMTT(30)
  <2>5. QED
    BY <1>1, <2>2, <2>3, <2>4, SMTT(30)
<1>15. Kept(g)'
  BY <1>5, <1>9, <1>10, <1>11, <1>12, <1>13, <1>14, SMTT(30) DEF Kept
<1>16. n' \in 1 .. Len(argv') + 1 /\ Len(argv') <= Len(given')
  BY <1>1, <1>5
<1>17. QED
  BY <1>5, <1>15, <1>16, SMTT(30)

\* Every step keeps it.
LEMMA ArgsStep == ASSUME ArgsInv, [Next]_vars PROVE ArgsInv'
<1>1. CASE ParseArg
  <2>1. /\ pc = "args" /\ n <= Len(argv) /\ UNCHANGED <<checksum_loc, given>> /\ Len(argv) \in Nat
        /\ n \in 1 .. Len(argv) + 1 /\ checksum_loc = 0
    BY <1>1, SMTT(30) DEF ParseArg, ArgsInv
  <2>2. CASE argv[n].text = "--help" /\ pc' = "success" /\ UNCHANGED <<argv, n, reset>>
    BY <2>1, <2>2, ZenonT(30) DEF ArgsInv, Kept
  <2>3. CASE argv[n].text \in Options /\ argv' = remove_arg(argv, n) /\ n' = n /\ UNCHANGED pc
    BY <2>1, <2>3, OptionGoes, SMTT(30) DEF ArgsInv
  <2>4. CASE argv[n].text \notin Options /\ n' = n + 1 /\ UNCHANGED <<pc, argv>>
    <3>1. PICK f : Kept(f)
      BY DEF ArgsInv
    <3>2. /\ \A j \in 1 .. n' - 1 : j \in 1 .. n - 1 \/ j = n
          /\ \A j \in n' .. Len(argv) : j \in n .. Len(argv)
      BY <2>1, <2>4, SMTT(30)
    <3>3. Kept(f)'
      BY <2>1, <2>4, <3>1, <3>2, Zenon DEF Kept
    <3>4. n' \in 1 .. Len(argv) + 1
      BY <2>1, <2>4, SMTT(30)
    <3>5. QED
      BY <2>1, <2>4, <3>3, <3>4, SMTT(30) DEF ArgsInv
  <2>5. QED
    BY <1>1, <2>2, <2>3, <2>4, Zenon DEF ParseArg, NextArg, Options
<1>2. CASE Open \/ Search \/ NotFound \/ Patch \/ UNCHANGED vars
  <2>1. UNCHANGED <<argv, n, given>>
    BY <1>2, ZenonT(30) DEF Open, Search, NotFound, Patch, vars
  <2>2. /\ pc' = "args" => pc = "args" /\ checksum_loc' = checksum_loc
        /\ n > Len(argv) \/ (pc' = pc /\ checksum_loc' = checksum_loc)
    <3>1. CASE Open
      BY <3>1, SMTT(30) DEF Open
    <3>2. CASE Search
      BY <3>2, SMTT(30) DEF Search, ArgsInv
    <3>3. CASE NotFound \/ Patch
      BY <3>3, SMTT(30) DEF NotFound, Patch, ArgsInv
    <3>4. CASE UNCHANGED vars
      BY <3>4, ZenonT(30) DEF vars
    <3>5. QED
      BY <1>2, <3>1, <3>2, <3>3, <3>4, Zenon
  <2>3. QED
    BY <2>1, <2>2, ZenonT(30) DEF ArgsInv, Kept
<1>3. QED
  BY <1>1, <1>2, Zenon DEF Next

-----------------------------------------------------------------------------
(***************************************************************************)
(* OnlyChecksum: until the file is written back it is as it was, and the   *)
(* checksum lies within it.                                                *)
(***************************************************************************)
FileInv ==
  /\ pc \in {"args", "search"} => checksum_loc = 0
  /\ pc \in {"args", "search", "patch"} => file = orig
  /\ pc = "patch" => checksum_loc \in Nat /\ checksum_loc + HashLen <= Len(orig)
  /\ OnlyChecksum

\* What is read back when the first k elements of b were replaced by those of a.
LEMMA Spliced ==
  ASSUME NEW S, NEW a \in Seq(S), NEW b \in Seq(S), Len(a) = Len(b), NEW k \in 0 .. Len(b) - 1, NEW c,
         c = SubSeq(a, 1, k) \o SubSeq(b, k + 1, Len(b))
  PROVE  DOMAIN c = 1 .. Len(b) /\ \A j \in 1 .. Len(b) : c[j] \in {a[j], b[j]}
<1> DEFINE u == SubSeq(a, 1, k)
           v == SubSeq(b, k + 1, Len(b))
<1>1. k \in Nat /\ Len(b) \in Nat /\ k < Len(b)
  OBVIOUS
<1>2. u \in Seq(S) /\ Len(u) = k /\ \A j \in 1 .. k : u[j] = a[j]
  BY <1>1, SMTT(30)
<1>3. v \in Seq(S) /\ Len(v) = Len(b) - k /\ \A j \in 1 .. Len(b) - k : v[j] = b[k + j]
  BY <1>1, SMTT(30)
<1>4. c = u \o v
  OBVIOUS
<1> HIDE DEF u, v
<1>5. /\ DOMAIN c = 1 .. Len(b)
      /\ \A j \in 1 .. Len(b) : c[j] = IF j <= k THEN u[j] ELSE v[j - k]
  <2>1. /\ c \in Seq(S) /\ Len(c) = Len(u) + Len(v)
        /\ \A j \in 1 .. Len(c) : c[j] = IF j <= Len(u) THEN u[j] ELSE v[j - Len(u)]
    <3>1. /\ u \o v \in Seq(S) /\ Len(u \o v) = Len(u) + Len(v)
          /\ \A j \in 1 .. Len(u \o v) : (u \o v)[j] = IF j <= Len(u) THEN u[j] ELSE v[j - Len(u)]
      BY <1>2, <1>3, Chained, SMTT(30)
    <3>2. QED
      BY <1>4, <3>1, ZenonT(30)
  <2>2. Len(u) + Len(v) = Len(b)
    BY <1>1, <1>2, <1>3, SMTT(30)
  <2>3. DOMAIN c = 1 .. Len(c)
    BY <2>1, SMTT(30)
  <2>4. QED
    BY <1>2, <2>1, <2>2, <2>3, Zenon
<1>6. ASSUME NEW j \in 1 .. Len(b) PROVE c[j] \in {a[j], b[j]}
  <2>1. CASE j <= k
    <3>1. j \in 1 .. k
      BY <1>1, <2>1
    <3>2. QED
      BY <1>2, <1>5, <2>1, <3>1, ZenonT(30)
  <2>2. CASE j > k
    <3>1. j - k \in 1 .. Len(b) - k /\ k + (j - k) = j
      BY <1>1, <2>2
    <3>2. c[j] = v[j - k]
      <4>1. ~(j <= k)
        BY <1>1, <2>2
      <4>2. QED
        BY <1>5, <4>1, Zenon
    <3>3. QED
      BY <1>3, <3>1, <3>2, Zenon
  <2>3. j <= k \/ j > k
    BY <1>1
  <2>4. QED
    BY <2>1, <2>2, <2>3, ZenonT(30)
<1>7. QED
  BY <1>5, <1>6, Zenon

\* The file is written back, whole or in part.
LEMMA PatchStep == ASSUME EnrollInv, FileInv, Patch PROVE FileInv'
<1>1. /\ pc = "patch" /\ file = orig /\ orig \in Seq(Nat) /\ checksum_loc \in Nat /\ Len(orig) \in Nat
      /\ checksum_loc + HashLen <= Len(orig) /\ HashLen \in Nat /\ UNCHANGED <<argv, reset, orig, checksum_loc>>
  BY SMTT(30) DEF Patch, FileInv, EnrollInv
<1> DEFINE new(j) == IF reset THEN 0 ELSE argv[2].chars[j - checksum_loc]
<1>2. /\ DOMAIN Patched = 1 .. Len(orig)
      /\ \A j \in 1 .. Len(orig) : Patched[j] = IF j - checksum_loc \in 1 .. HashLen THEN new(j) ELSE orig[j]
  BY <1>1, SMTT(30) DEF Patched
<1>3. ASSUME DOMAIN file' = 1 .. Len(orig), \A j \in 1 .. Len(orig) : file'[j] \in {Patched[j], orig[j]}
      PROVE  \A j \in DOMAIN file' : file'[j] # orig'[j] => j - checksum_loc' \in 1 .. HashLen
  BY <1>1, <1>2, <1>3, Zenon
<1>4. CASE file' = Patched /\ pc' = "success"
  <2>1. \A j \in DOMAIN file' : file'[j] # orig'[j] => j - checksum_loc' \in 1 .. HashLen
    BY <1>2, <1>3, <1>4, Zenon
  <2>2. ASSUME NEW j \in 1 .. HashLen
        PROVE  file'[checksum_loc' + j] = IF reset' THEN 0 ELSE argv'[2].chars[j]
    <3>1. checksum_loc + j \in 1 .. Len(orig) /\ (checksum_loc + j) - checksum_loc = j
      BY <1>1, SMTT(30)
    <3>2. QED
      BY <1>1, <1>2, <1>4, <3>1, Zenon
  <2>3. QED
    BY <1>4, <2>1, <2>2, Zenon DEF FileInv, OnlyChecksum
<1>5. ASSUME pc' = "failure", NEW k \in 0 .. Len(file) - 1,
             file' = SubSeq(Patched, 1, k) \o SubSeq(file, k + 1, Len(file))
      PROVE  FileInv'
  <2> DEFINE S == {Patched[j] : j \in 1 .. Len(orig)} \cup Nat
  <2>1. Patched = [j \in 1 .. Len(orig) |-> Patched[j]]
    BY <1>1 DEF Patched
  <2>2. Patched \in [1 .. Len(orig) -> S]
    BY <2>1, Zenon
  <2>3. orig \in Seq(S)
    <3>1. orig \in [1 .. Len(orig) -> Nat]
      BY <1>1, SMTT(30)
    <3>2. orig \in [1 .. Len(orig) -> S]
      BY <3>1
    <3> HIDE DEF S
    <3>3. QED
      BY <1>1, <3>2, Sequence, ZenonT(30)
  <2> HIDE DEF S
  <2>4. Patched \in Seq(S) /\ Len(Patched) = Len(orig)
    BY <1>1, <2>2, Sequence, ZenonT(30)
  <2>5. DOMAIN file' = 1 .. Len(orig) /\ \A j \in 1 .. Len(orig) : file'[j] \in {Patched[j], orig[j]}
    <3>1. k \in 0 .. Len(orig) - 1 /\ file' = SubSeq(Patched, 1, k) \o SubSeq(orig, k + 1, Len(orig))
      BY <1>1, <1>5, Zenon
    <3>2. QED
      BY <2>3, <2>4, <3>1, Spliced, ZenonT(30)
  <2>6. QED
    BY <1>3, <1>5, <2>5, ZenonT(30) DEF FileInv, OnlyChecksum
<1>6. QED
  BY <1>4, <1>5, Zenon DEF Patch

\* Every step keeps it.
LEMMA FileStep == ASSUME EnrollInv, FileInv, [Next]_vars PROVE FileInv'
<1>1. CASE Search
  <2>1. /\ pc = "search" /\ file = orig /\ checksum_loc = 0 /\ UNCHANGED <<argv, reset, file, orig>>
        /\ orig \in Seq(Nat) /\ Len(orig) \in Nat /\ Len(Sign) \in Nat \ {0} /\ HashLen \in Nat /\ i \in Nat
    <3>1. pc = "search" /\ UNCHANGED <<argv, reset, file, orig>>
      BY <1>1, Zenon DEF Search
    <3>2. file = orig /\ checksum_loc = 0 /\ orig \in Seq(Nat) /\ i \in Nat
      BY <3>1, Zenon DEF FileInv, EnrollInv, Searching
    <3>3. QED
      BY <3>1, <3>2
  <2>2. i + 1 + HashLen <= Len(orig)
    BY <1>1, <2>1, SMTT(30) DEF Search, InLoop
  <2>3. \/ UNCHANGED <<pc, checksum_loc>>
        \/ pc' = "patch" /\ checksum_loc' = i + 1
    BY <1>1, Zenon DEF Search
  <2>4. CASE UNCHANGED <<pc, checksum_loc>>
    BY <2>1, <2>4, Zenon DEF FileInv, OnlyChecksum
  <2>5. CASE pc' = "patch" /\ checksum_loc' = i + 1
    BY <2>1, <2>2, <2>5 DEF FileInv, OnlyChecksum
  <2>6. QED
    BY <2>3, <2>4, <2>5
<1>2. CASE Patch
  BY <1>2, PatchStep, Zenon
<1>3. CASE ParseArg \/ Open \/ NotFound
  <2>1. /\ pc \in {"args", "search"} /\ pc' \in {"args", "search", "success", "failure"}
        /\ UNCHANGED <<file, orig, checksum_loc>>
    BY <1>3 DEF ParseArg, Open, NotFound
  <2>2. checksum_loc = 0 /\ file = orig
    BY <2>1, Zenon DEF FileInv
  <2>3. QED
    BY <2>1, <2>2, Zenon DEF FileInv, OnlyChecksum
<1>4. CASE UNCHANGED vars
  BY <1>4 DEF vars, FileInv, OnlyChecksum
<1>5. QED
  BY <1>1, <1>2, <1>3, <1>4 DEF Next

\* For every signature, also one that overlaps itself, and all arguments and executables:
\* the options are taken out of argv and nothing else is, the signature enroll_config
\* patches behind is the first one in the file, and no byte outside the checksum changes,
\* also when the file is written only in part.
THEOREM ChecksumIsPlaced == Spec => []ChecksumPlaced
<1> DEFINE AllInv == EnrollInv /\ ArgsInv /\ FileInv
<1>1. Init => AllInv
  <2> SUFFICES ASSUME Init PROVE FileInv
    BY EnrollStart, ArgsStart
  <2>1. file = orig /\ checksum_loc = 0 /\ pc = "args"
    BY DEF Init
  <2>2. QED
    BY <2>1 DEF FileInv, OnlyChecksum
<1>2. AllInv /\ [Next]_vars => AllInv'
  BY EnrollStep, ArgsStep, FileStep, SMTT(30)
<1>3. AllInv => ChecksumPlaced
  <2> SUFFICES ASSUME EnrollInv, ArgsInv, FileInv PROVE ChecksumPlaced
    OBVIOUS
  <2>1. FirstOccurrence
    <3>1. ASSUME pc = "search", ~InLoop, NEW p \in 0..LastStart
          PROVE  ~Occurs(p)
      <4>1. Len(Sign) \in Nat /\ HashLen \in Nat /\ Len(orig) \in Nat /\ file = orig /\ Searching
        BY <3>1 DEF EnrollInv
      <4>2. p \in 0..(Begun - 1)
        BY <3>1, <4>1 DEF Searching, Begun, InLoop, LastStart
      <4>3. QED
        BY <4>1, <4>2 DEF Searching
    <3>2. QED
      BY <3>1 DEF EnrollInv, Found, FirstOccurrence
  <2>2. ASSUME pc \notin {"args", "success"} \/ checksum_loc # 0
        PROVE  \E f \in [1 .. Len(argv) -> 1 .. Len(given)] :
                 /\ \A j, k \in 1 .. Len(argv) : j < k => f[j] < f[k]
                 /\ \A j \in 1 .. Len(argv) : argv[j] = given[f[j]]
                 /\ \A k \in 1 .. Len(given) :
                      given[k].text \notin Options <=> \E j \in 1 .. Len(argv) : f[j] = k
    <3>1. n > Len(argv) /\ n \in 1 .. Len(argv) + 1 /\ Len(argv) \in Nat
      BY <2>2 DEF ArgsInv
    <3>2. 1 .. n - 1 = 1 .. Len(argv)
      BY <3>1
    <3>3. PICK f : Kept(f)
      BY DEF ArgsInv
    <3>4. \A j \in 1 .. Len(argv) : argv[j].text \notin Options
      BY <3>2, <3>3, Zenon DEF Kept
    <3>5. \A k \in 1 .. Len(given) : given[k].text \notin Options <=> \E j \in 1 .. Len(argv) : f[j] = k
      BY <3>3, <3>4, Zenon DEF Kept
    <3>6. QED
      BY <3>3, <3>5, Zenon DEF Kept
  <2>3. QED
    BY <2>1, <2>2, Zenon DEF ChecksumPlaced, OptionsRemoved, FileInv
<1> HIDE DEF AllInv
<1>4. QED
  BY <1>1, <1>2, <1>3, PTL DEF Spec
=============================================================================
