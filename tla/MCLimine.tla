------------------------------ MODULE MCLimine ------------------------------
(***************************************************************************)
(* The commands of limine-binary/limine.c: enroll_config, the decisions of *)
(* bios_install and the device layer below it.  They are modelled apart    *)
(* from each other: a behaviour of this run is a behaviour of one of them, *)
(* part, and the variables of the others keep their first values.          *)
(***************************************************************************)
EXTENDS EnrollConfig, LimineDevice

\* enroll_config: a signature that starts with a repeated character, as
\* "++CONFIG..." does, 20 and 21 standing for its characters and 16 for any
\* other byte.
MCSign == <<20, 20, 21>>
MCFiles == UNION {[1 .. len -> {20, 21, 16}] : len \in {4, 5, 7, 8}}
ShortFiles == [1 .. 5 -> {20, 21, 16}]
Word(text) == [text |-> text, chars |-> <<>>]
Hash(chars) == [text |-> "", chars |-> chars]
OtherArgs == {<<>>, <<Word("--help")>>, <<Word("exe")>>, <<Word("exe"), Hash(<<1>>)>>,
              <<Word("exe"), Hash(<<1, 16>>)>>,
              <<Word("--quiet"), Word("exe"), Word("--quiet"), Word("--reset")>>}
MCInputs ==
  ({<<Word("exe"), Hash(<<1, 2>>)>>, <<Word("--quiet"), Word("--reset"), Word("exe")>>} \X MCFiles)
    \cup (OtherArgs \X ShortFiles)
-----------------------------------------------------------------------------
\* The device layer: a sector is four cells, for code, timestamp, the location of
\* stage 2 and the partition table. Stage 2 follows the boot sector (MBR), or lies
\* in a partition whose file system signature was wiped before (GPT, --force).
Rd(name, loc) == [kind |-> "read", loc |-> loc, count |-> 1, data |-> <<>>, name |-> name]
Wr(loc, data) == [kind |-> "write", loc |-> loc, count |-> Len(data), data |-> data, name |-> ""]
Back(name, loc) == [kind |-> "write", loc |-> loc, count |-> 1, data |-> <<>>, name |-> name]

Stages(loc) ==
  <<Rd("timestamp", 1), Rd("orig_mbr", 3), Wr(0, <<100, 101, 102, 103>>),
    Wr(loc, [j \in 1 .. 6 |-> 103 + j]), Wr(2, <<200 + loc>>),
    Back("timestamp", 1), Back("orig_mbr", 3)>>

\* Blocks of two sectors: stage 2 shares the first one with the boot sector, is aligned
\* or not, and its signature was wiped or not, for which the log is too short.
MCPlans == {Stages(4), Stages(14), <<Wr(9, <<0>>)>> \o Stages(8)}
MCOriginal == [c \in Cells |-> c]

VARIABLE part
-----------------------------------------------------------------------------
\* bios_install: images with every combination of four MBR entries, and GPT images
\* with up to two entries of every kind or five that could be converted; their
\* partitions do not overlap.
NoEntry == [status |-> 0, type |-> 0, start |-> 0, count |-> 0, chs |-> <<>>]
Slot(status, type, start) ==
  [status |-> status, type |-> type, start |-> start, count |-> 5, chs |-> <<>>]
SlotKinds == {NoEntry, Slot(128, 7, 63), Slot(0, 7, 40), Slot(129, 0, 0), Slot(3, 7, 200)}
Entry(type, start, end) ==
  [used |-> TRUE, type |-> type, start |-> start, end |-> end, hints |-> {}]

Blank == [sigs |-> {}, slots |-> [s \in 1 .. 4 |-> NoEntry], hints |-> {}, iso |-> FALSE,
          alt_ok |-> TRUE, entry_size |-> 128, alternate_lba |-> 400,
          partition_entry_lba |-> 2, entries |-> <<>>]

MBRImages ==
  {[Blank EXCEPT !.slots = s, !.hints = h] :
     s \in [1 .. 4 -> SlotKinds], h \in {{}, {"NTFS", "FAT@54"}, {"ext"}}}

EntryKinds ==
  {[Entry("bios", 0, 0) EXCEPT !.used = FALSE, !.type = "none"], Entry("bios", 64, 127),
   Entry("bios", 64, 126), Entry("bios", 80, 79), Entry("esp", 63, 200), Entry("basic", 50, 59),
   Entry("linux", 70, 200), [Entry("bios", 64, 200) EXCEPT !.hints = {"ext"}],
   [Entry("linux", 64, 200) EXCEPT !.hints = {"FAT@82", "FAT32"}],
   Entry("esp", 16450559, 16450560), Entry("bios", 5000000, 6000000),
   Entry("hfs", 500, 20000001), Entry("esp", 20000001, 20000002), Entry("bios", 64, 5000000),
   Entry("basic", 4500000, 4500100)}

Later == {Entry("esp", 210, 300), Entry("bios", 210, 300), Entry("hfs", 310, 309)}
Five == [k \in 1 .. 5 |-> Entry("basic", 100 + 10 * k, 105 + 10 * k)]
Lists == {<<e>> : e \in EntryKinds}
           \cup {l \in EntryKinds \X Later : l[1].end < l[2].start \/ l[1].start > l[2].end}
           \cup {<<>>, SubSeq(Five, 1, 4), Five}

GPTImages ==
  {[Blank EXCEPT !.sigs = lb, !.entries = l, !.iso = TRUE, !.alternate_lba = alt] :
     lb \in {{512}, {4096}}, l \in Lists, alt \in {31, 32, 33, 400, 5000000}}
    \cup {[Blank EXCEPT !.sigs = {512, 4096}, !.entries = l, !.alt_ok = ok, !.iso = iso,
                        !.entry_size = size, !.partition_entry_lba = lba] :
     l \in Lists, ok \in BOOLEAN, iso \in BOOLEAN, size \in {64, 128, 256},
     lba \in {2, 4194303, 5000000}}

Arg(text) == [text |-> text, number |-> -1]
Index(number) == [text |-> "index", number |-> number]      \* -2: not a number
Force == Arg("--force")
MCArgs == {<<Arg("img")>>, <<Arg("img"), Force>>, <<Arg("--no-gpt-to-mbr"), Arg("img"), Index(2)>>,
           <<Arg("img"), Index(0)>>, <<Arg("img"), Index(1), Force>>, <<Arg("img"), Index(-2)>>,
           <<Force, Arg("--help")>>, <<Arg("nofile")>>, <<Arg("img"), Arg("--uninstall")>>,
           <<Arg("--uninstall-data-file="), Arg("img")>>, <<Force>>}

VARIABLES phase, img, opt, lb_size, slots, hints, slot, part_to_conv, any_active, mbr, target, writes

bios_vars == <<phase, img, opt, lb_size, slots, hints, slot, part_to_conv, any_active, mbr, target,
               writes>>

B == INSTANCE BiosInstall WITH
       Images <- MBRImages \cup GPTImages, ArgLists <- MCArgs, UINT32_MAX <- 20000000,
       UINT64_MAX <- 2147483646, bootloader_file_size <- 22591, pc <- phase, i <- slot
-----------------------------------------------------------------------------
NoEnroll ==
  /\ pc = "none" /\ argv = <<>> /\ n = 0 /\ reset = FALSE /\ file = <<>> /\ orig = <<>> /\ i = 0
  /\ checked_count = 0 /\ checksum_loc = 0 /\ given = <<>>

FirstDevice == DeviceInit /\ plan = Stages(4)

NoInstall ==
  /\ phase = "none" /\ img = 0 /\ opt = 0 /\ lb_size = 0 /\ slots = 0 /\ hints = 0 /\ slot = 0
  /\ part_to_conv = 0 /\ any_active = 0 /\ mbr = 0 /\ target = 0 /\ writes = 0

MCInit ==
  \/ part = "enroll" /\ Init /\ FirstDevice /\ NoInstall
  \/ part = "device" /\ NoEnroll /\ DeviceInit /\ NoInstall
  \/ part = "bios" /\ NoEnroll /\ FirstDevice /\ B!Init

MCNext ==
  /\ \/ part = "enroll" /\ Next /\ UNCHANGED <<device_vars, bios_vars>>
     \/ part = "device" /\ DeviceNext /\ UNCHANGED <<vars, bios_vars>>
     \/ part = "bios" /\ B!Next /\ UNCHANGED <<vars, device_vars>>
  /\ UNCHANGED part

\* A sequential program goes on until it exits.
MCSpec ==
  /\ MCInit /\ [][MCNext]_<<part, vars, device_vars, bios_vars>>
  /\ WF_<<part, vars, device_vars, bios_vars>>(MCNext)
-----------------------------------------------------------------------------
Bios == part = "bios"

\* No write of bios_install reaches a partition it is not told to install to, without
\* --force nothing that was recognised is overwritten, and there are no more device_write
\* calls than the undo log has entries; and the device layer, which writes whole blocks,
\* keeps every byte outside those writes through every failure.
PartitionsKept == OthersKept /\ (Bios => B!PartitionsKept /\ B!NothingForced /\ B!LogFits)

\* The table bios_install leaves: after a conversion neither header of the GPT is left to
\* be found and the entries are the partitions of the GPT, in order, at their blocks; and
\* the active entries of an MBR stay the active ones, or the first becomes active.
TableRight == Bios => B!NoGptLeft /\ B!TableConverted /\ B!ActiveKept

\* Every command ends: the search of enroll_config, whose index runs backwards, the
\* retries of uninstall, and bios_install.
CommandsEnd ==
  <>[](CASE part = "enroll" -> pc \in {"success", "failure"}
         [] part = "bios" -> B!Done
         [] OTHER -> run.pc = "exit")
=============================================================================
