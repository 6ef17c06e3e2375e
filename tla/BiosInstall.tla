---------------------------- MODULE BiosInstall ----------------------------
(***************************************************************************)
(* bios_install of limine-binary/limine.c: what it reads of an image, what *)
(* it decides, and the list of the ranges it writes. An image is a record  *)
(* of the fields that are read; the device layer, with its errors and its  *)
(* undo log, is LimineDevice: here a failure empties the list.             *)
(***************************************************************************)
EXTENDS Integers, Sequences, SequencesExt, FiniteSets

CONSTANTS
  Images,       \* the images to install on
  ArgLists,     \* command lines, without the program name
  UINT32_MAX, UINT64_MAX,        \* the widths, scaled down
  bootloader_file_size

VARIABLES
  pc,      \* phase of bios_install
  img,     \* the image as it was (history)
  opt,     \* what the arguments say
  lb_size, \* logical block size; 0 when gpt == 0
  slots,   \* the four MBR partition entries on the device
  hints,   \* file system signatures at the boot sector
  i,       \* loop index
  part_to_conv,
  any_active, mbr,
  target,  \* the GPT entry chosen for stage 2
  writes   \* the ranges written so far, undone ones excluded

vars == <<pc, img, opt, lb_size, slots, hints, i, part_to_conv, any_active, mbr, target, writes>>

mul_u64_overflow(a, b) == a # 0 /\ b > UINT64_MAX \div a
add_u64_overflow(a, b) == a > UINT64_MAX - b
W(loc, count) == <<[loc |-> loc, count |-> count]>>
Ranges(n, Op(_)) == [j \in 1 .. n |-> Op(j - 1)]
-----------------------------------------------------------------------------
NoPart == -1
BadPart == -2
NoOptions == [exit |-> "no", force |-> FALSE, conv |-> TRUE, uninstall |-> FALSE,
              device |-> FALSE, part |-> NoPart]

\* The loop over argv. A positional argument is the device first, then the
\* number of a partition: what sscanf yields, BadPart when it fails.
Argument(o, a) ==
  CASE o.exit # "no"          -> o
    [] a.text = "--help"           -> [o EXCEPT !.exit = "success"]
    [] a.text = "--quiet"          -> o
    [] a.text = "--force"          -> [o EXCEPT !.force = TRUE]
    [] a.text = "--no-gpt-to-mbr"  -> [o EXCEPT !.conv = FALSE]
    [] a.text = "--uninstall"      -> [o EXCEPT !.uninstall = TRUE]
    [] a.text = "--uninstall-data-file=" -> [o EXCEPT !.exit = "failure"]
    [] a.text = "nofile" /\ ~o.device -> [o EXCEPT !.exit = "failure"]
    [] ~o.device              -> [o EXCEPT !.device = TRUE]
    [] OTHER                  -> [o EXCEPT !.part = a.number]

ParseArgs(args) ==
  LET o == FoldLeft(Argument, NoOptions, args)
  IN IF o.exit = "no" /\ ~o.device THEN [o EXCEPT !.exit = "failure"] ELSE o

Stay(vs) == UNCHANGED <<img, opt>> /\ UNCHANGED vs

\* goto cleanup with EXIT_FAILURE: the writes are reversed.
Cleanup ==
  /\ pc' = "failure" /\ writes' = <<>> /\ slots' = img.slots /\ hints' = img.hints
  /\ Stay(<<lb_size, i, part_to_conv, any_active, mbr, target>>)

Start ==
  /\ pc = "start"
  /\ \/ opt.exit # "no" /\ pc' = opt.exit /\ Stay(<<lb_size>>)
     \/ opt.exit = "no" /\ opt.uninstall /\ pc' = "uninstall" /\ Stay(<<lb_size>>)
     \/ /\ opt.exit = "no" /\ ~opt.uninstall /\ pc' = IF img.sigs = {} THEN "mbr" ELSE "gpt"
        /\ lb_size' = IF 512 \in img.sigs THEN 512 ELSE IF 4096 \in img.sigs THEN 4096 ELSE 0
        /\ Stay(<<>>)
  /\ UNCHANGED <<slots, hints, i, part_to_conv, any_active, mbr, target, writes>>

EntryOverflow(n) == add_u64_overflow(img.partition_entry_lba * lb_size, n * img.entry_size)

\* The checks of the header and of the secondary one, and whether a conversion
\* is to be tried.
GptHeaders ==
  /\ pc = "gpt"
  /\ LET ok == /\ img.entry_size >= 128 /\ img.alt_ok
               /\ ~mul_u64_overflow(lb_size, img.alternate_lba)
     IN \/ ~ok /\ Cleanup
        \/ /\ ok /\ pc' = IF opt.conv /\ img.iso /\ ~mul_u64_overflow(img.partition_entry_lba, lb_size)
                          THEN "gather" ELSE "target"
           /\ Stay(<<lb_size, slots, hints, i, part_to_conv, any_active, mbr, target, writes>>)
-----------------------------------------------------------------------------
gpt2mbr_type(t) ==
  CASE t = "esp" -> 239 [] t = "basic" -> 7 [] t = "hfs" -> 175 [] OTHER -> -1

\* Head, sector with the high bits of the cylinder, and its low bits.
lba2chs(lba) ==
  LET cylinder == lba \div (255 * 63)
  IN IF lba > 63 * 255 * 1024 \/ cylinder >= 1024 THEN <<254, 255, 255>>
     ELSE <<(lba \div 63) % 255, 64 * (cylinder \div 256) + (lba % 63) + 1, cylinder % 256>>

\* Mutant of SectorCount: the last block is not counted.
SectorCountShort(e) == (e.end - e.start) % (UINT64_MAX + 1)

SectorCount(e) == (e.end - e.start + 1) % (UINT64_MAX + 1)

Room == Len(part_to_conv) < 4

Convertible(e) ==
  /\ Room /\ e.start <= UINT32_MAX /\ e.end <= UINT32_MAX /\ SectorCount(e) <= UINT32_MAX
  /\ gpt2mbr_type(e.type) # -1

\* One GPT entry of the conversion; goto no_mbr_conv keeps the GPT.
Gather ==
  /\ pc = "gather" /\ i < Len(img.entries)
  /\ LET e == img.entries[i + 1]
         stop == EntryOverflow(i) \/ (e.used /\ ~Convertible(e))
     IN \/ ~stop /\ ~e.used /\ i' = i + 1 /\ UNCHANGED <<pc, part_to_conv>>
        \/ stop /\ pc' = "target" /\ i' = 0 /\ UNCHANGED part_to_conv
        \/ /\ ~stop /\ e.used /\ i' = i + 1 /\ UNCHANGED pc
           /\ part_to_conv' = Append(part_to_conv,
                [status |-> 0, type |-> gpt2mbr_type(e.type), start |-> e.start,
                 count |-> SectorCount(e), chs |-> <<lba2chs(e.start), lba2chs(e.end)>>])
  /\ Stay(<<lb_size, slots, hints, any_active, mbr, target, writes>>)

NukePrimary == Ranges(34, LAMBDA j : W(j * lb_size, lb_size)[1])

\* The blocks from alternate_lba - 32 on; nothing for a smaller one.
NukeBehind(n) ==
  IF img.alternate_lba < 32 THEN <<>>
  ELSE Ranges(n, LAMBDA j : W((img.alternate_lba - 32 + j) * lb_size, lb_size)[1])

NukeSecondary == NukeBehind(33)

\* The disk id and, per partition, type, start, count and both CHS addresses.
TableWrites(n) ==
  Ranges(4, LAMBDA j : W(440 + j, 1)[1])
    \o FlattenSeq(Ranges(n, LAMBDA j : LET e == 446 + 16 * j
         IN W(e + 4, 1) \o W(e + 8, 4) \o W(e + 12, 4) \o W(e + 1, 3) \o W(e + 5, 3)))

EmptySlot == [status |-> 0, type |-> 0, start |-> 0, count |-> 0, chs |-> <<>>]

Convert ==
  /\ pc = "gather" /\ i = Len(img.entries)
  /\ writes' = writes \o NukePrimary \o NukeSecondary \o TableWrites(Len(part_to_conv))
  /\ slots' = [j \in 1 .. 4 |-> IF j <= Len(part_to_conv) THEN part_to_conv[j] ELSE EmptySlot]
  /\ hints' = {}
  /\ lb_size' = 0 /\ i' = 0 /\ pc' = "mbr"
  /\ Stay(<<part_to_conv, any_active, mbr, target>>)
-----------------------------------------------------------------------------
Active(s) == s.status >= 128

\* Mutant of TooLow: a partition behind a GPT sized gap is accepted.
TooLowGpt(s) == s.type # 0 /\ s.start < 34

TooLow(s) == s.type # 0 /\ s.start < 63

\* One of the four entries of the MBR.
MbrSlot ==
  /\ pc = "mbr" /\ i < 4
  /\ LET n == i + 1
         s == slots[n]
         bad == s.status \notin {0, 128}
         t == IF bad /\ opt.force THEN [s EXCEPT !.status = IF Active(s) THEN 128 ELSE 0] ELSE s
     IN \/ TooLow(s) /\ Cleanup
        \/ /\ ~TooLow(s) /\ i' = n
           /\ slots' = [slots EXCEPT ![n] = t]
           /\ mbr' = (mbr /\ (bad => opt.force))
           /\ any_active' = (any_active \/ Active(s))
           /\ writes' = IF s = t THEN writes ELSE writes \o W(446 + 16 * i, 1)
           /\ Stay(<<pc, lb_size, hints, part_to_conv, target>>)

\* The signatures in the order they are looked for, with what is zeroed.
HintPlaces == <<[hint |-> "NTFS", off |-> 3, len |-> 4], [hint |-> "FAT@54", off |-> 54, len |-> 5],
                [hint |-> "FAT@82", off |-> 82, len |-> 5], [hint |-> "FAT32", off |-> 3, len |-> 5],
                [hint |-> "ext", off |-> 1080, len |-> 2]>>

validate_or_force(h, force) == force \/ h = {}

HintWrites(h, base) ==
  LET found == SelectSeq(HintPlaces, LAMBDA p : p.hint \in h)
  IN [j \in DOMAIN found |-> W(base + found[j].off, found[j].len)[1]]

SetActive == mbr /\ ~any_active

MbrChecked ==
  /\ pc = "mbr" /\ i = 4
  /\ \/ ~mbr /\ Cleanup
     \/ mbr /\ ~validate_or_force(hints, opt.force) /\ Cleanup
     \/ /\ mbr /\ validate_or_force(hints, opt.force)
        /\ writes' = writes \o HintWrites(hints, 0) \o IF SetActive THEN W(446, 1) ELSE <<>>
        /\ slots' = IF SetActive THEN [slots EXCEPT ![1].status = 128] ELSE slots
        /\ hints' = {} /\ pc' = "write"
        /\ Stay(<<lb_size, i, part_to_conv, any_active, mbr, target>>)
-----------------------------------------------------------------------------
\* The entry the user names: partition_num-- wraps at 0.
Chosen == 1 + ((opt.part - 1) % (UINT32_MAX + 1))
ChosenOk ==
  /\ opt.part # BadPart /\ Chosen <= Len(img.entries)
  /\ ~EntryOverflow(Chosen - 1) /\ img.entries[Chosen].used
  /\ opt.force \/ img.entries[Chosen].type = "bios"

ChooseTarget ==
  /\ pc = "target"
  /\ LET boot == {n \in DOMAIN img.entries : img.entries[n].type = "bios"}
         found == IF mul_u64_overflow(img.partition_entry_lba, lb_size) THEN {}
                  ELSE IF opt.part = NoPart
                  THEN {n \in boot : ~EntryOverflow(n - 1) /\ \A m \in boot : n <= m}
                  ELSE IF ChosenOk THEN {Chosen} ELSE {}
     IN \/ found = {} /\ Cleanup
        \/ /\ target' \in found /\ pc' = "fits"
           /\ Stay(<<lb_size, slots, hints, i, part_to_conv, any_active, mbr, writes>>)

LargeEnough(e) ==
  /\ e.end >= e.start /\ ~mul_u64_overflow(e.end - e.start + 1, lb_size)
  /\ (e.end - e.start + 1) * lb_size >= 32768
  /\ ~mul_u64_overflow(e.start, lb_size)

CheckTarget ==
  /\ pc = "fits"
  /\ LET e == img.entries[target]
         ok == LargeEnough(e) /\ validate_or_force(e.hints, opt.force)
     IN \/ ~ok /\ Cleanup
        \/ /\ ok /\ pc' = "write"
           /\ writes' = writes \o HintWrites(e.hints, e.start * lb_size)
           /\ Stay(<<lb_size, slots, hints, i, part_to_conv, any_active, mbr, target>>)

stage2_loc == IF lb_size = 0 THEN 512 ELSE img.entries[target].start * lb_size

\* Boot sector, stage 2, its location, the saved timestamp and table.
WriteStages ==
  /\ pc = "write" /\ pc' = "success"
  /\ writes' = writes \o W(0, 512) \o W(stage2_loc, bootloader_file_size - 512)
                 \o W(420, 8) \o W(218, 6) \o W(440, 70)
  /\ Stay(<<lb_size, slots, hints, i, part_to_conv, any_active, mbr, target>>)

Done == pc \in {"success", "failure", "uninstall"}

\* A device_read, a device_write or calloc fails.
IOError == ~Done /\ opt.exit = "no" /\ Cleanup

Init ==
  /\ pc = "start" /\ img \in Images /\ opt \in {ParseArgs(a) : a \in ArgLists}
  /\ lb_size = 0 /\ slots = img.slots /\ hints = img.hints /\ i = 0 /\ part_to_conv = <<>>
  /\ any_active = FALSE /\ mbr = TRUE /\ target = 0 /\ writes = <<>>

Next ==
  \/ Start \/ GptHeaders \/ Gather \/ Convert
  \/ MbrSlot \/ MbrChecked \/ ChooseTarget \/ CheckTarget \/ WriteStages \/ IOError

Spec == Init /\ [][Next]_vars
-----------------------------------------------------------------------------
Written(loc) == \E n \in DOMAIN writes :
                  writes[n].loc <= loc /\ loc + 92 <= writes[n].loc + writes[n].count

Installed == pc = "success" /\ opt.exit = "no"
GptLb == IF 512 \in img.sigs THEN 512 ELSE 4096
Converted == Installed /\ lb_size = 0 /\ img.sigs # {}
UsedEntries == SelectSeq(img.entries, LAMBDA e : e.used)

\* The blocks of the partitions that bios_install is not told to install to.
Partitions ==
  IF img.sigs = {}
  THEN {[first |-> s.start, last |-> s.start + s.count - 1] :
          s \in {img.slots[n] : n \in {m \in 1 .. 4 : img.slots[m].type # 0}}}
  ELSE {[first |-> e.start, last |-> e.end] :
          e \in {img.entries[n] : n \in {m \in DOMAIN img.entries :
                   m # target /\ img.entries[m].used}}}

\* Boot sector, stage 2, signatures and wiped tables never reach a partition:
\* the 63 sectors before an MBR partition (limine.c:975) and 32 KiB of a BIOS
\* boot partition (limine.c:1147) hold all of bootloader_img.
PartitionsKept ==
  LET lb == IF img.sigs = {} THEN 512 ELSE GptLb
  IN Installed => \A a \in Partitions : \A n \in DOMAIN writes :
       \/ (writes[n].loc + writes[n].count - 1) \div lb < a.first
       \/ writes[n].loc \div lb > a.last

\* After a conversion neither header of the GPT is left to be found, wherever
\* the alternate one was (limine.c:904-920).
NoGptLeft ==
  Converted => \A loc \in img.sigs \cup {img.alternate_lba * GptLb} :
                 Written(loc)

\* The block that a CHS address stands for.
FromChs(chs) ==
  ((chs[3] + 256 * (chs[2] \div 64)) * 255 + chs[1]) * 63 + (chs[2] % 64) - 1

\* A converted table lists the partitions of the GPT, in order, at their blocks;
\* a CHS address gives the same block, or the largest when it has no room for it
\* (limine.c:151-172, 932-942).
TableConverted ==
  Converted => \A n \in 1 .. 4 :
    IF n <= Len(UsedEntries)
    THEN /\ slots[n].start = UsedEntries[n].start
         /\ slots[n].start + slots[n].count = UsedEntries[n].end + 1
         /\ LET want == <<UsedEntries[n].start, UsedEntries[n].end>>
            IN \A j \in 1 .. 2 : IF want[j] < 1024 * 255 * 63
                                 THEN FromChs(slots[n].chs[j]) = want[j]
                                 ELSE slots[n].chs[j] = <<254, 255, 255>>
    ELSE slots[n].type = 0

\* An MBR boots: the entries that were active are the active ones, or, when there
\* was none, the first (limine.c:1048-1055).
ActiveKept ==
  Installed /\ lb_size = 0 =>
    LET was == IF Converted THEN {} ELSE {n \in 1 .. 4 : Active(img.slots[n])}
    IN {n \in 1 .. 4 : Active(slots[n])} = IF was = {} THEN {1} ELSE was

\* Without --force nothing recognised is overwritten: neither a file system at the
\* boot sector or in the partition for stage 2, nor an MBR with a bad status, nor a
\* partition of another type than BIOS boot (limine.c:1058-1064, 1163-1169).
NothingForced ==
  Installed /\ ~opt.force =>
    IF lb_size = 0
    THEN Converted \/ (img.hints = {} /\ \A n \in 1 .. 4 : img.slots[n].status \in {0, 128})
    ELSE img.entries[target].hints = {} /\ img.entries[target].type = "bios"

\* limine.c:475: an install makes no more device_write calls than there are
\* entries in the undo log.
LogFits == Len(writes) <= 256
=============================================================================
