--------------------------------- MODULE Boot0 ---------------------------------
(***************************************************************************)
(* The boot sector, src/boot0/boot0.s: it loads boot1 as its header says,  *)
(* checks the CRC and jumps.  It runs on a disk that BootImage's build has *)
(* made, in memory that an earlier boot has used, on the BIOS's stack and  *)
(* then one of its own, with the timer's interrupts on.                    *)
(*                                                                         *)
(* Addresses wrap at MEM, the 64 kilobytes of a segment, and so does the   *)
(* 16-bit counter of the CRC loop.                                         *)
(***************************************************************************)
EXTENDS BootImage

CONSTANTS
  MEM,         \* cells of a segment
  LOAD,        \* where the image is loaded, 0x500
  STACK_TOP,   \* boot0's stack pointer, 0x7400
  BOOT0,       \* where the BIOS loads boot0, 0x7C00
  AL_SIZE,     \* the values of AL, which counts sectors
  BiosStacks,  \* stack pointers that the BIOS starts boot0 with
  FRAME,       \* cells that an interrupt or the BIOS puts on the stack
  Drives,      \* the BIOS drives it may be started from
  MaxBoots     \* bound: times the machine is started

ASSUME Boot0Assumption ==
  /\ MEM \in Nat
  /\ {LOAD, STACK_TOP, BOOT0} \cup BiosStacks \subseteq 0 .. MEM - 1
  /\ FRAME \in Nat \ {0}
  /\ AL_SIZE \in Nat \ {0}

(* boot0 itself puts two more cells below them at most: where print and    *)
(* putc return to, or the entry point.                                     *)
DEPTH == FRAME + 2

(* How boot0 shares the segment.  The first sector is read below its       *)
(* stack, and any image that stays below the stack has its last sector     *)
(* read below boot0, with a number of sectors that AL holds; tc.hdr is     *)
(* behind what there is room for below boot0.  The BIOS's stack is not in  *)
(* any of this: it is below the image, between the stack's top and boot0,  *)
(* or above boot0.                                                         *)
ASSUME PlacesAssumption ==
  /\ LOAD + SECTOR <= STACK_TOP - DEPTH
  /\ STACK_TOP + SECTOR <= BOOT0
  /\ BOOT0 + SECTOR <= MEM
  /\ BOOT0 - LOAD <= (TCHDR - 1) * SECTOR
  /\ (STACK_TOP - DEPTH - LOAD) \div SECTOR + 1 < AL_SIZE
  /\ \A p \in BiosStacks :
       \/ p <= LOAD
       \/ STACK_TOP + SECTOR <= p /\ p <= BOOT0
       \/ BOOT0 + SECTOR + DEPTH <= p

Address == 0 .. MEM - 1
Boot0Code == BOOT0 .. BOOT0 + SECTOR - 1
biosdev == BOOT0 + SECTOR - 1   \* the cell of the variable, among boot0's own
Fresh == [a \in Address |-> Other("ram")]

VARIABLES
  pc,
  mem,       \* memory
  sp,        \* stack pointer
  dl,        \* register DL
  shown,     \* the message on the screen
  boots,     \* times it has been started
  drive,     \* history: the drive of this boot
  readError  \* history: this boot has met a disk error

started == <<boots, drive>>
boot == <<pc, mem, sp, dl, shown, started, readError>>
vars == <<image, boot>>

Ended == {"off", "end", "wild", "boot1"}

Boot0Init == /\ pc = "off"
             /\ mem = Fresh
             /\ sp \in BiosStacks
             /\ dl = Num(0)
             /\ shown = "none"
             /\ boots = 0
             /\ drive = Num(0)
             /\ readError = FALSE

(* The n cells below the stack pointer. *)
Below(p, n) == p - n .. p - 1
Pushed(m, p, n) == [a \in Address |-> IF a \in Below(p, n) THEN Other("stack") ELSE m[a]]

(* What the disk holds from its second sector on; another disk, anything.  *)
DiskCell(k) ==
  IF mem[biosdev] = drive /\ k < Len(disk) THEN disk[k + 1] ELSE Other("dummy")

Read(m, n) == [a \in Address |-> IF a \in LOAD .. LOAD + n - 1 THEN DiskCell(a - LOAD) ELSE m[a]]

Header(off) == mem[LOAD + off]

(* Power, or a reset, at which memory may keep what an earlier boot left   *)
(* in it.  The BIOS hands over the drive in DL.                            *)
PowerOn ==
  /\ build = "built"
  /\ pc \in Ended
  /\ boots < MaxBoots
  /\ boots' = boots + 1
  /\ pc' = "start"
  /\ sp' \in BiosStacks
  /\ \E m \in {mem, Fresh} :
       mem' = [a \in Address |-> IF a \in Boot0Code THEN Other("boot0") ELSE m[a]]
  /\ drive' \in {Num(d) : d \in Drives}
  /\ dl' = drive'
  /\ shown' = "none"
  /\ readError' = FALSE
  /\ UNCHANGED image

(* _start saves the drive and prints the banner, over the BIOS's stack,    *)
(* which holds where print and putc return to, and what the BIOS puts there. *)
Start ==
  /\ pc = "start"
  /\ mem' = Pushed([mem EXCEPT ![biosdev] = dl], sp, DEPTH)
  /\ shown' = "BANNERMSG"
  /\ pc' = "load_header"
  /\ UNCHANGED <<sp, dl, started, readError, image>>

(* copy_sectors asks for the drive in memory; pc is where it leads to.     *)
copy_sectors(n, next) ==
  /\ dl' = mem[biosdev]
  /\ mem' = Read(Pushed(mem, sp, FRAME + 1), n)
  /\ pc' = next
  /\ UNCHANGED <<sp, shown, started, image>>

DiskError(n) == readError' = TRUE /\ copy_sectors(n, "error_disk")

LoadHeader ==
  /\ pc = "load_header"
  /\ \/ copy_sectors(SECTOR, "load_image") /\ UNCHANGED readError
     \/ DiskError(0)

(* Mutant: no sector for what is left over. *)
SectorsDown == Header(OFF_LOADSZ)[2] \div SECTOR

Sectors == (Header(OFF_LOADSZ)[2] \div SECTOR + 1) % AL_SIZE

(* What the read must not land on while it is under way: the code that     *)
(* asked for it and the stack it returns by.  What runs after that, and    *)
(* what memory it leaves, is anybody's guess.                              *)
InUse == Boot0Code \cup Below(sp, FRAME + 1)
Overrun(n) == (LOAD .. LOAD + n * SECTOR - 1) \cap InUse # {}

GoWild ==
  /\ pc' = "wild"
  /\ mem' = Fresh
  /\ UNCHANGED <<sp, dl, shown, started, image>>

(* The image, header included, is read in one go.  The BIOS refuses to     *)
(* read no sectors; an error may come after any number of them.            *)
LoadImage ==
  /\ pc = "load_image"
  /\ \/ /\ Sectors > 0
        /\ ~Overrun(Sectors)
        /\ copy_sectors(Sectors * SECTOR, "crc")
        /\ UNCHANGED readError
     \/ Overrun(Sectors) /\ GoWild /\ UNCHANGED readError
     \/ \E n \in 0 .. Sectors : ~Overrun(n) /\ DiskError(n * SECTOR)

(* Mutant: 0 bytes are 0 bytes. *)
CrcCountZero == Header(OFF_CRCSZ)[2] % MEM

CrcCount == LET n == Header(OFF_CRCSZ)[2] % MEM IN IF n = 0 THEN MEM ELSE n

(* Mutant: EBX is gone by the time it is compared. *)
CrcOfMemoryLost == Header(OFF_CRC)

CrcOfMemory == Crc([k \in 1 .. CrcCount |-> mem[(LOAD + Header(OFF_SKIP)[2] + k - 1) % MEM]])

Push(from, next) ==
  /\ pc = from
  /\ mem' = Pushed(mem, sp, 1)
  /\ sp' = sp - 1
  /\ pc' = next
  /\ UNCHANGED <<shown, started, readError, image>>

CallCrc == Push("crc", "crc32") /\ UNCHANGED dl

(* DL is a counter of the CRC, and 0 after it. *)
CheckCrc ==
  /\ pc = "crc32"
  /\ sp' = sp + 1
  /\ dl' = Num(0)
  /\ pc' = IF CrcOfMemory = Header(OFF_CRC) THEN "set_stack" ELSE "error_crc"
  /\ UNCHANGED <<mem, shown, started, readError, image>>

print(message, from) ==
  /\ pc = from
  /\ mem' = Pushed(mem, sp, DEPTH)
  /\ shown' = message
  /\ pc' = "end"
  /\ UNCHANGED <<sp, dl, started, readError, image>>

error_disk == print("DISKERRMSG", "error_disk")
error_crc == print("CRCERRMSG", "error_crc")

SetStackTo(top) ==
  /\ pc = "set_stack"
  /\ sp' = top
  /\ pc' = "push_segment"
  /\ UNCHANGED <<mem, dl, shown, started, readError, image>>

(* Mutant: a digit of the stack's address is missing. *)
SetStackShort == SetStackTo(STACK_TOP \div 2)

SetStack == SetStackTo(STACK_TOP)

(* The drive goes back into DL, and the entry point's segment and offset   *)
(* on the stack, for the far return to take them off again.                *)
PushSegment == Push("push_segment", "push_offset") /\ dl' = mem[biosdev]
PushOffset == Push("push_offset", "retf") /\ UNCHANGED dl

Retf ==
  /\ pc = "retf"
  /\ sp' = sp + 2
  /\ pc' = "boot1"
  /\ UNCHANGED <<mem, dl, shown, started, readError, image>>

(* A timer interrupt, at any moment, on whatever stack there is. *)
Tick ==
  /\ pc \notin Ended
  /\ mem' = Pushed(mem, sp, FRAME)
  /\ UNCHANGED <<pc, sp, dl, shown, started, readError, image>>

Boot0Step ==
  \/ Start \/ LoadHeader \/ LoadImage \/ CallCrc \/ CheckCrc
  \/ SetStack \/ PushSegment \/ PushOffset \/ Retf \/ error_disk \/ error_crc

(* A build, for which the machine gives up the disk it may have run from.  *)
(* Nothing in it looks at the registers or the screen before the next      *)
(* start, which sets them.                                                 *)
Rebuild ==
  /\ Make
  /\ pc \in Ended
  /\ pc' = "off"
  /\ sp' \in BiosStacks
  /\ dl' = Num(0)
  /\ shown' = "none"
  /\ drive' = Num(0)
  /\ readError' = FALSE
  /\ UNCHANGED <<mem, boots>>

Continue == BuildStep /\ UNCHANGED boot

Init == BuildInit /\ Boot0Init
Next == Rebuild \/ Continue \/ PowerOn \/ Boot0Step \/ Tick

Spec == Init /\ [][Next]_vars
-----------------------------------------------------------------------------
(* The cells that the stacks take once the CRC has been taken: boot0's own *)
(* with the entry point on it, and the BIOS's with crc32's return address. *)
StackCells == Below(STACK_TOP, DEPTH) \cup UNION {Below(p, FRAME + 1) : p \in BiosStacks}

(* boot1 is entered only if all of it, as it was compiled for the disk in  *)
(* the drive, is in memory, whatever was written, read or left there by an *)
(* earlier boot: except where the stack is, for what boot0 pushes and      *)
(* interrupts push after the check is not checked.  It is told the drive   *)
(* that it was booted from.                                                *)
InMemory(k) == mem[LOAD + k - 1] = Linked(version, Len(file))[k]

RunsWhatWasBuilt ==
  pc = "boot1" =>
    /\ \A k \in OFF_ENTRY + 1 .. Len(file) : InMemory(k) \/ LOAD + k - 1 \in StackCells
    /\ dl = drive

(* The largest image that stays below the stack, and above which nothing   *)
(* in the build or in boot0 says that it is too large.                     *)
SafeSize == STACK_TOP - DEPTH - LOAD

RunsUntouched ==
  pc = "boot1" /\ Len(file) <= SafeSize =>
    \A k \in OFF_ENTRY + 1 .. Len(file) : InMemory(k)

(* boot1 is entered only from a disk that the build has got right: not     *)
(* after an error that genhdr has not noticed, and not if dd has put       *)
(* tc.hdr over a part of it.  Only the size to load may be missing, when   *)
(* one sector is enough or memory still has the rest from an earlier boot. *)
EntersOnlyWhole ==
  pc = "boot1" =>
    /\ HeaderRight([file EXCEPT ![OFF_LOADSZ + 1] = Num(Len(file))], version)
    /\ disk = file

(* A disk that was built right boots, unless it cannot be read or its      *)
(* image is too large: boot0 refuses no good image, loses its way in none, *)
(* and reaches boot1 or says that the disk is at fault.                    *)
GoodDisk == disk # <<>> /\ HeaderRight(disk, version) /\ Len(disk) <= SafeSize

GoodDiskBoots ==
  pc \in {"end", "wild"} /\ GoodDisk => readError /\ shown = "DISKERRMSG"
=============================================================================
