------------------------------ MODULE Boot0Proofs ------------------------------
(***************************************************************************)
(* Proofs about the image on its way from the linker into memory, for      *)
(* every size of an image and of a sector, every place of boot0 and the    *)
(* stacks that PlacesAssumption allows, every failure of a read or a write *)
(* in the build and every number of boots.  Then, of the CRC that boot0    *)
(* and genhdr agree on, for buffers of every length.                       *)
(***************************************************************************)
EXTENDS Boot0, Crc32, SequenceTheorems, WellFoundedInduction, TLAPS

Fields == {OFF_LOADSZ, OFF_CRC, OFF_CRCSZ}
Size == Len(file)

(* The CRC of the image, and what can be no CRC of memory: nothing, or     *)
(* something that genhdr has not read.                                     *)
GoodCrc == Crc(SubSeq(Linked(version, Size), HDR_LEN + 1, Size))
Spoilt(s) == s = <<>> \/ \E k \in DOMAIN s : s[k] = Other("unset")

CrcFieldInv ==
  \/ crc = GoodCrc /\ crcsz = Num(Size - HDR_LEN)
  \/ /\ unnoticed > 0
     /\ crc = Crc(crc[2]) /\ Spoilt(crc[2])
     /\ crcsz = Num(crcsz[2]) /\ crcsz[2] \in Nat

(* A field is zero up to the step that writes it, and has its value after  *)
(* it unless an error went unnoticed.                                      *)
FieldInv(off, val, before) ==
  /\ build \in before => file[off + 1] = Num(0)
  /\ build \notin before \cup {"none", "failed"} =>
       file[off + 1] = val \/ (file[off + 1] = Num(0) /\ unnoticed > 0)

BuildInv ==
  /\ build \in {"none", "read", "loadsz", "crcsz", "crc", "layout", "built", "failed"}
  /\ unnoticed \in Nat
  /\ build \notin {"none", "failed"} =>
       /\ Size \in ImageSizes
       /\ file = [k \in 1 .. Size |-> file[k]]
       /\ \A k \in 1 .. Size : k - 1 \notin Fields => file[k] = Linked(version, Size)[k]
  /\ FieldInv(OFF_LOADSZ, Num(Size), {"read", "loadsz"})
  /\ FieldInv(OFF_CRCSZ, crcsz, {"read", "loadsz", "crcsz"})
  /\ FieldInv(OFF_CRC, crc, {"read", "loadsz", "crcsz", "crc"})
  /\ build \notin {"none", "read", "failed"} => CrcFieldInv
  /\ build \notin {"built", "failed"} => disk = <<>>
  /\ build = "built" =>
       disk = [k \in 1 .. Size |->
                IF 1 + (k - 1) \div SECTOR = TCHDR THEN Other("tc.hdr") ELSE file[k]]

(* boot0 is where the BIOS has put it until it hands over, on one of the   *)
(* two stacks, and knows the drive from its first step on.  No cell of     *)
(* memory is one that genhdr has not read.                                 *)
Loading == {"start", "load_header", "load_image", "crc", "crc32", "error_disk", "error_crc"}
Leaving == {"push_segment", "push_offset", "retf"}

PlaceInv ==
  /\ pc \in Loading \cup Leaving \cup {"off", "set_stack", "boot1", "end", "wild"}
  /\ mem = [a \in Address |-> mem[a]]
  /\ \A a \in Address : mem[a] # Other("unset")
  /\ dl # Other("unset") /\ drive # Other("unset")
  /\ pc # "off" => build = "built"
  /\ pc \in (Loading \ {"crc32"}) \cup {"set_stack"} => sp \in BiosStacks
  /\ pc = "crc32" => sp \in Int /\ sp + 1 \in BiosStacks
  /\ pc = "push_segment" => sp = STACK_TOP
  /\ pc = "push_offset" => sp = STACK_TOP - 1
  /\ pc = "retf" => sp = STACK_TOP - 2
  /\ pc = "start" => dl = drive
  /\ pc \in (Loading \ {"start"}) \cup {"set_stack", "push_segment"} => mem[biosdev] = drive
  /\ pc \in {"push_offset", "retf"} => dl = drive
  /\ pc \in Loading => \A a \in Boot0Code \ {biosdev} : mem[a] = Other("boot0")

(* The header is in memory once its sector has been read, ... *)
HeaderInv ==
  pc \in {"load_image", "crc", "crc32"} =>
    \A off \in 0 .. HDR_LEN - 1 : Header(off) = file[off + 1]

(* ... and all of boot1 once its CRC has been checked, but for the stacks. *)
(* The CRC and its size are then right in the file.                        *)
LoadedInv ==
  /\ pc \in {"set_stack", "boot1"} \cup Leaving =>
       /\ Size <= BOOT0 - LOAD
       /\ file[OFF_CRC + 1] = GoodCrc /\ file[OFF_CRCSZ + 1] = Num(Size - HDR_LEN)
       /\ \A k \in OFF_ENTRY + 1 .. Size : InMemory(k) \/ LOAD + k - 1 \in StackCells
  /\ pc = "boot1" => dl = drive

(* A good disk is read as it is, and leads nowhere but to boot1 or to the  *)
(* message about it.                                                       *)
GoodInv ==
  GoodDisk =>
    /\ pc \in {"crc", "crc32"} => \A k \in 1 .. Len(disk) : mem[LOAD + k - 1] = disk[k]
    /\ pc \notin {"wild", "error_crc"}
    /\ pc = "error_disk" => readError
    /\ pc = "end" => readError /\ shown = "DISKERRMSG"

IndInv == BuildInv /\ PlaceInv /\ HeaderInv /\ LoadedInv /\ GoodInv

-----------------------------------------------------------------------------
LEMMA Distinct ==
  /\ \A a, b : Num(a) # Crc(b) /\ Num(a) # Other(b) /\ Crc(a) # Other(b)
  /\ \A a, b : Crc(a) = Crc(b) => a = b
  /\ \A a, b : <<"code", a>> # Other(b) /\ <<"code", a>> # Num(b) /\ <<"code", a>> # Crc(b)
  /\ \A a : Num(a)[2] = a
  /\ Other("stack") # Other("unset") /\ Other("ram") # Other("unset")
  /\ Other("dummy") # Other("unset") /\ Other("boot0") # Other("unset")
  /\ Other("tc.hdr") # Other("unset")
BY DEF Num, Crc, Other

LEMMA Offsets ==
  /\ OFF_LOADSZ = 0 /\ OFF_CRC = 1 /\ OFF_CRCSZ = 2 /\ OFF_SKIP = 3 /\ OFF_ENTRY = 4
  /\ HDR_LEN = 5 /\ Fields = {0, 1, 2}
BY DEF OFF_LOADSZ, OFF_CRC, OFF_CRCSZ, OFF_SKIP, OFF_ENTRY, HDR_LEN, Fields

LEMMA LinkedIs ==
  ASSUME NEW v, NEW n \in Nat
  PROVE  /\ Linked(v, n) = [k \in 1 .. n |-> Linked(v, n)[k]]
         /\ \A k \in 1 .. n :
              /\ k - 1 = OFF_SKIP => Linked(v, n)[k] = Num(HDR_LEN)
              /\ k - 1 \in Fields => Linked(v, n)[k] = Num(0)
              /\ k - 1 \notin Fields \cup {OFF_SKIP} => Linked(v, n)[k] = <<"code", <<v, k - 1>>>>
<1>1. Linked(v, n) = [k \in 1 .. n |-> CASE k - 1 = OFF_SKIP -> Num(HDR_LEN)
                                        [] k - 1 \in Fields -> Num(0)
                                        [] OTHER -> <<"code", <<v, k - 1>>>>]
  BY DEF Linked, Fields
<1>2. OFF_SKIP \notin Fields
  BY Offsets
<1> QED
  BY <1>1, <1>2

LEMMA FunctionIsSeq ==
  ASSUME NEW n \in Nat, NEW f, f = [k \in 1 .. n |-> f[k]]
  PROVE  Len(f) = n /\ DOMAIN f = 1 .. n /\ f \in Seq({f[k] : k \in 1 .. n})
<1> DEFINE S == {f[k] : k \in 1 .. n}
<1>1. f \in [1 .. n -> S]
  OBVIOUS
<1>2. DOMAIN f = 1 .. n
  OBVIOUS
<1> HIDE DEF S
<1>3. f \in Seq(S)
  BY <1>1
<1>4. Len(f) = n
  BY <1>2, <1>3, LenProperties
<1> QED
  BY <1>2, <1>3, <1>4 DEF S

(* The segment. *)
LEMMA Places ==
  /\ MEM \in Nat /\ LOAD \in Nat /\ STACK_TOP \in Nat /\ BOOT0 \in Nat /\ SECTOR \in Nat
  /\ FRAME \in Nat /\ FRAME > 0 /\ DEPTH \in Nat /\ DEPTH = FRAME + 2 /\ SECTOR > 5 /\ HDR_LEN = 5
  /\ LOAD + SECTOR + DEPTH <= STACK_TOP
  /\ STACK_TOP + SECTOR <= BOOT0
  /\ BOOT0 + SECTOR <= MEM
  /\ Address = 0 .. MEM - 1
  /\ Boot0Code = BOOT0 .. BOOT0 + SECTOR - 1 /\ biosdev = BOOT0 + SECTOR - 1
  /\ BiosStacks \subseteq Nat
  /\ \A p \in BiosStacks :
       \/ p <= LOAD
       \/ STACK_TOP + SECTOR <= p /\ p <= BOOT0
       \/ BOOT0 + SECTOR + DEPTH <= p
<1>1. MEM \in Nat /\ FRAME \in Nat /\ FRAME > 0 /\ SECTOR \in Nat /\ SECTOR > 5 /\ HDR_LEN = 5
  BY Boot0Assumption, ImageAssumption DEF HDR_LEN
<1>2. LOAD \in Nat /\ STACK_TOP \in Nat /\ BOOT0 \in Nat /\ BiosStacks \subseteq Nat
  BY <1>1, Boot0Assumption
<1>3. DEPTH \in Nat /\ DEPTH = FRAME + 2
  BY <1>1 DEF DEPTH
<1>4. LOAD + SECTOR + DEPTH <= STACK_TOP
  BY <1>1, <1>2, <1>3, PlacesAssumption
<1> QED
  BY <1>1, <1>2, <1>3, <1>4, PlacesAssumption DEF Address, Boot0Code, biosdev

(* Neither stack reaches boot0's code or an image that is not too large,   *)
(* the header least of all.                                                *)
SafeCells == LOAD .. STACK_TOP - DEPTH - 1

LEMMA StackApart ==
  ASSUME NEW b \in BiosStacks \cup {STACK_TOP}, NEW a \in Below(b, DEPTH)
  PROVE  a \notin Boot0Code /\ a \notin SafeCells
<1>1. a \in b - DEPTH .. b - 1 /\ b \in Nat
  BY Places DEF Below
<1>2. CASE b = STACK_TOP
  BY <1>1, <1>2, Places DEF SafeCells
<1>3. CASE b \in BiosStacks
  BY <1>1, <1>3, Places DEF SafeCells
<1> QED
  BY <1>2, <1>3

(* The order of the places. *)
LEMMA Room ==
  /\ LOAD \in Nat /\ BOOT0 \in Nat /\ MEM \in Nat /\ STACK_TOP \in Nat /\ DEPTH \in Nat
  /\ LOAD + 5 < STACK_TOP - DEPTH /\ STACK_TOP < BOOT0 /\ BOOT0 < MEM
BY Places

(* What the stack in use reaches between two steps. *)
LEMMA StackOf ==
  ASSUME PlaceInv, pc \notin Ended
  PROVE  /\ sp \in Int
         /\ \E b \in BiosStacks \cup {STACK_TOP} : sp <= b /\ sp - FRAME >= b - DEPTH
         /\ Below(sp, FRAME) \subseteq StackCells
<1>1. CASE pc \in (Loading \ {"crc32"}) \cup {"set_stack"}
  <2>1. sp \in BiosStacks /\ sp \in Int
    BY <1>1, Places DEF PlaceInv
  <2>2. Below(sp, FRAME) \subseteq Below(sp, FRAME + 1)
    BY <2>1, Places DEF Below
  <2>3. Below(sp, FRAME + 1) \subseteq StackCells
    BY <2>1 DEF StackCells
  <2>4. sp <= sp /\ sp - FRAME >= sp - DEPTH
    BY <2>1, Places
  <2> QED
    BY <2>1, <2>2, <2>3, <2>4
<1>2. CASE pc = "crc32"
  <2>1. sp + 1 \in BiosStacks /\ sp \in Int
    BY <1>2 DEF PlaceInv
  <2>2. Below(sp, FRAME) \subseteq Below(sp + 1, FRAME + 1)
    BY <2>1, Places DEF Below
  <2>3. Below(sp + 1, FRAME + 1) \subseteq StackCells
    BY <2>1 DEF StackCells
  <2>4. sp <= sp + 1 /\ sp - FRAME >= (sp + 1) - DEPTH
    BY <2>1, Places
  <2> QED
    BY <2>1, <2>2, <2>3, <2>4
<1>3. CASE pc \in Leaving
  <2>1. sp \in {STACK_TOP, STACK_TOP - 1, STACK_TOP - 2}
    BY <1>3 DEF PlaceInv, Leaving
  <2>2. sp \in Int /\ sp <= STACK_TOP /\ sp - FRAME >= STACK_TOP - DEPTH
    BY <2>1, Places
  <2>3. Below(sp, FRAME) \subseteq Below(STACK_TOP, DEPTH)
    BY <2>2, Places DEF Below
  <2>4. Below(STACK_TOP, DEPTH) \subseteq StackCells
    BY DEF StackCells
  <2> QED
    BY <2>2, <2>3, <2>4
<1> QED
  BY <1>1, <1>2, <1>3 DEF PlaceInv, Ended

LEMMA BuiltFacts ==
  ASSUME BuildInv, build \notin {"none", "failed"}
  PROVE  /\ Size \in Nat /\ Size > HDR_LEN /\ Len(file) = Size /\ DOMAIN file = 1 .. Size
         /\ \A k \in 1 .. Size : k - 1 \notin Fields => file[k] = Linked(version, Size)[k]
         /\ file = [k \in 1 .. Size |-> file[k]]
<1>1. Size \in Nat /\ Size > HDR_LEN /\ file = [k \in 1 .. Size |-> file[k]]
  BY ImageAssumption DEF BuildInv
<1> QED
  BY <1>1 DEF BuildInv, Size
-----------------------------------------------------------------------------
(* The build. *)
LEMMA MakeKeeps ==
  ASSUME Make
  PROVE  BuildInv'
<1>1. /\ build' \in {"read", "failed"} /\ disk' = <<>> /\ unnoticed' = 0
      /\ build' = "read" => \E n \in ImageSizes : file' = Linked(version', n)
  BY DEF Make
<1>2. ASSUME build' = "read"
      PROVE  /\ Size' \in ImageSizes
             /\ file' = [k \in 1 .. Size' |-> file'[k]]
             /\ \A k \in 1 .. Size' : file'[k] = Linked(version', Size')[k]
             /\ \A off \in {0, 1, 2} : file'[off + 1] = Num(0)
  <2>1. PICK n \in ImageSizes : file' = Linked(version', n)
    BY <1>1, <1>2
  <2>2. n \in Nat /\ n > 5
    BY ImageAssumption DEF HDR_LEN
  <2>3. /\ file' = [k \in 1 .. n |-> file'[k]]
        /\ \A k \in 1 .. n : k - 1 \in Fields => file'[k] = Num(0)
    BY <2>1, <2>2, LinkedIs
  <2>4. Size' = n
    BY <2>2, <2>3, FunctionIsSeq DEF Size
  <2>5. \A off \in {0, 1, 2} : off + 1 \in 1 .. n /\ (off + 1) - 1 = off
    BY <2>2
  <2>6. \A off \in {0, 1, 2} : file'[off + 1] = Num(0)
    BY <2>3, <2>5, Offsets
  <2> QED
    BY <2>1, <2>3, <2>4, <2>6
<1>3. build' = "read" => \A off \in Fields : file'[off + 1] = Num(0)
  BY <1>2, Offsets
<1>4. build' = "read" => /\ file'[OFF_LOADSZ + 1] = Num(0) /\ file'[OFF_CRC + 1] = Num(0)
                         /\ file'[OFF_CRCSZ + 1] = Num(0)
  BY <1>3 DEF Fields
<1> QED
  BY <1>1, <1>2, <1>4 DEF BuildInv, FieldInv

(* A sequence cut at both ends. *)
LEMMA SubSeqIs ==
  ASSUME NEW n \in Nat, NEW f, f = [k \in 1 .. n |-> f[k]], NEW s \in 0 .. n
  PROVE  /\ SubSeq(f, s + 1, n) = [k \in 1 .. n - s |-> f[s + k]]
         /\ SubSeq(f, 1, s) = [k \in 1 .. s |-> f[k]]
<1> DEFINE S == {f[k] : k \in 1 .. n}
<1>1. f \in Seq(S) /\ Len(f) = n
  BY FunctionIsSeq
<1> HIDE DEF S
<1>2. \A p \in 1 .. n + 1, q \in 0 .. n :
        SubSeq(f, p, q) = [k \in 1 .. q - p + 1 |-> f[p + k - 1]]
  BY <1>1
<1>3. s + 1 \in 1 .. n + 1 /\ n \in 0 .. n /\ 1 \in 1 .. n + 1 /\ n - (s + 1) + 1 = n - s /\ s - 1 + 1 = s
  OBVIOUS
<1>4. \A k \in Int : (s + 1) + k - 1 = s + k /\ 1 + k - 1 = k
  OBVIOUS
<1>5. SubSeq(f, s + 1, n) = [k \in 1 .. n - (s + 1) + 1 |-> f[(s + 1) + k - 1]]
  BY <1>2, <1>3
<1>6. SubSeq(f, 1, s) = [k \in 1 .. s - 1 + 1 |-> f[1 + k - 1]]
  BY <1>2, <1>3
<1>7. SubSeq(f, s + 1, n) = [k \in 1 .. n - s |-> f[(s + 1) + k - 1]]
  BY <1>3, <1>5, Zenon
<1>8. \A k \in 1 .. n - s : f[(s + 1) + k - 1] = f[s + k]
  BY <1>4
<1>9. SubSeq(f, 1, s) = [k \in 1 .. s |-> f[1 + k - 1]]
  BY <1>3, <1>6, Zenon
<1>10. \A k \in 1 .. s : f[1 + k - 1] = f[k]
  BY <1>4
<1>11. SubSeq(f, s + 1, n) = [k \in 1 .. n - s |-> f[s + k]]
  BY <1>7, <1>8, Zenon
<1>12. SubSeq(f, 1, s) = [k \in 1 .. s |-> f[k]]
  BY <1>9, <1>10, Zenon
<1> QED
  BY <1>11, <1>12

LEMMA ReadImageKeeps ==
  ASSUME BuildInv, ReadImage
  PROVE  BuildInv'
<1>1. build = "read" /\ UNCHANGED <<version, file, disk>>
  BY DEF ReadImage, Fail
<1>2. \/ build' = "failed" /\ unnoticed' = unnoticed
      \/ build' = "loadsz" /\ Checksum(file, HDR_LEN) /\ unnoticed' = unnoticed
      \/ /\ build' = "loadsz" /\ unnoticed' = unnoticed + 1
         /\ \E n \in Nat, skip \in Nat :
              n < Size /\ skip <= Size /\ Checksum(ShortRead(n), skip)
  <2>1. Cuts \subseteq Nat /\ Unread \subseteq Nat /\ HDR_LEN \in Nat
    BY ImageAssumption, Offsets
  <2> QED
    BY <2>1 DEF ReadImage, Fail, Unnoticed, Size
<1>3. /\ Size \in Nat /\ Size > 5 /\ file = [k \in 1 .. Size |-> file[k]]
      /\ \A k \in 1 .. Size : k - 1 \notin Fields => file[k] = Linked(version, Size)[k]
  BY <1>1, BuiltFacts, Offsets
<1>4. file[1] = Num(0) /\ file[2] = Num(0) /\ file[3] = Num(0)
  BY <1>1, Offsets DEF BuildInv, FieldInv
<1>5. file = Linked(version, Size)
  <2>1. \A k \in 1 .. Size : file[k] = Linked(version, Size)[k]
    <3>1. ASSUME NEW k \in 1 .. Size, k - 1 \in Fields
          PROVE  file[k] = Num(0) /\ Linked(version, Size)[k] = Num(0)
      <4>1. Linked(version, Size)[k] = Num(0)
        BY <1>3, <3>1, LinkedIs
      <4>2. k = 1 \/ k = 2 \/ k = 3
        BY <1>3, <3>1, Offsets
      <4> QED
        BY <1>4, <4>1, <4>2
    <3> QED
      BY <1>3, <3>1
  <2> QED
    BY <1>3, <2>1, LinkedIs
<1>6. Checksum(file, HDR_LEN) => crc' = GoodCrc /\ crcsz' = Num(Size - HDR_LEN)
  BY <1>5 DEF Checksum, GoodCrc, Size
<1>7. ASSUME NEW n \in Nat, NEW skip \in Nat, n < Size, skip <= Size, Checksum(ShortRead(n), skip)
      PROVE  /\ crc' = Crc(crc'[2]) /\ Spoilt(crc'[2])
             /\ crcsz' = Num(crcsz'[2]) /\ crcsz'[2] \in Nat
  <2> DEFINE f == ShortRead(n)
             s == SubSeq(f, skip + 1, Len(f))
  <2>1. f = [k \in 1 .. Size |-> f[k]] /\ f[Size] = Other("unset")
    BY <1>3, <1>7 DEF ShortRead, Size
  <2>2. crcsz' = Num(Len(f) - skip) /\ crc' = Crc(s)
    BY <1>7 DEF Checksum
  <2> HIDE DEF f
  <2>3. Len(f) = Size
    BY <1>3, <2>1, FunctionIsSeq
  <2>4. s = [k \in 1 .. Size - skip |-> f[skip + k]]
    <3>1. skip \in 0 .. Size /\ Size \in Nat
      BY <1>7, <1>3
    <3>2. SubSeq(f, skip + 1, Size) = [k \in 1 .. Size - skip |-> f[skip + k]]
      BY <2>1, <3>1, SubSeqIs
    <3> QED
      BY <2>3, <3>2
  <2> HIDE DEF s
  <2>5. Spoilt(s)
    <3>1. CASE skip = Size
      BY <1>3, <2>4, <3>1 DEF Spoilt
    <3>2. CASE skip # Size
      <4>1. Size - skip \in 1 .. Size - skip /\ skip + (Size - skip) = Size
        BY <1>3, <1>7, <3>2
      <4> QED
        BY <2>1, <2>4, <4>1 DEF Spoilt
    <3> QED
      BY <3>1, <3>2
  <2>6. Size - skip \in Nat
    BY <1>3, <1>7
  <2> QED
    BY <2>2, <2>3, <2>5, <2>6 DEF Num, Crc
<1>8. Size' = Size /\ GoodCrc' = GoodCrc /\ unnoticed \in Nat
  BY <1>1 DEF Size, GoodCrc, BuildInv
<1>9. unnoticed' \in Nat /\ (build' = "loadsz" => CrcFieldInv')
  BY <1>2, <1>6, <1>7, <1>8 DEF CrcFieldInv, Spoilt
<1>10. build' \in {"loadsz", "failed"}
  BY <1>2
<1> QED
  BY <1>1, <1>8, <1>9, <1>10 DEF BuildInv, FieldInv

(* A field that is written leaves the rest of the file alone. *)
LEMMA WriteFieldIs ==
  ASSUME BuildInv, NEW step, NEW off \in Fields, NEW val, NEW next,
         step \notin {"none", "failed", "built"}, WriteField(step, off, val, next)
  PROVE  /\ build = step /\ Size' = Size /\ UNCHANGED <<version, crc, crcsz, disk>>
         /\ file' = [k \in 1 .. Size |-> file'[k]]
         /\ \A k \in 1 .. Size : k - 1 # off => file'[k] = file[k]
         /\ \/ /\ build' = next /\ unnoticed' \in Nat /\ unnoticed' >= unnoticed
               /\ file'[off + 1] = val \/ (file'[off + 1] = file[off + 1] /\ unnoticed' > 0)
            \/ build' = "failed" /\ unnoticed' = unnoticed
         /\ \A o \in Fields : o # off => file'[o + 1] = file[o + 1]
<1>1. build = step /\ UNCHANGED <<version, crc, crcsz, disk>>
  BY DEF WriteField, Fail
<1>2. /\ Size \in Nat /\ Size > 5 /\ file = [k \in 1 .. Size |-> file[k]] /\ unnoticed \in Nat
  BY <1>1, BuiltFacts, Offsets DEF BuildInv
<1>3. off + 1 \in 1 .. Size /\ off \in Int
  BY <1>2, Offsets
<1>4. \/ /\ build' = next
         /\ \/ file' = [file EXCEPT ![off + 1] = val] /\ unnoticed' = unnoticed
            \/ file' = file /\ unnoticed' = unnoticed + 1
      \/ /\ build' = "failed" /\ unnoticed' = unnoticed
         /\ file' = [file EXCEPT ![off + 1] = Other("torn")]
  BY DEF WriteField, Fail, Unnoticed
<1>5. file' = [k \in 1 .. Size |-> file'[k]]
  BY <1>2, <1>4
<1>6. Size' = Size
  BY <1>2, <1>5, FunctionIsSeq DEF Size
<1>7. \A k \in 1 .. Size : k # off + 1 => file'[k] = file[k]
  BY <1>2, <1>4
<1>8. \/ /\ build' = next /\ unnoticed' \in Nat /\ unnoticed' >= unnoticed
         /\ file'[off + 1] = val \/ (file'[off + 1] = file[off + 1] /\ unnoticed' > 0)
      \/ build' = "failed" /\ unnoticed' = unnoticed
  BY <1>2, <1>3, <1>4
<1>9. \A o \in Fields : o + 1 \in 1 .. Size /\ (o # off => o + 1 # off + 1)
  BY <1>2, <1>3, Offsets
<1>10. \A k \in 1 .. Size : k - 1 # off => k # off + 1
  BY <1>3
<1> QED
  BY <1>1, <1>5, <1>6, <1>7, <1>8, <1>9, <1>10

LEMMA WriteKeeps ==
  ASSUME BuildInv, WriteLoadsz \/ WriteCrcsz \/ WriteCrc
  PROVE  BuildInv'
<1> DEFINE Which(step, off, val, next) ==
             \/ step = "loadsz" /\ off = OFF_LOADSZ /\ val = Num(Size) /\ next = "crcsz"
             \/ step = "crcsz" /\ off = OFF_CRCSZ /\ val = crcsz /\ next = "crc"
             \/ step = "crc" /\ off = OFF_CRC /\ val = crc /\ next = "layout"
<1>0. SUFFICES ASSUME NEW step, NEW off \in Fields, NEW val, NEW next,
                      Which(step, off, val, next), WriteField(step, off, val, next)
               PROVE  BuildInv'
  BY DEF WriteLoadsz, WriteCrcsz, WriteCrc, Fields, Size
<1>1. step \notin {"none", "failed", "built"}
  BY <1>0
<1>2. /\ Which(build, off, val, next)
      /\ Size' = Size /\ UNCHANGED <<version, crc, crcsz, disk>>
      /\ file' = [k \in 1 .. Size |-> file'[k]]
      /\ \A k \in 1 .. Size : k - 1 # off => file'[k] = file[k]
      /\ \/ /\ build' = next /\ unnoticed' \in Nat /\ unnoticed' >= unnoticed
            /\ file'[off + 1] = val \/ (file'[off + 1] = file[off + 1] /\ unnoticed' > 0)
         \/ build' = "failed" /\ unnoticed' = unnoticed
      /\ \A o \in Fields : o # off => file'[o + 1] = file[o + 1]
  <2> HIDE DEF Which
  <2> QED
    BY <1>0, <1>1, WriteFieldIs
<1>3. /\ unnoticed \in Nat /\ Size \in ImageSizes
      /\ \A k \in 1 .. Size : k - 1 \notin Fields => file[k] = Linked(version, Size)[k]
      /\ FieldInv(OFF_LOADSZ, Num(Size), {"read", "loadsz"})
      /\ FieldInv(OFF_CRCSZ, crcsz, {"read", "loadsz", "crcsz"})
      /\ FieldInv(OFF_CRC, crc, {"read", "loadsz", "crcsz", "crc"})
      /\ CrcFieldInv
      /\ disk = <<>>
  BY <1>2 DEF BuildInv
<1>4. unnoticed' \in Nat /\ unnoticed' >= unnoticed
  BY <1>2, <1>3
<1>5. /\ OFF_LOADSZ # OFF_CRCSZ /\ OFF_LOADSZ # OFF_CRC /\ OFF_CRCSZ # OFF_CRC
      /\ OFF_LOADSZ \in Fields /\ OFF_CRCSZ \in Fields /\ OFF_CRC \in Fields
  BY Offsets
<1>6. build' \in {"crcsz", "crc", "layout", "failed"}
  BY <1>2
<1>7. FieldInv(OFF_LOADSZ, Num(Size), {"read", "loadsz"})'
  <2>1. CASE build = "loadsz"
    BY <1>2, <1>3, <1>5, <2>1 DEF FieldInv
  <2>2. CASE build # "loadsz"
    <3>1. file'[OFF_LOADSZ + 1] = file[OFF_LOADSZ + 1]
      BY <1>2, <1>5, <2>2
    <3> QED
      BY <1>2, <1>3, <1>4, <2>2, <3>1 DEF FieldInv
  <2> QED
    BY <2>1, <2>2
<1>8. FieldInv(OFF_CRCSZ, crcsz, {"read", "loadsz", "crcsz"})'
  <2>1. CASE build = "crcsz"
    BY <1>2, <1>3, <1>5, <2>1 DEF FieldInv
  <2>2. CASE build # "crcsz"
    <3>1. file'[OFF_CRCSZ + 1] = file[OFF_CRCSZ + 1]
      BY <1>2, <1>5, <2>2
    <3> QED
      BY <1>2, <1>3, <1>4, <2>2, <3>1 DEF FieldInv
  <2> QED
    BY <2>1, <2>2
<1>9. FieldInv(OFF_CRC, crc, {"read", "loadsz", "crcsz", "crc"})'
  <2>1. CASE build = "crc"
    BY <1>2, <1>3, <1>5, <2>1 DEF FieldInv
  <2>2. CASE build # "crc"
    <3>1. file'[OFF_CRC + 1] = file[OFF_CRC + 1]
      BY <1>2, <1>5, <2>2
    <3> QED
      BY <1>2, <1>3, <1>4, <2>2, <3>1 DEF FieldInv
  <2> QED
    BY <2>1, <2>2
<1>10. GoodCrc' = GoodCrc
  <2>1. version' = version /\ Size' = Size
    BY <1>2
  <2> QED
    BY <2>1 DEF GoodCrc
<1>11. CrcFieldInv'
  BY <1>2, <1>3, <1>4, <1>10 DEF CrcFieldInv, Spoilt
<1>12. \A k \in 1 .. Size : k - 1 \notin Fields => file'[k] = Linked(version, Size)[k]
  BY <1>2, <1>3
<1> QED
  BY <1>2, <1>3, <1>4, <1>6, <1>7, <1>8, <1>9, <1>11, <1>12 DEF BuildInv

LEMMA LayoutKeeps ==
  ASSUME BuildInv, Layout
  PROVE  BuildInv'
<1>1. /\ build = "layout" /\ build' \in {"built", "failed"}
      /\ UNCHANGED <<version, file, crc, crcsz, unnoticed>>
      /\ build' = "built" =>
           disk' = [k \in 1 .. Len(file) |->
                     IF 1 + (k - 1) \div SECTOR = TCHDR THEN Other("tc.hdr") ELSE file[k]]
  BY DEF Layout
<1>2. Size' = Size /\ GoodCrc' = GoodCrc
  BY <1>1 DEF Size, GoodCrc
<1>3. build' = "built" =>
        disk' = [k \in 1 .. Size' |->
                  IF 1 + (k - 1) \div SECTOR = TCHDR THEN Other("tc.hdr") ELSE file'[k]]
  BY <1>1 DEF Size
<1>4. CrcFieldInv'
  BY <1>1, <1>2 DEF BuildInv, CrcFieldInv, Spoilt
<1> QED
  BY <1>1, <1>2, <1>3, <1>4 DEF BuildInv, FieldInv

LEMMA SameBuild ==
  ASSUME UNCHANGED image
  PROVE  /\ UNCHANGED <<build, version, file, crc, crcsz, disk, unnoticed>>
         /\ BuildInv' <=> BuildInv
         /\ GoodDisk' <=> GoodDisk
         /\ Size' = Size /\ GoodCrc' = GoodCrc
<1>1. UNCHANGED <<build, version, file, crc, crcsz, disk, unnoticed>>
  BY DEF image
<1>2. Size' = Size
  BY <1>1 DEF Size
<1>3. GoodCrc' = GoodCrc /\ (CrcFieldInv' <=> CrcFieldInv)
  BY <1>1, <1>2 DEF GoodCrc, CrcFieldInv, Spoilt
<1> QED
  BY <1>1, <1>2, <1>3 DEF BuildInv, FieldInv, GoodDisk

(* A build goes on while no boot does. *)
LEMMA ContinueKeeps ==
  ASSUME IndInv, Continue
  PROVE  IndInv'
<1>1. BuildStep /\ UNCHANGED <<pc, mem, sp, dl, shown, drive>>
  BY DEF Continue, boot, started
<1>2. BuildInv'
  BY <1>1, ReadImageKeeps, WriteKeeps, LayoutKeeps DEF IndInv, BuildStep
<1>3. build # "built"
  BY <1>1 DEF BuildStep, ReadImage, WriteLoadsz, WriteCrcsz, WriteCrc, WriteField, Layout, Fail
<1>4. pc = "off"
  BY <1>3 DEF IndInv, PlaceInv
<1>5. PlaceInv'
  BY <1>1, <1>4 DEF IndInv, PlaceInv, Loading, Leaving
<1>6. HeaderInv' /\ LoadedInv' /\ GoodInv'
  BY <1>1, <1>4 DEF HeaderInv, LoadedInv, GoodInv, Leaving
<1> QED
  BY <1>2, <1>5, <1>6 DEF IndInv

LEMMA RebuildKeeps ==
  ASSUME IndInv, Rebuild
  PROVE  IndInv'
<1>1. Make /\ pc' = "off" /\ mem' = mem /\ dl' = Num(0) /\ drive' = Num(0)
  BY DEF Rebuild
<1>2. BuildInv'
  BY <1>1, MakeKeeps
<1>3. PlaceInv'
  BY <1>1, Distinct DEF IndInv, PlaceInv, Loading, Leaving
<1>4. HeaderInv' /\ LoadedInv' /\ GoodInv'
  BY <1>1 DEF HeaderInv, LoadedInv, GoodInv, Leaving
<1> QED
  BY <1>2, <1>3, <1>4 DEF IndInv

-----------------------------------------------------------------------------
(* The boot.  What is pushed goes where nothing that matters is.           *)
LEMMA Cells ==
  /\ Boot0Code \subseteq Address /\ SafeCells \subseteq Address
  /\ biosdev \in Boot0Code /\ BOOT0 \in Boot0Code /\ BOOT0 # biosdev
  /\ biosdev \notin SafeCells
  /\ \A off \in 0 .. HDR_LEN - 1 : LOAD + off \in SafeCells
  /\ StackCells \cap SafeCells = {}
<1>1. StackCells \cap SafeCells = {}
  <2>1. ASSUME NEW a \in StackCells
        PROVE  a \notin SafeCells
    <3>1. PICK p \in BiosStacks \cup {STACK_TOP} : a \in Below(p, DEPTH) \/ a \in Below(p, FRAME + 1)
      BY DEF StackCells
    <3>2. Below(p, FRAME + 1) \subseteq Below(p, DEPTH)
      BY Places DEF Below
    <3> QED
      BY <3>1, <3>2, StackApart
  <2> QED
    BY <2>1
<1> QED
  BY <1>1, Places DEF SafeCells

(* What the disk holds of the header is what the build has made of it. *)
LEMMA DiskIs ==
  ASSUME BuildInv, build = "built"
  PROVE  /\ Len(disk) = Size /\ Size \in Nat /\ Size > HDR_LEN
         /\ \A k \in 1 .. Size : disk[k] # Other("unset")
         /\ \A off \in 0 .. HDR_LEN - 1 : disk[off + 1] = file[off + 1]
<1>1. /\ Size \in Nat /\ Size > 5
      /\ \A k \in 1 .. Size : k - 1 \notin Fields => file[k] = Linked(version, Size)[k]
      /\ disk = [k \in 1 .. Size |->
                  IF 1 + (k - 1) \div SECTOR = TCHDR THEN Other("tc.hdr") ELSE file[k]]
  BY BuiltFacts, Offsets DEF BuildInv
<1>2. Len(disk) = Size
  <2>1. disk = [k \in 1 .. Size |-> disk[k]]
    BY <1>1
  <2> QED
    BY <1>1, <2>1, FunctionIsSeq
<1>3. \A k \in 1 .. Size : disk[k] = file[k] \/ disk[k] = Other("tc.hdr")
  BY <1>1
<1>4. \A k \in 1 .. Size : file[k] # Other("unset")
  <2>1. /\ file[1] = Num(Size) \/ file[1] = Num(0)
        /\ file[3] = crcsz \/ file[3] = Num(0)
        /\ file[2] = crc \/ file[2] = Num(0)
        /\ CrcFieldInv
    BY Offsets DEF BuildInv, FieldInv
  <2>2. file[1] # Other("unset") /\ file[2] # Other("unset") /\ file[3] # Other("unset")
    BY <2>1, Distinct DEF GoodCrc, CrcFieldInv
  <2>3. ASSUME NEW k \in 1 .. Size, k - 1 \in Fields
        PROVE  k = 1 \/ k = 2 \/ k = 3
    BY <1>1, <2>3, Offsets
  <2>4. ASSUME NEW k \in 1 .. Size, k - 1 \notin Fields
        PROVE  file[k] # Other("unset")
    BY <1>1, <2>4, LinkedIs, Distinct, SMTT(30)
  <2> QED
    BY <2>2, <2>3, <2>4
<1>5. \A off \in 0 .. HDR_LEN - 1 : disk[off + 1] = file[off + 1]
  <2>1. ASSUME NEW off \in 0 .. HDR_LEN - 1
        PROVE  disk[off + 1] = file[off + 1]
    <3>1. off \in Nat /\ off < SECTOR /\ off + 1 \in 1 .. Size /\ (off + 1) - 1 = off
      BY <1>1, Places
    <3>2. off \div SECTOR = 0 /\ TCHDR > 1
      BY <3>1, Places, ImageAssumption
    <3> QED
      BY <1>1, <3>1, <3>2
  <2> QED
    BY <2>1
<1> QED
  BY <1>1, <1>2, <1>3, <1>4, <1>5, Offsets, Distinct

LEMMA DiskCellIs ==
  ASSUME BuildInv, build = "built", NEW k \in Nat
  PROVE  /\ DiskCell(k) # Other("unset")
         /\ mem[biosdev] = drive /\ k < Len(disk) => DiskCell(k) = disk[k + 1]
         /\ mem[biosdev] = drive /\ k < HDR_LEN => DiskCell(k) = file[k + 1]
<1>1. /\ Len(disk) = Size /\ Size \in Nat /\ Size > 5
      /\ \A q \in 1 .. Size : disk[q] # Other("unset")
      /\ \A off \in 0 .. 4 : disk[off + 1] = file[off + 1]
  BY DiskIs, Offsets
<1>2. k < Len(disk) => disk[k + 1] # Other("unset")
  BY <1>1
<1>3. k < 5 => k < Len(disk) /\ disk[k + 1] = file[k + 1]
  BY <1>1
<1> QED
  BY <1>2, <1>3, Distinct, Offsets DEF DiskCell

(* A step that only pushes, above what a stack may reach. *)
LEMMA PushKeepsPlace ==
  ASSUME PlaceInv, NEW b \in BiosStacks \cup {STACK_TOP}, NEW p \in Int, NEW n \in Nat,
         p <= b, p - n >= b - DEPTH, NEW m, m = Pushed(mem, p, n)
  PROVE  /\ m = [a \in Address |-> m[a]]
         /\ \A a \in Address : m[a] # Other("unset")
         /\ \A a \in Boot0Code \cup SafeCells : m[a] = mem[a]
         /\ \A a \in Address : m[a] = mem[a] \/ a \in Below(p, n)
<1>1. b \in Int /\ DEPTH \in Nat
  BY Places
<1>2. Below(p, n) \subseteq Below(b, DEPTH)
  BY <1>1 DEF Below
<1>3. \A a \in Below(p, n) : a \notin Boot0Code /\ a \notin SafeCells
  BY <1>2, StackApart
<1>4. /\ m = [a \in Address |-> m[a]]
      /\ \A a \in Address : m[a] = mem[a] \/ (a \in Below(p, n) /\ m[a] = Other("stack"))
  BY DEF Pushed
<1>5. \A a \in Address : mem[a] # Other("unset")
  BY DEF PlaceInv
<1>6. \A a \in Boot0Code \cup SafeCells : a \in Address
  BY Cells
<1> QED
  BY <1>3, <1>4, <1>5, <1>6, Distinct

(* What is in memory stays, where only the stacks are written. *)
LEMMA LoadedKept ==
  ASSUME PlaceInv, BuildInv, LoadedInv, pc \in {"set_stack"} \cup Leaving,
         UNCHANGED image,
         \A a \in Address : mem'[a] = mem[a] \/ a \in StackCells
  PROVE  /\ Size' <= BOOT0 - LOAD
         /\ file'[OFF_CRC + 1] = GoodCrc' /\ file'[OFF_CRCSZ + 1] = Num(Size' - HDR_LEN)
         /\ \A k \in OFF_ENTRY + 1 .. Size' : InMemory(k)' \/ LOAD + k - 1 \in StackCells
<1>1. /\ UNCHANGED <<version, file>> /\ Size' = Size /\ GoodCrc' = GoodCrc
  BY SameBuild
<1>2. /\ Size <= BOOT0 - LOAD
      /\ file[OFF_CRC + 1] = GoodCrc /\ file[OFF_CRCSZ + 1] = Num(Size - HDR_LEN)
      /\ \A k \in OFF_ENTRY + 1 .. Size : InMemory(k) \/ LOAD + k - 1 \in StackCells
  BY DEF LoadedInv
<1>3. Size \in Nat
  BY BuiltFacts DEF PlaceInv, Leaving
<1>4. ASSUME NEW k \in OFF_ENTRY + 1 .. Size
      PROVE  InMemory(k)' \/ LOAD + k - 1 \in StackCells
  <2>1. LOAD + k - 1 \in Address
    BY <1>2, <1>3, Places, Offsets
  <2>2. mem'[LOAD + k - 1] = mem[LOAD + k - 1] \/ LOAD + k - 1 \in StackCells
    BY <2>1
  <2> QED
    BY <1>1, <1>2, <2>2 DEF InMemory, Size
<1> QED
  BY <1>1, <1>2, <1>4

LEMMA TickKeeps ==
  ASSUME IndInv, Tick
  PROVE  IndInv'
<1>1. /\ pc \notin Ended /\ mem' = Pushed(mem, sp, FRAME)
      /\ UNCHANGED <<pc, sp, dl, shown, boots, drive, readError, image>>
  BY DEF Tick, started
<1>2. /\ UNCHANGED <<build, version, file, crc, disk, unnoticed>>
      /\ BuildInv' /\ (GoodDisk' <=> GoodDisk) /\ Size' = Size
  BY <1>1, SameBuild DEF IndInv
<1>3. PlaceInv /\ FRAME \in Nat
  BY Places DEF IndInv
<1>4. /\ sp \in Int
      /\ \E b \in BiosStacks \cup {STACK_TOP} : sp <= b /\ sp - FRAME >= b - DEPTH
      /\ Below(sp, FRAME) \subseteq StackCells
  BY <1>1, <1>3, StackOf
<1>5. /\ mem' = [a \in Address |-> mem'[a]]
      /\ \A a \in Address : mem'[a] # Other("unset")
      /\ \A a \in Boot0Code \cup SafeCells : mem'[a] = mem[a]
      /\ \A a \in Address : mem'[a] = mem[a] \/ a \in StackCells
  <2>1. PICK b \in BiosStacks \cup {STACK_TOP} : sp <= b /\ sp - FRAME >= b - DEPTH
    BY <1>4
  <2>2. /\ mem' = [a \in Address |-> mem'[a]]
        /\ \A a \in Address : mem'[a] # Other("unset")
        /\ \A a \in Boot0Code \cup SafeCells : mem'[a] = mem[a]
        /\ \A a \in Address : mem'[a] = mem[a] \/ a \in Below(sp, FRAME)
    BY <1>1, <1>3, <1>4, <2>1, PushKeepsPlace
  <2> QED
    BY <1>4, <2>2
<1>6. PlaceInv'
  BY <1>1, <1>2, <1>3, <1>5, Cells DEF PlaceInv
<1>7. HeaderInv'
  BY <1>1, <1>2, <1>5, Cells DEF IndInv, HeaderInv, Header
<1>8. LoadedInv'
  <2>1. pc # "boot1"
    BY <1>1 DEF Ended
  <2>2. CASE pc \in {"set_stack"} \cup Leaving
    <3>1. /\ Size' <= BOOT0 - LOAD
          /\ file'[OFF_CRC + 1] = GoodCrc' /\ file'[OFF_CRCSZ + 1] = Num(Size' - HDR_LEN)
          /\ \A k \in OFF_ENTRY + 1 .. Size' : InMemory(k)' \/ LOAD + k - 1 \in StackCells
      BY <1>1, <1>5, <2>2, LoadedKept DEF IndInv
    <3> QED
      BY <1>1, <2>1, <3>1 DEF LoadedInv
  <2>3. CASE pc \notin {"set_stack"} \cup Leaving
    BY <1>1, <2>1, <2>3 DEF LoadedInv
  <2> QED
    BY <2>2, <2>3
<1>9. GoodInv'
  <2>1. ASSUME GoodDisk, pc \in {"crc", "crc32"}, NEW k \in 1 .. Len(disk)
        PROVE  mem'[LOAD + k - 1] = disk[k]
    <3>1. mem[LOAD + k - 1] = disk[k]
      BY <2>1 DEF IndInv, GoodInv
    <3>2. Len(disk) \in Nat /\ Len(disk) <= STACK_TOP - DEPTH - LOAD
      BY <1>1, <2>1, DiskIs DEF IndInv, PlaceInv, GoodDisk, SafeSize
    <3>3. LOAD + k - 1 \in SafeCells
      BY <3>2, Places DEF SafeCells
    <3> QED
      BY <1>5, <3>1, <3>3
  <2> QED
    BY <1>1, <1>2, <2>1 DEF IndInv, GoodInv
<1> QED
  BY <1>2, <1>6, <1>7, <1>8, <1>9 DEF IndInv

LEMMA PowerOnKeeps ==
  ASSUME IndInv, PowerOn
  PROVE  IndInv'
<1>1. /\ build = "built" /\ pc' = "start" /\ sp' \in BiosStacks /\ UNCHANGED image
      /\ \E d \in Drives : drive' = Num(d)
      /\ dl' = drive'
  BY DEF PowerOn
<1>2. PICK m \in {mem, Fresh} :
        mem' = [a \in Address |-> IF a \in Boot0Code THEN Other("boot0") ELSE m[a]]
  BY DEF PowerOn
<1>3. /\ build' = "built" /\ BuildInv'
  BY <1>1, SameBuild DEF IndInv
<1>4. \A a \in Address : m[a] # Other("unset")
  BY Distinct DEF IndInv, PlaceInv, Fresh
<1>5. /\ mem' = [a \in Address |-> mem'[a]]
      /\ \A a \in Address : mem'[a] # Other("unset")
      /\ \A a \in Boot0Code : mem'[a] = Other("boot0")
  BY <1>2, <1>4, Cells, Distinct
<1>6. dl' # Other("unset") /\ drive' # Other("unset")
  BY <1>1, Distinct
<1>7. PlaceInv'
  BY <1>1, <1>3, <1>5, <1>6 DEF PlaceInv, Loading, Leaving
<1>8. HeaderInv' /\ LoadedInv' /\ GoodInv'
  BY <1>1 DEF HeaderInv, LoadedInv, GoodInv, Leaving
<1> QED
  BY <1>3, <1>7, <1>8 DEF IndInv

LEMMA StartKeeps ==
  ASSUME IndInv, Start
  PROVE  IndInv'
<1>1. /\ pc = "start" /\ pc' = "load_header" /\ UNCHANGED <<sp, dl, drive, image>>
      /\ mem' = Pushed([mem EXCEPT ![biosdev] = dl], sp, DEPTH)
  BY DEF Start, started
<1>2. /\ build = "built" /\ sp \in BiosStacks /\ dl = drive /\ dl # Other("unset")
      /\ mem = [a \in Address |-> mem[a]] /\ \A a \in Address : mem[a] # Other("unset")
      /\ \A a \in Boot0Code \ {biosdev} : mem[a] = Other("boot0")
  BY <1>1 DEF IndInv, PlaceInv, Loading
<1>3. /\ build' = "built" /\ BuildInv'
  BY <1>1, <1>2, SameBuild DEF IndInv
<1> DEFINE m == [mem EXCEPT ![biosdev] = dl]
<1>4. /\ m[biosdev] = dl /\ \A a \in Boot0Code \ {biosdev} : m[a] = Other("boot0")
      /\ \A a \in Address : m[a] # Other("unset")
  BY <1>2, Cells
<1>6. \A a \in Boot0Code : a \in Address /\ a \notin Below(sp, DEPTH)
  BY <1>2, StackApart, Cells
<1> HIDE DEF m
<1>7. /\ mem' = [a \in Address |-> mem'[a]]
      /\ \A a \in Address : mem'[a] # Other("unset")
      /\ \A a \in Boot0Code : mem'[a] = m[a]
  <2>1. mem' = [a \in Address |-> IF a \in Below(sp, DEPTH) THEN Other("stack") ELSE m[a]]
    BY <1>1 DEF Pushed, m
  <2> QED
    BY <1>4, <1>6, <2>1, Distinct
<1>8. PlaceInv'
  BY <1>1, <1>2, <1>3, <1>4, <1>7, Cells DEF IndInv, PlaceInv, Loading, Leaving
<1>9. HeaderInv' /\ LoadedInv' /\ GoodInv'
  BY <1>1 DEF HeaderInv, LoadedInv, GoodInv, Leaving
<1> QED
  BY <1>3, <1>8, <1>9 DEF IndInv

(* A read of n cells that does not touch boot0. *)
LEMMA ReadKeeps ==
  ASSUME IndInv, pc \in {"load_header", "load_image"}, NEW n \in Nat, NEW next,
         copy_sectors(n, next), \A a \in LOAD .. LOAD + n - 1 : a \notin Boot0Code
  PROVE  /\ BuildInv' /\ build' = "built" /\ UNCHANGED <<sp, drive, build, version, file, disk>>
         /\ GoodDisk' <=> GoodDisk
         /\ Size' = Size
         /\ mem' = [a \in Address |-> mem'[a]]
         /\ \A a \in Address : mem'[a] # Other("unset")
         /\ dl' = drive /\ mem'[biosdev] = drive /\ drive' # Other("unset")
         /\ \A a \in Boot0Code \ {biosdev} : mem'[a] = Other("boot0")
         /\ \A off \in 0 .. HDR_LEN - 1 :
              IF off < n THEN mem'[LOAD + off] = file[off + 1]
                         ELSE mem'[LOAD + off] = mem[LOAD + off]
         /\ \A k \in 1 .. Len(disk) : k <= n /\ LOAD + k - 1 \in Address =>
              mem'[LOAD + k - 1] = disk[k]
<1>1. /\ dl' = mem[biosdev] /\ mem' = Read(Pushed(mem, sp, FRAME + 1), n)
      /\ UNCHANGED <<sp, drive, image>>
  BY DEF copy_sectors, started
<1>2. /\ build = "built" /\ sp \in BiosStacks /\ mem[biosdev] = drive
      /\ drive # Other("unset") /\ PlaceInv
      /\ \A a \in Boot0Code \ {biosdev} : mem[a] = Other("boot0")
  BY DEF IndInv, PlaceInv, Loading
<1>3. /\ UNCHANGED <<build, version, file, disk>> /\ BuildInv /\ BuildInv'
      /\ (GoodDisk' <=> GoodDisk) /\ Size' = Size
  BY <1>1, SameBuild DEF IndInv
<1> DEFINE m == Pushed(mem, sp, FRAME + 1)
<1>4. /\ \A a \in Address : m[a] # Other("unset")
      /\ \A a \in Boot0Code \cup SafeCells : m[a] = mem[a]
  <2>1. /\ sp \in BiosStacks \cup {STACK_TOP} /\ sp \in Int /\ FRAME + 1 \in Nat
        /\ sp <= sp /\ sp - (FRAME + 1) >= sp - DEPTH
    BY <1>2, Places
  <2>2. m = Pushed(mem, sp, FRAME + 1)
    OBVIOUS
  <2> HIDE DEF m
  <2> QED
    BY <1>2, <2>1, <2>2, PushKeepsPlace
<1> HIDE DEF m
<1>5. mem' = [a \in Address |-> IF a \in LOAD .. LOAD + n - 1 THEN DiskCell(a - LOAD) ELSE m[a]]
  BY <1>1 DEF Read, m
<1>6. \A k \in Nat :
        /\ DiskCell(k) # Other("unset")
        /\ k < Len(disk) => DiskCell(k) = disk[k + 1]
        /\ k < HDR_LEN => DiskCell(k) = file[k + 1]
  BY <1>2, <1>3, DiskCellIs
<1>7. \A a \in LOAD .. LOAD + n - 1 : a - LOAD \in Nat
  BY Places
<1>8. \A a \in Address : mem'[a] # Other("unset")
  BY <1>4, <1>5, <1>6, <1>7
<1>9. \A a \in Boot0Code : mem'[a] = mem[a]
  BY <1>4, <1>5, Cells
<1>10. ASSUME NEW off \in 0 .. HDR_LEN - 1
       PROVE  IF off < n THEN mem'[LOAD + off] = file[off + 1]
                         ELSE mem'[LOAD + off] = mem[LOAD + off]
  <2>1. LOAD + off \in Address /\ LOAD + off \in SafeCells
    BY Cells
  <2>2. off \in Nat /\ (LOAD + off) - LOAD = off /\ off < HDR_LEN
        /\ (LOAD + off \in LOAD .. LOAD + n - 1 <=> off < n)
    BY Places
  <2> QED
    BY <1>4, <1>5, <1>6, <2>1, <2>2
<1>11. ASSUME NEW k \in 1 .. Len(disk), k <= n, LOAD + k - 1 \in Address
       PROVE  mem'[LOAD + k - 1] = disk[k]
  <2>1. Len(disk) \in Nat
    BY <1>2, <1>3, DiskIs
  <2>2. /\ LOAD + k - 1 \in LOAD .. LOAD + n - 1 /\ (LOAD + k - 1) - LOAD = k - 1
        /\ k - 1 \in Nat /\ k - 1 < Len(disk) /\ (k - 1) + 1 = k
    BY <1>11, <2>1, Places
  <2> QED
    BY <1>5, <1>6, <1>11, <2>2
<1> QED
  BY <1>1, <1>2, <1>3, <1>5, <1>8, <1>9, <1>10, <1>11, Cells

LEMMA LoadHeaderKeeps ==
  ASSUME IndInv, LoadHeader
  PROVE  IndInv'
<1>1. pc = "load_header"
  BY DEF LoadHeader
<1>2. PICK n \in {0, SECTOR}, next \in {"load_image", "error_disk"} :
        /\ copy_sectors(n, next)
        /\ \/ n = SECTOR /\ next = "load_image"
           \/ n = 0 /\ next = "error_disk" /\ readError'
  BY DEF LoadHeader, DiskError
<1>3. n \in Nat /\ \A a \in LOAD .. LOAD + n - 1 : a \notin Boot0Code
  BY <1>2, Places
<1>4. pc' = next
  BY <1>2 DEF copy_sectors
<1>5. /\ BuildInv' /\ build' = "built" /\ UNCHANGED <<sp, drive, build, version, file, disk>>
      /\ mem' = [a \in Address |-> mem'[a]]
      /\ \A a \in Address : mem'[a] # Other("unset")
      /\ dl' = drive /\ mem'[biosdev] = drive /\ drive' # Other("unset")
      /\ \A a \in Boot0Code \ {biosdev} : mem'[a] = Other("boot0")
      /\ \A off \in 0 .. HDR_LEN - 1 : off < n => mem'[LOAD + off] = file[off + 1]
  BY <1>1, <1>2, <1>3, ReadKeeps
<1>6. sp \in BiosStacks
  BY <1>1 DEF IndInv, PlaceInv, Loading
<1>7. PlaceInv'
  BY <1>2, <1>4, <1>5, <1>6 DEF PlaceInv, Loading, Leaving
<1>8. HeaderInv'
  <2>1. n = SECTOR => \A off \in 0 .. HDR_LEN - 1 : off < n
    BY Places
  <2> QED
    BY <1>2, <1>4, <1>5, <2>1 DEF HeaderInv, Header
<1>9. LoadedInv' /\ GoodInv'
  BY <1>2, <1>4 DEF LoadedInv, GoodInv, Leaving
<1> QED
  BY <1>5, <1>7, <1>8, <1>9 DEF IndInv

LEMMA DivIs ==
  ASSUME NEW n \in Nat, NEW s \in Nat \ {0}
  PROVE  n \div s \in Nat /\ (n \div s) * s <= n /\ n < (n \div s + 1) * s
<1>1. n \div s \in Nat /\ n % s \in 0 .. s - 1 /\ n = (n \div s) * s + (n % s)
  OBVIOUS
<1>2. (n \div s + 1) * s = (n \div s) * s + s
  BY <1>1
<1> QED
  BY <1>1, <1>2

LEMMA DivMonotone ==
  ASSUME NEW m \in Nat, NEW n \in Nat, NEW s \in Nat \ {0}, m <= n
  PROVE  m \div s <= n \div s
<1> DEFINE p == m \div s
           q == n \div s
<1>1. p \in Nat /\ q \in Nat /\ p * s <= m /\ n < (q + 1) * s
  BY DivIs
<1> HIDE DEF p, q
<1>2. ASSUME p >= q + 1
      PROVE  FALSE
  <2>1. p * s >= (q + 1) * s
    BY <1>1, <1>2
  <2>2. p * s \in Int /\ (q + 1) * s \in Int
    BY <1>1
  <2> QED
    BY <1>1, <2>1, <2>2
<1>3. p <= q
  BY <1>1, <1>2
<1> QED
  BY <1>3 DEF p, q

(* The number of sectors, and those of a good disk: they hold the image    *)
(* and end below boot0 and the BIOS's stack.                               *)
LEMMA SectorsAre ==
  ASSUME IndInv, pc = "load_image"
  PROVE  /\ Sectors \in Nat
         /\ GoodDisk => /\ Sectors > 0 /\ Len(disk) <= Sectors * SECTOR
                        /\ \A n \in 0 .. Sectors : ~Overrun(n)
<1>1. /\ BuildInv /\ build = "built" /\ sp \in BiosStacks
      /\ Header(OFF_LOADSZ) = file[1]
  BY Offsets DEF IndInv, PlaceInv, Loading, HeaderInv
<1>2. Size \in Nat /\ Len(disk) = Size /\ Size > 5 /\ disk[1] = file[1]
  BY <1>1, DiskIs, Offsets
<1>3. file[1] = Num(Size) \/ file[1] = Num(0)
  BY <1>1, Offsets DEF BuildInv, FieldInv
<1>4. PICK x \in Nat : Header(OFF_LOADSZ)[2] = x /\ (file[1] = Num(Size) => x = Size)
  BY <1>1, <1>2, <1>3, Distinct
<1>5. SECTOR \in Nat \ {0} /\ AL_SIZE \in Nat \ {0}
  BY Places, Boot0Assumption
<1>6. x \div SECTOR \in Nat
  BY <1>5, DivIs
<1>7. Sectors = (x \div SECTOR + 1) % AL_SIZE
  BY <1>4 DEF Sectors
<1>8. Sectors \in Nat
  BY <1>5, <1>6, <1>7
<1>9. ASSUME GoodDisk
      PROVE  /\ Sectors > 0 /\ Len(disk) <= Sectors * SECTOR
             /\ \A n \in 0 .. Sectors : ~Overrun(n)
  <2>1. x = Size
    <3>1. 1 \in 1 .. Size /\ 1 - 1 = OFF_LOADSZ
      BY <1>2, Offsets
    <3>2. DOMAIN Linked(version, Len(disk)) = 1 .. Size
      BY <1>2, LinkedIs
    <3>3. disk[1] = Num(Size)
      BY <1>2, <1>9, <3>1, <3>2, Offsets DEF GoodDisk, HeaderRight
    <3> QED
      BY <1>2, <1>4, <3>3
  <2> DEFINE Safe == STACK_TOP - DEPTH - LOAD
             q == Size \div SECTOR
  <2>2. Safe \in Nat /\ Size <= Safe
    BY <1>2, <1>9, Places DEF GoodDisk, SafeSize
  <2>3. q <= Safe \div SECTOR /\ Safe \div SECTOR \in Nat
    BY <1>2, <1>5, <2>2, DivMonotone, DivIs
  <2>4. q \in Nat /\ q * SECTOR <= Size /\ Size < (q + 1) * SECTOR
    BY <1>2, <1>5, DivIs
  <2>5. q + 1 < AL_SIZE
    <3>1. Safe \div SECTOR + 1 < AL_SIZE
      BY PlacesAssumption
    <3> HIDE DEF q, Safe
    <3> QED
      BY <1>5, <2>3, <2>4, <3>1
  <2>6. Sectors = q + 1
    <3>1. Sectors = (q + 1) % AL_SIZE
      BY <1>7, <2>1
    <3> HIDE DEF q
    <3> QED
      BY <1>5, <2>4, <2>5, <3>1
  <2> HIDE DEF q
  <2>7. (q + 1) * SECTOR = q * SECTOR + SECTOR /\ q * SECTOR \in Int
    BY <1>5, <2>4
  <2>8. (q + 1) * SECTOR <= Safe + SECTOR
    <3> HIDE DEF Safe
    <3> QED
      BY <1>2, <1>5, <2>2, <2>4, <2>7
  <2>9. ASSUME NEW n \in 0 .. Sectors
        PROVE  ~Overrun(n)
    <3>1. n * SECTOR <= (q + 1) * SECTOR /\ n * SECTOR \in Int
      BY <1>5, <2>4, <2>6
    <3>2. n * SECTOR <= (STACK_TOP - DEPTH - LOAD) + SECTOR
      BY <2>7, <2>8, <3>1, <1>5, <2>2
    <3> DEFINE top == LOAD + n * SECTOR - 1
    <3>3. top \in Int /\ top <= (STACK_TOP - DEPTH) + SECTOR - 1
      BY <3>1, <3>2, Places
    <3> HIDE DEF top
    <3>4. ASSUME NEW a \in LOAD .. top
          PROVE  a \notin Boot0Code /\ a \notin Below(sp, FRAME + 1)
      <4>1. a \in Int /\ LOAD <= a /\ a < STACK_TOP - DEPTH + SECTOR
        BY <3>3, Places
      <4>2. a \notin Boot0Code
        BY <4>1, Places
      <4>3. a \notin Below(sp, FRAME + 1)
        BY <1>1, <4>1, Places DEF Below
      <4> QED
        BY <4>2, <4>3
    <3> QED
      BY <3>4 DEF Overrun, InUse, top
  <2>10. Sectors > 0 /\ Len(disk) <= Sectors * SECTOR
    <3>1. Sectors * SECTOR = (q + 1) * SECTOR /\ (q + 1) * SECTOR \in Int
      BY <1>5, <2>4, <2>6
    <3> QED
      BY <1>2, <2>4, <2>6, <3>1
  <2> QED
    BY <2>9, <2>10
<1> QED
  BY <1>8, <1>9

LEMMA LoadImageKeeps ==
  ASSUME IndInv, LoadImage
  PROVE  IndInv'
<1>1. pc = "load_image"
  BY DEF LoadImage
<1>2. /\ Sectors \in Nat
      /\ GoodDisk => /\ Sectors > 0 /\ Len(disk) <= Sectors * SECTOR
                     /\ \A n \in 0 .. Sectors : ~Overrun(n)
  BY <1>1, SectorsAre
<1>3. CASE Overrun(Sectors) /\ GoWild
  <2>1. /\ pc' = "wild" /\ mem' = Fresh /\ UNCHANGED <<dl, drive, image>>
    BY <1>3 DEF GoWild, started
  <2>2. BuildInv' /\ build' = build /\ (GoodDisk' <=> GoodDisk)
    BY <2>1, SameBuild DEF IndInv
  <2>3. PlaceInv'
    BY <1>1, <2>1, <2>2, Distinct DEF IndInv, PlaceInv, Loading, Leaving, Fresh
  <2>4. ~GoodDisk
    BY <1>2, <1>3
  <2>5. HeaderInv' /\ LoadedInv' /\ GoodInv'
    BY <2>1, <2>2, <2>4 DEF HeaderInv, LoadedInv, GoodInv, Leaving
  <2> QED
    BY <2>2, <2>3, <2>5 DEF IndInv
<1>4. CASE ~GoWild
  <2>1. PICK n \in 0 .. Sectors, next \in {"crc", "error_disk"} :
          /\ ~Overrun(n) /\ copy_sectors(n * SECTOR, next)
          /\ \/ n = Sectors /\ next = "crc"
             \/ next = "error_disk" /\ readError'
    BY <1>2, <1>4 DEF LoadImage, DiskError
  <2>2. pc' = next
    BY <2>1 DEF copy_sectors
  <2>3. n * SECTOR \in Nat
    BY <1>2, Places
  <2>4. \A a \in LOAD .. LOAD + n * SECTOR - 1 : a \notin Boot0Code
    BY <2>1 DEF Overrun, InUse
  <2>5. /\ BuildInv' /\ build' = "built" /\ UNCHANGED <<sp, drive, build, version, file, disk>>
        /\ GoodDisk' <=> GoodDisk
        /\ Size' = Size
        /\ mem' = [a \in Address |-> mem'[a]]
        /\ \A a \in Address : mem'[a] # Other("unset")
        /\ dl' = drive /\ mem'[biosdev] = drive /\ drive' # Other("unset")
        /\ \A a \in Boot0Code \ {biosdev} : mem'[a] = Other("boot0")
        /\ \A off \in 0 .. HDR_LEN - 1 :
             IF off < n * SECTOR THEN mem'[LOAD + off] = file[off + 1]
                                 ELSE mem'[LOAD + off] = mem[LOAD + off]
        /\ \A k \in 1 .. Len(disk) : k <= n * SECTOR /\ LOAD + k - 1 \in Address =>
             mem'[LOAD + k - 1] = disk[k]
    BY <1>1, <2>1, <2>3, <2>4, ReadKeeps
  <2>6. sp \in BiosStacks
    BY <1>1 DEF IndInv, PlaceInv, Loading
  <2>7. PlaceInv'
    BY <2>2, <2>5, <2>6 DEF PlaceInv, Loading, Leaving
  <2>8. HeaderInv'
    BY <1>1, <2>5 DEF IndInv, HeaderInv, Header
  <2>9. LoadedInv'
    BY <2>2 DEF LoadedInv, Leaving
  <2>10. GoodInv'
    <3>1. ASSUME GoodDisk, next = "crc", NEW k \in 1 .. Len(disk)
          PROVE  mem'[LOAD + k - 1] = disk[k]
      <4>1. n = Sectors /\ Len(disk) <= n * SECTOR
        BY <1>2, <2>1, <3>1
      <4>2. Len(disk) \in Nat /\ Len(disk) <= STACK_TOP - DEPTH - LOAD
        BY <1>1, <3>1, DiskIs DEF IndInv, PlaceInv, Loading, GoodDisk, SafeSize
      <4>3. LOAD + k - 1 \in Address /\ k <= n * SECTOR
        BY <2>3, <4>1, <4>2, Places
      <4> QED
        BY <2>5, <4>3
    <3>2. pc' = "error_disk" => readError'
      BY <2>1, <2>2
    <3> QED
      BY <2>2, <2>5, <3>1, <3>2 DEF GoodInv
  <2> QED
    BY <2>5, <2>7, <2>8, <2>9, <2>10 DEF IndInv
<1> QED
  BY <1>1, <1>3, <1>4 DEF LoadImage, copy_sectors, DiskError, GoWild

(* The CRC over memory is that of the image only if the image is there,    *)
(* all of it, and below boot0.                                             *)
LEMMA CrcMeans ==
  ASSUME IndInv, pc = "crc32", CrcOfMemory = Header(OFF_CRC)
  PROVE  /\ Size <= BOOT0 - LOAD
         /\ file[OFF_CRC + 1] = GoodCrc /\ file[OFF_CRCSZ + 1] = Num(Size - HDR_LEN)
         /\ \A k \in HDR_LEN + 1 .. Size : mem[LOAD + k - 1] = Linked(version, Size)[k]
<1> DEFINE good == SubSeq(Linked(version, Size), HDR_LEN + 1, Size)
           over == [k \in 1 .. CrcCount |-> mem[(LOAD + Header(OFF_SKIP)[2] + k - 1) % MEM]]
<1>1. /\ BuildInv /\ build = "built"
      /\ Header(OFF_CRC) = file[2] /\ Header(OFF_CRCSZ) = file[3] /\ Header(OFF_SKIP) = file[4]
      /\ \A a \in Address : mem[a] # Other("unset")
      /\ mem[BOOT0] = Other("boot0")
  BY Offsets, Cells DEF IndInv, PlaceInv, Loading, HeaderInv
<1>2. /\ Size \in Nat /\ Size > 5
      /\ \A k \in 1 .. Size : k - 1 \notin Fields => file[k] = Linked(version, Size)[k]
  BY <1>1, BuiltFacts, Offsets
<1>3. Header(OFF_SKIP)[2] = 5
  <2>1. 4 \in 1 .. Size /\ 4 - 1 \notin Fields /\ 4 - 1 = OFF_SKIP
    BY <1>2, Offsets
  <2>2. Linked(version, Size)[4] = Num(HDR_LEN)
    BY <1>2, <2>1, LinkedIs
  <2> QED
    BY <1>1, <1>2, <2>1, <2>2, Distinct, Offsets
<1>4. CrcFieldInv /\ file[2] \in {crc, Num(0)} /\ file[3] \in {crcsz, Num(0)}
  BY <1>1, Offsets DEF BuildInv, FieldInv
<1>5. PICK n \in Nat : file[3] = Num(n) /\ (crcsz = Num(n) \/ n = 0)
  BY <1>2, <1>4, Offsets DEF CrcFieldInv
<1>6. CrcCount = IF n % MEM = 0 THEN MEM ELSE n % MEM
  BY <1>1, <1>5, Distinct DEF CrcCount
<1>7. MEM \in Nat \ {0} /\ n % MEM \in 0 .. MEM - 1 /\ (n = 0 => n % MEM = 0)
  BY Places
<1>8. CrcCount \in 1 .. MEM /\ (n = 0 => CrcCount = MEM)
  BY <1>6, <1>7
<1>9. \A k \in 1 .. CrcCount : over[k] = mem[(LOAD + 5 + k - 1) % MEM]
  BY <1>3
<1>10. DOMAIN over = 1 .. CrcCount
  OBVIOUS
<1>11. \A a \in Nat : a % MEM \in Address /\ (a < MEM => a % MEM = a)
  BY Places
<1>12. Crc(over) = file[2]
  BY <1>1 DEF CrcOfMemory
<1>13. /\ DOMAIN good = 1 .. Size - 5
       /\ \A k \in 1 .. Size - 5 : good[k] = Linked(version, Size)[5 + k]
  <2> DEFINE f == Linked(version, Size)
  <2>1. f = [k \in 1 .. Size |-> f[k]] /\ 5 \in 0 .. Size /\ HDR_LEN + 1 = 5 + 1
    BY <1>2, LinkedIs, Offsets
  <2> HIDE DEF f
  <2>2. SubSeq(f, 5 + 1, Size) = [k \in 1 .. Size - 5 |-> f[5 + k]]
    BY <1>2, <2>1, SubSeqIs
  <2>3. SubSeq(f, HDR_LEN + 1, Size) = [k \in 1 .. Size - 5 |-> f[5 + k]]
    BY <2>1, <2>2
  <2> QED
    BY <2>3 DEF f
<1> HIDE DEF over, good
<1>14. ~Spoilt(over)
  <2>1. ASSUME NEW k \in 1 .. CrcCount
        PROVE  over[k] # Other("unset")
    <3>1. LOAD + 5 + k - 1 \in Nat
      BY <1>8, Places
    <3> QED
      BY <1>1, <1>9, <1>11, <3>1
  <2>2. over # <<>>
    <3>1. 1 \in DOMAIN over
      BY <1>8, <1>10
    <3> QED
      BY <3>1
  <2> QED
    BY <1>10, <2>1, <2>2 DEF Spoilt
<1>15. crc = GoodCrc /\ crcsz = Num(Size - 5) /\ file[2] = GoodCrc /\ over = good
  <2>1. file[2] = crc
    BY <1>4, <1>12, Distinct
  <2>2. ~(crc = Crc(crc[2]) /\ Spoilt(crc[2]))
    <3> SUFFICES ASSUME crc = Crc(crc[2]), Spoilt(crc[2])
                 PROVE  FALSE
      OBVIOUS
    <3>1. over = crc[2]
      BY <1>12, <2>1, Distinct
    <3> QED
      BY <1>14, <3>1
  <2>3. crc = GoodCrc /\ crcsz = Num(Size - 5)
    BY <1>4, <2>2, Offsets DEF CrcFieldInv
  <2>4. Crc(over) = Crc(good)
    BY <1>12, <2>1, <2>3 DEF GoodCrc, good
  <2> QED
    BY <2>1, <2>3, <2>4, Distinct
<1>16. 1 .. CrcCount = 1 .. Size - 5
  BY <1>10, <1>13, <1>15
<1>17. CrcCount = Size - 5
  <2>1. Size - 5 \in 1 .. CrcCount /\ CrcCount \in 1 .. Size - 5
    <3>1. Size - 5 \in 1 .. Size - 5 /\ CrcCount \in 1 .. CrcCount
      BY <1>2, <1>8
    <3> QED
      BY <1>16, <3>1, Zenon
  <2> QED
    BY <1>2, <1>8, <2>1
<1>18. \A k \in 1 .. Size - 5 : mem[(LOAD + 5 + k - 1) % MEM] = Linked(version, Size)[5 + k]
  BY <1>9, <1>13, <1>15, <1>17
<1>19. Size <= BOOT0 - LOAD
  <2> SUFFICES ASSUME Size > BOOT0 - LOAD
               PROVE  FALSE
    BY <1>2, Room
  <2> DEFINE k == BOOT0 - LOAD - 4
  <2>1. k \in 1 .. Size - 5 /\ LOAD + 5 + k - 1 = BOOT0 /\ BOOT0 \in Nat /\ BOOT0 < MEM
        /\ 5 + k \in 1 .. Size /\ (5 + k) - 1 > 4
    BY <1>2, Room
  <2> HIDE DEF k
  <2>2. mem[BOOT0] = Linked(version, Size)[5 + k]
    BY <1>11, <1>18, <2>1
  <2>3. (5 + k) - 1 \notin Fields \cup {OFF_SKIP}
    BY <2>1, Offsets
  <2>4. Linked(version, Size)[5 + k] # Other("boot0")
    <3>1. Linked(version, Size)[5 + k] = <<"code", <<version, (5 + k) - 1>>>>
      BY <1>2, <2>1, <2>3, LinkedIs
    <3> QED
      BY <3>1 DEF Other
  <2> QED
    BY <1>1, <2>2, <2>4
<1>20. file[3] = Num(Size - 5)
  <2>1. n # 0
    BY <1>2, <1>8, <1>17, <1>19, Places
  <2> QED
    BY <1>5, <1>15, <2>1
<1>21. ASSUME NEW k \in HDR_LEN + 1 .. Size
       PROVE  mem[LOAD + k - 1] = Linked(version, Size)[k]
  <2>1. k - 5 \in 1 .. Size - 5 /\ 5 + (k - 5) = k /\ LOAD + 5 + (k - 5) - 1 = LOAD + k - 1
        /\ LOAD + k - 1 \in Nat /\ LOAD + k - 1 < MEM
    BY <1>2, <1>19, Places
  <2> QED
    BY <1>11, <1>18, <2>1
<1> QED
  BY <1>15, <1>19, <1>20, <1>21, Offsets

(* The header and the rest of a good disk. *)
LEMMA GoodDiskIs ==
  ASSUME IndInv, GoodDisk, pc # "off"
  PROVE  /\ Size \in Nat /\ Size > 5 /\ Len(disk) = Size /\ Size <= STACK_TOP - DEPTH - LOAD
         /\ disk[2] = GoodCrc /\ disk[3] = Num(Size - 5) /\ disk[4] = Num(5)
         /\ \A k \in 5 .. Size : disk[k] = Linked(version, Size)[k]
<1>1. BuildInv /\ build = "built"
  BY DEF IndInv, PlaceInv
<1>2. Size \in Nat /\ Len(disk) = Size /\ Size > 5
  BY <1>1, DiskIs, Offsets
<1>3. Size <= STACK_TOP - DEPTH - LOAD
  BY <1>2 DEF GoodDisk, SafeSize
<1> DEFINE l == Linked(version, Size)
           c == GoodCrc
<1>4. disk = [l EXCEPT ![1] = Num(Size), ![3] = Num(Size - 5), ![2] = c]
  BY <1>2, Offsets DEF GoodDisk, HeaderRight, GoodCrc
<1>5. /\ DOMAIN l = 1 .. Size
      /\ l[4] = Num(5)
  <2>1. 4 \in 1 .. Size /\ 4 - 1 = OFF_SKIP
    BY <1>2, Offsets
  <2> QED
    BY <1>2, <2>1, LinkedIs, Offsets
<1> HIDE DEF l, c
<1>6. /\ disk[2] = c /\ disk[3] = Num(Size - 5) /\ disk[4] = Num(5)
  <2>1. 2 \in 1 .. Size /\ 3 \in 1 .. Size /\ 4 \in 1 .. Size
    BY <1>2
  <2> QED
    BY <1>4, <1>5, <2>1
<1>7. \A k \in 5 .. Size : disk[k] = l[k]
  <2>1. \A k \in 5 .. Size : k \in 1 .. Size /\ k # 1 /\ k # 2 /\ k # 3
    BY <1>2
  <2> QED
    BY <1>4, <1>5, <2>1
<1> QED
  BY <1>2, <1>3, <1>6, <1>7 DEF l, c

(* The CRC over memory is that of a good disk. *)
LEMMA GoodCrcMatches ==
  ASSUME IndInv, pc = "crc32", GoodDisk
  PROVE  CrcOfMemory = Header(OFF_CRC)
<1> DEFINE good == SubSeq(Linked(version, Size), HDR_LEN + 1, Size)
           over == [k \in 1 .. CrcCount |-> mem[(LOAD + Header(OFF_SKIP)[2] + k - 1) % MEM]]
<1>1. /\ Size \in Nat /\ Size > 5 /\ Len(disk) = Size /\ Size <= STACK_TOP - DEPTH - LOAD
      /\ disk[2] = GoodCrc /\ disk[3] = Num(Size - 5) /\ disk[4] = Num(5)
      /\ \A k \in 5 .. Size : disk[k] = Linked(version, Size)[k]
  BY GoodDiskIs
<1>2. \A k \in 1 .. Size : mem[LOAD + k - 1] = disk[k]
  BY <1>1 DEF IndInv, GoodInv
<1>3. Header(OFF_CRC) = GoodCrc /\ Header(OFF_CRCSZ)[2] = Size - 5 /\ Header(OFF_SKIP)[2] = 5
  <2>1. /\ 2 \in 1 .. Size /\ 3 \in 1 .. Size /\ 4 \in 1 .. Size
        /\ LOAD + 2 - 1 = LOAD + 1 /\ LOAD + 3 - 1 = LOAD + 2 /\ LOAD + 4 - 1 = LOAD + 3
    BY <1>1, Places
  <2>2. mem[LOAD + 1] = disk[2] /\ mem[LOAD + 2] = disk[3] /\ mem[LOAD + 3] = disk[4]
    BY <1>2, <2>1
  <2> QED
    BY <1>1, <2>2, Distinct, Offsets DEF Header
<1>4. CrcCount = Size - 5
  <2>1. Size - 5 \in Nat /\ Size - 5 < MEM /\ Size - 5 # 0 /\ MEM \in Nat
    BY <1>1, Places
  <2>2. (Size - 5) % MEM = Size - 5
    BY <2>1
  <2> QED
    BY <1>3, <2>1, <2>2 DEF CrcCount
<1>6. ASSUME NEW k \in 1 .. Size - 5
      PROVE  mem[(LOAD + Header(OFF_SKIP)[2] + k - 1) % MEM] = Linked(version, Size)[5 + k]
  <2>1. /\ LOAD + 5 + k - 1 \in Nat /\ LOAD + 5 + k - 1 < MEM /\ MEM \in Nat
        /\ 5 + k \in 1 .. Size /\ 5 + k \in 5 .. Size /\ LOAD + (5 + k) - 1 = LOAD + 5 + k - 1
    BY <1>1, Room
  <2>2. (LOAD + 5 + k - 1) % MEM = LOAD + 5 + k - 1
    BY <2>1
  <2>3. mem[LOAD + 5 + k - 1] = Linked(version, Size)[5 + k]
    BY <1>1, <1>2, <2>1
  <2> QED
    BY <1>3, <2>2, <2>3
<1>7. good = [k \in 1 .. Size - 5 |-> Linked(version, Size)[5 + k]]
  <2> DEFINE f == Linked(version, Size)
  <2>1. f = [k \in 1 .. Size |-> f[k]] /\ 5 \in 0 .. Size /\ HDR_LEN + 1 = 5 + 1
    BY <1>1, LinkedIs, Offsets
  <2> HIDE DEF f
  <2>2. SubSeq(f, 5 + 1, Size) = [k \in 1 .. Size - 5 |-> f[5 + k]]
    BY <1>1, <2>1, SubSeqIs
  <2>3. SubSeq(f, HDR_LEN + 1, Size) = [k \in 1 .. Size - 5 |-> f[5 + k]]
    BY <2>1, <2>2
  <2> QED
    BY <2>3 DEF f
<1>8. over = good
  BY <1>4, <1>6, <1>7
<1> QED
  BY <1>3, <1>8 DEF CrcOfMemory, GoodCrc

(* call crc32 and the pushes of the entry point. *)
LEMMA PushIs ==
  ASSUME IndInv, NEW from, NEW next, Push(from, next), from \notin Ended
  PROVE  /\ pc = from /\ pc' = next /\ sp' = sp - 1 /\ mem' = Pushed(mem, sp, 1)
         /\ UNCHANGED <<shown, drive, readError, image>>
         /\ BuildInv /\ BuildInv' /\ PlaceInv /\ build' = build
         /\ GoodDisk' <=> GoodDisk
         /\ mem' = [a \in Address |-> mem'[a]]
         /\ \A a \in Address : mem'[a] # Other("unset")
         /\ \A a \in Boot0Code \cup SafeCells : mem'[a] = mem[a]
         /\ \A a \in Address : mem'[a] = mem[a] \/ a \in StackCells
<1>1. /\ pc = from /\ pc' = next /\ sp' = sp - 1 /\ mem' = Pushed(mem, sp, 1)
      /\ UNCHANGED <<shown, drive, readError, image>> /\ PlaceInv /\ pc \notin Ended
  BY DEF Push, started, IndInv
<1>2. BuildInv /\ BuildInv' /\ build' = build /\ (GoodDisk' <=> GoodDisk)
  BY <1>1, SameBuild DEF IndInv
<1>3. /\ sp \in Int
      /\ \E b \in BiosStacks \cup {STACK_TOP} : sp <= b /\ sp - FRAME >= b - DEPTH
      /\ Below(sp, FRAME) \subseteq StackCells
  BY <1>1, StackOf
<1>4. PICK b \in BiosStacks \cup {STACK_TOP} : sp <= b /\ sp - FRAME >= b - DEPTH
  BY <1>3
<1>5. b \in Int /\ sp - 1 >= b - DEPTH /\ 1 \in Nat
  BY <1>3, <1>4, Places
<1>6. /\ mem' = [a \in Address |-> mem'[a]]
      /\ \A a \in Address : mem'[a] # Other("unset")
      /\ \A a \in Boot0Code \cup SafeCells : mem'[a] = mem[a]
      /\ \A a \in Address : mem'[a] = mem[a] \/ a \in Below(sp, 1)
  <2> DEFINE one == 1
  <2>1. one \in Nat /\ sp - one >= b - DEPTH /\ mem' = Pushed(mem, sp, one)
    BY <1>1, <1>5
  <2> HIDE DEF one
  <2>2. /\ mem' = [a \in Address |-> mem'[a]]
        /\ \A a \in Address : mem'[a] # Other("unset")
        /\ \A a \in Boot0Code \cup SafeCells : mem'[a] = mem[a]
        /\ \A a \in Address : mem'[a] = mem[a] \/ a \in Below(sp, one)
    BY <1>1, <1>3, <1>4, <2>1, PushKeepsPlace
  <2> QED
    BY <2>2 DEF one
<1>7. Below(sp, 1) \subseteq Below(sp, FRAME)
  BY <1>3, Places DEF Below
<1> QED
  BY <1>1, <1>2, <1>3, <1>6, <1>7

LEMMA CallCrcKeeps ==
  ASSUME IndInv, CallCrc
  PROVE  IndInv'
<1>1. /\ pc = "crc" /\ pc' = "crc32" /\ sp' = sp - 1 /\ dl' = dl
      /\ UNCHANGED <<shown, drive, readError, image>>
      /\ BuildInv /\ BuildInv' /\ PlaceInv /\ build' = build
      /\ GoodDisk' <=> GoodDisk
      /\ mem' = [a \in Address |-> mem'[a]]
      /\ \A a \in Address : mem'[a] # Other("unset")
      /\ \A a \in Boot0Code \cup SafeCells : mem'[a] = mem[a]
  <2>1. Push("crc", "crc32") /\ dl' = dl
    BY DEF CallCrc
  <2>2. "crc" \notin Ended
    BY DEF Ended
  <2> QED
    BY <2>1, <2>2, PushIs
<1>2. /\ sp \in BiosStacks /\ build = "built" /\ mem[biosdev] = drive
      /\ dl # Other("unset") /\ drive # Other("unset")
      /\ \A a \in Boot0Code \ {biosdev} : mem[a] = Other("boot0")
  BY <1>1 DEF PlaceInv, Loading
<1>3. sp' \in Int /\ sp' + 1 \in BiosStacks
  <2>1. sp \in Int /\ sp' = sp - 1
    BY <1>1, <1>2, Places
  <2> QED
    BY <1>2, <2>1
<1>4. PlaceInv'
  BY <1>1, <1>2, <1>3, Cells DEF PlaceInv, Loading, Leaving
<1>5. HeaderInv'
  <2>1. UNCHANGED file
    BY <1>1, SameBuild
  <2> QED
    BY <1>1, <2>1, Cells DEF IndInv, HeaderInv, Header
<1>6. LoadedInv'
  BY <1>1 DEF LoadedInv, Leaving
<1>7. GoodInv'
  <2>1. ASSUME GoodDisk, NEW k \in 1 .. Len(disk)
        PROVE  mem'[LOAD + k - 1] = disk[k]
    <3>1. mem[LOAD + k - 1] = disk[k]
      BY <1>1, <2>1 DEF IndInv, GoodInv
    <3>2. Len(disk) \in Nat /\ Len(disk) <= STACK_TOP - DEPTH - LOAD
      BY <1>1, <1>2, <2>1, DiskIs DEF GoodDisk, SafeSize
    <3>3. LOAD + k - 1 \in SafeCells
      BY <3>2, Places DEF SafeCells
    <3> QED
      BY <1>1, <3>1, <3>3
  <2>2. disk' = disk
    BY <1>1, SameBuild
  <2> QED
    BY <1>1, <2>1, <2>2 DEF GoodInv
<1> QED
  BY <1>1, <1>4, <1>5, <1>6, <1>7 DEF IndInv

LEMMA CheckCrcKeeps ==
  ASSUME IndInv, CheckCrc
  PROVE  IndInv'
<1>1. /\ pc = "crc32" /\ mem' = mem /\ dl' = Num(0) /\ sp' = sp + 1
      /\ pc' = IF CrcOfMemory = Header(OFF_CRC) THEN "set_stack" ELSE "error_crc"
      /\ UNCHANGED <<shown, drive, readError, image>>
  BY DEF CheckCrc, started
<1>2. /\ UNCHANGED <<build, version, file, crc, disk, unnoticed>>
      /\ BuildInv /\ BuildInv' /\ (GoodDisk' <=> GoodDisk) /\ Size' = Size /\ GoodCrc' = GoodCrc
  BY <1>1, SameBuild DEF IndInv
<1>3. /\ build = "built" /\ sp' \in BiosStacks
      /\ mem[biosdev] = drive /\ drive # Other("unset")
      /\ \A a \in Boot0Code \ {biosdev} : mem[a] = Other("boot0")
  BY <1>1 DEF IndInv, PlaceInv, Loading
<1>4. PlaceInv'
  BY <1>1, <1>2, <1>3, Distinct DEF IndInv, PlaceInv, Loading, Leaving
<1>5. HeaderInv'
  BY <1>1 DEF HeaderInv
<1>6. LoadedInv'
  <2>1. ASSUME CrcOfMemory = Header(OFF_CRC)
        PROVE  /\ Size <= BOOT0 - LOAD
               /\ file[OFF_CRC + 1] = GoodCrc /\ file[OFF_CRCSZ + 1] = Num(Size - HDR_LEN)
               /\ \A k \in OFF_ENTRY + 1 .. Size : mem'[LOAD + k - 1] = Linked(version, Size)[k]
    <3>1. /\ Size <= BOOT0 - LOAD
          /\ file[OFF_CRC + 1] = GoodCrc /\ file[OFF_CRCSZ + 1] = Num(Size - HDR_LEN)
          /\ \A k \in HDR_LEN + 1 .. Size : mem'[LOAD + k - 1] = Linked(version, Size)[k]
      BY <1>1, <2>1, CrcMeans
    <3>2. Size \in Nat /\ Size > 5
          /\ \A k \in 1 .. Size : k - 1 \notin Fields => file[k] = Linked(version, Size)[k]
      BY <1>2, <1>3, BuiltFacts, Offsets
    <3>3. mem'[LOAD + 4] = Linked(version, Size)[5]
      <4>1. 4 \in 0 .. HDR_LEN - 1 /\ 5 \in 1 .. Size /\ 5 - 1 \notin Fields /\ 4 + 1 = 5
        BY <3>2, Offsets
      <4>2. mem[LOAD + 4] = file[5]
        BY <1>1, <4>1 DEF IndInv, HeaderInv, Header
      <4> QED
        BY <1>1, <3>2, <4>1, <4>2
    <3>4. \A k \in OFF_ENTRY + 1 .. Size : k \in HDR_LEN + 1 .. Size \/ k = 5
      BY <3>2, Offsets
    <3>5. LOAD + 5 - 1 = LOAD + 4
      BY Places
    <3> QED
      BY <3>1, <3>3, <3>4, <3>5
  <2>2. \A k : InMemory(k)' <=> mem'[LOAD + k - 1] = Linked(version, Size)[k]
    BY <1>2 DEF InMemory, Size
  <2> QED
    BY <1>1, <1>2, <2>1, <2>2 DEF LoadedInv, Leaving
<1>7. GoodInv'
  <2>1. GoodDisk => pc' = "set_stack"
    BY <1>1, GoodCrcMatches
  <2> QED
    BY <1>2, <2>1 DEF GoodInv
<1> QED
  BY <1>2, <1>4, <1>5, <1>6, <1>7 DEF IndInv

LEMMA PrintKeeps ==
  ASSUME IndInv, error_disk \/ error_crc
  PROVE  IndInv'
<1>1. /\ pc \in {"error_disk", "error_crc"} /\ pc' = "end" /\ mem' = Pushed(mem, sp, DEPTH)
      /\ shown' = IF pc = "error_disk" THEN "DISKERRMSG" ELSE "CRCERRMSG"
      /\ UNCHANGED <<sp, dl, drive, readError, image>>
  BY DEF error_disk, error_crc, print, started
<1>2. BuildInv' /\ (GoodDisk' <=> GoodDisk) /\ build' = build
  BY <1>1, SameBuild DEF IndInv
<1>3. /\ sp \in BiosStacks \cup {STACK_TOP} /\ sp \in Int /\ DEPTH \in Nat
      /\ sp <= sp /\ sp - DEPTH >= sp - DEPTH
  <2>1. sp \in BiosStacks
    BY <1>1 DEF IndInv, PlaceInv, Loading
  <2> QED
    BY <2>1, Places
<1>4. /\ mem' = [a \in Address |-> mem'[a]]
      /\ \A a \in Address : mem'[a] # Other("unset")
  BY <1>1, <1>3, PushKeepsPlace DEF IndInv
<1>5. PlaceInv'
  BY <1>1, <1>2, <1>4 DEF IndInv, PlaceInv, Loading, Leaving
<1>6. HeaderInv' /\ LoadedInv'
  BY <1>1 DEF HeaderInv, LoadedInv, Leaving
<1>7. GoodInv'
  BY <1>1, <1>2 DEF IndInv, GoodInv
<1> QED
  BY <1>2, <1>5, <1>6, <1>7 DEF IndInv

LEMMA SetStackKeeps ==
  ASSUME IndInv, SetStack
  PROVE  IndInv'
<1>1. /\ pc = "set_stack" /\ pc' = "push_segment" /\ sp' = STACK_TOP
      /\ UNCHANGED <<mem, dl, shown, drive, readError, image>>
  BY DEF SetStack, SetStackTo, started
<1>2. /\ UNCHANGED <<build, version, file, disk>>
      /\ BuildInv' /\ (GoodDisk' <=> GoodDisk)
  BY <1>1, SameBuild DEF IndInv
<1>3. PlaceInv'
  BY <1>1, <1>2 DEF IndInv, PlaceInv, Loading, Leaving
<1>4. HeaderInv' /\ GoodInv'
  BY <1>1 DEF HeaderInv, GoodInv
<1>5. LoadedInv'
  <2>1. /\ Size' <= BOOT0 - LOAD
        /\ file'[OFF_CRC + 1] = GoodCrc' /\ file'[OFF_CRCSZ + 1] = Num(Size' - HDR_LEN)
        /\ \A k \in OFF_ENTRY + 1 .. Size' : InMemory(k)' \/ LOAD + k - 1 \in StackCells
    BY <1>1, LoadedKept DEF IndInv
  <2> QED
    BY <1>1, <2>1 DEF LoadedInv
<1> QED
  BY <1>2, <1>3, <1>4, <1>5 DEF IndInv

LEMMA PushesKeep ==
  ASSUME IndInv, PushSegment \/ PushOffset
  PROVE  IndInv'
<1>1. PICK from \in {"push_segment", "push_offset"}, next \in {"push_offset", "retf"} :
        /\ Push(from, next)
        /\ \/ from = "push_segment" /\ next = "push_offset" /\ dl' = mem[biosdev]
           \/ from = "push_offset" /\ next = "retf" /\ dl' = dl
  BY DEF PushSegment, PushOffset
<1>2. from \notin Ended
  BY <1>1 DEF Ended
<1>3. /\ pc = from /\ pc' = next /\ sp' = sp - 1
      /\ UNCHANGED <<shown, drive, readError, image>>
      /\ BuildInv' /\ PlaceInv /\ build' = build
      /\ mem' = [a \in Address |-> mem'[a]]
      /\ \A a \in Address : mem'[a] # Other("unset")
      /\ \A a \in Address : mem'[a] = mem[a] \/ a \in StackCells
  BY <1>1, <1>2, PushIs
<1>4. dl' = drive /\ drive # Other("unset") /\ build = "built"
  BY <1>1, <1>3 DEF PlaceInv
<1>5. sp' = IF next = "push_offset" THEN STACK_TOP - 1 ELSE STACK_TOP - 2
  <2>1. sp = IF next = "push_offset" THEN STACK_TOP ELSE STACK_TOP - 1
    BY <1>1, <1>3 DEF PlaceInv
  <2> QED
    BY <1>3, <2>1, Room
<1>6. PlaceInv'
  BY <1>1, <1>3, <1>4, <1>5 DEF PlaceInv, Loading, Leaving
<1>7. HeaderInv' /\ GoodInv'
  BY <1>1, <1>3 DEF HeaderInv, GoodInv
<1>8. LoadedInv'
  <2>1. /\ Size' <= BOOT0 - LOAD
        /\ file'[OFF_CRC + 1] = GoodCrc' /\ file'[OFF_CRCSZ + 1] = Num(Size' - HDR_LEN)
        /\ \A k \in OFF_ENTRY + 1 .. Size' : InMemory(k)' \/ LOAD + k - 1 \in StackCells
    BY <1>1, <1>3, LoadedKept DEF IndInv, Leaving
  <2> QED
    BY <1>1, <1>3, <2>1 DEF LoadedInv
<1> QED
  BY <1>3, <1>6, <1>7, <1>8 DEF IndInv

LEMMA RetfKeeps ==
  ASSUME IndInv, Retf
  PROVE  IndInv'
<1>1. /\ pc = "retf" /\ pc' = "boot1"
      /\ UNCHANGED <<mem, dl, shown, drive, readError, image>>
  BY DEF Retf, started
<1>2. build' = build /\ BuildInv'
  BY <1>1, SameBuild DEF IndInv
<1>3. PlaceInv'
  BY <1>1, <1>2 DEF IndInv, PlaceInv, Loading, Leaving
<1>4. HeaderInv' /\ GoodInv'
  BY <1>1 DEF HeaderInv, GoodInv
<1>5. LoadedInv'
  <2>1. /\ Size' <= BOOT0 - LOAD
        /\ file'[OFF_CRC + 1] = GoodCrc' /\ file'[OFF_CRCSZ + 1] = Num(Size' - HDR_LEN)
        /\ \A k \in OFF_ENTRY + 1 .. Size' : InMemory(k)' \/ LOAD + k - 1 \in StackCells
    BY <1>1, LoadedKept DEF IndInv, Leaving
  <2>2. dl' = drive'
    BY <1>1 DEF IndInv, PlaceInv
  <2> QED
    BY <1>1, <2>1, <2>2 DEF LoadedInv
<1> QED
  BY <1>2, <1>3, <1>4, <1>5 DEF IndInv

LEMMA StutterKeeps ==
  ASSUME IndInv, UNCHANGED vars
  PROVE  IndInv'
<1>1. UNCHANGED <<pc, mem, sp, dl, shown, drive, readError, image>>
  BY DEF vars, boot, started
<1>2. /\ UNCHANGED <<build, version, file, crc, disk, unnoticed>>
      /\ BuildInv' /\ (GoodDisk' <=> GoodDisk) /\ Size' = Size /\ GoodCrc' = GoodCrc
  BY <1>1, SameBuild DEF IndInv
<1>3. PlaceInv'
  BY <1>1, <1>2 DEF IndInv, PlaceInv
<1>4. HeaderInv'
  BY <1>1, <1>2 DEF IndInv, HeaderInv, Header
<1>5. LoadedInv'
  BY <1>1, <1>2 DEF IndInv, LoadedInv, InMemory, Size
<1>6. GoodInv'
  BY <1>1, <1>2 DEF IndInv, GoodInv
<1> QED
  BY <1>2, <1>3, <1>4, <1>5, <1>6 DEF IndInv

LEMMA Initially == Init => IndInv
<1> SUFFICES ASSUME Init
             PROVE  IndInv
  OBVIOUS
<1>1. build = "none" /\ disk = <<>> /\ unnoticed = 0
  BY DEF Init, BuildInit
<1>2. pc = "off" /\ mem = Fresh /\ dl = Num(0) /\ drive = Num(0)
  BY DEF Init, Boot0Init
<1>3. BuildInv
  BY <1>1 DEF BuildInv, FieldInv
<1>4. PlaceInv
  BY <1>2, Distinct DEF PlaceInv, Loading, Leaving, Fresh
<1>5. HeaderInv /\ LoadedInv /\ GoodInv
  BY <1>2 DEF HeaderInv, LoadedInv, GoodInv, Leaving
<1> QED
  BY <1>3, <1>4, <1>5 DEF IndInv

-----------------------------------------------------------------------------
(* Through every build and boot, the build is at the step that its file    *)
(* and disk say, boot0 is where it was loaded, and what it has loaded and  *)
(* checked is what the build has made.                                     *)
THEOREM Invariance == Spec => []IndInv
<1>1. IndInv /\ [Next]_vars => IndInv'
  <2> SUFFICES ASSUME IndInv, [Next]_vars
               PROVE  IndInv'
    OBVIOUS
  <2>1. CASE Rebuild
    BY <2>1, RebuildKeeps
  <2>2. CASE Continue
    BY <2>2, ContinueKeeps
  <2>3. CASE PowerOn
    BY <2>3, PowerOnKeeps
  <2>4. CASE Tick
    BY <2>4, TickKeeps
  <2>5. CASE Boot0Step
    BY <2>5, StartKeeps, LoadHeaderKeeps, LoadImageKeeps, CallCrcKeeps, CheckCrcKeeps,
       SetStackKeeps, PushesKeep, RetfKeeps, PrintKeeps DEF Boot0Step
  <2>6. CASE UNCHANGED vars
    BY <2>6, StutterKeeps
  <2> QED
    BY <2>1, <2>2, <2>3, <2>4, <2>5, <2>6 DEF Next
<1> QED
  BY <1>1, Initially, PTL DEF Spec

(* The right header, field by field, and the sectors before tc.hdr. *)
LEMMA HeaderIs ==
  ASSUME NEW v, NEW n \in Nat, n > 5, NEW f, f = [k \in 1 .. n |-> f[k]],
         f[1] = Num(n), f[3] = Num(n - 5),
         f[2] = Crc(SubSeq(Linked(v, n), HDR_LEN + 1, n)),
         \A k \in 1 .. n : k - 1 \notin Fields => f[k] = Linked(v, n)[k]
  PROVE  HeaderRight(f, v)
<1> DEFINE l == Linked(v, n)
           c == Crc(SubSeq(l, HDR_LEN + 1, n))
           r == [l EXCEPT ![1] = Num(n), ![3] = Num(n - 5), ![2] = c]
<1>1. /\ l = [k \in 1 .. n |-> l[k]] /\ Len(f) = n /\ f[2] = c
      /\ \A k \in 1 .. n : k - 1 \notin Fields => f[k] = l[k]
  <2>1. l = [k \in 1 .. n |-> l[k]]
    BY LinkedIs
  <2>2. Len(f) = n
    BY FunctionIsSeq
  <2> QED
    BY <2>1, <2>2
<1>2. HeaderRight(f, v) <=> f = r
  <2>1. HeaderRight(f, v) <=>
          f = [l EXCEPT ![OFF_LOADSZ + 1] = Num(n), ![OFF_CRCSZ + 1] = Num(n - HDR_LEN),
                        ![OFF_CRC + 1] = c]
    BY <1>1 DEF HeaderRight
  <2>2. OFF_LOADSZ + 1 = 1 /\ OFF_CRCSZ + 1 = 3 /\ OFF_CRC + 1 = 2 /\ n - HDR_LEN = n - 5
    BY Offsets
  <2> HIDE DEF l, c
  <2> QED
    BY <2>1, <2>2
<1> HIDE DEF l, c
<1>3. /\ r = [k \in 1 .. n |-> r[k]]
      /\ r[1] = Num(n) /\ r[2] = c /\ r[3] = Num(n - 5)
      /\ \A k \in 1 .. n : k \notin {1, 2, 3} => r[k] = l[k]
  <2>1. 1 \in 1 .. n /\ 2 \in 1 .. n /\ 3 \in 1 .. n
    OBVIOUS
  <2>2. DOMAIN l = 1 .. n
    BY <1>1
  <2>3. r = [k \in 1 .. n |-> r[k]]
    BY <2>2
  <2>4. r[1] = Num(n) /\ r[2] = c /\ r[3] = Num(n - 5)
    BY <2>1, <2>2
  <2>5. \A k \in 1 .. n : k \notin {1, 2, 3} => r[k] = l[k]
    BY <2>2
  <2> QED
    BY <2>3, <2>4, <2>5
<1> HIDE DEF r
<1>4. ASSUME NEW k \in 1 .. n
      PROVE  f[k] = r[k]
  <2>1. k \notin {1, 2, 3} => k - 1 \notin Fields
    BY Offsets
  <2> QED
    BY <1>1, <1>3, <2>1
<1> QED
  BY <1>2, <1>3, <1>4

LEMMA BeforeTcHdr ==
  ASSUME NEW k \in Nat, k > 0, k <= (TCHDR - 1) * SECTOR
  PROVE  1 + (k - 1) \div SECTOR # TCHDR
<1> DEFINE q == (k - 1) \div SECTOR
           t == TCHDR - 1
<1>1. k - 1 \in Nat /\ SECTOR \in Nat \ {0} /\ TCHDR \in Int
  BY ImageAssumption, Offsets
<1>2. q \in Nat /\ q * SECTOR <= k - 1
  BY <1>1, DivIs
<1>3. t \in Int /\ k <= t * SECTOR
  BY <1>1
<1>4. q # t
  <2> HIDE DEF q, t
  <2>1. q * SECTOR \in Int /\ t * SECTOR \in Int
    BY <1>1, <1>2, <1>3
  <2> QED
    BY <1>1, <1>2, <1>3, <2>1
<1> HIDE DEF q
<1>5. 1 + q # TCHDR
  BY <1>1, <1>2, <1>4 DEF t
<1> QED
  BY <1>5 DEF q

(* genhdr.c: a build that ends without an error has made the right header, *)
(* and put it on the disk, if nothing went wrong that it does not notice.  *)
THEOREM BuiltRight == Spec => []BuiltUnlessUnnoticed
<1>1. IndInv => BuiltUnlessUnnoticed
  <2> SUFFICES ASSUME IndInv, build = "built", unnoticed = 0
               PROVE  /\ HeaderRight(file, version)
                      /\ \A k \in 1 .. Len(file) : k <= (TCHDR - 1) * SECTOR => disk[k] = file[k]
    BY DEF BuiltUnlessUnnoticed
  <2>1. /\ Size \in Nat /\ Size > 5 /\ file = [k \in 1 .. Size |-> file[k]]
        /\ \A k \in 1 .. Size : k - 1 \notin Fields => file[k] = Linked(version, Size)[k]
        /\ disk = [k \in 1 .. Size |->
                    IF 1 + (k - 1) \div SECTOR = TCHDR THEN Other("tc.hdr") ELSE file[k]]
    BY BuiltFacts, Offsets DEF IndInv, BuildInv
  <2>2. /\ file[1] = Num(Size) /\ file[3] = Num(Size - 5) /\ file[2] = GoodCrc
    BY Offsets DEF IndInv, BuildInv, FieldInv, CrcFieldInv
  <2>3. HeaderRight(file, version)
    BY <2>1, <2>2, HeaderIs DEF GoodCrc
  <2>4. ASSUME NEW k \in 1 .. Size, k <= (TCHDR - 1) * SECTOR
        PROVE  disk[k] = file[k]
    <3>1. k \in Nat /\ k > 0
      BY <2>1
    <3>2. 1 + (k - 1) \div SECTOR # TCHDR
      BY <2>4, <3>1, BeforeTcHdr
    <3> QED
      BY <2>1, <3>2
  <2> QED
    BY <2>3, <2>4 DEF Size
<1> QED
  BY <1>1, Invariance, PTL

(* boot0.s: what it enters is boot1 as it was built, but for the cells     *)
(* that stacks take, and told the drive it came from.                      *)
THEOREM RunsBuilt == Spec => []RunsWhatWasBuilt
<1>1. IndInv => RunsWhatWasBuilt
  BY DEF IndInv, LoadedInv, RunsWhatWasBuilt, Size
<1> QED
  BY <1>1, Invariance, PTL

(* boot0.s: an image that ends below the stack is entered whole. *)
THEOREM RunsUntouchedImage == Spec => []RunsUntouched
<1>1. IndInv => RunsUntouched
  <2> SUFFICES ASSUME IndInv, pc = "boot1", Len(file) <= SafeSize,
                      NEW k \in OFF_ENTRY + 1 .. Len(file)
               PROVE  InMemory(k)
    BY DEF RunsUntouched
  <2>1. InMemory(k) \/ LOAD + k - 1 \in StackCells
    BY DEF IndInv, LoadedInv, Size
  <2>2. Size \in Nat
    BY BuiltFacts DEF IndInv, PlaceInv
  <2>3. LOAD + k - 1 \in SafeCells
    BY <2>2, Places, Offsets DEF SafeCells, SafeSize, Size
  <2>4. LOAD + k - 1 \notin StackCells
    BY <2>3, Cells
  <2> QED
    BY <2>1, <2>4
<1> QED
  BY <1>1, Invariance, PTL

(* boot0.s, genhdr.c and the Makefile: boot1 is entered only from a disk   *)
(* with the right CRC and size of it, over which dd has not put tc.hdr.    *)
THEOREM EntersWhole == Spec => []EntersOnlyWhole
<1>1. IndInv => EntersOnlyWhole
  <2> SUFFICES ASSUME IndInv, pc = "boot1"
               PROVE  /\ HeaderRight([file EXCEPT ![OFF_LOADSZ + 1] = Num(Len(file))], version)
                      /\ disk = file
    BY DEF EntersOnlyWhole
  <2>1. build = "built" /\ BuildInv
    BY DEF IndInv, PlaceInv
  <2>2. /\ Size \in Nat /\ Size > 5 /\ file = [k \in 1 .. Size |-> file[k]]
        /\ \A k \in 1 .. Size : k - 1 \notin Fields => file[k] = Linked(version, Size)[k]
        /\ disk = [k \in 1 .. Size |->
                    IF 1 + (k - 1) \div SECTOR = TCHDR THEN Other("tc.hdr") ELSE file[k]]
    BY <2>1, BuiltFacts, Offsets DEF BuildInv
  <2>3. Size <= BOOT0 - LOAD /\ file[2] = GoodCrc /\ file[3] = Num(Size - 5)
    BY Offsets DEF IndInv, LoadedInv
  <2> DEFINE f == [file EXCEPT ![1] = Num(Size)]
  <2>4. /\ f = [k \in 1 .. Size |-> f[k]] /\ f[1] = Num(Size)
        /\ \A k \in 1 .. Size : k # 1 => f[k] = file[k]
    BY <2>2
  <2>5. /\ 2 \in 1 .. Size /\ 3 \in 1 .. Size
        /\ \A k \in 1 .. Size : k - 1 \notin Fields => k # 1
    BY <2>2, Offsets
  <2> HIDE DEF f
  <2>6. f[2] = GoodCrc /\ f[3] = Num(Size - 5)
        /\ \A k \in 1 .. Size : k - 1 \notin Fields => f[k] = Linked(version, Size)[k]
    BY <2>2, <2>3, <2>4, <2>5
  <2>7. HeaderRight(f, version)
    BY <2>2, <2>4, <2>6, HeaderIs DEF GoodCrc
  <2>8. \A k \in 1 .. Size : disk[k] = file[k]
    <3> SUFFICES ASSUME NEW k \in 1 .. Size
                 PROVE  disk[k] = file[k]
      OBVIOUS
    <3>1. BOOT0 - LOAD <= (TCHDR - 1) * SECTOR
      BY PlacesAssumption
    <3>2. (TCHDR - 1) * SECTOR \in Int
      BY ImageAssumption
    <3>3. k \in Nat /\ k > 0 /\ k <= (TCHDR - 1) * SECTOR
      <4> DEFINE t == (TCHDR - 1) * SECTOR
      <4> HIDE DEF t
      <4>1. t \in Int /\ BOOT0 - LOAD <= t
        BY <3>1, <3>2 DEF t
      <4>2. k \in Nat /\ k > 0 /\ k <= t
        <5>1. Size \in Nat /\ Size <= BOOT0 - LOAD
          BY <2>2, <2>3
        <5> QED
          BY <4>1, <5>1, Room
      <4> QED
        BY <4>2 DEF t
    <3>4. 1 + (k - 1) \div SECTOR # TCHDR
      BY <3>3, BeforeTcHdr
    <3> QED
      BY <2>2, <3>4
  <2>9. disk = file
    BY <2>2, <2>8
  <2> QED
    BY <2>7, <2>9, Offsets DEF f, Size
<1> QED
  BY <1>1, Invariance, PTL

(* boot0.s and genhdr.c: a disk that was built right is refused by no      *)
(* check: it boots, or the disk is said to be at fault after an error.     *)
THEOREM GoodDiskIsBooted == Spec => []GoodDiskBoots
<1>1. IndInv => GoodDiskBoots
  BY DEF IndInv, GoodInv, GoodDiskBoots
<1> QED
  BY <1>1, Invariance, PTL
-----------------------------------------------------------------------------
(* CRC-32.  The division's remainder is kept mirrored in a register, and a *)
(* step of the division is a turn of the register: by one bit, with POLY   *)
(* taken off if the bit was 1.  Turns are linear, so a table of what two   *)
(* or eight of them make of each low pair or byte, and a shift, is the     *)
(* same; a byte more is eight steps more, at the end.                      *)

(* Induction: a set that has 0, and n + 1 with n, has every number. *)
LEMMA SetInduction ==
  ASSUME NEW S, 0 \in S, \A n \in Nat : n \in S => n + 1 \in S
  PROVE  Nat \subseteq S
<1> SUFFICES ASSUME Nat \ S # {} PROVE FALSE
  OBVIOUS
<1> DEFINE R == {ss \in Nat \X Nat : ss[1] < ss[2]}
<1>1. IsWellFoundedOn(R, Nat)
  BY NatLessThanWellFounded DEF OpToRel
<1>2. PICK n \in Nat \ S : \A m \in Nat \ S : ~(<<m, n>> \in R)
  BY <1>1, WFMin
<1>3. n - 1 \in Nat /\ n - 1 < n
  BY <1>2
<1>4. <<n - 1, n>> \in R
  BY <1>3
<1>5. n - 1 \in S
  BY <1>2, <1>3, <1>4
<1> QED
  BY <1>2, <1>3, <1>5

(* One bit's turn of the register: what two of the tables' make. *)
Feedback == {31 - q : q \in POLY \ {32}}
Turn(w) == Xor({p - 1 : p \in w \ {0}}, IF 0 \in w THEN Feedback ELSE {})
Turn2(w) == Turn(Turn(w))
Turn4(w) == Turn2(Turn2(w))
Turn8(w) == Turn4(Turn4(w))

LEMMA FeedbackIs ==
  Feedback = {31, 30, 29, 27, 26, 24, 23, 21, 20, 19, 15, 9, 8, 5}
BY DEF Feedback, POLY

(* The tables of crc32_tiny.c and boot0.s: two turns. *)
LEMMA TinyEntries ==
  /\ Word(\h76DC, \h4190) = {p - 1 : p \in Feedback}
  /\ Word(\hEDB8, \h8320) = Feedback
  /\ Word(\h9B64, \hC2B0) = Xor({p - 1 : p \in Feedback}, Feedback)
<1>1. ASSUME NEW p \in 0 .. 15
      PROVE  /\ Bit(\h4190, p) <=> p + 1 \in Feedback
             /\ Bit(\h8320, p) <=> p \in Feedback
             /\ Bit(\hC2B0, p) <=> ~(p + 1 \in Feedback <=> p \in Feedback)
  BY FeedbackIs DEF Bit, TwoTo
<1>2. ASSUME NEW p \in 16 .. 31
      PROVE  /\ Bit(\h76DC, p - 16) <=> p + 1 \in Feedback
             /\ Bit(\hEDB8, p - 16) <=> p \in Feedback
             /\ Bit(\h9B64, p - 16) <=> ~(p + 1 \in Feedback <=> p \in Feedback)
  BY FeedbackIs DEF Bit, TwoTo
<1>3. \A p : p \in Bits <=> p \in 0 .. 15 \/ p \in 16 .. 31
  BY DEF Bits
<1>4. /\ \A p \in 0 .. 15 : p < 16
      /\ \A p \in 16 .. 31 : ~(p < 16)
  OBVIOUS
<1> DEFINE D == {p - 1 : p \in Feedback}
<1>5. \A p : p \in Feedback => p \in Bits /\ p - 1 \in Bits /\ p \in Int
  BY FeedbackIs DEF Bits
<1>6. \A p \in Bits : p \in D <=> p + 1 \in Feedback
  BY <1>5 DEF Bits
<1>7. D \subseteq Bits /\ Feedback \subseteq Bits
  BY <1>5
<1> HIDE DEF D
<1>8. Word(\h76DC, \h4190) = D
  BY <1>1, <1>2, <1>3, <1>4, <1>6, <1>7 DEF Word
<1>9. Word(\hEDB8, \h8320) = Feedback
  BY <1>1, <1>2, <1>3, <1>4, <1>7 DEF Word
<1>10. Word(\h9B64, \hC2B0) = Xor(D, Feedback)
  BY <1>1, <1>2, <1>3, <1>4, <1>6, <1>7 DEF Word, Xor
<1> QED
  BY <1>8, <1>9, <1>10 DEF D

LEMMA TinyTable ==
  ASSUME NEW w \in SUBSET Bits
  PROVE  Xor(tiny_tab[Value(Mask(w, 2))], Shr(w, 2)) = Turn2(w)
<1> DEFINE D == {p - 1 : p \in Feedback}
           E == {p - 1 : p \in w \ {0}}
           F == {p - 2 : p \in {q \in w : q >= 2}}
           a == IF 0 \in w THEN Feedback ELSE {}
           b == IF 0 \in w THEN D ELSE {}
           c == IF 1 \in w THEN Feedback ELSE {}
<1>1. Mask(w, 2) = w \cap {0, 1}
  BY DEF Mask, Bits
<1>2. Value(Mask(w, 2)) = (IF 0 \in w THEN 1 ELSE 0) + (IF 1 \in w THEN 2 ELSE 0)
  BY <1>1 DEF Value
<1>3. tiny_tab[Value(Mask(w, 2))] = Xor(b, c)
  <2>1. /\ Xor({}, {}) = {} /\ Xor(D, {}) = D /\ Xor({}, Feedback) = Feedback
    BY DEF Xor
  <2>2. tiny_tab[0] = {} /\ tiny_tab[1] = D /\ tiny_tab[2] = Feedback /\ tiny_tab[3] = Xor(D, Feedback)
    BY TinyEntries DEF tiny_tab
  <2> HIDE DEF D
  <2>3. CASE 0 \in w /\ 1 \in w
    BY <1>2, <2>1, <2>2, <2>3
  <2>4. CASE 0 \in w /\ 1 \notin w
    BY <1>2, <2>1, <2>2, <2>4
  <2>5. CASE 0 \notin w /\ 1 \in w
    BY <1>2, <2>1, <2>2, <2>5
  <2>6. CASE 0 \notin w /\ 1 \notin w
    BY <1>2, <2>1, <2>2, <2>6
  <2> QED
    BY <2>3, <2>4, <2>5, <2>6
<1>4. 0 \notin Feedback /\ Feedback \subseteq Bits
  BY FeedbackIs DEF Bits
<1>5. Turn(w) = Xor(E, a)
  BY DEF Turn
<1>6. 0 \in Turn(w) <=> 1 \in w
  BY <1>4, <1>5 DEF Xor, Bits
<1>7. {p - 1 : p \in Turn(w) \ {0}} = Xor(F, b)
  <2>1. \A p : p \in F <=> p \in Nat /\ p + 2 \in w
    BY DEF Bits
  <2>2. \A p : p \in b <=> p \in Nat /\ p + 1 \in a
    BY <1>4 DEF Bits
  <2>3. \A p : p \in E <=> p \in Nat /\ p + 1 \in w
    BY DEF Bits
  <2>4. \A p : p \in a => p \in Nat
    BY <1>4 DEF Bits
  <2> HIDE DEF F, b, a, E
  <2>5. \A p : p \in Turn(w) <=> p \in Nat /\ ~(p + 1 \in w <=> p \in a)
    BY <1>5, <2>3, <2>4 DEF Xor
  <2>6. \A p : p \in {pp - 1 : pp \in Turn(w) \ {0}} <=> p \in Nat /\ p + 1 \in Turn(w)
    BY <2>5
  <2>7. \A p \in Nat : (p + 1) + 1 = p + 2 /\ p + 1 \in Nat
    OBVIOUS
  <2>8. \A p : p \in {pp - 1 : pp \in Turn(w) \ {0}} <=> p \in Nat /\ ~(p + 2 \in w <=> p + 1 \in a)
    BY <2>5, <2>6, <2>7
  <2> QED
    BY <2>1, <2>2, <2>8 DEF Xor
<1>8. Turn2(w) = Xor(Xor(F, b), c)
  BY <1>6, <1>7 DEF Turn2, Turn
<1>9. Shr(w, 2) = F
  BY DEF Shr
<1> HIDE DEF F, b, c
<1>10. Xor(Xor(b, c), F) = Xor(Xor(F, b), c)
  BY DEF Xor
<1> QED
  BY <1>3, <1>8, <1>9, <1>10
-----------------------------------------------------------------------------
(* Turns of the lower byte and of the rest do not touch each other. *)
LEMMA TurnXor ==
  ASSUME NEW a \in SUBSET Nat, NEW b \in SUBSET Nat
  PROVE  Turn(Xor(a, b)) = Xor(Turn(a), Turn(b)) /\ Turn(a) \in SUBSET Nat
<1>1. Feedback \subseteq Nat
  BY FeedbackIs
<1> DEFINE Down(w) == {p - 1 : p \in w \ {0}}
           Fed(w) == IF 0 \in w THEN Feedback ELSE {}
<1>2. ASSUME NEW w \in SUBSET Nat
      PROVE  \A p : p \in Down(w) <=> p \in Nat /\ p + 1 \in w
  OBVIOUS
<1>3. Xor(a, b) \in SUBSET Nat
  BY DEF Xor
<1> DEFINE x == Xor(a, b)
<1>4. \A p : p \in x <=> ~(p \in a <=> p \in b)
  BY DEF Xor
<1>5. Turn(a) = Xor(Down(a), Fed(a)) /\ Turn(b) = Xor(Down(b), Fed(b)) /\ Turn(x) = Xor(Down(x), Fed(x))
  BY DEF Turn
<1> HIDE DEF x
<1>6. \A p : p \in Down(x) <=> ~(p \in Down(a) <=> p \in Down(b))
  <2>1. \A p : p \in Down(x) <=> p \in Nat /\ p + 1 \in x
    BY <1>2, <1>3 DEF x
  <2>2. \A p : (p \in Down(a) <=> p \in Nat /\ p + 1 \in a) /\ (p \in Down(b) <=> p \in Nat /\ p + 1 \in b)
    BY <1>2
  <2> HIDE DEF Down
  <2> QED
    BY <1>4, <2>1, <2>2
<1>7. \A p : p \in Fed(x) <=> ~(p \in Fed(a) <=> p \in Fed(b))
  BY <1>4
<1>8. Turn(a) \in SUBSET Nat
  <2>1. Down(a) \in SUBSET Nat /\ Fed(a) \in SUBSET Nat
    BY <1>1
  <2> HIDE DEF Down, Fed
  <2> QED
    BY <1>5, <2>1 DEF Xor
<1> HIDE DEF Down, Fed
<1>9. Turn(x) = Xor(Turn(a), Turn(b))
  BY <1>5, <1>6, <1>7 DEF Xor
<1> QED
  BY <1>8, <1>9 DEF x

LEMMA Turn2Xor ==
  ASSUME NEW a \in SUBSET Nat, NEW b \in SUBSET Nat
  PROVE  Turn2(Xor(a, b)) = Xor(Turn2(a), Turn2(b)) /\ Turn2(a) \in SUBSET Nat
<1> DEFINE ta == Turn(a)
           tb == Turn(b)
<1>1. Turn(Xor(a, b)) = Xor(ta, tb) /\ ta \in SUBSET Nat /\ tb \in SUBSET Nat
  BY TurnXor
<1> HIDE DEF ta, tb
<1>2. Turn(Xor(ta, tb)) = Xor(Turn(ta), Turn(tb)) /\ Turn(ta) \in SUBSET Nat
  BY <1>1, TurnXor
<1> QED
  BY <1>1, <1>2 DEF Turn2, ta, tb

LEMMA Turn4Xor ==
  ASSUME NEW a \in SUBSET Nat, NEW b \in SUBSET Nat
  PROVE  Turn4(Xor(a, b)) = Xor(Turn4(a), Turn4(b)) /\ Turn4(a) \in SUBSET Nat
<1> DEFINE ta == Turn2(a)
           tb == Turn2(b)
<1>1. Turn2(Xor(a, b)) = Xor(ta, tb) /\ ta \in SUBSET Nat /\ tb \in SUBSET Nat
  BY Turn2Xor
<1> HIDE DEF ta, tb
<1>2. Turn2(Xor(ta, tb)) = Xor(Turn2(ta), Turn2(tb)) /\ Turn2(ta) \in SUBSET Nat
  BY <1>1, Turn2Xor
<1> QED
  BY <1>1, <1>2 DEF Turn4, ta, tb

LEMMA Turn8Xor ==
  ASSUME NEW a \in SUBSET Nat, NEW b \in SUBSET Nat
  PROVE  Turn8(Xor(a, b)) = Xor(Turn8(a), Turn8(b)) /\ Turn8(a) \in SUBSET Nat
<1> DEFINE ta == Turn4(a)
           tb == Turn4(b)
<1>1. Turn4(Xor(a, b)) = Xor(ta, tb) /\ ta \in SUBSET Nat /\ tb \in SUBSET Nat
  BY Turn4Xor
<1> HIDE DEF ta, tb
<1>2. Turn4(Xor(ta, tb)) = Xor(Turn4(ta), Turn4(tb)) /\ Turn4(ta) \in SUBSET Nat
  BY <1>1, Turn4Xor
<1> QED
  BY <1>1, <1>2 DEF Turn8, ta, tb

(* Bits that do not come out are moved. *)
LEMMA TurnMoves ==
  ASSUME NEW w \in SUBSET Nat, NEW n \in 1 .. 8, \A p \in w : p >= n
  PROVE  /\ Turn(w) = Shr(w, 1) /\ Turn(w) \in SUBSET Nat /\ \A p \in Turn(w) : p >= n - 1
         /\ \A k \in Nat : Shr(Turn(w), k) = Shr(w, k + 1)
<1>1. 0 \notin w /\ \A p \in w : p >= 1
  OBVIOUS
<1>2. Turn(w) = {p - 1 : p \in w}
  <2>1. w \ {0} = w
    BY <1>1
  <2> QED
    BY <1>1, <2>1 DEF Turn, Xor
<1>3. Shr(w, 1) = {p - 1 : p \in w}
  BY <1>1 DEF Shr
<1>4. Turn(w) \in SUBSET Nat /\ \A p \in Turn(w) : p >= n - 1
  BY <1>1, <1>2
<1>5. ASSUME NEW k \in Nat
      PROVE  Shr(Turn(w), k) = Shr(w, k + 1)
  <2>1. \A p : p \in Shr(w, k + 1) <=> p \in Nat /\ p + (k + 1) \in w
    BY DEF Shr
  <2>2. \A p : p \in Shr(Turn(w), k) <=> p \in Nat /\ p + k \in Turn(w)
    BY <1>4 DEF Shr
  <2>3. \A p \in Nat : p + k \in Turn(w) <=> p + (k + 1) \in w
    BY <1>1, <1>2
  <2> QED
    BY <2>1, <2>2, <2>3
<1> QED
  BY <1>2, <1>3, <1>4, <1>5

LEMMA Turn8Moves ==
  ASSUME NEW w \in SUBSET Nat, \A p \in w : p >= 8
  PROVE  Turn8(w) = Shr(w, 8)
<1> DEFINE w1 == Turn(w)
           w2 == Turn(w1)
           w3 == Turn(w2)
           w4 == Turn(w3)
           w5 == Turn(w4)
           w6 == Turn(w5)
           w7 == Turn(w6)
           w8 == Turn(w7)
<1>0. Turn8(w) = w8
  BY DEF Turn8, Turn4, Turn2
<1>1. w1 \in SUBSET Nat /\ (\A p \in w1 : p >= 7) /\ \A k \in Nat : Shr(w1, k) = Shr(w, k + 1)
  <2>1. 8 \in 1 .. 8 /\ 8 - 1 = 7
    OBVIOUS
  <2> QED
    BY <2>1, TurnMoves
<1> HIDE DEF w1
<1>2. w2 \in SUBSET Nat /\ (\A p \in w2 : p >= 6) /\ \A k \in Nat : Shr(w2, k) = Shr(w1, k + 1)
  <2>1. 7 \in 1 .. 8 /\ 7 - 1 = 6
    OBVIOUS
  <2> QED
    BY <1>1, <2>1, TurnMoves
<1> HIDE DEF w2
<1>3. w3 \in SUBSET Nat /\ (\A p \in w3 : p >= 5) /\ \A k \in Nat : Shr(w3, k) = Shr(w2, k + 1)
  <2>1. 6 \in 1 .. 8 /\ 6 - 1 = 5
    OBVIOUS
  <2> QED
    BY <1>2, <2>1, TurnMoves
<1> HIDE DEF w3
<1>4. w4 \in SUBSET Nat /\ (\A p \in w4 : p >= 4) /\ \A k \in Nat : Shr(w4, k) = Shr(w3, k + 1)
  <2>1. 5 \in 1 .. 8 /\ 5 - 1 = 4
    OBVIOUS
  <2> QED
    BY <1>3, <2>1, TurnMoves
<1> HIDE DEF w4
<1>5. w5 \in SUBSET Nat /\ (\A p \in w5 : p >= 3) /\ \A k \in Nat : Shr(w5, k) = Shr(w4, k + 1)
  <2>1. 4 \in 1 .. 8 /\ 4 - 1 = 3
    OBVIOUS
  <2> QED
    BY <1>4, <2>1, TurnMoves
<1> HIDE DEF w5
<1>6. w6 \in SUBSET Nat /\ (\A p \in w6 : p >= 2) /\ \A k \in Nat : Shr(w6, k) = Shr(w5, k + 1)
  <2>1. 3 \in 1 .. 8 /\ 3 - 1 = 2
    OBVIOUS
  <2> QED
    BY <1>5, <2>1, TurnMoves
<1> HIDE DEF w6
<1>7. w7 \in SUBSET Nat /\ (\A p \in w7 : p >= 1) /\ \A k \in Nat : Shr(w7, k) = Shr(w6, k + 1)
  <2>1. 2 \in 1 .. 8 /\ 2 - 1 = 1
    OBVIOUS
  <2> QED
    BY <1>6, <2>1, TurnMoves
<1> HIDE DEF w7
<1>8. w8 = Shr(w7, 1)
  <2>1. 1 \in 1 .. 8
    OBVIOUS
  <2> QED
    BY <1>7, <2>1, TurnMoves
<1>9. Shr(w7, 1) = Shr(w6, 2) /\ Shr(w6, 2) = Shr(w5, 3) /\ Shr(w5, 3) = Shr(w4, 4)
      /\ Shr(w4, 4) = Shr(w3, 5) /\ Shr(w3, 5) = Shr(w2, 6) /\ Shr(w2, 6) = Shr(w1, 7)
      /\ Shr(w1, 7) = Shr(w, 8)
  BY <1>1, <1>2, <1>3, <1>4, <1>5, <1>6, <1>7
<1> HIDE DEF w8
<1> QED
  BY <1>0, <1>8, <1>9

LEMMA Turn8Is ==
  ASSUME NEW w \in SUBSET Nat
  PROVE  Turn8(w) = Xor(Turn8(w \cap 0 .. 7), Shr(w, 8))
<1> DEFINE lo == w \cap 0 .. 7
           hi == w \ (0 .. 7)
<1>1. lo \in SUBSET Nat /\ hi \in SUBSET Nat /\ Xor(lo, hi) = w /\ \A p \in hi : p >= 8
  BY DEF Xor
<1>2. Shr(hi, 8) = Shr(w, 8)
  BY DEF Shr
<1> HIDE DEF lo, hi
<1>3. Turn8(Xor(lo, hi)) = Xor(Turn8(lo), Turn8(hi))
  BY <1>1, Turn8Xor
<1>4. Turn8(hi) = Shr(hi, 8)
  BY <1>1, Turn8Moves
<1> QED
  BY <1>1, <1>2, <1>3, <1>4 DEF lo
-----------------------------------------------------------------------------
(* Long division, a step at a time. *)
Reduced(so, e) == IF e \in so THEN Xor(so, {e - 32 + q : q \in POLY}) ELSE so
Division(r, d, n, m) ==
  /\ r[0] = d
  /\ \A k \in 1 .. m : r[k] = Reduced(r[k - 1], n + 32 - k)

LEMMA DivisionsExist ==
  ASSUME NEW d, NEW n \in Nat
  PROVE  \A m \in Nat : \E r : Division(r, d, n, m)
<1> DEFINE S == {m \in Nat : \E r : Division(r, d, n, m)}
<1>1. 0 \in S
  <2>1. Division([k \in {0} |-> d], d, n, 0)
    BY DEF Division
  <2> QED
    BY <2>1
<1>2. ASSUME NEW m \in Nat, m \in S
      PROVE  m + 1 \in S
  <2>1. PICK r : Division(r, d, n, m)
    BY <1>2
  <2> DEFINE new == Reduced(r[m], n + 32 - (m + 1))
             y == [k \in 0 .. m + 1 |-> IF k = m + 1 THEN new ELSE r[k]]
  <2>2. y[0] = d
    BY <2>1 DEF Division
  <2>3. ASSUME NEW k \in 1 .. m + 1
        PROVE  y[k] = Reduced(y[k - 1], n + 32 - k)
    <3>1. y[k - 1] = r[k - 1]
      OBVIOUS
    <3>2. CASE k = m + 1
      <4>1. y[k] = new /\ k - 1 = m
        BY <3>2
      <4> QED
        BY <3>1, <3>2, <4>1
    <3>3. CASE k # m + 1
      <4>1. k \in 1 .. m /\ y[k] = r[k]
        BY <3>3
      <4> QED
        BY <2>1, <3>1, <4>1 DEF Division
    <3> QED
      BY <3>2, <3>3
  <2>4. Division(y, d, n, m + 1)
    BY <2>2, <2>3 DEF Division
  <2> QED
    BY <2>4
<1>3. Nat \subseteq S
  BY <1>1, <1>2, SetInduction
<1> QED
  BY <1>3

LEMMA RemainderIs ==
  ASSUME NEW d, NEW n \in Nat
  PROVE  \E r : Division(r, d, n, n) /\ Remainder(d, n) = r[n]
<1>1. PICK r : Division(r, d, n, n)
  BY DivisionsExist
<1> DEFINE A == [k \in 0 .. n |-> r[k]]
           Once(f) == [k \in 0 .. n |-> IF k = 0 THEN d ELSE Reduced(f[k - 1], n + 32 - k)]
           V == CHOOSE f : f = Once(f)
<1>2. A = Once(A)
  <2>1. ASSUME NEW k \in 0 .. n
        PROVE  A[k] = IF k = 0 THEN d ELSE Reduced(A[k - 1], n + 32 - k)
    <3>1. CASE k = 0
      BY <1>1, <3>1 DEF Division
    <3>2. CASE k # 0
      <4>1. k \in 1 .. n /\ k - 1 \in 0 .. n
        BY <3>2
      <4> QED
        BY <1>1, <3>2, <4>1 DEF Division
    <3> QED
      BY <3>1, <3>2
  <2> QED
    BY <2>1
<1>3. V = Once(V)
  BY <1>2
<1>4. Remainder(d, n) = V[n]
  BY DEF Remainder, Reduced
<1> HIDE DEF V
<1>5. Division(V, d, n, n)
  <2>1. V[0] = d
    BY <1>3
  <2>2. ASSUME NEW k \in 1 .. n
        PROVE  V[k] = Reduced(V[k - 1], n + 32 - k)
    <3>1. k \in 0 .. n /\ k # 0
      OBVIOUS
    <3> QED
      BY <1>3, <3>1
  <2> QED
    BY <2>1, <2>2 DEF Division
<1> QED
  BY <1>4, <1>5

(* Each step takes the highest exponent away. *)
LEMMA ReducedBelow ==
  ASSUME NEW e \in Nat, e >= 32, NEW so \in SUBSET (0 .. e)
  PROVE  Reduced(so, e) \in SUBSET (0 .. e - 1)
<1> DEFINE M == {e - 32 + q : q \in POLY}
<1>1. M \subseteq 0 .. e /\ e \in M
  BY DEF POLY
<1> HIDE DEF M
<1>2. CASE e \in so
  <2> DEFINE x == Xor(so, M)
  <2>1. Reduced(so, e) = x
    BY <1>2 DEF Reduced, M
  <2>2. \A p \in x : p \in 0 .. e /\ p # e
    BY <1>1, <1>2 DEF Xor
  <2> HIDE DEF x
  <2> QED
    BY <2>1, <2>2
<1>3. CASE e \notin so
  BY <1>3 DEF Reduced
<1> QED
  BY <1>2, <1>3

LEMMA RemainderBelow ==
  ASSUME NEW n \in Nat, NEW d \in SUBSET (0 .. n + 31), NEW r, Division(r, d, n, n)
  PROVE  r[n] \in SUBSET (0 .. 31)
<1> DEFINE S == {k \in Nat : k <= n => r[k] \in SUBSET (0 .. n + 31 - k)}
<1>1. 0 \in S
  <2>1. r[0] = d /\ n + 31 - 0 = n + 31
    BY DEF Division
  <2> QED
    BY <2>1
<1>2. ASSUME NEW k \in Nat, k \in S
      PROVE  k + 1 \in S
  <2> SUFFICES ASSUME k + 1 <= n PROVE r[k + 1] \in SUBSET (0 .. n + 31 - (k + 1))
    OBVIOUS
  <2> DEFINE e == n + 31 - k
             so == r[k]
  <2>1. e \in Nat /\ e >= 32 /\ so \in SUBSET (0 .. e) /\ n + 31 - (k + 1) = e - 1
    BY <1>2
  <2>2. r[k + 1] = Reduced(so, e)
    <3>1. k + 1 \in 1 .. n /\ (k + 1) - 1 = k /\ n + 32 - (k + 1) = e
      OBVIOUS
    <3> QED
      BY <3>1 DEF Division
  <2> HIDE DEF e, so
  <2> QED
    BY <2>1, <2>2, ReducedBelow
<1>3. Nat \subseteq S
  BY <1>1, <1>2, SetInduction
<1>4. n + 31 - n = 31
  OBVIOUS
<1> QED
  BY <1>3, <1>4

(* With the highest exponent as its lowest bit, a step is a turn. *)
AsRegister(s, top) == {top - e : e \in s}

LEMMA ReducedTurns ==
  ASSUME NEW m \in 0 .. 7, NEW s \in SUBSET (8 - m .. 39 - m)
  PROVE  /\ Reduced(s, 39 - m) \in SUBSET (8 - (m + 1) .. 39 - (m + 1))
         /\ AsRegister(Reduced(s, 39 - m), 39 - (m + 1)) = Turn(AsRegister(s, 39 - m))
<1> DEFINE e == 39 - m
           M == {e - 32 + q : q \in POLY}
           w == AsRegister(s, e)
           Down == {p - 1 : p \in w \ {0}}
<1>1. e \in 32 .. 39 /\ e - 31 = 8 - m /\ e - 32 = 8 - (m + 1) /\ e - 1 = 39 - (m + 1)
  OBVIOUS
<1> HIDE DEF e
<1>2. /\ \A p : p \in w <=> p \in 0 .. 31 /\ e - p \in s
      /\ s \in SUBSET (e - 31 .. e)
  <2>1. s \in SUBSET (e - 31 .. e)
    BY <1>1 DEF e
  <2> QED
    BY <1>1, <2>1 DEF AsRegister
<1>3. \A p : p \in Down <=> p \in 0 .. 30 /\ e - (p + 1) \in s
  <2> HIDE DEF w
  <2> QED
    BY <1>2
<1>4. 0 \in w <=> e \in s
  BY <1>1, <1>2
<1>5. /\ M \subseteq e - 32 .. e /\ e \in M
      /\ \A p \in 0 .. 31 : p \in Feedback <=> (e - 1) - p \in M
  BY <1>1, FeedbackIs DEF POLY
<1>6. Feedback \subseteq 0 .. 31
  BY FeedbackIs
<1> HIDE DEF M, Down, w
<1>7. CASE e \in s
  <2> DEFINE x == Xor(s, M)
  <2>1. Reduced(s, e) = x
    BY <1>7 DEF Reduced, M
  <2>2. \A p : p \in x <=> ~(p \in s <=> p \in M)
    BY DEF Xor
  <2> HIDE DEF x
  <2>3. x \in SUBSET (e - 32 .. e - 1)
    <3>1. \A p \in x : p \in e - 32 .. e /\ p # e
      <4>1. s \subseteq e - 32 .. e
        BY <1>1, <1>2
      <4> QED
        BY <1>5, <1>7, <2>2, <4>1
    <3> QED
      BY <1>1, <3>1
  <2>4. Turn(w) = Xor(Down, Feedback)
    BY <1>4, <1>7 DEF Turn, Down
  <2>5. \A p : p \in AsRegister(x, e - 1) <=> p \in 0 .. 31 /\ (e - 1) - p \in x
    BY <1>1, <2>3 DEF AsRegister
  <2>6. \A p \in 0 .. 31 : (e - 1) - p \in s <=> p \in Down
    BY <1>1, <1>2, <1>3
  <2>7. \A p \in 0 .. 31 : (e - 1) - p \in x <=> ~(p \in Down <=> p \in Feedback)
    BY <1>5, <2>2, <2>6
  <2>8. \A p : p \in AsRegister(x, e - 1) <=> p \in Xor(Down, Feedback)
    <3>1. Down \subseteq 0 .. 31
      BY <1>3
    <3>2. \A p : p \in Xor(Down, Feedback) <=> p \in 0 .. 31 /\ ~(p \in Down <=> p \in Feedback)
      BY <1>6, <3>1 DEF Xor
    <3> QED
      BY <2>5, <2>7, <3>2
  <2>9. AsRegister(x, e - 1) = Turn(w)
    BY <2>4, <2>8
  <2> QED
    BY <1>1, <2>1, <2>3, <2>9 DEF e, w
<1>8. CASE e \notin s
  <2>1. Reduced(s, e) = s
    BY <1>8 DEF Reduced
  <2>2. s \in SUBSET (e - 32 .. e - 1)
    BY <1>1, <1>2, <1>8
  <2>3. Turn(w) = Down
    BY <1>4, <1>8 DEF Turn, Down, Xor
  <2>4. \A p : p \in AsRegister(s, e - 1) <=> p \in 0 .. 31 /\ (e - 1) - p \in s
    BY <1>1, <2>2 DEF AsRegister
  <2>5. \A p : p \in AsRegister(s, e - 1) <=> p \in Down
    BY <1>1, <1>2, <1>3, <2>4
  <2> QED
    BY <1>1, <2>1, <2>2, <2>3, <2>5 DEF e, w
<1> QED
  BY <1>7, <1>8

(* So the division's last eight steps are eight turns. *)
LEMMA LastByte ==
  ASSUME NEW n \in Nat, NEW r, r[n] \in SUBSET (8 .. 39),
         \A k \in n + 1 .. n + 8 : r[k] = Reduced(r[k - 1], n + 40 - k)
  PROVE  AsRegister(r[n + 8], 31) = Turn8(AsRegister(r[n], 39))
<1> DEFINE s(m) == r[n + m]
           g(m) == AsRegister(s(m), 39 - m)
<1>1. ASSUME NEW m \in 0 .. 7
      PROVE  s(m + 1) = Reduced(s(m), 39 - m)
  <2>1. n + (m + 1) \in n + 1 .. n + 8 /\ (n + (m + 1)) - 1 = n + m /\ n + 40 - (n + (m + 1)) = 39 - m
    OBVIOUS
  <2> QED
    BY <2>1
<1> HIDE DEF s
<1>2. ASSUME NEW m \in 0 .. 7, s(m) \in SUBSET (8 - m .. 39 - m)
      PROVE  s(m + 1) \in SUBSET (8 - (m + 1) .. 39 - (m + 1)) /\ g(m + 1) = Turn(g(m))
  <2> DEFINE t == s(m)
  <2>1. t \in SUBSET (8 - m .. 39 - m)
    BY <1>2
  <2> HIDE DEF t
  <2>2. /\ Reduced(t, 39 - m) \in SUBSET (8 - (m + 1) .. 39 - (m + 1))
        /\ AsRegister(Reduced(t, 39 - m), 39 - (m + 1)) = Turn(AsRegister(t, 39 - m))
    BY <2>1, ReducedTurns
  <2> QED
    BY <1>1, <2>2 DEF t
<1>3. s(0) \in SUBSET (8 - 0 .. 39 - 0) /\ s(0) = r[n] /\ s(8) = r[n + 8]
  BY DEF s
<1> DEFINE In(m) == s(m) \in SUBSET (8 - m .. 39 - m)
<1> HIDE DEF g
<1>4. In(1) /\ g(1) = Turn(g(0))
  BY <1>2, <1>3
<1>5. In(2) /\ g(2) = Turn(g(1))
  BY <1>2, <1>4
<1>6. In(3) /\ g(3) = Turn(g(2))
  BY <1>2, <1>5
<1>7. In(4) /\ g(4) = Turn(g(3))
  BY <1>2, <1>6
<1>8. In(5) /\ g(5) = Turn(g(4))
  BY <1>2, <1>7
<1>9. In(6) /\ g(6) = Turn(g(5))
  BY <1>2, <1>8
<1>10. In(7) /\ g(7) = Turn(g(6))
  BY <1>2, <1>9
<1>11. In(8) /\ g(8) = Turn(g(7))
  BY <1>2, <1>10
<1>12. g(8) = Turn8(g(0))
  BY <1>4, <1>5, <1>6, <1>7, <1>8, <1>9, <1>10, <1>11 DEF Turn8, Turn4, Turn2
<1> QED
  BY <1>3, <1>12 DEF g
-----------------------------------------------------------------------------
(* A byte more: the dividend is times x^8, and so are the division's steps *)
(* until they come to that byte.                                           *)
Up8(s) == {e + 8 : e \in s}

(* The bits of a register, and of a shift, one by one. *)
LEMMA Mirrored ==
  ASSUME NEW top \in Int, NEW s \in SUBSET Int
  PROVE  /\ AsRegister(s, top) \in SUBSET Int
         /\ \A p \in Int : p \in AsRegister(s, top) <=> top - p \in s
<1>1. \A e \in s : e \in Int /\ top - e \in Int /\ top - (top - e) = e
  OBVIOUS
<1>2. \A p \in Int : top - p \in Int /\ top - (top - p) = p
  OBVIOUS
<1>3. \A p : p \in AsRegister(s, top) <=> \E e \in s : p = top - e
  BY DEF AsRegister
<1>4. AsRegister(s, top) \in SUBSET Int
  BY <1>1, <1>3
<1>5. \A p \in Int : p \in AsRegister(s, top) <=> top - p \in s
  BY <1>1, <1>2, <1>3
<1> QED
  BY <1>4, <1>5

LEMMA Shifted ==
  ASSUME NEW s \in SUBSET Int
  PROVE  /\ Up8(s) \in SUBSET Int
         /\ \A p \in Int : p \in Up8(s) <=> p - 8 \in s
<1>1. \A e \in s : e \in Int /\ e + 8 \in Int /\ (e + 8) - 8 = e
  OBVIOUS
<1>2. \A p \in Int : p - 8 \in Int /\ (p - 8) + 8 = p
  OBVIOUS
<1>3. \A p : p \in Up8(s) <=> \E e \in s : p = e + 8
  BY DEF Up8
<1>4. Up8(s) \in SUBSET Int
  BY <1>1, <1>3
<1>5. \A p \in Int : p \in Up8(s) <=> p - 8 \in s
  BY <1>1, <1>2, <1>3
<1> QED
  BY <1>4, <1>5

LEMMA Up8Is ==
  ASSUME NEW s \in SUBSET Nat
  PROVE  \A e \in Int : e + 8 \in Up8(s) <=> e \in s
BY DEF Up8

LEMMA ReducedUp ==
  ASSUME NEW e \in Nat, e >= 32, NEW so \in SUBSET Nat, NEW c \in SUBSET (32 .. 39)
  PROVE  /\ Reduced(Xor(Up8(so), c), e + 8) = Xor(Up8(Reduced(so, e)), c)
         /\ Reduced(so, e) \in SUBSET Nat
<1> DEFINE M == {e - 32 + q : q \in POLY}
           N == {(e + 8) - 32 + q : q \in POLY}
           v == Xor(Up8(so), c)
<1>1. M \subseteq Nat
  BY DEF POLY
<1>2. N = Up8(M)
  <2>1. \A q \in POLY : (e + 8) - 32 + q = (e - 32 + q) + 8
    BY DEF POLY
  <2> QED
    BY <2>1 DEF Up8
<1>3. e + 8 \in v <=> e \in so
  <2>1. e + 8 \notin c
    OBVIOUS
  <2> QED
    BY <2>1, Up8Is DEF Xor
<1>4. CASE e \in so
  <2>1. Reduced(v, e + 8) = Xor(v, N) /\ Reduced(so, e) = Xor(so, M)
    BY <1>3, <1>4 DEF Reduced
  <2> HIDE DEF M, N
  <2>2. Xor(so, M) \in SUBSET Nat
    BY <1>1 DEF Xor
  <2>3. Up8(Xor(so, M)) = Xor(Up8(so), Up8(M))
    <3>1. \A f \in so, g \in M : f + 8 = g + 8 => f = g
      BY <1>1
    <3> QED
      BY <3>1 DEF Xor, Up8
  <2>4. Xor(Xor(Up8(so), c), Up8(M)) = Xor(Xor(Up8(so), Up8(M)), c)
    BY DEF Xor
  <2> QED
    BY <1>2, <2>1, <2>2, <2>3, <2>4
<1>5. CASE e \notin so
  BY <1>3, <1>5 DEF Reduced
<1> QED
  BY <1>4, <1>5

LEMMA DivisionUp ==
  ASSUME NEW n \in Nat, NEW d \in SUBSET Nat, NEW c \in SUBSET (32 .. 39),
         NEW r, Division(r, d, n, n),
         NEW v, Division(v, Xor(Up8(d), c), n + 8, n + 8)
  PROVE  v[n] = Xor(Up8(r[n]), c)
<1> DEFINE S == {k \in Nat : k <= n => r[k] \in SUBSET Nat /\ v[k] = Xor(Up8(r[k]), c)}
<1>1. 0 \in S
  BY DEF Division
<1>2. ASSUME NEW k \in Nat, k \in S
      PROVE  k + 1 \in S
  <2> SUFFICES ASSUME k + 1 <= n
               PROVE  r[k + 1] \in SUBSET Nat /\ v[k + 1] = Xor(Up8(r[k + 1]), c)
    OBVIOUS
  <2> DEFINE e == n + 31 - k
             so == r[k]
  <2>1. e \in Nat /\ e >= 32 /\ so \in SUBSET Nat /\ v[k] = Xor(Up8(so), c)
    BY <1>2
  <2>2. r[k + 1] = Reduced(so, e)
    <3>1. k + 1 \in 1 .. n /\ (k + 1) - 1 = k /\ n + 32 - (k + 1) = e
      OBVIOUS
    <3> QED
      BY <3>1 DEF Division
  <2>3. v[k + 1] = Reduced(v[k], e + 8)
    <3>1. k + 1 \in 1 .. n + 8 /\ (k + 1) - 1 = k /\ (n + 8) + 32 - (k + 1) = e + 8
      OBVIOUS
    <3> QED
      BY <3>1 DEF Division
  <2> HIDE DEF e, so
  <2> QED
    BY <2>1, <2>2, <2>3, ReducedUp
<1>3. Nat \subseteq S
  BY <1>1, <1>2, SetInduction
<1> QED
  BY <1>3

(* Bit k of a message of 8 * Len(bytes) bits. *)
BitAt(bytes, k) == k % 8 \in ByteBits(bytes[1 + (k \div 8)])

LEMMA DividendIs ==
  ASSUME NEW bytes \in Seq(0 .. 255), NEW n, n = 8 * Len(bytes)
  PROVE  /\ Dividend(bytes) \in SUBSET (0 .. n + 31)
         /\ \A e \in Int : e \in Dividend(bytes)
              <=> ~(e \in 32 .. n + 31 /\ BitAt(bytes, n + 31 - e) <=> e \in n .. n + 31)
<1> DEFINE message == {e \in 32 .. n + 31 : BitAt(bytes, n + 31 - e)}
<1>1. Dividend(bytes) = Xor(message, n .. n + 31)
  BY DEF Dividend, BitAt
<1>2. n \in Nat
  OBVIOUS
<1>3. \A e : e \in message <=> e \in 32 .. n + 31 /\ BitAt(bytes, n + 31 - e)
  OBVIOUS
<1> HIDE DEF message
<1>4. message \subseteq 0 .. n + 31 /\ n .. n + 31 \subseteq 0 .. n + 31
  BY <1>2, <1>3
<1>5. Xor(message, n .. n + 31) \in SUBSET (0 .. n + 31)
  BY <1>4 DEF Xor
<1>6. \A e : e \in Xor(message, n .. n + 31) <=> ~(e \in message <=> e \in n .. n + 31)
  BY DEF Xor
<1> QED
  BY <1>1, <1>3, <1>5, <1>6

LEMMA DividendUp ==
  ASSUME NEW bytes \in Seq(0 .. 255), NEW b \in 0 .. 255
  PROVE  Dividend(Append(bytes, b)) = Xor(Up8(Dividend(bytes)), {39 - p : p \in ByteBits(b)})
<1> DEFINE more == Append(bytes, b)
           n == 8 * Len(bytes)
           D == Dividend(bytes)
           E == Dividend(more)
           c == {39 - p : p \in ByteBits(b)}
<1>1. /\ more \in Seq(0 .. 255) /\ Len(more) = Len(bytes) + 1 /\ Len(bytes) \in Nat
      /\ \A k \in 1 .. Len(bytes) : more[k] = bytes[k]
      /\ more[Len(bytes) + 1] = b
  BY AppendProperties
<1> HIDE DEF more
<1>2. n \in Nat /\ n + 8 = 8 * Len(more)
  BY <1>1
<1>3. /\ D \in SUBSET (0 .. n + 31)
      /\ \A e \in Int : e \in D <=> ~(e \in 32 .. n + 31 /\ BitAt(bytes, n + 31 - e) <=> e \in n .. n + 31)
  BY DividendIs
<1>4. /\ E \in SUBSET (0 .. (n + 8) + 31)
      /\ \A e \in Int : e \in E <=> ~(e \in 32 .. (n + 8) + 31 /\ BitAt(more, (n + 8) + 31 - e)
                                        <=> e \in n + 8 .. (n + 8) + 31)
  <2> DEFINE m == n + 8
  <2>1. m = 8 * Len(more) /\ more \in Seq(0 .. 255)
    BY <1>1, <1>2
  <2> HIDE DEF m, n, D, c
  <2>2. /\ Dividend(more) \in SUBSET (0 .. m + 31)
        /\ \A e \in Int : e \in Dividend(more)
             <=> ~(e \in 32 .. m + 31 /\ BitAt(more, m + 31 - e) <=> e \in m .. m + 31)
    BY ONLY <2>1, DividendIs
  <2> QED
    BY <2>2 DEF m, E
<1>5. ASSUME NEW k \in 0 .. n - 1
      PROVE  BitAt(more, k) <=> BitAt(bytes, k)
  <2>1. 1 + (k \div 8) \in 1 .. Len(bytes)
    BY <1>1
  <2> QED
    BY <1>1, <2>1 DEF BitAt
<1>6. ASSUME NEW p \in 0 .. 7
      PROVE  BitAt(more, n + p) <=> p \in ByteBits(b)
  <2>1. (n + p) % 8 = p /\ (n + p) \div 8 = Len(bytes)
    BY <1>1
  <2> QED
    BY <1>1, <2>1 DEF BitAt
<1>7. ByteBits(b) \subseteq 0 .. 7
  BY DEF ByteBits
<1>8. c \in SUBSET Int /\ \A e \in Int : e \in c <=> e \in 32 .. 39 /\ 39 - e \in ByteBits(b)
  <2>1. c = AsRegister(ByteBits(b), 39) /\ ByteBits(b) \in SUBSET Int
    BY <1>7 DEF AsRegister
  <2> HIDE DEF c
  <2>2. c \in SUBSET Int /\ \A e \in Int : e \in c <=> 39 - e \in ByteBits(b)
    BY <2>1, Mirrored
  <2>3. ASSUME NEW e \in Int
        PROVE  39 - e \in ByteBits(b) => e \in 32 .. 39
    BY <1>7
  <2> QED
    BY <2>2, <2>3
<1>9. Up8(D) \in SUBSET Int /\ \A e \in Int : e \in Up8(D) <=> e - 8 \in D
  <2>1. D \in SUBSET Int
    BY <1>3
  <2> HIDE DEF D
  <2> QED
    BY <2>1, Shifted
<1> HIDE DEF n, D, E, c
<1>10. ASSUME NEW e \in Int
       PROVE  e \in E <=> ~(e \in Up8(D) <=> e \in c)
  <2> DEFINE k == n + 39 - e
  <2>1. (n + 8) + 31 - e = k /\ n + 31 - (e - 8) = k
    BY <1>2
  <2>2. e \in E <=> ~(e \in 32 .. n + 39 /\ BitAt(more, k) <=> e \in n + 8 .. n + 39)
    <3>1. (n + 8) + 31 = n + 39
      BY <1>2
    <3> QED
      BY <1>4, <2>1, <3>1
  <2>3. e - 8 \in D <=> ~(e - 8 \in 32 .. n + 31 /\ BitAt(bytes, k) <=> e - 8 \in n .. n + 31)
    BY <1>3, <2>1
  <2>4. (e - 8 \in 32 .. n + 31 <=> e \in 40 .. n + 39) /\ (e - 8 \in n .. n + 31 <=> e \in n + 8 .. n + 39)
    BY <1>2
  <2>5. e \in 32 .. n + 39 <=> e \in 40 .. n + 39 \/ e \in 32 .. 39
    BY <1>2
  <2>6. CASE e \in 40 .. n + 39
    <3>1. k \in 0 .. n - 1 /\ e \notin 32 .. 39
      BY <1>2, <2>6
    <3>2. BitAt(more, k) <=> BitAt(bytes, k)
      BY <1>5, <3>1
    <3> QED
      BY <1>8, <1>9, <2>2, <2>3, <2>4, <2>5, <2>6, <3>1, <3>2
  <2>7. CASE e \in 32 .. 39
    <3>1. 39 - e \in 0 .. 7 /\ k = n + (39 - e) /\ e \notin 40 .. n + 39
      BY <1>2, <2>7
    <3>2. BitAt(more, k) <=> 39 - e \in ByteBits(b)
      BY <1>6, <3>1
    <3> QED
      BY <1>8, <1>9, <2>2, <2>3, <2>4, <2>5, <2>7, <3>1, <3>2
  <2>8. CASE e \notin 40 .. n + 39 /\ e \notin 32 .. 39
    BY <1>8, <1>9, <2>2, <2>3, <2>4, <2>5, <2>8
  <2> QED
    BY <2>6, <2>7, <2>8
<1>11. \A e : (e \in E => e \in Int) /\ (e \in Up8(D) => e \in Int) /\ (e \in c => e \in Int)
  <2>1. \A e \in E : e \in Int
    BY <1>4
  <2> QED
    BY <2>1, <1>8, <1>9
<1>12. E = Xor(Up8(D), c)
  BY <1>10, <1>11 DEF Xor
<1> QED
  BY <1>12 DEF E, D, c, more

LEMMA RegisterBelow ==
  ASSUME NEW bytes \in Seq(0 .. 255)
  PROVE  Register(bytes) \in SUBSET Bits
<1> DEFINE n == 8 * Len(bytes)
           d == Dividend(bytes)
<1>1. n \in Nat /\ d \in SUBSET (0 .. n + 31)
  BY DividendIs
<1> HIDE DEF n, d
<1>2. PICK r : Division(r, d, n, n) /\ Remainder(d, n) = r[n]
  BY <1>1, RemainderIs
<1>3. r[n] \in SUBSET (0 .. 31)
  BY <1>1, <1>2, RemainderBelow
<1>4. Register(bytes) = AsRegister(r[n], 31)
  BY <1>2 DEF Register, AsRegister, n, d
<1> DEFINE R == r[n]
<1>a. R \in SUBSET (0 .. 31)
  BY <1>3
<1> HIDE DEF R
<1>5. R \in SUBSET Int /\ R \in SUBSET (0 .. 31)
  BY <1>a
<1>6. AsRegister(R, 31) \in SUBSET Int /\ \A p \in Int : p \in AsRegister(R, 31) <=> 31 - p \in R
  BY <1>5, Mirrored
<1>7. ASSUME NEW p \in AsRegister(R, 31)
      PROVE  p \in 0 .. 31
  <2>1. p \in Int /\ 31 - p \in 0 .. 31
    BY <1>5, <1>6
  <2> QED
    BY <2>1
<1> QED
  BY <1>4, <1>7 DEF Bits, R

LEMMA RegisterEmpty ==
  Register(<<>>) = Bits
<1>1. <<>> \in Seq(0 .. 255) /\ Len(<<>>) = 0 /\ 8 * 0 = 0
  OBVIOUS
<1> DEFINE d == Dividend(<<>>)
<1>2. d = 0 .. 31
  <2>1. /\ d \in SUBSET (0 .. 0 + 31)
        /\ \A e \in Int : e \in d
             <=> ~(e \in 32 .. 0 + 31 /\ BitAt(<<>>, 0 + 31 - e) <=> e \in 0 .. 0 + 31)
    BY <1>1, DividendIs
  <2> HIDE DEF d
  <2>2. \A e \in Int : e \notin 32 .. 0 + 31 /\ (e \in 0 .. 0 + 31 <=> e \in 0 .. 31)
    OBVIOUS
  <2>3. \A e \in Int : e \in d <=> e \in 0 .. 31
    BY <2>1, <2>2
  <2>4. \A e \in d : e \in Int
    BY <2>1
  <2>5. \A e : e \in d <=> e \in 0 .. 31
    BY <2>3, <2>4
  <2> QED
    BY <2>5
<1> HIDE DEF d
<1>3. PICK r : Division(r, d, 0, 0) /\ Remainder(d, 0) = r[0]
  BY RemainderIs
<1>4. Remainder(d, 0) = 0 .. 31
  BY <1>2, <1>3 DEF Division
<1>5. Register(<<>>) = AsRegister(0 .. 31, 31)
  BY <1>1, <1>4 DEF Register, AsRegister, d
<1> DEFINE R == 0 .. 31
<1>6. R \in SUBSET Int /\ \A p \in Int : 31 - p \in R <=> p \in R
  OBVIOUS
<1> HIDE DEF R
<1>7. AsRegister(R, 31) \in SUBSET Int /\ \A p \in Int : p \in AsRegister(R, 31) <=> 31 - p \in R
  BY <1>6, Mirrored
<1>8. \A p : p \in AsRegister(R, 31) <=> p \in R
  BY <1>6, <1>7
<1>9. AsRegister(R, 31) = R
  BY <1>8 DEF AsRegister
<1> QED
  BY <1>5, <1>9 DEF Bits, R

LEMMA RegisterUp ==
  ASSUME NEW bytes \in Seq(0 .. 255), NEW b \in 0 .. 255
  PROVE  Register(Append(bytes, b)) = Turn8(Xor(Register(bytes), ByteBits(b)))
<1> DEFINE more == Append(bytes, b)
           n == 8 * Len(bytes)
           d == Dividend(bytes)
           B == ByteBits(b)
           c == {39 - p : p \in B}
<1>1. n \in Nat /\ d \in SUBSET (0 .. n + 31) /\ 8 * Len(more) = n + 8
  <2>1. Len(more) = Len(bytes) + 1
    BY AppendProperties
  <2>2. d \in SUBSET (0 .. n + 31)
    BY DividendIs
  <2> QED
    BY <2>1, <2>2
<1>2. B \subseteq 0 .. 7
  BY DEF ByteBits
<1>3. Dividend(more) = Xor(Up8(d), c)
  BY DividendUp
<1> HIDE DEF more, n, d, B
<1>4. c \in SUBSET (32 .. 39) /\ d \in SUBSET Nat
  <2>1. ASSUME NEW p \in B
        PROVE  39 - p \in 32 .. 39
    BY <1>2
  <2>2. c \in SUBSET (32 .. 39)
    BY <2>1
  <2>3. d \in SUBSET Nat
    BY <1>1
  <2> QED
    BY <2>2, <2>3
<1>5. PICK r : Division(r, d, n, n) /\ Remainder(d, n) = r[n]
  BY <1>1, RemainderIs
<1>6. r[n] \in SUBSET (0 .. 31)
  BY <1>1, <1>5, RemainderBelow
<1> DEFINE D == Xor(Up8(d), c)
<1> HIDE DEF D, c
<1>7. PICK v : Division(v, D, n + 8, n + 8) /\ Remainder(D, n + 8) = v[n + 8]
  <2> DEFINE m == n + 8
  <2>1. m \in Nat
    BY <1>1
  <2> HIDE DEF m
  <2>2. \E v : Division(v, D, m, m) /\ Remainder(D, m) = v[m]
    BY <2>1, RemainderIs
  <2> QED
    BY <2>2 DEF m
<1>8. v[n] = Xor(Up8(r[n]), c)
  BY <1>1, <1>4, <1>5, <1>7, DivisionUp DEF D
<1> DEFINE R == r[n]
           w == Xor({31 - e : e \in R}, B)
<1>9. /\ v[n] \in SUBSET (8 .. 39)
      /\ AsRegister(v[n], 39) = w
  <2>1. R \in SUBSET (0 .. 31) /\ v[n] = Xor(Up8(R), c)
    BY <1>6, <1>8
  <2> HIDE DEF R
  <2>0. R \in SUBSET Int /\ B \in SUBSET Int
    BY <1>2, <2>1
  <2>2. Up8(R) \in SUBSET Int /\ \A e \in Int : e \in Up8(R) <=> e - 8 \in R
    BY <2>0, Shifted
  <2>3. Up8(R) \subseteq 8 .. 39
    <3>1. ASSUME NEW e \in Up8(R) PROVE e \in 8 .. 39
      <4>1. e \in Int /\ e - 8 \in 0 .. 31
        BY <2>1, <2>2
      <4> QED
        BY <4>1
    <3> QED
      BY <3>1
  <2>4. \A e \in Int : e \in c <=> 39 - e \in B
    <3>1. c = AsRegister(B, 39)
      BY DEF c, AsRegister
    <3> QED
      BY <2>0, <3>1, Mirrored
  <2>5. \A e : e \in v[n] <=> ~(e \in Up8(R) <=> e \in c)
    BY <2>1 DEF Xor
  <2>6. v[n] \in SUBSET (8 .. 39)
    <3>1. \A e \in c : e \in 8 .. 39
      BY <1>4
    <3> QED
      BY <2>3, <2>5, <3>1
  <2> DEFINE V == v[n]
  <2>7. \A p : p \in AsRegister(V, 39) <=> p \in 0 .. 31 /\ 39 - p \in V
    <3>0. V \in SUBSET (8 .. 39)
      BY <2>6
    <3> HIDE DEF V
    <3>1. V \in SUBSET Int /\ \A e \in V : e \in 8 .. 39
      BY <3>0
    <3>2. AsRegister(V, 39) \in SUBSET Int /\ \A p \in Int : p \in AsRegister(V, 39) <=> 39 - p \in V
      BY <3>1, Mirrored
    <3>3. ASSUME NEW p \in AsRegister(V, 39) PROVE p \in 0 .. 31
      <4>1. p \in Int /\ 39 - p \in 8 .. 39
        BY <3>1, <3>2
      <4> QED
        BY <4>1
    <3>4. \A p \in 0 .. 31 : p \in Int
      OBVIOUS
    <3> QED
      BY <3>2, <3>3, <3>4
  <2>8. \A p \in 0 .. 31 : 39 - p \in v[n] <=> ~(31 - p \in R <=> p \in B)
    <3>1. ASSUME NEW p \in 0 .. 31 PROVE 39 - p \in v[n] <=> ~(31 - p \in R <=> p \in B)
      <4>1. 39 - p \in Int /\ (39 - p) - 8 = 31 - p /\ 39 - (39 - p) = p
        OBVIOUS
      <4> QED
        BY <2>2, <2>4, <2>5, <4>1
    <3> QED
      BY <3>1
  <2> DEFINE Q == {31 - e : e \in R}
  <2>9. Q \subseteq 0 .. 31 /\ \A p \in 0 .. 31 : p \in Q <=> 31 - p \in R
    <3>1. Q = AsRegister(R, 31)
      BY DEF AsRegister
    <3> HIDE DEF Q
    <3>2. Q \in SUBSET Int /\ \A p \in Int : p \in Q <=> 31 - p \in R
      BY <2>0, <3>1, Mirrored
    <3>3. ASSUME NEW p \in Q PROVE p \in 0 .. 31
      <4>1. p \in Int /\ 31 - p \in 0 .. 31
        BY <2>1, <3>2
      <4> QED
        BY <4>1
    <3>4. \A p \in 0 .. 31 : p \in Int
      OBVIOUS
    <3> QED
      BY <3>2, <3>3, <3>4
  <2>10. w = Xor(Q, B)
    OBVIOUS
  <2> HIDE DEF Q, w
  <2>12. \A p : p \in w <=> p \in 0 .. 31 /\ ~(p \in Q <=> p \in B)
    <3>1. \A p \in B : p \in 0 .. 31
      BY <1>2
    <3> QED
      BY <2>9, <2>10, <3>1 DEF Xor
  <2>11. AsRegister(v[n], 39) = w
    <3>1. \A p : p \in AsRegister(v[n], 39) <=> p \in w
      BY <2>7, <2>8, <2>9, <2>12
    <3> QED
      BY <3>1 DEF AsRegister
  <2> QED
    BY <2>6, <2>11
<1>10. \A k \in n + 1 .. n + 8 : v[k] = Reduced(v[k - 1], n + 40 - k)
  <2>1. \A k \in n + 1 .. n + 8 : k \in 1 .. n + 8 /\ (n + 8) + 32 - k = n + 40 - k
    BY <1>1
  <2> QED
    BY <1>7, <2>1 DEF Division
<1> HIDE DEF w
<1>11. AsRegister(v[n + 8], 31) = Turn8(w)
  BY <1>1, <1>9, <1>10, LastByte
<1>12. Register(more) = AsRegister(v[n + 8], 31)
  BY <1>1, <1>3, <1>7 DEF Register, AsRegister, D
<1>13. Register(bytes) = {31 - e : e \in R}
  BY <1>5 DEF Register, n, d
<1> QED
  BY <1>11, <1>12, <1>13 DEF w, B, more

(* genhdr's table: eight turns of a byte. *)
LEMMA TableEntries ==
  ASSUME NEW w \in SUBSET (0 .. 7), TableAssumption
  PROVE  Entry(w) = Turn8(w)
<1> DEFINE d == {39 - p : p \in w}
<1>1. d \in SUBSET (8 .. 39) /\ \A p \in Int : p \in d <=> 39 - p \in w
  <2>1. d = AsRegister(w, 39) /\ w \in SUBSET Int
    BY DEF AsRegister
  <2> HIDE DEF d
  <2>2. d \in SUBSET Int /\ \A p \in Int : p \in d <=> 39 - p \in w
    BY <2>1, Mirrored
  <2>3. ASSUME NEW p \in d PROVE p \in 8 .. 39
    <3>1. p \in Int /\ 39 - p \in 0 .. 7
      BY <2>2
    <3> QED
      BY <3>1
  <2> QED
    BY <2>2, <2>3
<1>2. Entry(w) = {31 - e : e \in Remainder(d, 8)}
  BY DEF TableAssumption
<1> HIDE DEF d
<1>3. AsRegister(d, 39) = w
  <2>0. d \in SUBSET Int
    BY <1>1
  <2>1. AsRegister(d, 39) \in SUBSET Int /\ \A p \in Int : p \in AsRegister(d, 39) <=> 39 - p \in d
    BY <2>0, Mirrored
  <2>2. \A p \in Int : 39 - p \in Int /\ 39 - (39 - p) = p
    OBVIOUS
  <2>3. \A p \in Int : p \in AsRegister(d, 39) <=> p \in w
    BY <1>1, <2>1, <2>2
  <2>4. \A p \in w : p \in Int
    OBVIOUS
  <2>5. \A p : p \in AsRegister(d, 39) <=> p \in w
    BY <2>1, <2>3, <2>4
  <2> QED
    BY <2>5 DEF AsRegister
<1>4. PICK r : Division(r, d, 8, 8) /\ Remainder(d, 8) = r[8]
  BY RemainderIs
<1> DEFINE n == 0
<1>5. /\ n \in Nat /\ r[n] = d
      /\ \A k \in n + 1 .. n + 8 : r[k] = Reduced(r[k - 1], n + 40 - k)
      /\ n + 8 = 8
  <2>1. \A k \in 1 .. 8 : 8 + 32 - k = 0 + 40 - k
    OBVIOUS
  <2> QED
    BY <1>4, <2>1 DEF Division
<1> HIDE DEF n
<1>6. AsRegister(r[n + 8], 31) = Turn8(AsRegister(r[n], 39))
  BY <1>1, <1>5, LastByte
<1> QED
  BY <1>2, <1>3, <1>4, <1>5, <1>6 DEF AsRegister
-----------------------------------------------------------------------------
(* The three registers, a byte at a time and two bits at a time. *)
LEMMA TurnBelow ==
  ASSUME NEW w \in SUBSET Bits
  PROVE  Turn(w) \in SUBSET Bits
<1> DEFINE a == {p - 1 : p \in w \ {0}}
<1>1. a \in SUBSET Bits
  <2>1. \A p \in w \ {0} : p - 1 \in Bits
    BY DEF Bits
  <2> QED
    BY <2>1
<1>2. Feedback \in SUBSET Bits
  BY FeedbackIs DEF Bits
<1> DEFINE f == IF 0 \in w THEN Feedback ELSE {}
<1>3. f \in SUBSET Bits
  BY <1>2
<1>4. Turn(w) = Xor(a, f)
  BY DEF Turn
<1> HIDE DEF a, f
<1>5. Xor(a, f) \in SUBSET Bits
  BY <1>1, <1>3 DEF Xor
<1> QED
  BY <1>4, <1>5

LEMMA Turn2Below ==
  ASSUME NEW w \in SUBSET Bits
  PROVE  Turn2(w) \in SUBSET Bits
BY TurnBelow DEF Turn2

(* n pairs of turns *)
Pairs(w, n) == CASE n = 0 -> w
                 [] n = 1 -> Turn2(w)
                 [] n = 2 -> Turn4(w)
                 [] n = 3 -> Turn2(Turn4(w))
                 [] n = 4 -> Turn8(w)

LEMMA OnePair ==
  ASSUME NEW w, NEW n \in 1 .. 4
  PROVE  Pairs(Turn2(w), n - 1) = Pairs(w, n)
<1>1. CASE n = 1
  BY <1>1 DEF Pairs
<1>2. CASE n = 2
  BY <1>2 DEF Pairs, Turn4
<1>3. CASE n = 3
  BY <1>3 DEF Pairs, Turn4
<1>4. CASE n = 4
  BY <1>4 DEF Pairs, Turn8, Turn4
<1> QED
  BY <1>1, <1>2, <1>3, <1>4

SoFar == Register(SubSeq(buf, 1, pos))

CrcInv ==
  /\ buf \in Buffers /\ pos \in 0 .. Len(buf)
  /\ {crc_t, ebx, crc_g} \subseteq SUBSET Bits
  /\ turn \in {"byte", "tiny", "boot0", "done"}
  /\ turn = "byte" => crc_t = SoFar /\ ebx = SoFar /\ crc_g = SoFar
  /\ turn = "tiny" => /\ i \in 1 .. 4 /\ pairs = 4
                    /\ Pairs(crc_t, i) = SoFar /\ Pairs(ebx, pairs) = SoFar /\ crc_g = SoFar
  /\ turn = "boot0" => /\ pairs \in 1 .. 4
                     /\ crc_t = SoFar /\ Pairs(ebx, pairs) = SoFar /\ crc_g = SoFar
  /\ turn = "done" => /\ crc_t = Xor(Bits, Register(buf))
                    /\ ebx = Xor(Bits, Register(buf))
                    /\ crc_g = Xor(Bits, Register(buf))

LEMMA Prefixes ==
  ASSUME NEW s \in Seq(0 .. 255)
  PROVE  /\ SubSeq(s, 1, 0) = <<>>
         /\ SubSeq(s, 1, Len(s)) = s
         /\ \A n \in 0 .. Len(s) : SubSeq(s, 1, n) \in Seq(0 .. 255)
         /\ \A n \in 0 .. Len(s) - 1 : /\ s[n + 1] \in 0 .. 255
                                       /\ SubSeq(s, 1, n + 1) = Append(SubSeq(s, 1, n), s[n + 1])
<1>1. SubSeq(s, 1, 0) = <<>>
  OBVIOUS
<1>2. SubSeq(s, 1, Len(s)) = s
  OBVIOUS
<1>0. Len(s) \in Nat /\ \A k \in 1 .. Len(s) : s[k] \in 0 .. 255
  BY LenProperties, ElementOfSeq
<1>3. ASSUME NEW n \in 0 .. Len(s)
      PROVE  /\ SubSeq(s, 1, n) \in Seq(0 .. 255) /\ Len(SubSeq(s, 1, n)) = n
             /\ \A k \in 1 .. n : SubSeq(s, 1, n)[k] = s[k]
  <2> DEFINE m == 1
             S == 0 .. 255
             t == SubSeq(s, m, n)
  <2>1. m \in Int /\ n \in Int /\ \A k \in m .. n : s[k] \in S
    <3>1. n \in Int /\ \A k \in 1 .. n : k \in 1 .. Len(s)
      BY <1>0
    <3>2. \A k \in 1 .. n : s[k] \in 0 .. 255
      BY <1>0, <3>1
    <3> QED
      BY <3>1, <3>2
  <2>2. \A k \in 1 .. n : k \in 1 .. n - m + 1 /\ m + k - 1 = k
    OBVIOUS
  <2>3. (IF m <= n THEN n - m + 1 ELSE 0) = n
    OBVIOUS
  <2> HIDE DEF m, S, t
  <2>4. /\ t \in Seq(S)
        /\ Len(t) = IF m <= n THEN n - m + 1 ELSE 0
        /\ \A k \in 1 .. n - m + 1 : t[k] = s[m + k - 1]
    BY <2>1, SubSeqProperties DEF t
  <2>5. \A k \in 1 .. n : t[k] = s[k]
    BY <2>2, <2>4
  <2> QED
    BY <2>3, <2>4, <2>5 DEF t, m, S
<1>4. ASSUME NEW n \in 0 .. Len(s) - 1
      PROVE  s[n + 1] \in 0 .. 255 /\ SubSeq(s, 1, n + 1) = Append(SubSeq(s, 1, n), s[n + 1])
  <2> DEFINE t == SubSeq(s, 1, n)
             c == s[n + 1]
             u == SubSeq(s, 1, n + 1)
             v == Append(t, c)
  <2>0. n \in 0 .. Len(s) /\ n + 1 \in 0 .. Len(s) /\ n + 1 \in 1 .. Len(s)
    BY <1>0
  <2>1. c \in 0 .. 255 /\ n \in 0 .. Len(s) /\ n + 1 \in 0 .. Len(s)
    BY <1>0, <2>0
  <2>2. t \in Seq(0 .. 255) /\ Len(t) = n /\ \A k \in 1 .. n : t[k] = s[k]
    BY <1>3, <2>1
  <2>3. u \in Seq(0 .. 255) /\ Len(u) = n + 1 /\ \A k \in 1 .. n + 1 : u[k] = s[k]
    BY <1>3, <2>1
  <2> HIDE DEF t, u, c
  <2>4. /\ v \in Seq(0 .. 255) /\ Len(v) = n + 1 /\ v[n + 1] = c
        /\ \A k \in 1 .. n : v[k] = t[k]
    BY <2>1, <2>2, AppendProperties
  <2> HIDE DEF v
  <2>5. \A k \in 1 .. n + 1 : u[k] = v[k]
    <3>1. \A k \in 1 .. n + 1 : k \in 1 .. n \/ k = n + 1
      OBVIOUS
    <3>2. u[n + 1] = c
      BY <2>3 DEF c
    <3> QED
      BY <2>2, <2>3, <2>4, <3>1, <3>2
  <2>6. u = v
    BY <2>3, <2>4, <2>5, SeqEqual
  <2> QED
    BY <2>1, <2>6 DEF u, v, t, c
<1> QED
  BY <1>1, <1>2, <1>3, <1>4

LEMMA CrcInvInit ==
  ASSUME Crc32Assumption, CrcInit
  PROVE  CrcInv
<1>1. buf \in Seq(0 .. 255) /\ Len(buf) \in Nat /\ pos = 0
  BY DEF Crc32Assumption, CrcInit
<1>2. SoFar = Bits
  BY <1>1, Prefixes, RegisterEmpty DEF SoFar
<1> QED
  BY <1>1, <1>2 DEF CrcInv, CrcInit

(* genhdr's step: the table's entry of the low byte, and the others moved. *)
LEMMA ByteTurns ==
  ASSUME TableAssumption, NEW w \in SUBSET Bits, NEW b \in SUBSET (0 .. 7)
  PROVE  Xor(Entry(Xor(w, b)), Shr(w, 8)) = Turn8(Xor(w, b))
<1> DEFINE x == Xor(w, b)
<1>1. x \in SUBSET Nat
  BY DEF Xor, Bits
<1>2. Shr(x, 8) = Shr(w, 8)
  <2>0. \A q \in b : ~(q >= 8)
    <3>1. \A q \in 0 .. 7 : ~(q >= 8)
      OBVIOUS
    <3>2. \A q \in b : q \in 0 .. 7
      OBVIOUS
    <3> QED
      BY <3>1, <3>2
  <2>1. {q \in x : q >= 8} = {q \in w : q >= 8}
    BY <2>0 DEF Xor
  <2> QED
    BY <2>1 DEF Shr
<1> HIDE DEF x
<1> DEFINE lo == x \cap 0 .. 7
<1>3. lo \in SUBSET (0 .. 7)
  OBVIOUS
<1>4. Entry(lo) = Turn8(lo)
  BY <1>3, TableEntries
<1>5. Entry(x) = Entry(lo)
  <2>1. Mask(x, 8) = Mask(lo, 8)
    <3>1. 8 - 1 = 7
      OBVIOUS
    <3> QED
      BY <3>1 DEF Mask
  <2> QED
    BY <2>1 DEF Entry
<1>6. Turn8(x) = Xor(Turn8(lo), Shr(x, 8))
  BY <1>1, Turn8Is
<1> QED
  BY <1>2, <1>4, <1>5, <1>6 DEF x

LEMMA CrcInvNext ==
  ASSUME Crc32Assumption, TableAssumption, CrcInv, [CrcNext]_crc_vars
  PROVE  CrcInv'
<1>1. buf \in Seq(0 .. 255) /\ Len(buf) \in Nat
  BY DEF Crc32Assumption, CrcInv
<1>2. CASE TakeByte
  <2> DEFINE b == ByteBits(buf[pos + 1])
             R == SoFar
  <2>1. /\ crc_t = R /\ ebx = R /\ crc_g = R /\ R \in SUBSET Bits
        /\ pos \in 0 .. Len(buf) - 1
    BY <1>1, <1>2 DEF TakeByte, CrcInv
  <2>2. /\ crc_t' = Xor(R, b) /\ ebx' = Xor(R, b) /\ crc_g' = Xor(Entry(Xor(R, b)), Shr(R, 8))
        /\ pos' = pos + 1 /\ i' = 4 /\ pairs' = 4 /\ turn' = "tiny" /\ buf' = buf
    BY <1>2, <2>1 DEF TakeByte
  <2>3. b \in SUBSET (0 .. 7)
    BY DEF ByteBits
  <2>4. Turn8(Xor(R, b)) = SoFar'
    <3> DEFINE so == SubSeq(buf, 1, pos)
               c == buf[pos + 1]
    <3>1. so \in Seq(0 .. 255) /\ c \in 0 .. 255 /\ SubSeq(buf, 1, pos + 1) = Append(so, c)
      <4>1. pos \in 0 .. Len(buf)
        BY <1>1, <2>1
      <4> QED
        BY <1>1, <2>1, <4>1, Prefixes
    <3> HIDE DEF so, c
    <3>2. Register(Append(so, c)) = Turn8(Xor(Register(so), ByteBits(c)))
      BY <3>1, RegisterUp
    <3> QED
      BY <2>2, <3>1, <3>2 DEF SoFar, so, c
  <2> HIDE DEF b, R
  <2>5. crc_g' = SoFar'
    BY <2>1, <2>2, <2>3, <2>4, ByteTurns
  <2>6. Xor(R, b) \in SUBSET Bits
    BY <2>1, <2>3 DEF Xor, Bits
  <2>7. SoFar' \in SUBSET Bits
    <3>1. SubSeq(buf, 1, pos + 1) \in Seq(0 .. 255)
      <4>1. pos + 1 \in 0 .. Len(buf)
        BY <1>1, <2>1
      <4> QED
        BY <1>1, <4>1, Prefixes
    <3>2. Register(SubSeq(buf, 1, pos + 1)) \in SUBSET Bits
      BY <3>1, RegisterBelow
    <3> QED
      BY <2>2, <3>2 DEF SoFar
  <2>8. Pairs(crc_t', i') = SoFar' /\ Pairs(ebx', pairs') = SoFar'
    BY <2>2, <2>4 DEF Pairs
  <2>9. buf' \in Buffers /\ pos' \in 0 .. Len(buf')
    BY <1>1, <2>1, <2>2 DEF CrcInv
  <2> QED
    BY <2>2, <2>5, <2>6, <2>7, <2>8, <2>9 DEF CrcInv
<1>3. CASE TinyPair
  <2>1. /\ crc_t \in SUBSET Bits /\ i \in 1 .. 4 /\ Pairs(crc_t, i) = SoFar
        /\ crc_t' = Xor(tiny_tab[Value(Mask(crc_t, 2))], Shr(crc_t, 2)) /\ i' = i - 1
    BY <1>3 DEF TinyPair, CrcInv
  <2>2. crc_t' = Turn2(crc_t)
    BY <2>1, TinyTable
  <2>3. crc_t' \in SUBSET Bits
    BY <2>1, <2>2, Turn2Below
  <2>4. Pairs(crc_t', i') = SoFar
    BY <2>1, <2>2, OnePair
  <2>5. SoFar' = SoFar
    BY <1>3 DEF TinyPair, SoFar
  <2>6. CASE i' # 0
    <3>1. i' \in 1 .. 4
      BY <2>1, <2>6
    <3> QED
      BY <1>3, <2>3, <2>4, <2>5, <2>6, <3>1 DEF TinyPair, CrcInv
  <2>7. CASE i' = 0
    <3>1. crc_t' = SoFar
      BY <2>4, <2>7 DEF Pairs
    <3> QED
      BY <1>3, <2>3, <2>5, <2>7, <3>1 DEF TinyPair, CrcInv
  <2> QED
    BY <2>6, <2>7
<1>4. CASE Boot0Pair
  <2>1. /\ ebx \in SUBSET Bits /\ pairs \in 1 .. 4 /\ Pairs(ebx, pairs) = SoFar /\ pairs' = pairs - 1
        /\ ebx' = Xor(tiny_tab[(4 * Value(Mask(ebx, 2))) \div 4], Shr(ebx, 2))
    BY <1>4 DEF Boot0Pair, CrcInv
  <2>2. ebx' = Turn2(ebx)
    <3> DEFINE v == Value(Mask(ebx, 2))
    <3>1. v \in Int
      BY DEF Value
    <3> HIDE DEF v
    <3>2. (4 * v) \div 4 = v
      BY <3>1
    <3> QED
      BY <2>1, <3>2, TinyTable DEF v
  <2>3. ebx' \in SUBSET Bits
    BY <2>1, <2>2, Turn2Below
  <2>4. Pairs(ebx', pairs') = SoFar
    BY <2>1, <2>2, OnePair
  <2>5. SoFar' = SoFar
    BY <1>4 DEF Boot0Pair, SoFar
  <2>6. CASE pairs' # 0
    <3>1. pairs' \in 1 .. 4
      BY <2>1, <2>6
    <3> QED
      BY <1>4, <2>3, <2>4, <2>5, <2>6, <3>1 DEF Boot0Pair, CrcInv
  <2>7. CASE pairs' = 0
    <3>1. ebx' = SoFar
      BY <2>4, <2>7 DEF Pairs
    <3> QED
      BY <1>4, <2>3, <2>5, <2>7, <3>1 DEF Boot0Pair, CrcInv
  <2> QED
    BY <2>6, <2>7
<1>5. CASE Finish
  <2>1. /\ crc_t = SoFar /\ ebx = SoFar /\ crc_g = SoFar /\ pos = Len(buf)
        /\ crc_t' = Xor(crc_t, Bits) /\ ebx' = Xor(ebx, Bits) /\ crc_g' = Xor(crc_g, Bits)
        /\ turn' = "done" /\ buf' = buf /\ pos' = pos /\ SoFar \in SUBSET Bits
    BY <1>5 DEF Finish, CrcInv
  <2>2. SoFar = Register(buf)
    BY <1>1, <2>1, Prefixes DEF SoFar
  <2>3. Xor(SoFar, Bits) = Xor(Bits, SoFar) /\ Xor(SoFar, Bits) \in SUBSET Bits
    BY <2>1 DEF Xor
  <2> QED
    BY <2>1, <2>2, <2>3 DEF CrcInv
<1>6. CASE UNCHANGED crc_vars
  BY <1>6 DEF crc_vars, CrcInv, SoFar
<1> QED
  BY <1>2, <1>3, <1>4, <1>5, <1>6 DEF CrcNext

LEMMA CrcInvMeans ==
  ASSUME Crc32Assumption, CrcInv
  PROVE  CrcsAgree
BY DEF CrcInv, CrcsAgree, SoFar

(* The three loops over a buffer of a byte or more: the register after each *)
(* byte is the remainder of the division of what has been taken, and the   *)
(* CRC at the end is that of the whole.                                    *)
THEOREM CrcsAreRight == CrcSpec => []CrcsAgree
<1>1. CrcInit => CrcInv
  BY Crc32Assumption, CrcInvInit
<1>2. CrcInv /\ [CrcNext]_crc_vars => CrcInv'
  BY Crc32Assumption, TableAssumption, CrcInvNext
<1>3. CrcInv => CrcsAgree
  BY Crc32Assumption, CrcInvMeans
<1> QED
  BY <1>1, <1>2, <1>3, PTL DEF CrcSpec
=============================================================================
