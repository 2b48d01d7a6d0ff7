------------------------------- MODULE BootImage -------------------------------
(***************************************************************************)
(* The image of boot1 on its way from the linker to the disk: the header   *)
(* of hdr.s, genhdr.c that fills it in, and the layout that src/Makefile   *)
(* gives the disk.                                                         *)
(*                                                                         *)
(* The unit is a cell, which holds a header field, an instruction of boot1 *)
(* or a word of the stack.  CRC-32 is ideal: the CRC of some cells is the  *)
(* sequence of them.                                                       *)
(***************************************************************************)
EXTENDS Integers, Sequences

CONSTANTS
  SECTOR,      \* cells to a sector
  TCHDR,       \* the sector of the disk that gets tc.hdr
  ImageSizes,  \* sizes of boot1.bin
  Versions,    \* what may have been compiled
  Cuts,        \* where a read or a copy of it may be cut short
  Unread,      \* what the skip may be in memory that was not read into
  MaxUnnoticed \* bound: errors in one build that genhdr does not notice

OFF_LOADSZ == 0
OFF_CRC == 1
OFF_CRCSZ == 2
OFF_SKIP == 3
OFF_ENTRY == 4
HDR_LEN == 5

ASSUME ImageAssumption ==
  /\ SECTOR \in Nat /\ SECTOR > HDR_LEN
  /\ TCHDR \in Nat /\ TCHDR > 1
  /\ \A n \in ImageSizes : n \in Nat /\ n > HDR_LEN
  /\ Cuts \cup Unread \subseteq Nat

Num(n) == <<"num", n>>
Crc(cells) == <<"crc", cells>>
Other(what) == <<"other", what>>

VARIABLES
  build,     \* the step of the build
  version,   \* what is compiled
  file,      \* boot1.bin
  crc,       \* genhdr's variables
  crcsz,
  disk,      \* boot1.bin as it is on the disk, <<>> without a disk image
  unnoticed  \* history: the errors that genhdr has not noticed

image == <<build, version, file, crc, crcsz, disk, unnoticed>>

(* boot1.bin as it is linked, with zeros for genhdr to fill in. *)
Linked(v, n) ==
  [k \in 1 .. n |-> CASE k - 1 = OFF_SKIP -> Num(HDR_LEN)
                      [] k - 1 \in {OFF_LOADSZ, OFF_CRC, OFF_CRCSZ} -> Num(0)
                      [] OTHER -> <<"code", <<v, k - 1>>>>]

(* What genhdr is there for. *)
HeaderRight(f, v) ==
  LET n == Len(f)
  IN  f = [Linked(v, n) EXCEPT ![OFF_LOADSZ + 1] = Num(n),
                               ![OFF_CRCSZ + 1] = Num(n - HDR_LEN),
                               ![OFF_CRC + 1] = Crc(SubSeq(Linked(v, n), HDR_LEN + 1, n))]

BuildInit == /\ build = "none"
             /\ version \in Versions
             /\ file = <<>>
             /\ crc = Num(0)
             /\ crcsz = Num(0)
             /\ disk = <<>>
             /\ unnoticed = 0

(* make all: whatever an earlier build left is removed, boot1 is compiled  *)
(* and its binary copied, or make stops at an error before genhdr runs.    *)
Make ==
  /\ build \in {"none", "failed", "built"}
  /\ version' \in Versions
  /\ \/ build' = "read" /\ \E n \in ImageSizes : file' = Linked(version', n)
     \/ build' = "failed" /\ file' = <<>>
  /\ crc' = Num(0)
  /\ crcsz' = Num(0)
  /\ disk' = <<>>
  /\ unnoticed' = 0

(* genhdr stops at an error it sees, and make with it. *)
Fail == build' = "failed" /\ UNCHANGED <<version, crc, crcsz, disk, unnoticed>>
Unnoticed == unnoticed < MaxUnnoticed /\ unnoticed' = unnoticed + 1

(* The skip is taken from the memory that the file was read into, and the  *)
(* CRC from there to the end.                                              *)
Checksum(buf, skip) ==
  /\ crcsz' = Num(Len(buf) - skip)
  /\ crc' = Crc(SubSeq(buf, skip + 1, Len(buf)))

(* That memory comes from malloc, and a short read leaves it unset from    *)
(* where it stops; only a read that fails altogether is noticed.  With a   *)
(* skip beyond the end genhdr would read 4 gigabytes, and faults.          *)
ShortRead(n) == [k \in 1 .. Len(file) |-> IF k <= n THEN file[k] ELSE Other("unset")]

ReadImage ==
  /\ build = "read"
  /\ \/ /\ \/ Checksum(file, HDR_LEN) /\ UNCHANGED unnoticed
           \/ \E n \in Cuts : /\ n < Len(file)
                             /\ \E skip \in IF n > OFF_SKIP THEN {HDR_LEN} ELSE Unread :
                                  skip <= Len(file) /\ Checksum(ShortRead(n), skip)
                             /\ Unnoticed
        /\ build' = "loadsz"
        /\ UNCHANGED <<version, file, disk>>
     \/ Fail /\ UNCHANGED file

(* write() returns -1 for an error, which the comparison with sizeof makes *)
(* a large unsigned number: only a short count is noticed.                 *)
WriteField(step, off, val, next) ==
  /\ build = step
  /\ \/ /\ \/ file' = [file EXCEPT ![off + 1] = val] /\ UNCHANGED unnoticed
           \/ UNCHANGED file /\ Unnoticed
        /\ build' = next
        /\ UNCHANGED <<version, crc, crcsz, disk>>
     \/ Fail /\ file' = [file EXCEPT ![off + 1] = Other("torn")]

(* Mutant: the CRC's size is that of the file. *)
WriteCrcszWhole == WriteField("crcsz", OFF_CRCSZ, Num(Len(file)), "crc")

WriteLoadsz == WriteField("loadsz", OFF_LOADSZ, Num(Len(file)), "crcsz")
WriteCrcsz == WriteField("crcsz", OFF_CRCSZ, crcsz, "crc")
WriteCrc == WriteField("crc", OFF_CRC, crc, "layout")

(* cat puts boot1.bin behind the one sector of boot0, and dd puts tc.hdr   *)
(* over whatever is in its sector.  make stops at an error of either and   *)
(* leaves what there is.                                                   *)
Layout ==
  /\ build = "layout"
  /\ \/ /\ disk' = [k \in 1 .. Len(file) |->
                    IF 1 + (k - 1) \div SECTOR = TCHDR THEN Other("tc.hdr") ELSE file[k]]
        /\ build' = "built"
     \/ /\ \E n \in Cuts \cup {Len(file)} : n <= Len(file) /\ disk' = SubSeq(file, 1, n)
        /\ build' = "failed"
  /\ UNCHANGED <<version, file, crc, crcsz, unnoticed>>

BuildStep == ReadImage \/ WriteLoadsz \/ WriteCrcsz \/ WriteCrc \/ Layout
-----------------------------------------------------------------------------
(* A build that ends without an error has made the right header if nothing *)
(* went wrong that genhdr does not notice, whatever earlier builds left    *)
(* behind, and the disk has it with the rest of the image, but for the     *)
(* sector that tc.hdr takes.                                               *)
BuiltUnlessUnnoticed ==
  build = "built" /\ unnoticed = 0 =>
    /\ HeaderRight(file, version)
    /\ \A k \in 1 .. Len(file) : k <= (TCHDR - 1) * SECTOR => disk[k] = file[k]
=============================================================================
