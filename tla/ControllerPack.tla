--------------------------- MODULE ControllerPack ---------------------------
(***************************************************************************)
(* The Controller Pack of mempak.c: an image in memory that answers every  *)
(* access at once, and a file that follows it.  A write marks the image    *)
(* dirty; the file is written by an access of the game that comes more     *)
(* than Batch ticks after the last save, never by a timer and not when the *)
(* process ends.  The 32 KiB are abstracted to a few blocks of 32 bytes.   *)
(***************************************************************************)
EXTENDS Integers

CONSTANTS
    NumBlocks,      \* blocks of 32 bytes in a pack
    Data,           \* what a block may hold
    Formatted,      \* what a block of a new pack holds
    Batch,          \* ticks after a save before an access saves again
    MaxTime         \* bound on the clock

ASSUME PackAssumption ==
    /\ NumBlocks \in Nat \ {0}
    /\ Formatted \in Data
    /\ Batch \in Nat /\ MaxTime \in Nat /\ Batch < MaxTime

VARIABLES
    now,            \* GetTickCount
    pack,           \* the image and its flags: g_mempak_data, _loaded, _dirty, g_last_save_time
    disk,           \* the file sav\mempak_port1.mpk
    ledger          \* history: when each block was written and the file saved,
                    \* and whether the host refused the last save

packVars == <<now, pack, disk, ledger>>

Blocks == 0 .. NumBlocks - 1
Image == [Blocks -> Data]
NewImage == [b \in Blocks |-> Formatted]
\* The file: what a write that was cut left is too short, like no file.
File == [whole : BOOLEAN, data : Image]
NoFile == [whole |-> FALSE, data |-> NewImage]

\* What the host makes of fopen and fwrite: the file does not open, is written
\* in full, or is cut short, which the code does not look at.
Outcomes == {"noopen", "whole", "short"}

PackTypeOK ==
    /\ now \in 0 .. MaxTime
    /\ pack \in [ram : Image, loaded : BOOLEAN, dirty : BOOLEAN, saved : 0 .. MaxTime]
    /\ disk \in File
    /\ ledger \in [written : [Blocks -> 0 .. MaxTime], saved : 0 .. MaxTime, refused : BOOLEAN]

\* A new process on a host that was started longer than Batch ago.
Unloaded == [ram |-> NewImage, loaded |-> FALSE, dirty |-> FALSE, saved |-> 0]

PackInit ==
    /\ now = Batch + 1
    /\ pack = Unloaded
    /\ disk = NoFile
    /\ ledger = [written |-> [b \in Blocks |-> 0], saved |-> 0, refused |-> FALSE]

-----------------------------------------------------------------------------
(* The functions of mempak.c as operators on m = [pack, disk, ledger].     *)

\* mempak_flush: nothing for a clean image; a file that does not open leaves
\* the image dirty.
Flush(m, io) ==
    IF ~m.pack.dirty THEN m
    ELSE IF io = "noopen" THEN [m EXCEPT !.ledger.refused = TRUE]
    ELSE [pack   |-> [m.pack EXCEPT !.dirty = FALSE, !.saved = now],
          disk   |-> IF io = "whole" THEN [whole |-> TRUE, data |-> m.pack.ram] ELSE NoFile,
          ledger |-> [m.ledger EXCEPT !.saved = now, !.refused = (io = "short")]]

\* mempak_init, at the first access: a file of the right size is the image,
\* anything else is replaced by a formatted pack, saved at once.
Load(m, io) ==
    IF m.pack.loaded THEN m
    ELSE IF m.disk.whole THEN [m EXCEPT !.pack = [@ EXCEPT !.ram = m.disk.data, !.loaded = TRUE]]
    ELSE LET formatted == [m EXCEPT !.pack = [@ EXCEPT !.ram = NewImage, !.dirty = TRUE],
                                    !.ledger = [@ EXCEPT !.written = [b \in Blocks |-> now]]]
         IN  [Flush(formatted, io) EXCEPT !.pack.loaded = TRUE]

\* The save at the end of an access.
SaveIfLate(m, io) == IF now - m.pack.saved > Batch THEN Flush(m, io) ELSE m

\* An address past the end wraps around.
BlockOf(addr) == addr % NumBlocks

\* mempak_read_block: the image after the read, and the data it returned.
ReadBlock(m, addr, io) ==
    LET l == Load(m, io)
    IN  [after |-> SaveIfLate(l, io), data |-> l.pack.ram[BlockOf(addr)]]

\* Variant: a save once the game has been idle, as if every write began the
\* wait anew.
WriteBlockDebounced(m, addr, d, io) ==
    LET l == Load(m, io)
        w == [l EXCEPT !.pack = [@ EXCEPT !.ram[BlockOf(addr)] = d, !.dirty = TRUE, !.saved = now],
                       !.ledger.written[BlockOf(addr)] = now]
    IN  IF l.pack.dirty THEN w ELSE SaveIfLate([w EXCEPT !.pack.saved = l.pack.saved], io)

\* mempak_write_block.  The CRC it returns is that of the data it was given;
\* the one the game sent is not compared.
WriteBlock(m, addr, d, io) ==
    LET l == Load(m, io)
        w == [l EXCEPT !.pack = [@ EXCEPT !.ram[BlockOf(addr)] = d, !.dirty = TRUE],
                       !.ledger.written[BlockOf(addr)] = now]
    IN  SaveIfLate(w, io)

-----------------------------------------------------------------------------
\* What the end of the process can take away: a block that is not in the file
\* was written within Batch ticks of the last save, however many writes and
\* reads came in between (mempak.c:135 and :161).  Only a save the host refused
\* or cut short loses more.
LossWindow ==
    pack.loaded /\ ~ledger.refused =>
        \A b \in Blocks :
            ~disk.whole \/ disk.data[b] # pack.ram[b] =>
                ledger.written[b] - ledger.saved <= Batch

=============================================================================
