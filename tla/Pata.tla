-------------------------------- MODULE Pata --------------------------------
(***************************************************************************)
(* The ATA driver, src/devices/pata.c: init_ata and check_drive probe the  *)
(* four drives the machine may have and select one, and read_abs_sectors   *)
(* reads sectors from it by polling its status.  The drives are modelled   *)
(* from how the driver uses them: a command makes a drive busy, and after  *)
(* a while it has data, or an error, or nothing.                           *)
(*                                                                         *)
(* A status byte is the set of its flags; a sector is represented by its   *)
(* address.                                                                *)
(***************************************************************************)
EXTENDS Integers, Sequences, FiniteSetsExt

CONSTANTS
  Machines,    \* what may be attached: see Machine
  ByteMod,     \* values of an LBA register, 2^8
  TopMod,      \* values of the address bits in the drive select register, 2^4
  LastSector,  \* sectors of a drive are 0 .. LastSector
  Requests,    \* pairs <<lba, sector_count>> a caller may pass
  MaxReads     \* bound on the number of calls

\* The drives in the order init_ata checks them: primary master and slave,
\* secondary master and slave.
Drives == 1 .. 4
Bus(d) == (d + 1) \div 2

\* A bus with nothing on it floats, and some sectors may not be readable.
Machine == [kind : [Drives -> {"none", "ata", "atapi"}],
            floating : SUBSET {1, 2}, bad : SUBSET (0 .. LastSector)]

ASSUME PataAssumption ==
  /\ ByteMod \in Nat \ {0} /\ TopMod \in Nat \ {0}
  /\ Requests \subseteq Nat \X (Nat \ {0})
  /\ LastSector \in Nat /\ MaxReads \in Nat
  /\ Machines \subseteq Machine
  /\ \A m \in Machines, d \in Drives :
       Bus(d) \in m.floating => m.kind[d] = "none"

Nothing == {}                        \* status 0
Floating == {"BSY", "DRQ", "ERR"}    \* status 0xFF

Garbage == -1

VARIABLES
  machine,
  pc,        \* "init", "check", "exists", "busy", "drq", "idle", "poll", "halt"
  d,         \* the drive being checked
  sel,       \* the drive selected (sel_base_port, sel_master_or_slave), 0: none
  status,    \* status register of the drive a command was sent to
  regs,      \* address and count registers of that drive
  lba, sector_count,
  left,      \* sectors still to read
  buf,       \* the sectors in the caller's buffer
  reads      \* calls of read_abs_sectors so far

request == <<lba, sector_count, left, buf, reads>>
vars == <<machine, pc, d, sel, status, regs, lba, sector_count, left, buf,
          reads>>

-----------------------------------------------------------------------------
(***************************************************************************)
(* The drives.                                                             *)
(***************************************************************************)

\* The status right after a command.
Answer(k) == IF Bus(k) \in machine.floating THEN Floating
             ELSE IF machine.kind[k] = "none" THEN Nothing ELSE {"BSY"}

\* A drive has prepared what IDENTIFY asks for; an ATAPI drive refuses it.
DriveIdentified ==
  /\ pc \in {"exists", "busy", "drq"} /\ status = {"BSY"}
  /\ status' = IF machine.kind[d] = "ata" THEN {"DRQ"} ELSE {"ERR"}
  /\ UNCHANGED <<machine, pc, d, sel, regs, request>>

\* The address in the registers.
Address == ((regs.top * ByteMod + regs.high) * ByteMod + regs.mid) * ByteMod
             + regs.low

\* A drive has the next sector, or cannot read it.
DriveReady ==
  /\ pc = "poll" /\ status = {"BSY"}
  /\ status' = IF Address \in 0 .. LastSector /\ Address \notin machine.bad
               THEN {"DRQ"} ELSE {"ERR"}
  /\ UNCHANGED <<machine, pc, d, sel, regs, request>>

\* The registers count the sectors: the address behind the one transferred.
NextRegs ==
  LET a == Address + 1 IN
  [top   |-> ((a \div ByteMod) \div ByteMod) \div ByteMod,
   high  |-> ((a \div ByteMod) \div ByteMod) % ByteMod,
   mid   |-> (a \div ByteMod) % ByteMod,
   low   |-> a % ByteMod,
   count |-> regs.count - 1]

-----------------------------------------------------------------------------
(***************************************************************************)
(* init_ata and check_drive.                                               *)
(***************************************************************************)

NoRegs == [top |-> 0, high |-> 0, mid |-> 0, low |-> 0, count |-> 0]

Init ==
  /\ machine \in Machines
  /\ pc = "init" /\ d = 1 /\ sel = 0
  /\ status = Nothing /\ regs = NoRegs
  /\ lba = 0 /\ sector_count = 0 /\ left = 0 /\ buf = <<>> /\ reads = 0

\* The check for floating buses: only both of them end init_ata.
CheckBuses ==
  /\ pc = "init"
  /\ pc' = IF machine.floating = {1, 2} THEN "idle" ELSE "check"
  /\ UNCHANGED <<machine, d, sel, status, regs, request>>

\* The next drive is checked, if there is one.
NextDrive == IF d = 4 THEN pc' = "idle" /\ d' = d
             ELSE pc' = "check" /\ d' = d + 1

\* Fault: a drive is checked although one was found.
SkipNever == FALSE

\* "Check if we've already found a drive"
Skip == sel # 0

SkipDrive ==
  /\ pc = "check" /\ Skip
  /\ NextDrive
  /\ UNCHANGED <<machine, sel, status, regs, request>>

\* The drive is selected, the registers are cleared, IDENTIFY is sent.
Identify ==
  /\ pc = "check" /\ ~ Skip
  /\ regs' = NoRegs
  /\ status' = Answer(d)
  /\ pc' = "exists"
  /\ UNCHANGED <<machine, d, sel, request>>

\* "The drive does not exist", or it is polled until BSY clears.
Exists ==
  /\ pc = "exists"
  /\ \/ status = Nothing /\ NextDrive
     \/ status # Nothing /\ pc' = "busy" /\ d' = d
  /\ UNCHANGED <<machine, sel, status, regs, request>>

BusyClears ==
  /\ pc = "busy" /\ "BSY" \notin status
  /\ pc' = "drq"
  /\ UNCHANGED <<machine, d, sel, status, regs, request>>

\* Fault: the wait for data does not end with an error.
IdentifyDoneData == "DRQ" \in status

\* The wait for DRQ or ERR is over.
IdentifyDone == "DRQ" \in status \/ "ERR" \in status

Identified ==
  /\ pc = "drq" /\ IdentifyDone
  /\ \/ /\ "ERR" \in status
        /\ UNCHANGED sel
     \/ /\ "ERR" \notin status
        /\ sel' = d
  /\ status' = Nothing
  /\ NextDrive
  /\ UNCHANGED <<machine, regs, request>>

-----------------------------------------------------------------------------
(***************************************************************************)
(* read_abs_sectors.                                                       *)
(***************************************************************************)

\* Fault: two address registers are swapped.
RegistersSwapped(a, n) ==
  [top   |-> ((a \div ByteMod) \div ByteMod) \div ByteMod,
   high  |-> (a \div ByteMod) % ByteMod,
   mid   |-> ((a \div ByteMod) \div ByteMod) % ByteMod,
   low   |-> a % ByteMod,
   count |-> n]

\* The address in chunks: the most significant bits go with the drive select.
Registers(a, n) ==
  [top   |-> ((a \div ByteMod) \div ByteMod) \div ByteMod,
   high  |-> ((a \div ByteMod) \div ByteMod) % ByteMod,
   mid   |-> (a \div ByteMod) % ByteMod,
   low   |-> a % ByteMod,
   count |-> n]

\* ASSERT(lba >> LBA_BITS == 0)
InRange(a) == a < TopMod * ByteMod * ByteMod * ByteMod

\* A call: the address is checked, the registers and READ_SECTORS are sent.
\* Without a drive the ports are those of another device.
ReadSectors ==
  /\ pc = "idle" /\ reads < MaxReads
  /\ \E r \in Requests :
       /\ lba' = r[1] /\ sector_count' = r[2]
       /\ left' = r[2]
       /\ \/ /\ sel # 0 /\ InRange(r[1])
             /\ regs' = Registers(r[1], r[2])
             /\ status' = {"BSY"}
             /\ pc' = "poll"
          \/ /\ sel = 0 \/ ~ InRange(r[1])
             /\ pc' = "halt"
             /\ UNCHANGED <<regs, status>>
  /\ buf' = <<>>
  /\ reads' = reads + 1
  /\ UNCHANGED <<machine, d, sel>>

\* Fault: the poll waits for data.
PolledData == "DRQ" \in status

\* poll() ends when BSY is clear, with or without data.
Polled == "BSY" \notin status

\* Fault: the last sector is left in the drive.
LoopRunsShort == left > 1

\* The loop over the sectors goes on.
LoopRuns == left > 0

\* 256 words are read: the sector, or whatever the port yields without data.
\* The drive goes on to the next sector it was asked for.
ReadData ==
  /\ pc = "poll" /\ LoopRuns /\ Polled
  /\ \/ /\ "DRQ" \in status
        /\ buf' = Append(buf, Address)
        /\ regs' = NextRegs
        /\ status' = IF regs.count > 1 THEN {"BSY"} ELSE Nothing
     \/ /\ "DRQ" \notin status
        /\ buf' = Append(buf, Garbage)
        /\ UNCHANGED <<regs, status>>
  /\ left' = left - 1
  /\ UNCHANGED <<machine, pc, d, sel, lba, sector_count, reads>>

ReadReturn ==
  /\ pc = "poll" /\ ~ LoopRuns
  /\ pc' = "idle"
  /\ UNCHANGED <<machine, d, sel, status, regs, request>>

-----------------------------------------------------------------------------

\* The driver polls a status that does not change, or nobody calls it.
Wait ==
  /\ \/ pc = "busy" /\ "BSY" \in status
     \/ pc = "drq" /\ ~ IdentifyDone
     \/ pc = "poll" /\ LoopRuns /\ ~ Polled
     \/ pc = "idle" /\ reads = MaxReads
     \/ pc = "halt"
  /\ UNCHANGED vars

Next == \/ DriveIdentified \/ DriveReady
        \/ CheckBuses \/ SkipDrive \/ Identify \/ Exists \/ BusyClears
        \/ Identified \/ ReadSectors \/ ReadData \/ ReadReturn
        \/ Wait

\* The driver runs on, and a drive that is busy gets ready some time.
Fairness ==
  /\ WF_vars(CheckBuses \/ SkipDrive \/ Identify \/ Exists \/ BusyClears
             \/ Identified \/ ReadData \/ ReadReturn)
  /\ WF_vars(DriveIdentified) /\ WF_vars(DriveReady)

Spec == Init /\ [][Next]_vars /\ Fairness

-----------------------------------------------------------------------------
(***************************************************************************)
(* Properties.                                                             *)
(***************************************************************************)

AtaDrives == {k \in Drives : machine.kind[k] = "ata"}

\* After init_ata the drive selected is the first ATA drive, in the order the
\* drives are checked in, if there is one: drives that are missing, or refuse
\* IDENTIFY, are passed over, and no later drive replaces the one found.
FirstDriveSelected ==
  pc \in {"idle", "poll"} =>
    sel = IF AtaDrives = {} THEN 0 ELSE Min(AtaDrives)

Readable(a) == a \in 0 .. LastSector /\ a \notin machine.bad

\* read_abs_sectors fills the buffer with sectors lba, lba + 1, ... in order, up
\* to the first one the drive cannot read.
SectorsInOrder ==
  pc \in {"idle", "poll"} /\ reads > 0 =>
    \A k \in DOMAIN buf :
      (\A j \in 1 .. k : Readable(lba + j - 1)) => buf[k] = lba + k - 1

\* When read_abs_sectors returns, the buffer has as many sectors as the caller
\* asked for and the drive has none left that the next call would read.
TransferComplete ==
  pc = "idle" /\ reads > 0 =>
    /\ Len(buf) = sector_count
    /\ status \in {Nothing, {"ERR"}}

\* init_ata returns: "First, check for a floating bus (no drives attached)"
\* (pata.c).
InitReturns == pc = "init" ~> pc = "idle"

\* read_abs_sectors returns, also when the drive reports an error.
ReadReturns == pc = "poll" ~> pc = "idle"

=============================================================================
