----------------------------- MODULE PataProofs -----------------------------
(***************************************************************************)
(* The ATA driver selects the first ATA drive and transfers the sectors it *)
(* is asked for, for every set of machines, width of the registers, size   *)
(* of the drives and set of requests.                                      *)
(***************************************************************************)
EXTENDS Pata, TLAPS

-----------------------------------------------------------------------------
(***************************************************************************)
(* Selecting a drive.                                                      *)
(***************************************************************************)

\* The first ATA drive among those before drive n, or none.
FirstBefore(n, s) ==
  \/ s = 0 /\ \A k \in Drives : k < n => machine.kind[k] # "ata"
  \/ /\ s \in Drives /\ s < n /\ machine.kind[s] = "ata"
     /\ \A k \in Drives : k < s => machine.kind[k] # "ata"

\* What the status register of drive k can hold while IDENTIFY is answered.
Statuses(k) ==
  IF Bus(k) \in machine.floating THEN {Floating}
  ELSE CASE machine.kind[k] = "none"  -> {Nothing}
         [] machine.kind[k] = "ata"   -> {{"BSY"}, {"DRQ"}}
         [] machine.kind[k] = "atapi" -> {{"BSY"}, {"ERR"}}

Probing == {"exists", "busy", "drq"}

\* While drive d is checked the drives before it are settled; after init_ata
\* all four are.
SelectInv ==
  /\ machine \in Machines
  /\ pc \in {"init", "check", "idle", "poll", "halt"} \cup Probing
  /\ d \in Drives
  /\ pc = "init" => d = 1
  /\ pc \in {"init", "check"} \cup Probing => FirstBefore(d, sel)
  /\ pc \in Probing => sel = 0 /\ status \in Statuses(d)
  /\ pc \in {"busy", "drq"} => status # Nothing
  /\ pc = "drq" => "BSY" \notin status
  /\ pc \in {"idle", "poll"} => FirstBefore(5, sel)

\* A machine is what PataAssumption says it is.
LEMMA MachineType ==
  ASSUME NEW m \in Machines
  PROVE  /\ m.kind \in [Drives -> {"none", "ata", "atapi"}]
         /\ \A k \in Drives : Bus(k) \in m.floating => m.kind[k] = "none"
  BY PataAssumption DEF Machine

\* The drives are four.
LEMMA FourDrives == Drives = {1, 2, 3, 4}
  BY DEF Drives

\* Going on to the next drive keeps what is known about those checked, once it
\* is known of the drive that was checked, too.
LEMMA NextDriveSettles ==
  ASSUME SelectInv, NextDrive, machine' = machine, FirstBefore(d + 1, sel')
  PROVE  /\ pc' \in {"check", "idle"} /\ d' \in Drives
         /\ pc' = "check" => FirstBefore(d, sel)'
         /\ pc' = "idle" => FirstBefore(5, sel)'
<1>1. d \in 1 .. 4
  BY DEF SelectInv, Drives
<1>2. CASE d = 4
  BY <1>1, <1>2 DEF NextDrive, FirstBefore, Drives
<1>3. CASE d # 4
  <2>1. pc' = "check" /\ d' = d + 1
    BY <1>3 DEF NextDrive
  <2>2. d' \in Drives
    BY <1>1, <1>3, <2>1 DEF Drives
  <2>3. FirstBefore(d, sel)'
    BY <2>1 DEF FirstBefore
  <2>4. QED
    BY <2>1, <2>2, <2>3
<1>4. QED
  BY <1>2, <1>3

\* A drive that is not an ATA drive changes nothing.
LEMMA PassedOver ==
  ASSUME SelectInv, FirstBefore(d, sel), machine.kind[d] # "ata" \/ sel # 0,
         sel' = sel
  PROVE  FirstBefore(d + 1, sel')
  BY DEF SelectInv, FirstBefore, Drives

LEMMA SelectInit == Init => SelectInv
  BY DEF Init, SelectInv, FirstBefore, Drives, Probing

LEMMA SelectStep == SelectInv /\ [Next]_vars => SelectInv'
<1> SUFFICES ASSUME SelectInv, [Next]_vars
             PROVE  SelectInv'
  OBVIOUS
<1> USE DEF Probing
<1>0. /\ machine \in Machines /\ d \in Drives
      /\ machine.kind[d] \in {"none", "ata", "atapi"}
      /\ Bus(d) \in machine.floating => machine.kind[d] = "none"
  BY MachineType DEF SelectInv
<1>1. CASE DriveIdentified
  <2>1. /\ pc \in Probing /\ status = {"BSY"}
        /\ status' = (IF machine.kind[d] = "ata" THEN {"DRQ"} ELSE {"ERR"})
        /\ UNCHANGED <<machine, pc, d, sel>>
    BY <1>1 DEF DriveIdentified
  <2>2. status \in Statuses(d)
    BY <2>1 DEF SelectInv
  <2>3. Bus(d) \notin machine.floating
    BY <2>1, <2>2 DEF Statuses, Floating
  <2>4. machine.kind[d] \in {"ata", "atapi"}
    BY <1>0, <2>1, <2>2, <2>3 DEF Statuses, Nothing
  <2>5. status' \in Statuses(d)
    BY <2>1, <2>3, <2>4 DEF Statuses
  <2>6. Statuses(d)' = Statuses(d) /\ FirstBefore(d, sel)' = FirstBefore(d, sel)
    BY <2>1 DEF Statuses, FirstBefore
  <2>7. status' # Nothing /\ "BSY" \notin status'
    BY <2>1 DEF Nothing
  <2>8. QED
    BY <2>1, <2>5, <2>6, <2>7 DEF SelectInv
<1>2. CASE DriveReady
  BY <1>2 DEF DriveReady, SelectInv, FirstBefore
<1>3. CASE CheckBuses
  <2>1. /\ pc = "init" /\ UNCHANGED <<machine, d, sel, status>>
        /\ pc' = (IF machine.floating = {1, 2} THEN "idle" ELSE "check")
    BY <1>3 DEF CheckBuses
  <2>2. CASE machine.floating = {1, 2}
    <3>1. \A k \in Drives : Bus(k) \in {1, 2}
      BY FourDrives DEF Bus
    <3>2. \A k \in Drives : machine.kind[k] = "none"
      BY <1>0, <2>2, <3>1, MachineType
    <3>3. sel = 0
      BY <2>1 DEF SelectInv, FirstBefore, Drives
    <3>4. FirstBefore(5, sel)'
      BY <2>1, <3>2, <3>3 DEF FirstBefore
    <3>5. QED
      BY <2>1, <2>2, <3>4 DEF SelectInv
  <2>3. CASE machine.floating # {1, 2}
    BY <2>1, <2>3 DEF SelectInv, FirstBefore
  <2>4. QED
    BY <2>2, <2>3
<1>4. CASE SkipDrive
  <2>1. pc = "check" /\ sel # 0 /\ NextDrive /\ UNCHANGED <<machine, sel, status>>
    BY <1>4 DEF SkipDrive, Skip
  <2>2. FirstBefore(d + 1, sel')
    BY <2>1, PassedOver DEF SelectInv
  <2>3. QED
    BY <1>0, <2>1, <2>2, NextDriveSettles DEF SelectInv
<1>5. CASE Identify
  <2>1. /\ pc = "check" /\ sel = 0 /\ status' = Answer(d) /\ pc' = "exists"
        /\ UNCHANGED <<machine, d, sel>>
    BY <1>5 DEF Identify, Skip
  <2>2. Answer(d) \in Statuses(d)
    BY <1>0 DEF Answer, Statuses
  <2>3. QED
    BY <2>1, <2>2 DEF SelectInv, Statuses, FirstBefore
<1>6. CASE Exists
  <2>1. pc = "exists" /\ sel = 0 /\ UNCHANGED <<machine, sel, status>>
    BY <1>6 DEF Exists, SelectInv
  <2>2. CASE status = Nothing /\ NextDrive
    <3>1. machine.kind[d] = "none"
      BY <1>0, <2>1, <2>2 DEF SelectInv, Statuses, Nothing, Floating
    <3>2. FirstBefore(d + 1, sel')
      BY <2>1, <3>1, PassedOver DEF SelectInv
    <3>3. QED
      BY <1>0, <2>1, <2>2, <3>2, NextDriveSettles DEF SelectInv
  <2>3. CASE status # Nothing /\ pc' = "busy" /\ d' = d
    BY <2>1, <2>3 DEF SelectInv, Statuses, FirstBefore
  <2>4. QED
    BY <1>6, <2>2, <2>3 DEF Exists
<1>7. CASE BusyClears
  BY <1>7 DEF BusyClears, SelectInv, Statuses, FirstBefore
<1>8. CASE Identified
  <2>1. /\ pc = "drq" /\ sel = 0 /\ NextDrive /\ machine' = machine
        /\ status \in Statuses(d) /\ "BSY" \notin status /\ status # Nothing
        /\ \/ "ERR" \in status /\ sel' = sel
           \/ "ERR" \notin status /\ sel' = d
    BY <1>8 DEF Identified, SelectInv
  <2>2. CASE "ERR" \in status /\ sel' = sel
    <3>1. machine.kind[d] # "ata"
      BY <1>0, <2>1, <2>2 DEF Statuses
    <3>2. FirstBefore(d + 1, sel')
      BY <2>1, <2>2, <3>1, PassedOver DEF SelectInv
    <3>3. QED
      BY <1>0, <2>1, <3>2, NextDriveSettles DEF SelectInv
  <2>3. CASE "ERR" \notin status /\ sel' = d
    <3>1. machine.kind[d] = "ata"
      BY <1>0, <2>1, <2>3 DEF Statuses, Floating, Nothing
    <3>2. FirstBefore(d + 1, sel')
      BY <1>0, <2>1, <2>3, <3>1 DEF SelectInv, FirstBefore, Drives
    <3>3. QED
      BY <1>0, <2>1, <3>2, NextDriveSettles DEF SelectInv
  <2>4. QED
    BY <2>1, <2>2, <2>3
<1>9. CASE ReadSectors
  BY <1>9 DEF ReadSectors, SelectInv, FirstBefore
<1>10. CASE ReadData
  BY <1>10 DEF ReadData, SelectInv, FirstBefore
<1>11. CASE ReadReturn
  BY <1>11 DEF ReadReturn, SelectInv, FirstBefore
<1>12. CASE Wait \/ UNCHANGED vars
  BY <1>12 DEF Wait, vars, SelectInv, Statuses, FirstBefore
<1>13. QED
  BY <1>1, <1>2, <1>3, <1>4, <1>5, <1>6, <1>7, <1>8, <1>9, <1>10, <1>11, <1>12
  DEF Next

\* When all drives are settled, the one selected is the least ATA drive.
LEMMA SelectCorrect == SelectInv => FirstDriveSelected
<1> SUFFICES ASSUME SelectInv, pc \in {"idle", "poll"}
             PROVE  sel = IF AtaDrives = {} THEN 0 ELSE Min(AtaDrives)
  BY DEF FirstDriveSelected
<1>1. FirstBefore(5, sel)
  BY DEF SelectInv
<1>2. CASE sel = 0 /\ \A k \in Drives : k < 5 => machine.kind[k] # "ata"
  BY <1>2 DEF AtaDrives, Drives
<1>3. CASE /\ sel \in Drives /\ sel < 5 /\ machine.kind[sel] = "ata"
           /\ \A k \in Drives : k < sel => machine.kind[k] # "ata"
  <2>1. sel \in AtaDrives /\ \A y \in AtaDrives : sel <= y
    BY <1>3 DEF AtaDrives, Drives
  <2>2. \A x \in AtaDrives : (\A y \in AtaDrives : x <= y) => x = sel
    BY <2>1 DEF AtaDrives, Drives
  <2>3. Min(AtaDrives) = sel
    BY <2>1, <2>2 DEF Min
  <2>4. QED
    BY <2>1, <2>3
<1>4. QED
  BY <1>1, <1>2, <1>3 DEF FirstBefore

\* After init_ata the first ATA drive, in the order check_drive is called, is
\* selected, whatever is attached to the two buses and however a drive's answer
\* to IDENTIFY interleaves with the polling.
THEOREM FirstDriveIsSelected == Spec => []FirstDriveSelected
<1>1. Init => SelectInv
  BY SelectInit
<1>2. SelectInv /\ [Next]_vars => SelectInv'
  BY SelectStep
<1>3. SelectInv => FirstDriveSelected
  BY SelectCorrect
<1>4. QED
  BY <1>1, <1>2, <1>3, PTL DEF Spec

-----------------------------------------------------------------------------
(***************************************************************************)
(* Transferring sectors.                                                   *)
(***************************************************************************)

\* The first n sectors of the request can be read.
Good(n) == \A j \in 1 .. n : Readable(lba + j - 1)

RegsType == [top : Nat, high : Nat, mid : Nat, low : Nat, count : Nat]

\* The buffer so far, in the loop of read_abs_sectors and behind it.
BufferInv ==
  pc \in {"idle", "poll"} /\ reads > 0 =>
    /\ lba \in Nat /\ sector_count \in Nat /\ left \in Nat
    /\ buf \in Seq(Int)
    /\ Len(buf) + left = sector_count
    /\ \A k \in DOMAIN buf : Good(k) => buf[k] = lba + k - 1

\* The drive in the loop: it stands at the sector behind those in the buffer and
\* has as many left as the loop, unless it met a sector it cannot read.
DriveInv ==
  pc = "poll" =>
    /\ reads > 0
    /\ regs \in RegsType
    /\ status \in {Nothing, {"BSY"}, {"DRQ"}, {"ERR"}}
    /\ status = Nothing => left = 0
    /\ status \in {{"BSY"}, {"DRQ"}} => left > 0 /\ regs.count = left
    /\ Good(Len(buf)) => /\ Address = lba + Len(buf)
                         /\ status = {"ERR"} => ~ Readable(Address)

\* Behind the loop nothing is left.
ReturnInv ==
  pc = "idle" /\ reads > 0 => left = 0 /\ status \in {Nothing, {"ERR"}}

TransferInv ==
  /\ machine \in Machines /\ reads \in Nat
  /\ pc \in {"init", "check", "exists", "busy", "drq"} => reads = 0
  /\ BufferInv /\ DriveInv /\ ReturnInv

\* Quotient and remainder make up the number.
LEMMA Division ==
  ASSUME NEW a \in Nat
  PROVE  /\ a \div ByteMod \in Nat /\ a % ByteMod \in Nat
         /\ (a \div ByteMod) * ByteMod + (a % ByteMod) = a
  BY PataAssumption

\* The chunks of an address make up the address again: what read_abs_sectors
\* sends to the registers is what the drive reads from them.
LEMMA ChunksMakeAddress ==
  ASSUME NEW a \in Nat
  PROVE  LET low  == a % ByteMod
             mid  == (a \div ByteMod) % ByteMod
             high == ((a \div ByteMod) \div ByteMod) % ByteMod
             top  == ((a \div ByteMod) \div ByteMod) \div ByteMod
         IN  /\ low \in Nat /\ mid \in Nat /\ high \in Nat /\ top \in Nat
             /\ ((top * ByteMod + high) * ByteMod + mid) * ByteMod + low = a
<1> DEFINE b == a \div ByteMod
           c == b \div ByteMod
<1>1. b \in Nat /\ a % ByteMod \in Nat /\ b * ByteMod + (a % ByteMod) = a
  BY Division
<1>2. c \in Nat /\ b % ByteMod \in Nat /\ c * ByteMod + (b % ByteMod) = b
  BY <1>1, Division
<1>3. /\ c \div ByteMod \in Nat /\ c % ByteMod \in Nat
      /\ (c \div ByteMod) * ByteMod + (c % ByteMod) = c
  BY <1>2, Division
<1> HIDE DEF b, c
<1>4. (((c \div ByteMod) * ByteMod + (c % ByteMod)) * ByteMod + (b % ByteMod)) * ByteMod
         + (a % ByteMod) = a
  BY <1>1, <1>2, <1>3
<1>5. QED
  BY <1>1, <1>2, <1>3, <1>4 DEF b, c

\* Registers hold an address.
LEMMA AddressType ==
  ASSUME regs \in RegsType
  PROVE  Address \in Nat
<1>1. /\ regs.top \in Nat /\ regs.high \in Nat /\ regs.mid \in Nat
      /\ regs.low \in Nat /\ ByteMod \in Nat
  BY PataAssumption DEF RegsType
<1> DEFINE t == regs.top * ByteMod + regs.high
           m == t * ByteMod + regs.mid
<1>2. t \in Nat
  BY <1>1
<1> HIDE DEF t
<1>3. m \in Nat
  BY <1>1, <1>2
<1> HIDE DEF m
<1>4. m * ByteMod + regs.low \in Nat
  BY <1>1, <1>3
<1>5. QED
  BY <1>4 DEF Address, m, t

LEMMA RequestSent ==
  ASSUME NEW a \in Nat, NEW n \in Nat, regs' = Registers(a, n)
  PROVE  regs' \in RegsType /\ Address' = a /\ regs'.count = n
  BY ChunksMakeAddress DEF Registers, Address, RegsType

LEMMA RegistersAdvance ==
  ASSUME regs \in RegsType, regs.count > 0, regs' = NextRegs
  PROVE  /\ regs' \in RegsType /\ Address' = Address + 1
         /\ regs'.count = regs.count - 1
<1>1. Address + 1 \in Nat
  BY AddressType
<1>2. regs.count - 1 \in Nat
  BY DEF RegsType
<1> DEFINE a == Address + 1
<1> HIDE DEF a
<1>3. /\ regs' = [top |-> ((a \div ByteMod) \div ByteMod) \div ByteMod,
                  high |-> ((a \div ByteMod) \div ByteMod) % ByteMod,
                  mid |-> (a \div ByteMod) % ByteMod,
                  low |-> a % ByteMod, count |-> regs.count - 1]
      /\ a \in Nat
  BY <1>1 DEF NextRegs, a
<1>4. Address' = a /\ regs' \in RegsType
  BY <1>2, <1>3, ChunksMakeAddress DEF Address, RegsType
<1>5. QED
  BY <1>3, <1>4 DEF a

LEMMA TransferInit == Init => TransferInv
  BY DEF Init, TransferInv, BufferInv, DriveInv, ReturnInv

LEMMA TransferStep == TransferInv /\ [Next]_vars => TransferInv'
<1> SUFFICES ASSUME TransferInv, [Next]_vars
             PROVE  TransferInv'
  OBVIOUS
<1> USE DEF TransferInv, BufferInv, DriveInv, ReturnInv
<1>1. CASE DriveIdentified \/ CheckBuses \/ SkipDrive \/ Identify \/ Exists
           \/ BusyClears \/ Identified
  BY <1>1 DEF DriveIdentified, CheckBuses, SkipDrive, Identify, Exists,
              BusyClears, Identified, NextDrive, request
<1>2. CASE DriveReady
  <2>1. /\ pc = "poll" /\ status = {"BSY"}
        /\ status' = (IF Readable(Address) THEN {"DRQ"} ELSE {"ERR"})
        /\ UNCHANGED <<machine, pc, regs, lba, sector_count, left, buf, reads>>
    BY <1>2 DEF DriveReady, request, Readable
  <2>2. Address' = Address /\ \A n : Good(n)' = Good(n)
    BY <2>1 DEF Address, Good, Readable
  <2>3. Readable(Address)' = Readable(Address)
    BY <2>1, <2>2 DEF Readable
  <2>4. BufferInv'
    BY <2>1, <2>2
  <2>5. DriveInv'
    BY <2>1, <2>2, <2>3 DEF Nothing
  <2>6. QED
    BY <2>1, <2>4, <2>5
<1>3. CASE ReadSectors
  <2>1. PICK r \in Requests :
          /\ lba' = r[1] /\ sector_count' = r[2] /\ left' = r[2]
          /\ \/ /\ regs' = Registers(r[1], r[2])
                /\ status' = {"BSY"} /\ pc' = "poll"
             \/ pc' = "halt"
    BY <1>3 DEF ReadSectors
  <2>2. buf' = <<>> /\ reads' = reads + 1 /\ machine' = machine
    BY <1>3 DEF ReadSectors
  <2>3. r[1] \in Nat /\ r[2] \in Nat \ {0}
    BY PataAssumption
  <2>4. CASE pc' = "halt"
    BY <2>2, <2>4
  <2>5. CASE /\ regs' = Registers(r[1], r[2])
             /\ status' = {"BSY"} /\ pc' = "poll"
    <3>1. regs' \in RegsType /\ Address' = r[1] /\ regs'.count = r[2]
      BY <2>3, <2>5, RequestSent
    <3>2. Len(buf') = 0 /\ buf' \in Seq(Int) /\ DOMAIN buf' = {}
      BY <2>2
    <3>3. BufferInv'
      BY <2>1, <2>3, <3>2
    <3>4. DriveInv'
      <4>1. Address' = lba' + Len(buf')
        BY <2>1, <2>3, <3>1, <3>2
      <4>2. reads' > 0
        BY <2>2
      <4>3. status' # Nothing /\ status' # {"ERR"}
        BY <2>5 DEF Nothing
      <4>4. left' > 0 /\ regs'.count = left'
        BY <2>1, <2>3, <3>1
      <4>5. QED
        BY <2>5, <3>1, <4>1, <4>2, <4>3, <4>4
    <3>5. QED
      BY <2>2, <2>5, <3>3, <3>4
  <2>6. QED
    BY <2>1, <2>4, <2>5
<1>4. CASE ReadData
  <2>1. /\ pc = "poll" /\ left > 0 /\ "BSY" \notin status
        /\ left' = left - 1
        /\ UNCHANGED <<machine, pc, lba, sector_count, reads>>
    BY <1>4 DEF ReadData, LoopRuns, Polled
  <2>2. /\ lba \in Nat /\ sector_count \in Nat /\ left \in Nat
        /\ buf \in Seq(Int) /\ Len(buf) \in Nat /\ reads > 0
        /\ Len(buf) + left = sector_count
        /\ status \in {{"DRQ"}, {"ERR"}}
    BY <2>1
  <2>3. \A n : Good(n)' = Good(n)
    BY <2>1 DEF Good, Readable
  <2>a. \A k \in 1 .. Len(buf) : Good(k) => buf[k] = lba + k - 1
    BY <2>1, <2>2
  <2>4. Good(Len(buf) + 1) => Good(Len(buf)) /\ Readable(lba + Len(buf))
    BY <2>2 DEF Good
  <2>b. /\ regs \in RegsType
        /\ Good(Len(buf)) => /\ Address = lba + Len(buf)
                             /\ status = {"ERR"} => ~ Readable(Address)
        /\ status = {"DRQ"} => regs.count = left
    BY <2>1
  <2> HIDE DEF TransferInv, BufferInv, DriveInv, ReturnInv
  <2>5. CASE /\ status = {"DRQ"} /\ buf' = Append(buf, Address)
             /\ regs' = NextRegs
             /\ status' = IF regs.count > 1 THEN {"BSY"} ELSE Nothing
    <3>1. regs \in RegsType /\ regs.count = left
      BY <2>b, <2>5
    <3>2. regs' \in RegsType /\ Address' = Address + 1 /\ regs'.count = left - 1
      BY <2>1, <2>5, <3>1, RegistersAdvance
    <3>3. Address \in Nat
      BY <3>1, AddressType
    <3>4. /\ buf' \in Seq(Int) /\ Len(buf') = Len(buf) + 1
          /\ DOMAIN buf' = 1 .. Len(buf) + 1
          /\ \A k \in 1 .. Len(buf) : buf'[k] = buf[k]
          /\ buf'[Len(buf) + 1] = Address
      BY <2>2, <2>5, <3>3
    <3>5. Good(Len(buf)) => Address = lba + Len(buf)
      BY <2>b
    <3>6. ASSUME NEW k \in DOMAIN buf', Good(k)
          PROVE  buf'[k] = lba + k - 1
      <4>1. CASE k \in 1 .. Len(buf)
        BY <2>a, <3>4, <3>6, <4>1
      <4>2. CASE k = Len(buf) + 1
        BY <2>2, <2>4, <3>4, <3>5, <3>6, <4>2
      <4>3. QED
        BY <2>2, <3>4, <4>1, <4>2
    <3>7. BufferInv'
      <4>1. \A k \in DOMAIN buf' : Good(k)' => buf'[k] = lba' + k - 1
        BY <2>1, <2>3, <3>6
      <4>2. Len(buf') + left' = sector_count' /\ left' \in Nat
        BY <2>1, <2>2, <3>4
      <4>3. QED
        BY <2>1, <2>2, <3>4, <4>1, <4>2 DEF BufferInv
    <3>8. DriveInv'
      <4>1. Good(Len(buf) + 1) => Address' = lba + Len(buf) + 1
        BY <2>2, <2>4, <3>2, <3>5
      <4>2. Good(Len(buf))' => Address' = (lba + Len(buf))'
        <5>1. Good(Len(buf))' = Good(Len(buf) + 1)
          BY <2>1, <3>4 DEF Good, Readable
        <5>2. QED
          BY <2>1, <2>2, <3>4, <4>1, <5>1
      <4>3. CASE regs.count > 1
        <5>1. status' = {"BSY"} /\ left' > 0 /\ regs'.count = left'
          BY <2>1, <2>2, <2>5, <3>1, <3>2, <4>3
        <5>2. {"BSY"} # Nothing /\ {"BSY"} # {"ERR"}
          BY DEF Nothing
        <5>3. QED
          BY <2>1, <2>2, <3>2, <4>2, <5>1, <5>2 DEF DriveInv
      <4>4. CASE ~ regs.count > 1
        <5>1. status' = Nothing /\ left' = 0
          BY <2>1, <2>2, <2>5, <3>1, <3>2, <4>4
        <5>2. Nothing \notin {{"BSY"}, {"DRQ"}, {"ERR"}}
          BY DEF Nothing
        <5>3. QED
          BY <2>1, <2>2, <3>2, <4>2, <5>1, <5>2 DEF DriveInv
      <4>5. QED
        BY <4>3, <4>4
    <3>9. QED
      BY <2>1, <3>7, <3>8 DEF TransferInv, ReturnInv
  <2>6. CASE /\ status = {"ERR"} /\ buf' = Append(buf, Garbage)
             /\ UNCHANGED <<regs, status>>
    <3>1. ~ Good(Len(buf) + 1)
      BY <2>b, <2>4, <2>6
    <3>2. /\ buf' \in Seq(Int) /\ Len(buf') = Len(buf) + 1
          /\ DOMAIN buf' = 1 .. Len(buf) + 1
          /\ \A k \in 1 .. Len(buf) : buf'[k] = buf[k]
      BY <2>2, <2>6 DEF Garbage
    <3>3. \A k \in DOMAIN buf' : Good(k) => buf'[k] = lba + k - 1
      <4>1. \A k \in 1 .. Len(buf) + 1 : k \in 1 .. Len(buf) \/ k = Len(buf) + 1
        BY <2>2
      <4>2. QED
        BY <2>a, <3>1, <3>2, <4>1
    <3>4. BufferInv'
      <4>1. \A k \in DOMAIN buf' : Good(k)' => buf'[k] = lba' + k - 1
        BY <2>1, <2>3, <3>3
      <4>2. Len(buf') + left' = sector_count' /\ left' \in Nat
        BY <2>1, <2>2, <3>2, SMTT(30)
      <4>3. QED
        BY <2>1, <2>2, <3>2, <4>1, <4>2 DEF BufferInv
    <3>5. DriveInv'
      BY <2>1, <2>2, <2>3, <2>b, <2>6, <3>1, <3>2 DEF Nothing, DriveInv
    <3>6. QED
      BY <2>1, <3>4, <3>5 DEF TransferInv, ReturnInv
  <2>7. QED
    BY <1>4, <2>2, <2>5, <2>6 DEF ReadData
<1>5. CASE ReadReturn
  <2>1. /\ pc = "poll" /\ ~ left > 0 /\ pc' = "idle"
        /\ UNCHANGED <<machine, status, lba, sector_count, left, buf, reads>>
    BY <1>5 DEF ReadReturn, LoopRuns, request
  <2>2. \A n : Good(n)' = Good(n)
    BY <2>1 DEF Good, Readable
  <2>3. left = 0 /\ status \in {Nothing, {"ERR"}}
    BY <2>1
  <2>4. QED
    BY <2>1, <2>2, <2>3
<1>6. CASE Wait \/ UNCHANGED vars
  <2>1. UNCHANGED vars
    BY <1>6 DEF Wait
  <2>2. Address' = Address /\ \A n : Good(n)' = Good(n) /\ Readable(n)' = Readable(n)
    BY <2>1 DEF vars, Address, Good, Readable
  <2>3. QED
    BY <2>1, <2>2 DEF vars
<1>7. QED
  BY <1>1, <1>2, <1>3, <1>4, <1>5, <1>6 DEF Next

\* Whatever is asked for, read_abs_sectors delivers the sectors in order up to
\* the first one that cannot be read.
THEOREM SectorsAreInOrder == Spec => []SectorsInOrder
<1>1. Init => TransferInv
  BY TransferInit
<1>2. TransferInv /\ [Next]_vars => TransferInv'
  BY TransferStep
<1>3. TransferInv => SectorsInOrder
  BY DEF TransferInv, BufferInv, SectorsInOrder, Good
<1>4. QED
  BY <1>1, <1>2, <1>3, PTL DEF Spec

\* When read_abs_sectors returns, the buffer is full and the drive has nothing
\* left that the next call would get.
THEOREM TransfersAreComplete == Spec => []TransferComplete
<1>1. Init => TransferInv
  BY TransferInit
<1>2. TransferInv /\ [Next]_vars => TransferInv'
  BY TransferStep
<1>3. TransferInv => TransferComplete
  BY DEF TransferInv, BufferInv, ReturnInv, TransferComplete
<1>4. QED
  BY <1>1, <1>2, <1>3, PTL DEF Spec

=============================================================================
