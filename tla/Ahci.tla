-------------------------------- MODULE Ahci --------------------------------
(***************************************************************************)
(* The SATA disk driver (drivers/block/sata.rs) under the byte transfers   *)
(* that every block device offers (drivers/traits.rs), against an AHCI     *)
(* port that takes its time, fails, or answers after the driver gave up.   *)
(*                                                                         *)
(* The driver has one command table, one command header (slot 0) and one   *)
(* buffer for DMA.  It fills them first, waits for the port second.  The   *)
(* port reads the table when it fetches a command and moves the data when  *)
(* it completes it, so a command the driver no longer waits for shares     *)
(* table and buffer with the next one.                                     *)
(*                                                                         *)
(* A sector has SECTOR units of data.  Registers are written and read one  *)
(* step at a time where the port can act in between.                       *)
(***************************************************************************)
EXTENDS Integers, Sequences, FiniteSetsExt

CONSTANTS
  SECTOR,
  Identity,               \* what IDENTIFY may report: the sector counts s28 and s48
  LBA24,                  \* sectors that three bytes of address reach (2^24)
  Slot,                   \* command slots, from 0 on
  Mbr,                    \* the four entries of sector 0: [type, start, count]
  Extent,                  \* what callers ask for: <<offset, length>> in units
  Value,
  AHCI_TIMEOUT,           \* polls before the driver gives up (1 000 000)
  MaxLate,                \* bound: calls that give up waiting
  NoCall, NoCommand

ASSUME AhciAssumption ==
  /\ SECTOR \in Nat \ {0} /\ AHCI_TIMEOUT \in Nat \ {0} /\ LBA24 \in Nat \ {0}
  /\ 0 \in Slot /\ Slot \subseteq Nat

VARIABLES
  drive,     \* what this one reports
  initialized,
  call,      \* the transfer in progress; the state's mutex lets in one at a time
  table,     \* the command that table and slot-0 header describe
  dma,       \* the DMA buffer
  store,     \* the sectors
  ci,        \* PxCI: slots issued and not completed
  active,    \* the command the port is executing (BSY)
  running,   \* PxCMD.ST
  halted,    \* stopped by an error until restarted
  tfes,      \* PxIS: task file error
  result,    \* of the last call
  late,      \* calls that gave up waiting, so far
  hist       \* of the last call: what was asked and read, the sectors before it,
             \* whether an older command could still run and where it would write

port == <<table, ci, active, running, halted, tfes>>
vars == <<drive, initialized, call, table, dma, store, ci, active, running, halted, tfes,
          result, late, hist>>

lba48 == drive.s48 # 0
sector_count == IF lba48 THEN drive.s48 ELSE drive.s28
Unit    == 1 .. SECTOR
Blank   == [i \in Unit |-> 0]
Drive   == [start |-> 0, count |-> sector_count]

\* The entries in use.  Neither overlap nor the end of the drive is looked at.
parse_mbr_partitions ==
  LET used == SelectSeq(Mbr, LAMBDA e : e.type # 0 /\ e.start # 0 /\ e.count # 0)
  IN  {[start |-> used[i].start, count |-> used[i].count] : i \in DOMAIN used}

Device == {Drive} \cup parse_mbr_partitions

-----------------------------------------------------------------------------
(* The port.                                                                 *)

\* A slot other than 0 has an empty header: what the port does for it is not
\* known, and is taken to be nothing or an error.
Fetch ==
  /\ running /\ ~halted /\ active = NoCommand /\ ci # {}
  /\ LET slot == Min(ci)
     IN  active' = [slot |-> slot,
                    cmd |-> IF slot = 0 THEN table ELSE [kind |-> "unknown", lba |-> 0]]
  /\ UNCHANGED <<drive, initialized, call, table, dma, store, ci, running, halted, tfes, result,
                 late, hist>>

Complete ==
  /\ active # NoCommand
  /\ LET cmd == active.cmd
     IN  /\ store' = IF cmd.kind = "write" THEN [store EXCEPT ![cmd.lba] = dma] ELSE store
         /\ dma' = CASE cmd.kind = "read"     -> store[cmd.lba]
                     [] cmd.kind = "identify" -> Blank
                     [] OTHER                 -> dma
  /\ ci' = ci \ {active.slot}
  /\ active' = NoCommand
  /\ UNCHANGED <<drive, initialized, call, table, running, halted, tfes, result, late, hist>>

\* An error stops the port; the command stays issued.
PortError ==
  /\ active # NoCommand
  /\ active' = NoCommand /\ halted' = TRUE /\ tfes' = TRUE
  /\ UNCHANGED <<drive, initialized, call, table, dma, store, ci, running, result, late, hist>>

Port == Fetch \/ Complete \/ PortError

-----------------------------------------------------------------------------
(* Byte transfers in terms of sectors.                                       *)

Sector  == call.at \div SECTOR
Within  == call.at % SECTOR
Chunk   == Min({call.len, SECTOR - Within})
Patched == [i \in Unit |-> IF i \in (Within + 1) .. (Within + Chunk) THEN call.value ELSE call.sector[i]]
Piece   == [i \in 1 .. Chunk |-> dma[Within + i]]

\* sector_count() of a drive that cannot be initialized is 0.
Return(r) ==
  /\ call' = NoCall
  /\ result' = IF ~initialized /\ call.dev = Drive THEN "invalid" ELSE r
  /\ late' = IF r = "busy" THEN late + 1 ELSE late
  /\ hist' = [hist EXCEPT !.got = call.data]

Stay == UNCHANGED <<result, late, hist>>

\* A sector that is written only in part is read first.
Reads == ~call.write \/ Chunk # SECTOR

InWindow == Sector < call.dev.count

\* The sectors that commands the driver gave up on may still write.
Pending ==
  LET old == (IF active = NoCommand THEN {} ELSE {active.cmd}) \cup (IF 0 \in ci THEN {table} ELSE {})
  IN  {c.lba : c \in {c \in old : c.kind = "write"}}

\* read_bytes and write_bytes.
Call(dev, write, at, len, value) ==
  /\ call = NoCall /\ late < MaxLate
  /\ call' = [dev |-> dev, write |-> write, at |-> at, len |-> len, value |-> value,
              data |-> <<>>, sector |-> Blank, stage |-> "sector", for |-> "none",
              left |-> 0, slot |-> 0]
  /\ result' = "none"
  /\ hist' = [dev |-> dev, write |-> write, at |-> at, len |-> len, value |-> value, got |-> <<>>,
              before |-> store, shared |-> ci # {} /\ ~halted, pending |-> Pending]
  /\ UNCHANGED <<drive, initialized, port, dma, store, late>>

\* The initialization begins with the search for a port that has a disk in
\* working order, and fails where there is none.
SelectPort ==
  \/ call' = [call EXCEPT !.stage = "stop"] /\ Stay
  \/ Return("notfound")

\* The loop over the sectors, with the check against the window of a partition,
\* the initialization and the check against the drive (transfer_one_sector).
NextSector ==
  /\ call # NoCall /\ call.stage = "sector"
  /\ IF call.len = 0 THEN Return("ok")
     ELSE IF call.dev # Drive /\ ~InWindow THEN Return("invalid")
     ELSE IF ~initialized THEN SelectPort
     ELSE IF ~InWindow \/ call.dev.start + Sector >= sector_count THEN Return("invalid")
     ELSE /\ call' = [call EXCEPT !.stage = "build", !.for = IF Reads THEN "read" ELSE "write"]
          /\ Stay
  /\ UNCHANGED <<drive, initialized, port, dma, store>>

-----------------------------------------------------------------------------
(* ensure_initialized: stop the port, start it, IDENTIFY.                    *)

StopPort ==
  /\ call # NoCall /\ call.stage = "stop"
  /\ running' = FALSE
  /\ \/ /\ halted' = FALSE /\ ci' = {} /\ active' = NoCommand
        /\ call' = [call EXCEPT !.stage = "restart"]
        /\ Stay
     \/ /\ active # NoCommand     \* the command engine does not come to rest
        /\ Return("busy")
        /\ UNCHANGED <<halted, ci, active>>
  /\ UNCHANGED <<drive, initialized, table, dma, store, tfes>>

StartPort ==
  /\ call # NoCall /\ call.stage = "restart"
  /\ running' = TRUE /\ tfes' = FALSE
  /\ call' = [call EXCEPT !.stage = "build", !.for = "identify"]
  /\ Stay
  /\ UNCHANGED <<drive, initialized, table, dma, store, ci, active, halted>>

-----------------------------------------------------------------------------
(* transfer_one_sector and ahci_rw.                                          *)

\* Bits 24 to 27 of the address of a 28-bit command belong in the device byte,
\* which is constant; they are put where only a 48-bit command has more bits.
Address(lba) == IF lba48 THEN lba ELSE lba % LBA24

\* The buffer and the table are filled before the port is looked at.
Build ==
  /\ call # NoCall /\ call.stage = "build"
  /\ dma' = IF call.for = "write" THEN Patched ELSE dma
  /\ table' = [kind |-> call.for,
               lba |-> IF call.for = "identify" THEN 0 ELSE Address(call.dev.start + Sector)]
  /\ call' = [call EXCEPT !.stage = "ready", !.left = AHCI_TIMEOUT]
  /\ Stay
  /\ UNCHANGED <<drive, initialized, store, ci, active, running, halted, tfes>>

\* Mutant of Poll: the loop does not count.
PollForever(stage) == call' = [call EXCEPT !.stage = stage] /\ Stay

\* One more turn of a polling loop, or the end of the driver's patience.
Poll(stage) ==
  IF call.left > 1 THEN call' = [call EXCEPT !.stage = stage, !.left = @ - 1] /\ Stay
  ELSE Return("busy")

wait_port_ready ==
  /\ call # NoCall /\ call.stage = "ready"
  /\ IF active = NoCommand THEN call' = [call EXCEPT !.stage = "issue"] /\ Stay ELSE Poll("ready")
  /\ UNCHANGED <<drive, initialized, port, dma, store>>

find_free_slot == IF Slot \ ci = {} THEN {} ELSE {Min(Slot \ ci)}

\* The error bits are cleared, and the first slot that is not issued is.
Issue ==
  /\ call # NoCall /\ call.stage = "issue"
  /\ tfes' = FALSE
  /\ ci' = ci \cup find_free_slot
  /\ IF find_free_slot = {} THEN Return("busy")
     ELSE /\ call' = [call EXCEPT !.stage = "wait", !.left = AHCI_TIMEOUT,
                                  !.slot = CHOOSE s \in find_free_slot : TRUE]
          /\ Stay
  /\ UNCHANGED <<drive, initialized, table, dma, store, active, running, halted>>

\* Mutant of Completed: an error ends the wait like a completion.
CompletedOrFailed == call.slot \notin ci \/ tfes

Completed == call.slot \notin ci /\ ~tfes

Wait ==
  /\ call # NoCall /\ call.stage = "wait"
  /\ IF Completed THEN call' = [call EXCEPT !.stage = "done"] /\ Stay
     ELSE IF tfes THEN Return("io")
     ELSE Poll("wait")
  /\ UNCHANGED <<drive, initialized, port, dma, store>>

\* The command is done: take the data, and go on to the next one.
Done ==
  /\ call # NoCall /\ call.stage = "done"
  /\ CASE call.for = "identify" ->
            IF sector_count = 0 THEN Return("notready") /\ UNCHANGED initialized
            ELSE /\ initialized' = TRUE
                 /\ call' = [call EXCEPT !.stage = "sector"] /\ Stay
       [] call.for = "read" /\ call.write ->
            /\ call' = [call EXCEPT !.stage = "build", !.for = "write", !.sector = dma]
            /\ Stay /\ UNCHANGED initialized
       [] OTHER ->
            /\ call' = [call EXCEPT !.stage = "sector", !.at = @ + Chunk, !.len = @ - Chunk,
                                    !.data = IF call.write THEN <<>> ELSE @ \o Piece]
            /\ Stay /\ UNCHANGED initialized
  /\ UNCHANGED <<drive, port, dma, store>>

Driver == NextSector \/ StopPort \/ StartPort \/ Build \/ wait_port_ready \/ Issue \/ Wait \/ Done

-----------------------------------------------------------------------------
Init ==
  /\ drive \in Identity
  /\ initialized = FALSE /\ call = NoCall
  /\ table = [kind |-> "unknown", lba |-> 0] /\ dma = Blank
  /\ store = [s \in 0 .. sector_count - 1 |-> [i \in Unit |-> s + 1]]
  /\ ci = {} /\ active = NoCommand
  /\ running = FALSE /\ halted = FALSE /\ tfes = FALSE
  /\ result = "none" /\ late = 0
  /\ hist = [dev |-> Drive, write |-> FALSE, at |-> 0, len |-> 0, value |-> 0, got |-> <<>>,
             before |-> store, shared |-> FALSE, pending |-> {}]

Transfer ==
  \E dev \in Device, write \in BOOLEAN, r \in Extent, value \in Value :
    Call(dev, write, r[1], r[2], value)

Next == Transfer \/ Driver \/ Port

\* A call runs in the caller's context: it goes on for as long as it can.  The
\* port is under no obligation.
Spec == Init /\ [][Next]_vars /\ WF_vars(Driver)

-----------------------------------------------------------------------------
At(disk, u) == disk[u \div SECTOR][(u % SECTOR) + 1]
First == SECTOR * hist.dev.start + hist.at
Asked == First .. First + hist.len - 1
Window == SECTOR * hist.dev.start .. SECTOR * (hist.dev.start + hist.dev.count) - 1

\* A write has left its data in every unit, a read returns what the disk held.
AsAsked ==
  IF hist.write THEN \A u \in Asked : At(store, u) = hist.value
  ELSE hist.got = [i \in 1 .. hist.len |-> At(hist.before, First + i - 1)]

\* No unit changes but those asked for, and none outside the partition.
NeighboursKept ==
  \A u \in 0 .. SECTOR * sector_count - 1 :
    At(store, u) # At(hist.before, u) => hist.write /\ u \in Asked \cap Window

\* No sector changes but those of this write and of writes the driver gave up on.
SectorsKept ==
  \A s \in DOMAIN store :
    store[s] # hist.before[s] =>
      s \in hist.pending \/ (hist.write /\ \E u \in Asked \cap Window : u \div SECTOR = s)

\* The sectors asked for have addresses that the commands can express.
Addressed == lba48 \/ \A u \in Asked \cap Window : u \div SECTOR < LBA24

\* A transfer that reports success did what was asked, across sectors written
\* whole or in part; and whatever it reports, at no moment has it changed more:
\* the rest of a sector that is written in part survives, and so do the
\* neighbouring partitions.  When an earlier command, on which the driver gave
\* up, can still run, table and buffer are shared with it: the outcome is open,
\* but still no sector changes beyond those the two are about.  All of this is
\* said of sectors whose address fits the command (build_command_fis).
OutcomeTrue ==
  Addressed =>
    IF hist.shared THEN SectorsKept
    ELSE NeighboursKept /\ (call = NoCall /\ result = "ok" => AsAsked)

\* Every transfer returns, whatever the port does or fails to do: each wait of
\* the driver is bounded, on the retry of a failed initialization as well.
CallReturns == (call # NoCall) ~> (call = NoCall)
=============================================================================
