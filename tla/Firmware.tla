------------------------------ MODULE Firmware ------------------------------
(***************************************************************************)
(* FoE_Write and FoE_WriteData in both modes of bootloaderappl.c: the file *)
(* system of module FileMan when bBootMode is FALSE, the firmware update   *)
(* when it is TRUE.  The two share the writing position, the format flag   *)
(* and the session of the master, and FoE_WriteData takes the update       *)
(* branch whenever no file is open: in normal mode too, for what follows   *)
(* the first packet of a format transfer.  The mode changes between        *)
(* transfers (external: the EtherCAT state machine sets bBootMode).        *)
(*                                                                         *)
(* Whether the header of an image is found is left open: it is looked for  *)
(* in aFileData, where a short packet leaves what earlier ones put there.  *)
(***************************************************************************)
EXTENDS FileMan

CONSTANT FirmwareLimit   \* MAX_FIRMWARE_ADDRESS, in units

ASSUME FirmwareAssumption == FirmwareLimit \in Nat

fileVars == <<dir, fileNum, existFlag, data, disk, acked>>

-----------------------------------------------------------------------------
\* FoE_Write in boot mode: a name without ".bin" or a wrong password is refused.
OpenFirmware ==
  /\ bBootMode /\ Ready
  /\ transfers' = transfers + 1
  /\ wr' = Fresh(NotFound)
  /\ \/ client' = [phase |-> "open", kind |-> "firmware", name |-> NoName, sent |-> <<>>]
     \/ UNCHANGED client
  /\ UNCHANGED <<fileVars, formatFlag, halted, fwVars>>

\* FoE_WriteData behind the pending format, with no file open.  An empty packet
\* gets this far in normal mode only.
UpdatePacket(size, more) ==
  /\ ~halted /\ ~formatFlag
  /\ client.phase = "open" /\ wr.index = NotFound
  /\ size = 0 => ~bBootMode /\ ~more
  /\ wr.offset + size <= FirmwareLimit

\* The master ends its session without anything having been promised.
SessionEnds == client' = Idle /\ UNCHANGED <<fileVars, formatFlag, halted, transfers>>

\* FoE_WriteData: the file buffer does not have the magic bytes.
HeaderErased(size) ==   \* mutant: the area is erased before the header is checked
  area' = <<>> /\ wr' = [wr EXCEPT !.offset = @ + size] /\ UNCHANGED <<bBootMode, image>>

HeaderBad(size) == wr' = [wr EXCEPT !.offset = @ + size] /\ UNCHANGED fwVars

HeaderRefused(size, more) ==
  /\ UpdatePacket(size, more)
  /\ wr.firstIn
  /\ HeaderBad(size)
  /\ SessionEnds

\* The area as it is when the packet is programmed: a first one erased it.
AreaBefore == IF wr.firstIn THEN <<>> ELSE area

\* A packet is programmed behind the one before it, unless the image has reached
\* the limit or programming fails.  The last one of an image makes the image.
ProgramFirmware(size, more) ==
  LET offset == wr.offset + size
  IN  /\ UpdatePacket(size, more)
      /\ wr' = [wr EXCEPT !.offset = offset, !.firstIn = FALSE]
      /\ \/ /\ offset < FirmwareLimit
            /\ area' = AreaBefore \o Packet(size)
            /\ image' = IF bBootMode /\ ~more THEN client.sent \o Packet(size) ELSE None
            /\ Accepted(size, more)
            /\ UNCHANGED <<dir, fileNum, existFlag, data, disk, formatFlag, halted, transfers>>
         \/ /\ \/ offset >= FirmwareLimit /\ area' = AreaBefore
               \/ /\ offset < FirmwareLimit /\ "writeError" \in Ops
                  /\ \E k \in 0..size : area' = AreaBefore \o SubSeq(Packet(size), 1, k)
            /\ image' = None
            /\ SessionEnds
      /\ UNCHANGED bBootMode

\* The master gives up, or ends an image with an empty packet, which is refused.
AbortFirmware ==
  /\ bBootMode /\ ~halted
  /\ client.phase = "open" /\ client.kind = "firmware" /\ "abort" \in Ops
  /\ SessionEnds
  /\ UNCHANGED <<wr, fwVars>>

\* Power fails while a packet is programmed.
PowerFailsInFirmware(size, more) ==
  /\ UpdatePacket(size, more) /\ "powerFail" \in Ops
  /\ \E k \in 0..size : area' = AreaBefore \o SubSeq(Packet(size), 1, k)
  /\ image' = None
  /\ Boot(disk)
  /\ UNCHANGED <<bBootMode, data, acked, transfers>>

SwitchMode ==
  /\ client.phase = "idle"
  /\ bBootMode' = ~bBootMode
  /\ UNCHANGED <<flashVars, ramVars, clientVars, area, image>>

-----------------------------------------------------------------------------
FwNext ==
  \/ Next
  \/ OpenFirmware
  \/ \E size \in 0..MaxPacket, more \in BOOLEAN :
       \/ HeaderRefused(size, more)
       \/ ProgramFirmware(size, more)
       \/ PowerFailsInFirmware(size, more)
  \/ AbortFirmware
  \/ SwitchMode

FwSpec == Init /\ [][FwNext]_vars

-----------------------------------------------------------------------------
\* The update area holds exactly the image the master last sent to its end, but
\* for a packet a pending format swallowed, until a packet with a good header
\* erases it: a refused or broken-off transfer, a restart and whatever files are
\* written, deleted and formatted leave it whole, and a transfer that fails or is
\* cut off never passes for an image.
FirmwareWhole == image # None => area = image /\ Len(area) < FirmwareLimit
=============================================================================
