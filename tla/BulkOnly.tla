------------------------------- MODULE BulkOnly -------------------------------
(***************************************************************************)
(* Threads move blocks with the bulk-only transport: command, data, status *)
(* and the recovery from what goes wrong (mass_stor_readSector4096,        *)
(* mass_stor_writeSector4096 and the usb_bulk_* functions they call).      *)
(* There is no lock: the threads share the endpoints and the variables     *)
(* returnCode and returnSize, in which usb_callback leaves what came of a  *)
(* transfer.                                                               *)
(*                                                                         *)
(* The device is external: it takes a command, moves the data or refuses,  *)
(* and has a status packet ready.  What comes on the bulk-out endpoint is  *)
(* a command or data to it as its stage says, whoever sent it.  A transfer *)
(* that the device does not answer (it waits for something else) does not  *)
(* complete; one that waits when the device is unplugged completes with an *)
(* error, one that is submitted afterwards is refused.                     *)
(***************************************************************************)
EXTENDS Integers

CONSTANTS Thread,
          BlockSize,      \* 4096 bytes, in units of one short packet
          Verdicts        \* what status packets can say

ASSUME TransportAssumption ==
  /\ BlockSize \in Nat \ {0, 1}
  /\ Verdicts \subseteq {"passed", "failed", "phaseError"}

VARIABLES
  present,      \* the device is plugged, the endpoints are open
  phase,        \* its stage: "command", data "in" or data "out", or "status"
  serving,      \* the thread whose command it took last
  halted,       \* its stalled endpoints
  verdict,      \* what its status packet says
  moved,        \* it has moved the whole block of the operation it serves
  faulty,       \* history: it stalled or cut a data stage short, was changed for
                \* another during an operation, or reset while it served a thread
  clashed,      \* history: it took the command of one thread for data of another
  returned,     \* returnCode and returnSize, and the thread they are about
  kind,         \* the operation of each thread: "read" or "write"
  pc,
  ended,        \* the threads whose transfer was ended by an unplug
  left,         \* transferSize, what usb_bulk_transfer has still to move
  passed        \* history: the status packet of the last command said so

devVars  == <<present, phase, serving, halted, verdict, moved, faulty, clashed>>
hostVars == <<returned, kind, pc, ended, left, passed>>
vars     == <<devVars, hostVars>>

HostPC == {"idle", "command", "data", "moved", "status1", "clearHalt", "status2",
           "reset", "clearIn", "clearOut"}

(* A transfer is submitted, or waited for.                                 *)
Waiting == HostPC \ {"idle", "moved"}

TypeOK ==
  /\ present \in BOOLEAN
  /\ phase \in {"command", "in", "out", "status"}
  /\ serving \in Thread
  /\ halted \subseteq {"in", "out"}
  /\ verdict \in {"passed", "failed", "phaseError"}
  /\ moved \in BOOLEAN
  /\ faulty \in BOOLEAN /\ clashed \in BOOLEAN
  /\ returned \in [of : Thread, error : BOOLEAN, size : 0 .. BlockSize]
  /\ kind \in [Thread -> {"read", "write"}]
  /\ pc \in [Thread -> HostPC]
  /\ ended \subseteq Thread
  /\ left \in [Thread -> 0 .. BlockSize]
  /\ passed \in BOOLEAN

(* The bulk endpoint of the data stage.                                    *)
DataPipe(t) == IF kind[t] = "read" THEN "in" ELSE "out"

Goto(t, at) == pc' = [pc EXCEPT ![t] = at] /\ ended' = ended \ {t}

(* usb_callback                                                            *)
Callback(t, error, size) == returned' = [of |-> t, error |-> error, size |-> size]

(* The transfer of t is one of the device that is there; it was ended by   *)
(* an unplug; it cannot be submitted.                                      *)
Reaches(t) == present /\ t \notin ended
Ended(t)   == t \in ended
Refused(t) == ~ present /\ t \notin ended

(* It is submitted and ends with an error.                                 *)
Fails(t, pipe) == Ended(t) \/ (Reaches(t) /\ pipe \in halted)
-----------------------------------------------------------------------------
(* The operation starts: mass_stor_readSector4096 or _writeSector4096.     *)
BeginWith(t, size) ==
  /\ pc[t] = "idle"
  /\ \E k \in {"read", "write"} : kind' = [kind EXCEPT ![t] = k]
  /\ left' = [left EXCEPT ![t] = size]
  /\ Goto(t, "command")
  /\ UNCHANGED <<devVars, returned, passed>>

(* Mutant: the transfer asks for one unit too few.                         *)
BeginTooShort(t) == BeginWith(t, BlockSize - 1)

Begin(t) == BeginWith(t, BlockSize)

(* usb_bulk_command: whatever happens to the transfer, the stage named     *)
(* next follows.  A device that moves data in or has a status packet keeps *)
(* it waiting.                                                             *)
Command(t, next) ==
  /\ pc[t] = "command"
  /\ Goto(t, next)
  /\ \/ /\ Reaches(t) /\ "out" \notin halted /\ phase = "command"
        /\ phase' = DataPipe(t) /\ serving' = t /\ moved' = FALSE
        /\ verdict' \in Verdicts /\ passed' = FALSE
        /\ Callback(t, FALSE, 1)
        /\ UNCHANGED clashed
     \/ /\ Reaches(t) /\ "out" \notin halted /\ phase = "out"
        /\ phase' = "status" /\ verdict' = "failed"
        /\ clashed' = TRUE
        /\ Callback(t, FALSE, 1)
        /\ UNCHANGED <<serving, moved, passed>>
     \/ /\ Fails(t, "out")
        /\ Callback(t, TRUE, 0)
        /\ UNCHANGED <<phase, serving, moved, verdict, clashed, passed>>
     \/ /\ Refused(t)
        /\ UNCHANGED <<phase, serving, moved, verdict, clashed, passed, returned>>
  /\ UNCHANGED <<present, halted, faulty, kind, left>>

(* Mutant: the status is asked for right after the command of a write.     *)
SendCommandNoData(t) == Command(t, IF kind[t] = "write" THEN "status1" ELSE "data")

SendCommand(t) == Command(t, "data")

(* Its data stage, with the device in it.                                  *)
Moving(t) == pc[t] = "data" /\ Reaches(t) /\ DataPipe(t) \notin halted /\ phase = DataPipe(t)

(* Mutant: the status packet is read before the thread looks at what came  *)
(* of the data.                                                            *)
MoveAllAndStatus(t) ==
  /\ Moving(t)
  /\ phase' = "command"
  /\ moved' = (left[t] = BlockSize /\ verdict = "passed")
  /\ Callback(t, FALSE, left[t])
  /\ Goto(t, "moved")
  /\ UNCHANGED <<present, serving, halted, verdict, faulty, clashed, kind, left, passed>>

(* usb_bulk_transfer: the device moves all that is left.                   *)
MoveAll(t) ==
  /\ Moving(t)
  /\ phase' = "status"
  /\ moved' = (left[t] = BlockSize /\ verdict = "passed")
  /\ Callback(t, FALSE, left[t])
  /\ Goto(t, "moved")
  /\ UNCHANGED <<present, serving, halted, verdict, faulty, clashed, kind, left, passed>>

(* A short packet ends the data stage for the device; the loop asks for    *)
(* the rest.                                                               *)
MoveShort(t) ==
  /\ Moving(t) /\ kind[t] = "read"
  /\ phase' = "status"
  /\ faulty' = TRUE
  /\ Callback(t, FALSE, 1)
  /\ Goto(t, "moved")
  /\ UNCHANGED <<present, serving, halted, verdict, moved, clashed, kind, left, passed>>

(* The rest that usb_bulk_transfer asks for is the status packet.          *)
StatusTakenForData(t) ==
  /\ pc[t] = "data" /\ Reaches(t) /\ kind[t] = "read" /\ "in" \notin halted
  /\ phase = "status" /\ phase' = "command"
  /\ Callback(t, FALSE, 1)
  /\ Goto(t, "moved")
  /\ UNCHANGED <<present, serving, halted, verdict, moved, faulty, clashed, kind, left, passed>>

(* The data of a write come where the device expects a command, and are    *)
(* none: it stalls both pipes.                                             *)
DataTakenForCommand(t) ==
  /\ pc[t] = "data" /\ Reaches(t) /\ kind[t] = "write" /\ "out" \notin halted
  /\ phase = "command"
  /\ halted' = {"in", "out"}
  /\ Callback(t, TRUE, 0)
  /\ Goto(t, "moved")
  /\ UNCHANGED <<present, phase, serving, verdict, moved, faulty, clashed, kind, left, passed>>

(* The device refuses: the pipe stalls.                                    *)
Stall(t) ==
  /\ Moving(t)
  /\ halted' = halted \union {DataPipe(t)}
  /\ phase' = "status" /\ verdict' = "failed"
  /\ faulty' = TRUE
  /\ Callback(t, TRUE, 0)
  /\ Goto(t, "moved")
  /\ UNCHANGED <<present, serving, moved, clashed, kind, left, passed>>

(* The pipe is stalled already, or the device was unplugged meanwhile.     *)
DataError(t) ==
  /\ pc[t] = "data"
  /\ Fails(t, DataPipe(t))
  /\ Callback(t, TRUE, 0)
  /\ Goto(t, "moved")
  /\ UNCHANGED <<devVars, kind, left, passed>>

(* The data cannot be submitted.  The -1 that is left in returnCode ends   *)
(* this loop, but is no error to another thread that finds it.             *)
DataRefused(t) ==
  /\ pc[t] = "data" /\ Refused(t)
  /\ returned' = [returned EXCEPT !.of = t, !.error = FALSE]
  /\ Goto(t, "status1") /\ left' = [left EXCEPT ![t] = 0]
  /\ UNCHANGED <<devVars, kind, passed>>

(* Mutant: the operation ends without reading the status packet.           *)
TransferDoneNoStatus(t) ==
  /\ pc[t] = "moved"
  /\ Goto(t, "idle")
  /\ UNCHANGED <<devVars, returned, kind, left, passed>>

(* The thread runs again and looks at what the callback that came last has *)
(* left: returnCode > 0 ends the loop, as does the end of the block.       *)
TransferDone(t) ==
  /\ pc[t] = "moved"
  /\ \/ /\ returned.error
        /\ Goto(t, "status1") /\ left' = [left EXCEPT ![t] = 0]
     \/ /\ ~ returned.error
        /\ left' = [left EXCEPT ![t] = IF @ > returned.size THEN @ - returned.size ELSE 0]
        /\ Goto(t, IF left'[t] = 0 THEN "status1" ELSE "data")
  /\ UNCHANGED <<devVars, returned, kind, passed>>

(* usb_bulk_manage_status returns 0 whatever it saw, so the loops of       *)
(* mass_stor_readSector4096 and _writeSector4096 end and return 4096.      *)
Return(t) == Goto(t, "idle") /\ kind' = [kind EXCEPT ![t] = "read"]

(* usb_bulk_status with the device answering.  The packet ends the         *)
(* operation, also if it says that the command failed; only a phase error  *)
(* calls for reset recovery.                                               *)
StatusRead(t) ==
  /\ pc[t] \in {"status1", "status2"} /\ Reaches(t) /\ "in" \notin halted
  /\ phase = "status" /\ phase' = "command"
  /\ Callback(t, FALSE, 1)
  /\ passed' = (verdict = "passed")
  /\ \/ verdict # "phaseError" /\ Return(t)
     \/ verdict = "phaseError" /\ Goto(t, "reset") /\ UNCHANGED kind
  /\ UNCHANGED <<present, serving, halted, verdict, moved, faulty, clashed, left>>

(* The status transfer stalls, or is ended.  usb_bulk_status returns what  *)
(* submitting it returned, not what its callback was told, and the packet  *)
(* it had filled in beforehand is a valid one.                             *)
StatusStalled(t) ==
  /\ pc[t] \in {"status1", "status2"}
  /\ Fails(t, "in")
  /\ Callback(t, TRUE, 0)
  /\ Return(t)
  /\ UNCHANGED <<devVars, left, passed>>

(* Mutant: the status is asked for until it comes.                         *)
StatusRefusedRetry(t) ==
  /\ pc[t] \in {"status1", "status2"} /\ Refused(t)
  /\ Goto(t, "clearHalt")
  /\ UNCHANGED <<devVars, returned, kind, left, passed>>

(* The endpoint is closed: the transfer cannot be submitted.               *)
StatusRefused(t) ==
  /\ pc[t] \in {"status1", "status2"} /\ Refused(t)
  /\ Goto(t, IF pc[t] = "status1" THEN "clearHalt" ELSE "reset")
  /\ UNCHANGED <<devVars, returned, kind, left, passed>>

(* A control transfer of thread t leaves its result in returnCode and      *)
(* returnSize as well, where an operation of another thread finds it.      *)
ControlDone(t) ==
  /\ Callback(t, FALSE, 0)
  /\ faulty' = (faulty \/ \E u \in Thread \ {t} : pc[u] \notin {"idle", "command"})

ControlEnded(t) == Ended(t) /\ Callback(t, TRUE, 0) /\ UNCHANGED faulty

(* usb_bulk_clear_halt: nobody looks at what comes of it.                  *)
HaltCleared(t, pipe) ==
  \/ /\ Reaches(t)
     /\ halted' = halted \ {pipe}
     /\ ControlDone(t)
  \/ ControlEnded(t) /\ UNCHANGED halted
  \/ Refused(t) /\ UNCHANGED <<halted, faulty, returned>>

(* It is called for the bulk-in endpoint before the second attempt.        *)
ClearHalt(t) ==
  /\ pc[t] = "clearHalt"
  /\ HaltCleared(t, "in")
  /\ Goto(t, "status2")
  /\ UNCHANGED <<present, phase, serving, verdict, moved, clashed, kind, left, passed>>

(* usb_bulk_reset: it gives up if the request cannot be sent.  An          *)
(* operation of another thread that the device was in is lost.             *)
Reset(t) ==
  /\ pc[t] = "reset"
  /\ \/ /\ Reaches(t)
        /\ phase' = "command"
        /\ ControlDone(t)
        /\ Goto(t, "clearIn") /\ UNCHANGED kind
     \/ ControlEnded(t) /\ Goto(t, "clearIn") /\ UNCHANGED <<phase, kind>>
     \/ Refused(t) /\ Return(t) /\ UNCHANGED <<phase, faulty, returned>>
  /\ UNCHANGED <<present, serving, halted, verdict, moved, clashed, left, passed>>

(* Its clear halt requests for both bulk endpoints.                        *)
ClearEndpoint(t) ==
  /\ \/ pc[t] = "clearIn" /\ HaltCleared(t, "in") /\ Goto(t, "clearOut") /\ UNCHANGED kind
     \/ pc[t] = "clearOut" /\ HaltCleared(t, "out") /\ Return(t)
  /\ UNCHANGED <<present, phase, serving, verdict, moved, clashed, left, passed>>

(* The device leaves, possibly in the middle of operations: usbd ends the  *)
(* transfers that were submitted.                                          *)
Unplug ==
  /\ present
  /\ present' = FALSE
  /\ \E waiting \in SUBSET {t \in Thread : pc[t] \in Waiting} :
       ended' = ended \union waiting
  /\ UNCHANGED <<phase, serving, halted, verdict, moved, faulty, clashed>>
  /\ UNCHANGED <<returned, kind, pc, left, passed>>

(* Another one comes, possibly before the operations with the last one are *)
(* over; they go on with it.                                               *)
Plug ==
  /\ ~ present
  /\ present' = TRUE
  /\ phase' = "command" /\ halted' = {}
  /\ faulty' = (\E t \in Thread : pc[t] # "idle")
  /\ clashed' = FALSE
  /\ verdict' = "passed" /\ moved' = FALSE /\ passed' = FALSE
  /\ UNCHANGED <<serving, returned, kind, pc, ended, left>>

Transfer(t) ==
  \/ SendCommand(t) \/ MoveAll(t) \/ MoveShort(t) \/ StatusTakenForData(t)
  \/ DataTakenForCommand(t) \/ Stall(t) \/ DataError(t) \/ DataRefused(t)
  \/ TransferDone(t) \/ StatusRead(t) \/ StatusStalled(t) \/ StatusRefused(t)
  \/ ClearHalt(t) \/ Reset(t) \/ ClearEndpoint(t)

Next == (\E t \in Thread : Begin(t) \/ Transfer(t)) \/ Unplug \/ Plug

Init ==
  /\ present = TRUE /\ phase = "command" /\ serving \in Thread /\ halted = {}
  /\ verdict = "passed" /\ moved = FALSE /\ faulty = FALSE /\ clashed = FALSE
  /\ \E t \in Thread : returned = [of |-> t, error |-> FALSE, size |-> 0]
  /\ kind = [t \in Thread |-> "read"] /\ pc = [t \in Thread |-> "idle"]
  /\ ended = {}
  /\ left = [t \in Thread |-> 0] /\ passed = FALSE

(* A transfer that the device answers completes and the thread goes on.    *)
(* The transfers that wait at an endpoint are served in their order: a     *)
(* command is not passed by the others for ever.                           *)
Spec ==
  /\ Init /\ [][Next]_vars
  /\ \A t \in Thread : WF_vars(Transfer(t)) /\ SF_vars(SendCommand(t))
-----------------------------------------------------------------------------
(* Nothing went wrong with the device, and it took no command for data.    *)
Undisturbed == ~ faulty /\ ~ clashed

(* "device is ready to process next CBW" (mass_stor.c:474): when all       *)
(* operations have ended the device waits for a command and nothing is     *)
(* stalled, also after failed commands and phase errors.  The recovery     *)
(* from stalls and short data stages does not come that far, and it does   *)
(* not recover at all after a command that was taken for data.             *)
ReadyForNextCBW ==
  (\A t \in Thread : pc[t] = "idle") /\ present /\ Undisturbed
    => phase = "command" /\ halted = {}

(* "reads esctor group - up to 4096 bytes" (mass_stor.c:675): an operation *)
(* returns 4096 whatever happened (see Return).  If the device said that   *)
(* it passed the block has moved - until the next command is taken.        *)
PassedIsMoved == Undisturbed /\ passed => moved

(* Every operation of every thread ends, unless the device stalls, cuts a  *)
(* data stage short or is changed for another in the middle, one thread    *)
(* recovers while it serves another, or a command is taken for data.       *)
OperationsEnd == \A t \in Thread : pc[t] # "idle" ~> pc[t] = "idle" \/ ~ Undisturbed

(* A thread that waits on a device that does not answer any more gets its  *)
(* operation to an end when the device is unplugged, unless it goes on     *)
(* with another one that is plugged in the meantime.                       *)
UnplugFrees == \A t \in Thread : pc[t] # "idle" /\ ~ present ~> pc[t] = "idle" \/ present

(* A thread asks the device only for what the device expects, and the data *)
(* and the status it gets are those of its own command: the threads share  *)
(* the endpoints without a lock, but the device takes no command before    *)
(* the status of the one before was read.  Reads and writes of any threads *)
(* overlap; only a command that arrives between the command and the data   *)
(* of a write is taken for that data (clashed).                            *)
InStep ==
  present /\ Undisturbed => \A t \in Thread :
    /\ pc[t] = "data" => phase = DataPipe(t) /\ serving = t
    /\ pc[t] \in {"status1", "status2"} => phase = "status" /\ serving = t

(* A thread that goes on after a transfer finds in returnCode and          *)
(* returnSize what came of this transfer, although the callbacks of all    *)
(* transfers write there.                                                  *)
OwnResult ==
  present /\ Undisturbed => \A t \in Thread : pc[t] = "moved" => returned.of = t
=============================================================================
