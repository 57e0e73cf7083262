---------------------------- MODULE BulkOnlyProofs ----------------------------
(***************************************************************************)
(* Proofs about BulkOnly, for any number of threads and packets: threads   *)
(* that use the transport without a lock stay in step with the device and  *)
(* find their own results, and a command that passed has moved its block,  *)
(* until the device fails or takes a command for the data of a write.      *)
(***************************************************************************)
EXTENDS BulkOnly, TLAPS

Clean == present /\ Undisturbed

(* Every stage of a thread is one of the device, and the other way round:  *)
(* the thread it serves is in the stage that the device is in, the only    *)
(* one behind its command.                                                 *)
Turn(t) ==
  /\ pc[t] \notin {"clearHalt", "status2"}
  /\ pc[t] = "data" => phase = DataPipe(t) /\ serving = t /\ left[t] = BlockSize
  /\ pc[t] = "moved" => /\ phase = "status" /\ serving = t
                        /\ returned = [of |-> t, error |-> FALSE, size |-> left[t]]
  /\ pc[t] = "status1" => phase = "status" /\ serving = t

InTurn == \A t \in Thread : Turn(t)

Engaged ==
  /\ halted = {}
  /\ phase \in {"in", "out"} => pc[serving] = "data"
  /\ phase = "status" => pc[serving] \in {"moved", "status1"}
  /\ phase = "status" /\ verdict = "passed" => moved
  /\ phase # "command" => ~ passed

(* Only transfers that were waited for are ended, and a command asks for a *)
(* whole block.                                                            *)
EndedWaited == \A t \in ended : pc[t] \in Waiting

WholeBlocks == \A t \in Thread : pc[t] = "command" => left[t] = BlockSize

IndInv ==
  /\ TypeOK
  /\ EndedWaited /\ WholeBlocks
  /\ Clean => ended = {} /\ InTurn /\ Engaged
  /\ PassedIsMoved
-----------------------------------------------------------------------------
(* What a callback reports of a packet, or of an error.                    *)
Outcome == [of : Thread, error : BOOLEAN, size : 0 .. BlockSize]

LEMMA CallbackTyped ==
  \A t \in Thread, error \in BOOLEAN, size \in {0, 1} :
    Callback(t, error, size) => returned' \in Outcome
  BY TransportAssumption DEF Callback, Outcome

LEMMA InitInv == Init => IndInv
  <1> SUFFICES ASSUME Init PROVE IndInv
    OBVIOUS
  <1>1. returned \in Outcome
    BY TransportAssumption DEF Init, Outcome
  <1>2. left \in [Thread -> 0 .. BlockSize]
    BY TransportAssumption DEF Init
  <1>3. TypeOK
    BY <1>1, <1>2 DEF Init, TypeOK, HostPC, Outcome
  <1>4. ended = {} /\ EndedWaited /\ InTurn /\ Engaged /\ WholeBlocks /\ PassedIsMoved
    BY DEF Init, InTurn, Turn, Engaged, EndedWaited, WholeBlocks, PassedIsMoved
  <1> QED BY <1>3, <1>4 DEF IndInv

(* What a thread does to its own stage and its own count.                  *)
LEMMA GotoKeeps ==
  ASSUME IndInv, NEW t \in Thread, NEW at \in HostPC, Goto(t, at),
         NEW n \in 0 .. BlockSize, left' = [left EXCEPT ![t] = n],
         at = "command" => n = BlockSize
  PROVE  /\ pc' \in [Thread -> HostPC] /\ left' \in [Thread -> 0 .. BlockSize]
         /\ ended' \subseteq Thread
         /\ EndedWaited' /\ WholeBlocks'
         /\ ended = {} => ended' = {}
         /\ pc'[t] = at
         /\ left'[t] = n
         /\ \A u \in Thread \ {t} : pc'[u] = pc[u] /\ left'[u] = left[u]
  BY DEF IndInv, TypeOK, Goto, EndedWaited, WholeBlocks

LEMMA GotoOnly ==
  ASSUME IndInv, NEW t \in Thread, NEW at \in HostPC \ {"command"}, Goto(t, at), UNCHANGED left
  PROVE  /\ pc' \in [Thread -> HostPC] /\ ended' \subseteq Thread
         /\ EndedWaited' /\ WholeBlocks'
         /\ ended = {} => ended' = {}
         /\ pc'[t] = at
         /\ \A u \in Thread \ {t} : pc'[u] = pc[u]
  BY DEF IndInv, TypeOK, Goto, EndedWaited, WholeBlocks

(* With nothing wrong a transfer is submitted to the device that is there, *)
(* and succeeds.                                                           *)
LEMMA CleanReaches ==
  ASSUME IndInv, Clean, NEW t \in Thread
  PROVE  /\ Reaches(t) /\ ~ Refused(t)
         /\ ~ Ended(t) /\ \A pipe : ~ Fails(t, pipe)
         /\ Turn(t) /\ Engaged
  BY DEF IndInv, Clean, Reaches, Ended, Refused, Fails, InTurn, Engaged
-----------------------------------------------------------------------------
LEMMA BeginInv ==
  ASSUME IndInv, NEW t \in Thread, Begin(t)
  PROVE  IndInv'
  <1> USE TransportAssumption DEF Begin, BeginWith
  <1>1. BlockSize \in 0 .. BlockSize /\ "command" \in HostPC
    BY DEF HostPC
  <1>2. /\ pc' \in [Thread -> HostPC] /\ left' \in [Thread -> 0 .. BlockSize]
        /\ ended' \subseteq Thread
        /\ EndedWaited' /\ WholeBlocks'
        /\ ended = {} => ended' = {}
        /\ pc'[t] = "command"
        /\ \A u \in Thread \ {t} : pc'[u] = pc[u] /\ left'[u] = left[u]
    BY <1>1, GotoKeeps
  <1>3. TypeOK'
    BY <1>2 DEF IndInv, TypeOK, devVars
  <1>4. Clean' => InTurn' /\ Engaged' /\ ended' = {}
    BY <1>2 DEF IndInv, TypeOK, Clean, Undisturbed, InTurn, Turn, Engaged, DataPipe, devVars
  <1>5. PassedIsMoved'
    BY DEF IndInv, PassedIsMoved, Undisturbed, devVars
  <1> QED BY <1>2, <1>3, <1>4, <1>5 DEF IndInv

LEMMA SendCommandInv ==
  ASSUME IndInv, NEW t \in Thread, SendCommand(t)
  PROVE  IndInv'
  <1> USE TransportAssumption DEF SendCommand, Command
  <1>1. /\ pc' \in [Thread -> HostPC] /\ ended' \subseteq Thread
        /\ EndedWaited' /\ WholeBlocks'
        /\ ended = {} => ended' = {}
        /\ pc'[t] = "data"
        /\ \A u \in Thread \ {t} : pc'[u] = pc[u]
    BY GotoOnly DEF HostPC
  <1>2. TypeOK'
    <2>1. returned' \in Outcome
      BY CallbackTyped DEF IndInv, TypeOK, Outcome
    <2> QED BY <1>1, <2>1 DEF IndInv, TypeOK, Outcome, DataPipe
  <1>3. Clean' => InTurn' /\ Engaged' /\ ended' = {}
    <2> SUFFICES ASSUME Clean' PROVE InTurn' /\ Engaged' /\ ended' = {}
      OBVIOUS
    <2>1. Clean
      <3>1. UNCHANGED <<present, faulty>> /\ (clashed' \/ UNCHANGED clashed)
        OBVIOUS
      <3> QED BY <3>1 DEF Clean, Undisturbed
    <2>2. /\ phase = "command" /\ phase' = DataPipe(t) /\ serving' = t /\ ~ passed'
          /\ UNCHANGED halted
      BY <2>1, CleanReaches DEF Clean, Undisturbed
    <2>3. left[t] = BlockSize
      BY DEF IndInv, WholeBlocks
    <2>4. ASSUME NEW u \in Thread PROVE Turn(u)'
      <3>1. CASE u = t
        BY <1>1, <2>2, <2>3, <3>1 DEF Turn, DataPipe
      <3>2. CASE u # t
        <4>1. Turn(u)
          BY <2>1, CleanReaches
        <4> QED BY <1>1, <2>2, <3>2, <4>1 DEF Turn, DataPipe
      <3> QED BY <3>1, <3>2
    <2>5. Engaged'
      BY <1>1, <2>1, <2>2, CleanReaches DEF Engaged, DataPipe
    <2> QED BY <1>1, <2>1, <2>4, <2>5 DEF IndInv, InTurn
  <1>4. PassedIsMoved'
    <2>1. clashed' \/ ~ passed' \/ UNCHANGED <<moved, passed, clashed>>
      OBVIOUS
    <2>2. UNCHANGED faulty
      OBVIOUS
    <2>3. CASE clashed' \/ ~ passed'
      BY <2>3 DEF PassedIsMoved, Undisturbed
    <2>4. CASE UNCHANGED <<moved, passed, clashed>>
      BY <2>2, <2>4 DEF IndInv, PassedIsMoved, Undisturbed
    <2> QED BY <2>1, <2>3, <2>4
  <1> QED BY <1>1, <1>2, <1>3, <1>4 DEF IndInv

LEMMA MoveAllInv ==
  ASSUME IndInv, NEW t \in Thread, MoveAll(t)
  PROVE  IndInv'
  <1> USE TransportAssumption DEF MoveAll, Moving
  <1>1. /\ pc' \in [Thread -> HostPC] /\ ended' \subseteq Thread
        /\ EndedWaited' /\ WholeBlocks'
        /\ ended = {} => ended' = {}
        /\ pc'[t] = "moved"
        /\ \A u \in Thread \ {t} : pc'[u] = pc[u]
    BY GotoOnly DEF HostPC
  <1>2. TypeOK'
    BY <1>1 DEF IndInv, TypeOK, Callback
  <1>3. Undisturbed' => /\ Clean
                        /\ Turn(t) /\ Engaged /\ serving = t /\ left[t] = BlockSize
    BY CleanReaches DEF Reaches, Clean, Undisturbed, Turn
  <1>4. Clean' => InTurn' /\ Engaged' /\ ended' = {}
    <2> SUFFICES ASSUME Clean' PROVE InTurn' /\ Engaged' /\ ended' = {}
      OBVIOUS
    <2>1. /\ Clean /\ Engaged /\ serving = t
      BY <1>3 DEF Clean
    <2>2. ASSUME NEW u \in Thread PROVE Turn(u)'
      <3>0. Turn(u)
        BY <2>1, CleanReaches
      <3>1. CASE u = t
        BY <1>1, <2>1, <3>1 DEF Turn, Callback
      <3>2. CASE u # t
        <4>1. pc[u] \notin {"data", "moved", "status1", "clearHalt", "status2"}
          BY <2>1, <3>0, <3>2 DEF Turn
        <4> QED BY <1>1, <3>2, <4>1 DEF Turn
      <3> QED BY <3>1, <3>2
    <2>3. Engaged'
      <3>1. phase # "command"
        BY DEF DataPipe
      <3>2. halted' = {} /\ phase' = "status" /\ ~ passed'
        BY <2>1, <3>1 DEF Engaged
      <3>3. pc'[serving'] = "moved"
        BY <1>1, <2>1
      <3>4. verdict' = "passed" => moved'
        BY <1>3, <2>1 DEF Clean
      <3> QED BY <3>2, <3>3, <3>4 DEF Engaged
    <2> QED BY <1>1, <2>1, <2>2, <2>3 DEF IndInv, InTurn
  <1>5. PassedIsMoved'
    BY <1>3 DEF PassedIsMoved, Engaged, DataPipe
  <1> QED BY <1>1, <1>2, <1>4, <1>5 DEF IndInv

LEMMA MoveShortInv ==
  ASSUME IndInv, NEW t \in Thread, MoveShort(t)
  PROVE  IndInv'
  <1> USE DEF MoveShort
  <1>1. TypeOK' /\ EndedWaited' /\ WholeBlocks'
    <2>1. returned' \in Outcome
      BY CallbackTyped
    <2> QED BY <2>1, GotoOnly DEF IndInv, TypeOK, HostPC, Outcome
  <1>2. ~ Undisturbed'
    BY DEF Undisturbed
  <1> QED BY <1>1, <1>2 DEF IndInv, Clean, PassedIsMoved

LEMMA StatusTakenForDataInv ==
  ASSUME IndInv, NEW t \in Thread, StatusTakenForData(t)
  PROVE  IndInv'
  <1> USE DEF StatusTakenForData
  <1>1. TypeOK' /\ EndedWaited' /\ WholeBlocks'
    <2>1. returned' \in Outcome
      BY CallbackTyped
    <2> QED BY <2>1, GotoOnly DEF IndInv, TypeOK, HostPC, Outcome
  <1>2. ~ Undisturbed
    BY CleanReaches DEF Clean, Reaches, Turn, DataPipe
  <1> QED BY <1>1, <1>2 DEF IndInv, Clean, Undisturbed, PassedIsMoved

LEMMA DataTakenForCommandInv ==
  ASSUME IndInv, NEW t \in Thread, DataTakenForCommand(t)
  PROVE  IndInv'
  <1> USE DEF DataTakenForCommand
  <1>1. TypeOK' /\ EndedWaited' /\ WholeBlocks'
    <2>1. returned' \in Outcome
      BY CallbackTyped
    <2> QED BY <2>1, GotoOnly DEF IndInv, TypeOK, HostPC, Outcome
  <1>2. ~ Undisturbed
    BY CleanReaches DEF Clean, Reaches, Turn, DataPipe
  <1> QED BY <1>1, <1>2 DEF IndInv, Clean, Undisturbed, PassedIsMoved

LEMMA StallInv ==
  ASSUME IndInv, NEW t \in Thread, Stall(t)
  PROVE  IndInv'
  <1> USE DEF Stall
  <1>1. TypeOK' /\ EndedWaited' /\ WholeBlocks'
    <2>1. returned' \in Outcome
      BY CallbackTyped
    <2> QED BY <2>1, GotoOnly DEF IndInv, TypeOK, HostPC, Outcome, DataPipe
  <1>2. ~ Undisturbed'
    BY DEF Undisturbed
  <1> QED BY <1>1, <1>2 DEF IndInv, Clean, PassedIsMoved

LEMMA DataErrorInv ==
  ASSUME IndInv, NEW t \in Thread, DataError(t)
  PROVE  IndInv'
  <1> USE DEF DataError
  <1>1. TypeOK' /\ EndedWaited' /\ WholeBlocks'
    <2>1. returned' \in Outcome
      BY CallbackTyped
    <2> QED BY <2>1, GotoOnly DEF IndInv, TypeOK, HostPC, Outcome, devVars
  <1>2. ~ Clean
    BY CleanReaches
  <1> QED BY <1>1, <1>2 DEF IndInv, Clean, Undisturbed, PassedIsMoved, devVars

LEMMA DataRefusedInv ==
  ASSUME IndInv, NEW t \in Thread, DataRefused(t)
  PROVE  IndInv'
  <1> USE DEF DataRefused
  <1>1. TypeOK' /\ EndedWaited' /\ WholeBlocks'
    <2>1. 0 \in 0 .. BlockSize
      BY TransportAssumption
    <2>2. returned' \in Outcome
      BY DEF IndInv, TypeOK, Outcome
    <2> QED BY <2>1, <2>2, GotoKeeps DEF IndInv, TypeOK, HostPC, Outcome, devVars
  <1>2. ~ Clean
    BY CleanReaches
  <1> QED BY <1>1, <1>2 DEF IndInv, Clean, Undisturbed, PassedIsMoved, devVars

LEMMA TransferDoneInv ==
  ASSUME IndInv, NEW t \in Thread, TransferDone(t)
  PROVE  IndInv'
  <1> USE TransportAssumption DEF TransferDone
  <1> DEFINE n == IF returned.error THEN 0
                  ELSE IF left[t] > returned.size THEN left[t] - returned.size ELSE 0
             at == IF n = 0 THEN "status1" ELSE "data"
  <1>1. n \in 0 .. BlockSize /\ at \in HostPC \ {"command"}
    BY DEF IndInv, TypeOK, HostPC
  <1>2. left' = [left EXCEPT ![t] = n] /\ Goto(t, at)
    BY DEF IndInv, TypeOK
  <1>3. Clean => n = 0
    BY CleanReaches DEF Turn, IndInv, TypeOK
  <1> HIDE DEF n
  <1>4. /\ pc' \in [Thread -> HostPC] /\ left' \in [Thread -> 0 .. BlockSize]
        /\ ended' \subseteq Thread
        /\ EndedWaited' /\ WholeBlocks'
        /\ ended = {} => ended' = {}
        /\ pc'[t] = at
        /\ \A u \in Thread \ {t} : pc'[u] = pc[u] /\ left'[u] = left[u]
    BY <1>1, <1>2, GotoKeeps
  <1>5. TypeOK'
    BY <1>4 DEF IndInv, TypeOK, devVars
  <1>6. Clean' => InTurn' /\ Engaged' /\ ended' = {}
    BY <1>3, <1>4 DEF IndInv, TypeOK, Clean, Undisturbed, InTurn, Turn, Engaged, DataPipe, devVars
  <1>7. PassedIsMoved'
    BY DEF IndInv, PassedIsMoved, Undisturbed, devVars
  <1> QED BY <1>4, <1>5, <1>6, <1>7 DEF IndInv

LEMMA StatusReadInv ==
  ASSUME IndInv, NEW t \in Thread, StatusRead(t)
  PROVE  IndInv'
  <1> USE DEF StatusRead, Return
  <1>1. PICK at \in {"idle", "reset"} : Goto(t, at)
    OBVIOUS
  <1>2. /\ pc' \in [Thread -> HostPC] /\ ended' \subseteq Thread
        /\ EndedWaited' /\ WholeBlocks'
        /\ ended = {} => ended' = {}
        /\ pc'[t] = at
        /\ \A u \in Thread \ {t} : pc'[u] = pc[u]
    BY <1>1, GotoOnly DEF HostPC
  <1>3. TypeOK'
    <2>1. returned' \in Outcome
      BY CallbackTyped
    <2> QED BY <1>2, <2>1 DEF IndInv, TypeOK, Outcome
  <1>4. Undisturbed' => Clean /\ Turn(t) /\ Engaged
    BY CleanReaches DEF Reaches, Clean, Undisturbed
  <1>5. Clean' => InTurn' /\ Engaged' /\ ended' = {}
    <2> SUFFICES ASSUME Clean' PROVE InTurn' /\ Engaged' /\ ended' = {}
      OBVIOUS
    <2>1. Clean /\ Turn(t) /\ Engaged
      BY <1>4 DEF Clean
    <2>2. serving = t /\ pc[t] = "status1"
      BY <2>1 DEF Turn
    <2>3. ASSUME NEW u \in Thread PROVE Turn(u)'
      <3>0. Turn(u)
        BY <2>1, CleanReaches
      <3>1. CASE u = t
        BY <1>2, <3>1 DEF Turn
      <3>2. CASE u # t
        <4>1. pc[u] \notin {"data", "moved", "status1", "clearHalt", "status2"}
          BY <2>1, <2>2, <3>0, <3>2 DEF Turn, DataPipe
        <4> QED BY <1>2, <3>2, <4>1 DEF Turn
      <3> QED BY <3>1, <3>2
    <2>4. Engaged'
      BY <2>1 DEF Engaged
    <2> QED BY <1>2, <2>1, <2>3, <2>4 DEF IndInv, InTurn
  <1>6. PassedIsMoved'
    BY <1>4 DEF PassedIsMoved, Engaged
  <1> QED BY <1>2, <1>3, <1>5, <1>6 DEF IndInv

LEMMA StatusStalledInv ==
  ASSUME IndInv, NEW t \in Thread, StatusStalled(t)
  PROVE  IndInv'
  <1> USE DEF StatusStalled, Return
  <1>1. TypeOK' /\ EndedWaited' /\ WholeBlocks'
    <2>1. returned' \in Outcome
      BY CallbackTyped
    <2> QED BY <2>1, GotoOnly DEF IndInv, TypeOK, HostPC, Outcome, devVars
  <1>2. ~ Clean
    BY CleanReaches
  <1> QED BY <1>1, <1>2 DEF IndInv, Clean, Undisturbed, PassedIsMoved, devVars

LEMMA StatusRefusedInv ==
  ASSUME IndInv, NEW t \in Thread, StatusRefused(t)
  PROVE  IndInv'
  <1> USE DEF StatusRefused
  <1>1. PICK at \in {"clearHalt", "reset"} : Goto(t, at)
    OBVIOUS
  <1>2. TypeOK' /\ EndedWaited' /\ WholeBlocks'
    BY <1>1, GotoOnly DEF IndInv, TypeOK, HostPC, devVars
  <1>3. ~ Clean
    BY CleanReaches
  <1> QED BY <1>2, <1>3 DEF IndInv, Clean, Undisturbed, PassedIsMoved, devVars

(* The recovery: with nothing wrong no other thread is in the middle of an *)
(* operation, and the device waits for a command.                          *)
LEMMA ControlKeeps ==
  ASSUME IndInv, NEW t \in Thread, NEW at \in {"status2", "clearIn", "clearOut", "idle"},
         Goto(t, at), pc[t] \in {"clearHalt", "reset", "clearIn", "clearOut"},
         at = "status2" => pc[t] = "clearHalt",
         ControlDone(t) \/ ControlEnded(t) \/ (Refused(t) /\ UNCHANGED <<faulty, returned>>),
         phase' = phase \/ phase' = "command",
         halted' \subseteq halted,
         kind' \in [Thread -> {"read", "write"}],
         UNCHANGED <<present, serving, verdict, moved, clashed, left, passed>>
  PROVE  IndInv'
  <1>1. /\ pc' \in [Thread -> HostPC] /\ ended' \subseteq Thread
        /\ EndedWaited' /\ WholeBlocks'
        /\ ended = {} => ended' = {}
        /\ pc'[t] = at
        /\ \A u \in Thread \ {t} : pc'[u] = pc[u]
    BY GotoOnly DEF HostPC
  <1>2. TypeOK'
    <2>1. returned' \in Outcome
      BY CallbackTyped DEF ControlDone, ControlEnded, IndInv, TypeOK, Outcome
    <2>2. faulty' \in BOOLEAN
      BY DEF ControlDone, ControlEnded, IndInv, TypeOK
    <2>3. phase' \in {"command", "in", "out", "status"} /\ halted' \subseteq {"in", "out"}
      BY DEF IndInv, TypeOK
    <2> QED BY <1>1, <2>1, <2>2, <2>3 DEF IndInv, TypeOK, Outcome
  <1>3. Undisturbed' => Undisturbed
    BY DEF Undisturbed, ControlDone, ControlEnded, IndInv, TypeOK
  <1>4. Clean' => InTurn' /\ Engaged' /\ ended' = {}
    <2> SUFFICES ASSUME Clean' PROVE InTurn' /\ Engaged' /\ ended' = {}
      OBVIOUS
    <2>1. Clean
      BY <1>3 DEF Clean
    <2>2. ControlDone(t)
      BY <2>1, CleanReaches DEF ControlEnded
    <2>3. \A u \in Thread \ {t} : pc[u] \in {"idle", "command"}
      BY <2>2 DEF ControlDone, Clean, Undisturbed, IndInv, TypeOK
    <2>4. Turn(t) /\ Engaged /\ serving \in Thread
      BY <2>1, CleanReaches DEF IndInv, TypeOK
    <2>5. phase = "command" /\ phase' = "command"
      <3>1. pc[serving] \notin {"data", "moved", "status1"}
        BY <2>3, <2>4
      <3> QED BY <2>4, <3>1 DEF Engaged, IndInv, TypeOK
    <2>6. at # "status2"
      BY <2>4 DEF Turn
    <2>7. ASSUME NEW u \in Thread PROVE Turn(u)'
      <3>1. pc'[u] \notin {"data", "moved", "status1", "clearHalt", "status2"}
        BY <1>1, <2>3, <2>6
      <3> QED BY <3>1 DEF Turn
    <2>8. Engaged'
      BY <2>4, <2>5 DEF Engaged
    <2> QED BY <1>1, <2>1, <2>7, <2>8 DEF IndInv, InTurn
  <1>5. PassedIsMoved'
    BY <1>3 DEF IndInv, PassedIsMoved
  <1> QED BY <1>1, <1>2, <1>4, <1>5 DEF IndInv

LEMMA HaltClearedIs ==
  ASSUME IndInv, NEW t \in Thread, NEW pipe, HaltCleared(t, pipe)
  PROVE  /\ ControlDone(t) \/ ControlEnded(t) \/ (Refused(t) /\ UNCHANGED <<faulty, returned>>)
         /\ halted' \subseteq halted
  BY DEF HaltCleared

LEMMA ClearHaltInv ==
  ASSUME IndInv, NEW t \in Thread, ClearHalt(t)
  PROVE  IndInv'
  <1> USE DEF ClearHalt
  <1>1. /\ ControlDone(t) \/ ControlEnded(t) \/ (Refused(t) /\ UNCHANGED <<faulty, returned>>)
        /\ halted' \subseteq halted
    BY HaltClearedIs
  <1>2. kind' \in [Thread -> {"read", "write"}]
    BY DEF IndInv, TypeOK
  <1> QED BY <1>1, <1>2, ControlKeeps

LEMMA ResetInv ==
  ASSUME IndInv, NEW t \in Thread, Reset(t)
  PROVE  IndInv'
  <1> USE DEF Reset, Return
  <1>1. ControlDone(t) \/ ControlEnded(t) \/ (Refused(t) /\ UNCHANGED <<faulty, returned>>)
    OBVIOUS
  <1>2. kind' \in [Thread -> {"read", "write"}]
    BY DEF IndInv, TypeOK
  <1>3. PICK at \in {"clearIn", "idle"} : Goto(t, at)
    OBVIOUS
  <1>4. phase' = phase \/ phase' = "command"
    OBVIOUS
  <1> QED BY <1>1, <1>2, <1>3, <1>4, ControlKeeps

LEMMA ClearEndpointInv ==
  ASSUME IndInv, NEW t \in Thread, ClearEndpoint(t)
  PROVE  IndInv'
  <1> USE DEF ClearEndpoint, Return
  <1>1. /\ ControlDone(t) \/ ControlEnded(t) \/ (Refused(t) /\ UNCHANGED <<faulty, returned>>)
        /\ halted' \subseteq halted
    BY HaltClearedIs
  <1>2. kind' \in [Thread -> {"read", "write"}]
    BY DEF IndInv, TypeOK
  <1>3. PICK at \in {"clearOut", "idle"} : Goto(t, at)
    OBVIOUS
  <1> QED BY <1>1, <1>2, <1>3, ControlKeeps

LEMMA UnplugInv ==
  ASSUME IndInv, Unplug
  PROVE  IndInv'
  <1> USE DEF IndInv, Unplug
  <1>1. TypeOK'
    BY DEF TypeOK
  <1>2. ~ Clean'
    BY DEF Clean
  <1>3. EndedWaited' /\ WholeBlocks' /\ PassedIsMoved'
    BY DEF EndedWaited, WholeBlocks, PassedIsMoved, Undisturbed
  <1> QED BY <1>1, <1>2, <1>3

LEMMA PlugInv ==
  ASSUME IndInv, Plug
  PROVE  IndInv'
  <1> USE DEF IndInv, Plug
  <1>1. TypeOK'
    BY DEF TypeOK
  <1>2. EndedWaited' /\ WholeBlocks' /\ PassedIsMoved'
    BY DEF EndedWaited, WholeBlocks, PassedIsMoved
  <1>3. Clean' => InTurn' /\ Engaged' /\ ended' = {}
    <2> SUFFICES ASSUME Clean' PROVE InTurn' /\ Engaged' /\ ended' = {}
      OBVIOUS
    <2>1. \A t \in Thread : pc[t] = "idle"
      BY DEF Clean, Undisturbed
    <2>2. ended = {}
      BY <2>1 DEF EndedWaited, Waiting, TypeOK
    <2> QED BY <2>1, <2>2 DEF InTurn, Turn, Engaged
  <1> QED BY <1>1, <1>2, <1>3
-----------------------------------------------------------------------------
LEMMA TransferInv ==
  ASSUME IndInv, NEW t \in Thread, Transfer(t)
  PROVE  IndInv'
  BY SendCommandInv, MoveAllInv, MoveShortInv, StatusTakenForDataInv, DataTakenForCommandInv,
     StallInv, DataErrorInv, DataRefusedInv, TransferDoneInv, StatusReadInv, StatusStalledInv, StatusRefusedInv, ClearHaltInv, ResetInv,
     ClearEndpointInv
  DEF Transfer

LEMMA StutterInv ==
  ASSUME IndInv, UNCHANGED vars
  PROVE  IndInv'
  BY DEF IndInv, TypeOK, Clean, Undisturbed, InTurn, Turn, DataPipe, Engaged, EndedWaited,
         WholeBlocks, PassedIsMoved, vars, devVars, hostVars

THEOREM Inductive == Spec => []IndInv
  <1>1. IndInv /\ [Next]_vars => IndInv'
    BY BeginInv, TransferInv, UnplugInv, PlugInv, StutterInv DEF Next
  <1> QED BY InitInv, <1>1, PTL DEF Spec

(* A thread asks the device only for what it expects, and gets the data    *)
(* and the status of its own command (usb_bulk_transfer, usb_bulk_status), *)
(* however many threads read and write at the same time: the first to lose *)
(* step is one whose command comes between the command and the data of a   *)
(* write, unless the device failed or was changed in the middle.           *)
THEOREM ThreadsInStep == Spec => []InStep
  <1>1. IndInv => InStep
    BY DEF IndInv, Clean, InTurn, Turn, InStep
  <1> QED BY Inductive, <1>1, PTL

(* What usb_callback left in returnCode and returnSize is about the        *)
(* transfer of the thread that looks at it, as long as threads are in      *)
(* step.                                                                   *)
THEOREM ResultsAreOwn == Spec => []OwnResult
  <1>1. IndInv => OwnResult
    BY DEF IndInv, Clean, InTurn, Turn, OwnResult
  <1> QED BY Inductive, <1>1, PTL

(* A block whose command passed has moved, although                        *)
(* mass_stor_readSector4096 returns 4096 whatever happened.                *)
THEOREM PassedBlockMoved == Spec => []PassedIsMoved
  <1>1. IndInv => PassedIsMoved
    BY DEF IndInv
  <1> QED BY Inductive, <1>1, PTL

(* "device is ready to process next CBW" (mass_stor.c:474) when all        *)
(* operations have ended, failed commands and phase errors included, if no *)
(* command was taken for the data of a write: that is the one way in which *)
(* a device that does not fail itself is left stalled.                     *)
THEOREM ReadyAgain == Spec => []ReadyForNextCBW
  <1>1. IndInv => ReadyForNextCBW
    BY DEF IndInv, TypeOK, Clean, Undisturbed, Engaged, ReadyForNextCBW
  <1> QED BY Inductive, <1>1, PTL
=============================================================================
