---------------------------- MODULE ControlFifo ----------------------------
(***************************************************************************)
(* The byte stream under the control FIFO of svlopp: src/control.rs and    *)
(* the control arm of the event loop.  Supervisor takes whole frames from  *)
(* a queue; here is what stands behind that queue.                         *)
(*                                                                         *)
(* A frame is an operation byte followed by the id, least significant byte *)
(* first.  A write of a whole frame is atomic (it is shorter than          *)
(* PIPE_BUF).  A faulty writer sends an operation that svlopp does not     *)
(* know, or writes a frame in two pieces, or dies between them; others'    *)
(* frames then come between or after the pieces.                           *)
(*                                                                         *)
(* Every byte in the pipe carries, as history, the frame it belongs to     *)
(* and its place in it; the reader sees only the byte.                     *)
(***************************************************************************)
EXTENDS Integers, Sequences

CONSTANTS
  Writers,     \* processes that write commands
  Base,        \* values of a byte (256)
  IdBytes,     \* bytes of an id (8)
  Opcodes,     \* operation -> its byte: OP_STOP, OP_START, OP_RESTART, and others
  Commands,    \* the commands writers send, of operations known and unknown
  Tear,        \* whether writers may write a frame in pieces
  PipeCap,     \* bytes the pipe holds
  MaxFrames    \* bound: frames that are ever written

WIRE_COMMAND_SIZE == 1 + IdBytes
ControlOps == {"Stop", "Start", "Restart"}
Bytes == 0 .. Base - 1
Pow[n \in Nat] == IF n = 0 THEN 1 ELSE Base * Pow[n - 1]
ServiceIds == 0 .. Pow[IdBytes] - 1
Svlopp == "svlopp"  \* the supervisor as the holder of a write end
WireCommand == [op : DOMAIN Opcodes, service_id : ServiceIds]

ASSUME ControlFifoAssumption ==
  /\ Base \in Nat \ {0} /\ IdBytes \in Nat \ {0}
  /\ Opcodes \in [DOMAIN Opcodes -> Bytes] /\ ControlOps \subseteq DOMAIN Opcodes
  /\ \A o, p \in DOMAIN Opcodes : Opcodes[o] = Opcodes[p] => o = p
  /\ Commands \subseteq WireCommand
  /\ Tear \in BOOLEAN
  /\ PipeCap \in Nat /\ PipeCap >= WIRE_COMMAND_SIZE
  /\ MaxFrames \in Nat
  /\ Svlopp \notin Writers

VARIABLES
  pipe,      \* the bytes in the FIFO
  holders,   \* who has a write end open
  rest,      \* writer -> the bytes of its frame that it has yet to write
  pc,        \* the supervisor: "start", "wait" in epoll_wait, "read"
  result,    \* what the last read_control_command returned
  (* history *)
  frames,    \* the commands of all frames begun, in the order of their first byte
  torn,      \* frames written in pieces
  clean,     \* no piece entered the pipe since it was last empty
  consumed,  \* the bytes the last read took
  orderly    \* whether the pipe was clean when they were taken

vars == <<pipe, holders, rest, pc, result, frames, torn, clean, consumed, orderly>>

-----------------------------------------------------------------------------
(* The wire format *)

(* how a writer lays out a command *)
Encode(cmd) ==
  [k \in 1 .. WIRE_COMMAND_SIZE |->
     IF k = 1 THEN Opcodes[cmd.op] ELSE (cmd.service_id \div Pow[k - 2]) % Base]

(* mutant: the most significant byte comes first *)
MutFromLeBytes(bytes) ==
  LET value[k \in 0 .. Len(bytes)] ==
        IF k = 0 THEN 0 ELSE bytes[k] + Base * value[k - 1]
  IN value[Len(bytes)]

(* u64::from_le_bytes; value[k] is the value of the last k bytes *)
from_le_bytes(bytes) ==
  LET value[k \in 0 .. Len(bytes)] ==
        IF k = 0 THEN 0 ELSE bytes[Len(bytes) + 1 - k] + Base * value[k - 1]
  IN value[Len(bytes)]

NoCommand == [kind |-> "None"]
PartialFrame(n) == [kind |-> "PartialFrame", n |-> n]
InvalidOp(byte) == [kind |-> "InvalidOp", op |-> byte]
Command(op, id) == [kind |-> "Command", op |-> op, service_id |-> id]

(* mutant: the id is taken from the whole frame *)
MutDecode(buf) ==
  IF \E op \in ControlOps : Opcodes[op] = buf[1]
  THEN Command(CHOOSE op \in ControlOps : Opcodes[op] = buf[1], from_le_bytes(buf))
  ELSE InvalidOp(buf[1])

(* the operation byte is checked, the id is not: every id decodes *)
Decode(buf) ==
  IF \E op \in ControlOps : Opcodes[op] = buf[1]
  THEN Command(CHOOSE op \in ControlOps : Opcodes[op] = buf[1], from_le_bytes(Tail(buf)))
  ELSE InvalidOp(buf[1])

(* mutant: an incomplete frame is decoded with the buffer's zeros for the rest *)
MutReadResult(buf) ==
  IF buf = <<>> THEN NoCommand
  ELSE Decode([k \in 1 .. WIRE_COMMAND_SIZE |-> IF k <= Len(buf) THEN buf[k] ELSE 0])

(* what read_control_command makes of the bytes that read() delivered: an  *)
(* empty pipe is WouldBlock, or Ok(0) when no write end is left            *)
ReadResult(buf) ==
  IF buf = <<>> THEN NoCommand
  ELSE IF Len(buf) < WIRE_COMMAND_SIZE THEN PartialFrame(Len(buf))
  ELSE Decode(buf)

-----------------------------------------------------------------------------
(* The supervisor *)

Init ==
  /\ pipe = <<>>
  /\ holders = {}
  /\ rest = [w \in Writers |-> <<>>]
  /\ pc = "start"
  /\ result = NoCommand
  /\ frames = <<>> /\ torn = {} /\ clean = TRUE
  /\ consumed = <<>> /\ orderly = TRUE

writerVars  == <<rest, frames, torn>>
readHistory == <<consumed, orderly>>

(* mutant: the write end is not kept *)
MutCreateControlFifo ==
  /\ pc = "start"
  /\ pc' = "wait"
  /\ UNCHANGED <<pipe, holders, writerVars, result, clean, readHistory>>

(* the FIFO is created, its read end opened, and a write end kept open *)
create_control_fifo ==
  /\ pc = "start"
  /\ holders' = holders \cup {Svlopp}
  /\ pc' = "wait"
  /\ UNCHANGED <<pipe, writerVars, result, clean, readHistory>>

(* mutant: the loop is woken for whole frames only *)
MutEpollWait ==
  /\ pc = "wait"
  /\ Len(pipe) >= WIRE_COMMAND_SIZE \/ holders = {}
  /\ pc' = "read"
  /\ UNCHANGED <<pipe, holders, writerVars, result, clean, readHistory>>

(* level-triggered: bytes to read, or a hangup when no write end is open *)
EpollWait ==
  /\ pc = "wait"
  /\ pipe # <<>> \/ holders = {}
  /\ pc' = "read"
  /\ UNCHANGED <<pipe, holders, writerVars, result, clean, readHistory>>

(* mutant: the read takes all there is, as if for a batch, and decodes one *)
MutReadLen == Len(pipe)

(* one read() of a frame's size per wakeup *)
ReadLen == IF Len(pipe) < WIRE_COMMAND_SIZE THEN Len(pipe) ELSE WIRE_COMMAND_SIZE

read_control_command ==
  LET taken == SubSeq(pipe, 1, ReadLen) IN
  /\ pc = "read"
  /\ result' = ReadResult([k \in 1 .. ReadLen |-> taken[k].byte])
  /\ pipe' = SubSeq(pipe, ReadLen + 1, Len(pipe))
  /\ clean' = (clean \/ pipe' = <<>>)
  /\ consumed' = taken
  /\ orderly' = clean
  /\ pc' = "wait"
  /\ UNCHANGED <<holders, writerVars>>

-----------------------------------------------------------------------------
(* Writers *)

(* the bytes of a frame, with their places *)
Frame(cmd) ==
  [k \in 1 .. WIRE_COMMAND_SIZE |->
     [byte |-> Encode(cmd)[k], frame |-> Len(frames) + 1, at |-> k]]

(* a FIFO without a reader cannot be opened for writing *)
Open(w) ==
  /\ pc # "start"
  /\ w \notin holders
  /\ holders' = holders \cup {w}
  /\ UNCHANGED <<pipe, writerVars, pc, result, clean, readHistory>>

(* a writer closes its end, or dies: what it has not written is lost *)
Close(w) ==
  /\ w \in holders
  /\ holders' = holders \ {w}
  /\ rest' = [rest EXCEPT ![w] = <<>>]
  /\ UNCHANGED <<pipe, frames, torn, pc, result, clean, readHistory>>

Put(bytes) == Len(pipe) + Len(bytes) <= PipeCap /\ pipe' = pipe \o bytes

WriteFrame(w, cmd) ==
  /\ w \in holders
  /\ rest[w] = <<>>
  /\ Len(frames) < MaxFrames
  /\ Put(Frame(cmd))
  /\ frames' = Append(frames, cmd)
  /\ UNCHANGED <<holders, rest, torn, pc, result, clean, readHistory>>

WritePiece(w, cmd, k) ==
  /\ Tear
  /\ w \in holders
  /\ rest[w] = <<>>
  /\ Len(frames) < MaxFrames
  /\ Put(SubSeq(Frame(cmd), 1, k))
  /\ rest' = [rest EXCEPT ![w] = SubSeq(Frame(cmd), k + 1, WIRE_COMMAND_SIZE)]
  /\ frames' = Append(frames, cmd)
  /\ torn' = torn \cup {Len(frames) + 1}
  /\ clean' = FALSE
  /\ UNCHANGED <<holders, pc, result, readHistory>>

WriteRest(w) ==
  /\ rest[w] # <<>>
  /\ Put(rest[w])
  /\ rest' = [rest EXCEPT ![w] = <<>>]
  /\ clean' = FALSE
  /\ UNCHANGED <<holders, frames, torn, pc, result, readHistory>>

-----------------------------------------------------------------------------
SupervisorStep == create_control_fifo \/ EpollWait \/ read_control_command

WriterStep ==
  \E w \in Writers :
    \/ Open(w)
    \/ Close(w)
    \/ \E cmd \in Commands : WriteFrame(w, cmd)
    \/ \E cmd \in Commands, k \in 1 .. IdBytes : WritePiece(w, cmd, k)
    \/ WriteRest(w)

Next == SupervisorStep \/ WriterStep

(* the event loop keeps running; writers may do nothing, or stop half way *)
Spec == Init /\ [][Next]_vars /\ WF_vars(SupervisorStep)

-----------------------------------------------------------------------------
(* Properties *)

PipeByte == [byte : Bytes, frame : Nat \ {0}, at : 1 .. WIRE_COMMAND_SIZE]
Results ==
  {NoCommand} \cup [kind : {"PartialFrame"}, n : Nat] \cup [kind : {"InvalidOp"}, op : Bytes]
    \cup [kind : {"Command"}, op : ControlOps, service_id : ServiceIds]

(* Every variable has its type. *)
TypeOK ==
  /\ pipe \in Seq(PipeByte) /\ Len(pipe) <= PipeCap
  /\ holders \subseteq Writers \cup {Svlopp}
  /\ rest \in [Writers -> Seq(PipeByte)]
  /\ pc \in {"start", "wait", "read"}
  /\ result \in Results
  /\ frames \in Seq(Commands)
  /\ torn \subseteq 1 .. Len(frames)
  /\ clean \in BOOLEAN /\ orderly \in BOOLEAN
  /\ consumed \in Seq(PipeByte)

(* what a frame means to svlopp, if it is read as it was written *)
Meaning(cmd) ==
  IF cmd.op \in ControlOps THEN Command(cmd.op, cmd.service_id) ELSE InvalidOp(Opcodes[cmd.op])

(* Whole frames are read as they were written: as long as no piece of a     *)
(* frame entered the pipe since it last ran empty, a read takes one frame   *)
(* and read_control_command returns the command its writer meant, or        *)
(* refuses the operation its writer sent, whatever was torn or refused      *)
(* before.  The reader keeps nothing between two calls.                     *)
OrderlyReadsAreFaithful ==
  orderly /\ consumed # <<>> =>
    /\ \A k \in DOMAIN consumed : consumed[k].frame = consumed[1].frame /\ consumed[k].at = k
    /\ result = Meaning(frames[consumed[1].frame])

(* Every answer of read_control_command has its reason.  A command comes    *)
(* from a frame's worth of bytes that were in the pipe, never from the      *)
(* zeros in the buffer; an incomplete frame is reported only when one was   *)
(* torn, an unknown operation only then or when its writer sent it.  (The   *)
(* bytes of a command may still be of two frames, when one was torn.)       *)
ResultsExplained ==
  /\ result.kind = "Command" => Len(consumed) = WIRE_COMMAND_SIZE
  /\ result.kind = "PartialFrame" => ~orderly
  /\ result.kind = "InvalidOp" => ~orderly \/ frames[consumed[1].frame].op \notin ControlOps
  /\ ~orderly => torn # {}

(* The loop is never woken for nothing: however writers come and go, every  *)
(* wakeup of the control arm finds bytes to read.  A hangup would make      *)
(* level-triggered epoll return at once for ever.                           *)
NoIdleWakeup == pc = "read" => pipe # <<>>

(* the frame that the last read took *)
LastFrame == IF consumed = <<>> THEN 0 ELSE consumed[1].frame

(* The frames of an untorn stream are read in the order in which they were  *)
(* written, none twice and none skipped: the first read takes the first     *)
(* frame, and every read the whole of the frame after the last one, though  *)
(* read_control_command is called once per wakeup and keeps no position.    *)
InOrder ==
  [][pc = "read" /\ pc' = "wait" /\ torn = {} =>
       /\ Len(consumed') = WIRE_COMMAND_SIZE
       /\ \A k \in 1 .. WIRE_COMMAND_SIZE :
            consumed'[k].frame = LastFrame + 1 /\ consumed'[k].at = k]_vars

(* Every byte that is written is eventually read, a frame at a time. *)
PipeDrained == \A f \in 1 .. MaxFrames :
  (\E k \in DOMAIN pipe : pipe[k].frame = f) ~> ~(\E k \in DOMAIN pipe : pipe[k].frame = f)
=============================================================================
