---------------------------- MODULE FrameDecoder ----------------------------
(***************************************************************************)
(* The scan of a BLE attribute value for notification frames               *)
(* (internal/protocol/packet.go:40-84), one loop iteration per step.       *)
(*                                                                         *)
(* A buffer is a concatenation of pieces: frames the desk sent and debris  *)
(* of frames.  Positions count from 1.                                     *)
(***************************************************************************)
EXTENDS Integers, SequencesExt

CONSTANTS Pieces,      \* byte sequences buffers are made of
          MaxPieces    \* bound: pieces in one buffer

Byte == 0..255
RespStart == 242   \* 0xF2
FrameEnd  == 126   \* 0x7E

ASSUME PiecesAssumption == Pieces \subseteq Seq(Byte) /\ MaxPieces \in Nat

VARIABLES
    parts,   \* history: the pieces of the buffer
    buf,     \* the attribute value
    i,       \* the scan position
    out,     \* the notifications found, each with its position
    state    \* "scan"; "cut" after the break; "end" of the buffer

vars == <<parts, buf, i, out, state>>

Add(x, y) == x + y
Checksum(opcode, payload) == FoldSeq(Add, opcode + Len(payload), payload) % 256

\* The outer framing both directions use; MakeCommand with its own start byte.
Frame(start, opcode, payload) ==
    <<start, start, opcode, Len(payload) % 256>> \o payload
        \o <<Checksum(opcode, payload), FrameEnd>>

----------------------------------------------------------------------------
\* What the loop reads at position j.

Header(j) == buf[j] = RespStart /\ buf[j + 1] = RespStart
Total(j)   == 6 + buf[j + 3]
Payload(j) == SubSeq(buf, j + 4, j + 3 + buf[j + 3])
Fits(j)    == j + Total(j) - 1 <= Len(buf)
Intact(j)  == /\ buf[j + Total(j) - 1] = FrameEnd
              /\ Checksum(buf[j + 2], Payload(j)) = buf[j + Total(j) - 2]

TypeOK ==
    /\ parts \in Seq(Pieces)
    /\ buf \in Seq(Byte)
    /\ i \in 1..(Len(buf) + 1)
    /\ out \in Seq([at : 1..Len(buf), opcode : Byte, payload : Seq(Byte)])
    /\ state \in {"scan", "cut", "end"}

Init ==
    /\ parts \in BoundedSeq(Pieces, MaxPieces)
    /\ buf = FlattenSeq(parts)
    /\ i = 1
    /\ out = <<>>
    /\ state = "scan"

\* The condition of the for loop.
InRange == i + 5 <= Len(buf)

Skip ==
    /\ state = "scan" /\ InRange /\ ~Header(i)
    /\ i' = i + 1
    /\ UNCHANGED <<parts, buf, out, state>>

\* The announced length reaches past the buffer: break.
Cut ==
    /\ state = "scan" /\ InRange /\ Header(i) /\ ~Fits(i)
    /\ state' = "cut"
    /\ UNCHANGED <<parts, buf, i, out>>

\* Mutants of Reject: the announced length is skipped; the scan does not move on.
RejectWhole ==
    /\ state = "scan" /\ InRange /\ Header(i) /\ Fits(i) /\ ~Intact(i)
    /\ i' = i + Total(i)
    /\ UNCHANGED <<parts, buf, out, state>>
RejectStays ==
    /\ state = "scan" /\ InRange /\ Header(i) /\ Fits(i) /\ ~Intact(i)
    /\ UNCHANGED vars

Reject ==
    /\ state = "scan" /\ InRange /\ Header(i) /\ Fits(i) /\ ~Intact(i)
    /\ i' = i + 1
    /\ UNCHANGED <<parts, buf, out, state>>

\* Mutant of Emit: the scan resumes inside the frame.
EmitInside ==
    /\ state = "scan" /\ InRange /\ Header(i) /\ Fits(i) /\ Intact(i)
    /\ out' = Append(out, [at |-> i, opcode |-> buf[i + 2], payload |-> Payload(i)])
    /\ i' = i + 4
    /\ UNCHANGED <<parts, buf, state>>

Emit ==
    /\ state = "scan" /\ InRange /\ Header(i) /\ Fits(i) /\ Intact(i)
    /\ out' = Append(out, [at |-> i, opcode |-> buf[i + 2], payload |-> Payload(i)])
    /\ i' = i + Total(i)
    /\ UNCHANGED <<parts, buf, state>>

Finish ==
    /\ state = "scan" /\ ~InRange
    /\ state' = "end"
    /\ UNCHANGED <<parts, buf, i, out>>

Next == Skip \/ Cut \/ Reject \/ Emit \/ Finish

Spec == Init /\ [][Next]_vars

\* A loop of one goroutine, run to its end.
FairSpec == Spec /\ WF_vars(Next)

----------------------------------------------------------------------------
\* The reference: a frame stands at j if the bytes there are what Frame builds.

FrameAt(j, n) ==
    /\ j + n + 5 <= Len(buf)
    /\ SubSeq(buf, j, j + n + 5) = Frame(RespStart, buf[j + 2], SubSeq(buf, j + 4, j + n + 3))

SomeFrameAt(j) == \E n \in Byte : FrameAt(j, n)

\* Position j lies in a notification that was found.
Covered(j) ==
    \E k \in DOMAIN out : out[k].at <= j /\ j < out[k].at + 6 + Len(out[k].payload)

\* Every notification is a whole frame of the buffer, and no two share a byte: nothing
\* is read out of debris or out of the payload of another frame (packet.go:42-64).
OnlyFrames ==
    /\ \A k \in DOMAIN out :
          /\ FrameAt(out[k].at, Len(out[k].payload))
          /\ out[k].opcode = buf[out[k].at + 2]
    /\ \A k \in DOMAIN out \ {1} :
          out[k].at >= out[k - 1].at + 6 + Len(out[k - 1].payload)

\* Behind the scan position no frame was passed over, whatever false headers, broken
\* checksums or embedded headers preceded it (packet.go:43-46, 57-60).
NothingPassedOver ==
    \A j \in 1..(i - 1) : SomeFrameAt(j) => Covered(j)

\* A value made of whole frames decodes to exactly those frames, in order: "multiple
\* response frames may arrive concatenated" (docs/protocol.md:57-59).  A frame's one length
\* byte announces at most 255 bytes of payload.
AllFrames ==
    \A k \in DOMAIN parts :
        /\ Len(parts[k]) - 6 \in Byte
        /\ parts[k] = Frame(RespStart, parts[k][3], SubSeq(parts[k], 5, Len(parts[k]) - 2))
CleanValueDecodes ==
    state # "scan" /\ AllFrames =>
        /\ state = "end"
        /\ [k \in DOMAIN out |-> Frame(RespStart, out[k].opcode, out[k].payload)] = parts

\* Both together: frames are found, behind the scan position and in the end
\* (packet.go:40-66).
FramesFound == NothingPassedOver /\ CleanValueDecodes

\* The scan ends on every value (packet.go:42).
Terminates == <>(state # "scan")

----------------------------------------------------------------------------
\* Why OnlyFrames and FramesFound hold, whatever the pieces: the parts of an inductive
\* invariant (FrameDecoderProofs).

\* The position behind a notification.
After(note) == note.at + 6 + Len(note.payload)

\* The scan resumes behind all it has found.
FoundInv == OnlyFrames /\ (out # <<>> => After(out[Len(out)]) <= i)

\* Of whole frames, as many are found as the scan has left behind, and it stands where the
\* next begins.
CleanInv ==
    AllFrames =>
        /\ state # "cut"
        /\ Len(out) <= Len(parts)
        /\ i = Len(FlattenSeq(SubSeq(parts, 1, Len(out)))) + 1
        /\ \A k \in DOMAIN out : Frame(RespStart, out[k].opcode, out[k].payload) = parts[k]
        /\ state = "end" => Len(out) = Len(parts)

IInv == TypeOK /\ buf = FlattenSeq(parts) /\ FoundInv /\ NothingPassedOver /\ CleanInv
=============================================================================
