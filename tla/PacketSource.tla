------------------------------ MODULE PacketSource ------------------------------
(***************************************************************************)
(* DSPGAPacketSource (src/jni/player/rtsp/DSPGAPacketSource.cpp): the      *)
(* queue of access units between a session, which fills it on its looper,  *)
(* and the decoder, which reads it and waits while it is empty.  Each      *)
(* method holds the queue's lock, so a source is a value and the methods   *)
(* are operators on it.                                                    *)
(***************************************************************************)
EXTENDS Integers, Sequences

CONSTANTS Formats,  \* what a session description may say of a track
          Spacing   \* the time from one access unit to the next

\* initCheck(): the formats a source can be made for.
Accepts(f) ==
    CASE f.type \in {"H264", "MP4V-ES"} -> f.parameters \/ f.dimensions
      [] f.type \in {"H263-1998", "H263-2000"} -> f.dimensions
      [] f.type = "AMR" -> f.rate = 8000 /\ f.channels = 1
      [] f.type = "AMR-WB" -> f.rate = 16000 /\ f.channels = 1
      [] f.type = "mpeg4-generic" -> f.mode \in {"AAC-lbr", "AAC-hbr"}
      [] OTHER -> f.type = "MP4A-LATM"

\* A new source does not look for an IDR frame; one that was flushed does,
\* until it finds one.  "fresh" is history: flushed and not read since.
NewSource(f) == [avc |-> f.type = "H264", buffers |-> <<>>, eos |-> FALSE,
                 scanForIDR |-> FALSE, fresh |-> FALSE]

Skipped(s, unit) == s.scanForIDR /\ s.avc /\ ~unit.idr

\* queueAccessUnit(): damaged units and those in front of the IDR frame are
\* discarded.
QueueAccessUnit(s, unit) ==
    IF unit.damaged \/ Skipped(s, unit) THEN s
    ELSE [s EXCEPT !.buffers = Append(@, unit),
                   !.scanForIDR = @ /\ ~s.avc]

SignalEOS(s) == [s EXCEPT !.eos = TRUE]

FlushQueue(s) == [s EXCEPT !.buffers = <<>>, !.scanForIDR = TRUE, !.fresh = TRUE]

\* read() returns a unit, or the end once there is no unit left.
HasUnit(s) == s.buffers # <<>>
AtEnd(s) == s.eos /\ s.buffers = <<>>
AfterRead(s) == [s EXCEPT !.buffers = Tail(@), !.fresh = FALSE]

\* getQueueDurationUs(): from the first unit to the last.
QueueDuration(s) ==
    IF Len(s.buffers) < 2 THEN 0 ELSE Spacing * (Len(s.buffers) - 1)
=============================================================================
