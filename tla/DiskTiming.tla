----------------------------- MODULE DiskTiming -----------------------------
(***************************************************************************)
(* How long the simulated disk takes for a request (machine/disk.cc), and  *)
(* a reference for it: where the head is at each moment.  During slot i,   *)
(* the ticks from i * RotationTime on, sector i % SectorsPerTrack of each  *)
(* track passes under the head.                                            *)
(***************************************************************************)
EXTENDS Integers

CONSTANTS SectorsPerTrack, NumTracks, SeekTime, RotationTime

ASSUME DiskAssumption ==
    \A c \in {SectorsPerTrack, NumTracks, SeekTime, RotationTime} : c \in Nat \ {0}

Sectors == 0 .. SectorsPerTrack * NumTracks - 1
Track(sector) == sector \div SectorsPerTrack
abs(n) == IF n < 0 THEN -n ELSE n

\* The ticks to the new track, and from there to the next sector boundary.
TimeToSeek(now, lastSector, newSector) ==
    LET seek == abs(Track(newSector) - Track(lastSector)) * SeekTime
        over == (now + seek) % RotationTime
    IN  [seek |-> seek, rotation |-> IF over > 0 THEN RotationTime - over ELSE 0]

ModuloDiff(to, from) ==
    (((to % SectorsPerTrack) - (from % SectorsPerTrack)) + SectorsPerTrack) % SectorsPerTrack

\* Mutant: the slot at the end of the seek is not counted as missed.
ComputeLatencyEarly(now, lastSector, bufferInit, newSector, writing) ==
    LET t == TimeToSeek(now, lastSector, newSector)
    IN  t.seek + ModuloDiff(newSector, (now + t.seek) \div RotationTime) * RotationTime + RotationTime

\* A read of the current track is served from the track buffer once the sector
\* has been read into it.
ComputeLatency(now, lastSector, bufferInit, newSector, writing) ==
    LET t == TimeToSeek(now, lastSector, newSector)
        timeAfter == now + t.seek + t.rotation
        buffered == /\ ~writing /\ t.seek = 0
                    /\ (timeAfter - bufferInit) \div RotationTime
                            > ModuloDiff(newSector, bufferInit \div RotationTime)
    IN  IF buffered THEN RotationTime
        ELSE t.seek + t.rotation + RotationTime
                + ModuloDiff(newSector, timeAfter \div RotationTime) * RotationTime

\* UpdateLast: when the track buffer begins to be filled.
BufferInit(now, lastSector, bufferInit, newSector) ==
    LET t == TimeToSeek(now, lastSector, newSector)
    IN  IF t.seek # 0 THEN now + t.seek + t.rotation ELSE bufferInit

-----------------------------------------------------------------------------
\* The sector has passed under the head, from end to end, between the times.
Passes(sector, from, to) ==
    \E i \in (from \div RotationTime) .. (to \div RotationTime) :
        /\ from <= i * RotationTime /\ (i + 1) * RotationTime <= to
        /\ i % SectorsPerTrack = sector % SectorsPerTrack
=============================================================================
