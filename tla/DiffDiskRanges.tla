--------------------------- MODULE DiffDiskRanges ---------------------------
(***************************************************************************)
(* How diff_disk.go cuts a request at sector borders: WriteAt, ReadAt,     *)
(* fullReadAt, read and UnmapAt, as functions of the request.              *)
(*                                                                         *)
(* A byte of a layer is the pair of the layer and the place, so that a     *)
(* wrong place is as visible as a wrong layer.  A behaviour picks a disk   *)
(* and a request, and serves it.                                           *)
(***************************************************************************)
EXTENDS Integers, Sequences, FiniteSets, SequencesExt, FiniteSetsExt

CONSTANTS SectorSize,   \* d.sectorSize, in bytes
          VolumeSectors,
          NumLayers,
          Width,        \* bits of the length of a discard, 32 in the code
          ShortLayers   \* TRUE: requests of any shape on a disk that was expanded

AllSectors == 0..(VolumeSectors - 1)
Size    == VolumeSectors * SectorSize
Zero    == <<0, 0>>
New     == <<NumLayers + 1, 0>>    \* a byte of the buffer that is written

VARIABLES disk,   \* [held: the sectors each layer holds, size: the sectors its file has]
          req, res

vars == <<disk, req, res>>

NoResult == [kind |-> "none"]

SectorOf(p) == p \div SectorSize

\* lookup
Target(s) == Max({1} \cup {i \in 1..NumLayers : s \in disk.held[i]})

\* A byte of a layer's file, and of the volume.
FileByte(i, p) == IF SectorOf(p) \in disk.held[i] THEN <<i, p>> ELSE Zero
VolumeByte(p)  == FileByte(Target(SectorOf(p)), p)

\* buf[from .. from + n - 1] of a buffer, as a buffer of its own, and back.
Part(buf, from, n) == [k \in 0..(n - 1) |-> buf[from + k]]
Copy(buf, from, part) == [k \in DOMAIN buf |-> IF k - from \in DOMAIN part THEN part[k - from] ELSE buf[k]]

Blank(n) == [k \in 0..(n - 1) |-> Zero]

-----------------------------------------------------------------------------
\* Reading

\* read: what lies past the end of the layer's file is left as it is in the
\* buffer.
read(target, buf, offset, startSector, sectors) ==
    LET bufStart  == startSector * SectorSize
        start     == offset + bufStart
        fileSize  == disk.size[target] * SectorSize
        n         == Max({0, Min({sectors * SectorSize, fileSize - start})})
    IN  [k \in DOMAIN buf |-> IF k \in bufStart..(bufStart + n - 1)
                              THEN FileByte(target, offset + k) ELSE buf[k]]

\* fullReadAt: neighbours in one layer are read together.
fullReadAt(buf, offset) ==
    LET sectors == Cardinality(DOMAIN buf) \div SectorSize
        first   == offset \div SectorSize
        step(acc, i) ==
            IF Target(first + i) = acc.target THEN [acc EXCEPT !.run = @ + 1]
            ELSE [target |-> Target(first + i), run |-> 1,
                  buf |-> read(acc.target, acc.buf, offset, i - acc.run, acc.run)]
        last == FoldLeft(step, [target |-> Target(first), run |-> 1, buf |-> buf],
                         [i \in 1..(sectors - 1) |-> i])
    IN  IF sectors = 0 THEN buf
        ELSE read(last.target, last.buf, offset, sectors - last.run, last.run)

\* ReadAt: the first and the last sector go through readBuf when the request
\* does not start and end at a sector border.
ReadAt(offset, n) ==
    LET startOffset == offset % SectorSize
        startCut    == SectorSize - startOffset
        endOffset   == (offset + n) % SectorSize
        readBuf  == fullReadAt(Blank(SectorSize), offset - startOffset)
        buf1     == Copy(Blank(n), 0, Part(readBuf, startOffset, startCut))
        middle   == n - endOffset - startCut
        buf2     == Copy(buf1, startCut, fullReadAt(Part(buf1, startCut, middle), offset + startCut))
        readBuf2 == fullReadAt(readBuf, offset + n - endOffset)
    IN  IF n = 0 THEN Blank(0)
        ELSE IF startOffset = 0 /\ endOffset = 0 THEN fullReadAt(Blank(n), offset)
        ELSE IF startCut >= n THEN Copy(Blank(n), 0, Part(readBuf, startOffset, startCut))
        ELSE IF endOffset > 0 THEN Copy(buf2, n - endOffset, Part(readBuf2, 0, endOffset))
        ELSE buf2

-----------------------------------------------------------------------------
\* Writing: the volume after a write, as a function of its bytes

\* fullWriteAt refuses a range that is not made of whole sectors.
fullWriteAt(v, buf, offset) ==
    IF Cardinality(DOMAIN buf) % SectorSize # 0 \/ offset % SectorSize # 0 THEN v
    ELSE [p \in DOMAIN v |-> IF p - offset \in DOMAIN buf THEN buf[p - offset] ELSE v[p]]

readModifyWrite(v, buf, offset) ==
    LET readOffset == SectorOf(offset) * SectorSize
        sector     == Part(v, readOffset, SectorSize)
    IN  IF DOMAIN buf = {} THEN v
        ELSE fullWriteAt(v, Copy(sector, offset % SectorSize, buf), readOffset)

WriteAt(v, buf, offset) ==
    LET n           == Cardinality(DOMAIN buf)
        startOffset == offset % SectorSize
        startCut    == SectorSize - startOffset
        endOffset   == (n + offset) % SectorSize
        v1 == readModifyWrite(v, Part(buf, 0, startCut), offset)
        v2 == fullWriteAt(v1, Part(buf, startCut, n - endOffset - startCut), offset + startCut)
    IN  IF n = 0 THEN v
        ELSE IF startOffset = 0 /\ endOffset = 0 THEN fullWriteAt(v, buf, offset)
        ELSE IF startCut >= n THEN readModifyWrite(v, buf, offset)
        ELSE readModifyWrite(v2, Part(buf, n - endOffset, endOffset), offset + n - endOffset)

-----------------------------------------------------------------------------
\* Discarding

\* Mutant: the length is not cut at the end of the range.
UnmapCutStart(offset, length) ==
    LET startOffset == offset % SectorSize
        startCut    == IF startOffset # 0 THEN SectorSize - startOffset ELSE 0
    IN  [offset |-> offset + startCut, length |-> (length - startCut) % 2^Width]

\* UnmapAt: the range is cut to whole sectors, in arithmetic of Width bits.
UnmapCut(offset, length) ==
    LET startOffset == offset % SectorSize
        endOffset   == (length + offset) % SectorSize
        startCut    == IF startOffset # 0 THEN SectorSize - startOffset ELSE 0
    IN  [offset |-> offset + startCut,
         length |-> (length - startCut - endOffset) % 2^Width]

\* The bytes punched out of a layer; "error" where the check for an overflow
\* refuses the request.
UnmapAt(i, offset, length) ==
    LET cut      == UnmapCut(offset, length)
        fileSize == disk.size[i] * SectorSize
        end      == Min({cut.offset + cut.length, fileSize})
    IN  IF length < SectorSize \/ cut.length = 0 THEN [error |-> FALSE, bytes |-> {}]
        ELSE IF length < cut.length THEN [error |-> TRUE, bytes |-> {}]
        ELSE [error |-> FALSE, bytes |-> cut.offset..(end - 1)]

-----------------------------------------------------------------------------
Layers(full) ==
    {d \in [held : [1..NumLayers -> SUBSET AllSectors], size : [1..NumLayers -> 0..VolumeSectors]] :
        /\ \A i \in 1..NumLayers : \A s \in d.held[i] : s < d.size[i]
        /\ \A i \in 1..(NumLayers - 1) : d.size[i] <= d.size[i + 1]
        /\ d.size[NumLayers] = VolumeSectors
        /\ full => d.size[1] = VolumeSectors}

Aligned(o, n) == o % SectorSize = 0 /\ n % SectorSize = 0

Init ==
    /\ req \in {r \in [kind : {"read", "write", "unmap"}, offset : 0..(Size - 1), n : 0..Size] :
                    r.offset + r.n <= Size}
    /\ disk \in Layers(req.kind = "write" \/ (req.kind = "read" /\ ~ShortLayers /\ ~Aligned(req.offset, req.n)))
    /\ ShortLayers => req.kind = "read"
    /\ req.kind = "unmap" => req.n < 2^Width
    /\ res = NoResult

Before == [p \in 0..(Size - 1) |-> VolumeByte(p)]

Serve ==
    /\ res = NoResult
    /\ res' = CASE req.kind = "read"  -> [kind |-> "read", buf |-> ReadAt(req.offset, req.n)]
                [] req.kind = "write" -> [kind |-> "write",
                                          vol |-> WriteAt(Before, [k \in 0..(req.n - 1) |-> New], req.offset)]
                [] req.kind = "unmap" -> [kind |-> "unmap",
                                          out |-> [i \in 1..NumLayers |-> UnmapAt(i, req.offset, req.n)]]
    /\ UNCHANGED <<disk, req>>

Next == Serve
Spec == Init /\ [][Next]_vars

Bytes(o, n) == o..(o + n - 1)

\* "Read out of disk boundary but still in Volume boundary, we should remain the
\* valid range with 0": a read returns every byte from the topmost layer that
\* holds it, and zero where none does, also past the end of a layer's file.
ReadsMatch ==
    res.kind = "read" => res.buf = [k \in 0..(req.n - 1) |-> VolumeByte(req.offset + k)]

\* A write changes the bytes of its range and no other, however it is cut, and no
\* piece is refused for not being whole sectors (WriteAt, fullWriteAt).
WritesMatch ==
    res.kind = "write" =>
        res.vol = [p \in 0..(Size - 1) |-> IF p \in Bytes(req.offset, req.n) THEN New ELSE VolumeByte(p)]

\* A discard punches exactly the whole sectors inside its range that the layer's
\* file has.  "The following case should not happen": the cut length never wraps.
UnmapsMatch ==
    res.kind = "unmap" => \A i \in 1..NumLayers :
        /\ ~res.out[i].error
        /\ res.out[i].bytes = {p \in Bytes(req.offset, req.n) :
                                   /\ Bytes(SectorOf(p) * SectorSize, SectorSize) \subseteq Bytes(req.offset, req.n)
                                   /\ SectorOf(p) < disk.size[i]}
=============================================================================
