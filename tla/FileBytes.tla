------------------------------ MODULE FileBytes ------------------------------
(* The bytes of a file: what a read returns and what a write leaves. *)
EXTENDS Integers, Sequences

\* At most n bytes from a place on.
Slice(bytes, at, n) ==
    SubSeq(bytes, at + 1, IF at + n < Len(bytes) THEN at + n ELSE Len(bytes))

\* The bytes after data is written at a place: a gap before it reads as zeroes.
Overlay(bytes, at, data) ==
    LET end == at + Len(data)
    IN  [k \in 1 .. (IF end > Len(bytes) THEN end ELSE Len(bytes)) |->
            IF k \in at + 1 .. end THEN data[k - at]
            ELSE IF k <= Len(bytes) THEN bytes[k] ELSE 0]
=============================================================================
