----------------------------- MODULE DedupRoundTrip -----------------------------
(***************************************************************************)
(* dedup -c and then dedup -u on its archive.  The encoder is module       *)
(* SerialDedup, which the parallel pipeline implements (DedupPipeline), and*)
(* the decoder is module Decoder.  The encoder may be stopped at any time, *)
(* also while it writes a record: write_file makes three calls of xwrite,  *)
(* and the output is a plain file without a final marker.                  *)
(***************************************************************************)
EXTENDS Integers, Sequences

CONSTANTS Inputs, TYPE_FINGERPRINT, TYPE_COMPRESS, Oversized

(* An input is a sequence of chunks, and the two types of record differ    *)
(* (dedupdef.h:182-183).                                                   *)
ASSUME RoundTripAssumption ==
    /\ \A s \in Inputs : s \in Seq({s[k] : k \in DOMAIN s})
    /\ TYPE_FINGERPRINT # TYPE_COMPRESS

VARIABLES input, cache, archive, torn, nread, entries, output, status

vars == <<input, cache, archive, torn, nread, entries, output, status>>

Encoder == INSTANCE SerialDedup

DecoderPart == INSTANCE Decoder

Init == /\ Encoder!Init
        /\ torn = FALSE /\ nread = 0 /\ entries = {} /\ output = <<>>
        /\ status = "encoding"

Encode ==
    /\ status = "encoding"
    /\ Encoder!ArchiveChunk
    /\ UNCHANGED <<torn, nread, entries, output, status>>

(* The encoder has ended or was stopped after some whole records.          *)
StartDecoder ==
    /\ status = "encoding"
    /\ status' = "decoding"
    /\ UNCHANGED <<input, cache, archive, torn, nread, entries, output>>

(* The encoder was stopped inside a record.                                *)
StoppedInRecord ==
    /\ status = "encoding" /\ archive # <<>>
    /\ torn' = TRUE /\ status' = "decoding"
    /\ UNCHANGED <<input, cache, archive, nread, entries, output>>

Decode == DecoderPart!Decode /\ UNCHANGED <<input, cache>>

Next == Encode \/ StartDecoder \/ StoppedInRecord \/ Decode

Spec == Init /\ [][Next]_vars /\ WF_vars(Decode)

-------------------------------------------------------------------------------

(* The decoder writes nothing but the beginning of the input, whatever the *)
(* archive lacks.                                                          *)
OutputIsPrefix == Len(output) <= Len(input) /\ output = SubSeq(input, 1, Len(output))

(* A whole archive of a whole input gives the input back: a decoder that   *)
(* ends without an error has written every chunk that was archived.        *)
RoundTrip ==
    status = "done" => Len(output) = Len(archive) /\ ~torn

(* "Encountered a duplicate chunk in input file but not its unique         *)
(* counterpart" (decoder.c:243) is never the answer to an archive of dedup,*)
(* also not to a truncated one.  The only errors are a torn last record    *)
(* and data beyond UNCOMPRESS_BOUND (decoder.c:126).                       *)
ErrorsAreJustified ==
    /\ status # "duplicate chunk but not its unique counterpart"
    /\ status = "incomplete chunk" => torn
    /\ status = "error uncompressing chunk data" =>
          \E k \in DOMAIN input : input[k] \in Oversized

(* The decoder comes to an end.                                            *)
DecoderEnds == status = "decoding" ~> status \notin {"encoding", "decoding"}

===============================================================================
