-------------------------------- MODULE Decoder --------------------------------
(***************************************************************************)
(* dedup -u (decoder.c): read the records of an archive one by one, write  *)
(* out the data of each, and keep it in a hashtable for the fingerprints   *)
(* that refer to it later.  The archive may end in the middle of a record. *)
(***************************************************************************)
EXTENDS Integers, Sequences

CONSTANTS TYPE_FINGERPRINT, TYPE_COMPRESS,
          Oversized    \* the contents longer than UNCOMPRESS_BOUND

VARIABLES archive,   \* the records of the archive
          torn,      \* TRUE if the last of them is incomplete
          nread,     \* how many of them have been read
          entries,   \* the hashtable: the contents decoded so far
          output,    \* the contents written to the output file, in order
          status     \* what Decode does, or the message it exited with

Record == archive[nread + 1]

(* read_chunk at the end of the file.                                      *)
EndOfArchive ==
    /\ status = "decoding" /\ nread = Len(archive)
    /\ status' = "done"
    /\ UNCHANGED <<archive, torn, nread, entries, output>>

(* Faulty variant: takes a torn record for the end of the file.           *)
IncompleteRecord_Done ==
    /\ status = "decoding" /\ nread + 1 = Len(archive) /\ torn
    /\ status' = "done"
    /\ UNCHANGED <<archive, torn, nread, entries, output>>

(* Faulty variant: tries to read on at the end of the file.               *)
IncompleteRecord_Retry ==
    /\ status = "decoding" /\ nread + 1 = Len(archive) /\ torn
    /\ UNCHANGED <<archive, torn, nread, entries, output, status>>

(* read_chunk finds the end of the file inside a record.                   *)
IncompleteRecord ==
    /\ status = "decoding" /\ nread + 1 = Len(archive) /\ torn
    /\ status' = "incomplete chunk"
    /\ UNCHANGED <<archive, torn, nread, entries, output>>

(* read_chunk gets a whole record.                                         *)
Reads == status = "decoding" /\ nread < Len(archive) - (IF torn THEN 1 ELSE 0)

(* Faulty variant: does not enter the chunk in the hashtable.             *)
DecodeData_NoInsert ==
    /\ Reads /\ Record.type = TYPE_COMPRESS /\ Record.content \notin Oversized
    /\ nread' = nread + 1
    /\ output' = Append(output, Record.content)
    /\ UNCHANGED <<archive, torn, entries, status>>

(* A record with data: uncompress_chunk, enter it in the hashtable, write. *)
DecodeData ==
    /\ Reads /\ Record.type = TYPE_COMPRESS
    /\ IF Record.content \in Oversized
       THEN /\ status' = "error uncompressing chunk data"
            /\ UNCHANGED <<nread, entries, output>>
       ELSE /\ nread' = nread + 1
            /\ entries' = entries \cup {Record.content}
            /\ output' = Append(output, Record.content)
            /\ UNCHANGED status
    /\ UNCHANGED <<archive, torn>>

(* Faulty variant: writes only the chunks that come with their data.      *)
DecodeFingerprint_NoWrite ==
    /\ Reads /\ Record.type = TYPE_FINGERPRINT /\ Record.content \in entries
    /\ nread' = nread + 1
    /\ UNCHANGED <<archive, torn, entries, output, status>>

(* A record with a fingerprint: write the data that the hashtable has.     *)
DecodeFingerprint ==
    /\ Reads /\ Record.type = TYPE_FINGERPRINT
    /\ IF Record.content \notin entries
       THEN /\ status' = "duplicate chunk but not its unique counterpart"
            /\ UNCHANGED <<nread, output>>
       ELSE /\ nread' = nread + 1
            /\ output' = Append(output, Record.content)
            /\ UNCHANGED status
    /\ UNCHANGED <<archive, torn, entries>>

Decode == EndOfArchive \/ IncompleteRecord \/ DecodeData \/ DecodeFingerprint

===============================================================================
