------------------------------ MODULE SerialDedup ------------------------------
(***************************************************************************)
(* What dedup promises: the archive the build without threads writes       *)
(* (SerialIntegratedPipeline).  The chunks of the input are taken in       *)
(* order; the first chunk with some content is archived as compressed      *)
(* data, every later one as the fingerprint of that content.               *)
(***************************************************************************)
EXTENDS Sequences, Naturals

CONSTANTS Inputs,            \* the inputs considered
          TYPE_FINGERPRINT,  \* the two types of record in an archive
          TYPE_COMPRESS

VARIABLES input,    \* the contents of the chunks of the input, in order
          cache,    \* the hashtable: the contents already archived
          archive   \* the records written so far

vars == <<input, cache, archive>>

Record(type, content) == [type |-> type, content |-> content]

Init == input \in Inputs /\ cache = {} /\ archive = <<>>

(* sub_Deduplicate, sub_Compress and write_chunk_to_file on the next chunk.*)
ArchiveChunk ==
    /\ Len(archive) < Len(input)
    /\ LET content == input[Len(archive) + 1] IN
          /\ cache' = cache \cup {content}
          /\ archive' = Append(archive,
                 Record(IF content \in cache THEN TYPE_FINGERPRINT ELSE TYPE_COMPRESS, content))
    /\ UNCHANGED input

Spec == Init /\ [][ArchiveChunk]_vars

===============================================================================
