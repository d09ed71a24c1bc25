-------------------------- MODULE DedupRoundTripProofs --------------------------
(***************************************************************************)
(* Proofs about DedupRoundTrip: dedup -u gives back what dedup -c was      *)
(* given, for every input, wherever the encoder is stopped.                *)
(***************************************************************************)
EXTENDS DedupRoundTrip, SequenceTheorems, TLAPS

Contents == {input[k] : k \in DOMAIN input}

Types == {TYPE_FINGERPRINT, TYPE_COMPRESS}

TypeOK ==
    /\ input \in Seq(Contents)
    /\ archive \in Seq([type : Types, content : Contents])
    /\ output \in Seq(Contents)
    /\ torn \in BOOLEAN
    /\ nread \in 0 .. Len(archive)

(* The hashtable holds the contents of the chunks archived.                *)
CacheOK == cache = {input[k] : k \in 1 .. Len(archive)}

(* Record k stands for chunk k, and a fingerprint only stands for a chunk  *)
(* that an earlier one equals.                                             *)
ArchiveOK ==
    /\ Len(archive) <= Len(input)
    /\ \A k \in 1 .. Len(archive) :
          /\ archive[k].content = input[k]
          /\ archive[k].type = TYPE_FINGERPRINT =>
                 \E j \in 1 .. (k - 1) : input[j] = input[k]

(* What the decoder has written and what it knows.                         *)
OutputOK ==
    /\ Len(output) = nread
    /\ \A k \in 1 .. nread : output[k] = input[k] /\ input[k] \in entries

(* A torn record is never passed.                                          *)
TornOK == torn => nread < Len(archive)

(* The decoder begins after the encoder, and ends after the last record.   *)
PhaseOK ==
    /\ status = "encoding" => nread = 0 /\ ~torn
    /\ status = "done" => nread = Len(archive)

IndInv ==
    /\ TypeOK /\ CacheOK /\ ArchiveOK /\ OutputOK /\ TornOK /\ PhaseOK
    /\ ErrorsAreJustified

-------------------------------------------------------------------------------
LEMMA InitInv == Init => IndInv
<1> SUFFICES ASSUME Init
             PROVE  IndInv
  OBVIOUS
<1>1. input \in Seq(Contents)
  BY RoundTripAssumption DEF Init, Encoder!Init, Contents
<1>2. /\ archive = <<>> /\ cache = {} /\ torn = FALSE /\ nread = 0 /\ output = <<>>
      /\ status = "encoding" /\ Len(archive) = 0
  BY DEF Init, Encoder!Init
<1>3. TypeOK
  <2>1. <<>> \in Seq([type : Types, content : Contents]) /\ <<>> \in Seq(Contents)
    BY EmptySeq
  <2>2. nread \in 0 .. Len(archive)
    BY <1>2
  <2> QED
    BY <1>1, <1>2, <2>1, <2>2, Zenon DEF TypeOK
<1>4. CacheOK /\ ArchiveOK /\ OutputOK
  BY <1>1, <1>2 DEF CacheOK, ArchiveOK, OutputOK
<1> QED
  BY <1>2, <1>3, <1>4 DEF IndInv, TornOK, PhaseOK, ErrorsAreJustified

(* The encoder archives one chunk more.                                    *)
LEMMA EncodeInv ==
    ASSUME IndInv, Encode
    PROVE  IndInv'
<1> USE DEF IndInv
<1> DEFINE n == Len(archive)
           c == input[n + 1]
           r == Encoder!Record(IF c \in cache THEN TYPE_FINGERPRINT ELSE TYPE_COMPRESS, c)
<1>1. /\ n \in Nat /\ n < Len(input) /\ cache' = cache \cup {c} /\ archive' = Append(archive, r)
      /\ status = "encoding" /\ UNCHANGED <<input, torn, nread, entries, output, status>>
  BY DEF Encode, Encoder!ArchiveChunk, TypeOK
<1>2. c \in Contents /\ r \in [type : Types, content : Contents]
  BY <1>1 DEF TypeOK, Contents, Types, Encoder!Record
<1>3. /\ archive' \in Seq([type : Types, content : Contents])
      /\ Len(archive') = n + 1 /\ archive'[n + 1] = r
      /\ \A k \in 1 .. n : archive'[k] = archive[k]
  BY <1>1, <1>2 DEF TypeOK
<1>4. Contents' = Contents
  BY <1>1 DEF Contents
<1>5. TypeOK'
  BY <1>1, <1>3, <1>4 DEF TypeOK
<1>6. CacheOK'
  BY <1>1, <1>3 DEF CacheOK
<1>7. ArchiveOK'
  <2>1. r.content = c /\ (r.type = TYPE_FINGERPRINT => \E j \in 1 .. n : input[j] = c)
    BY RoundTripAssumption DEF CacheOK, Encoder!Record
  <2>2. \A k \in 1 .. n + 1 : k \in 1 .. n \/ k = n + 1
    BY <1>1
  <2> QED
    BY <1>1, <1>3, <2>1, <2>2 DEF ArchiveOK
<1>8. OutputOK' /\ TornOK' /\ PhaseOK' /\ ErrorsAreJustified'
  BY <1>1, <1>3 DEF TypeOK, OutputOK, TornOK, PhaseOK, ErrorsAreJustified
<1> QED
  BY <1>5, <1>6, <1>7, <1>8

(* What the decoder reads of a whole record is chunk nread + 1.            *)
LEMMA ReadsOK ==
    ASSUME IndInv, DecoderPart!Reads
    PROVE  /\ nread + 1 \in 1 .. Len(archive)
           /\ torn => nread + 1 < Len(archive)
           /\ DecoderPart!Record.content = input[nread + 1]
           /\ DecoderPart!Record.type = TYPE_FINGERPRINT => input[nread + 1] \in entries
           /\ input[nread + 1] \in Contents /\ status = "decoding"
<1>1. /\ nread \in Nat /\ Len(archive) \in Nat /\ status = "decoding"
      /\ nread < Len(archive) - (IF torn THEN 1 ELSE 0)
  BY DEF IndInv, TypeOK, DecoderPart!Reads
<1>2. nread + 1 \in 1 .. Len(archive) /\ (torn => nread + 1 < Len(archive))
  BY <1>1
<1>3. DecoderPart!Record.content = input[nread + 1] /\ input[nread + 1] \in Contents
  BY <1>2 DEF IndInv, TypeOK, ArchiveOK, DecoderPart!Record, Contents
<1>4. DecoderPart!Record.type = TYPE_FINGERPRINT => input[nread + 1] \in entries
  <2> SUFFICES ASSUME archive[nread + 1].type = TYPE_FINGERPRINT
               PROVE  input[nread + 1] \in entries
    BY DEF DecoderPart!Record
  <2>1. PICK k \in 1 .. Len(archive) : k = nread + 1
    BY <1>2
  <2>2. PICK j \in 1 .. (k - 1) : input[j] = input[k]
    BY <2>1 DEF IndInv, ArchiveOK
  <2>3. j \in 1 .. nread
    BY <1>1, <2>1, <2>2
  <2> QED
    BY <2>1, <2>2, <2>3 DEF IndInv, OutputOK
<1> QED
  BY <1>1, <1>2, <1>3, <1>4

(* It writes that chunk.                                                   *)
LEMMA WriteInv ==
    ASSUME IndInv, DecoderPart!Reads, nread' = nread + 1,
           output' = Append(output, input[nread + 1]),
           entries \cup {input[nread + 1]} \subseteq entries',
           UNCHANGED <<input, cache, archive, torn, status>>
    PROVE  IndInv'
<1> USE DEF IndInv
<1> DEFINE c == input[nread + 1]
<1>1. /\ nread + 1 \in 1 .. Len(archive) /\ (torn => nread + 1 < Len(archive))
      /\ c \in Contents /\ status = "decoding" /\ nread \in Nat
  BY ReadsOK DEF TypeOK
<1>2. /\ output' \in Seq(Contents) /\ Len(output') = nread + 1 /\ output'[nread + 1] = c
      /\ \A k \in 1 .. nread : output'[k] = output[k]
  BY <1>1 DEF TypeOK, OutputOK
<1>3. TypeOK' /\ CacheOK' /\ ArchiveOK'
  BY <1>1, <1>2 DEF TypeOK, CacheOK, ArchiveOK, Contents
<1>4. OutputOK'
  <2>1. \A k \in 1 .. nread + 1 : k \in 1 .. nread \/ k = nread + 1
    BY <1>1
  <2> QED
    BY <1>1, <1>2, <2>1 DEF OutputOK
<1>5. TornOK' /\ PhaseOK' /\ ErrorsAreJustified'
  BY <1>1 DEF TornOK, PhaseOK, ErrorsAreJustified
<1> QED
  BY <1>3, <1>4, <1>5

LEMMA DecodeInv ==
    ASSUME IndInv, Decode
    PROVE  IndInv'
<1> USE DEF IndInv
<1>0. UNCHANGED <<input, cache, archive, torn>>
  BY DEF Decode, DecoderPart!Decode, DecoderPart!EndOfArchive, DecoderPart!IncompleteRecord,
         DecoderPart!DecodeData, DecoderPart!DecodeFingerprint
<1>1. CASE DecoderPart!EndOfArchive \/ DecoderPart!IncompleteRecord
  <2>1. UNCHANGED <<nread, entries, output>>
    BY <1>1 DEF DecoderPart!EndOfArchive, DecoderPart!IncompleteRecord
  <2>2. TypeOK' /\ CacheOK' /\ ArchiveOK' /\ OutputOK' /\ TornOK'
    BY <1>0, <2>1 DEF TypeOK, CacheOK, ArchiveOK, OutputOK, TornOK, Contents
  <2>3. PhaseOK' /\ ErrorsAreJustified'
    BY <1>0, <1>1, <2>1
    DEF DecoderPart!EndOfArchive, DecoderPart!IncompleteRecord, PhaseOK, ErrorsAreJustified
  <2> QED
    BY <2>2, <2>3
<1>2. CASE DecoderPart!DecodeData /\ DecoderPart!Record.content \in Oversized
  <2>1. /\ status' = "error uncompressing chunk data" /\ UNCHANGED <<nread, entries, output>>
        /\ DecoderPart!Reads
    BY <1>2 DEF DecoderPart!DecodeData
  <2>2. \E k \in DOMAIN input : input[k] \in Oversized
    BY <1>2, <2>1, ReadsOK DEF Contents
  <2> QED
    BY <1>0, <2>1, <2>2
    DEF TypeOK, CacheOK, ArchiveOK, OutputOK, TornOK, PhaseOK, ErrorsAreJustified, Contents
<1>3. CASE DecoderPart!DecodeData /\ DecoderPart!Record.content \notin Oversized
  <2>1. /\ DecoderPart!Reads /\ nread' = nread + 1 /\ UNCHANGED status
        /\ entries' = entries \cup {DecoderPart!Record.content}
        /\ output' = Append(output, DecoderPart!Record.content)
    BY <1>3 DEF DecoderPart!DecodeData
  <2>2. DecoderPart!Record.content = input[nread + 1]
    BY <2>1, ReadsOK
  <2> QED
    BY <1>0, <2>1, <2>2, WriteInv
<1>4. CASE DecoderPart!DecodeFingerprint
  <2>1. /\ DecoderPart!Reads /\ DecoderPart!Record.type = TYPE_FINGERPRINT
        /\ UNCHANGED entries
    BY <1>4 DEF DecoderPart!DecodeFingerprint
  <2>2. /\ DecoderPart!Record.content = input[nread + 1]
        /\ input[nread + 1] \in entries
    BY <2>1, ReadsOK
  <2>3. /\ nread' = nread + 1 /\ UNCHANGED status
        /\ output' = Append(output, DecoderPart!Record.content)
    BY <1>4, <2>2 DEF DecoderPart!DecodeFingerprint
  <2> QED
    BY <1>0, <2>1, <2>2, <2>3, WriteInv
<1> QED
  BY <1>1, <1>2, <1>3, <1>4 DEF Decode, DecoderPart!Decode

LEMMA StepInv == IndInv /\ [Next]_vars => IndInv'
<1> SUFFICES ASSUME IndInv, [Next]_vars
             PROVE  IndInv'
  OBVIOUS
<1>1. CASE StartDecoder \/ StoppedInRecord \/ UNCHANGED vars
  <2>1. UNCHANGED <<input, cache, archive, nread, entries, output>>
    BY <1>1 DEF StartDecoder, StoppedInRecord, vars
  <2>2. \/ UNCHANGED <<torn, status>>
        \/ status = "encoding" /\ status' = "decoding" /\ torn' = torn
        \/ status = "encoding" /\ status' = "decoding" /\ torn' = TRUE /\ archive # <<>>
    BY <1>1 DEF StartDecoder, StoppedInRecord, vars
  <2>3. archive # <<>> => 0 < Len(archive)
    BY EmptySeq DEF IndInv, TypeOK
  <2>4. TypeOK' /\ CacheOK' /\ ArchiveOK' /\ OutputOK'
    BY <2>1, <2>2 DEF IndInv, TypeOK, CacheOK, ArchiveOK, OutputOK, Contents
  <2>5. TornOK'
    BY <2>1, <2>2, <2>3 DEF IndInv, TornOK, PhaseOK
  <2>6. PhaseOK'
    BY <2>1, <2>2 DEF IndInv, PhaseOK
  <2>7. ErrorsAreJustified'
    BY <2>1, <2>2 DEF IndInv, ErrorsAreJustified
  <2> QED
    BY <2>4, <2>5, <2>6, <2>7 DEF IndInv
<1> QED
  BY <1>1, EncodeInv, DecodeInv DEF Next

(* Every reachable state satisfies the inductive invariant.                *)
THEOREM IndInvHolds == Spec => []IndInv
BY InitInv, StepInv, PTL DEF Spec

-------------------------------------------------------------------------------
(* The decoder never writes anything but the beginning of the input,       *)
(* wherever the encoder was stopped and whatever chunks are repeated       *)
(* (decoder.c:220-262).                                                    *)
THEOREM OutputIsPrefixHolds == Spec => []OutputIsPrefix
<1>1. ASSUME IndInv
      PROVE  OutputIsPrefix
  <2> DEFINE n == Len(output)
  <2>1. n \in Nat /\ n <= Len(input) /\ Len(input) \in Nat
    BY <1>1 DEF IndInv, TypeOK, ArchiveOK, OutputOK
  <2>2. \A k \in 1 .. n : input[k] \in Contents /\ output[k] = input[k]
    BY <1>1, <2>1 DEF IndInv, TypeOK, OutputOK
  <2>3. /\ SubSeq(input, 1, n) \in Seq(Contents) /\ Len(SubSeq(input, 1, n)) = n
        /\ \A k \in 1 .. n : SubSeq(input, 1, n)[k] = input[k]
    BY <2>1, <2>2, SubSeqProperties
  <2>4. output = SubSeq(input, 1, n)
    BY <1>1, <2>2, <2>3, SeqEqual DEF IndInv, TypeOK
  <2> QED
    BY <2>1, <2>4 DEF OutputIsPrefix
<1> QED
  BY <1>1, IndInvHolds, PTL

(* A decoder that ends without an error has written every chunk archived.  *)
THEOREM RoundTripHolds == Spec => []RoundTrip
<1>1. IndInv => RoundTrip
  BY DEF IndInv, TypeOK, OutputOK, TornOK, PhaseOK, RoundTrip
<1> QED
  BY <1>1, IndInvHolds, PTL

(* The decoder never misses the first copy of a chunk, and every error it  *)
(* reports has a cause in the archive (decoder.c:126, 243).                *)
THEOREM ErrorsAreJustifiedHolds == Spec => []ErrorsAreJustified
<1>1. IndInv => ErrorsAreJustified
  BY DEF IndInv
<1> QED
  BY <1>1, IndInvHolds, PTL

===============================================================================
