---------------------------- MODULE MCDedupPipeline ----------------------------
(* Small instances of DedupPipeline for TLC.                               *)
EXTENDS DedupPipeline

CONSTANTS a, b

(* Two coarse chunks that share their contents, so that each may be the    *)
(* first to meet either of them.                                           *)
MCInputs == { << <<a, b>>, <<b, a>> >>, << <<a>>, <<a, a>> >>, << <<a, b, a>>, <<b>> >> }

(* One content throughout: all chunks but one are duplicates.              *)
MCDuplicates == { << <<a, a, a, a, a, a, a>> >> }

(* Three coarse chunks, more than twice InitialAnchors.                    *)
MCManyCoarse == { << <<a>>, <<b>>, <<a>> >> }

(* Every other coarse chunk is long, so that one group of threads gets     *)
(* nearly all the chunks.                                                  *)
MCUnbalanced == { << <<a, a, a, a, a, a, a, a>>, <<b>>, <<a>>, <<b>>, <<a>> >> }

===============================================================================
