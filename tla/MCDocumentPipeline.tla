------------------------ MODULE MCDocumentPipeline ------------------------
(* DocumentPipeline on small sets of workers, documents and versions. *)
EXTENDS DocumentPipeline, TLC

\* Every processing job and every deletion job there can be.
MCJob == Document \X (0 .. MaxVersion)

Symmetry == Permutations(Worker)
=============================================================================
