-------------------------------- MODULE Reads --------------------------------
(* What a reader of the API does: walks over listings and documents, and      *)
(* traces and streams of retrieval runs. They have no state in common.        *)
EXTENDS EvidencePages, TraceReads

ReadsSpec == PagesSpec /\ TraceSpec

\* A reader sees evidence as it was at one moment, and all of it, whatever is
\* published or committed between two of its statements or requests: walks over
\* pages, traces of retrieval runs, and replays of their events (read_page,
\* get_retrieval_run, _sse_stream).
ReadsAreSound == WalkIsSound /\ TraceIsWhole /\ ReplayIsExact
=============================================================================
