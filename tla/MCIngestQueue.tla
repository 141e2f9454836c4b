--------------------------- MODULE MCIngestQueue ---------------------------
(* Two requests for one text, one that records, and the two workers the     *)
(* server starts.                                                           *)
EXTENDS IngestQueue

CONSTANTS e1, e2, ask1, ask2, file, w1, w2

MCEpisode == {e1, e2}
MCRequest == {ask1, ask2, file}
MCParts == [r \in MCRequest |-> IF r = file THEN {e2} ELSE {e1}]
MCRecorder == {file}
MCWorker == {w1, w2}

\* One request alone.
MCAlone == {ask1}
MCAloneParts == [r \in MCAlone |-> {e1}]
MCNoRecorder == {}
=============================================================================
