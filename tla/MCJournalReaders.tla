-------------------------- MODULE MCJournalReaders --------------------------
(* Two streams that both cover the one object, as the stream of a          *)
(* namespace and the stream of all namespaces do.                          *)
EXTENDS JournalReadersInvariant
CONSTANTS o1
MCObjects == {o1}
MCStreams == {1, 2}
MCCovers == <<{o1}, {o1}>>
MCStages == <<"RequestReceived", "ResponseComplete">>
=============================================================================
