----------------------------- MODULE MCProcess -----------------------------
(* Handlers for model-checking Process: two readers, so that readers can   *)
(* follow one another while a writer waits; main and the snapshot goroutine *)
(* are writers too. All requests come from one address.                    *)
EXTENDS Process

OneWriter == {"write1"}
TwoReaders == {"read1", "read2"}
OneAddress == [h \in Handlers |-> "here"]
=============================================================================
