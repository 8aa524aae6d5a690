----------------------------- MODULE MCSequence -----------------------------
EXTENDS Sequence, TLC

\* Two documents with different titles.
MCTitle == "a" :> "a.psd" @@ "b" :> "b.psd"
=============================================================================
