--------------------------- MODULE MCTranscription ---------------------------
EXTENDS Transcription

MCLength == [mic |-> 1, system |-> 2, file |-> 4]

=============================================================================
