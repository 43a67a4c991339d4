------------------------------- MODULE MCElfHash -------------------------------
(* Names of up to four characters, ASCII or not.                           *)
EXTENDS ElfHash, SequencesExt

Bytes == {1, 48, 97, 127, 128, 200, 255}
MCNames == BoundedSeq(Bytes, 4)

=============================================================================
