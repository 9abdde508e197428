---------------------------- MODULE MCTftpSystem ----------------------------
EXTENDS TftpSystem

\* Two bytes in a block: a full block, then the end of the file, the byte that
\* TFTP_on_read_data takes and does not store, or that byte and one more.
Source2 == <<"a", "b">>
Source3 == <<"a", "b", "c">>
Source4 == <<"a", "b", "c", "d">>
MCSources == {Source2, Source3, Source4}
MCByte == {"a", "b", "c", "d"}
=============================================================================
