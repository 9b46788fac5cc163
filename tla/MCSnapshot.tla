----------------------------- MODULE MCSnapshot -----------------------------
EXTENDS Snapshot

\* a step into a prefix, one that writes memory and the keyboard's buffer, and
\* one that touches the devices
MCWrites == {{"cpu", "prefix"}, {"mem", "keyboard", "control"},
             {"io", "disk", "pit", "video", "audio", "graphics"}}
MCWrongSize == {DataSize - 1, DataSize + 1}
=============================================================================
