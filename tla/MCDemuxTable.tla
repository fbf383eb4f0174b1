---------------------------- MODULE MCDemuxTable ----------------------------
(* Small instances of the demux table for TLC.                              *)
EXTENDS DemuxTable

CONSTANTS main, hw, telnet, pat, pmt

MCThreads == {main, hw, telnet}
MCPids == {pat, pmt}
=============================================================================
