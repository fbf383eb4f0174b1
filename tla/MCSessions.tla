---------------------------- MODULE MCSessions ----------------------------
(* Small instances of the sessions for TLC.                                 *)
EXTENDS Sessions, TLC

CONSTANTS s1, s2, d1, d2, web1

OneSession == {s1}
TwoSessions == {s1, s2}
TwoDests == {d1, d2}
OneWeb == {web1}
WebAndTelnet == {web1, Telnet}
BothKinds == {"http", "live"}
HttpKind == {"http"}
LiveKind == {"live"}
UrlAndHttp == {"url", "http"}
NoKinds == {}
OneChannel == {"bbc"}
Symmetry == Permutations(TwoSessions) \cup Permutations(TwoDests)
=============================================================================
