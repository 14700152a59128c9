----------------------------- MODULE MCServers -----------------------------
(***************************************************************************)
(* An instance of Servers: two clients, of five pairs of kinds.            *)
(***************************************************************************)
EXTENDS Servers

CONSTANTS c1, c2

kinds == {[c \in {c1, c2} |-> IF c = c1 THEN pair[1] ELSE pair[2]] :
              pair \in {<<"rtsp", "rtsp">>, <<"rtsp", "mpegts">>, <<"rtsp", "rtmp">>,
                        <<"mpegts", "rtmp">>, <<"rtmp", "rtmp">>}}
=============================================================================
