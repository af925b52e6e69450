--------------------------- MODULE MCFrameDecoder ---------------------------
(***************************************************************************)
(* Pieces of attribute values for FrameDecoder, in the bytes of the wire.  *)
(***************************************************************************)
EXTENDS FrameDecoder

Notifications == {
    Frame(RespStart, 1, <<3, 25, 0>>),                      \* height, 793 mm
    Frame(RespStart, 162, <<1, 2, 3, 4, 5, 6>>),            \* sit/stand time
    Frame(RespStart, 7, <<>>),                              \* no payload
    Frame(RespStart, 1, Frame(RespStart, 7, <<>>)),         \* a frame inside a frame
    Frame(RespStart, 242, <<RespStart, RespStart, 1>>) }    \* start bytes inside

Debris == {
    <<RespStart>>,
    <<RespStart, RespStart>>,
    <<0>>,
    <<FrameEnd>>,
    <<RespStart, RespStart, 1, 3, 3>>,                      \* a frame cut off
    <<RespStart, RespStart, 1, 3, 0, 28, 32, 65, FrameEnd>> }   \* a wrong checksum

NotificationsAndDebris == Notifications \cup Debris
=============================================================================
