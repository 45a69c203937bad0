---------------------------- MODULE MCShimWorker ----------------------------
(* Cameras and frame sizes of the instances. *)
EXTENDS ShimWorker

Small == <<640, 480>>
Full == <<1920, 1080>>
Large == <<2560, 1440>>

(* The default limits. *)
FullCap == Full

(* One with more than it may use, one whose firmware refuses what it lists *)
(* and lists H264 first, and one with nothing within the cap.              *)
Plain ==
    [order |-> <<"MJPG", "YUYV">>, refused |-> {},
     lists |-> [MJPG |-> {Large, Full, Small}, YUYV |-> {Small}]]
Stubborn ==
    [order |-> <<"H264", "MJPG">>, refused |-> {Mode("MJPG", Full)},
     lists |-> [H264 |-> {Full}, MJPG |-> {Full, Small}]]
Oversized ==
    [order |-> <<"GREY">>, refused |-> {}, lists |-> [GREY |-> {Large}]]

SomeCameras == {Plain, Stubborn, Oversized}

ModeBytes == [m \in Modes |-> IF m.size = Small THEN 1 ELSE 2]
=============================================================================
