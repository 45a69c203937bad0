----------------------------- MODULE Negotiation -----------------------------
(***************************************************************************)
(* Which capture mode configure_source asks a camera for, and in which     *)
(* order.  A camera is a record: `order` is the order in which it          *)
(* enumerates its pixel formats, `lists` the frame sizes it lists for each *)
(* (none when they cannot be enumerated), `refused` the modes it lists and *)
(* never agrees to.  A mode is a pixel format and a frame size.            *)
(***************************************************************************)
EXTENDS Integers, Sequences, Functions

Compressed == {"MJPG", "JPEG", "H264", "HEVC", "MPEG", "MPG1", "MPG2", "MPG4"}

Uncompressed == <<"YUYV", "UYVY", "NV12", "NV21", "RGB3", "BGR3">>

Fallbacks == <<<<1920, 1080>>, <<1280, 720>>, <<1280, 960>>, <<640, 480>>>>

(* Sizes are listed for the formats that are enumerated, and none is empty. *)
Extent == Nat \ {0}

IsCamera(cam) ==
    /\ cam.order \in Seq(DOMAIN cam.lists)
    /\ DOMAIN cam.lists \subseteq Range(cam.order)
    /\ \A f \in DOMAIN cam.lists : cam.lists[f] \subseteq Extent \X Extent

Mode(fourcc, size) == [fourcc |-> fourcc, size |-> size]

Listed(cam, fourcc) ==
    IF fourcc \in DOMAIN cam.lists THEN cam.lists[fourcc] ELSE {}

ModesOf(cam) ==
    UNION {{Mode(f, s) : s \in cam.lists[f]} : f \in DOMAIN cam.lists}

WithinCap(size, cap) == size[1] <= cap[1] /\ size[2] <= cap[2]

Area(size) == size[1] * size[2]

(* capture_fourcc_candidates: what is put on the list for every camera,    *)
(* and in front of it and behind it the current format.  The code drops    *)
(* repetitions, which would be answered as before.                         *)
Known(cam) == <<"MJPG">> \o cam.order \o Uncompressed

Candidates(cam, current) == <<current>> \o Known(cam) \o <<current>>

(* The places that count: up to the end of the enumerated formats only     *)
(* those of compressed ones.  (A format that is put on the list only if    *)
(* its sizes are listed has nothing to ask for if they are not.)           *)
Tried(cam, current) ==
    {n \in DOMAIN Candidates(cam, current) :
        n <= Len(cam.order) + 2 => Candidates(cam, current)[n] \in Compressed}

(* Mutant: the smallest first. *)
MutantLarger(s, t) ==
    \/ Area(s) < Area(t)
    \/ Area(s) = Area(t) /\ s[1] > t[1]

Larger(s, t) ==
    \/ Area(s) > Area(t)
    \/ Area(s) = Area(t) /\ s[1] > t[1]

Kept(cam, fourcc, cap) == {s \in Listed(cam, fourcc) : WithinCap(s, cap)}

(* The sizes tried for a pixel format: those listed within the cap, or the *)
(* fallbacks when all that are listed exceed it.                           *)
Sizes(cam, fourcc, cap) ==
    IF Kept(cam, fourcc, cap) # {} \/ Listed(cam, fourcc) = {}
      THEN Kept(cam, fourcc, cap)
      ELSE {s \in Range(Fallbacks) : WithinCap(s, cap)}

(* The order they are tried in. *)
Sooner(cam, fourcc, cap, s, t) ==
    IF Kept(cam, fourcc, cap) # {} THEN Larger(s, t)
      ELSE \E i, j \in DOMAIN Fallbacks :
              i < j /\ Fallbacks[i] = s /\ Fallbacks[j] = t

(* The driver's answer to VIDIOC_S_FMT: the size it lists that is nearest. *)
Distance(s, t) == (s[1] - t[1]) * (s[1] - t[1]) + (s[2] - t[2]) * (s[2] - t[2])

Answer(cam, ask) ==
    LET sizes == Listed(cam, ask.fourcc)
    IN  Mode(ask.fourcc,
             CHOOSE s \in sizes :
                \A t \in sizes : Distance(s, ask.size) <= Distance(t, ask.size))

(* The sizes that the camera will agree to, if not refused for no reason.  *)
Usable(cam, fourcc, cap) ==
    {s \in Sizes(cam, fourcc, cap) : Answer(cam, Mode(fourcc, s)) \notin cam.refused}

(* Nothing usable comes before this size of the format in place n. *)
IsFirst(cam, current, cap, n, size) ==
    LET list == Candidates(cam, current)
    IN  /\ \A t \in Usable(cam, list[n], cap) \ {size} : Sooner(cam, list[n], cap, size, t)
        /\ \A k \in Tried(cam, current) : k < n => Usable(cam, list[k], cap) = {}

(* The modes configure_source may come back with: the first the camera     *)
(* agrees to, or a later one when calls fail that would have succeeded.    *)
(* The answer is not compared with what was asked for.                     *)
Outcomes(cam, current, cap, faulty) ==
    {m \in ModesOf(cam) :
        \E n \in Tried(cam, current) :
            \E s \in Usable(cam, Candidates(cam, current)[n], cap) :
                /\ m = Answer(cam, Mode(Candidates(cam, current)[n], s))
                /\ faulty \/ IsFirst(cam, current, cap, n, s)}

-----------------------------------------------------------------------------
(* What the outcome is meant to be, without the order of the attempts *)

Acceptable(cam, fourcc, cap) ==
    {s \in Listed(cam, fourcc) :
        WithinCap(s, cap) /\ Mode(fourcc, s) \notin cam.refused}

(* The cameras the documentation speaks of: every pixel format has a size  *)
(* within the cap, or MJPEG is the only compressed one.                    *)
Fits(cam, cap) ==
    \A f \in DOMAIN cam.lists : \E s \in cam.lists[f] : WithinCap(s, cap)

OnlyMjpeg(cam) == Range(cam.order) \cap Compressed \subseteq {"MJPG"}

(* It is the largest the format has within the cap, and MJPEG if any size  *)
(* of that is acceptable and no other compressed format takes its place.   *)
Best(cam, m, cap) ==
    /\ \A s \in Acceptable(cam, m.fourcc, cap) : Area(s) <= Area(m.size)
    /\ OnlyMjpeg(cam) /\ m.fourcc # "MJPG" => Acceptable(cam, "MJPG", cap) = {}
=============================================================================
