--------------------------- MODULE ShimWorkerProofs ---------------------------
(***************************************************************************)
(* Theorems about ShimWorker, for any cameras, frame sizes and limits:     *)
(* the output stream is used in order, and the worker implements both the  *)
(* life of an output stream and the contract the supervisor relies on; the *)
(* mode configure_source comes back with is the best one and stays it, and *)
(* it comes back with none only if there is none.                          *)
(***************************************************************************)
EXTENDS ShimWorker, SequenceTheorems, WellFoundedInduction, TLAPS

-----------------------------------------------------------------------------
(* Lemmas about Negotiation *)

(* The list of candidates differs from one current format to another only  *)
(* in its first and its last place.                                        *)
LEMMA CandidateAt ==
    ASSUME NEW cam, IsCamera(cam), NEW current
    PROVE  /\ DOMAIN Candidates(cam, current) = 1..Len(cam.order) + 9
           /\ Candidates(cam, current)[1] = current
           /\ Candidates(cam, current)[Len(cam.order) + 9] = current
           /\ \A n \in 2..Len(cam.order) + 8 :
                 Candidates(cam, current)[n] = Known(cam)[n - 1]
           /\ \A i \in DOMAIN cam.order : Known(cam)[i + 1] = cam.order[i]
<1> DEFINE S == DOMAIN cam.lists \cup {current, "MJPG"} \cup Range(Uncompressed)
           head == <<"MJPG">> \o cam.order
           tail == <<current>> \o Known(cam)
<1>1. /\ cam.order \in Seq(S) /\ Len(cam.order) \in Nat
      /\ DOMAIN cam.order = 1..Len(cam.order)
  BY DEF IsCamera
<1>2. <<"MJPG">> \in Seq(S) /\ <<current>> \in Seq(S) /\ Uncompressed \in Seq(S)
  <2>1. Uncompressed \in Seq(Range(Uncompressed))
    BY DEF Uncompressed, Range
  <2> QED BY <2>1
<1>3. Len(Uncompressed) = 6
  BY DEF Uncompressed
<1>4. /\ head \in Seq(S) /\ Len(head) = Len(cam.order) + 1
      /\ \A i \in DOMAIN cam.order : head[i + 1] = cam.order[i]
  BY <1>1, <1>2, ConcatProperties
<1>5. /\ Known(cam) \in Seq(S) /\ Len(Known(cam)) = Len(cam.order) + 7
      /\ \A i \in 1..Len(head) : Known(cam)[i] = head[i]
  <2>1. Known(cam) = head \o Uncompressed
    BY DEF Known
  <2> HIDE DEF head, S
  <2>2. /\ head \o Uncompressed \in Seq(S)
        /\ Len(head \o Uncompressed) = Len(head) + Len(Uncompressed)
        /\ \A i \in 1..Len(head) + Len(Uncompressed) :
              (head \o Uncompressed)[i] =
                 IF i <= Len(head) THEN head[i] ELSE Uncompressed[i - Len(head)]
    BY <1>2, <1>4, ConcatProperties, Zenon
  <2>3. Len(Known(cam)) = Len(cam.order) + 7
    BY <1>1, <1>3, <1>4, <2>1, <2>2
  <2>4. ASSUME NEW i \in 1..Len(head) PROVE Known(cam)[i] = head[i]
    BY <1>1, <1>3, <1>4, <2>1, <2>2
  <2> QED BY <2>1, <2>2, <2>3, <2>4
<1>6. /\ tail \in Seq(S) /\ Len(tail) = Len(cam.order) + 8
      /\ tail[1] = current
      /\ \A n \in 2..Len(tail) : tail[n] = Known(cam)[n - 1]
  BY <1>1, <1>2, <1>5, ConcatProperties
<1>7. /\ Candidates(cam, current) \in Seq(S)
      /\ Len(Candidates(cam, current)) = Len(cam.order) + 9
      /\ \A n \in 1..Len(tail) : Candidates(cam, current)[n] = tail[n]
      /\ Candidates(cam, current)[Len(cam.order) + 9] = current
  BY <1>1, <1>2, <1>6, ConcatProperties DEF Candidates
<1> HIDE DEF S, head, tail
<1>8. DOMAIN Candidates(cam, current) = 1..Len(cam.order) + 9
  BY <1>1, <1>7
<1>9. \A n \in 2..Len(cam.order) + 8 :
         Candidates(cam, current)[n] = Known(cam)[n - 1]
  BY <1>1, <1>6, <1>7
<1>10. \A i \in DOMAIN cam.order : Known(cam)[i + 1] = cam.order[i]
  BY <1>1, <1>4, <1>5
<1> QED BY <1>1, <1>6, <1>7, <1>8, <1>9, <1>10

(* The uncompressed ones that are always on it come last. *)
LEMMA KnownTail ==
    ASSUME NEW cam, IsCamera(cam), NEW j \in 1..6
    PROVE  Known(cam)[Len(cam.order) + 1 + j] = Uncompressed[j]
<1> DEFINE S == DOMAIN cam.lists \cup {"MJPG"} \cup Range(Uncompressed)
           head == <<"MJPG">> \o cam.order
<1>1. cam.order \in Seq(S) /\ Len(cam.order) \in Nat
  BY DEF IsCamera
<1>2. <<"MJPG">> \in Seq(S) /\ Uncompressed \in Seq(S) /\ Len(Uncompressed) = 6
  <2>1. Uncompressed \in Seq(Range(Uncompressed)) /\ Len(Uncompressed) = 6
    BY DEF Uncompressed, Range
  <2> QED BY <2>1
<1>3. head \in Seq(S) /\ Len(head) = Len(cam.order) + 1
  BY <1>1, <1>2, ConcatProperties
<1>4. Known(cam) = head \o Uncompressed
  BY DEF Known
<1> HIDE DEF head, S
<1>5. \A i \in 1..Len(head) + Len(Uncompressed) :
         (head \o Uncompressed)[i] =
            IF i <= Len(head) THEN head[i] ELSE Uncompressed[i - Len(head)]
  BY <1>2, <1>3, ConcatProperties, Zenon
<1>6. PICK n \in Int : n = Len(cam.order) + 1 + j
  BY <1>1
<1>7. /\ n \in 1..Len(head) + Len(Uncompressed)
      /\ ~ (n <= Len(head)) /\ n - Len(head) = j
  BY <1>1, <1>2, <1>3, <1>6
<1>8. (head \o Uncompressed)[n] = Uncompressed[n - Len(head)]
  BY <1>5, <1>7
<1> QED BY <1>4, <1>6, <1>7, <1>8

(* An answer has the pixel format that was asked for, and the size too if  *)
(* the camera lists it.                                                    *)
LEMMA AnswerFormat ==
    ASSUME NEW cam, NEW f, NEW s
    PROVE  Answer(cam, Mode(f, s)).fourcc = f
BY DEF Answer, Mode

(* The arithmetic of a distance. *)
LEMMA SquareNotNegative ==
    ASSUME NEW a \in Nat, NEW b \in Nat
    PROVE  /\ (a - b) * (a - b) \in Nat
           /\ (a - b) * (a - b) = 0 => a = b
<1>1. CASE a >= b
  <2>1. PICK d \in Nat : a - b = d
    BY <1>1
  <2> QED BY <2>1
<1>2. CASE a < b
  <2>1. PICK d \in Nat : b - a = d /\ a - b = -d
    BY <1>2
  <2>2. (-d) * (-d) = d * d
    OBVIOUS
  <2> QED BY <1>2, <2>1, <2>2
<1> QED BY <1>1, <1>2

(* Distance is zero from a size to itself only. *)
LEMMA DistanceZero ==
    ASSUME NEW s \in Nat \X Nat, NEW t \in Nat \X Nat
    PROVE  /\ Distance(s, t) \in Nat
           /\ Distance(s, t) = 0 <=> s = t
<1> DEFINE X == (s[1] - t[1]) * (s[1] - t[1])
           Y == (s[2] - t[2]) * (s[2] - t[2])
<1>1. X \in Nat /\ (X = 0 => s[1] = t[1])
  BY SquareNotNegative
<1>2. Y \in Nat /\ (Y = 0 => s[2] = t[2])
  BY SquareNotNegative
<1>3. Distance(s, t) = X + Y
  BY DEF Distance
<1>4. s = t => X = 0 /\ Y = 0
  OBVIOUS
<1> HIDE DEF X, Y
<1> QED BY <1>1, <1>2, <1>3, <1>4

LEMMA AnswerExact ==
    ASSUME NEW cam, IsCamera(cam), NEW f, NEW s \in Listed(cam, f)
    PROVE  Answer(cam, Mode(f, s)) = Mode(f, s)
<1>1. Listed(cam, f) \subseteq Nat \X Nat
  BY DEF IsCamera, Extent, Listed
<1> DEFINE Nearest(u) == \A t \in Listed(cam, f) : Distance(u, s) <= Distance(t, s)
<1>2. Nearest(s)
  BY <1>1, DistanceZero
<1>3. ASSUME NEW u \in Listed(cam, f), Nearest(u) PROVE u = s
  <2>1. Distance(u, s) <= Distance(s, s)
    BY <1>3
  <2> QED BY <1>1, <2>1, DistanceZero
<1>4. (CHOOSE u \in Listed(cam, f) : Nearest(u)) = s
  BY <1>2, <1>3
<1>5. Mode(f, s).fourcc = f /\ Mode(f, s).size = s
  BY DEF Mode
<1> QED BY <1>4, <1>5 DEF Answer

(* Of two sizes only one can be tried before the other. *)
LEMMA SoonerAsymmetric ==
    ASSUME NEW cam, IsCamera(cam), NEW f, NEW cap,
           NEW s \in Sizes(cam, f, cap), NEW t \in Sizes(cam, f, cap),
           Sooner(cam, f, cap, s, t), Sooner(cam, f, cap, t, s)
    PROVE  FALSE
<1>1. CASE Kept(cam, f, cap) # {}
  <2>1. s \in Nat \X Nat /\ t \in Nat \X Nat
    BY <1>1 DEF Sizes, Kept, Listed, IsCamera, Extent
  <2>2. Area(s) \in Int /\ Area(t) \in Int /\ s[1] \in Int /\ t[1] \in Int
    BY <2>1 DEF Area
  <2>3. Larger(s, t) /\ Larger(t, s)
    BY <1>1 DEF Sooner
  <2> QED BY <2>2, <2>3 DEF Larger
<1>2. CASE Kept(cam, f, cap) = {}
  BY <1>2 DEF Sooner, Fallbacks
<1> QED BY <1>1, <1>2

(* What configure_source comes back with is the answer to something usable *)
(* that it asked for.                                                      *)
LEMMA OutcomeUsable ==
    ASSUME NEW cam, NEW current, NEW cap, NEW refusing,
           NEW m \in Outcomes(cam, current, cap, refusing)
    PROVE  \E n \in Tried(cam, current), s \in Usable(cam, m.fourcc, cap) :
              /\ m.fourcc = Candidates(cam, current)[n]
              /\ m = Answer(cam, Mode(m.fourcc, s))
              /\ refusing \/ IsFirst(cam, current, cap, n, s)
<1>1. PICK n \in Tried(cam, current) :
         \E s \in Usable(cam, Candidates(cam, current)[n], cap) :
            /\ m = Answer(cam, Mode(Candidates(cam, current)[n], s))
            /\ refusing \/ IsFirst(cam, current, cap, n, s)
  BY DEF Outcomes
<1>2. PICK s \in Usable(cam, Candidates(cam, current)[n], cap) :
            /\ m = Answer(cam, Mode(Candidates(cam, current)[n], s))
            /\ refusing \/ IsFirst(cam, current, cap, n, s)
  BY <1>1
<1>3. m.fourcc = Candidates(cam, current)[n]
  BY <1>2, AnswerFormat
<1> QED BY <1>2, <1>3

(* A pixel format that has sizes within the cap is used in one of them.    *)
CapHonoured(cam, m, cap) ==
    /\ m \in ModesOf(cam)
    /\ \/ WithinCap(m.size, cap)
       \/ \A s \in Listed(cam, m.fourcc) : ~WithinCap(s, cap)

(* No outcome exceeds the cap in a format that has sizes within it, not    *)
(* even if calls fail.                                                     *)
LEMMA OutcomeWithinCap ==
    ASSUME NEW cam, IsCamera(cam), NEW current, NEW cap, NEW refusing,
           NEW m \in Outcomes(cam, current, cap, refusing)
    PROVE  CapHonoured(cam, m, cap)
<1>1. PICK s \in Usable(cam, m.fourcc, cap) : m = Answer(cam, Mode(m.fourcc, s))
  BY OutcomeUsable
<1>4. m \in ModesOf(cam)
  BY DEF Outcomes
<1>2. CASE Kept(cam, m.fourcc, cap) # {}
  <2>1. s \in Listed(cam, m.fourcc) /\ WithinCap(s, cap)
    BY <1>2 DEF Usable, Sizes, Kept
  <2>2. m = Mode(m.fourcc, s)
    BY <1>1, <2>1, AnswerExact
  <2>3. m.size = s
    BY <2>2 DEF Mode
  <2> QED BY <1>4, <2>1, <2>3 DEF CapHonoured
<1>3. CASE Kept(cam, m.fourcc, cap) = {}
  BY <1>3, <1>4 DEF Kept, CapHonoured
<1> QED BY <1>2, <1>3

(* An acceptable size is usable. *)
LEMMA AcceptableUsable ==
    ASSUME NEW cam, IsCamera(cam), NEW f, NEW cap, NEW s \in Acceptable(cam, f, cap)
    PROVE  /\ s \in Usable(cam, f, cap) /\ s \in Kept(cam, f, cap)
           /\ f \in DOMAIN cam.lists
<1>1. s \in Listed(cam, f) /\ WithinCap(s, cap) /\ Mode(f, s) \notin cam.refused
  BY DEF Acceptable
<1>2. s \in Kept(cam, f, cap) /\ s \in Sizes(cam, f, cap)
  BY <1>1 DEF Kept, Sizes
<1>3. f \in DOMAIN cam.lists
  BY <1>1 DEF Listed
<1> QED BY <1>1, <1>2, <1>3, AnswerExact DEF Usable

(* Unless calls fail the outcome is the best one. *)
LEMMA OutcomeBest ==
    ASSUME NEW cam, IsCamera(cam), NEW current, NEW cap,
           NEW m \in Outcomes(cam, current, cap, FALSE)
    PROVE  Best(cam, m, cap)
<1>1. PICK n \in Tried(cam, current), s \in Usable(cam, m.fourcc, cap) :
              /\ m.fourcc = Candidates(cam, current)[n]
              /\ m = Answer(cam, Mode(m.fourcc, s))
              /\ IsFirst(cam, current, cap, n, s)
  BY OutcomeUsable
<1>2. ASSUME NEW t \in Acceptable(cam, m.fourcc, cap)
      PROVE  Area(t) <= Area(m.size)
  <2>1. t \in Usable(cam, m.fourcc, cap) /\ Kept(cam, m.fourcc, cap) # {}
    BY AcceptableUsable
  <2>2. s \in Kept(cam, m.fourcc, cap) /\ t \in Kept(cam, m.fourcc, cap)
    BY <2>1 DEF Usable, Sizes
  <2>3. s \in Listed(cam, m.fourcc) /\ s \in Nat \X Nat /\ t \in Nat \X Nat
    BY <2>2 DEF Kept, Listed, IsCamera, Extent
  <2>4. m.size = s
    BY <1>1, <2>3, AnswerExact DEF Mode
  <2>5. t = s \/ Larger(s, t)
    BY <1>1, <2>1 DEF IsFirst, Sooner
  <2>6. Area(s) \in Int /\ Area(t) \in Int
    BY <2>3 DEF Area
  <2> QED BY <2>4, <2>5, <2>6 DEF Larger
<1>3. ASSUME m.fourcc \notin Compressed, NEW f \in Compressed
      PROVE  Acceptable(cam, f, cap) = {}
  <2> SUFFICES ASSUME NEW t \in Acceptable(cam, f, cap) PROVE FALSE
    OBVIOUS
  <2>1. f \in DOMAIN cam.lists /\ Usable(cam, f, cap) # {}
    BY AcceptableUsable
  <2>2. Len(cam.order) \in Nat /\ DOMAIN cam.order = 1..Len(cam.order)
    BY DEF IsCamera
  <2>3. PICK i \in DOMAIN cam.order : cam.order[i] = f
    BY <2>1 DEF IsCamera, Range
  <2>4. Candidates(cam, current)[i + 2] = f
    BY <2>2, <2>3, CandidateAt
  <2>5. i + 2 \in Tried(cam, current)
    BY <2>2, <2>4, CandidateAt DEF Tried
  <2>6. i + 2 < n
    BY <1>1, <1>3, <2>2, CandidateAt DEF Tried
  <2> QED BY <1>1, <2>1, <2>4, <2>5, <2>6 DEF IsFirst
<1>4. ASSUME OnlyMjpeg(cam), m.fourcc # "MJPG"
      PROVE  Acceptable(cam, "MJPG", cap) = {}
  <2>1. m.fourcc \in Range(cam.order)
    BY DEF Outcomes, ModesOf, Mode, IsCamera
  <2>2. m.fourcc \notin Compressed
    BY <1>4, <2>1 DEF OnlyMjpeg
  <2> QED BY <1>3, <2>2 DEF Compressed
<1> QED BY <1>2, <1>4 DEF Best

(* And it is stable: asked again from the mode it has left the camera in,  *)
(* configure_source comes back with the same mode.                         *)
LEMMA OutcomeStable ==
    ASSUME NEW cam, IsCamera(cam), NEW current, NEW cap,
           NEW m \in Outcomes(cam, current, cap, FALSE),
           NEW again \in Outcomes(cam, m.fourcc, cap, FALSE)
    PROVE  again = m
<1> DEFINE last == Len(cam.order) + 9
           f == m.fourcc
           g == again.fourcc
<1>1. PICK n \in Tried(cam, current), s \in Usable(cam, f, cap) :
              /\ f = Candidates(cam, current)[n]
              /\ m = Answer(cam, Mode(f, s))
              /\ IsFirst(cam, current, cap, n, s)
  BY OutcomeUsable
<1>2. PICK k \in Tried(cam, f), t \in Usable(cam, g, cap) :
              /\ g = Candidates(cam, f)[k]
              /\ again = Answer(cam, Mode(g, t))
              /\ IsFirst(cam, f, cap, k, t)
  BY OutcomeUsable
<1> HIDE DEF f, g
<1>3. /\ Len(cam.order) \in Nat
      /\ n \in 1..last /\ k \in 1..last
      /\ n <= last - 7 => f \in Compressed
      /\ k <= last - 7 => g \in Compressed
  BY <1>1, <1>2, CandidateAt DEF Tried, IsCamera
<1>4. /\ Candidates(cam, f)[1] = f /\ Candidates(cam, f)[last] = f
      /\ \A j \in 2..last - 1 :
            Candidates(cam, f)[j] = Candidates(cam, current)[j]
  BY <1>3, CandidateAt
<1>5. Usable(cam, f, cap) # {} /\ Usable(cam, g, cap) # {}
  BY <1>1, <1>2
<1>6. g = f
  <2>1. CASE f \in Compressed
    <3>1. 1 \in Tried(cam, f)
      BY <1>3, <1>4, <2>1, CandidateAt DEF Tried
    <3>2. ~(1 < k)
      BY <1>2, <1>4, <1>5, <3>1 DEF IsFirst
    <3> QED BY <1>2, <1>3, <1>4, <3>2
  <2>2. CASE f \notin Compressed
    <3>1. n > last - 7
      BY <1>3, <2>2
    <3>2. CASE k = 1 \/ k = last
      BY <1>2, <1>4, <3>2
    <3>3. CASE k \in 2..last - 1
      <4>1. Candidates(cam, current)[k] = g
        BY <1>2, <1>4, <3>3
      <4>2. k \in Tried(cam, current)
        BY <1>3, <4>1, CandidateAt DEF Tried
      <4>3. ~(k < n)
        BY <1>1, <1>5, <4>1, <4>2 DEF IsFirst
      <4>4. CASE k = n
        BY <1>1, <4>1, <4>4
      <4>5. CASE n < k
        <5>1. n \in 2..last - 1
          BY <1>3, <3>1, <3>3, <4>5
        <5>2. Candidates(cam, f)[n] = f
          BY <1>1, <1>4, <5>1
        <5>3. n \in Tried(cam, f)
          BY <1>3, <2>2, <3>1, <5>2, CandidateAt DEF Tried
        <5> QED BY <1>2, <1>5, <4>5, <5>2, <5>3 DEF IsFirst
      <4> QED BY <1>3, <4>3, <4>4, <4>5
    <3> QED BY <1>3, <3>2, <3>3
  <2> QED BY <2>1, <2>2
<1>7. s = t
  <2> SUFFICES ASSUME s # t PROVE FALSE
    OBVIOUS
  <2>1. Sooner(cam, f, cap, s, t) /\ Sooner(cam, f, cap, t, s)
    BY <1>1, <1>2, <1>6 DEF IsFirst
  <2> QED BY <1>1, <1>2, <1>6, <2>1, SoonerAsymmetric DEF Usable
<1> QED BY <1>1, <1>2, <1>6, <1>7

(* A set of natural numbers has a least one. *)
LEMMA LeastInSet ==
    ASSUME NEW T \in SUBSET Nat, T # {}
    PROVE  \E n \in T : \A m \in T : n <= m
<1> DEFINE R == OpToRel(<, Nat)
<1>1. IsWellFoundedOn(R, Nat)
  BY NatLessThanWellFounded
<1>2. PICK n \in T : \A m \in T : ~ (<<m, n>> \in R)
  <2> HIDE DEF R
  <2> QED BY <1>1, WFMin, Zenon
<1>3. ASSUME NEW m \in T PROVE n <= m
  <2>1. <<m, n>> \in Nat \X Nat
    OBVIOUS
  <2>2. R = {p \in Nat \X Nat : p[1] < p[2]}
    BY DEF OpToRel
  <2> HIDE DEF R
  <2>3. m < n => <<m, n>> \in R
    BY <2>1, <2>2
  <2>4. ~ (m < n)
    BY <1>2, <2>3
  <2> QED BY <2>4
<1> QED BY <1>3

(* Two facts of arithmetic. *)
LEMMA ProductWithin ==
    ASSUME NEW a \in Nat, NEW b \in Nat, NEW c \in Nat, NEW d \in Nat, a <= c, b <= d
    PROVE  a * b <= c * d
<1>1. a * b <= c * b
  <2>1. (c - a) * b >= 0
    BY SMT
  <2> QED BY <2>1
<1>2. c * b <= c * d
  <2>1. c * (d - b) >= 0
    BY SMT
  <2> QED BY <2>1
<1> QED BY <1>1, <1>2

LEMMA Cancel ==
    ASSUME NEW a \in Nat \ {0}, NEW b \in Nat, NEW c \in Nat, a * b = a * c
    PROVE  b = c
<1>1. a * (b - c) = 0
  OBVIOUS
<1> QED BY <1>1

(* Something in a set is least by a measure. *)
LEMMA LeastMeasure ==
    ASSUME NEW U, U # {}, NEW measure \in [U -> Nat]
    PROVE  \E x \in U : \A y \in U : measure[x] <= measure[y]
<1> DEFINE T == {measure[x] : x \in U}
<1>1. T \in SUBSET Nat /\ T # {}
  OBVIOUS
<1>2. PICK n \in T : \A m \in T : n <= m
  <2> HIDE DEF T
  <2> QED BY <1>1, LeastInSet
<1> QED BY <1>2

(* The driver answers with a mode it has if it has any. *)
LEMMA AnswerListed ==
    ASSUME NEW cam, IsCamera(cam), NEW f, Listed(cam, f) # {},
           NEW s \in Nat \X Nat
    PROVE  Answer(cam, Mode(f, s)) \in ModesOf(cam)
<1> DEFINE U == Listed(cam, f)
           far == [u \in U |-> Distance(u, s)]
           Nearest(u) == \A t \in U : Distance(u, s) <= Distance(t, s)
<1>1. f \in DOMAIN cam.lists /\ U = cam.lists[f] /\ U \subseteq Nat \X Nat
  BY DEF Listed, IsCamera, Extent
<1>2. far \in [U -> Nat]
  BY <1>1, DistanceZero
<1>3. PICK u \in U : \A t \in U : far[u] <= far[t]
  <2> HIDE DEF far, U
  <2> QED BY <1>2, LeastMeasure DEF U
<1>4. Nearest(u)
  BY <1>3
<1> DEFINE size == CHOOSE t \in U : Nearest(t)
<1>5. size \in U
  <2> HIDE DEF U, Nearest
  <2> QED BY <1>3, <1>4
<1>6. Answer(cam, Mode(f, s)) = Mode(f, size)
  BY DEF Answer, Mode
<1> HIDE DEF size
<1> QED BY <1>1, <1>5, <1>6 DEF ModesOf

(* The order of sizes has a first one among any within the cap. *)
LEMMA LargestExists ==
    ASSUME NEW cap \in Nat \X Nat, NEW U \in SUBSET (Extent \X Extent), U # {},
           \A s \in U : WithinCap(s, cap)
    PROVE  \E s \in U : \A t \in U \ {s} : Larger(s, t)
<1>1. \A u \in U : /\ u[1] \in Nat \ {0} /\ u[2] \in Nat \ {0}
                   /\ u = <<u[1], u[2]>>
                   /\ u[1] <= cap[1] /\ u[2] <= cap[2]
  BY DEF WithinCap, Extent
<1>2. \A u \in U : Area(u) \in Nat
  BY <1>1 DEF Area
<1>3. cap[1] * cap[2] \in Nat /\ cap[1] \in Nat
  OBVIOUS
<1> DEFINE B == cap[1] * cap[2]
           left == [u \in U |-> B - Area(u)]
<1>4. left \in [U -> Nat]
  <2> SUFFICES ASSUME NEW u \in U PROVE B - Area(u) \in Nat
    OBVIOUS
  <2>1. Area(u) <= B
    BY <1>1, ProductWithin DEF Area
  <2> HIDE DEF B
  <2> QED BY <1>2, <1>3, <2>1 DEF B
<1>5. PICK a \in U : \A u \in U : left[a] <= left[u]
  <2> HIDE DEF left
  <2> QED BY <1>4, LeastMeasure
<1>6. \A u \in U : Area(u) <= Area(a)
  <2> HIDE DEF B
  <2> QED BY <1>2, <1>3, <1>5 DEF B
<1> DEFINE V == {u \in U : Area(u) = Area(a)}
           narrow == [u \in V |-> cap[1] - u[1]]
<1>7. narrow \in [V -> Nat]
  BY <1>1, <1>3
<1>8. PICK s \in V : \A u \in V : narrow[s] <= narrow[u]
  <2>1. V # {}
    OBVIOUS
  <2> HIDE DEF narrow, V
  <2> QED BY <1>7, <2>1, LeastMeasure
<1>9. \A u \in V : u[1] <= s[1]
  BY <1>1, <1>3, <1>8
<1>10. ASSUME NEW t \in U \ {s} PROVE Larger(s, t)
  <2>1. CASE Area(t) = Area(s)
    <3>1. t \in V /\ t[1] <= s[1]
      BY <1>9, <2>1
    <3>2. t[1] # s[1]
      <4> SUFFICES ASSUME t[1] = s[1] PROVE FALSE
        OBVIOUS
      <4>1. t[1] * t[2] = t[1] * s[2]
        BY <2>1 DEF Area
      <4>2. t[2] = s[2]
        BY <1>1, <4>1, Cancel
      <4> QED BY <1>1, <4>2
    <3> QED BY <1>1, <2>1, <3>1, <3>2 DEF Larger
  <2>2. CASE Area(t) # Area(s)
    BY <1>2, <1>6, <2>2 DEF Larger
  <2> QED BY <2>1, <2>2
<1> QED BY <1>8, <1>10

(* So has the order of the sizes that are usable for a pixel format. *)
LEMMA FirstUsable ==
    ASSUME NEW cam, IsCamera(cam), NEW cap \in Nat \X Nat, NEW f,
           Usable(cam, f, cap) # {}
    PROVE  \E s \in Usable(cam, f, cap) :
              \A t \in Usable(cam, f, cap) \ {s} : Sooner(cam, f, cap, s, t)
<1> DEFINE U == Usable(cam, f, cap)
<1>1. CASE Kept(cam, f, cap) # {}
  <2>1. U \subseteq Kept(cam, f, cap)
    BY <1>1 DEF Usable, Sizes
  <2>2. U \in SUBSET (Extent \X Extent) /\ \A s \in U : WithinCap(s, cap)
    BY <2>1 DEF Kept, Listed, IsCamera
  <2>3. PICK s \in U : \A t \in U \ {s} : Larger(s, t)
    <3> HIDE DEF U
    <3> QED BY <2>2, LargestExists DEF U
  <2> QED BY <1>1, <2>3 DEF Sooner
<1>2. CASE Kept(cam, f, cap) = {}
  <2> DEFINE T == {i \in DOMAIN Fallbacks : Fallbacks[i] \in U}
  <2>1. U \subseteq Range(Fallbacks)
    BY <1>2 DEF Usable, Sizes
  <2>2. DOMAIN Fallbacks \subseteq Nat
    BY DEF Fallbacks
  <2>3. T \in SUBSET Nat /\ T # {}
    BY <2>1, <2>2 DEF Range
  <2>4. PICK i \in T : \A j \in T : i <= j
    <3> HIDE DEF T
    <3> QED BY <2>3, LeastInSet
  <2>5. ASSUME NEW t \in U \ {Fallbacks[i]}
        PROVE  Sooner(cam, f, cap, Fallbacks[i], t)
    <3>1. PICK j \in T : Fallbacks[j] = t
      BY <2>1 DEF Range
    <3>2. i < j
      BY <2>2, <2>4, <3>1
    <3> QED BY <1>2, <3>1, <3>2 DEF Sooner
  <2> QED BY <2>5
<1> QED BY <1>1, <1>2

(* If anything that is tried is usable, configure_source comes back with   *)
(* a mode.                                                                 *)
LEMMA OutcomeExists ==
    ASSUME NEW cam, IsCamera(cam), NEW cap \in Nat \X Nat, NEW current,
           NEW refusing,
           NEW place \in Tried(cam, current),
           Usable(cam, Candidates(cam, current)[place], cap) # {}
    PROVE  Outcomes(cam, current, cap, refusing) # {}
<1> DEFINE T == {k \in Tried(cam, current) :
                    Usable(cam, Candidates(cam, current)[k], cap) # {}}
<1>1. T \in SUBSET Nat /\ T # {}
  <2>1. Len(cam.order) \in Nat
    BY DEF IsCamera
  <2>2. DOMAIN Candidates(cam, current) = 1..Len(cam.order) + 9
    BY CandidateAt
  <2>3. Tried(cam, current) \subseteq Nat
    BY <2>1, <2>2 DEF Tried
  <2> QED BY <2>3
<1>2. PICK n \in T : \A k \in T : n <= k
  <2> HIDE DEF T
  <2> QED BY <1>1, LeastInSet
<1> DEFINE f == Candidates(cam, current)[n]
<1>3. PICK s \in Usable(cam, f, cap) :
         \A t \in Usable(cam, f, cap) \ {s} : Sooner(cam, f, cap, s, t)
  <2>1. Usable(cam, f, cap) # {}
    OBVIOUS
  <2> HIDE DEF f
  <2> QED BY <2>1, FirstUsable
<1>4. IsFirst(cam, current, cap, n, s)
  <2>1. ASSUME NEW k \in Tried(cam, current), k < n
        PROVE  Usable(cam, Candidates(cam, current)[k], cap) = {}
    <3>1. k \notin T
      BY <1>1, <1>2, <2>1
    <3> QED BY <3>1
  <2> QED BY <1>3, <2>1 DEF IsFirst
<1>5. Listed(cam, f) # {} /\ s \in Nat \X Nat
  <2>1. CASE Kept(cam, f, cap) # {}
    <3>1. s \in Listed(cam, f)
      BY <2>1 DEF Usable, Sizes, Kept
    <3> HIDE DEF f
    <3> QED BY <3>1 DEF Listed, IsCamera, Extent
  <2>2. CASE Kept(cam, f, cap) = {}
    <3>1. Listed(cam, f) # {} /\ s \in Range(Fallbacks)
      BY <2>2 DEF Usable, Sizes
    <3> QED BY <3>1 DEF Fallbacks, Range
  <2> QED BY <2>1, <2>2
<1>6. Answer(cam, Mode(f, s)) \in ModesOf(cam)
  <2> HIDE DEF f
  <2> QED BY <1>5, AnswerListed
<1> QED BY <1>3, <1>4, <1>6 DEF Outcomes

(* The pixel formats configure_source knows to ask for. *)
Asked(current) == Compressed \cup Range(Uncompressed) \cup {current}

LEMMA AskedIsTried ==
    ASSUME NEW cam, IsCamera(cam), NEW current, NEW f \in Asked(current),
           f \in DOMAIN cam.lists
    PROVE  \E n \in Tried(cam, current) : Candidates(cam, current)[n] = f
<1>1. Len(cam.order) \in Nat /\ DOMAIN cam.order = 1..Len(cam.order)
  BY DEF IsCamera
<1>2. /\ \A n \in 2..Len(cam.order) + 8 :
            Candidates(cam, current)[n] = Known(cam)[n - 1]
      /\ \A i \in DOMAIN cam.order : Known(cam)[i + 1] = cam.order[i]
      /\ \A j \in 1..6 :
            Known(cam)[Len(cam.order) + 1 + j] = Uncompressed[j]
  BY CandidateAt, KnownTail
<1>3. CASE f \in Compressed
  <2>1. PICK i \in DOMAIN cam.order : cam.order[i] = f
    BY DEF IsCamera, Range
  <2>2. Candidates(cam, current)[i + 2] = f
    <3>1. PICK n \in Int : n = i + 2
      BY <1>1
    <3>2. n \in 2..Len(cam.order) + 8 /\ n - 1 = i + 1
      BY <1>1, <3>1
    <3>3. Candidates(cam, current)[n] = Known(cam)[n - 1]
      BY <1>2, <3>2
    <3> QED BY <1>2, <2>1, <3>1, <3>2, <3>3
  <2>3. i + 2 \in Tried(cam, current)
    BY <1>1, <1>3, <2>2, CandidateAt DEF Tried
  <2> QED BY <2>2, <2>3
<1>4. CASE f \in Range(Uncompressed)
  <2>1. PICK j \in 1..6 : Uncompressed[j] = f
    BY <1>4 DEF Uncompressed, Range
  <2>2. Known(cam)[Len(cam.order) + 1 + j] = f
    BY <1>2, <2>1
  <2>3. Len(cam.order) + 2 + j \in 2..Len(cam.order) + 8
    BY <1>1
  <2>4. Candidates(cam, current)[Len(cam.order) + 2 + j] = f
    <3>1. PICK n \in Int : n = Len(cam.order) + 2 + j
      BY <1>1
    <3>2. n \in 2..Len(cam.order) + 8 /\ n - 1 = Len(cam.order) + 1 + j
      BY <1>1, <3>1
    <3>3. Candidates(cam, current)[n] = Known(cam)[n - 1]
      BY <1>2, <3>2
    <3> QED BY <2>2, <3>1, <3>2, <3>3
  <2>5. Len(cam.order) + 2 + j \in Tried(cam, current)
    BY <1>1, <2>3, CandidateAt DEF Tried
  <2> QED BY <2>4, <2>5
<1>5. CASE f = current
  <2>1. Candidates(cam, current)[Len(cam.order) + 9] = f
    BY <1>5, CandidateAt
  <2>2. Len(cam.order) + 9 \in Tried(cam, current)
    BY <1>1, CandidateAt DEF Tried
  <2> QED BY <2>1, <2>2
<1> QED BY <1>3, <1>4, <1>5 DEF Asked

(* It comes back with none only if no such format has an acceptable size.  *)
LEMMA OutcomeUnlessNone ==
    ASSUME NEW cam, IsCamera(cam), NEW cap \in Nat \X Nat, NEW current,
           NEW refusing, NEW f \in Asked(current), Acceptable(cam, f, cap) # {}
    PROVE  Outcomes(cam, current, cap, refusing) # {}
<1>1. PICK s \in Acceptable(cam, f, cap) : TRUE
  OBVIOUS
<1>2. s \in Usable(cam, f, cap) /\ f \in DOMAIN cam.lists
  BY <1>1, AcceptableUsable
<1>3. PICK n \in Tried(cam, current) : Candidates(cam, current)[n] = f
  BY <1>2, AskedIsTried
<1> QED BY <1>2, <1>3, OutcomeExists

-----------------------------------------------------------------------------
(* The inductive invariant of the streams *)

(* Which descriptors are open, and how far the output stream has come,     *)
(* follow from where the worker is.                                        *)
FdsOK ==
    /\ fds = "none" <=> pc \in {"spawned", "top", "done"}
    /\ fds = "target" <=> pc = "source"

OutOK ==
    /\ out = "Unprimed" <=> pc \in FirstFrame
    /\ out \in {"Ready", "Streaming"} <=> pc \in Relaying \cup Reopening

IInv == TypeOK /\ FdsOK /\ OutOK

USE DEF Opening, FirstFrame, Relaying, Reopening, Pc

LEMMA AgeType ==
    /\ 0 \in 0..Stale + 1
    /\ \A n \in 0..Stale + 1 : Older(n) \in 0..Stale + 1
BY ShimAssumption DEF Older

(* Every mode of the camera at hand is one of the instance, and has a size. *)
LEMMA ModeType ==
    ASSUME camera \in Cameras
    PROVE  /\ ModesOf(camera) \subseteq Modes
           /\ \A m \in ModesOf(camera) :
                 m.fourcc \in Fourccs /\ Bytes[m] \in Nat
<1>1. ModesOf(camera) \subseteq Modes
  BY DEF Modes
<1>2. ASSUME NEW m \in ModesOf(camera) PROVE m.fourcc \in Fourccs /\ Bytes[m] \in Nat
  BY <1>1, ShimAssumption DEF Fourccs
<1> QED BY <1>1, <1>2

LEMMA NegotiatedType ==
    ASSUME TypeOK
    PROVE  Negotiated \subseteq ModesOf(camera)
<1>1. mode.fourcc \in Fourccs /\ faulty \in BOOLEAN
  BY ModeType DEF TypeOK
<1>2. answers \in [Fourccs \X BOOLEAN -> SUBSET ModesOf(camera)]
  BY DEF TypeOK
<1>3. answers[<<mode.fourcc, faulty>>] \in SUBSET ModesOf(camera)
  BY <1>1, <1>2
<1> QED BY <1>3 DEF Negotiated

LEMMA InitInv == Init => IInv
<1> SUFFICES ASSUME Init PROVE IInv
  OBVIOUS
<1>1. TypeOK
  <2>1. 0 \in 0..Polls
    BY ShimAssumption
  <2>2. answers \in [Fourccs \X BOOLEAN -> SUBSET ModesOf(camera)]
    <3>1. \A n \in Fourccs \X BOOLEAN :
             Outcomes(camera, n[1], Cap, n[2]) \in SUBSET ModesOf(camera)
      BY DEF Outcomes
    <3>2. answers = [n \in Fourccs \X BOOLEAN |-> Outcomes(camera, n[1], Cap, n[2])]
      BY DEF Init
    <3> QED BY <3>1, <3>2
  <2> QED BY <2>1, <2>2, AgeType DEF Init, TypeOK
<1>2. FdsOK /\ OutOK
  BY DEF Init, FdsOK, OutOK
<1> QED BY <1>1, <1>2 DEF IInv

LEMMA EnvironmentInv == IInv /\ Environment => IInv'
<1> SUFFICES ASSUME IInv, Environment PROVE IInv'
  OBVIOUS
<1>1. TypeOK'
  <2> USE DEF IInv, TypeOK, devVars, envVars, WorkerSame
  <2>1. CASE Plug
    <3>1. plugged' \in BOOLEAN
      BY <2>1 DEF Plug
    <3> QED BY <2>1, <3>1 DEF Plug
  <2>7. CASE Unplug
    <3>1. plugged' \in BOOLEAN
      BY <2>7 DEF Unplug
    <3> QED BY <2>7, <3>1 DEF Unplug, ModeSame, modeVars
  <2>2. CASE ToggleFrames \/ ToggleFaults
    <3>1. flowing' \in BOOLEAN /\ faulty' \in BOOLEAN
      BY <2>2 DEF ToggleFrames, ToggleFaults
    <3>2. /\ UNCHANGED <<pc, run, devVars, sinceBeat, sinceFrame, plugged, loopback>>
          /\ UNCHANGED modeVars
      BY <2>2 DEF ToggleFrames, ToggleFaults, ModeSame
    <3> QED BY <3>1, <3>2 DEF modeVars
  <2>3. CASE AddLoopback \/ RemoveLoopback
    <3>1. loopback' \in BOOLEAN
      BY <2>3 DEF AddLoopback, RemoveLoopback
    <3>2. UNCHANGED <<pc, run, devVars, modeVars, sinceBeat, sinceFrame,
                      plugged, flowing, faulty>>
      BY <2>3 DEF AddLoopback, RemoveLoopback, ModeSame
    <3> QED BY <3>1, <3>2 DEF modeVars
  <2>4. CASE Stop
    <3>1. run' \in BOOLEAN
      BY <2>4 DEF Stop
    <3>2. UNCHANGED <<pc, devVars, modeVars, sinceBeat, sinceFrame, envVars>>
      BY <2>4 DEF Stop
    <3> QED BY <3>1, <3>2 DEF modeVars
  <2>5. CASE Tick
    BY <2>5, AgeType DEF Tick, modeVars
  <2>6. CASE OthersSetMode
    <3>1. steady' \in BOOLEAN
      BY <2>6 DEF OthersSetMode
    <3> QED BY <2>6, <3>1 DEF OthersSetMode
  <2> QED BY <2>1, <2>2, <2>3, <2>4, <2>5, <2>6, <2>7 DEF Environment
<1>2. UNCHANGED <<pc, devVars>>
  BY DEF Environment, Plug, Unplug, ToggleFrames, ToggleFaults, AddLoopback,
         RemoveLoopback, Stop, Tick, OthersSetMode, WorkerSame
<1> QED BY <1>1, <1>2 DEF IInv, FdsOK, OutOK, devVars

(* Every way to leave run_shim_once, or the thread, is one of these two. *)
LEMMA EndInv ==
    ASSUME IInv, GiveUp \/ Finish, Touch \/ NoTouch
    PROVE  IInv'
<1>1. Dropped /\ pc' \in {"top", "done"} /\ Calm
  BY DEF GiveUp, Finish
<1>2. sinceBeat' \in 0..Stale + 1
  BY AgeType DEF Touch, NoTouch, IInv, TypeOK
<1>3. 0 \in 0..Polls
  BY ShimAssumption
<1>4. TypeOK'
  BY <1>1, <1>2, <1>3 DEF Dropped, Calm, envVars, IInv, TypeOK
<1>5. FdsOK' /\ OutOK'
  BY <1>1 DEF Dropped, FdsOK, OutOK
<1> QED BY <1>4, <1>5 DEF IInv

LEMMA StepInv == IInv /\ (Step \/ Panic) => IInv'
<1> SUFFICES ASSUME IInv, Step \/ Panic PROVE IInv'
  OBVIOUS
<1> USE AgeType, ShimAssumption DEF Quiet, Calm, ModeSame, Touch, NoTouch, envVars,
                                   devVars, modeVars
<1>1. CASE \/ Leave \/ AttemptFails \/ SourceFails \/ NegotiateFails
           \/ StopFormatted \/ OpenStreamsFails \/ StopFirst \/ FirstFails
           \/ PrimeFails \/ StopSession \/ StopPaused \/ ReopenFails \/ Panic
  <2>1. (GiveUp \/ Finish) /\ (Touch \/ NoTouch)
    BY <1>1 DEF Leave, AttemptFails, SourceFails, NegotiateFails,
         StopFormatted, OpenStreamsFails, StopFirst, FirstFails, PrimeFails,
         StopSession, StopPaused, ReopenFails, Panic, Finish
  <2> QED BY <2>1, EndInv
<1>2. CASE Enter \/ Attempt \/ OpenSource
  BY <1>2 DEF Enter, Attempt, OpenSource, IInv, TypeOK, FdsOK, OutOK
<1>3. CASE Negotiate \/ Renegotiate
  <2>1. mode' \in ModesOf(camera)
    BY <1>3, NegotiatedType DEF Negotiate, Renegotiate, IInv
  <2>2. fmt' \in Modes \cup {None}
    BY <1>3, NegotiatedType, ModeType DEF Negotiate, Renegotiate, IInv, TypeOK
  <2>3. steady' \in BOOLEAN
    BY <1>3 DEF Negotiate, Renegotiate
  <2>4. TypeOK'
    BY <1>3, <2>1, <2>2, <2>3 DEF Negotiate, Renegotiate, IInv, TypeOK
  <2>5. FdsOK' /\ OutOK'
    BY <1>3 DEF Negotiate, Renegotiate, IInv, FdsOK, OutOK
  <2> QED BY <2>4, <2>5 DEF IInv
<1>4. CASE OpenStreams
  BY <1>4 DEF OpenStreams, IInv, TypeOK, FdsOK, OutOK
<1>5. CASE PollFirst \/ AwaitFrame \/ Pause \/ Reopen
  BY <1>5 DEF PollFirst, AwaitFrame, Pause, Reopen, IInv, TypeOK, FdsOK, OutOK
<1>6. CASE FirstArrives \/ FrameArrives
  <2>1. frame' \in Nat
    <3>1. Bytes[mode] \in Nat
      BY ModeType DEF IInv, TypeOK
    <3>2. frame' \in Frames
      BY <1>6 DEF FirstArrives, FrameArrives
    <3> QED BY <3>1, <3>2 DEF Frames
  <2> QED BY <1>6, <2>1 DEF FirstArrives, FrameArrives, IInv, TypeOK, FdsOK, OutOK
<1>7. CASE FirstTimesOut
  BY <1>7 DEF FirstTimesOut, IInv, TypeOK, FdsOK, OutOK
<1>8. CASE Prime \/ Submit \/ SubmitSkipped
  BY <1>8 DEF Prime, Submit, SubmitSkipped, IInv, TypeOK, FdsOK, OutOK
<1>9. CASE FrameFails \/ SubmitFails
  BY <1>9 DEF FrameFails, SubmitFails, SessionError, IInv, TypeOK, FdsOK, OutOK
<1> QED
  BY <1>1, <1>2, <1>3, <1>4, <1>5, <1>6, <1>7, <1>8, <1>9 DEF Step

LEMMA NextInv == IInv /\ [Next]_vars => IInv'
<1> SUFFICES ASSUME IInv, [Next]_vars PROVE IInv'
  OBVIOUS
<1>1. CASE UNCHANGED vars
  BY <1>1 DEF vars, devVars, modeVars, envVars, IInv, TypeOK, FdsOK, OutOK
<1> QED
  BY <1>1, EnvironmentInv, StepInv DEF Next

LEMMA InvAlways == Spec => []IInv
BY InitInv, NextInv, PTL DEF Spec

(* Every variable stays in its type; the poll counter in particular never  *)
(* outruns the deadline.                                                   *)
THEOREM TypeCorrect == Spec => []TypeOK
<1>1. IInv => TypeOK
  BY DEF IInv
<1> QED BY <1>1, InvAlways, PTL

(* require_state never refuses a prime or a submit, whatever sequence of   *)
(* errors, retries and reopenings the worker has been through.             *)
THEOREM OutputAlwaysInOrder == Spec => []OutputInOrder
<1>1. IInv => OutputInOrder
  BY DEF IInv, OutOK, OutputInOrder
<1> QED BY <1>1, InvAlways, PTL

(* Every step of the worker, those that give up under one name. *)
LEMMA StepKinds ==
    ASSUME Step \/ Panic
    PROVE  \/ GiveUp \/ Finish
           \/ Enter \/ Attempt \/ OpenSource \/ Negotiate \/ PollFirst
           \/ FirstArrives \/ FirstTimesOut \/ AwaitFrame \/ FrameArrives
           \/ SubmitSkipped \/ Pause \/ Reopen \/ Renegotiate
           \/ FrameFails \/ SubmitFails \/ OpenStreams \/ Prime \/ Submit
BY DEF Step, Leave, AttemptFails, SourceFails, NegotiateFails,
     StopFormatted, OpenStreamsFails, StopFirst, FirstFails, PrimeFails,
     StopSession, StopPaused, ReopenFails, Panic

(* The output stream goes through its states in the documented order.      *)
THEOREM OutputImplemented == Spec => ImplementsOutput
<1>1. Init => Output!Init
  BY DEF Init, Output!Init
<1>2. ASSUME IInv, [Next]_vars PROVE [Output!Next]_out
  <2> USE DEF Output!Next, Output!Open, Output!Prime, Output!Submit,
              Output!Close, Quiet, Calm, devVars
  <2>1. CASE \/ Enter \/ Attempt \/ OpenSource \/ Negotiate \/ PollFirst
             \/ FirstArrives \/ FirstTimesOut \/ AwaitFrame \/ FrameArrives
             \/ SubmitSkipped \/ Pause \/ Reopen \/ Renegotiate
    BY <2>1 DEF Enter, Attempt, OpenSource, Negotiate, PollFirst, FirstArrives,
         FirstTimesOut, AwaitFrame, FrameArrives, SubmitSkipped, Pause, Reopen,
         Renegotiate
  <2>2. CASE FrameFails \/ SubmitFails
    BY <2>2 DEF FrameFails, SubmitFails, SessionError
  <2>3. CASE GiveUp \/ Finish
    BY <2>3 DEF GiveUp, Finish, Dropped
  <2>4. CASE OpenStreams
    BY <1>2, <2>4 DEF OpenStreams, IInv, OutOK, TypeOK
  <2>5. CASE Prime \/ Submit
    BY <2>5 DEF Prime, Submit
  <2>6. CASE Environment
    BY <2>6 DEF Environment, Plug, Unplug, ToggleFrames, ToggleFaults,
         AddLoopback, RemoveLoopback, Stop, Tick, OthersSetMode, WorkerSame
  <2>7. CASE UNCHANGED vars
    BY <2>7 DEF vars
  <2> QED
    BY <1>2, <2>1, <2>2, <2>3, <2>4, <2>5, <2>6, <2>7, StepKinds DEF Next
<1> QED
  BY <1>1, <1>2, InvAlways, PTL DEF Spec, ImplementsOutput, Output!Spec

(* The worker holds devices, renews its heartbeat and ends only as the     *)
(* supervisor's model of it allows: the worker actions of Supervisor lose  *)
(* no behaviour of shim.rs.                                                *)
THEOREM ContractImplemented == Spec => ImplementsContract
<1>1. Init => Contract!Init
  BY ShimAssumption DEF Init, Contract!Init, fresh
<1>2. ASSUME IInv, [Next]_vars PROVE [Contract!Next]_(Contract!vars)
  <2> USE DEF Contract!vars, Contract!worker, Contract!Next, Contract!Work, Quiet, Calm,
             devVars, envVars
  <2>0. (Touch => fresh') /\ (NoTouch => fresh' = fresh)
    BY ShimAssumption DEF Touch, NoTouch, fresh
  <2>1. CASE Enter
    BY <2>1 DEF Enter, Contract!Enter, fresh
  <2>2. CASE Attempt
    BY <1>2, <2>0, <2>2 DEF Attempt, IInv, FdsOK, Contract!OpenTarget
  <2>3. CASE OpenSource
    BY <1>2, <2>0, <2>3 DEF OpenSource, IInv, FdsOK, Contract!OpenSource
  <2>4. CASE Negotiate \/ OpenStreams \/ PollFirst \/ Prime \/ Submit
             \/ SubmitSkipped \/ Renegotiate
    BY <2>0, <2>4 DEF Negotiate, OpenStreams, PollFirst, Prime, Submit,
         SubmitSkipped, Renegotiate, Contract!Beat
  <2>5. CASE FirstArrives \/ FirstTimesOut \/ AwaitFrame \/ FrameArrives
             \/ FrameFails \/ SubmitFails \/ Pause \/ Reopen
    BY <2>0, <2>5 DEF FirstArrives, FirstTimesOut, AwaitFrame, FrameArrives,
         FrameFails, SubmitFails, SessionError, Pause, Reopen
  <2>6. CASE \/ SourceFails \/ NegotiateFails \/ OpenStreamsFails \/ StopFirst
             \/ FirstFails \/ PrimeFails \/ ReopenFails
    BY <1>2, <2>0, <2>6 DEF SourceFails, NegotiateFails, OpenStreamsFails,
         StopFirst, FirstFails, PrimeFails, ReopenFails, GiveUp, Dropped,
         IInv, FdsOK, Contract!Fail
  <2>7. CASE AttemptFails
    BY <1>2, <2>0, <2>7 DEF AttemptFails, GiveUp, Dropped, IInv, FdsOK,
         Contract!Beat
  <2>8. CASE Leave \/ StopFormatted \/ StopSession \/ StopPaused \/ Panic
    <3>1. run' \in BOOLEAN /\ fresh' \in BOOLEAN
      BY <1>2, <2>8 DEF Leave, StopFormatted, StopSession, StopPaused, Panic,
           Finish, IInv, TypeOK, fresh
    <3>2. CASE ~ Panic
      BY <2>0, <2>8, <3>1, <3>2 DEF Leave, StopFormatted, StopSession,
           StopPaused, Finish, Dropped, Contract!Exit, Contract!Ended
    <3>3. CASE Panic
      BY <2>0, <3>1, <3>3 DEF Panic, Finish, Dropped, Contract!Panic,
           Contract!Ended
    <3> QED BY <3>2, <3>3
  <2>9. CASE Plug \/ Unplug \/ ToggleFrames \/ ToggleFaults \/ AddLoopback
              \/ RemoveLoopback \/ Stop \/ OthersSetMode
    BY <2>9 DEF Plug, Unplug, ToggleFrames, ToggleFaults, AddLoopback,
         RemoveLoopback, Stop, OthersSetMode, WorkerSame, fresh, Contract!Plug,
         Contract!Unplug, Contract!AddLoopback, Contract!RemoveLoopback,
         Contract!Stop
  <2>10. CASE Tick
    <3>1. ~fresh => ~fresh'
      BY <1>2, <2>10, ShimAssumption DEF Tick, Older, fresh, IInv, TypeOK
    <3>2. fresh' = fresh \/ (fresh /\ fresh' = FALSE)
      BY <3>1 DEF fresh
    <3>3. UNCHANGED <<pc, run, devVars, envVars>>
      BY <2>10 DEF Tick
    <3> QED BY <3>2, <3>3 DEF Contract!Age
  <2>11. CASE UNCHANGED vars
    BY <2>11 DEF vars, fresh
  <2> QED
    BY <1>2, <2>1, <2>2, <2>3, <2>4, <2>5, <2>6, <2>7, <2>8, <2>9,
       <2>10, <2>11 DEF Next, Step, Environment
<1> QED
  BY <1>1, <1>2, InvAlways, PTL DEF Spec, ImplementsContract, Contract!Spec

-----------------------------------------------------------------------------
(* The inductive invariant of the modes *)

(* `answers` holds what configure_source makes of the camera. *)
AnswersOK ==
    answers = [n \in Fourccs \X BOOLEAN |-> Outcomes(camera, n[1], Cap, n[2])]

(* Where there is a mode in hand, and where the loopback has been set up. *)
PlaceOK ==
    /\ fmt # None <=> pc = "formatted"
    /\ target # None <=> pc \in FirstFrame \cup Relaying \cup Reopening

Chosen(m) == \E f \in Fourccs : m \in Outcomes(camera, f, Cap, FALSE)

(* Such a mode is within the cap and, while steady, the camera's mode and  *)
(* one it came to without faults.                                          *)
ModeOK ==
    \A m \in {fmt, target} \ {None} :
        CapHonoured(camera, m, Cap) /\ (steady => m = mode /\ Chosen(m))

MInv == IInv /\ AnswersOK /\ PlaceOK /\ ModeOK

LEMMA NegotiatedOutcomes ==
    ASSUME IInv, AnswersOK
    PROVE  /\ Negotiated = Outcomes(camera, mode.fourcc, Cap, faulty)
           /\ mode.fourcc \in Fourccs /\ faulty \in BOOLEAN
<1>1. mode.fourcc \in Fourccs /\ faulty \in BOOLEAN
  BY ModeType DEF IInv, TypeOK
<1>2. <<mode.fourcc, faulty>> \in Fourccs \X BOOLEAN
  BY <1>1
<1> QED BY <1>1, <1>2 DEF AnswersOK, Negotiated

LEMMA InitModes == Init => MInv
<1> SUFFICES ASSUME Init PROVE MInv
  OBVIOUS
<1>1. AnswersOK /\ PlaceOK /\ ModeOK
  BY DEF Init, AnswersOK, PlaceOK, ModeOK
<1> QED BY <1>1, InitInv DEF MInv

(* The camera and its answers never change. *)
LEMMA CameraFixed ==
    ASSUME [Next]_vars
    PROVE  UNCHANGED <<camera, answers>>
<1> USE DEF Quiet, ModeSame, modeVars
<1>1. CASE Environment
  BY <1>1 DEF Environment, Plug, Unplug, ToggleFrames, ToggleFaults, AddLoopback,
       RemoveLoopback, Stop, Tick, OthersSetMode
<1>2. CASE GiveUp \/ Finish
  BY <1>2 DEF GiveUp, Finish, Dropped
<1>3. CASE Step \/ Panic
  BY <1>2, <1>3, StepKinds DEF Enter, Attempt, OpenSource, Negotiate, PollFirst,
       FirstArrives, FirstTimesOut, AwaitFrame, FrameArrives, SubmitSkipped,
       Pause, Reopen, Renegotiate, FrameFails, SubmitFails, SessionError,
       OpenStreams, Prime, Submit
<1>4. CASE UNCHANGED vars
  BY <1>4 DEF vars
<1> QED BY <1>1, <1>3, <1>4 DEF Next

LEMMA ModesStep == MInv /\ [Next]_vars => PlaceOK' /\ ModeOK'
<1> SUFFICES ASSUME MInv, [Next]_vars PROVE PlaceOK' /\ ModeOK'
  OBVIOUS
<1> USE CameraFixed DEF MInv, PlaceOK, ModeOK, Chosen, Quiet, Calm, ModeSame, modeVars,
              devVars, envVars
<1>1. IsCamera(camera)
  BY CameraAssumption DEF IInv, TypeOK
<1>2. CASE GiveUp \/ Finish
  BY <1>2 DEF GiveUp, Finish, Dropped
<1>3. CASE Negotiate
  <2>1. fmt' \in Outcomes(camera, mode.fourcc, Cap, faulty) /\ mode' = fmt'
    BY <1>3, NegotiatedOutcomes DEF Negotiate
  <2>2. fmt' # None
    BY <1>3, NegotiatedType, ModeType, ShimAssumption DEF Negotiate, IInv, TypeOK
  <2>3. CapHonoured(camera, fmt', Cap)
    BY <1>1, <2>1, OutcomeWithinCap
  <2>4. steady' => faulty = FALSE
    BY <1>3, NegotiatedOutcomes DEF Negotiate
  <2>5. steady' => Chosen(fmt')
    BY <2>1, <2>4, NegotiatedOutcomes
  <2>6. pc' = "formatted" /\ target' = None
    BY <1>3 DEF Negotiate
  <2>7. PlaceOK'
    BY <2>2, <2>6
  <2>8. ModeOK'
    BY <2>1, <2>3, <2>5, <2>6
  <2> QED BY <2>7, <2>8
<1>4. CASE Renegotiate
  <2>1. target # None /\ fmt' = None /\ target' = target /\ pc' = "session"
    BY <1>4 DEF Renegotiate
  <2>2. mode' \in Outcomes(camera, mode.fourcc, Cap, faulty)
    BY <1>4, NegotiatedOutcomes DEF Renegotiate
  <2>3. steady' => steady /\ faulty = FALSE
    BY <1>4, NegotiatedOutcomes DEF Renegotiate
  <2>4. steady' => mode' = target
    <3> SUFFICES ASSUME steady' PROVE mode' = target
      OBVIOUS
    <3>1. steady /\ faulty = FALSE
      BY <2>3
    <3>2. mode = target /\ Chosen(target)
      <4>1. target \in {fmt, target} \ {None}
        BY <2>1
      <4> QED BY <3>1, <4>1
    <3>3. PICK f \in Fourccs : target \in Outcomes(camera, f, Cap, FALSE)
      BY <3>2
    <3>4. mode' \in Outcomes(camera, target.fourcc, Cap, FALSE)
      BY <2>2, <3>1, <3>2
    <3> QED BY <1>1, <3>3, <3>4, OutcomeStable
  <2>5. PlaceOK'
    BY <2>1
  <2>6. ModeOK'
    BY <2>1, <2>3, <2>4
  <2> QED BY <2>5, <2>6
<1>5. CASE OpenStreams
  BY <1>5 DEF OpenStreams
<1>6. CASE \/ Enter \/ Attempt \/ OpenSource \/ PollFirst
           \/ FirstArrives \/ FirstTimesOut \/ AwaitFrame \/ FrameArrives
           \/ SubmitSkipped \/ Pause \/ Reopen \/ FrameFails \/ SubmitFails
           \/ Prime \/ Submit
  <2>1. UNCHANGED <<fmt, target, mode, steady>>
    BY <1>6 DEF Enter, Attempt, OpenSource, PollFirst, FirstArrives,
       FirstTimesOut, AwaitFrame, FrameArrives, SubmitSkipped, Pause, Reopen,
       FrameFails, SubmitFails, SessionError, Prime, Submit
  <2>2. PlaceOK'
    BY <1>6, <2>1 DEF Enter, Attempt, OpenSource, PollFirst, FirstArrives,
       FirstTimesOut, AwaitFrame, FrameArrives, SubmitSkipped, Pause, Reopen,
       FrameFails, SubmitFails, SessionError, Prime, Submit
  <2> QED BY <2>1, <2>2
<1>7. CASE Plug
  <2>1. fds \in {"none", "target"}
    BY <1>7 DEF Plug, IInv, TypeOK
  <2>2. pc \in {"spawned", "top", "done", "source"}
    BY <2>1 DEF IInv, FdsOK
  <2>3. fmt = None /\ target = None /\ UNCHANGED <<pc, fmt, target>>
    BY <1>7, <2>2 DEF Plug, WorkerSame
  <2> QED BY <2>3
<1>8. CASE OthersSetMode
  <2>1. UNCHANGED <<pc, fmt, target>> /\ (steady' => fmt = None /\ target = None)
    BY <1>8 DEF OthersSetMode, WorkerSame
  <2> QED BY <2>1
<1>9. CASE \/ Unplug \/ ToggleFrames \/ ToggleFaults \/ AddLoopback
           \/ RemoveLoopback \/ Stop \/ Tick \/ UNCHANGED vars
  <2>1. UNCHANGED <<pc, fmt, target, mode, steady>>
    BY <1>9 DEF Unplug, ToggleFrames, ToggleFaults, AddLoopback, RemoveLoopback,
       Stop, Tick, WorkerSame, vars
  <2> QED BY <2>1
<1> QED
  BY <1>2, <1>3, <1>4, <1>5, <1>6, <1>7, <1>8, <1>9, StepKinds
     DEF Next, Environment

LEMMA ModesAlways == Spec => []MInv
<1>1. MInv /\ [Next]_vars => MInv'
  <2> SUFFICES ASSUME MInv, [Next]_vars PROVE MInv'
    OBVIOUS
  <2>1. AnswersOK'
    BY CameraFixed DEF MInv, AnswersOK
  <2> QED BY <2>1, NextInv, ModesStep DEF MInv
<1> QED BY <1>1, InitModes, PTL DEF Spec

(* A session relays the mode the loopback was set up for, however often    *)
(* the camera was opened and asked again, as long as nobody else sets the  *)
(* camera's format and no call fails that would have succeeded.            *)
THEOREM ModeAlwaysSteady == Spec => []ModeIsSteady
<1>1. MInv => ModeIsSteady
  BY DEF MInv, PlaceOK, ModeOK, ModeIsSteady
<1> QED BY <1>1, ModesAlways, PTL

(* That mode never exceeds the cap if every format has a size within it    *)
(* and, with no such failure, is the largest of its format there, and      *)
(* MJPEG if that is the only compressed format and acceptable: whatever    *)
(* the order the camera enumerates its formats in and the modes it refuses. *)
THEOREM ModeAlwaysBest == Spec => []ModeIsBest
<1>1. MInv => ModeIsBest
  <2> SUFFICES ASSUME MInv, NEW m \in {fmt, target} \ {None}
               PROVE  /\ Fits(camera, Cap) => WithinCap(m.size, Cap)
                      /\ steady => Best(camera, m, Cap)
    BY DEF ModeIsBest
  <2>1. IsCamera(camera)
    BY CameraAssumption DEF MInv, IInv, TypeOK
  <2>2. CapHonoured(camera, m, Cap) /\ (steady => Chosen(m))
    BY DEF MInv, ModeOK
  <2>3. Chosen(m) => Best(camera, m, Cap)
    BY <2>1, OutcomeBest DEF Chosen
  <2>5. m.fourcc \in DOMAIN camera.lists
    BY <2>2 DEF CapHonoured, ModesOf, Mode
  <2>6. Fits(camera, Cap) /\ CapHonoured(camera, m, Cap) => WithinCap(m.size, Cap)
    BY <2>5 DEF Fits, CapHonoured, Listed
  <2> QED BY <2>2, <2>3, <2>6
<1> QED BY <1>1, ModesAlways, PTL

(* While no call fails for no reason, a worker gives up the negotiation on *)
(* a camera that is there only if no pixel format the code would ask for   *)
(* has a size within the cap that the camera agrees to.                    *)
GivesUpForReason ==
    [][NegotiateFails /\ run /\ ~CameraFails =>
          \A f \in Asked(mode.fourcc) : Acceptable(camera, f, Cap) = {}]_vars

THEOREM GivingUpIsJustified == Spec => GivesUpForReason
<1>1. ASSUME MInv, NegotiateFails, run, ~CameraFails,
             NEW f \in Asked(mode.fourcc)
      PROVE  Acceptable(camera, f, Cap) = {}
  <2>1. Negotiated = {}
    BY <1>1 DEF NegotiateFails
  <2>2. Outcomes(camera, mode.fourcc, Cap, faulty) = {}
    BY <1>1, <2>1, NegotiatedOutcomes DEF MInv
  <2>3. IsCamera(camera) /\ Cap \in Nat \X Nat
    BY <1>1, CameraAssumption, ShimAssumption DEF MInv, IInv, TypeOK
  <2> QED BY <2>2, <2>3, OutcomeUnlessNone
<1>2. MInv /\ [Next]_vars =>
         [NegotiateFails /\ run /\ ~CameraFails =>
             \A f \in Asked(mode.fourcc) : Acceptable(camera, f, Cap) = {}]_vars
  BY <1>1
<1> QED BY <1>2, ModesAlways, PTL DEF Spec, GivesUpForReason
=============================================================================
