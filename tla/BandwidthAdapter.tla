-------------------------- MODULE BandwidthAdapter --------------------------
(***************************************************************************)
(* The media targets that follow the measured path (transport/             *)
(* adaptation.rs): every update lowers or raises the video bitrate from    *)
(* its last value and derives the other targets from the metrics.  Rates   *)
(* are in kbit/s and keep the code's integer arithmetic.                   *)
(***************************************************************************)
EXTENDS Integers

CONSTANTS
  Minimum, Maximum,   \* minimum_ and maximum_video_bitrate_kbps
  MaxFps, MaxAudio, MaxFile,
  Bandwidths          \* estimates of the bandwidth, 0 for none

VARIABLES
  metrics,   \* the AdaptationMetrics of the last update
  target     \* the MediaTarget

vars == <<metrics, target>>

(* The drop rate in percent at its thresholds, the worst that the other    *)
(* metrics say against theirs (loss, completion, decoder queue, round trip *)
(* for "severe"; the first three, input latency and send queue for         *)
(* "constrained"), and the bandwidth.                                      *)
Metrics == [drops : {0, 5, 10}, others : {"fine", "constrained", "severe"}, bandwidth : Bandwidths]

Severe(m) == m.drops >= 10 \/ m.others = "severe"
Constrained(m) == Severe(m) \/ m.drops >= 5 \/ m.others = "constrained"

Lower(a, b) == IF a < b THEN a ELSE b
Higher(a, b) == IF a > b THEN a ELSE b

Rest(m, rate, fps) ==
  [rate |-> rate, fps |-> fps,
   scale |-> IF Severe(m) THEN 50 ELSE IF Constrained(m) THEN 75 ELSE 100,
   keyframes |-> Higher(1, IF m.drops >= 5 THEN fps ELSE 2 * fps),
   audio |-> IF Severe(m) THEN Lower(MaxAudio, 48) ELSE MaxAudio,
   file |-> Lower(MaxFile, (m.bandwidth * IF Constrained(m) THEN 5 ELSE 20) \div 100)]

Init ==
  /\ metrics = [drops |-> 0, others |-> "fine", bandwidth |-> 0]
  /\ target = [rate |-> Maximum, fps |-> MaxFps, scale |-> 100,
               keyframes |-> Higher(1, 2 * MaxFps), audio |-> MaxAudio, file |-> MaxFile]

MutStepped(m) ==
  IF Constrained(m)
  THEN (target.rate * IF Severe(m) THEN 65 ELSE 82) \div 100
  ELSE target.rate + target.rate \div 20

(* The bitrate before the caps: less by a share, or more by a twentieth    *)
(* and at least 100.                                                       *)
Stepped(m) ==
  IF Constrained(m)
  THEN (target.rate * IF Severe(m) THEN 65 ELSE 82) \div 100
  ELSE target.rate + Higher(target.rate \div 20, 100)

Budget(m) == (m.bandwidth * IF Constrained(m) THEN 65 ELSE 80) \div 100

Update(m) ==
  LET capped == IF Budget(m) > 0 THEN Lower(Stepped(m), Budget(m)) ELSE Stepped(m)
      fps == IF Severe(m) THEN Lower(MaxFps, 20)
             ELSE IF Constrained(m) THEN Lower(MaxFps, 30) ELSE MaxFps
  IN /\ metrics' = m
     /\ target' = Rest(m, Higher(Minimum, Lower(Maximum, capped)), fps)

Next == \E m \in Metrics : Update(m)

(* The session updates its adapter at every report of its statistics.      *)
Fairness == WF_vars(Next)

Spec == Init /\ [][Next]_vars /\ Fairness

-----------------------------------------------------------------------------
Good == ~Constrained(metrics) /\ (Budget(metrics) = 0 \/ Budget(metrics) >= Maximum)

(* The adapter comes back: from whatever a bad path has done to the        *)
(* targets, a path that stays good leads to the full bitrate, frame rate   *)
(* and resolution.                                                         *)
AdapterRecovers ==
  <>[]Good => <>[](target.rate = Maximum /\ target.fps = MaxFps /\ target.scale = 100)
=============================================================================
