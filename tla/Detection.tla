------------------------------ MODULE Detection ------------------------------
(***************************************************************************)
(* detectModel (client/detection.ts) as IdmModbusClient.detectModel runs   *)
(* it: one probe after the other, and a conclusion drawn from what was     *)
(* answered.  A probe that the device refuses, that goes unanswered or     *)
(* whose answer has the wrong length are all the same to the detection.    *)
(*                                                                         *)
(* The device is what it is, whatever the detection hears: zones is fixed  *)
(* when a detection begins, circuits and features are drawn when they are  *)
(* probed.  A probe of something the device has may be lost.               *)
(***************************************************************************)
EXTENDS Naturals, FiniteSets, Sequences

CONSTANTS
  MaxHeatingCircuits,  \* MAX_HEATING_CIRCUITS
  MaxZoneModules,      \* MAX_ZONE_MODULES
  MaxLost              \* bound on the probes lost in one detection

ASSUME SlotsAssumption == MaxHeatingCircuits \in Nat \ {0} /\ MaxZoneModules \in Nat \ {0}

\* The probes after the scans, in their order.
Features == <<"solar", "isc", "pv", "cascade", "navigator10">>
NoAnswer == "none"
FlowAnswers == {"-1", "in range", "other", NoAnswer}  \* other: out of range or not decodable
ModeAnswers == {"255", "mode", NoAnswer}
EmptySlotStopThreshold == 2

VARIABLES
  stage,          \* the probe that is awaited
  slot,           \* of which circuit, zone or feature
  flow,           \* what the flow temperature probe of the slot heard
  active,         \* activeHeatingCircuits
  zoneModules,
  missing,        \* missingZoneSlots
  present,        \* features heard
  model,          \* #modelInfo and #registerMap of the client, installed together
  circuits,       \* history: circuits that the device has
  deviceFlow,     \* history: what the device would say to the flow probe of the slot
  zones,          \* history: zone modules that the device has
  features,       \* history: features that the device has
  lost            \* history: number of lost probes

heard == <<flow, active, zoneModules, missing, present>>
device == <<circuits, deviceFlow, zones, features>>
vars == <<stage, slot, heard, model, device, lost>>

Models == {"Unknown", "Navigator 2.0", "Navigator Pro", "Navigator 10"}
FeatureNames == {Features[i] : i \in DOMAIN Features}

TypeOK ==
  /\ stage \in {"idle", "flow", "mode", "zone", "feature", "firmware", "conclude"}
  /\ slot \in 0..MaxHeatingCircuits \cup 0..MaxZoneModules \cup DOMAIN Features
  /\ flow \in FlowAnswers /\ deviceFlow \in FlowAnswers
  /\ active \subseteq 1..MaxHeatingCircuits /\ circuits \subseteq 1..MaxHeatingCircuits
  /\ zoneModules \in 0..MaxZoneModules /\ zones \subseteq 1..MaxZoneModules
  /\ missing \in 0..EmptySlotStopThreshold
  /\ present \subseteq FeatureNames /\ features \subseteq FeatureNames
  /\ model \in Models \cup {"none"}
  /\ lost \in 0..MaxLost

Blank ==
  /\ slot' = 0 /\ flow' = NoAnswer
  /\ active' = {} /\ zoneModules' = 0 /\ missing' = 0 /\ present' = {}
  /\ circuits' = {} /\ deviceFlow' = NoAnswer /\ zones' = {} /\ features' = {}
  /\ lost' = 0

Init ==
  /\ stage = "idle" /\ slot = 0 /\ flow = NoAnswer
  /\ active = {} /\ zoneModules = 0 /\ missing = 0 /\ present = {}
  /\ model = "none"
  /\ circuits = {} /\ deviceFlow = NoAnswer /\ zones = {} /\ features = {}
  /\ lost = 0

-----------------------------------------------------------------------------
(* Conclusions *)

\* A circuit is there if its flow probe answers anything but -1, or if its
\* mode is not the one of a circuit that is not configured.
CircuitActive(f, m) == f \notin {"-1", NoAnswer} \/ m \notin {"255", NoAnswer}

\* Faulty variant: zone modules come before Navigator 10.
ModelOfZonesFirst(circuitCount, zoneCount, found) ==
  CASE zoneCount > 0 -> "Navigator Pro"
    [] zoneCount = 0 /\ "navigator10" \in found -> "Navigator 10"
    [] zoneCount = 0 /\ "navigator10" \notin found /\ circuitCount > 0 -> "Navigator 2.0"
    [] OTHER -> "Unknown"

ModelOf(circuitCount, zoneCount, found) ==
  CASE "navigator10" \in found -> "Navigator 10"
    [] "navigator10" \notin found /\ zoneCount > 0 -> "Navigator Pro"
    [] "navigator10" \notin found /\ zoneCount = 0 /\ circuitCount > 0 -> "Navigator 2.0"
    [] OTHER -> "Unknown"

-----------------------------------------------------------------------------
(* Probes *)

\* What is heard of an answer: the answer, unless it is lost.
Hear(answer, h) ==
  \/ h = answer /\ UNCHANGED lost
  \/ answer # NoAnswer /\ h = NoAnswer /\ lost < MaxLost /\ lost' = lost + 1

Begin ==
  /\ stage = "idle"
  /\ stage' = "flow" /\ slot' = 1
  /\ zones' \in SUBSET (1..MaxZoneModules)
  /\ UNCHANGED <<heard, model, circuits, deviceFlow, features, lost>>

ProbeFlow(answer, h) ==
  /\ stage = "flow"
  /\ Hear(answer, h)
  /\ flow' = h /\ deviceFlow' = answer
  /\ stage' = "mode"
  /\ UNCHANGED <<slot, active, zoneModules, missing, present, model, circuits, zones, features>>

ProbeMode(answer, h) ==
  LET isActive == CircuitActive(flow, h) IN
  /\ stage = "mode"
  /\ Hear(answer, h)
  /\ active' = IF isActive THEN active \cup {slot} ELSE active
  /\ circuits' = IF deviceFlow \in {"in range", "other"} \/ answer = "mode"
                 THEN circuits \cup {slot} ELSE circuits
  /\ IF slot < MaxHeatingCircuits
     THEN stage' = "flow" /\ slot' = slot + 1
     ELSE stage' = "zone" /\ slot' = 1
  /\ flow' = NoAnswer /\ deviceFlow' = NoAnswer
  /\ UNCHANGED <<zoneModules, missing, present, model, zones, features>>

AfterZone(stops) ==
  IF stops \/ slot = MaxZoneModules
  THEN stage' = "feature" /\ slot' = 1
  ELSE slot' = slot + 1 /\ UNCHANGED stage

\* Faulty variant: a zone that answers does not forget the ones that did not.
ProbeZoneNotForgetting(h) ==
  /\ stage = "zone"
  /\ Hear(IF slot \in zones THEN "zone" ELSE NoAnswer, h)
  /\ IF h # NoAnswer
     THEN zoneModules' = slot /\ UNCHANGED missing
     ELSE missing' = missing + 1 /\ UNCHANGED zoneModules
  /\ AfterZone(missing' >= EmptySlotStopThreshold)
  /\ UNCHANGED <<flow, active, present, model, device>>

\* Faulty variant: the first zone that does not answer ends the scan.
ProbeZoneImpatient(h) ==
  /\ stage = "zone"
  /\ Hear(IF slot \in zones THEN "zone" ELSE NoAnswer, h)
  /\ IF h # NoAnswer
     THEN zoneModules' = slot /\ missing' = 0
     ELSE missing' = missing + 1 /\ UNCHANGED zoneModules
  /\ AfterZone(missing' >= 1)
  /\ UNCHANGED <<flow, active, present, model, device>>

ProbeZone(h) ==
  /\ stage = "zone"
  /\ Hear(IF slot \in zones THEN "zone" ELSE NoAnswer, h)
  /\ IF h # NoAnswer
     THEN zoneModules' = slot /\ missing' = 0
     ELSE missing' = missing + 1 /\ UNCHANGED zoneModules
  /\ AfterZone(missing' >= EmptySlotStopThreshold)
  /\ UNCHANGED <<flow, active, present, model, device>>

\* Presence is any answer of the right length; a cascade that says 255 is like
\* one that does not answer.
ProbeFeature(answer, h) ==
  LET name == Features[slot] IN
  /\ stage = "feature"
  /\ answer = "255" => name = "cascade"
  /\ Hear(answer, h)
  /\ present' = IF h = "words" THEN present \cup {name} ELSE present
  /\ features' = IF answer = "words" THEN features \cup {name} ELSE features
  /\ IF slot < Len(Features)
     THEN slot' = slot + 1 /\ UNCHANGED stage
     ELSE slot' = 0 /\ stage' \in {"firmware", "conclude"}
  /\ UNCHANGED <<flow, active, zoneModules, missing, model, circuits, deviceFlow, zones>>

\* The firmware version is a number or null; nothing else depends on it.
ProbeFirmware ==
  /\ stage = "firmware"
  /\ stage' = "conclude"
  /\ UNCHANGED <<slot, heard, model, device, lost>>

\* The register map is built from the result, and both are installed.
Conclude ==
  /\ stage = "conclude"
  /\ model' = ModelOf(Cardinality(active), zoneModules, present)
  /\ stage' = "idle"
  /\ Blank

\* A probe that fails other than by a known failure of the transport throws:
\* what an earlier detection installed is kept.
Throw ==
  /\ stage \notin {"idle", "conclude"}
  /\ stage' = "idle"
  /\ Blank
  /\ UNCHANGED model

Next ==
  \/ Begin \/ ProbeFirmware \/ Conclude \/ Throw
  \/ \E answer, h \in FlowAnswers : ProbeFlow(answer, h)
  \/ \E answer, h \in ModeAnswers : ProbeMode(answer, h)
  \/ \E h \in {"zone", NoAnswer} : ProbeZone(h)
  \/ \E answer, h \in {"words", "255", NoAnswer} : ProbeFeature(answer, h)

Spec == Init /\ [][Next]_vars

-----------------------------------------------------------------------------
(* Properties *)

\* What a device with these zone modules is taken to have if every probe is
\* answered: the last one with no two missing in a row before it.
ZonesInReach ==
  {z \in zones : \A y \in 1..z : y \in zones \/ y + 1 \in zones}
LastZone == CHOOSE n \in 0..MaxZoneModules :
  n \in ZonesInReach \cup {0} /\ \A z \in ZonesInReach : z <= n

\* A detection never makes up anything, however many probes are lost, and one
\* that heard every answer finds every circuit and feature, in the gaps too, and
\* the zone modules that are in reach (detection.ts:95-133).
ConcludesTheDevice ==
  stage = "conclude" =>
    /\ active \subseteq circuits
    /\ zoneModules \in zones \cup {0}
    /\ present \subseteq features
    /\ lost = 0 => active = circuits /\ zoneModules = LastZone /\ present = features

\* The scan goes on past a lost probe: it ends only where the two slots that follow hold no
\* more zone modules than probes were lost (118-123).  With zone modules 1 to n, one loss
\* then hides the last of them or none; next to a gap, the slot that is lost and the empty
\* one count as two in a row, and hide whatever is behind them.
HiddenZonesWereLost ==
  stage = "conclude" =>
    Cardinality({zoneModules + 1, zoneModules + 2} \cap zones) <= lost

\* The model installed is one that the device gives evidence of, and without a
\* lost probe it is the best of those; a loss only ever lowers it (134-140).
Ranking == <<"Unknown", "Navigator 2.0", "Navigator Pro", "Navigator 10">>
Evidence == <<TRUE, circuits # {}, LastZone > 0, "navigator10" \in features>>
BestModelWithEvidence ==
  [][Conclude =>
       \E i \in DOMAIN Ranking :
         /\ model' = Ranking[i] /\ Evidence[i]
         /\ lost = 0 => \A j \in (i + 1)..Len(Ranking) : ~ Evidence[j]]_vars
=============================================================================
