-------------------------- MODULE DetectionProofs --------------------------
(***************************************************************************)
(* What a detection concludes, for every number of circuits and zone       *)
(* modules and however many probes are lost; and the map that is built of  *)
(* its result: a name means one register in it, registers share words only *)
(* where documented, and the probes of the detection read what it holds.   *)
(***************************************************************************)
EXTENDS Detection, RegisterMap, FiniteSetTheorems, WellFoundedInduction, TLAPS

-----------------------------------------------------------------------------
(* The invariant: what has been heard so far, against what the device has *)

Types ==
  /\ stage \in {"idle", "flow", "mode", "zone", "feature", "firmware", "conclude"}
  /\ slot \in Nat /\ lost \in Nat

\* The circuits probed so far.
CircuitsHeard ==
  /\ stage \in {"flow", "mode"} => slot \in 1..MaxHeatingCircuits
  /\ circuits \subseteq 1..MaxHeatingCircuits /\ active \subseteq circuits
  /\ lost = 0 => active = circuits

\* The flow probe of the present circuit.
FlowHeard ==
  /\ deviceFlow \in FlowAnswers /\ flow \in {deviceFlow, NoAnswer}
  /\ stage # "mode" => deviceFlow = NoAnswer
  /\ lost = 0 => flow = deviceFlow

\* The last zone heard is there, and no two before it are missing.
ZonesHeard ==
  /\ zones \subseteq 1..MaxZoneModules /\ zoneModules \in zones \cup {0}
  /\ \A y \in 1..zoneModules : y \in zones \/ y + 1 \in zones

Unheard == {zoneModules + 1, zoneModules + 2} \cap zones

\* During the scan, the zones since the last one heard are the missing ones; after
\* it, of the two zones that follow no more are there than probes were lost.
ZonesMissed ==
  /\ stage \in {"idle", "flow", "mode"} => zoneModules = 0 /\ missing = 0
  /\ stage = "zone" =>
       /\ missing \in {0, 1} /\ slot = zoneModules + missing + 1 /\ slot <= MaxZoneModules
       /\ missing = 1 /\ zoneModules + 1 \in zones => lost >= 1
  /\ stage \in {"feature", "firmware", "conclude"} =>
       /\ Unheard # {} => lost >= 1
       /\ Unheard = {zoneModules + 1, zoneModules + 2} => lost >= 2

FeaturesHeard == present \subseteq features /\ (lost = 0 => present = features)

IInv == Types /\ CircuitsHeard /\ FlowHeard /\ ZonesHeard /\ ZonesMissed /\ FeaturesHeard

-----------------------------------------------------------------------------
(* The invariant is inductive *)

LEMMA InitIInv == Init => IInv
BY SlotsAssumption
DEF Init, IInv, Types, CircuitsHeard, FlowHeard, FlowAnswers, ZonesHeard, ZonesMissed, FeaturesHeard

LEMMA BlankIInv ==
  ASSUME Blank, stage' = "idle" PROVE IInv'
BY DEF Blank, IInv, Types, CircuitsHeard, FlowHeard, FlowAnswers, ZonesHeard, ZonesMissed,
  FeaturesHeard

LEMMA BeginIInv ==
  ASSUME IInv, Begin PROVE IInv'
BY SlotsAssumption
DEF Begin, heard, IInv, Types, CircuitsHeard, FlowHeard, ZonesHeard, ZonesMissed, FeaturesHeard

LEMMA FirmwareIInv ==
  ASSUME IInv, ProbeFirmware PROVE IInv'
BY DEF ProbeFirmware, heard, device, IInv, Types, CircuitsHeard, FlowHeard, ZonesHeard,
  ZonesMissed, Unheard, FeaturesHeard

\* A probe is heard as answered or lost, and then counted.
LEMMA Heard ==
  ASSUME lost \in Nat, NEW answer, NEW h, Hear(answer, h)
  PROVE  /\ h \in {answer, NoAnswer}
         /\ lost' \in Nat /\ lost' >= lost
         /\ h # answer => lost' = lost + 1
         /\ lost' = 0 => lost = 0 /\ h = answer
BY DEF Hear

LEMMA FlowIInv ==
  ASSUME IInv, NEW answer \in FlowAnswers, NEW h \in FlowAnswers, ProbeFlow(answer, h) PROVE IInv'
<1>1. lost \in Nat /\ Hear(answer, h)
  BY DEF ProbeFlow, IInv, Types
<1>2. /\ h \in {answer, NoAnswer}
      /\ lost' \in Nat /\ lost' >= lost
      /\ lost' = 0 => lost = 0 /\ h = answer
  BY <1>1, Heard
<1>3. Types' /\ CircuitsHeard' /\ FeaturesHeard' /\ ZonesHeard' /\ ZonesMissed'
  BY <1>2 DEF ProbeFlow, IInv, Types, CircuitsHeard, FeaturesHeard, ZonesHeard, ZonesMissed
<1>4. FlowHeard'
  BY <1>2 DEF ProbeFlow, FlowHeard
<1> QED
  BY <1>3, <1>4 DEF IInv

LEMMA ModeIInv ==
  ASSUME IInv, NEW answer \in ModeAnswers, NEW h \in ModeAnswers, ProbeMode(answer, h) PROVE IInv'
<1>1. lost \in Nat /\ Hear(answer, h)
  BY DEF ProbeMode, IInv, Types
<1>2. /\ h \in {answer, NoAnswer}
      /\ lost' \in Nat /\ lost' >= lost
      /\ lost' = 0 => lost = 0 /\ h = answer
  BY <1>1, Heard
<1>3. \/ slot < MaxHeatingCircuits /\ stage' = "flow" /\ slot' = slot + 1
      \/ stage' = "zone" /\ slot' = 1
  BY DEF ProbeMode
<1>4. stage = "mode" /\ UNCHANGED <<zoneModules, missing, present, zones, features>>
  BY DEF ProbeMode
<1>5. Types' /\ FeaturesHeard' /\ ZonesHeard' /\ ZonesMissed'
  BY <1>2, <1>3, <1>4, SlotsAssumption DEF IInv, Types, FeaturesHeard, ZonesHeard, ZonesMissed
<1>6. FlowHeard'
  BY DEF ProbeMode, FlowHeard, FlowAnswers
<1>7. slot \in 1..MaxHeatingCircuits
  BY DEF ProbeMode, IInv, CircuitsHeard
<1> DEFINE there == deviceFlow \in {"in range", "other"} \/ answer = "mode"
           heardOf == CircuitActive(flow, h)
<1>8. heardOf => there
  BY <1>2 DEF IInv, FlowHeard, FlowAnswers, ModeAnswers, NoAnswer, CircuitActive
<1>9. lost' = 0 => (there <=> heardOf)
  BY <1>2 DEF IInv, FlowHeard, FlowAnswers, ModeAnswers, NoAnswer, CircuitActive
<1>10. /\ active' = IF heardOf THEN active \cup {slot} ELSE active
       /\ circuits' = IF there THEN circuits \cup {slot} ELSE circuits
  BY DEF ProbeMode
<1> HIDE DEF there, heardOf
<1>11. circuits' \subseteq 1..MaxHeatingCircuits /\ active' \subseteq circuits' /\ (lost' = 0 => active' = circuits')
  BY <1>2, <1>7, <1>8, <1>9, <1>10 DEF IInv, CircuitsHeard
<1>12. stage' \in {"flow", "mode"} => slot' \in 1..MaxHeatingCircuits
  BY <1>7, <1>3, SlotsAssumption
<1> QED
  BY <1>5, <1>6, <1>11, <1>12 DEF IInv, CircuitsHeard

LEMMA ZoneIInv ==
  ASSUME IInv, NEW h \in {"zone", NoAnswer}, ProbeZone(h) PROVE IInv'
<1> DEFINE answer == IF slot \in zones THEN "zone" ELSE NoAnswer
<1>1. lost \in Nat /\ Hear(answer, h)
  BY DEF ProbeZone, IInv, Types
<1>2. /\ h \in {answer, NoAnswer}
      /\ lost' \in Nat /\ lost' >= lost
      /\ h # answer => lost' = lost + 1
      /\ lost' = 0 => lost = 0 /\ h = answer
  BY <1>1, Heard
<1>3. /\ stage = "zone" /\ stage' \in {"zone", "feature"}
      /\ missing \in {0, 1} /\ slot = zoneModules + missing + 1 /\ slot \in 1..MaxZoneModules
      /\ zoneModules \in Nat /\ zones \subseteq 1..MaxZoneModules
  BY SlotsAssumption DEF ProbeZone, AfterZone, IInv, Types, ZonesMissed, ZonesHeard
<1>4. UNCHANGED <<flow, active, present, device>> /\ slot' \in Nat
  BY <1>3 DEF ProbeZone, AfterZone
<1>5. Types' /\ CircuitsHeard' /\ FlowHeard' /\ FeaturesHeard'
  BY <1>2, <1>3, <1>4 DEF IInv, Types, CircuitsHeard, FlowHeard, FeaturesHeard, device
<1>6. CASE h # NoAnswer
  <2>1. slot \in zones /\ zoneModules' = slot /\ missing' = 0 /\ zones' = zones
    BY <1>2, <1>4, <1>6 DEF ProbeZone, device
  <2>2. ZonesHeard'
    BY <1>3, <2>1 DEF IInv, ZonesHeard
  <2>3. stage' = "zone" => slot' = slot + 1 /\ slot' <= MaxZoneModules
    BY <1>3, <2>1, SlotsAssumption DEF ProbeZone, AfterZone
  <2>4. stage' = "feature" => slot = MaxZoneModules
    BY <1>3, <2>1 DEF ProbeZone, AfterZone, EmptySlotStopThreshold
  <2>5. ZonesMissed'
    BY <1>3, <2>1, <2>3, <2>4 DEF ZonesMissed, Unheard
  <2> QED
    BY <1>5, <2>2, <2>5 DEF IInv
<1>7. CASE h = NoAnswer
  <2>1. zoneModules' = zoneModules /\ missing' = missing + 1 /\ zones' = zones
    BY <1>4, <1>7 DEF ProbeZone, device
  <2>2. ZonesHeard'
    BY <2>1 DEF IInv, ZonesHeard
  <2>3. slot \in zones => lost' = lost + 1
    BY <1>2, <1>7 DEF NoAnswer
  <2>4. stage' = "zone" => missing' < 2 /\ slot' = slot + 1 /\ slot' <= MaxZoneModules
    BY <1>3, SlotsAssumption DEF ProbeZone, AfterZone, EmptySlotStopThreshold
  <2>5. stage' = "feature" => missing' = 2 \/ slot = MaxZoneModules
    BY <1>3, <2>1 DEF ProbeZone, AfterZone, EmptySlotStopThreshold
  <2>6. missing = 1 /\ zoneModules + 1 \in zones => lost >= 1
    BY <1>3 DEF IInv, ZonesMissed
  <2>7. CASE missing = 0
    <3>1. slot = zoneModules + 1
      BY <1>3, <2>7
    <3> QED
      BY <1>1, <1>3, <1>5, <2>1, <2>2, <2>3, <2>4, <2>5, <2>7, <3>1 DEF IInv, ZonesMissed, Unheard
  <2>8. CASE missing = 1
    <3>1. slot = zoneModules + 2 /\ stage' = "feature"
      BY <1>3, <2>1, <2>4, <2>8
    <3> QED
      BY <1>1, <1>2, <1>3, <1>5, <2>1, <2>2, <2>3, <2>6, <2>8, <3>1 DEF IInv, ZonesMissed, Unheard
  <2> QED
    BY <1>3, <2>7, <2>8
<1> QED
  BY <1>6, <1>7

LEMMA FeatureIInv ==
  ASSUME IInv, NEW answer \in {"words", "255", NoAnswer}, NEW h \in {"words", "255", NoAnswer},
         ProbeFeature(answer, h)
  PROVE  IInv'
<1>1. lost \in Nat /\ Hear(answer, h)
  BY DEF ProbeFeature, IInv, Types
<1>2. /\ h \in {answer, NoAnswer}
      /\ lost' \in Nat /\ lost' >= lost
      /\ lost' = 0 => lost = 0 /\ h = answer
  BY <1>1, Heard
<1>3. stage = "feature" /\ stage' \in {"feature", "firmware", "conclude"} /\ slot' \in Nat
  BY DEF ProbeFeature, IInv, Types
<1>4. UNCHANGED <<flow, active, zoneModules, missing, circuits, deviceFlow, zones>>
  BY DEF ProbeFeature
<1>5. Types' /\ CircuitsHeard' /\ FlowHeard' /\ ZonesHeard' /\ ZonesMissed'
  BY <1>1, <1>2, <1>3, <1>4
    DEF IInv, Types, CircuitsHeard, FlowHeard, ZonesHeard, ZonesMissed, Unheard
<1>6. FeaturesHeard'
  BY <1>2 DEF ProbeFeature, NoAnswer, IInv, FeaturesHeard
<1> QED
  BY <1>5, <1>6 DEF IInv

LEMMA NextIInv == IInv /\ [Next]_vars => IInv'
<1> SUFFICES ASSUME IInv, [Next]_vars PROVE IInv'
  OBVIOUS
<1>1. CASE Begin
  BY <1>1, BeginIInv
<1>2. CASE ProbeFirmware
  BY <1>2, FirmwareIInv
<1>3. CASE Conclude
  BY <1>3, BlankIInv DEF Conclude
<1>4. CASE Throw
  BY <1>4, BlankIInv DEF Throw
<1>5. CASE \E answer, h \in FlowAnswers : ProbeFlow(answer, h)
  BY <1>5, FlowIInv
<1>6. CASE \E answer, h \in ModeAnswers : ProbeMode(answer, h)
  BY <1>6, ModeIInv
<1>7. CASE \E h \in {"zone", NoAnswer} : ProbeZone(h)
  BY <1>7, ZoneIInv
<1>8. CASE \E answer, h \in {"words", "255", NoAnswer} : ProbeFeature(answer, h)
  BY <1>8, FeatureIInv
<1>9. CASE UNCHANGED vars
  BY <1>9
  DEF vars, heard, device, IInv, Types, CircuitsHeard, FlowHeard, ZonesHeard, ZonesMissed,
    Unheard, FeaturesHeard
<1> QED
  BY <1>1, <1>2, <1>3, <1>4, <1>5, <1>6, <1>7, <1>8, <1>9 DEF Next

LEMMA SpecIInv == Spec => []IInv
BY InitIInv, NextIInv, PTL DEF Spec

-----------------------------------------------------------------------------
(* The zone modules in reach *)

LEMMA Smallest ==
  ASSUME NEW T \in SUBSET Nat, T # {}
  PROVE  \E x \in T : \A y \in T : x <= y
<1>1. PICK x \in T : \A y \in T : ~ (<<y, x>> \in OpToRel(<, Nat))
  BY NatLessThanWellFounded, WFMin
<1>2. ASSUME NEW y \in T PROVE ~ (y < x)
  <2>1. y \in Nat /\ x \in Nat
    OBVIOUS
  <2> QED
    BY <1>1, <2>1, Zenon DEF OpToRel
<1> QED
  BY <1>2

\* There is a last one, or none: LastZone is well defined.
LEMMA LastInReach ==
  ASSUME zones \subseteq 1..MaxZoneModules
  PROVE  /\ LastZone \in 0..MaxZoneModules /\ LastZone \in ZonesInReach \cup {0}
         /\ \A z \in ZonesInReach : z <= LastZone
<1> DEFINE R == ZonesInReach \cup {0}
           T == {d \in Nat : MaxZoneModules - d \in R}
<1>1. R \subseteq 0..MaxZoneModules
  <2>1. ZonesInReach \subseteq zones
    BY DEF ZonesInReach
  <2> QED
    BY <2>1, SlotsAssumption
<1>2. MaxZoneModules \in T
  BY SlotsAssumption
<1>3. PICK d \in T : \A e \in T : d <= e
  BY <1>2, Smallest
<1>4. \A z \in R : z <= MaxZoneModules - d
  <2> SUFFICES ASSUME NEW z \in R PROVE z <= MaxZoneModules - d
    OBVIOUS
  <2>1. z \in 0..MaxZoneModules /\ MaxZoneModules \in Nat
    BY <1>1, SlotsAssumption
  <2>2. MaxZoneModules - z \in Nat /\ MaxZoneModules - (MaxZoneModules - z) = z
    BY <2>1
  <2>3. MaxZoneModules - z \in T
    BY <2>2
  <2> QED
    BY <1>3, <2>1, <2>3
<1>5. MaxZoneModules - d \in R
  BY <1>3
<1> HIDE DEF T
<1>6. \E n \in 0..MaxZoneModules : n \in ZonesInReach \cup {0} /\ \A z \in ZonesInReach : z <= n
  BY <1>1, <1>4, <1>5
<1> QED
  BY <1>6 DEF LastZone

\* The zone found by the scan is in reach.
LEMMA FoundIsInReach ==
  ASSUME IInv PROVE zoneModules \in ZonesInReach \cup {0}
BY DEF IInv, ZonesHeard, ZonesInReach

\* Without a loss the scan finds the last zone in reach.
LEMMA FindsLastZone ==
  ASSUME IInv, stage = "conclude", lost = 0 PROVE zoneModules = LastZone
<1>1. zones \subseteq 1..MaxZoneModules /\ zoneModules \in zones \cup {0}
  BY DEF IInv, ZonesHeard
<1>2. zoneModules + 1 \notin zones /\ zoneModules + 2 \notin zones
  BY DEF IInv, ZonesMissed, Unheard
<1>3. zoneModules \in 0..MaxZoneModules
  BY <1>1, SlotsAssumption
<1>4. \A z \in ZonesInReach : z <= zoneModules
  <2> SUFFICES ASSUME NEW z \in ZonesInReach, z > zoneModules PROVE FALSE
    BY <1>1, <1>3 DEF ZonesInReach
  <2>1. z \in 1..MaxZoneModules /\ \A y \in 1..z : y \in zones \/ y + 1 \in zones
    BY <1>1 DEF ZonesInReach
  <2>2. zoneModules + 1 \in 1..z
    BY <1>3, <2>1
  <2> QED
    BY <1>2, <1>3, <2>1, <2>2
<1>5. /\ LastZone \in 0..MaxZoneModules /\ LastZone \in ZonesInReach \cup {0}
      /\ \A z \in ZonesInReach : z <= LastZone
  BY <1>1, LastInReach
<1>6. LastZone <= zoneModules
  BY <1>3, <1>4, <1>5
<1>7. zoneModules <= LastZone
  BY <1>3, <1>5, FoundIsInReach
<1> QED
  BY <1>3, <1>5, <1>6, <1>7

-----------------------------------------------------------------------------
(* Theorems *)

\* However many probes are lost, and whatever the device has, a detection finds
\* nothing that is not there; if no probe is lost, it finds everything in reach.
THEOREM DetectionConcludes == Spec => []ConcludesTheDevice
<1>1. IInv => ConcludesTheDevice
  <2> SUFFICES ASSUME IInv, stage = "conclude"
               PROVE  /\ active \subseteq circuits /\ zoneModules \in zones \cup {0}
                      /\ present \subseteq features
                      /\ lost = 0 => active = circuits /\ zoneModules = LastZone /\ present = features
    BY DEF ConcludesTheDevice
  <2> QED
    BY FindsLastZone DEF IInv, CircuitsHeard, ZonesHeard, FeaturesHeard
<1> QED
  BY SpecIInv, <1>1, PTL

LEMMA FiniteSlots ==
  /\ \A S : S \subseteq 1..MaxHeatingCircuits => IsFiniteSet(S)
  /\ \A S : S \subseteq 1..MaxZoneModules => IsFiniteSet(S)
<1>1. MaxHeatingCircuits \in Int /\ MaxZoneModules \in Int /\ 1 \in Int
  BY SlotsAssumption
<1>2. IsFiniteSet(1..MaxHeatingCircuits) /\ IsFiniteSet(1..MaxZoneModules)
  BY <1>1, FS_Interval
<1> QED
  BY <1>2, FS_Subset

\* Whatever the device has, of the two slots behind the last zone module found no more
\* hold one than probes were lost: a single loss never ends the scan in front of two.
THEOREM DetectionSurvivesLosses == Spec => []HiddenZonesWereLost
<1>1. IInv => HiddenZonesWereLost
  <2> DEFINE a == zoneModules + 1
             b == zoneModules + 2
  <2> SUFFICES ASSUME IInv, stage = "conclude" PROVE Cardinality({a, b} \cap zones) <= lost
    BY DEF HiddenZonesWereLost
  <2>1. /\ {a, b} \cap zones # {} => lost >= 1
        /\ {a, b} \cap zones = {a, b} => lost >= 2
    BY DEF IInv, ZonesMissed, Unheard
  <2>2. lost \in Nat
    BY DEF IInv, Types
  <2> HIDE DEF a, b
  <2>3. Cardinality({}) = 0 /\ Cardinality({a}) = 1 /\ Cardinality({b}) = 1
    BY FS_EmptySet, FS_Singleton
  <2>4. {a, b} \cap zones = {} \/ {a, b} \cap zones \in {{a}, {b}} \/ {a, b} \cap zones = {a, b}
    OBVIOUS
  <2>5. CASE {a, b} \cap zones = {}
    BY <2>2, <2>3, <2>5
  <2>6. CASE {a, b} \cap zones \in {{a}, {b}}
    <3>1. Cardinality({a, b} \cap zones) = 1
      BY <2>3, <2>6
    <3> QED
      BY <2>1, <2>2, <2>6, <3>1
  <2>7. CASE {a, b} \cap zones = {a, b}
    <3>1. Cardinality({a, b}) \in {1, 2}
      <4>1. {a, b} = {a} \cup {b} /\ IsFiniteSet({a})
        BY FS_Singleton
      <4>2. b \notin {a} => Cardinality({a} \cup {b}) = Cardinality({a}) + 1
        BY <4>1, FS_AddElement
      <4>3. b \in {a} => {a, b} = {a}
        OBVIOUS
      <4>4. CASE b \in {a}
        <5>1. Cardinality({a, b}) = 1
          BY <2>3, <4>3, <4>4
        <5> QED
          BY <5>1
      <4>5. CASE b \notin {a}
        <5>1. Cardinality({a, b}) = 1 + 1
          BY <2>3, <4>1, <4>2, <4>5
        <5> QED
          BY <5>1
      <4> QED
        BY <4>4, <4>5
    <3> QED
      BY <2>1, <2>2, <2>7, <3>1
  <2> QED
    BY <2>4, <2>5, <2>6, <2>7
<1> QED
  BY SpecIInv, <1>1, PTL

\* The count of the active circuits tells whether there is one.
LEMMA CircuitCount ==
  ASSUME IInv PROVE Cardinality(active) \in Nat /\ (Cardinality(active) > 0 <=> active # {})
<1>1. active \subseteq 1..MaxHeatingCircuits
  BY DEF IInv, CircuitsHeard
<1>2. IsFiniteSet(active)
  BY <1>1, FiniteSlots
<1> QED
  BY <1>2, FS_CardinalityType, FS_EmptySet

\* What a detection installs is the best model the device gives evidence of, if
\* every probe was heard, and never a better one, for any number of losses.
THEOREM DetectionInstallsTheBest == Spec => BestModelWithEvidence
<1>1. ASSUME IInv, Conclude
      PROVE  \E i \in DOMAIN Ranking :
               /\ model' = Ranking[i] /\ Evidence[i]
               /\ lost = 0 => \A j \in (i + 1)..Len(Ranking) : ~ Evidence[j]
  <2> DEFINE count == Cardinality(active)
  <2>1. stage = "conclude" /\ model' = ModelOf(count, zoneModules, present)
    BY <1>1 DEF Conclude
  <2>2. /\ active \subseteq circuits /\ present \subseteq features
        /\ zoneModules \in Nat
        /\ lost = 0 => active = circuits /\ zoneModules = LastZone /\ present = features
    BY <1>1, <2>1, FindsLastZone, SlotsAssumption DEF IInv, CircuitsHeard, ZonesHeard, FeaturesHeard
  <2>3. LastZone \in Nat /\ (zoneModules > 0 => LastZone > 0)
    BY <1>1, <2>2, LastInReach, FoundIsInReach, SlotsAssumption DEF IInv, ZonesHeard, ZonesInReach
  <2>4. count \in Nat /\ (count > 0 <=> active # {})
    BY <1>1, CircuitCount
  <2>5. Len(Ranking) = 4 /\ DOMAIN Ranking = 1..4
    BY DEF Ranking
  <2>6. /\ Evidence[1] /\ (Evidence[2] <=> circuits # {})
        /\ (Evidence[3] <=> LastZone > 0) /\ (Evidence[4] <=> "navigator10" \in features)
    BY DEF Evidence
  <2>7. /\ Ranking[1] = "Unknown" /\ Ranking[2] = "Navigator 2.0"
        /\ Ranking[3] = "Navigator Pro" /\ Ranking[4] = "Navigator 10"
    BY DEF Ranking
  <2> HIDE DEF count
  <2>8. CASE "navigator10" \in present
    <3>1. ModelOf(count, zoneModules, present) = "Navigator 10"
      BY <2>8, Zenon DEF ModelOf
    <3>2. model' = Ranking[4] /\ Evidence[4]
      BY <2>1, <2>2, <2>6, <2>7, <2>8, <3>1
    <3>3. \A j \in (4 + 1)..Len(Ranking) : ~ Evidence[j]
      BY <2>5
    <3> QED
      BY <2>5, <3>2, <3>3
  <2>9. CASE "navigator10" \notin present /\ zoneModules > 0
    <3>1. zoneModules # 0
      BY <2>9
    <3>2. ModelOf(count, zoneModules, present) = "Navigator Pro"
      BY <2>9, <3>1, Zenon DEF ModelOf
    <3>3. model' = Ranking[3] /\ Evidence[3]
      BY <2>1, <2>3, <2>6, <2>7, <2>9, <3>2
    <3>4. lost = 0 => ~ Evidence[4]
      BY <2>2, <2>6, <2>9
    <3>5. lost = 0 => \A j \in (3 + 1)..Len(Ranking) : ~ Evidence[j]
      BY <2>5, <3>4
    <3> QED
      BY <2>5, <3>3, <3>5
  <2>10. CASE "navigator10" \notin present /\ zoneModules = 0 /\ count > 0
    <3>1. ~ (zoneModules > 0)
      BY <2>10
    <3>2. ModelOf(count, zoneModules, present) = "Navigator 2.0"
      BY <2>10, <3>1, Zenon DEF ModelOf
    <3>3. model' = Ranking[2] /\ Evidence[2]
      BY <2>1, <2>2, <2>4, <2>6, <2>7, <2>10, <3>2
    <3>4. lost = 0 => ~ Evidence[3] /\ ~ Evidence[4]
      BY <2>2, <2>3, <2>6, <2>10
    <3>5. lost = 0 => \A j \in (2 + 1)..Len(Ranking) : ~ Evidence[j]
      BY <2>5, <3>4
    <3> QED
      BY <2>5, <3>3, <3>5
  <2>11. CASE "navigator10" \notin present /\ zoneModules = 0 /\ count = 0
    <3>1. ~ (zoneModules > 0) /\ ~ (count > 0)
      BY <2>11
    <3>2. ModelOf(count, zoneModules, present) = "Unknown"
      BY <2>11, <3>1, Zenon DEF ModelOf
    <3>3. model' = Ranking[1] /\ Evidence[1]
      BY <2>1, <2>6, <2>7, <3>2
    <3>4. lost = 0 => ~ Evidence[2] /\ ~ Evidence[3] /\ ~ Evidence[4]
      BY <2>2, <2>3, <2>4, <2>6, <2>11
    <3>5. lost = 0 => \A j \in (1 + 1)..Len(Ranking) : ~ Evidence[j]
      BY <2>5, <3>4
    <3> QED
      BY <2>5, <3>3, <3>5
  <2> QED
    BY <2>2, <2>4, <2>8, <2>9, <2>10, <2>11
<1>2. IInv /\ [Next]_vars
        => [Conclude => \E i \in DOMAIN Ranking :
              /\ model' = Ranking[i] /\ Evidence[i]
              /\ lost = 0 => \A j \in (i + 1)..Len(Ranking) : ~ Evidence[j]]_vars
  BY <1>1
<1> QED
  BY SpecIInv, <1>2, PTL DEF Spec, BestModelWithEvidence

-----------------------------------------------------------------------------
(* The catalog: every register that some map has, or that a name is looked up in *)

CommonCatalog == SystemRegisters \cup HpStatusRegisters \cup EnergyRegisters
FeatureCatalog == CascadeRegisters \cup SolarRegisters \cup IscRegisters \cup PvRegisters
OtherCatalog == Navigator10Registers \cup GltRegisters \cup SpecialRegisters
PlainCatalog == CommonCatalog \cup FeatureCatalog \cup OtherCatalog
CircuitCatalog == UNION {HeatingCircuitRegisters(c) : c \in 1..7}
ZoneCatalog == UNION {ZoneModuleRegisters(z) : z \in 1..10}
Catalog == PlainCatalog \cup CircuitCatalog \cup ZoneCatalog

LEMMA CoreIsPlain == CoreRegisters \subseteq PlainCatalog
BY DEF CoreRegisters, PlainCatalog, CommonCatalog, OtherCatalog, SystemRegisters,
  HpStatusRegisters, SpecialRegisters, Table

LEMMA CommonNamesDiffer ==
  ASSUME NEW r \in CommonCatalog, NEW s \in CommonCatalog, r.name = s.name PROVE r = s
BY SMTT(60) DEF CommonCatalog, SystemRegisters, HpStatusRegisters, EnergyRegisters, Table

LEMMA FeatureNamesDiffer ==
  ASSUME NEW r \in FeatureCatalog, NEW s \in FeatureCatalog, r.name = s.name PROVE r = s
BY SMTT(60) DEF FeatureCatalog, CascadeRegisters, SolarRegisters, IscRegisters, PvRegisters, Table

LEMMA OtherNamesDiffer ==
  ASSUME NEW r \in OtherCatalog, NEW s \in OtherCatalog, r.name = s.name PROVE r = s
BY SMTT(60) DEF OtherCatalog, Navigator10Registers, GltRegisters, SpecialRegisters, Table

LEMMA CommonFeatureNames ==
  ASSUME NEW r \in CommonCatalog, NEW s \in FeatureCatalog PROVE r.name # s.name
BY SMTT(60) DEF CommonCatalog, SystemRegisters, HpStatusRegisters, EnergyRegisters,
  FeatureCatalog, CascadeRegisters, SolarRegisters, IscRegisters, PvRegisters, Table

LEMMA CommonOtherNames ==
  ASSUME NEW r \in CommonCatalog, NEW s \in OtherCatalog PROVE r.name # s.name
BY SMTT(60) DEF CommonCatalog, SystemRegisters, HpStatusRegisters, EnergyRegisters,
  OtherCatalog, Navigator10Registers, GltRegisters, SpecialRegisters, Table

LEMMA FeatureOtherNames ==
  ASSUME NEW r \in FeatureCatalog, NEW s \in OtherCatalog PROVE r.name # s.name
BY SMTT(60) DEF FeatureCatalog, CascadeRegisters, SolarRegisters, IscRegisters, PvRegisters,
  OtherCatalog, Navigator10Registers, GltRegisters, SpecialRegisters, Table

LEMMA PlainNames ==
  ASSUME NEW r \in PlainCatalog, NEW s \in PlainCatalog, r.name = s.name PROVE r = s
BY CommonNamesDiffer, FeatureNamesDiffer, OtherNamesDiffer, CommonFeatureNames,
  CommonOtherNames, FeatureOtherNames DEF PlainCatalog

LEMMA PlainTables ==
  ASSUME NEW r \in PlainCatalog PROVE \E n : r.name = <<n>>
BY SMTT(120) DEF PlainCatalog, CommonCatalog, FeatureCatalog, OtherCatalog,
  SystemRegisters, HpStatusRegisters, EnergyRegisters, CascadeRegisters, SolarRegisters, IscRegisters, PvRegisters,
  Navigator10Registers, GltRegisters, SpecialRegisters, Table


-----------------------------------------------------------------------------
(* Registers of circuits, zones and rooms *)

\* An entry of a table is a register.
Entry(t) ==
  /\ t.address \in Nat /\ t.size \in {1, 2} /\ \E n : t.name = <<n>>

LEMMA TableEntries ==
  ASSUME NEW t \in CircuitTable \cup ZoneTable \cup RoomTable PROVE Entry(t)
BY DEF CircuitTable, ZoneTable, RoomTable, Table, Entry

LEMMA TableNamesDiffer ==
  /\ \A t, u \in CircuitTable : t.name = u.name => t = u
  /\ \A t, u \in ZoneTable : t.name = u.name => t = u
  /\ \A t, u \in RoomTable : t.name = u.name => t = u
<1>1. \A t, u \in CircuitTable : t.name = u.name => t = u
  BY DEF CircuitTable, Table
<1>2. \A t, u \in ZoneTable : t.name = u.name => t = u
  BY DEF ZoneTable, Table
<1>3. \A t, u \in RoomTable : t.name = u.name => t = u
  BY DEF RoomTable, Table
<1> QED
  BY <1>1, <1>2, <1>3

\* A register of a circuit is an entry of the table of circuits, placed.
LEMMA CircuitEntry ==
  ASSUME NEW c, NEW r \in HeatingCircuitRegisters(c)
  PROVE  \E t \in CircuitTable :
           r = [name |-> <<"hc", c, t.name[1]>>, address |-> (c - 1) * t.size + t.address,
                size |-> t.size, class |-> t.class]
BY Zenon DEF HeatingCircuitRegisters, Placed

LEMMA ZoneEntry ==
  ASSUME NEW z, NEW r \in ZoneModuleRegisters(z)
  PROVE  \/ \E t \in ZoneTable :
              r = [name |-> <<"zm", z, t.name[1]>>, address |-> ZoneBase(z) + t.address,
                   size |-> t.size, class |-> t.class]
         \/ \E room \in 1..RoomsPerZone, t \in RoomTable :
              r = [name |-> <<"zm", z, t.name[1], room>>,
                   address |-> ZoneBase(z) + 2 + (room - 1) * 7 + t.address,
                   size |-> t.size, class |-> t.class]
BY Zenon DEF ZoneModuleRegisters, RoomRegisters, Placed

LEMMA CircuitNames ==
  ASSUME NEW c, NEW d, NEW r \in HeatingCircuitRegisters(c), NEW s \in HeatingCircuitRegisters(d),
         r.name = s.name
  PROVE  r = s
<1>1. PICK t \in CircuitTable :
        r = [name |-> <<"hc", c, t.name[1]>>, address |-> (c - 1) * t.size + t.address,
             size |-> t.size, class |-> t.class]
  BY CircuitEntry
<1>2. PICK u \in CircuitTable :
        s = [name |-> <<"hc", d, u.name[1]>>, address |-> (d - 1) * u.size + u.address,
             size |-> u.size, class |-> u.class]
  BY CircuitEntry
<1>3. c = d /\ t.name[1] = u.name[1]
  BY <1>1, <1>2
<1>4. t = u
  <2>1. (\E n : t.name = <<n>>) /\ (\E n : u.name = <<n>>)
    BY TableEntries DEF Entry
  <2>2. t.name = u.name
    BY <1>3, <2>1
  <2> QED
    BY <2>2, TableNamesDiffer
<1> QED
  BY <1>1, <1>2, <1>3, <1>4

LEMMA ZoneNames ==
  ASSUME NEW y, NEW z, NEW r \in ZoneModuleRegisters(y), NEW s \in ZoneModuleRegisters(z),
         r.name = s.name
  PROVE  r = s
<1> DEFINE Own(x, w, t) ==
             w = [name |-> <<"zm", x, t.name[1]>>, address |-> ZoneBase(x) + t.address,
                  size |-> t.size, class |-> t.class]
           OfRoom(x, w, room, t) ==
             w = [name |-> <<"zm", x, t.name[1], room>>,
                  address |-> ZoneBase(x) + 2 + (room - 1) * 7 + t.address,
                  size |-> t.size, class |-> t.class]
<1>1. /\ (\E t \in ZoneTable : Own(y, r, t)) \/ (\E room \in 1..RoomsPerZone, t \in RoomTable : OfRoom(y, r, room, t))
      /\ (\E t \in ZoneTable : Own(z, s, t)) \/ (\E room \in 1..RoomsPerZone, t \in RoomTable : OfRoom(z, s, room, t))
  BY ZoneEntry
<1>2. \A t, u \in ZoneTable \cup RoomTable : t.name[1] = u.name[1] => t.name = u.name
  BY TableEntries DEF Entry
<1>3. ASSUME NEW t \in ZoneTable, NEW u \in ZoneTable, Own(y, r, t), Own(z, s, u) PROVE r = s
  <2>1. y = z /\ t.name[1] = u.name[1]
    BY <1>3
  <2>2. t = u
    BY <1>2, <2>1, TableNamesDiffer
  <2> QED
    BY <1>3, <2>1, <2>2
<1>4. ASSUME NEW t \in RoomTable, NEW u \in RoomTable, NEW a, NEW b, OfRoom(y, r, a, t), OfRoom(z, s, b, u)
      PROVE  r = s
  <2>1. y = z /\ a = b /\ t.name[1] = u.name[1]
    BY <1>4
  <2>2. t = u
    BY <1>2, <2>1, TableNamesDiffer
  <2> QED
    BY <1>4, <2>1, <2>2
<1>5. ASSUME NEW t, NEW u, NEW a, Own(y, r, t), OfRoom(z, s, a, u) PROVE FALSE
  <2>1. Len(r.name) = 3 /\ Len(s.name) = 4
    BY <1>5
  <2> QED
    BY <2>1
<1>6. ASSUME NEW t, NEW u, NEW a, OfRoom(y, r, a, t), Own(z, s, u) PROVE FALSE
  <2>1. Len(r.name) = 4 /\ Len(s.name) = 3
    BY <1>6
  <2> QED
    BY <2>1
<1> HIDE DEF Own, OfRoom
<1> QED
  BY <1>1, <1>3, <1>4, <1>5, <1>6

\* No two registers of the catalog have one name.
LEMMA NamesAreUnique ==
  ASSUME NEW r \in Catalog, NEW s \in Catalog, r.name = s.name PROVE r = s
<1>1. \A w \in PlainCatalog : Len(w.name) = 1
  BY PlainTables
<1>2. \A w \in CircuitCatalog : Len(w.name) = 3 /\ w.name[1] = "hc"
  <2> SUFFICES ASSUME NEW w \in CircuitCatalog PROVE Len(w.name) = 3 /\ w.name[1] = "hc"
    OBVIOUS
  <2>1. PICK c \in 1..7 : w \in HeatingCircuitRegisters(c)
    BY DEF CircuitCatalog
  <2>2. \E n : w.name = <<"hc", c, n>>
    BY <2>1, CircuitEntry
  <2> QED
    BY <2>2
<1>3. \A w \in ZoneCatalog : Len(w.name) \in {3, 4} /\ w.name[1] = "zm"
  <2> SUFFICES ASSUME NEW w \in ZoneCatalog PROVE Len(w.name) \in {3, 4} /\ w.name[1] = "zm"
    OBVIOUS
  <2>1. PICK z \in 1..10 : w \in ZoneModuleRegisters(z)
    BY DEF ZoneCatalog
  <2>2. (\E n : w.name = <<"zm", z, n>>) \/ \E n, room : w.name = <<"zm", z, n, room>>
    BY <2>1, ZoneEntry
  <2> QED
    BY <2>2
<1>4. r \in PlainCatalog /\ s \in PlainCatalog => r = s
  BY PlainNames
<1>5. r \in CircuitCatalog /\ s \in CircuitCatalog => r = s
  BY CircuitNames DEF CircuitCatalog
<1>6. r \in ZoneCatalog /\ s \in ZoneCatalog => r = s
  BY ZoneNames DEF ZoneCatalog
<1> QED
  BY <1>1, <1>2, <1>3, <1>4, <1>5, <1>6 DEF Catalog
-----------------------------------------------------------------------------
(* Register maps *)

\* Maps of the catalog are merged without a loss.
LEMMA MergeIsUnion ==
  ASSUME NEW first, NEW second, first \subseteq Catalog, second \subseteq Catalog
  PROVE  Merge(first, second) = first \cup second /\ Merge(first, second) \subseteq Catalog
<1>1. ASSUME NEW r \in first, r.name \in NamesOf(second) PROVE r \in second
  BY <1>1, NamesAreUnique DEF NamesOf
<1>2. Merge(first, second) = first \cup second
  BY <1>1 DEF Merge
<1> QED
  BY <1>2

Circuits(info) == UNION {HeatingCircuitRegisters(c) : c \in info.circuits}
Zones(info) == UNION {ZoneModuleRegisters(z) : z \in 1..info.zoneModules}
OfModel(info) == IF IsNavigator10(info) THEN Navigator10Registers ELSE {}
OfFeatures(info) == UNION {FeatureRegisters(f) : f \in info.features}

\* A detection's result, or what the map is built from without one.
Info(info) ==
  /\ info.circuits \subseteq 1..7 /\ info.zoneModules \in 0..10
  /\ info.features \subseteq {"cascade", "solar", "isc", "pv"}

\* The map of a model has all the registers of its parts.
LEMMA MapIsUnion ==
  ASSUME NEW info, Info(info)
  PROVE  /\ BuildRegisterMap(info) =
              CommonCatalog \cup OfModel(info) \cup OfFeatures(info)
              \cup Circuits(info) \cup Zones(info) \cup GltRegisters \cup SpecialRegisters
         /\ BuildRegisterMap(info) \subseteq Catalog
<1> DEFINE hp == Merge(SystemRegisters, HpStatusRegisters)
           common == Merge(hp, EnergyRegisters)
           withModel == Merge(common, OfModel(info))
           withFeatures == Merge(withModel, OfFeatures(info))
           withCircuits == Merge(withFeatures, Circuits(info))
           withZones == Merge(withCircuits, Zones(info))
           glt == Merge(withZones, GltRegisters)
           special == Merge(glt, SpecialRegisters)
<1>1. /\ SystemRegisters \subseteq Catalog /\ HpStatusRegisters \subseteq Catalog
      /\ EnergyRegisters \subseteq Catalog /\ GltRegisters \subseteq Catalog
      /\ SpecialRegisters \subseteq Catalog /\ OfModel(info) \subseteq Catalog
  BY DEF OfModel, Catalog, PlainCatalog, CommonCatalog, OtherCatalog
<1>2. OfFeatures(info) \subseteq Catalog
  <2>1. ASSUME NEW f \in {"cascade", "solar", "isc", "pv"} PROVE FeatureRegisters(f) \subseteq FeatureCatalog
    BY DEF FeatureRegisters, FeatureCatalog
  <2> QED
    BY <2>1 DEF Info, OfFeatures, Catalog, PlainCatalog
<1>3. Circuits(info) \subseteq Catalog
  BY DEF Info, Circuits, Catalog, CircuitCatalog
<1>4. Zones(info) \subseteq Catalog
  <2>1. 1..info.zoneModules \subseteq 1..10
    BY DEF Info
  <2> QED
    BY <2>1 DEF Zones, Catalog, ZoneCatalog
<1>5. hp = SystemRegisters \cup HpStatusRegisters /\ hp \subseteq Catalog
  BY <1>1, MergeIsUnion
<1>6. common = hp \cup EnergyRegisters /\ common \subseteq Catalog
  BY <1>1, <1>5, MergeIsUnion
<1>7. withModel = common \cup OfModel(info) /\ withModel \subseteq Catalog
  BY <1>1, <1>6, MergeIsUnion
<1>8. withFeatures = withModel \cup OfFeatures(info) /\ withFeatures \subseteq Catalog
  BY <1>2, <1>7, MergeIsUnion
<1>9. withCircuits = withFeatures \cup Circuits(info) /\ withCircuits \subseteq Catalog
  BY <1>3, <1>8, MergeIsUnion
<1>10. withZones = withCircuits \cup Zones(info) /\ withZones \subseteq Catalog
  BY <1>4, <1>9, MergeIsUnion
<1>11. glt = withZones \cup GltRegisters /\ glt \subseteq Catalog
  BY <1>1, <1>10, MergeIsUnion
<1>12. special = glt \cup SpecialRegisters /\ special \subseteq Catalog
  BY <1>1, <1>11, MergeIsUnion
<1>13. BuildRegisterMap(info) = special
  BY Zenon DEF BuildRegisterMap, CommonRegisters, OfModel, OfFeatures, Circuits, Zones
<1> HIDE DEF hp, common, withModel, withFeatures, withCircuits, withZones, glt, special
<1>14. CommonCatalog = SystemRegisters \cup HpStatusRegisters \cup EnergyRegisters
  BY DEF CommonCatalog
<1> QED
  BY <1>5, <1>6, <1>7, <1>8, <1>9, <1>10, <1>11, <1>12, <1>13, <1>14, Zenon

\* The map of a client is that of the model it has detected.
Installed == \/ modelInfo = None /\ registerMap = None
             \/ Info(modelInfo) /\ registerMap = BuildRegisterMap(modelInfo)

LEMMA AlwaysInstalled == MapSpec => []Installed
<1>1. NoMap => Installed
  BY DEF NoMap, Installed
<1>2. Installed /\ [\E info \in ModelInfos : Detect(info)]_mapVars => Installed'
  BY InfosAssumption DEF Installed, Detect, mapVars, Info
<1> QED
  BY <1>1, <1>2, PTL DEF MapSpec

LEMMA DefaultIsOfCatalog == DefaultMap \subseteq Catalog
<1> DEFINE info == [modelName |-> "Navigator 10", circuits |-> 1..7, zoneModules |-> 0,
                    features |-> {"cascade", "solar", "isc", "pv"}]
<1>1. Info(info)
  BY DEF Info
<1>2. BuildRegisterMap(info) \subseteq Catalog
  <2> HIDE DEF info
  <2> QED
    BY <1>1, MapIsUnion
<1> QED
  BY <1>2 DEF DefaultMap

\* What is found by a name in a map of the catalog is the register of that name.
LEMMA FindInCatalog ==
  ASSUME NEW map, map \subseteq Catalog, NEW name
  PROVE  /\ Find(map, name) = None \/ (Find(map, name) \in map /\ Find(map, name).name = name)
         /\ name \in NamesOf(map) => Find(map, name) \in map /\ Find(map, name).name = name
<1>1. CASE \E r \in map : r.name = name
  <2>1. Find(map, name) = CHOOSE r \in map : r.name = name
    BY <1>1 DEF Find
  <2> QED
    BY <1>1, <2>1
<1>2. CASE ~ \E r \in map : r.name = name
  BY <1>2 DEF Find, NamesOf
<1> QED
  BY <1>1, <1>2

\* A name means one register, whichever map it is looked up in, for any names and for
\* whatever a detection may report: no catalog is shadowed by another one.
THEOREM NamesHaveOneMeaning == MapSpec => []NamesMeanOneRegister
<1>1. Installed => NamesMeanOneRegister
  <2> SUFFICES ASSUME Installed, NEW name \in Asked
               PROVE  /\ WriteLookup(name) = ReadLookup(name)
                      /\ \/ ReadLookup(name) = GetRegister(name, DefaultMap)
                         \/ ReadLookup(name) = None \/ GetRegister(name, DefaultMap) = None
    BY DEF NamesMeanOneRegister
  <2>1. InUse \subseteq Catalog /\ (registerMap # None => InUse = registerMap)
    BY DefaultIsOfCatalog, MapIsUnion DEF Installed, InUse
  <2>2. CoreRegisters \subseteq Catalog
    BY CoreIsPlain DEF Catalog
  <2> DEFINE Found(r) == r = None \/ (r \in Catalog /\ r.name = name)
  <2>3. ASSUME NEW map, map \subseteq Catalog PROVE Found(GetRegister(name, map))
    <3>1. Found(Find(map, name)) /\ Found(Find(CoreRegisters, name))
      BY <2>2, <2>3, FindInCatalog
    <3> QED
      BY <3>1 DEF GetRegister
  <2>4. WriteLookup(name) = ReadLookup(name)
    <3>1. CASE registerMap # None /\ name \in NamesOf(registerMap) /\ name \in NamesOf(CoreRegisters)
      <4>1. ReadLookup(name) = Find(InUse, name) /\ WriteLookup(name) = Find(CoreRegisters, name)
        BY <2>1, <3>1 DEF ReadLookup, WriteLookup, GetRegister
      <4>2. /\ Find(InUse, name) \in Catalog /\ Find(InUse, name).name = name
            /\ Find(CoreRegisters, name) \in Catalog /\ Find(CoreRegisters, name).name = name
        BY <2>1, <2>2, <3>1, FindInCatalog
      <4> QED
        BY <4>1, <4>2, NamesAreUnique
    <3>2. CASE registerMap # None /\ name \in NamesOf(registerMap) /\ name \notin NamesOf(CoreRegisters)
      BY <2>1, <3>2 DEF ReadLookup, WriteLookup, GetRegister
    <3>3. CASE ~ (registerMap # None /\ name \in NamesOf(registerMap))
      BY <3>3 DEF ReadLookup, WriteLookup
    <3> QED
      BY <3>1, <3>2, <3>3
  <2>5. Found(WriteLookup(name)) /\ Found(GetRegister(name, DefaultMap))
    BY <2>1, <2>3, DefaultIsOfCatalog DEF WriteLookup
  <2> QED
    BY <2>4, <2>5, NamesAreUnique
<1> QED
  BY <1>1, AlwaysInstalled, PTL

\* A probe of so many words at an address reads one of the registers.
Reads(registers, address, size) == \E r \in registers : r.address = address /\ r.size = size

LEMMA MoreIsRead ==
  ASSUME NEW part, NEW map, part \subseteq map, NEW address, NEW size, Reads(part, address, size)
  PROVE  Reads(map, address, size)
BY DEF Reads

LEMMA EntryIsRead ==
  ASSUME NEW registers, NEW r \in registers, NEW address, NEW size, r.address = address, r.size = size
  PROVE  Reads(registers, address, size)
BY DEF Reads

LEMMA CircuitProbes ==
  ASSUME NEW c \in Nat
  PROVE  /\ Reads(HeatingCircuitRegisters(c), 1350 + 2 * (c - 1), 2)
         /\ Reads(HeatingCircuitRegisters(c), 1498 + c - 1, 1)
<1> DEFINE flowProbe == [name |-> <<"flow_temp">>, address |-> 1350, size |-> 2, class |-> "forbidden"]
           modeProbe == [name |-> <<"active_mode">>, address |-> 1498, size |-> 1, class |-> "forbidden"]
           At(t) == Placed(t, <<"hc", c, t.name[1]>>, (c - 1) * t.size)
<1>1. flowProbe \in CircuitTable /\ modeProbe \in CircuitTable
  BY DEF CircuitTable, Table
<1>2. \A t \in CircuitTable : At(t) \in HeatingCircuitRegisters(c)
  BY DEF HeatingCircuitRegisters
<1>3. /\ At(flowProbe).address = 1350 + 2 * (c - 1) /\ At(flowProbe).size = 2
      /\ At(modeProbe).address = 1498 + c - 1 /\ At(modeProbe).size = 1
  BY DEF Placed
<1> HIDE DEF At, flowProbe, modeProbe
<1>4. At(flowProbe) \in HeatingCircuitRegisters(c) /\ At(modeProbe) \in HeatingCircuitRegisters(c)
  BY <1>1, <1>2
<1> QED
  BY <1>3, <1>4, EntryIsRead

LEMMA ZoneProbes ==
  ASSUME NEW z \in Nat
  PROVE  Reads(ZoneModuleRegisters(z), 2000 + 65 * (z - 1), 1)
<1> DEFINE own == [name |-> <<"mode_heat_cool">>, address |-> 0, size |-> 1, class |-> "forbidden"]
           at == Placed(own, <<"zm", z, own.name[1]>>, ZoneBase(z))
<1>1. own \in ZoneTable
  BY DEF ZoneTable, Table
<1>2. at.address = 2000 + 65 * (z - 1) /\ at.size = 1
  BY DEF Placed, ZoneBase
<1> HIDE DEF own
<1>3. at \in ZoneModuleRegisters(z)
  BY <1>1 DEF ZoneModuleRegisters
<1> HIDE DEF at
<1> QED
  BY <1>2, <1>3, EntryIsRead

LEMMA PlainProbes ==
  /\ Reads(SolarRegisters, 1850, 2)
  /\ Reads(IscRegisters, 1870, 2)
  /\ Reads(PvRegisters, 74, 2)
  /\ Reads(HpStatusRegisters, 1147, 1)
  /\ Reads(Navigator10Registers, 4108, 2)
  /\ Reads(EnergyRegisters, 4120, 2)
<1>1. Reads(SolarRegisters, 1850, 2)
  <2> DEFINE r == [name |-> <<"solar_collector_temp">>, address |-> 1850, size |-> 2, class |-> "forbidden"]
  <2>1. r \in SolarRegisters
    BY DEF SolarRegisters, Table
  <2>2. r.address = 1850 /\ r.size = 2
    OBVIOUS
  <2> HIDE DEF r
  <2> QED
    BY <2>1, <2>2, EntryIsRead
<1>2. Reads(IscRegisters, 1870, 2)
  <2> DEFINE r == [name |-> <<"isc_charging_temp_cooling">>, address |-> 1870, size |-> 2, class |-> "forbidden"]
  <2>1. r \in IscRegisters
    BY DEF IscRegisters, Table
  <2>2. r.address = 1870 /\ r.size = 2
    OBVIOUS
  <2> HIDE DEF r
  <2> QED
    BY <2>1, <2>2, EntryIsRead
<1>3. Reads(PvRegisters, 74, 2)
  <2> DEFINE r == [name |-> <<"pv_surplus">>, address |-> 74, size |-> 2, class |-> "volatile"]
  <2>1. r \in PvRegisters
    BY DEF PvRegisters, Table
  <2>2. r.address = 74 /\ r.size = 2
    OBVIOUS
  <2> HIDE DEF r
  <2> QED
    BY <2>1, <2>2, EntryIsRead
<1>4. Reads(HpStatusRegisters, 1147, 1)
  <2> DEFINE r == [name |-> <<"cascade_available_heating">>, address |-> 1147, size |-> 1, class |-> "forbidden"]
  <2>1. r \in HpStatusRegisters
    BY DEF HpStatusRegisters, Table
  <2>2. r.address = 1147 /\ r.size = 1
    OBVIOUS
  <2> HIDE DEF r
  <2> QED
    BY <2>1, <2>2, EntryIsRead
<1>5. Reads(Navigator10Registers, 4108, 2)
  <2> DEFINE r == [name |-> <<"power_limit_hp">>, address |-> 4108, size |-> 2, class |-> "volatile"]
  <2>1. r \in Navigator10Registers
    BY DEF Navigator10Registers, Table
  <2>2. r.address = 4108 /\ r.size = 2
    OBVIOUS
  <2> HIDE DEF r
  <2> QED
    BY <2>1, <2>2, EntryIsRead
<1>6. Reads(EnergyRegisters, 4120, 2)
  <2> DEFINE r == [name |-> <<"firmware_version">>, address |-> 4120, size |-> 2, class |-> "forbidden"]
  <2>1. r \in EnergyRegisters
    BY DEF EnergyRegisters, Table
  <2>2. r.address = 4120 /\ r.size = 2
    OBVIOUS
  <2> HIDE DEF r
  <2> QED
    BY <2>1, <2>2, EntryIsRead
<1> QED
  BY <1>1, <1>2, <1>3, <1>4, <1>5, <1>6

\* Whatever a detection takes as evidence is a register of the map it installs, as wide
\* as it was probed, for every set of circuits and features and number of zone modules.
THEOREM ProbesAreOfTheMap == MapSpec => []ProbesReadRegisters
<1>1. Installed => ProbesReadRegisters
  <2> SUFFICES ASSUME Installed, modelInfo # None, NEW p \in Probes 
               PROVE  \E r \in registerMap : p = [address |-> r.address, size |-> r.size]
    BY DEF ProbesReadRegisters
  <2>1. Info(modelInfo) /\ registerMap = BuildRegisterMap(modelInfo)
    BY DEF Installed
  <2>2. /\ CommonCatalog \subseteq registerMap /\ OfModel(modelInfo) \subseteq registerMap
        /\ OfFeatures(modelInfo) \subseteq registerMap /\ Circuits(modelInfo) \subseteq registerMap
        /\ Zones(modelInfo) \subseteq registerMap
    BY <2>1, MapIsUnion
  <2>3. ASSUME NEW c \in modelInfo.circuits
        PROVE  /\ Reads(registerMap, 1350 + 2 * (c - 1), 2)
               /\ Reads(registerMap, 1498 + c - 1, 1)
    <3>1. c \in Nat
      BY <2>1 DEF Info
    <3>2. HeatingCircuitRegisters(c) \subseteq registerMap
      BY <2>2 DEF Circuits
    <3> QED
      BY <3>1, <3>2, CircuitProbes, MoreIsRead
  <2>4. ASSUME NEW z \in 1..modelInfo.zoneModules
        PROVE  Reads(registerMap, 2000 + 65 * (z - 1), 1)
    <3>1. z \in Nat
      BY <2>1 DEF Info
    <3>2. ZoneModuleRegisters(z) \subseteq registerMap
      BY <2>2 DEF Zones
    <3> QED
      BY <3>1, <3>2, ZoneProbes, MoreIsRead
  <2>5. /\ "solar" \in modelInfo.features => SolarRegisters \subseteq registerMap
        /\ "isc" \in modelInfo.features => IscRegisters \subseteq registerMap
        /\ "pv" \in modelInfo.features => PvRegisters \subseteq registerMap
    <3>1. /\ FeatureRegisters("solar") = SolarRegisters /\ FeatureRegisters("isc") = IscRegisters
          /\ FeatureRegisters("pv") = PvRegisters
      BY DEF FeatureRegisters
    <3> QED
      BY <2>2, <3>1, Zenon DEF OfFeatures
  <2>6. /\ HpStatusRegisters \subseteq registerMap /\ EnergyRegisters \subseteq registerMap
        /\ IsNavigator10(modelInfo) => Navigator10Registers \subseteq registerMap
    BY <2>2 DEF CommonCatalog, OfModel
  <2>7. /\ "solar" \in modelInfo.features => Reads(registerMap, 1850, 2)
        /\ "isc" \in modelInfo.features => Reads(registerMap, 1870, 2)
        /\ "pv" \in modelInfo.features => Reads(registerMap, 74, 2)
        /\ Reads(registerMap, 1147, 1)
        /\ IsNavigator10(modelInfo) => Reads(registerMap, 4108, 2)
        /\ Reads(registerMap, 4120, 2)
    <3>1. "solar" \in modelInfo.features => Reads(registerMap, 1850, 2)
      BY <2>5, PlainProbes, MoreIsRead
    <3>2. "isc" \in modelInfo.features => Reads(registerMap, 1870, 2)
      BY <2>5, PlainProbes, MoreIsRead
    <3>3. "pv" \in modelInfo.features => Reads(registerMap, 74, 2)
      BY <2>5, PlainProbes, MoreIsRead
    <3>4. Reads(registerMap, 1147, 1)
      BY <2>6, PlainProbes DEF Reads
    <3>5. IsNavigator10(modelInfo) => Reads(registerMap, 4108, 2)
      BY <2>6, PlainProbes DEF Reads
    <3>6. Reads(registerMap, 4120, 2)
      BY <2>6, PlainProbes DEF Reads
    <3> QED
      BY <3>1, <3>2, <3>3, <3>4, <3>5, <3>6
  <2>8. ASSUME NEW address, NEW size, Reads(registerMap, address, size), p = [address |-> address, size |-> size]
        PROVE  \E r \in registerMap : p = [address |-> r.address, size |-> r.size]
    BY <2>8 DEF Reads
  <2>9. \E address, size : Reads(registerMap, address, size) /\ p = [address |-> address, size |-> size]
    <3>1. CASE p \in {[address |-> 1350 + 2 * (c - 1), size |-> 2] : c \in modelInfo.circuits}
      BY <2>3, <3>1
    <3>2. CASE p \in {[address |-> 1498 + c - 1, size |-> 1] : c \in modelInfo.circuits}
      BY <2>3, <3>2
    <3>3. CASE p \in {[address |-> 2000 + 65 * (z - 1), size |-> 1] : z \in 1..modelInfo.zoneModules}
      BY <2>4, <3>3
    <3>4. CASE p = [address |-> 1850, size |-> 2] /\ "solar" \in modelInfo.features
      BY <2>7, <3>4
    <3>5. CASE p = [address |-> 1870, size |-> 2] /\ "isc" \in modelInfo.features
      BY <2>7, <3>5
    <3>6. CASE p = [address |-> 74, size |-> 2] /\ "pv" \in modelInfo.features
      BY <2>7, <3>6
    <3>7. CASE p = [address |-> 1147, size |-> 1]
      BY <2>7, <3>7
    <3>8. CASE p = [address |-> 4108, size |-> 2] /\ IsNavigator10(modelInfo)
      BY <2>7, <3>8
    <3>9. CASE p = [address |-> 4120, size |-> 2]
      BY <2>7, <3>9
    <3>10. \/ p \in {[address |-> 1350 + 2 * (c - 1), size |-> 2] : c \in modelInfo.circuits}
           \/ p \in {[address |-> 1498 + c - 1, size |-> 1] : c \in modelInfo.circuits}
           \/ p \in {[address |-> 2000 + 65 * (z - 1), size |-> 1] : z \in 1..modelInfo.zoneModules}
           \/ p = [address |-> 1850, size |-> 2] /\ "solar" \in modelInfo.features
           \/ p = [address |-> 1870, size |-> 2] /\ "isc" \in modelInfo.features
           \/ p = [address |-> 74, size |-> 2] /\ "pv" \in modelInfo.features
           \/ p = [address |-> 1147, size |-> 1]
           \/ p = [address |-> 4108, size |-> 2] /\ IsNavigator10(modelInfo)
           \/ p = [address |-> 4120, size |-> 2]
      BY DEF Probes
    <3> QED
      BY <3>1, <3>2, <3>3, <3>4, <3>5, <3>6, <3>7, <3>8, <3>9, <3>10
  <2> QED
    BY <2>8, <2>9
<1> QED
  BY <1>1, AlwaysInstalled, PTL
-----------------------------------------------------------------------------
(* Where registers begin, and which of them overlap *)

\* Two registers begin at different words, and where the second one begins in the middle
\* of the first, that is documented, and a write of one is throttled like one of the other.
Apart(r, s) ==
  /\ r.address = s.address => r = s
  /\ r.size = 2 /\ s.address = r.address + 1 =>
       /\ r.address \in {1392, 1441, 1483}
       /\ r.class # "forbidden" /\ s.class # "forbidden" => r.class = "eeprom" /\ s.class = "eeprom"

LEMMA CommonApart ==
  ASSUME NEW r \in CommonCatalog, NEW s \in CommonCatalog PROVE Apart(r, s)
BY SMTT(120) DEF Apart, CommonCatalog, SystemRegisters, HpStatusRegisters, EnergyRegisters, Table

LEMMA FeaturesApart ==
  ASSUME NEW r \in FeatureCatalog, NEW s \in FeatureCatalog PROVE Apart(r, s)
BY SMTT(120)
  DEF Apart, FeatureCatalog, CascadeRegisters, SolarRegisters, IscRegisters, PvRegisters, Table

LEMMA OthersApart ==
  ASSUME NEW r \in OtherCatalog, NEW s \in OtherCatalog PROVE Apart(r, s)
BY SMTT(120) DEF Apart, OtherCatalog, Navigator10Registers, GltRegisters, SpecialRegisters, Table

LEMMA CommonFeaturesApart ==
  ASSUME NEW r \in CommonCatalog, NEW s \in FeatureCatalog PROVE Apart(r, s) /\ Apart(s, r)
<1>1. Apart(r, s)
  BY SMTT(120) DEF Apart, CommonCatalog, SystemRegisters, HpStatusRegisters, EnergyRegisters,
    FeatureCatalog, CascadeRegisters, SolarRegisters, IscRegisters, PvRegisters, Table
<1>2. Apart(s, r)
  BY SMTT(120) DEF Apart, CommonCatalog, SystemRegisters, HpStatusRegisters, EnergyRegisters,
    FeatureCatalog, CascadeRegisters, SolarRegisters, IscRegisters, PvRegisters, Table
<1> QED
  BY <1>1, <1>2

LEMMA CommonOthersApart ==
  ASSUME NEW r \in CommonCatalog, NEW s \in OtherCatalog PROVE Apart(r, s) /\ Apart(s, r)
<1>1. Apart(r, s)
  BY SMTT(120) DEF Apart, CommonCatalog, SystemRegisters, HpStatusRegisters, EnergyRegisters,
    OtherCatalog, Navigator10Registers, GltRegisters, SpecialRegisters, Table
<1>2. Apart(s, r)
  BY SMTT(120) DEF Apart, CommonCatalog, SystemRegisters, HpStatusRegisters, EnergyRegisters,
    OtherCatalog, Navigator10Registers, GltRegisters, SpecialRegisters, Table
<1> QED
  BY <1>1, <1>2

LEMMA FeaturesOthersApart ==
  ASSUME NEW r \in FeatureCatalog, NEW s \in OtherCatalog PROVE Apart(r, s) /\ Apart(s, r)
<1>1. Apart(r, s)
  BY SMTT(120) DEF Apart, FeatureCatalog, CascadeRegisters, SolarRegisters, IscRegisters, PvRegisters,
    OtherCatalog, Navigator10Registers, GltRegisters, SpecialRegisters, Table
<1>2. Apart(s, r)
  BY SMTT(120) DEF Apart, FeatureCatalog, CascadeRegisters, SolarRegisters, IscRegisters, PvRegisters,
    OtherCatalog, Navigator10Registers, GltRegisters, SpecialRegisters, Table
<1> QED
  BY <1>1, <1>2

\* The words of the registers that every model has or some model adds: those of circuits
\* and zone modules are left free, but for one that the humidity sensor reaches into.
LEMMA PlainExtent ==
  ASSUME NEW r \in PlainCatalog
  PROVE  /\ r.address \in Nat /\ r.size \in {1, 2}
         /\ \/ r.address + r.size <= 1350
            \/ r.address = 1392 /\ r.class = "forbidden"
            \/ 1512 <= r.address /\ r.address + r.size <= 1650
            \/ 1664 <= r.address /\ r.address + r.size <= 2000
            \/ 4000 <= r.address
<1>1. CASE r \in CommonCatalog
  BY <1>1, SMTT(60) DEF CommonCatalog, SystemRegisters, HpStatusRegisters, EnergyRegisters, Table
<1>2. CASE r \in FeatureCatalog
  BY <1>2, SMTT(60)
    DEF FeatureCatalog, CascadeRegisters, SolarRegisters, IscRegisters, PvRegisters, Table
<1>3. CASE r \in OtherCatalog
  BY <1>3, SMTT(60) DEF OtherCatalog, Navigator10Registers, GltRegisters, SpecialRegisters, Table
<1> QED
  BY <1>1, <1>2, <1>3 DEF PlainCatalog

LEMMA CircuitExtent ==
  ASSUME NEW c \in 1..7, NEW r \in HeatingCircuitRegisters(c)
  PROVE  /\ r.address \in Nat /\ r.size \in {1, 2}
         /\ r.address \notin {1391, 1392}
         /\ \/ 1350 <= r.address /\ r.address + r.size <= 1512
            \/ 1650 <= r.address /\ r.address + r.size <= 1664
<1>1. PICK t \in CircuitTable :
        r.address = (c - 1) * t.size + t.address /\ r.size = t.size
  BY CircuitEntry
<1>2. c - 1 \in 0..6
  OBVIOUS
<1> QED
  BY <1>1, <1>2, SMTT(60) DEF CircuitTable, Table

LEMMA CircuitsApart ==
  ASSUME NEW c \in 1..7, NEW d \in 1..7,
         NEW r \in HeatingCircuitRegisters(c), NEW s \in HeatingCircuitRegisters(d)
  PROVE  Apart(r, s)
<1>1. PICK t \in CircuitTable :
        r = [name |-> <<"hc", c, t.name[1]>>, address |-> (c - 1) * t.size + t.address,
             size |-> t.size, class |-> t.class]
  BY CircuitEntry
<1>2. PICK u \in CircuitTable :
        s = [name |-> <<"hc", d, u.name[1]>>, address |-> (d - 1) * u.size + u.address,
             size |-> u.size, class |-> u.class]
  BY CircuitEntry
<1>3. c - 1 \in 0..6 /\ d - 1 \in 0..6
  OBVIOUS
<1>4. (c - 1) * t.size + t.address = (d - 1) * u.size + u.address => c = d /\ t = u
  BY <1>3, SMTT(90) DEF CircuitTable, Table
<1>5. t.size = 2 /\ (d - 1) * u.size + u.address = (c - 1) * t.size + t.address + 1 =>
        /\ (c - 1) * t.size + t.address \in {1441, 1483}
        /\ t.class = "eeprom" /\ u.class = "eeprom"
  BY <1>3, SMTT(90) DEF CircuitTable, Table
<1> QED
  BY <1>1, <1>2, <1>4, <1>5 DEF Apart
\* The words of a zone module: its own two, then seven for each room.
LEMMA ZoneWords ==
  ASSUME NEW z \in Nat \ {0}, NEW r \in ZoneModuleRegisters(z)
  PROVE  \/ \E t \in ZoneTable :
              /\ r = [name |-> <<"zm", z, t.name[1]>>, address |-> r.address,
                       size |-> t.size, class |-> t.class]
              /\ r.address = ZoneBase(z) + t.address /\ t.address \in {0, 1} /\ t.size = 1
         \/ \E room \in 1..8, t \in RoomTable :
              /\ r = [name |-> <<"zm", z, t.name[1], room>>, address |-> r.address,
                       size |-> t.size, class |-> t.class]
              /\ r.address = ZoneBase(z) + 2 + (room - 1) * 7 + t.address
              /\ t.address \in 0..6 /\ t.size \in {1, 2} /\ t.address + t.size <= 7
<1>1. \A t \in ZoneTable : t.address \in {0, 1} /\ t.size = 1
  BY DEF ZoneTable, Table
<1>2. \A t \in RoomTable : t.address \in 0..6 /\ t.size \in {1, 2} /\ t.address + t.size <= 7
  BY DEF RoomTable, Table
<1>3. CASE \E t \in ZoneTable :
              r = [name |-> <<"zm", z, t.name[1]>>, address |-> ZoneBase(z) + t.address,
                   size |-> t.size, class |-> t.class]
  <2>1. PICK t \in ZoneTable :
          r = [name |-> <<"zm", z, t.name[1]>>, address |-> ZoneBase(z) + t.address,
               size |-> t.size, class |-> t.class]
    BY <1>3
  <2>2. r.address = ZoneBase(z) + t.address
    BY <2>1
  <2> QED
    BY <1>1, <2>1, <2>2, Zenon
<1>4. CASE \E room \in 1..RoomsPerZone, t \in RoomTable :
              r = [name |-> <<"zm", z, t.name[1], room>>,
                   address |-> ZoneBase(z) + 2 + (room - 1) * 7 + t.address,
                   size |-> t.size, class |-> t.class]
  <2>1. 1..RoomsPerZone \subseteq 1..8
    BY RoomsAssumption
  <2> QED
    <3>1. PICK room \in 1..RoomsPerZone, t \in RoomTable :
            r = [name |-> <<"zm", z, t.name[1], room>>,
                 address |-> ZoneBase(z) + 2 + (room - 1) * 7 + t.address,
                 size |-> t.size, class |-> t.class]
      BY <1>4
    <3>2. r.address = ZoneBase(z) + 2 + (room - 1) * 7 + t.address /\ room \in 1..8
      BY <2>1, <3>1
    <3> QED
      BY <1>2, <3>1, <3>2, Zenon
<1> QED
  BY <1>3, <1>4, ZoneEntry

LEMMA ZoneExtent ==
  ASSUME NEW z \in Nat \ {0}, NEW r \in ZoneModuleRegisters(z)
  PROVE  /\ r.address \in Int /\ r.size \in {1, 2}
         /\ ZoneBase(z) <= r.address /\ r.address + r.size <= ZoneBase(z) + 58
<1>1. ZoneBase(z) \in Int
  BY DEF ZoneBase
<1>2. CASE \E t \in ZoneTable :
              /\ r = [name |-> <<"zm", z, t.name[1]>>, address |-> r.address,
                       size |-> t.size, class |-> t.class]
              /\ r.address = ZoneBase(z) + t.address /\ t.address \in {0, 1} /\ t.size = 1
  BY <1>1, <1>2
<1>3. CASE \E room \in 1..8, t \in RoomTable :
              /\ r = [name |-> <<"zm", z, t.name[1], room>>, address |-> r.address,
                       size |-> t.size, class |-> t.class]
              /\ r.address = ZoneBase(z) + 2 + (room - 1) * 7 + t.address
              /\ t.address \in 0..6 /\ t.size \in {1, 2} /\ t.address + t.size <= 7
  BY <1>1, <1>3
<1> QED
  BY <1>2, <1>3, ZoneWords

\* Registers of two zone modules never share a word, for any number of zone
\* modules: no room runs into the next module.
THEOREM ZonesDoNotOverlap ==
  ASSUME NEW y \in Nat \ {0}, NEW z \in Nat \ {0}, y < z,
         NEW r \in ZoneModuleRegisters(y), NEW s \in ZoneModuleRegisters(z)
  PROVE  r.address + r.size <= s.address
<1>1. r.address + r.size <= ZoneBase(y) + 58 /\ ZoneBase(z) <= s.address
  BY ZoneExtent
<1>2. r.address + r.size \in Int /\ s.address \in Int
  BY ZoneExtent
<1>3. ZoneBase(y) + 65 <= ZoneBase(z) /\ ZoneBase(y) \in Int /\ ZoneBase(z) \in Int
  BY SMT DEF ZoneBase
<1> QED
  BY <1>1, <1>2, <1>3

\* Nor do two registers of one zone module.
LEMMA ZoneApart ==
  ASSUME NEW z \in Nat \ {0}, NEW r \in ZoneModuleRegisters(z), NEW s \in ZoneModuleRegisters(z)
  PROVE  Apart(r, s)
<1> DEFINE Own(w, t) ==
             /\ w = [name |-> <<"zm", z, t.name[1]>>, address |-> w.address,
                      size |-> t.size, class |-> t.class]
             /\ w.address = ZoneBase(z) + t.address /\ t.address \in {0, 1} /\ t.size = 1
           OfRoom(w, room, t) ==
             /\ w = [name |-> <<"zm", z, t.name[1], room>>, address |-> w.address,
                      size |-> t.size, class |-> t.class]
             /\ w.address = ZoneBase(z) + 2 + (room - 1) * 7 + t.address
             /\ t.address \in 0..6 /\ t.size \in {1, 2} /\ t.address + t.size <= 7
<1>1. /\ (\E t \in ZoneTable : Own(r, t)) \/ (\E room \in 1..8, t \in RoomTable : OfRoom(r, room, t))
      /\ (\E t \in ZoneTable : Own(s, t)) \/ (\E room \in 1..8, t \in RoomTable : OfRoom(s, room, t))
  BY ZoneWords
<1>2. ZoneBase(z) \in Int
  BY DEF ZoneBase
<1>3. /\ \A t, u \in ZoneTable : t.address = u.address => t = u
      /\ \A t, u \in RoomTable : t.address = u.address => t = u
      /\ \A t, u \in RoomTable : ~ (t.size = 2 /\ u.address = t.address + 1)
  <2>1. \A t, u \in ZoneTable : t.address = u.address => t = u
    BY DEF ZoneTable, Table
  <2>2. \A t, u \in RoomTable : t.address = u.address => t = u
    BY DEF RoomTable, Table
  <2>3. \A t, u \in RoomTable : ~ (t.size = 2 /\ u.address = t.address + 1)
    BY DEF RoomTable, Table
  <2> QED
    BY <2>1, <2>2, <2>3
<1>4. ASSUME NEW t \in ZoneTable, NEW u \in ZoneTable, Own(r, t), Own(s, u) PROVE Apart(r, s)
  <2>1. r.size # 2
    BY <1>4
  <2>2. r.address = s.address => t = u
    BY <1>2, <1>3, <1>4
  <2> QED
    BY <1>4, <2>1, <2>2 DEF Apart
<1>5. ASSUME NEW t \in ZoneTable, NEW u \in RoomTable, NEW b \in 1..8, Own(r, t), OfRoom(s, b, u)
      PROVE  Apart(r, s)
  <2>1. r.size # 2
    BY <1>5
  <2>2. r.address # s.address
    BY <1>2, <1>5
  <2> QED
    BY <2>1, <2>2 DEF Apart
<1>6. ASSUME NEW t \in RoomTable, NEW a \in 1..8, NEW u \in ZoneTable, OfRoom(r, a, t), Own(s, u)
      PROVE  Apart(r, s)
  <2>1. s.address < r.address /\ r.address \in Int /\ s.address \in Int
    BY <1>2, <1>6
  <2> QED
    BY <2>1 DEF Apart
<1>7. ASSUME NEW t \in RoomTable, NEW a \in 1..8, NEW u \in RoomTable, NEW b \in 1..8,
             OfRoom(r, a, t), OfRoom(s, b, u)
      PROVE  Apart(r, s)
  <2>1. /\ r.address = s.address => a = b /\ t.address = u.address
        /\ r.size = 2 /\ s.address = r.address + 1 => a = b /\ u.address = t.address + 1 /\ t.size = 2
    BY <1>2, <1>7
  <2>2. r.address = s.address => a = b /\ t = u
    BY <1>3, <2>1
  <2>3. ~ (r.size = 2 /\ s.address = r.address + 1)
    BY <1>3, <2>1
  <2> QED
    BY <1>7, <2>2, <2>3 DEF Apart
<1> HIDE DEF Own, OfRoom
<1> QED
  BY <1>1, <1>4, <1>5, <1>6, <1>7

LEMMA CatalogApart ==
  ASSUME NEW r \in Catalog, NEW s \in Catalog PROVE Apart(r, s)
<1>1. CASE r \in PlainCatalog /\ s \in PlainCatalog
  BY <1>1, CommonApart, FeaturesApart, OthersApart, CommonFeaturesApart, CommonOthersApart,
    FeaturesOthersApart
  DEF PlainCatalog
<1>2. ASSUME NEW w \in CircuitCatalog
      PROVE  /\ w.address \in Nat /\ w.size \in {1, 2} /\ w.address \notin {1391, 1392}
             /\ \/ 1350 <= w.address /\ w.address + w.size <= 1512
                \/ 1650 <= w.address /\ w.address + w.size <= 1664
  <2>1. PICK c \in 1..7 : w \in HeatingCircuitRegisters(c)
    BY DEF CircuitCatalog
  <2> QED
    BY <2>1, CircuitExtent
<1>3. ASSUME NEW w \in ZoneCatalog
      PROVE  /\ w.address \in Int /\ w.size \in {1, 2}
             /\ 2000 <= w.address /\ w.address + w.size <= 3000
  <2>1. PICK z \in 1..10 : w \in ZoneModuleRegisters(z)
    BY DEF ZoneCatalog
  <2>2. z \in Nat \ {0} /\ 2000 <= ZoneBase(z) /\ ZoneBase(z) + 58 <= 3000 /\ ZoneBase(z) \in Int
    BY DEF ZoneBase
  <2>3. /\ w.address \in Int /\ w.size \in {1, 2}
        /\ ZoneBase(z) <= w.address /\ w.address + w.size <= ZoneBase(z) + 58
    BY <2>1, <2>2, ZoneExtent
  <2> QED
    BY <2>2, <2>3
<1>4. CASE r \in PlainCatalog /\ s \in CircuitCatalog
  <2>1. /\ s.address \in Nat /\ s.size \in {1, 2} /\ s.address \notin {1391, 1392}
        /\ \/ 1350 <= s.address /\ s.address + s.size <= 1512
           \/ 1650 <= s.address /\ s.address + s.size <= 1664
    BY <1>2, <1>4
  <2>2. /\ r.address \in Nat /\ r.size \in {1, 2}
        /\ \/ r.address + r.size <= 1350
           \/ r.address = 1392 /\ r.class = "forbidden"
           \/ 1512 <= r.address /\ r.address + r.size <= 1650
           \/ 1664 <= r.address /\ r.address + r.size <= 2000
           \/ 4000 <= r.address
    BY <1>4, PlainExtent
  <2> QED
    BY <2>1, <2>2 DEF Apart
<1>5. CASE r \in CircuitCatalog /\ s \in PlainCatalog
  <2>1. /\ r.address \in Nat /\ r.size \in {1, 2} /\ r.address \notin {1391, 1392}
        /\ \/ 1350 <= r.address /\ r.address + r.size <= 1512
           \/ 1650 <= r.address /\ r.address + r.size <= 1664
    BY <1>2, <1>5
  <2>2. /\ s.address \in Nat /\ s.size \in {1, 2}
        /\ \/ s.address + s.size <= 1350
           \/ s.address = 1392 /\ s.class = "forbidden"
           \/ 1512 <= s.address /\ s.address + s.size <= 1650
           \/ 1664 <= s.address /\ s.address + s.size <= 2000
           \/ 4000 <= s.address
    BY <1>5, PlainExtent
  <2> QED
    BY <2>1, <2>2 DEF Apart
<1>6. CASE r \in CircuitCatalog /\ s \in CircuitCatalog
  BY <1>6, CircuitsApart DEF CircuitCatalog
<1>7. CASE r \in ZoneCatalog /\ s \in PlainCatalog \cup CircuitCatalog
  BY <1>2, <1>3, <1>7, PlainExtent DEF Apart
<1>8. CASE r \in PlainCatalog \cup CircuitCatalog /\ s \in ZoneCatalog
  BY <1>2, <1>3, <1>8, PlainExtent DEF Apart
<1>9. CASE r \in ZoneCatalog /\ s \in ZoneCatalog
  <2>1. PICK y \in 1..10, z \in 1..10 : r \in ZoneModuleRegisters(y) /\ s \in ZoneModuleRegisters(z)
    BY <1>9 DEF ZoneCatalog
  <2>2. y \in Nat \ {0} /\ z \in Nat \ {0} /\ r.address \in Int /\ r.size \in {1, 2} /\ s.address \in Int /\ s.size \in {1, 2}
    BY <1>3, <1>9
  <2>3. CASE y = z
    BY <2>1, <2>2, <2>3, ZoneApart
  <2>4. CASE y < z
    <3>1. r.address + r.size <= s.address
      BY <2>1, <2>2, <2>4, ZonesDoNotOverlap
    <3> QED
      BY <2>2, <3>1 DEF Apart
  <2>5. CASE z < y
    <3>1. s.address + s.size <= r.address
      BY <2>1, <2>2, <2>5, ZonesDoNotOverlap
    <3> QED
      BY <2>2, <3>1 DEF Apart
  <2> QED
    BY <2>2, <2>3, <2>4, <2>5
<1> QED
  BY <1>1, <1>4, <1>5, <1>6, <1>7, <1>8, <1>9 DEF Catalog

\* As many words are begun at as there are registers.
LEMMA AsManyStarts ==
  ASSUME NEW map, map \subseteq Catalog
  PROVE  Cardinality({r.address : r \in map}) = Cardinality(map)
<1> DEFINE starts == {r.address : r \in map}
           f == [a \in starts |-> CHOOSE r \in map : r.address = a]
<1>1. \A r \in Catalog : 0 <= r.address /\ r.address <= 5000 /\ r.address \in Int
  <2>1. \A r \in PlainCatalog : 0 <= r.address /\ r.address <= 5000 /\ r.address \in Int
    <3>1. ASSUME NEW r \in CommonCatalog PROVE 0 <= r.address /\ r.address <= 5000 /\ r.address \in Int
      BY SMTT(60) DEF CommonCatalog, SystemRegisters, HpStatusRegisters, EnergyRegisters, Table
    <3>2. ASSUME NEW r \in FeatureCatalog PROVE 0 <= r.address /\ r.address <= 5000 /\ r.address \in Int
      BY SMTT(60)
        DEF FeatureCatalog, CascadeRegisters, SolarRegisters, IscRegisters, PvRegisters, Table
    <3>3. ASSUME NEW r \in OtherCatalog PROVE 0 <= r.address /\ r.address <= 5000 /\ r.address \in Int
      BY SMTT(60) DEF OtherCatalog, Navigator10Registers, GltRegisters, SpecialRegisters, Table
    <3> QED
      BY <3>1, <3>2, <3>3 DEF PlainCatalog
  <2>2. ASSUME NEW r \in CircuitCatalog PROVE 0 <= r.address /\ r.address <= 5000 /\ r.address \in Int
    <3>1. PICK c \in 1..7 : r \in HeatingCircuitRegisters(c)
      BY DEF CircuitCatalog
    <3> QED
      BY <3>1, CircuitExtent
  <2>3. ASSUME NEW r \in ZoneCatalog PROVE 0 <= r.address /\ r.address <= 5000 /\ r.address \in Int
    <3>1. PICK z \in 1..10 : r \in ZoneModuleRegisters(z)
      BY DEF ZoneCatalog
    <3>2. z \in Nat \ {0} /\ 2000 <= ZoneBase(z) /\ ZoneBase(z) <= 2585 /\ ZoneBase(z) \in Int
      BY DEF ZoneBase
    <3>3. /\ r.address \in Int /\ r.size \in {1, 2}
          /\ ZoneBase(z) <= r.address /\ r.address + r.size <= ZoneBase(z) + 58
      BY <3>1, <3>2, ZoneExtent
    <3> QED
      BY <3>2, <3>3
  <2> QED
    BY <2>1, <2>2, <2>3 DEF Catalog
<1>2. IsFiniteSet(starts)
  <2>1. PICK n \in Nat : n = 5000
    OBVIOUS
  <2>2. \A a \in starts : 0 <= a /\ a <= n /\ a \in Int
    BY <1>1, <2>1
  <2>3. IsFiniteSet(0..n)
    BY FS_Interval
  <2> HIDE DEF starts
  <2>4. starts \in SUBSET (0..n)
    BY <2>2
  <2> QED
    BY <2>3, <2>4, FS_Subset
<1>3. \A r, s \in map : r.address = s.address => r = s
  BY CatalogApart DEF Apart
<1>4. \A r \in map : r.address \in starts /\ f[r.address] = r
  BY <1>3
<1>5. \A a \in starts : f[a] \in map /\ f[a].address = a
  OBVIOUS
<1> HIDE DEF starts
<1>6. f \in Bijection(starts, map)
  <2>1. f \in [starts -> map]
    BY <1>5
  <2>2. \A a, b \in starts : f[a] = f[b] => a = b
    BY <1>5
  <2>3. \A r \in map : \E a \in starts : f[a] = r
    BY <1>4
  <2> HIDE DEF f
  <2> QED
    BY <2>1, <2>2, <2>3 DEF Bijection, Injection, Surjection, IsInjective
<1>7. Cardinality(map) = Cardinality(starts)
  <2> HIDE DEF f
  <2> QED
    BY <1>2, <1>6, FS_Bijection DEF ExistsBijection
<1> QED
  BY <1>7 DEF starts

\* Of the map of every model, with any circuits, zone modules and features, a registry
\* can be made: no two registers begin at one word.  The only overlaps are those the
\* tests document, and where both registers can be written both are of the EEPROM class.
THEOREM OverlapsAreTheDocumentedOnes == MapSpec => []OverlapsAreDocumentedAndSensitive
<1>1. Installed => OverlapsAreDocumentedAndSensitive
  <2> SUFFICES ASSUME Installed PROVE OverlapsAreDocumentedAndSensitive
    OBVIOUS
  <2> DEFINE map == InUse
             starts == {r.address : r \in map}
             overlapping == {r \in map : r.size = 2 /\ r.address + 1 \in starts}
  <2>1. map \subseteq Catalog
    BY DefaultIsOfCatalog, MapIsUnion DEF Installed, InUse
  <2> HIDE DEF map
  <2>2. Cardinality(starts) = Cardinality(map)
    BY <2>1, AsManyStarts
  <2>3. \A r, s \in map : Apart(r, s)
    BY <2>1, CatalogApart
  <2>4. {r.address : r \in overlapping} \subseteq {1392, 1441, 1483}
    BY <2>3 DEF Apart
  <2>5. \A r \in overlapping, s \in map :
          s.address = r.address + 1 /\ r.class # "forbidden" /\ s.class # "forbidden" =>
            r.class = "eeprom" /\ s.class = "eeprom"
    BY <2>3 DEF Apart
  <2> QED
    BY <2>2, <2>4, <2>5 DEF OverlapsAreDocumentedAndSensitive, map
<1> QED
  BY <1>1, AlwaysInstalled, PTL
=============================================================================
