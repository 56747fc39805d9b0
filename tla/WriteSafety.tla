---------------------------- MODULE WriteSafety ----------------------------
(***************************************************************************)
(* Write plans and the write safety state (client/write-safety.ts, with    *)
(* the definitions of registers/definitions.ts): which values a definition *)
(* lets through, which words they become and what an acknowledged write    *)
(* leaves behind.  ModbusClient models how a planned write travels, with   *)
(* its retries and reconnects; here it is acknowledged or it fails.        *)
(*                                                                         *)
(* Operations take turns (ExclusiveQueue), so one write is under way at a  *)
(* time; the resets do not wait for a turn.  Simulated and refused writes  *)
(* change nothing.                                                         *)
(***************************************************************************)
EXTENDS Codec

CONSTANTS
  Definitions,   \* register definitions in use, canonical and the caller's own
  RegisterMaps,  \* the register maps of the models that a detection may find
  Values,        \* requested values: [kind, n], n in thousandths if kind is "number"
  Interval,      \* EEPROM_WRITE_INTERVAL_SECONDS
  DefaultTtl,    \* DEFAULT_CYCLIC_WRITE_TTL_SECONDS
  MaxTime        \* bound of the clock

VARIABLES
  now,               \* the monotonic clock
  registerMap,       \* of the detected model, null before a detection
  lastEepromWrites,  \* by name
  cyclicDeadlines,   \* cyclicWriteDeadlines, by name
  plan,              \* of the write under way
  written            \* history: the last plan, once it is acknowledged

vars == <<now, registerMap, lastEepromWrites, cyclicDeadlines, plan, written>>

NoTime == -1
Names == {d.name : d \in Definitions}

-----------------------------------------------------------------------------
(* Definitions *)

\* Faulty variant: flags that exclude each other are let through.
ValidFlagsUnchecked(d) ==
  /\ d.min # None /\ d.max # None => d.min <= d.max
  /\ d.ttl # None => d.ttl > 0

\* What createRegisterDef does not refuse.
ValidDefinition(d) ==
  /\ d.min # None /\ d.max # None => d.min <= d.max
  /\ ~ d.writable => ~ d.eeprom /\ ~ d.cyclic /\ ~ d.writeOnly /\ d.exclude = {}
  /\ ~ (d.eeprom /\ d.cyclic)
  /\ d.ttl # None => d.cyclic /\ d.ttl > 0

WriteClass(d) ==
  CASE ~ d.writable -> "forbidden"
    [] d.writable /\ d.writeOnly -> "write_only"
    [] d.writable /\ ~ d.writeOnly /\ d.cyclic -> "cyclic"
    [] d.writable /\ ~ d.writeOnly /\ ~ d.cyclic /\ d.eeprom -> "eeprom"
    [] OTHER -> "volatile"

-----------------------------------------------------------------------------
(* createWritePlan: every check has to let the write through *)

ModelMember(d) ==
  registerMap # None =>
    \E r \in registerMap : r.name = d.name /\ r.address = d.address

\* The number that a value is compared and encoded as.
Comparable(v) ==
  CASE v.kind = "boolean" -> IF v.n # 0 THEN One ELSE 0
    [] OTHER -> v.n

WriteValue(d, v) ==
  IF d.datatype = "BOOL"
  THEN v.kind = "boolean" \/ (v.kind = "number" /\ v.n \in {0, One})
  ELSE v.kind = "number" /\ (d.datatype \in IntegerTypes => v.n % One = 0)

WriteMetadata(d, n) ==
  /\ Trunc(n) \notin d.exclude
  /\ d.min # None => n >= d.min
  /\ d.max # None => n <= d.max
  /\ d.enum # None => Trunc(n) \in d.enum

EepromWriteAllowed(d) ==
  WriteClass(d) = "eeprom" /\ lastEepromWrites[d.name] # NoTime =>
    now - lastEepromWrites[d.name] >= Interval

\* Faulty variant: custom registers are let through whatever they are given.
AcceptsAnyCustom(d, v, allowCustomRegister) ==
  /\ d.writable
  /\ allowCustomRegister \/ ModelMember(d)
  /\ WriteValue(d, v)
  /\ allowCustomRegister \/ WriteMetadata(d, Comparable(v))
  /\ EepromWriteAllowed(d)
  /\ Encodable(d, Comparable(v))

\* allowCustomRegister gets a write past the model's register map only.
Accepts(d, v, allowCustomRegister) ==
  /\ d.writable
  /\ allowCustomRegister \/ ModelMember(d)
  /\ WriteValue(d, v)
  /\ WriteMetadata(d, Comparable(v))
  /\ EepromWriteAllowed(d)
  /\ Encodable(d, Comparable(v))

-----------------------------------------------------------------------------
(* State *)

Init ==
  /\ now = 0
  /\ registerMap = None
  /\ lastEepromWrites = [name \in Names |-> NoTime]
  /\ cyclicDeadlines = [name \in Names |-> NoTime]
  /\ plan = None
  /\ written = None

\* writeRegister or setValue: the plan is made when the turn begins.
Write(d, v, allowCustomRegister) ==
  /\ plan = None
  /\ Accepts(d, v, allowCustomRegister)
  /\ plan' = [definition |-> d, value |-> v, custom |-> allowCustomRegister,
              words |-> EncodeValue(d, Comparable(v))]
  /\ written' = None
  /\ UNCHANGED <<now, registerMap, lastEepromWrites, cyclicDeadlines>>

\* Faulty variant: a definition without a time to live expires at once.
RecordSuccessfulWriteNoDefault(d) ==
  /\ lastEepromWrites' = IF WriteClass(d) = "eeprom"
                         THEN [lastEepromWrites EXCEPT ![d.name] = now] ELSE lastEepromWrites
  /\ cyclicDeadlines' = IF WriteClass(d) = "cyclic"
                        THEN [cyclicDeadlines EXCEPT ![d.name] = now + (IF d.ttl # None THEN d.ttl ELSE 0)]
                        ELSE cyclicDeadlines

RecordSuccessfulWrite(d) ==
  /\ lastEepromWrites' = IF WriteClass(d) = "eeprom"
                         THEN [lastEepromWrites EXCEPT ![d.name] = now] ELSE lastEepromWrites
  /\ cyclicDeadlines' = IF WriteClass(d) = "cyclic"
                        THEN [cyclicDeadlines EXCEPT
                                ![d.name] = now + (IF d.ttl # None THEN d.ttl ELSE DefaultTtl)]
                        ELSE cyclicDeadlines

Acknowledged ==
  /\ plan # None
  /\ RecordSuccessfulWrite(plan.definition)
  /\ written' = plan
  /\ plan' = None
  /\ UNCHANGED <<now, registerMap>>

WriteFails ==
  /\ plan # None
  /\ plan' = None
  /\ UNCHANGED <<now, registerMap, lastEepromWrites, cyclicDeadlines, written>>

\* Faulty variant: a detection does not wait for its turn.
DetectAtOnce ==
  /\ registerMap' \in RegisterMaps
  /\ UNCHANGED <<now, lastEepromWrites, cyclicDeadlines, plan, written>>

\* A detection installs the model and its register map.
Detect ==
  /\ plan = None
  /\ registerMap' \in RegisterMaps
  /\ UNCHANGED <<now, lastEepromWrites, cyclicDeadlines, plan, written>>

ResetWriteThrottle(names) ==
  /\ lastEepromWrites' = [name \in Names |-> IF name \in names THEN NoTime ELSE lastEepromWrites[name]]
  /\ UNCHANGED <<now, registerMap, cyclicDeadlines, plan, written>>

ResetCyclicWriteState(names) ==
  /\ cyclicDeadlines' = [name \in Names |-> IF name \in names THEN NoTime ELSE cyclicDeadlines[name]]
  /\ UNCHANGED <<now, registerMap, lastEepromWrites, plan, written>>

Tick ==
  /\ now < MaxTime
  /\ now' = now + 1
  /\ UNCHANGED <<registerMap, lastEepromWrites, cyclicDeadlines, plan, written>>

Next ==
  \/ \E d \in Definitions, v \in Values, custom \in BOOLEAN : Write(d, v, custom)
  \/ Acknowledged \/ WriteFails \/ Detect \/ Tick
  \/ \E names \in {{name} : name \in Names} \cup {Names} :
       ResetWriteThrottle(names) \/ ResetCyclicWriteState(names)

Spec == Init /\ [][Next]_vars

ASSUME TimeAssumption == Interval \in Nat /\ DefaultTtl \in Nat \ {0} /\ MaxTime \in Nat

\* Any definitions that createRegisterDef made, of any data type and limits.
ASSUME DefinitionsAssumption ==
  \A d \in Definitions :
    /\ ValidDefinition(d)
    /\ d.datatype \in DataTypes /\ d.multiplier \in Nat \ {0}
    /\ d.ttl \in Nat \cup {None} /\ d.min \in Int \cup {None} /\ d.max \in Int \cup {None}

ASSUME NoneAssumption == None \notin Int

ASSUME ValuesAssumption ==
  \A v \in Values : v.kind \in {"number", "boolean", "nonfinite", "text"} /\ v.n \in Int

-----------------------------------------------------------------------------
(* Properties *)

GetActiveCyclicWrites == {name \in Names : cyclicDeadlines[name] # NoTime /\ cyclicDeadlines[name] > now}
GetExpiredCyclicWrites == {name \in Names : cyclicDeadlines[name] # NoTime /\ cyclicDeadlines[name] <= now}

\* Definition, value and words of a write.
Plans == [definition : Definitions, value : Values, custom : BOOLEAN, words : Seq(WordValues)]

TypeOK ==
  /\ now \in 0..MaxTime
  /\ registerMap \in RegisterMaps \cup {None}
  /\ lastEepromWrites \in [Names -> 0..MaxTime \cup {NoTime}]
  /\ DOMAIN cyclicDeadlines = Names
  /\ \A name \in Names : cyclicDeadlines[name] \in Int
  /\ \A p \in {plan, written} \ {None} :
       p \in Plans /\ Len(p.words) = Size(p.definition)

\* The value that the words of an acknowledged write stand for.
Written == DecodeValue(written.definition, written.words)

\* The register can hold the value: no conversion changes it.
Exact(d, n) ==
  CASE d.datatype = "BITFLAG" -> n \in 0 .. 255 * One
    [] d.datatype = "BOOL" -> n \in {0, One}
    [] d.datatype = "FLOAT" ->
         /\ n % Cent = 0
         /\ \E i \in DOMAIN Gaps : /\ HasGap(Abs(n) * Unit, d.multiplier, i)
                                  /\ (Abs(n) * Unit) % (d.multiplier * Gaps[i]) = 0
    [] OTHER -> n % d.multiplier = 0 /\ n % Cent = 0

\* The checks are made on the requested value, but the device gets what it was
\* divided, rounded, narrowed and cut to afterwards (write-safety.ts:414-445,
\* 475, codec.ts:281-336).  A value that the register can hold arrives as it was
\* checked; rounding any other never takes it past a limit that the register can
\* hold.  What may slip through, then, is an excluded or unknown value reached by
\* rounding, a limit in between two values (35 with a multiplier of 10: 40 is
\* written), and flags above 255, which lose their upper bits after the check.
OnlyAllowedValuesWritten ==
  written # None =>
    LET d == written.definition
    IN /\ Exact(d, Comparable(written.value)) => WriteMetadata(d, Written)
       /\ d.datatype # "BITFLAG" =>
            /\ d.min # None /\ Exact(d, d.min) => Written >= d.min
            /\ d.max # None /\ Exact(d, d.max) => Written <= d.max

\* Twice the error that the conversions of a value may add up to, in quanta:
\* narrowing to a float of the value's gap, rounding to a multiple of the
\* multiplier, and rounding to two digits when it is read.
TwiceTolerance(d, n) ==
  CASE d.datatype = "FLOAT" -> Unit * Cent + d.multiplier * Gaps[GapIndex(Abs(n) * Unit, d.multiplier)]
    [] d.datatype = "BOOL" -> 0
    [] OTHER -> Unit * (d.multiplier + IF d.multiplier % Cent = 0 THEN 0 ELSE Cent)

\* Reading back gives what was asked for: flags lose what does not fit into eight
\* bits, everything else is off by no more than half a multiplier, half the gap
\* between two floats and half a hundredth (codec.ts:98-144, 191-206, 233-336).
ReadsBackAsRequested ==
  written # None =>
    LET d == written.definition
        asked == Comparable(written.value)
    IN IF d.datatype = "BITFLAG" THEN Written = One * (Trunc(asked) % 256)
       ELSE 2 * Unit * (Written - asked) \in -TwiceTolerance(d, asked) .. TwiceTolerance(d, asked)

\* A plan is made when its turn begins and used when the device answers: every
\* check that it passed would still let it through (453-477, client 637-667).
PlanStaysAcceptable ==
  plan # None => Accepts(plan.definition, plan.value, plan.custom)

\* A definition that is flagged as sensitive is throttled, whichever definitions
\* of the name were used before; only write-only ones are not (157-176, 283-309).
SensitiveWritesAreSpaced ==
  [][Acknowledged /\ plan.definition.eeprom /\ ~ plan.definition.writeOnly =>
       LET name == plan.definition.name IN
       /\ lastEepromWrites[name] # NoTime => now - lastEepromWrites[name] >= Interval
       /\ lastEepromWrites'[name] = now]_vars

\* A heartbeat counts as active from its acknowledgement until its deadline, and
\* as expired from then on until it is renewed or reset, never as both or neither
\* (298-333).
HeartbeatsExpire ==
  [][\A name \in Names :
       /\ Acknowledged /\ plan.definition.name = name /\ WriteClass(plan.definition) = "cyclic" =>
            name \in GetActiveCyclicWrites' \ GetExpiredCyclicWrites'
       /\ Tick /\ name \in GetActiveCyclicWrites \cup GetExpiredCyclicWrites =>
            (name \in GetExpiredCyclicWrites') # (name \in GetActiveCyclicWrites')
       /\ Tick /\ name \in GetExpiredCyclicWrites => name \in GetExpiredCyclicWrites']_vars
=============================================================================
