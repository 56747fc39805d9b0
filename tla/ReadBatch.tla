----------------------------- MODULE ReadBatch -----------------------------
(***************************************************************************)
(* Batch reading in IdmModbusClient (client/idm-modbus-client.ts:793-941)  *)
(* and the failure bookkeeping it keeps: registers are grouped, a group    *)
(* that the device refuses is read register by register, and registers     *)
(* that fail or answer nonsense are excluded from later batches.           *)
(*                                                                         *)
(* A batch has the turn of the client, so batches do not overlap, but      *)
(* resetFailedRegisters and markBatchUnsafe bypass the gate and run        *)
(* between any two of its awaits.  A request is taken together with its    *)
(* retries (ModbusClient) and ends in one of                               *)
(*   words    an answer of the right length                                *)
(*   illegal  IllegalAddressError (Modbus exception code 2)                *)
(*   device   another Modbus exception or a malformed answer               *)
(*   broken   a failure of the link or an error that is not normalized     *)
(* and the words of a register decode to a plausible value ("good"), to an *)
(* implausible one ("suspect") or not at all ("undecodable").              *)
(***************************************************************************)
EXTENDS ReadGroups, FiniteSets

CONSTANTS
  Registers,      \* definitions: records [name, type, address, size, writeOnly]
  MaxGroupSize,   \* option maxGroupSize
  Threshold,      \* PERMANENT_FAILURE_THRESHOLD
  MaxBatch        \* bound on the registers given to one readBatch

ASSUME ThresholdAssumption == Threshold \in Nat \ {0}
ASSUME RegistersAssumption ==
  \A r \in Registers : r.type \in {"holding", "input"} /\ r.address \in Nat /\ r.size \in Nat \ {0}

\* Write-only registers leave no trace in the books.
Names == {r.name : r \in {d \in Registers : ~ d.writeOnly}}

VARIABLES
  permanent,    \* #permanentlyFailedRegisters
  unsupported,  \* #unsupportedRegisters
  batchUnsafe,  \* #batchUnsafeRegisters
  failures,     \* #registerFailures; 0 where the map has no entry
  stage,        \* what the batch awaits
  valid,        \* registers of the batch that passed the filter
  groups,       \* groups still to be read, the one being read first
  individual,   \* quarantined registers to be read after the groups
  fallback,     \* registers of the present group to be read one by one
  results,      \* names in the result so far
  quarantine,   \* history: batchUnsafe when the batch was split
  omitted       \* history: names left out by an answer of their own

books == <<permanent, unsupported, batchUnsafe, failures>>
progress == <<stage, valid, groups, individual, fallback, results, quarantine, omitted>>
vars == <<books, progress>>

TypeOK ==
  /\ permanent \subseteq Names
  /\ unsupported \subseteq Names
  /\ batchUnsafe \subseteq Names
  /\ failures \in [Names -> 0 .. (Threshold - 1 + MaxBatch)]
  /\ stage \in {"idle", "connecting", "reading"}
  /\ valid \in Seq(Registers)
  /\ groups \in Seq(Seq(Registers))
  /\ individual \in Seq(Registers)
  /\ fallback \in Seq(Registers)
  /\ results \subseteq Names
  /\ quarantine \subseteq Names
  /\ omitted \subseteq Names

Init ==
  /\ permanent = {} /\ unsupported = {} /\ batchUnsafe = {}
  /\ failures = [n \in Names |-> 0]
  /\ stage = "idle"
  /\ valid = <<>> /\ groups = <<>> /\ individual = <<>> /\ fallback = <<>>
  /\ results = {} /\ quarantine = {} /\ omitted = {}

NamesIn(registers) == {registers[i].name : i \in DOMAIN registers}

\* registers.filter, of those in a set: SelectSeq as a function on prefixes.
Filter(registers, set) ==
  LET filtered[n \in 0..Len(registers)] ==
        IF n = 0 THEN <<>>
        ELSE IF registers[n] \in set THEN Append(filtered[n - 1], registers[n])
        ELSE filtered[n - 1]
  IN filtered[Len(registers)]

-----------------------------------------------------------------------------
(* The batch *)

EndBatch ==
  /\ stage' = "idle"
  /\ valid' = <<>> /\ groups' = <<>> /\ individual' = <<>> /\ fallback' = <<>>
  /\ results' = {} /\ quarantine' = {} /\ omitted' = {}

\* The registers that may be read are chosen before the connection is awaited.
Begin(registers) ==
  LET readable == Filter(registers, {r \in Registers : ~ r.writeOnly /\ r.name \notin permanent}) IN
  /\ stage = "idle"
  /\ readable # <<>>
  /\ valid' = readable
  /\ stage' = "connecting"
  /\ UNCHANGED <<books, groups, individual, fallback, results, quarantine, omitted>>

\* Faulty variant: every register is read in a group.
SplitIgnoringQuarantine ==
  /\ stage = "connecting"
  /\ groups' = GroupRegisters(valid, MaxGroupSize)
  /\ individual' = <<>>
  /\ quarantine' = batchUnsafe
  /\ stage' = "reading"
  /\ UNCHANGED <<books, valid, fallback, results, omitted>>

\* Connected: quarantined registers are kept out of the groups.
Split ==
  LET unsafe == {r \in Registers : r.name \in batchUnsafe} IN
  /\ stage = "connecting"
  /\ groups' = GroupRegisters(Filter(valid, Registers \ unsafe), MaxGroupSize)
  /\ individual' = Filter(valid, unsafe)
  /\ quarantine' = batchUnsafe
  /\ stage' = "reading"
  /\ UNCHANGED <<books, valid, fallback, results, omitted>>

\* A failure of the connection or the link throws: the batch has no result.
BatchThrows ==
  /\ stage # "idle"
  /\ EndBatch
  /\ UNCHANGED books

BatchReturns ==
  /\ stage = "reading" /\ groups = <<>> /\ individual = <<>> /\ fallback = <<>>
  /\ EndBatch
  /\ UNCHANGED books

ReadsGroup == stage = "reading" /\ fallback = <<>> /\ groups # <<>>

\* Faulty variant: a suspect register is quarantined but not read again.
GroupAnsweredOnce(quality) ==
  LET group == Head(groups)
      of(q) == {group[i].name : i \in {j \in DOMAIN group : quality[j] = q}}
  IN
  /\ ReadsGroup
  /\ results' = results \cup of("good")
  /\ batchUnsafe' = batchUnsafe \cup of("suspect")
  /\ omitted' = omitted \cup of("undecodable")
  /\ groups' = Tail(groups)
  /\ UNCHANGED <<permanent, unsupported, failures, stage, valid, individual, fallback, quarantine>>

\* Each value of an answered group is taken by itself: a suspect one puts its
\* register in quarantine and is read again, one that cannot be decoded is
\* left out.
GroupAnswered(quality) ==
  LET group == Head(groups)
      of(q) == {group[i].name : i \in {j \in DOMAIN group : quality[j] = q}}
  IN
  /\ ReadsGroup
  /\ results' = results \cup of("good")
  /\ batchUnsafe' = batchUnsafe \cup of("suspect")
  /\ omitted' = omitted \cup of("undecodable")
  /\ fallback' = Filter(group, {r \in Registers : r.name \in of("suspect")})
  /\ groups' = Tail(groups)
  /\ UNCHANGED <<permanent, unsupported, failures, stage, valid, individual, quarantine>>

\* Faulty variant: an illegal address anywhere in the group condemns all of it.
GroupRefusedForAll(answer) ==
  /\ ReadsGroup
  /\ permanent' = permanent \cup (IF answer = "illegal" THEN NamesIn(Head(groups)) ELSE {})
  /\ fallback' = Head(groups)
  /\ groups' = Tail(groups)
  /\ UNCHANGED <<unsupported, batchUnsafe, failures, stage, valid, individual, results, quarantine, omitted>>

\* A group that the device refuses is read one by one.
GroupRefused(answer) ==
  /\ ReadsGroup
  /\ answer \in {"illegal", "device"}
  /\ fallback' = Head(groups)
  /\ groups' = Tail(groups)
  /\ UNCHANGED <<books, stage, valid, individual, results, quarantine, omitted>>

\* The register that is read alone: of the present group, or of the quarantine
\* once there are no groups left.
ReadsAlone == stage = "reading" /\ (fallback # <<>> \/ (groups = <<>> /\ individual # <<>>))
Alone == IF fallback # <<>> THEN Head(fallback) ELSE Head(individual)
NextAlone ==
  IF fallback # <<>>
  THEN fallback' = Tail(fallback) /\ UNCHANGED individual
  ELSE individual' = Tail(individual) /\ UNCHANGED fallback

AloneGood ==
  /\ ReadsAlone /\ NextAlone
  /\ results' = results \cup {Alone.name}
  /\ failures' = [failures EXCEPT ![Alone.name] = 0]
  /\ UNCHANGED <<permanent, unsupported, batchUnsafe, stage, valid, groups, quarantine, omitted>>

\* Still suspect, or not decodable: left out, and not counted as a failure.
AloneUseless ==
  /\ ReadsAlone /\ NextAlone
  /\ omitted' = omitted \cup {Alone.name}
  /\ UNCHANGED <<books, stage, valid, groups, results, quarantine>>

AloneIllegal ==
  /\ ReadsAlone /\ NextAlone
  /\ permanent' = permanent \cup {Alone.name}
  /\ unsupported' = unsupported \cup {Alone.name}
  /\ omitted' = omitted \cup {Alone.name}
  /\ UNCHANGED <<batchUnsafe, failures, stage, valid, groups, results, quarantine>>

AloneFails ==
  LET n == Alone.name IN
  /\ ReadsAlone /\ NextAlone
  /\ failures' = [failures EXCEPT ![n] = failures[n] + 1]
  /\ permanent' = IF failures[n] + 1 >= Threshold THEN permanent \cup {n} ELSE permanent
  /\ omitted' = omitted \cup {n}
  /\ UNCHANGED <<unsupported, batchUnsafe, stage, valid, groups, results, quarantine>>

-----------------------------------------------------------------------------
(* Controls that bypass the gate *)

\* Faulty variant: the counters survive the reset.
ResetFailedRegistersKeepingCounts ==
  /\ permanent' = {} /\ unsupported' = {}
  /\ UNCHANGED <<batchUnsafe, failures, progress>>

ResetFailedRegisters ==
  /\ permanent' = {} /\ unsupported' = {}
  /\ failures' = [n \in Names |-> 0]
  /\ UNCHANGED <<batchUnsafe, progress>>

MarkBatchUnsafe(n) ==
  /\ batchUnsafe' = batchUnsafe \cup {n}
  /\ UNCHANGED <<permanent, unsupported, failures, progress>>

-----------------------------------------------------------------------------

Qualities == {"good", "suspect", "undecodable"}

Next ==
  \/ \E registers \in BoundedSeq(Registers, MaxBatch) : Begin(registers)
  \/ Split \/ BatchThrows \/ BatchReturns
  \/ ReadsGroup /\ \E quality \in [DOMAIN Head(groups) -> Qualities] : GroupAnswered(quality)
  \/ \E answer \in {"illegal", "device"} : GroupRefused(answer)
  \/ AloneGood \/ AloneUseless \/ AloneIllegal \/ AloneFails
  \/ ResetFailedRegisters
  \/ \E n \in Names : MarkBatchUnsafe(n)

Spec == Init /\ [][Next]_vars

-----------------------------------------------------------------------------
(* Properties *)

\* The three records of failure agree, whenever a reset falls between two reads
\* of a batch: an unsupported register and one that has failed Threshold times
\* are both excluded (idm-modbus-client.ts:619-623, 877-893).
FailuresAreExcluded ==
  /\ unsupported \subseteq permanent
  /\ \A n \in Names : failures[n] >= Threshold => n \in permanent

\* A register is excluded for an answer to a request for it alone, never for
\* what its neighbours in a group did (836-841, 868-894).
ExcludedOnOwnAnswer ==
  [][\A n \in permanent' \ permanent : ReadsAlone /\ n = Alone.name]_vars

\* A register that was in quarantine when the batch had connected is not read
\* together with others, even if it was marked while the batch connected
\* (807-809).
QuarantineIsKept == \A i \in DOMAIN groups : NamesIn(groups[i]) \cap quarantine = {}

\* A batch that returns accounts for every register it set out to read: it has
\* a value, or an answer of its own said that there is none (812-819, 845-864).
EveryRegisterAccountedFor ==
  [][BatchReturns => NamesIn(valid) \subseteq results \cup omitted]_vars
=============================================================================
