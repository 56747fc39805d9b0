------------------------ MODULE ParityToolingProofs ------------------------
(***************************************************************************)
(* What the two parity commands leave in the repository, for any number of *)
(* artifacts and commands, and for failing file operations and kills       *)
(* wherever they fall.                                                     *)
(***************************************************************************)
EXTENDS ParityTooling, FiniteSetTheorems, TLAPS

BeforeTransaction == {"checkout", "generator", "generate", "compare", "begin"}
InTransaction == {"staging", "backup", "install", "reinstate", "rollback", "put back"}
ParityLabels == BeforeTransaction \cup InTransaction \cup {"discard", "cleanup"}
ApiLabels == {"render", "temporary", "rename", "restore", "sweep"}

-----------------------------------------------------------------------------
(* Leftovers *)

\* What is there of the directories and files of a command in which nothing failed.
Tidy ==
  /\ faults \in Nat
  /\ pc \in ParityLabels \cup ApiLabels \cup {"idle"}
  /\ faults = 0 => ~ leaked
  /\ faults = 0 /\ pc \in BeforeTransaction \cup {"cleanup", "render"} => ~ transaction /\ written = {}
  /\ faults = 0 /\ pc \in ApiLabels => ~ owned /\ ~ transaction
  /\ NoLeftovers

LEMMA InitTidy == Init => Tidy
BY DEF Init, Tidy, NoLeftovers, ParityLabels, BeforeTransaction, InTransaction, ApiLabels

LEMMA StartTidy ==
  ASSUME Tidy, NEW c \in Commands, Start(c) PROVE Tidy'
BY DEF Start, Tidy, NoLeftovers, ParityLabels, BeforeTransaction, InTransaction, ApiLabels

Labels == ParityLabels \cup ApiLabels \cup {"idle"}

\* After a failure anything may be left behind.
LEMMA FaultTidy ==
  ASSUME Tidy, faults' = faults + 1, pc' \in Labels PROVE Tidy'
<1>1. faults' \in Nat /\ faults' # 0
  BY DEF Tidy
<1> QED
  BY <1>1 DEF Tidy, NoLeftovers, Labels

\* In the transaction and until it is discarded, what is there is removed later.
LEMMA InsideTidy ==
  ASSUME Tidy, pc' \in InTransaction \cup {"discard"}, UNCHANGED <<faults, leaked>>
  PROVE  Tidy'
BY DEF Tidy, NoLeftovers, ParityLabels, BeforeTransaction, InTransaction, ApiLabels

\* The same for the temporary files of the other command.
LEMMA ApiInsideTidy ==
  ASSUME Tidy, pc \in ApiLabels, pc' \in ApiLabels \ {"render"},
         UNCHANGED <<owned, transaction, faults, leaked>>
  PROVE  Tidy'
BY DEF Tidy, NoLeftovers, ParityLabels, BeforeTransaction, InTransaction, ApiLabels

LEMMA ParityTidy ==
  ASSUME Tidy, ParityStep PROVE Tidy'
<1> USE DEF Same, Goto, Leave, Succeed, Refuse, Fault, GiveUp
<1>1. CASE VerifyCheckout \/ ProvisionPython \/ GenerateArtifacts \/ CheckArtifacts
  <2>1. /\ pc \in BeforeTransaction /\ pc' \in BeforeTransaction \cup {"cleanup"}
        /\ UNCHANGED <<faults, transaction, written, leaked>>
    BY <1>1 DEF VerifyCheckout, ProvisionPython, GenerateArtifacts, CheckArtifacts, working,
      BeforeTransaction
  <2> QED
    BY <2>1 DEF Tidy, NoLeftovers, ParityLabels, BeforeTransaction, InTransaction, ApiLabels
<1>2. CASE BeginTransaction
  <2>1. pc = "begin" /\ pc' \in {"cleanup", "staging"} /\ UNCHANGED <<written, leaked>>
    BY <1>2 DEF BeginTransaction
  <2>2. faults' = faults + 1 \/ (faults' = faults /\ (pc' = "cleanup" => transaction' = transaction))
    BY <1>2 DEF BeginTransaction
  <2>3. CASE faults' = faults /\ pc' = "staging"
    BY <2>1, <2>3, InsideTidy DEF InTransaction
  <2>5. CASE faults' = faults /\ pc' = "cleanup"
    <3>1. pc = "begin" /\ UNCHANGED <<faults, transaction, written, leaked>>
      BY <2>1, <2>2, <2>5 DEF Tidy
    <3> QED
      BY <2>5, <3>1 DEF Tidy, NoLeftovers, ParityLabels, BeforeTransaction, InTransaction, ApiLabels
  <2>4. pc' \in Labels
    BY <2>1 DEF Labels, ParityLabels, InTransaction
  <2> QED
    BY <2>1, <2>2, <2>3, <2>4, <2>5, FaultTidy
<1>3. CASE StageArtifact \/ BackUp \/ Install \/ Reinstate \/ Rollback \/ PutBack
  <2>1. pc' \in InTransaction \cup {"discard"}
    BY <1>3 DEF StageArtifact, BackUp, Install, Reinstate, Rollback, PutBack, InTransaction
  <2>2. faults' \in {faults, faults + 1} /\ UNCHANGED leaked
    BY <1>3 DEF StageArtifact, BackUp, Install, Reinstate, Rollback, PutBack, working
  <2>3. pc' \in Labels
    BY <2>1 DEF Labels, ParityLabels
  <2> QED
    BY <2>1, <2>2, <2>3, InsideTidy, FaultTidy
<1>4. CASE Discard
  <2>1. /\ pc' = "cleanup" /\ UNCHANGED leaked
        /\ \/ ~ transaction' /\ written' = {} /\ faults' = faults
           \/ faults' = faults + 1
    BY <1>4 DEF Discard
  <2>2. CASE ~ transaction' /\ written' = {} /\ faults' = faults
    BY <2>1, <2>2 DEF Tidy, NoLeftovers, ParityLabels, BeforeTransaction, InTransaction, ApiLabels
  <2>3. pc' \in Labels
    BY <2>1 DEF Labels, ParityLabels
  <2> QED
    BY <2>1, <2>2, <2>3, FaultTidy
<1>5. CASE CleanupOwnedRoot
  <2>1. /\ pc = "cleanup" /\ pc' = "idle" /\ UNCHANGED <<transaction, written, leaked>>
        /\ \/ ~ owned' /\ faults' = faults
           \/ faults' = faults + 1
    BY <1>5 DEF CleanupOwnedRoot
  <2>2. CASE ~ owned' /\ faults' = faults
    BY <2>1, <2>2 DEF Tidy, NoLeftovers, ParityLabels, BeforeTransaction, InTransaction, ApiLabels
  <2>3. pc' \in Labels
    BY <2>1 DEF Labels
  <2> QED
    BY <2>1, <2>2, <2>3, FaultTidy
<1> QED
  BY <1>1, <1>2, <1>3, <1>4, <1>5 DEF ParityStep

LEMMA ApiTidy ==
  ASSUME Tidy, ApiStep PROVE Tidy'
<1> USE DEF Same, Goto, Leave, Succeed, Refuse, Fault, GiveUp
<1>1. CASE Render
  <2>1. /\ pc = "render" /\ pc' \in {"idle", "temporary"}
        /\ UNCHANGED <<faults, owned, transaction, written, leaked>>
    BY <1>1 DEF Render, working
  <2> QED
    BY <2>1 DEF Tidy, NoLeftovers, ParityLabels, BeforeTransaction, InTransaction, ApiLabels
<1>2. CASE WriteTemporary \/ RenameTemporary \/ RestoreSnapshot
  <2>1. /\ pc \in ApiLabels /\ pc' \in ApiLabels \ {"render"} /\ UNCHANGED <<owned, transaction>>
    BY <1>2 DEF WriteTemporary, RenameTemporary, RestoreSnapshot, ApiLabels
  <2>2. faults' = faults + 1 \/ (faults' = faults /\ leaked' = leaked)
    BY <1>2 DEF WriteTemporary, RenameTemporary, RestoreSnapshot
  <2>3. pc' \in Labels
    BY <2>1 DEF Labels
  <2> QED
    BY <2>1, <2>2, <2>3, ApiInsideTidy, FaultTidy
<1>3. CASE Sweep
  <2>1. /\ pc = "sweep" /\ pc' = "idle" /\ UNCHANGED <<owned, transaction, leaked>>
        /\ \/ written' = {} /\ faults' = faults
           \/ faults' = faults + 1
    BY <1>3 DEF Sweep
  <2>2. CASE written' = {} /\ faults' = faults
    BY <2>1, <2>2 DEF Tidy, NoLeftovers, ParityLabels, BeforeTransaction, InTransaction, ApiLabels
  <2>3. pc' \in Labels
    BY <2>1 DEF Labels
  <2> QED
    BY <2>1, <2>2, <2>3, FaultTidy
<1> QED
  BY <1>1, <1>2, <1>3 DEF ApiStep

LEMMA NextTidy == Tidy /\ [Next]_vars => Tidy'
<1> SUFFICES ASSUME Tidy, [Next]_vars PROVE Tidy'
  OBVIOUS
<1>1. CASE Kill
  BY <1>1
    DEF Kill, working, Tidy, NoLeftovers, ParityLabels, BeforeTransaction, InTransaction, ApiLabels
<1>2. CASE UNCHANGED vars
  BY <1>2 DEF vars, working, Tidy, NoLeftovers
<1> QED
  BY <1>1, <1>2, StartTidy, ParityTidy, ApiTidy DEF Next

\* Whatever a command refuses and wherever, it leaves no temporary directory or
\* file behind if no operation on files failed.
THEOREM CommandsLeaveNothing == Spec => []NoLeftovers
<1>1. Tidy => NoLeftovers
  BY DEF Tidy
<1> QED
  BY InitTidy, NextTidy, <1>1, PTL DEF Spec

-----------------------------------------------------------------------------
(* The artifacts in place *)

\* What the command replaces, in order.
List == IF IsParity THEN Artifacts ELSE Documents

LEMMA ListFacts ==
  /\ Artifacts \in Seq(Paths) /\ Documents \in Seq(Paths)
  /\ List \in Seq(Paths) /\ Len(List) > 0
  /\ \A i, j \in 1..Len(List) : List[i] = List[j] => i = j
  /\ IsParity => ToSet(List) = Paths
<1> DEFINE n == Len(Fixtures)
           m == Len(Documents)
<1>1. Fixtures \in Seq(ToSet(Fixtures)) /\ Documents \in Seq(ToSet(Documents))
  BY ToolingAssumption
<1>2. n \in Nat /\ m \in Nat /\ m > 0 /\ DOMAIN Fixtures = 1..n /\ DOMAIN Documents = 1..m
  BY <1>1, ToolingAssumption
<1>3. /\ Len(Artifacts) = n + m /\ DOMAIN Artifacts = 1..(n + m)
      /\ \A i \in 1..n : Artifacts[i] = Fixtures[i]
      /\ \A i \in 1..m : Artifacts[n + i] = Documents[i]
  BY <1>1, <1>2 DEF Artifacts
<1>4. \A i, j \in 1..(n + m) : Artifacts[i] = Artifacts[j] => i = j
  BY <1>3, ToolingAssumption DEF IsInjective
<1>5. Artifacts \in Seq(Paths)
  <2>1. Artifacts \in Seq(ToSet(Fixtures) \cup ToSet(Documents))
    BY <1>1 DEF Artifacts
  <2>2. \A i \in 1..Len(Artifacts) : Artifacts[i] \in Paths
    BY <1>3 DEF Paths, ToSet
  <2> QED
    BY <2>1, <2>2
<1>6. Documents \in Seq(Paths)
  <2>1. \A i \in 1..m : Documents[i] \in Paths
    <3> SUFFICES ASSUME NEW i \in 1..m PROVE Documents[i] \in Paths
      OBVIOUS
    <3>1. n + i \in 1..(n + m) /\ Documents[i] = Artifacts[n + i]
      BY <1>2, <1>3
    <3> QED
      BY <1>3, <3>1 DEF Paths, ToSet
  <2> QED
    BY <1>1, <2>1
<1>7. \A i, j \in 1..m : Documents[i] = Documents[j] => i = j
  <2> SUFFICES ASSUME NEW i \in 1..m, NEW j \in 1..m, Documents[i] = Documents[j] PROVE i = j
    OBVIOUS
  <2>1. n + i \in 1..(n + m) /\ n + j \in 1..(n + m)
    BY <1>2
  <2>2. Artifacts[n + i] = Artifacts[n + j]
    BY <1>3
  <2>3. n + i = n + j
    BY <1>4, <2>1, <2>2
  <2> QED
    BY <1>2, <2>3
<1> HIDE DEF n, m
<1>8. IsParity => ToSet(List) = Paths
  BY DEF List, Paths
<1> QED
  BY <1>2, <1>3, <1>4, <1>5, <1>6, <1>7, <1>8 DEF List, n, m

Prefix ==
  /\ replaced \in Seq(Paths) /\ Len(replaced) <= Len(List)
  /\ \A i \in 1..Len(replaced) : replaced[i] = List[i]

InPlace == ToSet(replaced)

NextInList == List[Len(replaced) + 1]

LEMMA NothingInPlace ==
  ASSUME replaced = <<>> PROVE Prefix /\ InPlace = {}
BY ListFacts DEF Prefix, InPlace, ToSet

LEMMA NextIsNotInPlace ==
  ASSUME Prefix, Len(replaced) < Len(List) PROVE NextInList \notin InPlace
<1>1. Len(replaced) \in Nat
  BY DEF Prefix
<1> SUFFICES ASSUME NEW i \in 1..Len(replaced), replaced[i] = NextInList PROVE FALSE
  BY DEF InPlace, ToSet, Prefix
<1>2. List[i] = List[Len(replaced) + 1]
  BY DEF Prefix, NextInList
<1>3. i \in 1..Len(List) /\ Len(replaced) + 1 \in 1..Len(List)
  BY <1>1, ListFacts
<1>4. i = Len(replaced) + 1
  BY <1>2, <1>3, ListFacts
<1> QED
  BY <1>1, <1>4

\* One more is in place.
LEMMA OneMore ==
  ASSUME Prefix, Len(replaced) < Len(List), replaced' = Append(replaced, NextInList), List' = List
  PROVE  /\ Prefix' /\ NextInList \in Paths \ InPlace
         /\ InPlace' = InPlace \cup {NextInList}
         /\ Len(replaced') = Len(replaced) + 1
<1>1. Len(replaced) \in Nat /\ NextInList \in Paths
  BY ListFacts DEF Prefix, NextInList
<1>2. /\ replaced' \in Seq(Paths) /\ Len(replaced') = Len(replaced) + 1
      /\ \A i \in 1..Len(replaced) : replaced'[i] = replaced[i]
      /\ replaced'[Len(replaced) + 1] = NextInList
  BY <1>1 DEF Prefix
<1>3. Prefix'
  BY <1>1, <1>2 DEF Prefix, NextInList
<1>4. NextInList \notin InPlace
  BY NextIsNotInPlace
<1>5. InPlace' = InPlace \cup {NextInList}
  <2>1. DOMAIN replaced = 1..Len(replaced) /\ DOMAIN replaced' = 1..(Len(replaced) + 1)
    BY <1>2 DEF Prefix
  <2> QED
    BY <1>1, <1>2, <2>1 DEF InPlace, ToSet
<1> QED
  BY <1>1, <1>2, <1>3, <1>4, <1>5

\* The last one is taken away.
LEMMA OneLess ==
  ASSUME Prefix, replaced # <<>>, replaced' = Front(replaced), List' = List
  PROVE  /\ Prefix' /\ Last(replaced) \in InPlace
         /\ InPlace' = InPlace \ {Last(replaced)}
<1>1. Len(replaced) \in Nat \ {0}
  BY DEF Prefix
<1>2. /\ replaced' \in Seq(Paths) /\ Len(replaced') = Len(replaced) - 1
      /\ \A i \in 1..(Len(replaced) - 1) : replaced'[i] = replaced[i]
      /\ Last(replaced) = replaced[Len(replaced)]
  <2>1. replaced \in Seq(Paths) /\ replaced' = SubSeq(replaced, 1, Len(replaced) - 1)
    BY DEF Prefix, Front
  <2>2. Len(replaced') = Len(replaced) - 1
    <3> DEFINE n == Len(replaced) - 1
    <3>1. n \in Nat /\ n <= Len(replaced) /\ replaced' = SubSeq(replaced, 1, n)
      BY <1>1, <2>1
    <3> HIDE DEF n
    <3>2. Len(replaced') = n
      BY <2>1, <3>1
    <3> QED
      BY <3>2 DEF n
  <2>3. \A i \in 1..(Len(replaced) - 1) : replaced'[i] = replaced[i]
    BY <1>1, <2>1
  <2>4. replaced' \in Seq(Paths)
    BY <1>1, <2>1
  <2> QED
    BY <2>2, <2>3, <2>4 DEF Last
<1>3. Prefix'
  BY <1>1, <1>2, ListFacts DEF Prefix
<1>4. DOMAIN replaced = 1..Len(replaced) /\ DOMAIN replaced' = 1..(Len(replaced) - 1)
  BY <1>2 DEF Prefix
<1>5. \A i \in 1..(Len(replaced) - 1) : replaced[i] # Last(replaced)
  <2> SUFFICES ASSUME NEW i \in 1..(Len(replaced) - 1), replaced[i] = Last(replaced) PROVE FALSE
    OBVIOUS
  <2>1. i \in 1..Len(List) /\ Len(replaced) \in 1..Len(List) /\ List[i] = List[Len(replaced)]
    BY <1>1, <1>2, ListFacts DEF Prefix
  <2>2. i = Len(replaced)
    BY <2>1, ListFacts
  <2> QED
    BY <1>1, <2>2
<1>6. Last(replaced) \in InPlace
  BY <1>1, <1>2, <1>4 DEF InPlace, ToSet
<1>7. InPlace' = InPlace \ {Last(replaced)}
  BY <1>1, <1>2, <1>4, <1>5 DEF InPlace, ToSet
<1> QED
  BY <1>3, <1>6, <1>7

LEMMA InPlaceIsPaths ==
  ASSUME Prefix PROVE InPlace \subseteq Paths /\ InPlace \subseteq ToSet(List)
<1>1. Len(replaced) \in Nat /\ DOMAIN replaced = 1..Len(replaced) /\ DOMAIN List = 1..Len(List)
  BY ListFacts DEF Prefix
<1>2. ASSUME NEW i \in 1..Len(replaced) PROVE replaced[i] \in Paths /\ replaced[i] \in ToSet(List)
  <2>1. i \in 1..Len(List) /\ replaced[i] = List[i]
    BY <1>1, ListFacts DEF Prefix
  <2> QED
    BY SMTT(60), <1>1, <2>1, ListFacts DEF Prefix, ToSet
<1> QED
  BY <1>1, <1>2 DEF InPlace, ToSet

LEMMA OneLessLast ==
  ASSUME Prefix, replaced # <<>> PROVE Last(replaced) \in InPlace
<1>1. Len(replaced) \in DOMAIN replaced
  BY DEF Prefix
<1> QED
  BY <1>1 DEF InPlace, ToSet, Last

\* Everything is in place once the last of the list is.
LEMMA AllInPlace ==
  ASSUME Prefix, Len(replaced) = Len(List) PROVE InPlace = ToSet(List)
<1>1. DOMAIN replaced = 1..Len(replaced) /\ DOMAIN List = 1..Len(replaced)
  BY ListFacts DEF Prefix
<1> QED
  BY <1>1 DEF Prefix, InPlace, ToSet

\* The next one is the last exactly if none is left after it.
LEMMA LastOfList ==
  ASSUME Prefix, Len(replaced) < Len(List)
  PROVE  NextInList = Last(List) <=> Len(replaced) + 1 = Len(List)
<1>1. Len(replaced) + 1 \in 1..Len(List) /\ Len(List) \in 1..Len(List)
  BY ListFacts DEF Prefix
<1> QED
  BY <1>1, ListFacts DEF NextInList, Last

-----------------------------------------------------------------------------
(* The bytes of the artifacts, step by step *)

\* Artifacts that are in place have their new bytes, the others their previous ones.
MidWay(rest) ==
  \A p \in Paths \ rest : files[p] = IF p \in InPlace THEN AllReplaced[p] ELSE before[p]

SavedInPlace == \A p \in InPlace : saved[p] = before[p]

Generates == command.mode = "generate"

\* Nothing has been touched yet.
Early ==
  /\ exit = "none" /\ unrestored = {} /\ files = before /\ replaced = <<>>
  /\ pc \in {"begin", "staging", "temporary"} => Generates
  /\ pc = "staging" => transaction
  /\ pc = "render" => written = {}
  /\ pc = "temporary" => \A p \in written : saved[p] = before[p]

\* Between two artifacts.
Mid ==
  /\ exit = "none" /\ unrestored = {} /\ Generates
  /\ Len(replaced) < Len(List) /\ MidWay({}) /\ SavedInPlace
  /\ pc = "backup" => transaction
  /\ pc = "rename" => \A p \in ToSet(Documents) : saved[p] = before[p]

\* An artifact is backed up, and the new one is not in its place.
Hole ==
  /\ exit \in {"none", "failed"} /\ unrestored = {} /\ Generates /\ transaction
  /\ Len(replaced) < Len(List) /\ MidWay({NextInList}) /\ SavedInPlace
  /\ files[NextInList] = "absent" /\ saved[NextInList] = before[NextInList]

\* Artifacts are put back, the last one first.
Back ==
  /\ exit = "failed" /\ Generates
  /\ pc = "rollback" => transaction
  /\ MidWay(unrestored) /\ SavedInPlace /\ unrestored \cap InPlace = {}

\* The last of them is removed and its backup not yet in its place.
Lifted ==
  /\ exit = "failed" /\ Generates /\ transaction /\ replaced # <<>>
  /\ MidWay(unrestored \cup {Last(replaced)}) /\ SavedInPlace /\ unrestored \cap InPlace = {}

\* What is not given up is as it was.
Untouched == \A p \in Paths \ unrestored : files[p] = before[p]

\* The finally clauses.
Ended ==
  /\ exit \in {"none", "failed"}
  /\ exit = "none" => files = AllReplaced /\ (files = before \/ Generates)
  /\ exit = "failed" => Untouched \/ (Generates /\ files = AllReplaced)

\* The artifacts that are given up: their backups are still there, until the transaction
\* directory is removed; a document has the bytes that were to replace it.
GivenUp ==
  /\ unrestored \subseteq Paths
  /\ IsParity /\ transaction => \A p \in unrestored : saved[p] = before[p]
  /\ ~ IsParity => \A p \in unrestored : files[p] = Rendered

EarlyLabels == BeforeTransaction \cup {"staging", "render", "temporary"}

Common ==
  /\ files \in [Paths -> Contents \cup {"nothing"}]
  /\ before \in [Paths -> Contents \cup {"nothing"}]
  /\ saved \in [Paths -> Contents \cup {"nothing"}]
  /\ command \in Commands /\ pc \in Labels
  /\ pc \in ParityLabels => IsParity
  /\ pc \in ApiLabels => ~ IsParity
  /\ Prefix

Shape ==
  /\ Common /\ GivenUp
  /\ pc \in EarlyLabels => Early
  /\ pc \in {"backup", "rename"} => Mid
  /\ pc \in {"install", "reinstate"} => Hole
  /\ pc = "install" => exit = "none"
  /\ pc = "reinstate" => exit = "failed"
  /\ pc \in {"rollback", "restore"} => Back
  /\ pc = "put back" => Lifted
  /\ pc \in {"discard", "cleanup", "sweep"} => Ended
  /\ pc = "idle" => AllOrNothing /\ KeptUntilReplaced

\* What the new bytes of an artifact are.
LEMMA Targets ==
  /\ DOMAIN AllReplaced = Paths /\ AllReplaced = [p \in Paths |-> AllReplaced[p]]
  /\ \A p \in Paths : AllReplaced[p] =
       IF IsParity THEN "new" ELSE IF p \in ToSet(Documents) THEN Rendered ELSE before[p]
BY DEF AllReplaced

\* A step of a command replaces what it always would.
LEMMA Frame ==
  ASSUME UNCHANGED <<command, before>>
  PROVE  /\ List' = List /\ (IsParity' <=> IsParity) /\ AllReplaced' = AllReplaced
         /\ (Generates' <=> Generates) /\ Rendered' = Rendered
BY DEF List, IsParity, AllReplaced, Generates, Rendered

\* With the whole list in place, all artifacts are replaced.
LEMMA WholeList ==
  ASSUME Common, MidWay({}), InPlace = ToSet(List) PROVE files = AllReplaced
<1>1. \A p \in Paths : files[p] = AllReplaced[p]
  BY Targets, ListFacts DEF MidWay, List
<1> QED
  BY <1>1, Targets DEF Common

\* Nothing is lost of what is all replaced, or as it was.
LEMMA SettledKeeps ==
  ASSUME GivenUp', Untouched' \/ files' = AllReplaced' PROVE KeptUntilReplaced'
BY DEF KeptUntilReplaced, AllReplaced, GivenUp, Untouched

LEMMA NothingGivenUp ==
  ASSUME unrestored' = {} PROVE GivenUp'
BY DEF GivenUp

\* What is in the repository and in the transaction together has everything.
LEMMA ShapeKeeps ==
  ASSUME Shape PROVE KeptUntilReplaced
<1> SUFFICES ASSUME NEW p \in Paths
             PROVE  \/ files[p] = before[p]
                    \/ before[p] = "absent"
                    \/ IsParity /\ transaction /\ saved[p] = before[p]
                    \/ IsParity /\ files = AllReplaced
                    \/ IsParity /\ ~transaction /\ p \in unrestored
                    \/ ~IsParity /\ files[p] = Rendered
  BY DEF KeptUntilReplaced
<1> USE Targets DEF Shape
<1>1. CASE pc \in EarlyLabels
  BY <1>1 DEF Early
<1>2. CASE pc \in {"backup", "rename"}
  BY <1>2 DEF Mid, MidWay, SavedInPlace, Common, ParityLabels, InTransaction, ApiLabels
<1>3. CASE pc \in {"install", "reinstate"}
  BY <1>3 DEF Hole, MidWay, SavedInPlace, Common, ParityLabels, InTransaction
<1>4. CASE pc \in {"rollback", "restore"}
  BY <1>4 DEF Back, MidWay, SavedInPlace, GivenUp, Common, ParityLabels, InTransaction, ApiLabels
<1>5. CASE pc = "put back"
  <2>1. Last(replaced) \in InPlace
    BY <1>5, OneLessLast DEF Lifted, Common
  <2> QED
    BY <1>5, <2>1 DEF Lifted, MidWay, SavedInPlace, GivenUp, Common, ParityLabels, InTransaction
<1>6. CASE pc \in {"discard", "cleanup", "sweep"}
  BY <1>6 DEF Ended, Untouched, GivenUp
<1>7. CASE pc = "idle"
  BY <1>7 DEF KeptUntilReplaced
<1> QED
  BY <1>1, <1>2, <1>3, <1>4, <1>5, <1>6, <1>7
  DEF Common, Labels, ParityLabels, ApiLabels, BeforeTransaction, InTransaction, EarlyLabels

LEMMA InitShape == Init => Shape
<1> SUFFICES ASSUME Init PROVE Shape
  OBVIOUS
<1>1. files \in [Paths -> Contents] /\ before = files /\ saved = Nothing /\ replaced = <<>>
  BY WorkTreesAssumption DEF Init
<1>2. pc = "idle" /\ exit = "none" /\ unrestored = {} /\ command \in Commands
  BY DEF Init, Commands
<1>3. Common
  BY <1>1, <1>2, NothingInPlace
    DEF Common, Labels, ParityLabels, ApiLabels, BeforeTransaction, InTransaction, Nothing, Contents
<1>20. GivenUp
  BY <1>2 DEF GivenUp
<1>4. AllOrNothing /\ KeptUntilReplaced
  BY <1>1, <1>2 DEF AllOrNothing, KeptUntilReplaced
<1> QED
  BY <1>2, <1>3, <1>4, <1>20 DEF Shape, EarlyLabels, BeforeTransaction

LEMMA StartShape ==
  ASSUME Shape, NEW c \in Commands, Start(c) PROVE Shape'
<1>1. /\ files' = files /\ before' = files /\ replaced' = <<>> /\ saved' = Nothing
      /\ command' = c /\ unrestored' = {}
  BY DEF Start
<1>2. \/ pc' = "checkout" /\ IsParity' /\ exit' = "none"
      \/ pc' = "render" /\ ~ IsParity' /\ exit' = "none"
      \/ pc' = "idle" /\ exit' = "failed"
  BY <1>1 DEF Start, IsParity
<1>3. Prefix'
  BY <1>1, ListFacts DEF Prefix, List, IsParity
<1>4. Common'
  BY <1>1, <1>2, <1>3
  DEF Shape, Common, Labels, ParityLabels, ApiLabels, BeforeTransaction, InTransaction,
    Nothing, Contents
<1>20. GivenUp'
  BY <1>1, NothingGivenUp
<1>5. Early' \/ pc' = "idle"
  BY <1>1, <1>2 DEF Early, Start
<1>6. pc' = "idle" => AllOrNothing' /\ KeptUntilReplaced'
  BY <1>1, <1>2, <1>20, SettledKeeps DEF AllOrNothing, Untouched
<1> QED
  BY <1>2, <1>4, <1>5, <1>6, <1>20 DEF Shape, EarlyLabels, BeforeTransaction

\* A step that changes neither bytes nor the artifacts in place.
LEMMA CommonKept ==
  ASSUME Common, UNCHANGED <<files, before, saved, command, replaced>>,
         pc' \in Labels, pc' \in ParityLabels => IsParity, pc' \in ApiLabels => ~ IsParity
  PROVE  Common'
BY Frame DEF Common, Prefix

\* A command that ends early leaves everything as it was.
LEMMA EarlyEnds ==
  ASSUME Early, UNCHANGED <<files, before>>, exit' = "failed"
  PROVE  Ended'
BY DEF Early, Ended, Untouched

LEMMA EarlySteps ==
  ASSUME Shape, VerifyCheckout \/ ProvisionPython \/ GenerateArtifacts \/ CheckArtifacts \/ BeginTransaction
  PROVE  Shape'
<1> USE DEF Same, Goto, Leave, Succeed, Refuse, Fault, GiveUp
<1>1. /\ UNCHANGED <<files, before, saved, command, replaced, unrestored>>
      /\ pc \in BeforeTransaction /\ pc' \in BeforeTransaction \cup {"staging", "cleanup"}
  BY DEF VerifyCheckout, ProvisionPython, GenerateArtifacts, CheckArtifacts, BeginTransaction,
    working, BeforeTransaction
<1>2. Early /\ Common /\ IsParity
  BY <1>1 DEF Shape, EarlyLabels, Common, ParityLabels
<1>20. GivenUp'
  BY <1>1, <1>2, NothingGivenUp DEF Early
<1>3. Common'
  BY <1>1, <1>2, CommonKept DEF Labels, ParityLabels, ApiLabels, BeforeTransaction, InTransaction
<1>4. CASE pc' # "cleanup"
  <2>1. exit' = "none"
    BY <1>2, <1>4
      DEF Early, VerifyCheckout, ProvisionPython, GenerateArtifacts, CheckArtifacts,
      BeginTransaction
  <2>2. pc' = "begin" => Generates
    <3> SUFFICES ASSUME pc' = "begin" PROVE Generates
      OBVIOUS
    <3>1. GenerateArtifacts /\ command.mode # "check"
      BY DEF VerifyCheckout, ProvisionPython, GenerateArtifacts, CheckArtifacts, BeginTransaction
    <3> QED
      BY <1>2, <3>1 DEF Common, Commands, Generates
  <2>3. pc' = "staging" => Generates /\ transaction'
    <3> SUFFICES ASSUME pc' = "staging" PROVE Generates /\ transaction'
      OBVIOUS
    <3>1. pc = "begin" /\ transaction' = TRUE
      BY DEF VerifyCheckout, ProvisionPython, GenerateArtifacts, CheckArtifacts, BeginTransaction
    <3> QED
      BY <1>2, <3>1 DEF Early
  <2>4. pc' \notin {"temporary", "render"}
    BY <1>1 DEF BeforeTransaction
  <2>5. Early'
    BY <1>1, <1>2, <2>1, <2>2, <2>3, <2>4 DEF Early, Generates
  <2> QED
    BY <1>1, <1>3, <1>4, <2>5, <1>20 DEF Shape, BeforeTransaction
<1>5. CASE pc' = "cleanup"
  <2>1. exit' = "failed" \/ (exit' = "none" /\ CheckArtifacts /\ \A p \in Paths : files[p] = "new")
    BY <1>2, <1>5
      DEF Early, VerifyCheckout, ProvisionPython, GenerateArtifacts, CheckArtifacts,
      BeginTransaction
  <2>2. CASE exit' = "failed"
    BY <1>1, <1>2, <1>3, <1>5, <2>2, EarlyEnds, <1>20 DEF Shape, EarlyLabels, BeforeTransaction
  <2>3. CASE exit' = "none" /\ \A p \in Paths : files[p] = "new"
    <3>1. files = AllReplaced
      BY <1>2, <2>3, Targets DEF Common
    <3>2. Ended'
      BY <1>1, <1>2, <2>3, <3>1, Frame DEF Ended, Early
    <3> QED
      BY <1>3, <1>5, <3>2, <1>20 DEF Shape, EarlyLabels, BeforeTransaction
  <2> QED
    BY <2>1, <2>2, <2>3
<1> QED
  BY <1>4, <1>5

LEMMA StageArtifactShape ==
  ASSUME Shape, StageArtifact PROVE Shape'
<1> USE DEF Same, Goto, Leave, Succeed, Refuse, Fault, GiveUp
<1>1. /\ UNCHANGED <<files, before, saved, command, replaced, unrestored, transaction>> /\ pc = "staging"
      /\ \/ pc' \in {"staging", "backup"} /\ exit' = exit
         \/ pc' = "rollback" /\ exit' = "failed"
  BY DEF StageArtifact
<1>2. Early /\ Common /\ IsParity
  BY <1>1 DEF Shape, EarlyLabels, Common, ParityLabels, InTransaction
<1>20. GivenUp'
  BY <1>1, <1>2, NothingGivenUp DEF Early
<1>3. Common'
  BY <1>1, <1>2, CommonKept DEF Labels, ParityLabels, ApiLabels, BeforeTransaction, InTransaction
<1>4. MidWay({})' /\ SavedInPlace' /\ Len(replaced') < Len(List')
  BY <1>1, <1>2, NothingInPlace, ListFacts, Frame DEF Early, MidWay, SavedInPlace, InPlace, ToSet
<1>5. CASE pc' = "staging"
  BY <1>1, <1>2, <1>3, <1>5, <1>20 DEF Shape, Early, Generates
<1>6. CASE pc' = "backup"
  <2>1. Mid'
    BY <1>1, <1>2, <1>4, <1>6 DEF Early, Mid, Generates
  <2> QED
    BY <1>3, <1>6, <2>1, <1>20 DEF Shape, EarlyLabels, BeforeTransaction
<1>7. CASE pc' = "rollback"
  <2>1. Back'
    BY <1>1, <1>2, <1>4, <1>7 DEF Early, Back, Generates
  <2> QED
    BY <1>3, <1>7, <2>1, <1>20 DEF Shape, EarlyLabels, BeforeTransaction
<1> QED
  BY <1>1, <1>5, <1>6, <1>7

LEMMA BackUpShape ==
  ASSUME Shape, BackUp PROVE Shape'
<1> USE DEF Same, Goto, Leave, Succeed, Refuse, Fault, GiveUp
<1>1. pc = "backup" /\ UNCHANGED <<before, command, replaced, unrestored, transaction>>
  BY DEF BackUp
<1>2. Mid /\ Common /\ IsParity /\ transaction
  BY <1>1 DEF Shape, Mid, Common, ParityLabels, InTransaction
<1>20. GivenUp'
  BY <1>1, <1>2, NothingGivenUp DEF Mid
<1>3. NextInList = NextArtifact /\ NextInList \in Paths \ InPlace
  <2>1. Len(replaced) + 1 \in 1..Len(List)
    BY <1>2 DEF Mid, Common, Prefix
  <2>2. NextInList = NextArtifact /\ NextInList \in Paths
    BY <1>2, <2>1, ListFacts DEF NextInList, NextArtifact, List
  <2> QED
    BY <1>2, <2>2, NextIsNotInPlace DEF Mid, Common
<1>4. /\ Prefix' /\ InPlace' = InPlace /\ NextInList' = NextInList /\ (Generates' <=> Generates)
      /\ Len(replaced') < Len(List') /\ IsParity' /\ AllReplaced' = AllReplaced
  BY <1>1, <1>2, Frame DEF Mid, Common, Prefix, InPlace, NextInList
<1>5. \/ /\ files' = [files EXCEPT ![NextInList] = "absent"] /\ pc' = "install"
         /\ saved' = [saved EXCEPT ![NextInList] = files[NextInList]] /\ exit' = exit
      \/ UNCHANGED <<files, saved>> /\ pc' = "rollback" /\ exit' = "failed"
  BY <1>3 DEF BackUp
<1>6. CASE pc' = "install"
  <2>1. files[NextInList] = before[NextInList]
    BY <1>2, <1>3 DEF Mid, MidWay
  <2>2. files' \in [Paths -> Contents \cup {"nothing"}] /\ saved' \in [Paths -> Contents \cup {"nothing"}]
    BY <1>2, <1>3, <1>5, <1>6 DEF Common, Contents
  <2>3. Common'
    BY <1>1, <1>2, <1>4, <1>6, <2>2
      DEF Common, Labels, ParityLabels, ApiLabels, BeforeTransaction, InTransaction
  <2>4. SavedInPlace' /\ MidWay({NextInList})' /\ files'[NextInList] = "absent" /\ saved'[NextInList] = before[NextInList]
    <3>1. /\ files' = [files EXCEPT ![NextInList] = "absent"]
          /\ saved' = [saved EXCEPT ![NextInList] = before[NextInList]]
      BY <1>5, <1>6, <2>1
    <3>2. SavedInPlace'
      BY <1>1, <1>2, <1>3, <1>4, <3>1 DEF Common, Mid, SavedInPlace
    <3>3. MidWay({NextInList})'
      BY <1>1, <1>2, <1>4, <3>1 DEF Common, Mid, MidWay
    <3>4. files'[NextInList] = "absent" /\ saved'[NextInList] = before[NextInList]
      BY <1>2, <1>3, <3>1 DEF Common
    <3> QED
      BY <3>2, <3>3, <3>4
  <2>5. Hole' /\ exit' = "none"
    BY <1>1, <1>2, <1>4, <1>5, <1>6, <2>4 DEF Hole, Mid
  <2> QED
    BY <1>6, <2>3, <2>5, <1>20 DEF Shape, EarlyLabels, BeforeTransaction
<1>7. CASE pc' = "rollback" /\ UNCHANGED <<files, saved>> /\ exit' = "failed"
  <2>1. Common'
    BY <1>1, <1>2, <1>7, CommonKept
      DEF Labels, ParityLabels, ApiLabels, BeforeTransaction, InTransaction
  <2>2. SavedInPlace' /\ MidWay({})'
    BY <1>1, <1>2, <1>4, <1>7 DEF Mid, SavedInPlace, MidWay
  <2>3. Back'
    BY <1>1, <1>2, <1>4, <1>7, <2>2 DEF Mid, Back
  <2> QED
    BY <1>7, <2>1, <2>3, <1>20 DEF Shape, EarlyLabels, BeforeTransaction
<1> QED
  BY <1>5, <1>6, <1>7

\* A new file gets into its place.
LEMMA Installed ==
  ASSUME Common, NEW rest, MidWay(rest), rest \subseteq {NextInList}, Len(replaced) < Len(List), SavedInPlace,
         saved[NextInList] = before[NextInList],
         UNCHANGED <<before, saved, command>>,
         files' = [files EXCEPT ![NextInList] = AllReplaced[NextInList]],
         replaced' = Append(replaced, NextInList)
  PROVE  /\ Prefix' /\ MidWay({})' /\ SavedInPlace'
         /\ files' \in [Paths -> Contents \cup {AllReplaced[NextInList], "nothing"}]
         /\ IF NextInList = Last(List) THEN files' = AllReplaced' ELSE Len(replaced') < Len(List')
<1>1. List' = List /\ AllReplaced' = AllReplaced
  BY Frame
<1>2. /\ Prefix' /\ NextInList \in Paths \ InPlace
      /\ InPlace' = InPlace \cup {NextInList}
      /\ Len(replaced') = Len(replaced) + 1
  BY <1>1, OneMore DEF Common
<1>3. files' \in [Paths -> Contents \cup {AllReplaced[NextInList], "nothing"}]
  BY <1>2 DEF Common
<1>4. MidWay({})' /\ SavedInPlace'
  BY <1>1, <1>2 DEF Common, MidWay, SavedInPlace
<1>5. NextInList = Last(List) <=> Len(replaced') = Len(List')
  BY <1>1, <1>2, LastOfList DEF Common
<1>6. Len(replaced') <= Len(List') /\ Len(List') \in Nat /\ Len(replaced') \in Nat
  BY <1>1, <1>2, ListFacts DEF Prefix, Common
<1>7. ASSUME Len(replaced') = Len(List') PROVE files' = AllReplaced'
  <2>1. InPlace' = ToSet(List)
    <3>1. DOMAIN replaced' = 1..Len(replaced') /\ DOMAIN List = 1..Len(replaced')
      BY <1>1, <1>2, <1>7, ListFacts DEF Prefix
    <3> QED
      BY <1>1, <1>2, <3>1 DEF Prefix, InPlace, ToSet
  <2>2. \A p \in Paths : files'[p] = AllReplaced[p]
    BY <1>1, <1>4, <2>1, Targets, ListFacts DEF MidWay, List
  <2> QED
    BY <1>1, <1>3, <2>2, Targets
<1> QED
  BY <1>2, <1>3, <1>4, <1>5, <1>6, <1>7

LEMMA InstallShape ==
  ASSUME Shape, Install PROVE Shape'
<1> USE DEF Same, Goto, Leave, Succeed, Refuse, Fault, GiveUp
<1>1. pc = "install" /\ UNCHANGED <<before, saved, command, unrestored, transaction>>
  BY DEF Install
<1>2. Hole /\ Common /\ IsParity /\ exit = "none"
  BY <1>1 DEF Shape, Common, ParityLabels, InTransaction
<1>20. GivenUp'
  BY <1>1, <1>2, NothingGivenUp DEF Hole
<1>3. NextInList = NextArtifact /\ NextInList \in Paths
  <2>1. Len(replaced) + 1 \in 1..Len(List)
    BY <1>2 DEF Hole, Common, Prefix
  <2> QED
    BY <1>2, <2>1, ListFacts DEF NextInList, NextArtifact, List
<1>4. /\ List' = List /\ IsParity' /\ AllReplaced' = AllReplaced /\ (Generates' <=> Generates)
  BY <1>1, <1>2, Frame
<1>5. AllReplaced[NextInList] = "new" /\ (NextArtifact = Last(Artifacts) <=> NextInList = Last(List))
  BY <1>2, <1>3, Targets DEF List
<1>6. \/ /\ files' = [files EXCEPT ![NextInList] = AllReplaced[NextInList]]
         /\ replaced' = Append(replaced, NextInList)
         /\ pc' = (IF NextInList = Last(List) THEN "discard" ELSE "backup") /\ exit' = exit
      \/ /\ pc' = (IF saved[NextInList] = "absent" THEN "rollback" ELSE "reinstate")
         /\ UNCHANGED <<files, replaced>> /\ exit' = "failed"
  <2>1. NextArtifact = NextInList
    BY <1>3
  <2> QED
    BY <1>5, <2>1 DEF Install
<1>7. CASE /\ files' = [files EXCEPT ![NextInList] = AllReplaced[NextInList]]
           /\ replaced' = Append(replaced, NextInList)
           /\ pc' = (IF NextInList = Last(List) THEN "discard" ELSE "backup") /\ exit' = exit
  <2>1. /\ Prefix' /\ MidWay({})' /\ SavedInPlace'
        /\ files' \in [Paths -> Contents \cup {AllReplaced[NextInList], "nothing"}]
        /\ IF NextInList = Last(List) THEN files' = AllReplaced' ELSE Len(replaced') < Len(List')
    BY <1>1, <1>2, <1>7, Installed DEF Hole
  <2>2. files' \in [Paths -> Contents \cup {"nothing"}]
    BY <1>5, <2>1 DEF Contents
  <2>3. Common'
    BY <1>1, <1>2, <1>4, <1>7, <2>1, <2>2
      DEF Common, Labels, ParityLabels, ApiLabels, BeforeTransaction, InTransaction
  <2>4. CASE NextInList = Last(List)
    <3>1. Ended'
      BY <1>1, <1>2, <1>4, <1>7, <2>1, <2>4 DEF Hole, Ended
    <3> QED
      BY <1>7, <2>3, <2>4, <3>1, <1>20 DEF Shape, EarlyLabels, BeforeTransaction
  <2>5. CASE NextInList # Last(List)
    <3>1. Mid'
      BY <1>1, <1>2, <1>4, <1>7, <2>1, <2>5 DEF Hole, Mid
    <3> QED
      BY <1>7, <2>3, <2>5, <3>1, <1>20 DEF Shape, EarlyLabels, BeforeTransaction
  <2> QED
    BY <2>4, <2>5
<1>8. CASE /\ pc' = (IF saved[NextInList] = "absent" THEN "rollback" ELSE "reinstate")
           /\ UNCHANGED <<files, replaced>> /\ exit' = "failed"
  <2>1. Common'
    BY <1>1, <1>2, <1>8, CommonKept
      DEF Labels, ParityLabels, ApiLabels, BeforeTransaction, InTransaction
  <2>2. InPlace' = InPlace /\ NextInList' = NextInList
    BY <1>4, <1>8 DEF InPlace, NextInList
  <2>3. CASE saved[NextInList] = "absent"
    <3>1. NextInList \notin InPlace
      BY <1>2, NextIsNotInPlace DEF Hole, Common
    <3>2. SavedInPlace' /\ MidWay({})'
      BY <1>1, <1>2, <1>4, <1>8, <2>2, <2>3, <3>1 DEF Hole, SavedInPlace, MidWay
    <3>3. Back'
      BY <1>1, <1>2, <1>4, <1>8, <3>2 DEF Hole, Back
    <3> QED
      BY <1>8, <2>1, <2>3, <3>3, <1>20 DEF Shape, EarlyLabels, BeforeTransaction
  <2>4. CASE saved[NextInList] # "absent"
    <3>1. SavedInPlace' /\ MidWay({NextInList})'
      BY <1>1, <1>2, <1>4, <1>8, <2>2 DEF Hole, SavedInPlace, MidWay
    <3>2. Hole'
      BY <1>1, <1>2, <1>4, <1>8, <2>2, <3>1 DEF Hole
    <3> QED
      BY <1>8, <2>1, <2>4, <3>2, <1>20 DEF Shape, EarlyLabels, BeforeTransaction
  <2> QED
    BY <2>3, <2>4
<1> QED
  BY <1>6, <1>7, <1>8

LEMMA ReinstateShape ==
  ASSUME Shape, Reinstate PROVE Shape'
<1> USE DEF Same, Goto, Leave, Succeed, Refuse, Fault, GiveUp
<1>1. /\ pc = "reinstate" /\ pc' = "rollback" /\ exit' \in {exit, "failed"}
      /\ UNCHANGED <<before, command, replaced, transaction>>
  BY DEF Reinstate
<1>2. Hole /\ Common /\ IsParity /\ exit = "failed"
  BY <1>1 DEF Shape, Common, ParityLabels, InTransaction
<1>3. NextInList = NextArtifact /\ NextInList \in Paths \ InPlace
  <2>1. Len(replaced) + 1 \in 1..Len(List)
    BY <1>2 DEF Hole, Common, Prefix
  <2>2. NextInList = NextArtifact /\ NextInList \in Paths
    BY <1>2, <2>1, ListFacts DEF NextInList, NextArtifact, List
  <2> QED
    BY <1>2, <2>2, NextIsNotInPlace DEF Hole, Common
<1>4. /\ Prefix' /\ InPlace' = InPlace /\ (Generates' <=> Generates) /\ IsParity'
      /\ AllReplaced' = AllReplaced
  BY <1>1, <1>2, Frame DEF Common, Prefix, InPlace
<1>5. \/ /\ files' = [files EXCEPT ![NextInList] = before[NextInList]]
         /\ saved' = [saved EXCEPT ![NextInList] = "absent"] /\ unrestored' = unrestored
      \/ UNCHANGED <<files, saved>> /\ unrestored' = unrestored \cup {NextInList}
  <2>1. NextArtifact = NextInList /\ saved[NextInList] = before[NextInList]
    BY <1>2, <1>3 DEF Hole
  <2> QED
    BY <2>1 DEF Reinstate
<1>6. files' \in [Paths -> Contents \cup {"nothing"}] /\ saved' \in [Paths -> Contents \cup {"nothing"}]
  BY <1>2, <1>3, <1>5 DEF Common, Contents
<1>7. Common'
  BY <1>1, <1>2, <1>4, <1>6
    DEF Common, Labels, ParityLabels, ApiLabels, BeforeTransaction, InTransaction
<1>8. /\ MidWay(unrestored)' /\ SavedInPlace' /\ (unrestored \cap InPlace = {})'
      /\ GivenUp'
  <2>1. CASE /\ files' = [files EXCEPT ![NextInList] = before[NextInList]]
             /\ saved' = [saved EXCEPT ![NextInList] = "absent"] /\ unrestored' = unrestored
    <3>1. SavedInPlace'
      BY <1>1, <1>2, <1>3, <1>4, <2>1 DEF Common, Hole, SavedInPlace
    <3>2. MidWay(unrestored)'
      BY <1>1, <1>2, <1>3, <1>4, <2>1 DEF Common, Hole, MidWay
    <3> QED
      BY <1>2, <2>1, <3>1, <3>2, NothingGivenUp DEF Hole
  <2>2. CASE UNCHANGED <<files, saved>> /\ unrestored' = unrestored \cup {NextInList}
    <3>1. unrestored' = {NextInList}
      BY <1>2, <2>2 DEF Hole
    <3>2. SavedInPlace' /\ MidWay(unrestored)'
      BY <1>1, <1>2, <1>4, <2>2, <3>1 DEF Hole, SavedInPlace, MidWay
    <3>3. GivenUp'
      BY <1>1, <1>2, <1>3, <1>4, <2>2, <3>1 DEF Hole, GivenUp
    <3> QED
      BY <1>3, <1>4, <3>1, <3>2, <3>3
  <2> QED
    BY <1>5, <2>1, <2>2
<1>9. Back'
  BY <1>1, <1>2, <1>4, <1>8 DEF Hole, Back
<1> QED
  BY <1>1, <1>7, <1>8, <1>9 DEF Shape, EarlyLabels, BeforeTransaction

LEMMA RollbackShape ==
  ASSUME Shape, Rollback PROVE Shape'
<1> USE DEF Same, Goto, Leave, Succeed, Refuse, Fault, GiveUp
<1>1. /\ pc = "rollback" /\ pc' \in {"discard", "put back"} /\ exit' \in {exit, "failed"}
      /\ UNCHANGED <<before, command, replaced, transaction, saved>>
  BY DEF Rollback, working
<1>2. Back /\ Common /\ GivenUp /\ IsParity /\ exit = "failed" /\ transaction
  BY <1>1 DEF Shape, Back, Common, ParityLabels, InTransaction
<1>3. /\ Prefix' /\ InPlace' = InPlace /\ (Generates' <=> Generates) /\ IsParity'
      /\ AllReplaced' = AllReplaced
  BY <1>1, <1>2, Frame DEF Common, Prefix, InPlace
<1>4. CASE replaced = <<>> /\ pc' = "discard" /\ UNCHANGED <<files, unrestored>>
  <2>1. Common'
    BY <1>1, <1>2, <1>4, CommonKept
      DEF Labels, ParityLabels, ApiLabels, BeforeTransaction, InTransaction
  <2>2. Untouched
    BY <1>2, <1>4, NothingInPlace DEF Back, MidWay, Untouched
  <2>3. Ended' /\ GivenUp'
    BY <1>1, <1>2, <1>3, <1>4, <2>2 DEF Ended, Untouched, GivenUp
  <2> QED
    BY <1>4, <2>1, <2>3 DEF Shape, EarlyLabels, BeforeTransaction
<1>5. CASE /\ replaced # <<>> /\ pc' = "put back" /\ UNCHANGED unrestored
           /\ files' = [files EXCEPT ![Last(replaced)] = "absent"]
  <2>1. files' \in [Paths -> Contents \cup {"nothing"}]
    BY <1>2, <1>5 DEF Common, Contents
  <2>2. Common'
    BY <1>1, <1>2, <1>3, <1>5, <2>1
      DEF Common, Labels, ParityLabels, ApiLabels, BeforeTransaction, InTransaction
  <2>3. MidWay(unrestored \cup {Last(replaced)})' /\ SavedInPlace'
    BY <1>1, <1>2, <1>3, <1>5 DEF Common, Back, MidWay, SavedInPlace
  <2>4. Lifted' /\ GivenUp'
    BY <1>1, <1>2, <1>3, <1>5, <2>3 DEF Back, Lifted, GivenUp
  <2> QED
    BY <1>5, <2>2, <2>4 DEF Shape, EarlyLabels, BeforeTransaction
<1>6. CASE pc' = "discard" /\ unrestored' = unrestored \cup InPlace /\ UNCHANGED files
  <2>1. Common'
    BY <1>1, <1>2, <1>6, CommonKept
      DEF Labels, ParityLabels, ApiLabels, BeforeTransaction, InTransaction
  <2>2. Ended'
    BY <1>1, <1>2, <1>6 DEF Back, MidWay, Ended, Untouched
  <2>3. GivenUp'
    BY <1>1, <1>2, <1>3, <1>6, InPlaceIsPaths DEF Back, SavedInPlace, GivenUp, Common
  <2> QED
    BY <1>6, <2>1, <2>2, <2>3 DEF Shape, EarlyLabels, BeforeTransaction
<1> QED
  BY <1>4, <1>5, <1>6 DEF Rollback, GiveUp, InPlace

\* The last artifact in place gets its previous bytes back.
LEMMA Restored ==
  ASSUME Common, NEW lost, lost \cap InPlace = {}, SavedInPlace, replaced # <<>>,
         MidWay(lost) \/ MidWay(lost \cup {Last(replaced)}),
         UNCHANGED <<before, command>>, replaced' = Front(replaced),
         files' = [files EXCEPT ![Last(replaced)] = saved[Last(replaced)]],
         \A p \in Paths \ {Last(replaced)} : saved'[p] = saved[p]
  PROVE  /\ MidWay(lost)' /\ SavedInPlace' /\ lost \cap InPlace' = {}
<1>1. List' = List /\ AllReplaced' = AllReplaced
  BY Frame
<1>2. Last(replaced) \in InPlace /\ InPlace' = InPlace \ {Last(replaced)}
  BY <1>1, OneLess DEF Common
<1>3. InPlace \subseteq Paths
  BY DEF Common, Prefix, InPlace, ToSet
<1>4. files' = [files EXCEPT ![Last(replaced)] = before[Last(replaced)]]
  BY <1>2 DEF SavedInPlace
<1>5. MidWay(lost)'
  BY <1>1, <1>2, <1>3, <1>4 DEF Common, MidWay
<1>6. SavedInPlace'
  BY <1>2, <1>3 DEF SavedInPlace
<1> QED
  BY <1>2, <1>5, <1>6

LEMMA PutBackShape ==
  ASSUME Shape, PutBack PROVE Shape'
<1> USE DEF Same, Goto, Leave, Succeed, Refuse, Fault, GiveUp
<1>1. /\ pc = "put back" /\ exit' \in {exit, "failed"}
      /\ UNCHANGED <<before, command, transaction>>
  BY DEF PutBack
<1>2. Lifted /\ Common /\ GivenUp /\ IsParity /\ exit = "failed"
  BY <1>1 DEF Shape, Lifted, Common, ParityLabels, InTransaction
<1>3. /\ List' = List /\ (Generates' <=> Generates) /\ IsParity'
      /\ AllReplaced' = AllReplaced
  BY <1>1, <1>2, Frame
<1>4. CASE /\ files' = [files EXCEPT ![Last(replaced)] = saved[Last(replaced)]]
           /\ saved' = [saved EXCEPT ![Last(replaced)] = "absent"]
           /\ replaced' = Front(replaced) /\ pc' = "rollback" /\ UNCHANGED unrestored
  <2>1. Last(replaced) \in Paths
    BY <1>2, OneLessLast DEF Common, Lifted, InPlace, ToSet, Prefix
  <2>2. files' \in [Paths -> Contents \cup {"nothing"}] /\ saved' \in [Paths -> Contents \cup {"nothing"}]
    BY <1>2, <1>4, <2>1 DEF Common, Contents
  <2>3. Prefix'
    BY <1>2, <1>3, <1>4, OneLess DEF Common, Lifted
  <2>4. Common'
    BY <1>1, <1>2, <1>3, <1>4, <2>2, <2>3
    DEF Common, Labels, ParityLabels, ApiLabels, BeforeTransaction, InTransaction
  <2>5. \A p \in Paths \ {Last(replaced)} : saved'[p] = saved[p]
    BY <1>2, <1>4 DEF Common
  <2>6. MidWay(unrestored)' /\ SavedInPlace' /\ (unrestored \cap InPlace = {})'
    <3>1. MidWay(unrestored)' /\ SavedInPlace' /\ unrestored \cap InPlace' = {}
      <4> DEFINE lost == unrestored
      <4>1. MidWay(lost \cup {Last(replaced)}) /\ SavedInPlace /\ lost \cap InPlace = {} /\ replaced # <<>>
        BY <1>2 DEF Lifted
      <4>2. lost' = lost
        BY <1>4
      <4> HIDE DEF lost
      <4>3. (\A p \in Paths \ lost : files'[p] = IF p \in InPlace' THEN AllReplaced'[p] ELSE before'[p]) /\ SavedInPlace' /\ lost \cap InPlace' = {}
        BY <1>1, <1>2, <1>4, <2>5, <4>1, Restored DEF MidWay
      <4> QED
        BY <4>2, <4>3 DEF MidWay, lost
    <3> QED
      BY <1>4, <3>1
  <2>8. GivenUp'
    <3>1. Last(replaced) \notin unrestored
      BY <1>2, OneLessLast DEF Lifted, Common
    <3>2. \A p \in unrestored : saved'[p] = saved[p]
      BY <1>2, <2>5, <3>1 DEF GivenUp
    <3> QED
      BY <1>1, <1>2, <1>3, <1>4, <3>2 DEF GivenUp
  <2>7. Back'
    BY <1>1, <1>2, <1>3, <1>4, <2>6 DEF Lifted, Back
  <2> QED
    BY <1>4, <2>4, <2>7, <2>8 DEF Shape, EarlyLabels, BeforeTransaction
<1>5. CASE pc' = "discard" /\ unrestored' = unrestored \cup InPlace /\ UNCHANGED <<files, saved, replaced>>
  <2>1. Common'
    BY <1>1, <1>2, <1>5, CommonKept
      DEF Labels, ParityLabels, ApiLabels, BeforeTransaction, InTransaction
  <2>2. Last(replaced) \in InPlace
    BY <1>2, OneLessLast DEF Lifted, Common
  <2>3. Ended'
    BY <1>1, <1>2, <1>5, <2>2 DEF Lifted, MidWay, Ended, Untouched
  <2>4. GivenUp'
    BY <1>1, <1>2, <1>3, <1>5, InPlaceIsPaths DEF Lifted, SavedInPlace, GivenUp, Common
  <2> QED
    BY <1>5, <2>1, <2>3, <2>4 DEF Shape, EarlyLabels, BeforeTransaction
<1> QED
  BY <1>4, <1>5 DEF PutBack, GiveUp, InPlace

LEMMA DiscardShape ==
  ASSUME Shape, Discard PROVE Shape'
<1> USE DEF Same, Goto, Leave, Succeed, Refuse, Fault, GiveUp
<1>1. /\ pc = "discard" /\ pc' = "cleanup" /\ exit' \in {exit, "failed"}
      /\ UNCHANGED <<files, before, command, replaced, unrestored>>
      /\ saved' \in {saved, Nothing}
  BY DEF Discard
<1>2. Ended /\ Common /\ GivenUp /\ IsParity
  BY <1>1 DEF Shape, Common, ParityLabels
<1>3. Nothing \in [Paths -> Contents \cup {"nothing"}]
  BY DEF Nothing, Contents
<1>4. Common'
  BY <1>1, <1>2, <1>3, Frame
  DEF Common, Prefix, Labels, ParityLabels, ApiLabels, BeforeTransaction, InTransaction
<1>5. Ended'
  BY <1>1, <1>2, Frame DEF Ended, Untouched
<1>20. GivenUp'
  BY <1>1, <1>2, Frame DEF Discard, GivenUp
<1> QED
  BY <1>1, <1>4, <1>5, <1>20 DEF Shape, EarlyLabels, BeforeTransaction

\* What the finally clauses leave is what the command promises when it ends.
LEMMA EndsSettled ==
  ASSUME Ended, GivenUp', UNCHANGED <<files, before, command, unrestored>>,
         exit' \in {IF exit = "none" THEN "ok" ELSE exit, "failed"}
  PROVE  AllOrNothing' /\ KeptUntilReplaced'
<1>1. AllReplaced' = AllReplaced /\ (Generates' <=> Generates)
  BY Frame
<1>2. Untouched' \/ files' = AllReplaced'
  BY <1>1 DEF Ended, Untouched
<1>3. AllOrNothing'
  BY <1>1 DEF Ended, AllOrNothing, Generates, Untouched
<1> QED
  BY <1>2, <1>3, SettledKeeps

LEMMA CleanupShape ==
  ASSUME Shape, CleanupOwnedRoot \/ Sweep PROVE Shape'
<1> USE DEF Same, Goto, Leave, Succeed, Refuse, Fault, GiveUp
<1>1. /\ pc \in {"cleanup", "sweep"} /\ pc' = "idle"
      /\ exit' \in {IF exit = "none" THEN "ok" ELSE exit, "failed"}
      /\ UNCHANGED <<files, before, saved, command, replaced, unrestored, transaction>>
  BY DEF CleanupOwnedRoot, Sweep
<1>2. Ended /\ Common /\ GivenUp
  BY <1>1 DEF Shape
<1>3. Common'
  BY <1>1, <1>2, CommonKept DEF Labels, ParityLabels, ApiLabels, BeforeTransaction, InTransaction
<1>20. GivenUp'
  BY <1>1, <1>2, Frame DEF GivenUp
<1>4. AllOrNothing' /\ KeptUntilReplaced'
  BY <1>1, <1>2, <1>20, EndsSettled
<1> QED
  BY <1>1, <1>3, <1>4, <1>20 DEF Shape, EarlyLabels, BeforeTransaction

LEMMA RenderShape ==
  ASSUME Shape, Render PROVE Shape'
<1> USE DEF Same, Goto, Leave, Succeed, Refuse, Fault, GiveUp
<1>1. /\ pc = "render" /\ pc' \in {"idle", "temporary"}
      /\ UNCHANGED <<files, before, saved, command, replaced, unrestored, written>>
  BY DEF Render, working
<1>2. Early /\ Common /\ ~ IsParity
  BY <1>1 DEF Shape, EarlyLabels, Common, ApiLabels
<1>20. GivenUp'
  BY <1>1, <1>2, NothingGivenUp DEF Early
<1>3. Common'
  BY <1>1, <1>2, CommonKept DEF Labels, ParityLabels, ApiLabels, BeforeTransaction, InTransaction
<1>4. CASE pc' = "temporary"
  <2>1. Generates /\ exit' = exit
    BY <1>4 DEF Render, Generates
  <2>2. Early'
    BY <1>1, <1>2, <1>4, <2>1, Frame DEF Early
  <2> QED
    BY <1>3, <1>4, <2>2, <1>20 DEF Shape, EarlyLabels, BeforeTransaction
<1>5. CASE pc' = "idle"
  <2>1. exit' = "failed" \/ (exit' = "ok" /\ \A d \in ToSet(Documents) : files[d] = Rendered)
    BY <1>5 DEF Render
  <2>2. ASSUME exit' = "ok" PROVE files' = AllReplaced'
    <3>1. \A d \in ToSet(Documents) : files[d] = Rendered
      BY <2>1, <2>2
    <3>2. files = AllReplaced
      BY <1>2, <3>1, Targets DEF Early, Common
    <3> QED
      BY <1>1, <3>2, Frame
  <2>3. AllOrNothing'
    BY <1>1, <1>2, <2>1, <2>2 DEF AllOrNothing, Early
  <2>4. KeptUntilReplaced'
    BY <1>1, <1>2, <1>20, SettledKeeps DEF Early, Untouched
  <2> QED
    BY <1>3, <1>5, <2>3, <2>4, <1>20 DEF Shape, EarlyLabels, BeforeTransaction
<1> QED
  BY <1>1, <1>4, <1>5

\* The documents up to one of them.
LEMMA DocumentsUpTo ==
  ASSUME NEW i \in DOMAIN Documents
  PROVE  /\ Documents[i] \in Paths
         /\ i = Len(Documents) =>
              ToSet(SubSeq(Documents, 1, i - 1)) \cup {Documents[i]} = ToSet(Documents)
<1>1. Documents \in Seq(Paths) /\ DOMAIN Documents = 1..Len(Documents) /\ i \in Nat \ {0}
  BY ListFacts
<1>2. DEFINE k == i - 1
<1>3. k \in Nat /\ k <= Len(Documents) /\ i = k + 1
  BY <1>1
<1> HIDE DEF k
<1>4. Len(SubSeq(Documents, 1, k)) = k /\ \A j \in 1..k : SubSeq(Documents, 1, k)[j] = Documents[j]
  BY <1>1, <1>3
<1>5. DOMAIN SubSeq(Documents, 1, k) = 1..k
  BY <1>1, <1>3, <1>4
<1>6. ASSUME i = Len(Documents)
      PROVE  ToSet(SubSeq(Documents, 1, k)) \cup {Documents[i]} = ToSet(Documents)
  <2>1. ToSet(SubSeq(Documents, 1, k)) = {Documents[j] : j \in 1..k}
    BY <1>4, <1>5 DEF ToSet
  <2>2. ToSet(Documents) = {Documents[j] : j \in 1..(k + 1)}
    BY <1>1, <1>3, <1>6 DEF ToSet
  <2>3. 1..(k + 1) = (1..k) \cup {k + 1}
    BY <1>3
  <2> QED
    BY <1>3, <2>1, <2>2, <2>3
<1> QED
  BY <1>1, <1>6 DEF k

LEMMA WriteTemporaryShape ==
  ASSUME Shape, WriteTemporary PROVE Shape'
<1> USE DEF Same, Goto, Leave, Succeed, Refuse, Fault, GiveUp
<1>1. pc = "temporary" /\ UNCHANGED <<files, before, command, replaced, unrestored>>
  BY DEF WriteTemporary
<1>2. Early /\ Common /\ ~ IsParity /\ Generates
  BY <1>1 DEF Shape, Early, EarlyLabels, Common, ApiLabels
<1>20. GivenUp'
  BY <1>1, <1>2, NothingGivenUp DEF Early
<1>3. /\ Prefix' /\ List' = List /\ ~ IsParity' /\ AllReplaced' = AllReplaced /\ Generates'
      /\ InPlace = {} /\ InPlace' = {} /\ Len(replaced') < Len(List')
  BY <1>1, <1>2, Frame, NothingInPlace, ListFacts DEF Early, Prefix, InPlace
<1>4. MidWay({})' /\ SavedInPlace'
  BY <1>1, <1>2, <1>3 DEF Early, MidWay, SavedInPlace
<1>5. CASE pc' = "restore" /\ UNCHANGED saved /\ exit' = "failed"
  <2>1. Common'
    BY <1>1, <1>2, <1>5, CommonKept
      DEF Labels, ParityLabels, ApiLabels, BeforeTransaction, InTransaction
  <2>2. Back'
    BY <1>1, <1>2, <1>3, <1>4, <1>5 DEF Early, Back
  <2> QED
    BY <1>5, <2>1, <2>2, <1>20 DEF Shape, EarlyLabels, BeforeTransaction
<1>6. ASSUME NEW i \in DOMAIN Documents,
             written = ToSet(SubSeq(Documents, 1, i - 1)),
             written' = written \cup {Documents[i]},
             saved' = [saved EXCEPT ![Documents[i]] = files[Documents[i]]],
             pc' = (IF i = Len(Documents) THEN "rename" ELSE "temporary"),
             exit' = exit
      PROVE  Shape'
  <2>1. Documents[i] \in Paths
    BY DocumentsUpTo
  <2>2. saved' = [saved EXCEPT ![Documents[i]] = before[Documents[i]]]
    BY <1>2, <1>6 DEF Early
  <2>3. saved' \in [Paths -> Contents \cup {"nothing"}] /\ \A p \in written' : saved'[p] = before[p]
    BY <1>1, <1>2, <1>6, <2>1, <2>2 DEF Early, Common
  <2>4. Common'
    BY <1>1, <1>2, <1>3, <1>6, <2>3
    DEF Common, Labels, ParityLabels, ApiLabels, BeforeTransaction, InTransaction
  <2>5. CASE i = Len(Documents)
    <3>1. written' = ToSet(Documents)
      BY <1>6, <2>5, DocumentsUpTo
    <3>2. Mid'
      BY <1>1, <1>2, <1>3, <1>4, <1>6, <2>3, <2>5, <3>1 DEF Early, Mid
    <3> QED
      BY <1>6, <2>4, <2>5, <3>2, <1>20 DEF Shape, EarlyLabels, BeforeTransaction
  <2>6. CASE i # Len(Documents)
    <3>1. Early'
      BY <1>1, <1>2, <1>3, <1>6, <2>3, <2>6 DEF Early
    <3> QED
      BY <1>6, <2>4, <2>6, <3>1, <1>20 DEF Shape, EarlyLabels, BeforeTransaction
  <2> QED
    BY <2>5, <2>6
<1> QED
  BY <1>5, <1>6 DEF WriteTemporary

LEMMA RenameTemporaryShape ==
  ASSUME Shape, RenameTemporary PROVE Shape'
<1> USE DEF Same, Goto, Leave, Succeed, Refuse, Fault, GiveUp
<1>1. pc = "rename" /\ UNCHANGED <<before, saved, command, unrestored>>
  BY DEF RenameTemporary
<1>2. Mid /\ Common /\ ~ IsParity /\ \A p \in ToSet(Documents) : saved[p] = before[p]
  BY <1>1 DEF Shape, Mid, Common, ApiLabels
<1>20. GivenUp'
  BY <1>1, <1>2, NothingGivenUp DEF Mid
<1>3. List = Documents /\ NextInList \in ToSet(Documents) /\ NextInList \in Paths
  <2>1. Len(replaced) + 1 \in 1..Len(List) /\ List = Documents
    BY <1>2 DEF Mid, Common, Prefix, List
  <2> QED
    BY <2>1, ListFacts DEF NextInList, ToSet
<1>4. List' = List /\ ~ IsParity' /\ AllReplaced' = AllReplaced /\ (Generates' <=> Generates)
  BY <1>1, <1>2, Frame
<1>5. AllReplaced[NextInList] = Rendered /\ Rendered \in Contents \cup {"nothing"}
  BY <1>2, <1>3, Targets DEF Rendered, RenderedFrom, Contents
<1>6. \/ /\ files' = [files EXCEPT ![NextInList] = AllReplaced[NextInList]]
         /\ replaced' = Append(replaced, NextInList)
         /\ pc' = (IF NextInList = Last(List) THEN "sweep" ELSE "rename") /\ exit' = exit
      \/ pc' = "restore" /\ UNCHANGED <<files, replaced>> /\ exit' = "failed"
  BY <1>3, <1>5 DEF RenameTemporary, NextInList
<1>7. CASE /\ files' = [files EXCEPT ![NextInList] = AllReplaced[NextInList]]
           /\ replaced' = Append(replaced, NextInList)
           /\ pc' = (IF NextInList = Last(List) THEN "sweep" ELSE "rename") /\ exit' = exit
  <2>1. /\ Prefix' /\ MidWay({})' /\ SavedInPlace'
        /\ files' \in [Paths -> Contents \cup {AllReplaced[NextInList], "nothing"}]
        /\ IF NextInList = Last(List) THEN files' = AllReplaced' ELSE Len(replaced') < Len(List')
    <3>1. saved[NextInList] = before[NextInList] /\ MidWay({}) /\ SavedInPlace /\ Len(replaced) < Len(List)
      BY <1>2, <1>3 DEF Mid
    <3> QED
      BY <1>1, <1>2, <1>7, <3>1, Installed
  <2>2. files' \in [Paths -> Contents \cup {"nothing"}]
    BY <1>5, <2>1
  <2>3. Common'
    BY <1>1, <1>2, <1>4, <1>7, <2>1, <2>2
    DEF Common, Labels, ParityLabels, ApiLabels, BeforeTransaction, InTransaction
  <2>4. CASE NextInList = Last(List)
    <3>1. Ended'
      BY <1>1, <1>2, <1>4, <1>7, <2>1, <2>4 DEF Mid, Ended
    <3> QED
      BY <1>7, <2>3, <2>4, <3>1, <1>20 DEF Shape, EarlyLabels, BeforeTransaction
  <2>5. CASE NextInList # Last(List)
    <3>1. Mid'
      BY <1>1, <1>2, <1>4, <1>7, <2>1, <2>5 DEF Mid
    <3> QED
      BY <1>7, <2>3, <2>5, <3>1, <1>20 DEF Shape, EarlyLabels, BeforeTransaction
  <2> QED
    BY <2>4, <2>5
<1>8. CASE pc' = "restore" /\ UNCHANGED <<files, replaced>> /\ exit' = "failed"
  <2>1. Common'
    BY <1>1, <1>2, <1>8, CommonKept
      DEF Labels, ParityLabels, ApiLabels, BeforeTransaction, InTransaction
  <2>2. SavedInPlace' /\ MidWay({})'
    BY <1>1, <1>2, <1>4, <1>8 DEF Mid, SavedInPlace, MidWay, InPlace
  <2>3. Back'
    BY <1>1, <1>2, <1>4, <1>8, <2>2 DEF Mid, Back
  <2> QED
    BY <1>8, <2>1, <2>3, <1>20 DEF Shape, EarlyLabels, BeforeTransaction
<1> QED
  BY <1>6, <1>7, <1>8

LEMMA RestoreSnapshotShape ==
  ASSUME Shape, RestoreSnapshot PROVE Shape'
<1> USE DEF Same, Goto, Leave, Succeed, Refuse, Fault, GiveUp
<1>1. pc = "restore" /\ exit' \in {exit, "failed"} /\ UNCHANGED <<before, command, saved>>
  BY DEF RestoreSnapshot
<1>2. Back /\ Common /\ GivenUp /\ ~ IsParity /\ exit = "failed" /\ Generates
  BY <1>1 DEF Shape, Back, Common, ApiLabels
<1>3. List' = List /\ ~ IsParity' /\ AllReplaced' = AllReplaced /\ (Generates' <=> Generates)
  BY <1>1, <1>2, Frame
<1>4. CASE replaced = <<>> /\ pc' = "sweep" /\ UNCHANGED <<files, replaced, unrestored>>
  <2>1. Common'
    BY <1>1, <1>2, <1>4, CommonKept
      DEF Labels, ParityLabels, ApiLabels, BeforeTransaction, InTransaction
  <2>2. Untouched
    BY <1>2, <1>4, NothingInPlace DEF Back, MidWay, Untouched
  <2>3. Ended' /\ GivenUp'
    BY <1>1, <1>2, <1>3, <1>4, <2>2, Frame DEF Ended, Untouched, GivenUp
  <2> QED
    BY <1>4, <2>1, <2>3 DEF Shape, EarlyLabels, BeforeTransaction
<1>5. CASE /\ replaced # <<>> /\ pc' = "restore" /\ UNCHANGED unrestored
           /\ files' = [files EXCEPT ![Last(replaced)] = saved[Last(replaced)]]
           /\ replaced' = Front(replaced)
  <2>1. Last(replaced) \in Paths
    BY <1>2, <1>5, OneLessLast DEF Common, InPlace, ToSet, Prefix
  <2>2. files' \in [Paths -> Contents \cup {"nothing"}]
    BY <1>2, <1>5, <2>1 DEF Common
  <2>3. Prefix'
    BY <1>2, <1>3, <1>5, OneLess DEF Common
  <2>4. Common'
    BY <1>1, <1>2, <1>3, <1>5, <2>2, <2>3
    DEF Common, Labels, ParityLabels, ApiLabels, BeforeTransaction, InTransaction
  <2>5. MidWay(unrestored)' /\ SavedInPlace' /\ (unrestored \cap InPlace = {})'
    <3> DEFINE lost == unrestored
    <3>1. MidWay(lost) /\ SavedInPlace /\ lost \cap InPlace = {}
      BY <1>2 DEF Back
    <3>2. lost' = lost
      BY <1>5
    <3> HIDE DEF lost
    <3>3. (\A p \in Paths \ lost : files'[p] = IF p \in InPlace' THEN AllReplaced'[p] ELSE before'[p]) /\ SavedInPlace' /\ lost \cap InPlace' = {}
      BY <1>1, <1>2, <1>5, <3>1, Restored DEF MidWay
    <3> QED
      BY <3>2, <3>3 DEF MidWay, lost
  <2>7. GivenUp'
    <3>1. Last(replaced) \notin unrestored
      BY <1>2, <1>5, OneLessLast DEF Back, Common
    <3>2. \A p \in unrestored : files'[p] = files[p]
      BY <1>2, <1>5, <3>1 DEF GivenUp, Common
    <3> QED
      BY <1>1, <1>2, <1>3, <1>5, <3>2, Frame DEF GivenUp
  <2>6. Back'
    BY <1>1, <1>2, <1>3, <1>5, <2>5 DEF Back
  <2> QED
    BY <1>5, <2>4, <2>6, <2>7 DEF Shape, EarlyLabels, BeforeTransaction
<1>6. CASE pc' = "sweep" /\ unrestored' = unrestored \cup InPlace /\ UNCHANGED <<files, replaced>>
  <2>1. Common'
    BY <1>1, <1>2, <1>6, CommonKept
      DEF Labels, ParityLabels, ApiLabels, BeforeTransaction, InTransaction
  <2>2. Ended'
    BY <1>1, <1>2, <1>6 DEF Back, MidWay, Ended, Untouched
  <2>3. \A p \in InPlace : files[p] = Rendered
    <3>1. InPlace \subseteq Paths /\ InPlace \subseteq ToSet(Documents)
      BY <1>2, InPlaceIsPaths DEF Common, List
    <3> QED
      BY <1>2, <3>1, Targets DEF Back, MidWay
  <2>4. GivenUp'
    BY <1>1, <1>2, <1>3, <1>6, <2>3, InPlaceIsPaths, Frame DEF GivenUp, Common
  <2> QED
    BY <1>6, <2>1, <2>2, <2>4 DEF Shape, EarlyLabels, BeforeTransaction
<1> QED
  BY <1>4, <1>5, <1>6 DEF RestoreSnapshot, GiveUp, InPlace

LEMMA KillShape ==
  ASSUME Shape, Kill PROVE Shape'
<1>1. /\ pc' = "idle" /\ exit' = "killed"
      /\ UNCHANGED <<files, before, saved, command, replaced, unrestored, transaction>>
  BY DEF Kill, working
<1>2. Common'
  BY <1>1, CommonKept DEF Shape, Labels, ParityLabels, ApiLabels, BeforeTransaction, InTransaction
<1>20. GivenUp'
  BY <1>1, Frame DEF Shape, GivenUp
<1>3. KeptUntilReplaced'
  BY <1>1, ShapeKeeps, Frame DEF KeptUntilReplaced
<1> QED
  BY <1>1, <1>2, <1>3, <1>20 DEF Shape, AllOrNothing, EarlyLabels, BeforeTransaction

LEMMA StutterShape ==
  ASSUME Shape, UNCHANGED vars PROVE Shape'
<1>1. /\ UNCHANGED <<files, before, saved, command, pc, exit, replaced, unrestored>>
      /\ UNCHANGED <<transaction, written>>
  BY DEF vars, working
<1>2. /\ List' = List /\ (IsParity' <=> IsParity) /\ AllReplaced' = AllReplaced
      /\ (Generates' <=> Generates) /\ Rendered' = Rendered
  BY <1>1, Frame
<1>3. InPlace' = InPlace /\ NextInList' = NextInList
  BY <1>1, <1>2 DEF InPlace, NextInList
<1>4. (Common' <=> Common) /\ (SavedInPlace' <=> SavedInPlace)
  BY <1>1, <1>2, <1>3 DEF Common, Prefix, SavedInPlace
<1>5. ASSUME NEW rest PROVE MidWay(rest)' <=> MidWay(rest)
  BY <1>1, <1>2, <1>3 DEF MidWay
<1>20. GivenUp' <=> GivenUp
  BY <1>1, <1>2 DEF GivenUp
<1>6. (Early' <=> Early) /\ (Ended' <=> Ended)
  BY <1>1, <1>2 DEF Early, Ended, Untouched
<1>7. (Mid' <=> Mid) /\ (Back' <=> Back)
  BY <1>1, <1>2, <1>3, <1>4, <1>5 DEF Mid, Back, MidWay
<1>8. (Hole' <=> Hole) /\ (Lifted' <=> Lifted)
  BY <1>1, <1>2, <1>3, <1>4 DEF Hole, Lifted, MidWay
<1>9. (AllOrNothing' <=> AllOrNothing) /\ (KeptUntilReplaced' <=> KeptUntilReplaced)
  BY <1>1, <1>2 DEF AllOrNothing, KeptUntilReplaced
<1> QED
  BY <1>1, <1>4, <1>6, <1>7, <1>8, <1>9, <1>20 DEF Shape

LEMMA NextShape == Shape /\ [Next]_vars => Shape'
<1> SUFFICES ASSUME Shape, [Next]_vars PROVE Shape'
  OBVIOUS
<1>1. CASE ParityStep
  BY <1>1, EarlySteps, StageArtifactShape, BackUpShape, InstallShape, ReinstateShape,
     RollbackShape, PutBackShape, DiscardShape, CleanupShape DEF ParityStep
<1>2. CASE ApiStep
  BY <1>2, RenderShape, WriteTemporaryShape, RenameTemporaryShape, RestoreSnapshotShape,
     CleanupShape DEF ApiStep
<1>3. CASE UNCHANGED vars
  BY <1>3, StutterShape
<1> QED
  BY <1>1, <1>2, <1>3, StartShape, KillShape DEF Next

\* A command that ends by itself has replaced every artifact it generates or none of them,
\* those apart whose restoring failed or was given up: wherever the first failure falls.
THEOREM CommandsReplaceAllOrNothing == Spec => []AllOrNothing
<1>1. Shape => AllOrNothing
  BY DEF Shape, AllOrNothing
<1> QED
  BY InitShape, NextShape, <1>1, PTL DEF Spec

\* No kill of check-parity loses the previous bytes of an artifact before everything is in
\* place, and neither does a failed operation on files, except one that fails while the
\* artifacts are restored: those left unrestored then lose the only copy to the finally
\* clause.  generate-api-parity leaves each document as it was or as it renders it.
THEOREM CommandsKeepUntilReplaced == Spec => []KeptUntilReplaced
BY InitShape, NextShape, ShapeKeeps, PTL DEF Spec

-----------------------------------------------------------------------------
(* Releases *)

\* A list that repeats nothing, followed by one that repeats neither itself nor it.
LEMMA UniqueTogether ==
  ASSUME NEW s, NEW t, s \in Seq(ToSet(s)), t \in Seq(ToSet(t)), Unique(s), Unique(t),
         \A i \in DOMAIN t : t[i] \notin ToSet(s)
  PROVE  Unique(s \o t)
<1> DEFINE n == Len(s)
           m == Len(t)
<1>1. n \in Nat /\ m \in Nat /\ DOMAIN s = 1..n /\ DOMAIN t = 1..m
  OBVIOUS
<1>2. /\ DOMAIN (s \o t) = 1..(n + m)
      /\ \A i \in 1..n : (s \o t)[i] = s[i] /\ s[i] \in ToSet(s)
      /\ \A i \in (n + 1)..(n + m) : (s \o t)[i] = t[i - n] /\ i - n \in 1..m
  BY <1>1 DEF ToSet
<1>3. \A i, j \in 1..n : s[i] = s[j] => i = j
  BY <1>1 DEF Unique, IsInjective
<1>4. \A i, j \in 1..m : t[i] = t[j] => i = j
  BY <1>1 DEF Unique, IsInjective
<1>5. \A i \in 1..m : t[i] \notin ToSet(s)
  BY <1>1
<1> SUFFICES ASSUME NEW i \in 1..(n + m), NEW j \in 1..(n + m), (s \o t)[i] = (s \o t)[j]
             PROVE  i = j
  BY <1>2 DEF Unique, IsInjective
<1> DEFINE u == s \o t
<1> HIDE DEF n, m, u
<1>6. u[i] = u[j]
  BY DEF u
<1>7. CASE i \in 1..n /\ j \in 1..n
  BY <1>2, <1>3, <1>6, <1>7 DEF u
<1>8. CASE i \in (n + 1)..(n + m) /\ j \in (n + 1)..(n + m)
  <2>1. i - n = j - n
    BY ZenonT(60), <1>2, <1>4, <1>6, <1>8 DEF u
  <2> QED
    BY <1>1, <1>8, <2>1
<1>9. CASE i \in 1..n /\ j \in (n + 1)..(n + m)
  BY ZenonT(60), <1>2, <1>5, <1>6, <1>9 DEF u
<1>10. CASE i \in (n + 1)..(n + m) /\ j \in 1..n
  BY ZenonT(60), <1>2, <1>5, <1>6, <1>10 DEF u
<1> QED
  BY <1>1, <1>7, <1>8, <1>9, <1>10

\* What a release promises of the authorities it validated.
Covered(a) ==
  /\ Unique(Exported(a))
  /\ \A name \in NamesOf(a.api.symbols) : \E row \in ToSet(a.rows) :
        /\ row.python_symbol = name
        /\ \/ row.status = "complete"
           \/ row.status = "not_applicable" /\ row.rationale = "reviewed"
  /\ \A row \in ToSet(a.rows) \cup ToSet(a.extensions) :
        row.status = "complete" => Last(a.evidence[row.contract_test]) = "file"
  /\ a.manifest.parity_status = "complete"

LEMMA ExportsAreList ==
  ASSUME NEW rows, rows \in Seq(ToSet(rows))
  PROVE  Exports(rows) \in Seq(ToSet(Exports(rows))) /\ DOMAIN Exports(rows) = DOMAIN rows
<1> DEFINE e == Exports(rows)
           n == Len(rows)
<1>1. n \in Nat /\ DOMAIN rows = 1..n /\ DOMAIN e = 1..n
  BY DEF Exports
<1>2. e = [i \in 1..n |-> e[i]]
  BY <1>1 DEF Exports
<1>3. \A i \in 1..n : e[i] \in ToSet(e)
  BY <1>1 DEF ToSet
<1> HIDE DEF e, n
<1>4. e \in [1..n -> ToSet(e)]
  BY <1>2, <1>3
<1>5. e \in Seq(ToSet(e))
  BY <1>1, <1>4
<1> QED
  BY <1>1, <1>5 DEF e

\* The validators of a release make it so.
LEMMA AcceptedIsCovered ==
  ASSUME NEW a, Arrays(a), Accepted(a, TRUE) PROVE Covered(a)
<1>1. /\ validateMapping(a.rows, a.api, a.classes, a.evidence, TRUE)
      /\ validateExtensions(a.extensions, a.rows, a.evidence, TRUE)
      /\ a.manifest.parity_status = "complete"
  BY DEF Accepted
<1>2. /\ \A i \in DOMAIN a.rows : RowStatus(a.rows[i], a.evidence, TRUE)
      /\ Unique(Exports(a.rows))
      /\ MappedNames(a.rows) = [i \in DOMAIN a.api.symbols |-> a.api.symbols[i].name]
  BY <1>1, Zenon DEF validateMapping, CoversInventory
<1>3. /\ \A i \in DOMAIN a.extensions :
            /\ Exports(a.extensions)[i] \notin ToSet(Exports(a.rows))
            /\ a.extensions[i].status = "complete" =>
                  ValidEvidence(a.evidence, a.extensions[i].contract_test)
      /\ Unique(Exports(a.extensions))
  BY <1>1, Zenon DEF validateExtensions
<1>4. Unique(Exported(a))
  BY <1>2, <1>3, ExportsAreList, UniqueTogether DEF Arrays, Exported
<1>5. ASSUME NEW name \in NamesOf(a.api.symbols)
      PROVE  \E row \in ToSet(a.rows) :
               /\ row.python_symbol = name
               /\ \/ row.status = "complete"
                  \/ row.status = "not_applicable" /\ row.rationale = "reviewed"
  <2>1. PICK i \in DOMAIN a.api.symbols : name = a.api.symbols[i].name
    BY DEF NamesOf
  <2>2. i \in DOMAIN a.rows /\ a.rows[i].python_symbol = name
    BY <1>2, <2>1 DEF MappedNames
  <2>3. /\ a.rows[i].status \in Statuses \ {"planned", "partial"}
        /\ a.rows[i].status = "not_applicable" => a.rows[i].rationale = "reviewed"
    BY <1>2, <2>2 DEF RowStatus
  <2>4. a.rows[i] \in ToSet(a.rows)
    BY <2>2 DEF ToSet
  <2> QED
    BY <2>2, <2>3, <2>4 DEF Statuses
<1>6. ASSUME NEW row \in ToSet(a.rows) \cup ToSet(a.extensions), row.status = "complete"
      PROVE  Last(a.evidence[row.contract_test]) = "file"
  <2>1. ValidEvidence(a.evidence, row.contract_test)
    <3>1. CASE row \in ToSet(a.rows)
      <4>1. PICK i \in DOMAIN a.rows : row = a.rows[i]
        BY <3>1 DEF ToSet
      <4> QED
        BY <1>2, <1>6, <4>1 DEF RowStatus
    <3>2. CASE row \in ToSet(a.extensions)
      <4>1. PICK i \in DOMAIN a.extensions : row = a.extensions[i]
        BY <3>2 DEF ToSet
      <4> QED
        BY <1>3, <1>6, <4>1
    <3> QED
      BY <3>1, <3>2
  <2> QED
    BY <2>1 DEF ValidEvidence
<1> QED
  BY <1>1, <1>4, <1>5, <1>6 DEF Covered

\* Where check-parity has generated, or has failed.
GeneratedLabels == ParityLabels \ {"checkout", "generator", "generate"}

\* Nothing is rendered, generated or compared that was not validated.
Validates ==
  /\ Arrays(authorities)
  /\ pc \in ApiLabels \ {"render"} => Accepted(AuthoritiesOf(before), command.release)
  /\ pc \in GeneratedLabels /\ exit = "none" => Accepted(WithPinnedInventory(authorities), FALSE)
  /\ pc = "idle" /\ exit = "ok" =>
        IF IsParity THEN Accepted(WithPinnedInventory(authorities), FALSE)
        ELSE Accepted(AuthoritiesOf(before), command.release)

LEMMA InitValidates == Init => Validates
BY WorkTreesAssumption
  DEF Init, Validates, ApiLabels, GeneratedLabels, ParityLabels, BeforeTransaction, InTransaction

LEMMA ValidationKept ==
  ASSUME UNCHANGED <<authorities, before, command>>
  PROVE  /\ AuthoritiesOf(before)' = AuthoritiesOf(before) /\ (IsParity' <=> IsParity)
         /\ WithPinnedInventory(authorities)' = WithPinnedInventory(authorities)
         /\ command.release' = command.release /\ (Arrays(authorities)' <=> Arrays(authorities))
BY DEF IsParity, AuthoritiesOf, WithPinnedInventory, Arrays

\* A command of check-parity that has failed does not succeed any more, and what it
\* generates it has validated.
LEMMA ParityStepValidates ==
  ASSUME Shape, Validates, ParityStep PROVE Validates'
<1> USE DEF Same, Goto, Leave, Succeed, Refuse, Fault, GiveUp
<1>1. /\ UNCHANGED <<authorities, command, before>> /\ pc \in ParityLabels
      /\ pc' \in ParityLabels \cup {"idle"}
  BY DEF ParityStep, VerifyCheckout, ProvisionPython, GenerateArtifacts, CheckArtifacts,
    BeginTransaction, StageArtifact, BackUp, Install, Reinstate, Rollback, PutBack, Discard,
    CleanupOwnedRoot, ParityLabels, BeforeTransaction, InTransaction
<1>2. IsParity
  BY <1>1 DEF Shape, Common
<1>3. CASE VerifyCheckout \/ ProvisionPython
  <2>1. pc' \in {"generator", "generate"} \/ (pc' = "cleanup" /\ exit' = "failed")
    BY <1>3 DEF VerifyCheckout, ProvisionPython
  <2> QED
    BY <1>1, <1>2, <2>1, ValidationKept
    DEF Validates, GeneratedLabels, ApiLabels, ParityLabels, BeforeTransaction, InTransaction
<1>4. CASE GenerateArtifacts
  <2>1. /\ pc' \in {"compare", "begin", "cleanup"}
        /\ exit' = "failed" \/ Accepted(WithPinnedInventory(authorities), FALSE)
    BY <1>4 DEF GenerateArtifacts
  <2> QED
    BY <1>1, <1>2, <2>1, ValidationKept
    DEF Validates, GeneratedLabels, ApiLabels, ParityLabels, BeforeTransaction, InTransaction
<1>5. CASE ~ (VerifyCheckout \/ ProvisionPython \/ GenerateArtifacts)
  <2>1. /\ pc \in GeneratedLabels /\ exit' \in {exit, "failed", "ok"}
        /\ exit' = "ok" /\ exit # "ok" => exit = "none"
        /\ pc' = "idle" /\ exit' = "ok" => exit \in {"none", "ok"}
    BY <1>5
      DEF ParityStep, CheckArtifacts, BeginTransaction, StageArtifact, BackUp, Install, Reinstate,
      Rollback, PutBack, Discard, CleanupOwnedRoot, GeneratedLabels, ParityLabels, BeforeTransaction,
      InTransaction
  <2>2. exit # "ok"
    BY <1>1, <2>1 DEF Shape, GeneratedLabels, ParityLabels, BeforeTransaction, InTransaction,
      EarlyLabels, Early, Mid, Hole, Back, Lifted, Ended
  <2> QED
    BY <1>1, <1>2, <2>1, <2>2, ValidationKept
    DEF Validates, GeneratedLabels, ApiLabels, ParityLabels, BeforeTransaction, InTransaction
<1> QED
  BY <1>3, <1>4, <1>5

\* Pinning the inventory changes no array into something else.
LEMMA ValidatedIsArrays ==
  ASSUME Validates PROVE Arrays(Validated)
<1>1. Arrays(authorities)
  BY DEF Validates
<1>2. Arrays(WithPinnedInventory(authorities))
  <2> DEFINE a == authorities
             w == WithPinnedInventory(a)
  <2>1. {"rows", "extensions", "api", "classes"} \subseteq DOMAIN a
    BY <1>1 DEF Arrays
  <2>2. /\ DOMAIN w = DOMAIN a /\ w.rows = a.rows /\ w.extensions = a.extensions
        /\ w.classes = PinnedClasses
    BY <2>1 DEF WithPinnedInventory
  <2> QED
    BY <1>1, <2>2, WorkTreesAssumption DEF Arrays
<1> QED
  BY <1>1, <1>2 DEF Validated, AuthoritiesOf

LEMMA NextValidates == Shape /\ Validates /\ [Next]_vars => Validates'
<1> SUFFICES ASSUME Shape, Validates, [Next]_vars PROVE Validates'
  OBVIOUS
<1> USE DEF Same, Goto, Leave, Succeed, Refuse, Fault, GiveUp
<1>1. ASSUME NEW c \in Commands, Start(c) PROVE Validates'
  <2>1. UNCHANGED authorities /\ (pc' = "idle" => exit' = "failed") /\ pc' \in {"idle", "checkout", "render"}
    BY <1>1 DEF Start
  <2> QED
    BY <2>1
      DEF Validates, ApiLabels, GeneratedLabels, ParityLabels, BeforeTransaction, InTransaction
<1>2. CASE ParityStep
  BY <1>2, ParityStepValidates
<1>3. CASE Render
  <2>1. /\ UNCHANGED <<authorities, command, before>> /\ pc = "render"
        /\ \/ pc' = "idle" /\ exit' = "failed"
           \/ pc' \in {"idle", "temporary"} /\ Accepted(AuthoritiesOf(before), command.release)
    BY <1>3 DEF Render
  <2>2. ~ IsParity
    BY <2>1 DEF Shape, Common, ApiLabels
  <2> QED
    BY <2>1, <2>2, ValidationKept
      DEF Validates, ApiLabels, GeneratedLabels, ParityLabels, BeforeTransaction, InTransaction
<1>4. CASE WriteTemporary \/ RenameTemporary \/ RestoreSnapshot \/ Sweep
  <2>1. /\ UNCHANGED <<authorities, command, before>> /\ pc \in ApiLabels \ {"render"}
        /\ pc' \in ApiLabels \cup {"idle"}
    BY <1>4 DEF WriteTemporary, RenameTemporary, RestoreSnapshot, Sweep, ApiLabels
  <2>2. ~ IsParity
    BY <2>1 DEF Shape, Common
  <2> QED
    BY <2>1, <2>2, ValidationKept
    DEF Validates, ApiLabels, GeneratedLabels, ParityLabels, BeforeTransaction, InTransaction
<1>5. CASE Kill
  <2>1. UNCHANGED authorities /\ pc' = "idle" /\ exit' = "killed"
    BY <1>5 DEF Kill
  <2> QED
    BY <2>1
      DEF Validates, ApiLabels, GeneratedLabels, ParityLabels, BeforeTransaction, InTransaction
<1>6. CASE UNCHANGED vars
  BY <1>6, ValidationKept DEF vars, Validates
<1> QED
  BY <1>1, <1>2, <1>3, <1>4, <1>5, <1>6 DEF Next, ApiStep

\* A release that exits with success exports nothing twice at a boundary, and covers
\* every public Python symbol with a complete or a reviewed row and its evidence, for
\* any inventory and any mapping an author may have left in the repository.
THEOREM ReleasesAreCovered == Spec => []ReleaseIsCovered
<1>1. Shape /\ Validates => ReleaseIsCovered
  <2> SUFFICES ASSUME Shape, Validates, pc = "idle", exit = "ok", command.release
               PROVE  Covered(Validated)
    BY DEF ReleaseIsCovered, Covered
  <2>1. ~ IsParity
    BY DEF Shape, Common, Commands, IsParity
  <2>2. Accepted(Validated, TRUE)
    <3>1. command.release = TRUE
      BY DEF Shape, Common, Commands
    <3> QED
      BY <2>1, <3>1 DEF Validates, Validated
  <2>3. Arrays(Validated)
    BY ValidatedIsArrays
  <2> QED
    BY <2>2, <2>3, AcceptedIsCovered
<1> QED
  BY InitShape, NextShape, InitValidates, NextValidates, <1>1, PTL DEF Spec

-----------------------------------------------------------------------------
(* Partial classes *)

\* A list without repetitions has as many elements as it is long; one with as many
\* elements as it is long has no repetitions.
LEMMA SizeOfList ==
  ASSUME NEW s, s \in Seq(ToSet(s))
  PROVE  /\ IsFiniteSet(ToSet(s)) /\ Cardinality(ToSet(s)) <= Len(s)
         /\ (Cardinality(ToSet(s)) = Len(s)) <=> (\A i, j \in 1..Len(s) : s[i] = s[j] => i = j)
<1> DEFINE n == Len(s)
<1>1. n \in Nat /\ DOMAIN s = 1..n /\ s \in [1..n -> ToSet(s)]
  OBVIOUS
<1>2. s \in Surjection(1..n, ToSet(s))
  BY <1>1 DEF Surjection, ToSet
<1>3. (s \in Injection(1..n, ToSet(s))) <=> (\A i, j \in 1..n : s[i] = s[j] => i = j)
  BY <1>1 DEF Injection, IsInjective
<1>4. IsFiniteSet(1..n) /\ Cardinality(1..n) = n
  BY SMTT(60), <1>1, FS_Interval
<1> HIDE DEF n
<1>5. /\ IsFiniteSet(ToSet(s)) /\ Cardinality(ToSet(s)) <= Cardinality(1..n)
      /\ (Cardinality(ToSet(s)) = Cardinality(1..n)) <=> (s \in Injection(1..n, ToSet(s)))
  BY <1>2, <1>4, FS_Surjection
<1> QED
  BY <1>3, <1>4, <1>5 DEF n

LEMMA UniqueList ==
  ASSUME NEW s, s \in Seq(ToSet(s))
  PROVE  Unique(s) <=> (\A i, j \in 1..Len(s) : s[i] = s[j] => i = j)
<1>1. DOMAIN s = 1..Len(s)
  OBVIOUS
<1> QED
  BY <1>1 DEF Unique, IsInjective

\* The place of a number in a set of numbers.
Place(kept, i) == Cardinality({j \in kept : j <= i})

LEMMA PlacesGrow ==
  ASSUME NEW n \in Nat, NEW kept \in SUBSET (1..n), NEW i \in kept
  PROVE  /\ Place(kept, i) \in 1..Cardinality(kept)
         /\ \A j \in kept : i < j => Place(kept, i) < Place(kept, j)
<1>1. IsFiniteSet(kept) /\ Cardinality(kept) \in Nat
  <2>1. IsFiniteSet(1..n)
    BY FS_Interval
  <2> QED
    BY <2>1, FS_Subset, FS_CardinalityType
<1>2. ASSUME NEW j \in kept
      PROVE  /\ IsFiniteSet({l \in kept : l <= j}) /\ Place(kept, j) \in Nat
             /\ Place(kept, j) <= Cardinality(kept)
  BY <1>1, FS_Subset, FS_CardinalityType DEF Place
<1>3. Place(kept, i) # 0
  <2>1. i \in {l \in kept : l <= i}
    OBVIOUS
  <2> QED
    BY <1>2, <2>1, FS_EmptySet DEF Place
<1>4. ASSUME NEW j \in kept, i < j PROVE Place(kept, i) < Place(kept, j)
  <2> DEFINE A == {l \in kept : l <= i}
             B == {l \in kept : l <= j}
  <2>1. A \in SUBSET B /\ j \in B /\ j \notin A
    <3>1. i \in Nat /\ j \in Nat /\ \A l \in kept : l \in Nat
      OBVIOUS
    <3>2. \A l \in kept : l <= i => l <= j
      BY <1>4, <3>1
    <3>3. j <= j /\ ~ (j <= i)
      BY <1>4, <3>1
    <3> QED
      BY <3>2, <3>3
  <2>2. IsFiniteSet(B)
    BY <1>2
  <2> HIDE DEF A, B
  <2>3. Cardinality(A) <= Cardinality(B) /\ Cardinality(B) # Cardinality(A)
    BY <2>1, <2>2, FS_Subset
  <2>4. Place(kept, i) \in Nat /\ Place(kept, j) \in Nat
    BY <1>2
  <2> QED
    BY <2>3, <2>4 DEF Place, A, B
<1>5. Place(kept, i) \in 1..Cardinality(kept)
  <2>1. Place(kept, i) \in Nat /\ Place(kept, i) <= Cardinality(kept)
    BY <1>2
  <2> QED
    BY <1>1, <1>3, <2>1
<1> QED
  BY <1>4, <1>5

\* Each element that is kept is found at its place among those that are.
LEMMA FilteredAtPlace ==
  ASSUME NEW s, s \in Seq(ToSet(s)), NEW set, NEW i \in DOMAIN s, s[i] \in set
  PROVE  LET place == Place({j \in DOMAIN s : s[j] \in set}, i)
         IN place \in DOMAIN Filtered(s, set) /\ Filtered(s, set)[place] = s[i]
<1> DEFINE kept == {j \in DOMAIN s : s[j] \in set}
           k == Place(kept, i)
           m == CHOOSE j \in kept : Place(kept, j) = k
<1>1. Len(s) \in Nat /\ DOMAIN s = 1..Len(s) /\ i \in kept /\ kept \in SUBSET (1..Len(s))
  OBVIOUS
<1>2. k \in 1..Cardinality(kept)
  BY <1>1, PlacesGrow
<1>3. Filtered(s, set) = [l \in 1..Cardinality(kept) |-> s[CHOOSE j \in kept : Place(kept, j) = l]]
  BY DEF Filtered, Place
<1>4. m \in kept /\ Place(kept, m) = k
  BY <1>1
<1> HIDE DEF kept, m
<1>5. k \in Nat /\ i \in Nat /\ m \in Nat
  BY <1>1, <1>2, <1>4
<1>6. m = i
  <2>1. ASSUME m < i PROVE FALSE
    <3>1. Place(kept, m) < Place(kept, i)
      BY <1>1, <1>4, <2>1, PlacesGrow
    <3> QED
      BY <1>4, <1>5, <3>1
  <2>2. ASSUME i < m PROVE FALSE
    <3>1. Place(kept, i) < Place(kept, m)
      BY <1>1, <1>4, <2>2, PlacesGrow
    <3> QED
      BY <1>4, <1>5, <3>1
  <2> QED
    BY <1>5, <2>1, <2>2
<1> HIDE DEF k
<1>7. DOMAIN Filtered(s, set) = 1..Cardinality(kept) /\ Filtered(s, set)[k] = s[m]
  BY <1>2, <1>3 DEF m
<1> QED
  BY <1>2, <1>6, <1>7 DEF kept, k

\* A list that repeats nothing and is what is kept of another one follows the order of
\* that, in which its elements occur once.
LEMMA FilteredInOrder ==
  ASSUME NEW s, s \in Seq(ToSet(s)), NEW t, t \in Seq(ToSet(t)), Unique(t), t = Filtered(s, ToSet(t))
  PROVE  /\ \A i, j \in DOMAIN s : s[i] \in ToSet(t) /\ s[i] = s[j] => i = j
         /\ \A a, b \in DOMAIN t : a < b =>
              \A x, y \in DOMAIN s : s[x] = t[a] /\ s[y] = t[b] => x < y
<1> DEFINE kept == {j \in DOMAIN s : s[j] \in ToSet(t)}
<1>1. Len(s) \in Nat /\ DOMAIN s = 1..Len(s) /\ kept \in SUBSET (1..Len(s)) /\ DOMAIN t = 1..Len(t) /\ Len(t) \in Nat
  OBVIOUS
<1>2. ASSUME NEW i \in kept
      PROVE  Place(kept, i) \in DOMAIN t /\ t[Place(kept, i)] = s[i] /\ Place(kept, i) \in Nat
  BY <1>1, FilteredAtPlace
<1>3. \A a, b \in DOMAIN t : t[a] = t[b] => a = b
  BY <1>1, UniqueList
<1>4. \A a \in DOMAIN t : t[a] \in ToSet(t)
  BY DEF ToSet
<1> HIDE DEF kept
<1>5. ASSUME NEW i \in kept, NEW j \in kept, s[i] = s[j] PROVE i = j
  <2>1. Place(kept, i) = Place(kept, j)
    BY <1>2, <1>3, <1>5
  <2>2. i \in Nat /\ j \in Nat /\ Place(kept, i) \in Nat
    BY <1>1, <1>2
  <2>3. ASSUME i < j PROVE FALSE
    <3>1. Place(kept, i) < Place(kept, j)
      BY <1>1, <2>3, PlacesGrow
    <3> QED
      BY <2>1, <2>2, <3>1
  <2>4. ASSUME j < i PROVE FALSE
    <3>1. Place(kept, j) < Place(kept, i)
      BY <1>1, <2>4, PlacesGrow
    <3> QED
      BY <2>1, <2>2, <3>1
  <2> QED
    BY <2>2, <2>3, <2>4
<1>6. ASSUME NEW a \in DOMAIN t, NEW b \in DOMAIN t, a < b,
             NEW x \in DOMAIN s, NEW y \in DOMAIN s, s[x] = t[a], s[y] = t[b]
      PROVE  x < y
  <2>1. x \in kept /\ y \in kept
    BY <1>4, <1>6 DEF kept
  <2>2. Place(kept, x) = a /\ Place(kept, y) = b
    BY <1>2, <1>3, <1>6, <2>1
  <2>3. x \in Nat /\ y \in Nat /\ a \in Nat /\ b \in Nat
    BY <1>1, <2>1
  <2>4. ASSUME y < x PROVE FALSE
    <3>1. Place(kept, y) < Place(kept, x)
      BY <1>1, <2>1, <2>4, PlacesGrow
    <3> QED
      BY <1>6, <2>2, <2>3, <3>1
  <2>5. x # y
    BY <1>6, <2>2, <2>3
  <2> QED
    BY <2>3, <2>4, <2>5
<1> QED
  BY <1>5, <1>6 DEF kept

\* What validatePartialClass asks of two lists p and q and of the list s of the members.
Reviewed(s, p, q) ==
  /\ s \in Seq(ToSet(s)) /\ p \in Seq(ToSet(p)) /\ q \in Seq(ToSet(q))
  /\ Unique(p) /\ p = Filtered(s, ToSet(p))
  /\ Unique(q) /\ q = Filtered(s, ToSet(q))
  /\ ToSet(p) \subseteq ToSet(s) \ ToSet(q) /\ ToSet(q) \subseteq ToSet(s)
  /\ Len(p) + Len(q) = Cardinality(ToSet(s))

\* Each element of s is in one place of the two lists.
OnceEach(s, p, q) ==
  \A i \in DOMAIN s : Cardinality({k \in DOMAIN (p \o q) : (p \o q)[k] = s[i]}) = 1

\* It makes them a partition of s, and s a list without repetitions.
LEMMA ListsPartition ==
  ASSUME NEW s, NEW p, NEW q, Reviewed(s, p, q)
  PROVE  /\ \A i, j \in DOMAIN s : s[i] = s[j] => i = j
         /\ Len(p) + Len(q) = Len(s)
         /\ OnceEach(s, p, q)
<1> /\ s \in Seq(ToSet(s)) /\ p \in Seq(ToSet(p)) /\ q \in Seq(ToSet(q))
    /\ Unique(p) /\ p = Filtered(s, ToSet(p))
    /\ Unique(q) /\ q = Filtered(s, ToSet(q))
    /\ ToSet(p) \subseteq ToSet(s) \ ToSet(q) /\ ToSet(q) \subseteq ToSet(s)
    /\ Len(p) + Len(q) = Cardinality(ToSet(s))
  BY DEF Reviewed
<1>1. /\ Len(s) \in Nat /\ DOMAIN s = 1..Len(s) /\ Len(p) \in Nat /\ DOMAIN p = 1..Len(p)
      /\ Len(q) \in Nat /\ DOMAIN q = 1..Len(q)
  OBVIOUS
<1>2. /\ \A i, j \in 1..Len(p) : p[i] = p[j] => i = j
      /\ \A i, j \in 1..Len(q) : q[i] = q[j] => i = j
  BY UniqueList
<1>3. /\ IsFiniteSet(ToSet(p)) /\ Cardinality(ToSet(p)) = Len(p)
      /\ IsFiniteSet(ToSet(q)) /\ Cardinality(ToSet(q)) = Len(q)
      /\ IsFiniteSet(ToSet(s))
  BY <1>2, SizeOfList
<1>4. ToSet(p) \cup ToSet(q) = ToSet(s)
  <2>1. ToSet(p) \cap ToSet(q) = {} /\ (ToSet(p) \cup ToSet(q)) \in SUBSET ToSet(s)
    OBVIOUS
  <2>2. Cardinality(ToSet(p) \cap ToSet(q)) = 0
    BY <2>1, FS_EmptySet
  <2>3. Cardinality(ToSet(p) \cup ToSet(q))
          = Cardinality(ToSet(p)) + Cardinality(ToSet(q)) - Cardinality(ToSet(p) \cap ToSet(q))
    BY <1>3, FS_Union
  <2>4. Cardinality(ToSet(p) \cup ToSet(q)) = Cardinality(ToSet(s))
    BY <1>1, <1>3, <2>2, <2>3
  <2> QED
    BY <1>3, <2>1, <2>4, FS_Subset
<1>5. \A i \in DOMAIN s : s[i] \in ToSet(p) \/ s[i] \in ToSet(q)
  BY <1>4 DEF ToSet
<1>6. /\ \A i, j \in DOMAIN s : s[i] \in ToSet(p) /\ s[i] = s[j] => i = j
      /\ \A i, j \in DOMAIN s : s[i] \in ToSet(q) /\ s[i] = s[j] => i = j
  BY FilteredInOrder
<1>7. \A i, j \in DOMAIN s : s[i] = s[j] => i = j
  BY <1>5, <1>6
<1>8. Len(p) + Len(q) = Len(s)
  BY <1>1, <1>7, SizeOfList
<1>9. ASSUME NEW i \in DOMAIN s
      PROVE  Cardinality({k \in DOMAIN (p \o q) : (p \o q)[k] = s[i]}) = 1
  <2> DEFINE both == p \o q
  <2>1. /\ DOMAIN both = 1..(Len(p) + Len(q))
        /\ \A k \in DOMAIN both : both[k] = IF k <= Len(p) THEN p[k] ELSE q[k - Len(p)]
    BY <1>1
  <2> HIDE DEF both
  <2>2. PICK k \in DOMAIN both : both[k] = s[i]
    <3>1. CASE s[i] \in ToSet(p)
      <4>1. PICK l \in 1..Len(p) : p[l] = s[i]
        BY <1>1, <3>1 DEF ToSet
      <4>2. l \in DOMAIN both /\ both[l] = s[i]
        BY <1>1, <2>1, <4>1
      <4> QED
        BY <4>2
    <3>2. CASE s[i] \in ToSet(q)
      <4>1. PICK l \in 1..Len(q) : q[l] = s[i]
        BY <1>1, <3>2 DEF ToSet
      <4>2. Len(p) + l \in 1..(Len(p) + Len(q)) /\ ~ (Len(p) + l <= Len(p)) /\ (Len(p) + l) - Len(p) = l
        BY <1>1, <4>1
      <4>3. Len(p) + l \in DOMAIN both /\ both[Len(p) + l] = s[i]
        BY <2>1, <4>1, <4>2
      <4> QED
        BY <4>3
    <3> QED
      BY <1>5, <3>1, <3>2
  <2>3. ASSUME NEW l \in DOMAIN both, both[l] = s[i] PROVE l = k
    <3>1. \A x \in 1..Len(p), y \in 1..Len(q) : p[x] # q[y]
      BY <1>1 DEF ToSet
    <3>2. k \in Nat /\ l \in Nat
      BY <1>1, <2>1
    <3>3. CASE k <= Len(p) /\ l <= Len(p)
      BY <1>1, <1>2, <2>1, <2>2, <2>3, <3>3
    <3>4. CASE ~ (k <= Len(p)) /\ ~ (l <= Len(p))
      <4>1. k - Len(p) \in 1..Len(q) /\ l - Len(p) \in 1..Len(q)
        BY <1>1, <2>1, <3>2, <3>4
      <4>2. k - Len(p) = l - Len(p)
        BY SMTT(60), <1>2, <2>1, <2>2, <2>3, <3>4, <4>1
      <4> QED
        BY <1>1, <3>2, <4>2
    <3>5. CASE k <= Len(p) /\ ~ (l <= Len(p))
      <4>1. k \in 1..Len(p) /\ l - Len(p) \in 1..Len(q)
        BY <1>1, <2>1, <3>2, <3>5
      <4> QED
        BY <2>1, <2>2, <2>3, <3>1, <3>5, <4>1
    <3>6. CASE ~ (k <= Len(p)) /\ l <= Len(p)
      <4>1. l \in 1..Len(p) /\ k - Len(p) \in 1..Len(q)
        BY <1>1, <2>1, <3>2, <3>6
      <4> QED
        BY <2>1, <2>2, <2>3, <3>1, <3>6, <4>1
    <3> QED
      BY <3>3, <3>4, <3>5, <3>6
  <2>4. {l \in DOMAIN both : both[l] = s[i]} = {k}
    BY <2>2, <2>3
  <2> QED
    BY <2>4, FS_Singleton DEF both
<1> QED
  BY <1>7, <1>8, <1>9 DEF OnceEach

\* What the invariant says of a row.
Partitioned(row, classes) ==
  LET members == ClassFact(classes, row.python_symbol).members
      Position(m) == {i \in DOMAIN members : memberCounterpart(row, members[i]) = m}
      InOrder(list) ==
        \A i, j \in DOMAIN list : i < j =>
           \A x \in Position(list[i]), y \in Position(list[j]) : x < y
  IN /\ \A i \in DOMAIN members :
           /\ Position(memberCounterpart(row, members[i])) = {i}
           /\ Cardinality({k \in DOMAIN (row.implemented \o row.omitted) :
                 (row.implemented \o row.omitted)[k]
                    = memberCounterpart(row, members[i])}) = 1
     /\ Len(row.implemented) + Len(row.omitted) = Len(members)
     /\ InOrder(row.implemented) /\ InOrder(row.omitted)

LEMMA AcceptedIsPartitioned ==
  ASSUME NEW a, Arrays(a), validateMapping(a.rows, a.api, a.classes, a.evidence, FALSE)
                             \/ validateMapping(a.rows, a.api, a.classes, a.evidence, TRUE),
         NEW row \in ToSet(a.rows), row.status = "partial"
  PROVE  Partitioned(row, a.classes)
<1> DEFINE fact == ClassFact(a.classes, row.python_symbol)
           s == [i \in DOMAIN fact.members |-> memberCounterpart(row, fact.members[i])]
           p == row.implemented
           q == row.omitted
<1>1. validatePartialClass(row, a.classes)
  <2>1. PICK i \in DOMAIN a.rows : row = a.rows[i]
    BY DEF ToSet
  <2> QED
    BY <2>1, Zenon DEF validateMapping
<1>2. fact.members \in Seq(ToSet(fact.members))
  <2>1. row.python_symbol \in ClassNames(a.classes)
    BY <1>1 DEF validatePartialClass
  <2>2. \E c \in DOMAIN a.classes : row.python_symbol \in ToSet(a.classes[c].public_names)
    BY <2>1 DEF ClassNames
  <2>3. \E c \in DOMAIN a.classes : fact = a.classes[c]
    BY <2>2 DEF ClassFact
  <2> QED
    BY <2>3 DEF Arrays
<1>3. p \in Seq(ToSet(p)) /\ q \in Seq(ToSet(q))
  BY DEF Arrays
<1>4. /\ Unique(p) /\ Unique(q)
      /\ p = Filtered(s, ToSet(p)) /\ q = Filtered(s, ToSet(q))
      /\ ToSet(p) \subseteq ToSet(s) \ ToSet(q) /\ ToSet(q) \subseteq ToSet(s)
      /\ Len(p) + Len(q) = Cardinality(ToSet(s))
  BY <1>1, Zenon DEF validatePartialClass
<1>5. /\ DOMAIN s = DOMAIN fact.members /\ Len(s) = Len(fact.members) /\ s \in Seq(ToSet(s))
      /\ \A i \in DOMAIN s : s[i] = memberCounterpart(row, fact.members[i])
  <2> DEFINE n == Len(fact.members)
  <2>1. n \in Nat /\ DOMAIN fact.members = 1..n
    BY <1>2
  <2>2. /\ DOMAIN s = DOMAIN fact.members /\ s = [i \in DOMAIN s |-> s[i]]
        /\ \A i \in DOMAIN s : s[i] = memberCounterpart(row, fact.members[i])
    OBVIOUS
  <2> HIDE DEF s, n
  <2>3. s \in [1..n -> ToSet(s)]
    BY <2>1, <2>2 DEF ToSet
  <2>4. s \in Seq(ToSet(s)) /\ Len(s) = n
    BY <2>1, <2>3
  <2> QED
    BY <2>2, <2>4 DEF n
<1> HIDE DEF s, p, q, fact
<1>6. /\ \A i, j \in DOMAIN s : s[i] = s[j] => i = j
      /\ Len(p) + Len(q) = Len(s)
      /\ OnceEach(s, p, q)
  <2>1. Reviewed(s, p, q)
    BY <1>3, <1>4, <1>5 DEF Reviewed
  <2> QED
    BY <2>1, ListsPartition
<1>7. /\ \A i, j \in DOMAIN p : i < j =>
           \A x, y \in DOMAIN s : s[x] = p[i] /\ s[y] = p[j] => x < y
      /\ \A i, j \in DOMAIN q : i < j =>
           \A x, y \in DOMAIN s : s[x] = q[i] /\ s[y] = q[j] => x < y
  BY <1>3, <1>4, <1>5, FilteredInOrder
<1>8. \A i \in DOMAIN fact.members :
        /\ {j \in DOMAIN fact.members :
              memberCounterpart(row, fact.members[j]) = memberCounterpart(row, fact.members[i])} = {i}
        /\ Cardinality({k \in DOMAIN (p \o q) :
              (p \o q)[k] = memberCounterpart(row, fact.members[i])}) = 1
  BY <1>5, <1>6 DEF OnceEach
<1>9. /\ \A i, j \in DOMAIN p : i < j =>
           \A x \in {l \in DOMAIN fact.members : memberCounterpart(row, fact.members[l]) = p[i]},
              y \in {l \in DOMAIN fact.members : memberCounterpart(row, fact.members[l]) = p[j]} : x < y
      /\ \A i, j \in DOMAIN q : i < j =>
           \A x \in {l \in DOMAIN fact.members : memberCounterpart(row, fact.members[l]) = q[i]},
              y \in {l \in DOMAIN fact.members : memberCounterpart(row, fact.members[l]) = q[j]} : x < y
  BY <1>5, <1>7
<1> QED
  BY <1>5, <1>6, <1>8, <1>9, Zenon DEF Partitioned, fact, p, q

\* The members of an accepted partial class are each implemented or omitted, once and in
\* the order of the pinned class, for any inventory and any mapping in the repository:
\* the sizes, the memberships and the orders validatePartialClass compares are enough.
THEOREM PartialClassesArePartitioned == Spec => []PartialMembersPartitioned
<1>1. Shape /\ Validates => PartialMembersPartitioned
  <2> SUFFICES ASSUME Shape, Validates, pc = "idle", exit = "ok",
                      NEW row \in ToSet(Validated.rows), row.status = "partial"
               PROVE  Partitioned(row, Validated.classes)
    BY Zenon DEF PartialMembersPartitioned, Partitioned
  <2>1. Arrays(Validated)
    BY ValidatedIsArrays
  <2>2. Accepted(Validated, FALSE) \/ Accepted(Validated, TRUE)
    <3>1. command.release \in BOOLEAN
      BY DEF Shape, Common, Commands
    <3>2. CASE IsParity
      BY <3>2, Zenon DEF Validates, Validated
    <3>3. CASE ~ IsParity
      <4>1. Accepted(Validated, command.release)
        BY <3>3, Zenon DEF Validates, Validated
      <4> QED
        BY <3>1, <4>1, Zenon
    <3> QED
      BY <3>2, <3>3
  <2> QED
    BY <2>1, <2>2, AcceptedIsPartitioned, Zenon DEF Accepted
<1> QED
  BY InitShape, NextShape, InitValidates, NextValidates, <1>1, PTL DEF Spec
===============================================================================
