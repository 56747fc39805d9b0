----------------------------- MODULE ParityTooling -----------------------------
(***************************************************************************)
(* The two commands that keep the generated artifacts of the repository:   *)
(* scripts/check-parity.mjs (generate and check, which prove the upstream  *)
(* checkout, generate everything in a directory of their own and compare   *)
(* or replace) and scripts/generate-api-parity.mjs (which renders the two  *)
(* documents from the authorities and the fixtures in the repository).     *)
(*                                                                         *)
(* One command runs at a time.  Every operation on files may fail, and a   *)
(* command may be killed between any two of them; the next command then    *)
(* finds what is left.  The bytes of an artifact are one of: "new", what   *)
(* the pinned upstream generates; "old", what another version generated;   *)
(* "empty", a file that is not a bounded regular one; "absent".            *)
(***************************************************************************)
EXTENDS ApiMapping

CONSTANTS Fixtures,      \* the fixtures of GENERATED_PATHS, in order
          Documents,     \* API-PARITY.md and BASELINE.md
          PinnedApi, PinnedClasses, \* the inventory of the pinned upstream
          WorkTrees,     \* authorities and artifacts the commands may find
          MaxCommands,   \* bound: commands run in one behaviour
          MaxFaults,     \* bound: failing file operations in one command
          MaxKills       \* bound: commands killed in one behaviour

Artifacts == Fixtures \o Documents
Paths == ToSet(Artifacts)

Contents == {"new", "old", "empty", "absent"}

ASSUME ToolingAssumption ==
  /\ Fixtures \in Seq(ToSet(Fixtures)) /\ Documents \in Seq(ToSet(Documents))
  /\ IsInjective(Artifacts) /\ Fixtures # <<>> /\ Documents # <<>>
  /\ {MaxCommands, MaxFaults, MaxKills} \subseteq Nat

\* What is an array in the authorities.
Arrays(a) ==
  /\ {"rows", "extensions", "api", "classes"} \subseteq DOMAIN a
  /\ a.rows \in Seq(ToSet(a.rows)) /\ a.extensions \in Seq(ToSet(a.extensions))
  /\ \A row \in ToSet(a.rows) :
        row.implemented \in Seq(ToSet(row.implemented)) /\ row.omitted \in Seq(ToSet(row.omitted))
  /\ \A c \in DOMAIN a.classes : a.classes[c].members \in Seq(ToSet(a.classes[c].members))

ASSUME WorkTreesAssumption ==
  /\ \A tree \in WorkTrees : tree.files \in [Paths -> Contents] /\ Arrays(tree.authorities)
  /\ \A c \in DOMAIN PinnedClasses :
        PinnedClasses[c].members \in Seq(ToSet(PinnedClasses[c].members))

VARIABLES
  authorities, \* the authorities in the repository
  files,       \* the artifacts in the repository
  command,     \* the command that runs, or ran last
  pc,          \* where it is, or "idle"
  exit,        \* how it ended, "none" while nothing has failed
  owned,       \* its temporary directory exists
  stage,       \* what was generated there: "nothing", "exact" or "inexact"
  transaction, \* its transaction directory in the repository exists
  written,     \* new bytes written and not yet in place: staged or temporary files
  saved,       \* the previous bytes it keeps: backups, or snapshots in memory
  replaced,    \* the artifacts in place, in order
  leaked,      \* a temporary file was written that the command does not know
  before,      \* history: the artifacts when the command started
  unrestored,  \* history: the artifacts whose restoring failed or was given up
  faults, kills, runs  \* counters of the bounds

working == <<owned, stage, transaction, written, saved, replaced, leaked>>
counters == <<kills, runs>>
vars == <<authorities, files, command, pc, exit, working, before, unrestored,
          faults, counters>>

Commands ==
  [tool : {"parity"}, mode : {"generate", "check"}, release : {FALSE}]
    \cup [tool : {"api"}, mode : {"generate", "check"}, release : BOOLEAN]

Nothing == [p \in Paths |-> "absent"]

IsParity == command.tool = "parity"

\* What the generator renders the documents from: the fixtures of the repository.
RenderedFrom(tree) ==
  IF \E f \in ToSet(Fixtures) : tree[f] \in {"absent", "empty"} THEN "nothing"
  ELSE IF \A f \in ToSet(Fixtures) : tree[f] = "new" THEN "new" ELSE "old"

\* The authorities with the inventory of the fixtures the generator reads.
WithPinnedInventory(a) ==
  [a EXCEPT !.api = PinnedApi, !.classes = PinnedClasses,
            !.baselines.api = "pinned", !.baselines.classes = "pinned"]

AuthoritiesOf(tree) ==
  IF RenderedFrom(tree) = "new" THEN WithPinnedInventory(authorities) ELSE authorities

Init ==
  \E tree \in WorkTrees :
     /\ authorities = tree.authorities /\ files = tree.files /\ before = tree.files
     /\ command = [tool |-> "api", mode |-> "check", release |-> FALSE]
     /\ pc = "idle" /\ exit = "none"
     /\ owned = FALSE /\ stage = "nothing" /\ transaction = FALSE
     /\ written = {} /\ saved = Nothing /\ replaced = <<>> /\ leaked = FALSE
     /\ unrestored = {} /\ faults = 0 /\ kills = 0 /\ runs = 0

-----------------------------------------------------------------------------
(* How a step ends.                                                        *)

Goto(label) == pc' = label

Succeed == UNCHANGED <<exit, faults>>

\* An operation on files fails.
Fault == faults < MaxFaults /\ faults' = faults + 1 /\ exit' = "failed"

\* The code refuses what it finds, or a child process fails.
Refuse == exit' = "failed" /\ UNCHANGED faults

\* The command's process ends.
Leave == pc' = "idle"

Same(rest) == UNCHANGED <<authorities, command, before, counters, rest>>

-----------------------------------------------------------------------------
(* check-parity.mjs up to the generated artifacts.                         *)

\* check-parity and the verifier accept the one audited baseline only.
readManifest(manifest) ==
  /\ manifest.identity = "pinned" /\ manifest.verified_on = "real"
  /\ manifest.parity_status \in Statuses \ {"not_applicable"}

parseUpstreamParity(manifest) == readManifest(manifest)

Start(c) ==
  /\ pc = "idle" /\ runs < MaxCommands
  /\ runs' = runs + 1 /\ command' = c
  /\ before' = files /\ unrestored' = {} /\ faults' = 0
  /\ stage' = "nothing" /\ transaction' = FALSE /\ written' = {}
  /\ saved' = Nothing /\ replaced' = <<>> /\ leaked' = FALSE
  /\ UNCHANGED <<authorities, files, kills>>
  /\ IF c.tool = "parity"
     THEN IF readManifest(authorities.manifest)
          THEN owned' = TRUE /\ exit' = "none" /\ pc' = "checkout"
          ELSE owned' = FALSE /\ exit' = "failed" /\ pc' = "idle"
     ELSE owned' = FALSE /\ exit' = "none" /\ pc' = "render"

CheckoutFacts == {"worktree", "top level", "origin", "clean", "detached", "head",
                  "tag", "project"}

\* The checkout is cloned, or one is named; the verifier proves every fact of it.
VerifyCheckout ==
  /\ pc = "checkout"
  /\ \E facts \in {CheckoutFacts} \cup {CheckoutFacts \ {f} : f \in CheckoutFacts} :
        IF parseUpstreamParity(authorities.manifest) /\ facts = CheckoutFacts
        THEN Goto("generator") /\ Succeed
        ELSE Goto("cleanup") /\ Refuse
  /\ Same(<<files, working, unrestored>>)

\* Python and its dependency are installed, or not.
ProvisionPython ==
  /\ pc = "generator"
  /\ \/ Goto("generate") /\ Succeed
     \/ Goto("cleanup") /\ Refuse
  /\ Same(<<files, working, unrestored>>)

\* The evidence of complete rows that is staged with the authorities.
EvidenceIsStaged(a) ==
  \A row \in ToSet(a.rows) : row.status = "complete" =>
     ValidEvidence(a.evidence, row.contract_test)

\* Everything is generated; a generator may leave more or less than the allowlist.
GenerateArtifacts ==
  /\ pc = "generate"
  /\ \/ /\ EvidenceIsStaged(authorities)
        /\ Accepted(WithPinnedInventory(authorities), FALSE)
        /\ \E s \in {"exact", "inexact"} : stage' = s
        /\ Goto(IF command.mode = "check" THEN "compare" ELSE "begin") /\ Succeed
     \/ Goto("cleanup") /\ Refuse /\ UNCHANGED stage
  /\ Same(<<files, owned, transaction, written, saved, replaced, leaked, unrestored>>)

CheckArtifacts ==
  /\ pc = "compare"
  /\ Goto("cleanup")
  /\ IF stage = "exact" /\ \A p \in Paths : files[p] = "new" THEN Succeed ELSE Refuse
  /\ Same(<<files, working, unrestored>>)

-----------------------------------------------------------------------------
(* Replacing the artifacts.                                                *)

NextArtifact == Artifacts[Len(replaced) + 1]

\* The directories are made before the try statement: a failure leaves them behind.
BeginTransaction ==
  /\ pc = "begin"
  /\ \/ stage = "inexact" /\ Goto("cleanup") /\ Refuse /\ UNCHANGED transaction
     \/ stage = "exact" /\ Goto("staging") /\ Succeed /\ transaction' = TRUE
     \/ stage = "exact" /\ Goto("cleanup") /\ Fault /\ transaction' \in BOOLEAN
  /\ Same(<<files, owned, stage, written, saved, replaced, leaked, unrestored>>)

StageArtifact ==
  /\ pc = "staging"
  /\ \/ \E i \in DOMAIN Artifacts :
          /\ written = ToSet(SubSeq(Artifacts, 1, i - 1))
          /\ written' = written \cup {Artifacts[i]}
          /\ Goto(IF i = Len(Artifacts) THEN "backup" ELSE "staging") /\ Succeed
     \/ Goto("rollback") /\ Fault /\ UNCHANGED written
  /\ Same(<<files, owned, stage, transaction, saved, replaced, leaked, unrestored>>)

\* A slip: the previous file is removed, not moved.
BackUpRemoving ==
  /\ pc = "backup"
  /\ LET p == NextArtifact
     IN \/ /\ files[p] # "empty"
           /\ files' = [files EXCEPT ![p] = "absent"]
           /\ Goto("install") /\ Succeed /\ UNCHANGED saved
        \/ files[p] = "empty" /\ Goto("rollback") /\ Refuse /\ UNCHANGED <<files, saved>>
        \/ Goto("rollback") /\ Fault /\ UNCHANGED <<files, saved>>
  /\ Same(<<owned, stage, transaction, written, replaced, leaked, unrestored>>)

BackUp ==
  /\ pc = "backup"
  /\ LET p == NextArtifact
     IN \/ /\ files[p] # "empty"
           /\ saved' = [saved EXCEPT ![p] = files[p]]
           /\ files' = [files EXCEPT ![p] = "absent"]
           /\ Goto("install") /\ Succeed
        \/ files[p] = "empty" /\ Goto("rollback") /\ Refuse /\ UNCHANGED <<files, saved>>
        \/ Goto("rollback") /\ Fault /\ UNCHANGED <<files, saved>>
  /\ Same(<<owned, stage, transaction, written, replaced, leaked, unrestored>>)

\* A slip: a failure here goes to the finally clause without a rollback.
InstallUnguarded ==
  /\ pc = "install"
  /\ LET p == NextArtifact
     IN \/ /\ files' = [files EXCEPT ![p] = "new"] /\ written' = written \ {p}
           /\ replaced' = Append(replaced, p)
           /\ Goto(IF p = Last(Artifacts) THEN "discard" ELSE "backup") /\ Succeed
        \/ /\ Goto("discard")
           /\ Fault /\ UNCHANGED <<files, written, replaced>>
  /\ Same(<<owned, stage, transaction, saved, leaked, unrestored>>)

Install ==
  /\ pc = "install"
  /\ LET p == NextArtifact
     IN \/ /\ files' = [files EXCEPT ![p] = "new"] /\ written' = written \ {p}
           /\ replaced' = Append(replaced, p)
           /\ Goto(IF p = Last(Artifacts) THEN "discard" ELSE "backup") /\ Succeed
        \/ /\ Goto(IF saved[p] = "absent" THEN "rollback" ELSE "reinstate")
           /\ Fault /\ UNCHANGED <<files, written, replaced>>
  /\ Same(<<owned, stage, transaction, saved, leaked, unrestored>>)

\* The first failure while artifacts are restored ends the restoring.
GiveUp == Fault /\ unrestored' = unrestored \cup ToSet(replaced)

\* The artifact that could not be put in place gets its previous bytes back.
Reinstate ==
  /\ pc = "reinstate" /\ Goto("rollback")
  /\ \/ /\ files' = [files EXCEPT ![NextArtifact] = saved[NextArtifact]]
        /\ saved' = [saved EXCEPT ![NextArtifact] = "absent"]
        /\ Succeed /\ UNCHANGED unrestored
     \/ Fault /\ unrestored' = unrestored \cup {NextArtifact} /\ UNCHANGED <<files, saved>>
  /\ Same(<<owned, stage, transaction, written, replaced, leaked>>)

Rollback ==
  /\ pc = "rollback"
  /\ \/ /\ replaced = <<>> /\ Goto("discard") /\ Succeed /\ UNCHANGED <<files, unrestored>>
     \/ /\ replaced # <<>> /\ Goto("put back") /\ Succeed
        /\ files' = [files EXCEPT ![Last(replaced)] = "absent"] /\ UNCHANGED unrestored
     \/ replaced # <<>> /\ Goto("discard") /\ GiveUp /\ UNCHANGED files
  /\ Same(working)

PutBack ==
  /\ pc = "put back"
  /\ LET p == Last(replaced)
     IN \/ /\ files' = [files EXCEPT ![p] = saved[p]]
           /\ saved' = [saved EXCEPT ![p] = "absent"]
           /\ replaced' = Front(replaced) /\ Goto("rollback")
           /\ Succeed /\ UNCHANGED unrestored
        \/ /\ saved[p] # "absent" /\ Goto("discard") /\ GiveUp
           /\ UNCHANGED <<files, saved, replaced>>
  /\ Same(<<owned, stage, transaction, written, leaked>>)

\* The finally clause: the transaction and the backups in it are removed.
Discard ==
  /\ pc = "discard" /\ Goto("cleanup")
  /\ \/ /\ transaction' = FALSE /\ written' = {} /\ saved' = Nothing /\ Succeed
     \/ Fault /\ UNCHANGED <<transaction, written, saved>>
  /\ Same(<<files, owned, stage, replaced, leaked, unrestored>>)

\* A slip: what was generated is cleaned up only after a success.
CleanupOnSuccess ==
  /\ pc = "cleanup" /\ Leave
  /\ \/ exit = "none" /\ owned' = FALSE /\ exit' = "ok" /\ UNCHANGED faults
     \/ exit # "none" /\ UNCHANGED <<owned, exit, faults>>
  /\ Same(<<files, stage, transaction, written, saved, replaced, leaked, unrestored>>)

CleanupOwnedRoot ==
  /\ pc = "cleanup" /\ Leave
  /\ \/ /\ owned' = FALSE /\ exit' = (IF exit = "none" THEN "ok" ELSE exit)
        /\ UNCHANGED faults
     \/ Fault /\ UNCHANGED owned
  /\ Same(<<files, stage, transaction, written, saved, replaced, leaked, unrestored>>)

-----------------------------------------------------------------------------
(* generate-api-parity.mjs.                                                *)

\* What is rendered from fixtures that are read before anything is written.
Rendered == RenderedFrom(before)

Render ==
  /\ pc = "render"
  /\ LET valid == Rendered # "nothing" /\ Accepted(AuthoritiesOf(before), command.release)
     IN \/ ~valid /\ Leave /\ Refuse
        \/ /\ valid /\ command.mode = "check" /\ Leave /\ UNCHANGED faults
           /\ exit' = IF \A d \in ToSet(Documents) : files[d] = Rendered
                      THEN "ok" ELSE "failed"
        \/ valid /\ command.mode = "generate" /\ Goto("temporary") /\ Succeed
  /\ Same(<<files, working, unrestored>>)

\* A failing write may leave its file, which is not listed yet, behind.
WriteTemporary ==
  /\ pc = "temporary"
  /\ \/ \E i \in DOMAIN Documents :
          /\ written = ToSet(SubSeq(Documents, 1, i - 1))
          /\ written' = written \cup {Documents[i]}
          /\ saved' = [saved EXCEPT ![Documents[i]] = files[Documents[i]]]
          /\ Goto(IF i = Len(Documents) THEN "rename" ELSE "temporary")
          /\ Succeed /\ UNCHANGED leaked
     \/ Goto("restore") /\ Fault /\ leaked' \in BOOLEAN /\ UNCHANGED <<written, saved>>
  /\ Same(<<files, owned, stage, transaction, replaced, unrestored>>)

RenameTemporary ==
  /\ pc = "rename"
  /\ LET d == Documents[Len(replaced) + 1]
     IN \/ /\ files' = [files EXCEPT ![d] = Rendered] /\ written' = written \ {d}
           /\ replaced' = Append(replaced, d)
           /\ Goto(IF d = Last(Documents) THEN "sweep" ELSE "rename") /\ Succeed
        \/ Goto("restore") /\ Fault /\ UNCHANGED <<files, written, replaced>>
  /\ Same(<<owned, stage, transaction, saved, leaked, unrestored>>)

RestoreSnapshot ==
  /\ pc = "restore"
  /\ \/ /\ replaced = <<>> /\ Goto("sweep") /\ Succeed
        /\ UNCHANGED <<files, replaced, leaked, unrestored>>
     \/ /\ replaced # <<>> /\ Goto("restore") /\ Succeed
        /\ files' = [files EXCEPT ![Last(replaced)] = saved[Last(replaced)]]
        /\ replaced' = Front(replaced) /\ UNCHANGED <<leaked, unrestored>>
     \/ /\ replaced # <<>> /\ Goto("sweep") /\ GiveUp
        /\ leaked' \in {leaked, TRUE} /\ UNCHANGED <<files, replaced>>
  /\ Same(<<owned, stage, transaction, written, saved>>)

\* The finally clause: the listed temporary files are removed.
Sweep ==
  /\ pc = "sweep" /\ Leave
  /\ \/ /\ written' = {} /\ exit' = (IF exit = "none" THEN "ok" ELSE exit)
        /\ UNCHANGED faults
     \/ written # {} /\ Fault /\ UNCHANGED written
  /\ Same(<<files, owned, stage, transaction, saved, replaced, leaked, unrestored>>)

-----------------------------------------------------------------------------

\* The process is killed; its memory is gone, its files stay.
Kill ==
  /\ pc # "idle" /\ kills < MaxKills
  /\ kills' = kills + 1 /\ pc' = "idle" /\ exit' = "killed"
  /\ UNCHANGED <<authorities, files, command, working, before, unrestored, faults, runs>>

ParityStep ==
  \/ VerifyCheckout \/ ProvisionPython \/ GenerateArtifacts \/ CheckArtifacts
  \/ BeginTransaction \/ StageArtifact \/ BackUp \/ Install \/ Reinstate
  \/ Rollback \/ PutBack \/ Discard \/ CleanupOwnedRoot

ApiStep == Render \/ WriteTemporary \/ RenameTemporary \/ RestoreSnapshot \/ Sweep

Next == (\E c \in Commands : Start(c)) \/ ParityStep \/ ApiStep \/ Kill

Spec == Init /\ [][Next]_vars

-----------------------------------------------------------------------------
(* Properties.                                                             *)

\* The shape of the state.
TypeOK ==
  /\ files \in [Paths -> Contents] /\ before \in [Paths -> Contents]
  /\ saved \in [Paths -> Contents]
  /\ command \in Commands
  /\ exit \in {"none", "ok", "failed", "killed"}
  /\ stage \in {"nothing", "exact", "inexact"}
  /\ written \subseteq Paths /\ ToSet(replaced) \subseteq Paths
  /\ unrestored \subseteq Paths
  /\ {owned, transaction, leaked} \subseteq BOOLEAN

\* What a command that generates puts in the place of each artifact it owns.
AllReplaced ==
  IF IsParity THEN [p \in Paths |-> "new"]
  ELSE [p \in Paths |-> IF p \in ToSet(Documents) THEN Rendered ELSE before[p]]

\* A command that ends by itself and succeeds leaves, or has found, exactly the artifacts
\* that the authorities and the pinned upstream give.  One that fails leaves the artifacts
\* as they were, or all of them replaced if only the cleaning up failed; where the restoring
\* itself fails, this is true of the artifacts restored before it did and of those never
\* touched.  replaceArtifacts, checkArtifacts, replaceDocuments, checkDocuments and the
\* exit codes.
AllOrNothing ==
  pc = "idle" =>
     /\ exit = "ok" => files = AllReplaced
     /\ exit = "failed" =>
          \/ \A p \in Paths \ unrestored : files[p] = before[p]
          \/ command.mode = "generate" /\ files = AllReplaced

\* Wherever check-parity stops, killed or not, the previous bytes of every artifact are in
\* the repository or in its transaction directory, until every artifact is in place; with
\* one loss, which is the code's: if a rename that restores an artifact fails, the finally
\* clause removes the transaction directory, and with it the only copy of the artifacts
\* that are not restored yet (check-parity.mjs:693, 708, 712-714).  generate-api-parity has
\* the previous documents in memory only: a kill between its renames, or a failed restoring,
\* leaves documents of two versions, each of them whole (generate-api-parity.mjs:1277-1286).
KeptUntilReplaced ==
  \A p \in Paths :
     \/ files[p] = before[p]
     \/ before[p] = "absent"
     \/ IsParity /\ transaction /\ saved[p] = before[p]
     \/ IsParity /\ files = AllReplaced
     \/ IsParity /\ ~transaction /\ p \in unrestored
     \/ ~IsParity /\ files[p] = Rendered

\* Temporary directories and files outlive a command only if it was killed or an
\* operation on files failed: a refusal of any kind cleans up.  The finally clauses.
NoLeftovers ==
  pc = "idle" /\ exit \in {"ok", "failed"} /\ faults = 0 =>
     ~owned /\ ~transaction /\ written = {} /\ ~leaked

\* What the command has validated.
Validated == IF IsParity THEN WithPinnedInventory(authorities) ELSE AuthoritiesOf(before)

Exported(a) == Exports(a.rows) \o Exports(a.extensions)

\* A release that is accepted exports nothing twice at a boundary, covers every public
\* Python symbol by a row that is complete or has a reviewed rationale, and every complete
\* row or extension has its evidence (the release rule of API-PARITY.md).
ReleaseIsCovered ==
  pc = "idle" /\ exit = "ok" /\ command.release =>
     LET a == Validated
     IN /\ Unique(Exported(a))
        /\ \A name \in NamesOf(a.api.symbols) : \E row \in ToSet(a.rows) :
              /\ row.python_symbol = name
              /\ \/ row.status = "complete"
                 \/ row.status = "not_applicable" /\ row.rationale = "reviewed"
        /\ \A row \in ToSet(a.rows) \cup ToSet(a.extensions) :
              row.status = "complete" => Last(a.evidence[row.contract_test]) = "file"
        /\ a.manifest.parity_status = "complete"

\* The members of an accepted partial class are each implemented or omitted, never both
\* and never twice, in the order of the pinned class, under names that tell them apart
\* (the partial class lifecycle of API-PARITY.md; validatePartialClass).
PartialMembersPartitioned ==
  pc = "idle" /\ exit = "ok" =>
     \A row \in ToSet(Validated.rows) : row.status = "partial" =>
        LET members == ClassFact(Validated.classes, row.python_symbol).members
            Position(m) == {i \in DOMAIN members : memberCounterpart(row, members[i]) = m}
            InOrder(list) ==
              \A i, j \in DOMAIN list : i < j =>
                 \A x \in Position(list[i]), y \in Position(list[j]) : x < y
        IN /\ \A i \in DOMAIN members :
                 /\ Position(memberCounterpart(row, members[i])) = {i}
                 /\ Cardinality({k \in DOMAIN (row.implemented \o row.omitted) :
                       (row.implemented \o row.omitted)[k]
                          = memberCounterpart(row, members[i])}) = 1
           /\ Len(row.implemented) + Len(row.omitted) = Len(members)
           /\ InOrder(row.implemented) /\ InOrder(row.omitted)
=============================================================================
