------------------------------ MODULE ApiMapping ------------------------------
(***************************************************************************)
(* The authorities of the API parity and their validators in               *)
(* scripts/generate-api-parity.mjs and scripts/evidence-path.mjs: the      *)
(* inventory of the Python package's public symbols and classes, the rows  *)
(* that map each of them to a TypeScript export, and the rows of exports   *)
(* that Python does not have.                                              *)
(*                                                                         *)
(* An authority is a record of what the validators tell apart in it; a     *)
(* field that the file leaves out is "none".  Unknown and missing fields   *)
(* of the JSON, the lengths of texts and the codes of errors are left out: *)
(* every rejection ends the command in the same way.                       *)
(***************************************************************************)
EXTENDS Integers, Sequences, FiniteSets, SequencesExt

CONSTANTS CamelNames,        \* the names camelCase changes, and to what
          NotIdentifiers,    \* the names of the instance IDENTIFIER refuses
          ClientClass,       \* IdmModbusClient, whose constructor is pinned
          ClientParameters,  \* the parameters the reviewed contract gives it
          RootCount,         \* EXPECTED_ROOT_COUNT, 59 in the code
          WebCount,          \* EXPECTED_WEB_COUNT, 30 in the code
          AliasCount         \* the aliases the inventory must keep, 7 in the code

ASSUME MappingAssumption ==
  /\ \A n \in DOMAIN CamelNames : CamelNames[n] \notin DOMAIN CamelNames
  /\ {RootCount, WebCount, AliasCount} \subseteq Nat
  /\ ClientParameters \in Seq(STRING)

SymbolCount == RootCount + WebCount

camelCase(n) == IF n \in DOMAIN CamelNames THEN CamelNames[n] ELSE n

\* A camel-case identifier has no underscore.
CamelIdentifier(n) == n \notin NotIdentifiers \cup DOMAIN CamelNames

Unique(s) == IsInjective(s)

-----------------------------------------------------------------------------
(* Evidence: the node that each segment of a path leads to, from test/ on. *)

isEvidenceTestPath(path) == path # "unsafe"

ValidEvidence(evidence, path) ==
  LET nodes == evidence[path]
  IN /\ isEvidenceTestPath(path)
     /\ \A i \in 1..(Len(nodes) - 1) : nodes[i] = "directory"
     /\ Last(nodes) = "file"

-----------------------------------------------------------------------------
(* The manifest and the inventory of public symbols and classes.           *)

Statuses == {"planned", "partial", "complete", "not_applicable"}

\* The generator accepts any well-formed baseline, and the same one everywhere.
validateManifest(manifest) ==
  /\ manifest.identity # "malformed" /\ manifest.verified_on # "malformed"
  /\ manifest.parity_status \in Statuses \ {"not_applicable"}

validateBaseline(baseline, manifest) == baseline = manifest.identity

NamesOf(symbols) == {symbols[i].name : i \in DOMAIN symbols}

AtBoundary(symbols, b) == {i \in DOMAIN symbols : symbols[i].export_boundary = b}

validatePublicApi(api) ==
  /\ Unique([i \in DOMAIN api.symbols |-> api.symbols[i].name])
  /\ \A i \in DOMAIN api.symbols :
        /\ api.symbols[i].python_kind \in {"class", "constant", "function"}
        /\ api.symbols[i].export_boundary \in {".", "./web"}
        /\ (api.symbols[i].source_group = "web")
              = (api.symbols[i].export_boundary = "./web")
  /\ Cardinality(AtBoundary(api.symbols, ".")) = RootCount
  /\ Cardinality(AtBoundary(api.symbols, "./web")) = WebCount
  /\ Unique([i \in DOMAIN api.aliases |-> api.aliases[i].name])
  /\ \A i \in DOMAIN api.aliases :
        {api.aliases[i].name, api.aliases[i].target} \subseteq NamesOf(api.symbols)
  /\ Len(api.aliases) = AliasCount

AliasNames(api) == {api.aliases[i].name : i \in DOMAIN api.aliases}

AliasTarget(api, name) ==
  api.aliases[CHOOSE i \in DOMAIN api.aliases : api.aliases[i].name = name].target

\* A class has public names of its own, and leaks no decision of the mapping.
validatePublicClasses(classes) ==
  /\ \A c \in DOMAIN classes : classes[c].boundaries > 0 /\ ~classes[c].leaks
  /\ Unique(FlattenSeq([c \in DOMAIN classes |-> classes[c].public_names]))

ClassNames(classes) == UNION {ToSet(classes[c].public_names) : c \in DOMAIN classes}

ClassFact(classes, name) ==
  classes[CHOOSE c \in DOMAIN classes : name \in ToSet(classes[c].public_names)]

-----------------------------------------------------------------------------
(* One row of the mapping.                                                 *)

memberCounterpart(row, name) ==
  IF name \in DOMAIN row.member_overrides THEN row.member_overrides[name]
  ELSE IF row.member_naming = "snake_case_to_camelCase" THEN camelCase(name)
  ELSE name

PythonNames(fact) == ToSet(fact.parameters) \cup ToSet(fact.members)

validateRepresentation(row, classes) ==
  /\ row.validation = (CASE row.kind = "class"    -> "python_fixture"
                         [] row.kind = "constant" -> "constant_fixture"
                         [] OTHER                 -> "function_fixture")
  /\ row.kind # "class" => row.python_class = "none" /\ row.member_naming = "none"
  /\ row.kind = "class" =>
        /\ row.python_symbol \in ClassNames(classes)
        /\ LET fact == ClassFact(classes, row.python_symbol)
           IN /\ row.python_class = fact.python_name
              /\ row.member_naming \in {"preserve", "snake_case_to_camelCase"}
              /\ DOMAIN row.member_overrides \subseteq PythonNames(fact)
              /\ \A n \in PythonNames(fact) :
                    /\ CamelIdentifier(memberCounterpart(row, n))
                    /\ \/ memberCounterpart(row, n) = n
                       \/ "snake_case_to_camelCase" \in row.normalizations

\* filter: the elements of the list that are in the set, in their order.
Filtered(list, set) ==
  LET kept == {i \in DOMAIN list : list[i] \in set}
      place(i) == Cardinality({j \in kept : j <= i})
  IN [k \in 1..Cardinality(kept) |-> list[CHOOSE i \in kept : place(i) = k]]

\* A slip: sizes and membership are compared, but not the two lists with each other.
validatePartialClassOverlapping(row, classes) ==
  IF row.status # "partial" THEN ~row.has_partial_class
  ELSE /\ row.kind = "class" /\ row.python_symbol \in ClassNames(classes)
       /\ row.has_partial_class
       /\ LET fact == ClassFact(classes, row.python_symbol)
              expected == [i \in DOMAIN fact.members |->
                             memberCounterpart(row, fact.members[i])]
              Of(list) == Filtered(expected, ToSet(list))
          IN /\ ToSet(row.implemented) \cup ToSet(row.omitted) = ToSet(expected)
             /\ row.implemented = Of(row.implemented)
             /\ row.omitted = Of(row.omitted)

validatePartialClass(row, classes) ==
  IF row.status # "partial" THEN ~row.has_partial_class
  ELSE /\ row.kind = "class" /\ row.python_symbol \in ClassNames(classes)
       /\ row.has_partial_class
       /\ Unique(row.implemented) /\ Unique(row.omitted)
       /\ LET fact == ClassFact(classes, row.python_symbol)
              expected == [i \in DOMAIN fact.members |->
                             memberCounterpart(row, fact.members[i])]
              Of(list) == Filtered(expected, ToSet(list))
          IN /\ ToSet(row.implemented) \subseteq ToSet(expected) \ ToSet(row.omitted)
             /\ ToSet(row.omitted) \subseteq ToSet(expected)
             /\ Len(row.implemented) + Len(row.omitted) = Cardinality(ToSet(expected))
             /\ row.implemented = Of(row.implemented)
             /\ row.omitted = Of(row.omitted)

RowStatus(row, evidence, release) ==
  /\ row.status \in Statuses
  /\ row.rationale = (IF row.status = "not_applicable" THEN "reviewed" ELSE "none")
  /\ release => row.status \notin {"planned", "partial"}
  /\ isEvidenceTestPath(row.contract_test)
  /\ row.status = "complete" => ValidEvidence(evidence, row.contract_test)

RowOwner(row, symbol) ==
  /\ row.export_path = symbol.export_boundary
  /\ row.kind = symbol.python_kind
  /\ row.owner_phase \in 1..4
  /\ IF symbol.source_group = "web" THEN row.owner_phase = 4 /\ row.export_path = "./web"
                                    ELSE row.owner_phase # 4 /\ row.export_path = "."

FunctionName(row) ==
  row.kind = "function" /\ row.python_symbol # row.typescript_symbol =>
     /\ row.typescript_symbol = camelCase(row.python_symbol)
     /\ "snake_case_to_camelCase" \in row.normalizations

RowAlias(row, api) ==
  IF row.python_symbol \in AliasNames(api)
  THEN /\ row.form = "alias"
       /\ row.alias_of = AliasTarget(api, row.python_symbol)
       /\ "python_alias_to_typescript_alias" \in row.normalizations
  ELSE row.form # "alias" /\ row.alias_of = "none"

-----------------------------------------------------------------------------
(* The whole mapping and the extensions.                                   *)

Exports(rows) ==
  [i \in DOMAIN rows |-> <<rows[i].export_path, rows[i].typescript_symbol>>]

MappedNames(rows) == [i \in DOMAIN rows |-> rows[i].python_symbol]

CoversInventory(rows, api, classes) ==
  /\ Len(rows) = SymbolCount
  /\ MappedNames(rows) = [i \in DOMAIN api.symbols |-> api.symbols[i].name]
  /\ \A name \in ClassNames(classes) :
        \E i \in DOMAIN rows : rows[i].python_symbol = name /\ rows[i].kind = "class"

validateMapping(rows, api, classes, evidence, release) ==
  /\ \A i \in DOMAIN rows :
        /\ rows[i].python_symbol \in NamesOf(api.symbols)
        /\ rows[i].typescript_symbol \notin NotIdentifiers
        /\ \E s \in DOMAIN api.symbols :
              /\ api.symbols[s].name = rows[i].python_symbol
              /\ RowOwner(rows[i], api.symbols[s])
        /\ RowStatus(rows[i], evidence, release)
        /\ FunctionName(rows[i])
        /\ validateRepresentation(rows[i], classes)
        /\ validatePartialClass(rows[i], classes)
        /\ RowAlias(rows[i], api)
  /\ Unique(MappedNames(rows)) /\ Unique(Exports(rows))
  /\ CoversInventory(rows, api, classes)

\* A slip: an extension is compared with the Python names instead of the exports.
validateExtensionsByName(extensions, rows, evidence, release) ==
  /\ \A i \in DOMAIN extensions :
        /\ extensions[i].typescript_symbol \notin NotIdentifiers
        /\ extensions[i].export_path \in {".", "./web"}
        /\ extensions[i].status \in {"planned", "complete"}
        /\ extensions[i].rationale = "reviewed"
        /\ isEvidenceTestPath(extensions[i].contract_test)
        /\ \A r \in DOMAIN rows :
              rows[r].python_symbol # extensions[i].typescript_symbol
        /\ release => extensions[i].status = "complete"
        /\ extensions[i].status = "complete" =>
              ValidEvidence(evidence, extensions[i].contract_test)
  /\ Unique(Exports(extensions))

validateExtensions(extensions, rows, evidence, release) ==
  /\ \A i \in DOMAIN extensions :
        /\ extensions[i].typescript_symbol \notin NotIdentifiers
        /\ extensions[i].export_path \in {".", "./web"}
        /\ extensions[i].status \in {"planned", "complete"}
        /\ extensions[i].rationale = "reviewed"
        /\ isEvidenceTestPath(extensions[i].contract_test)
        /\ Exports(extensions)[i] \notin ToSet(Exports(rows))
        /\ release => extensions[i].status = "complete"
        /\ extensions[i].status = "complete" =>
              ValidEvidence(evidence, extensions[i].contract_test)
  /\ Unique(Exports(extensions))

validateRuntimeNormalization(normalization, classes) ==
  /\ normalization = "reviewed"
  /\ ClientClass \in ClassNames(classes)
  /\ ClassFact(classes, ClientClass).parameters = ClientParameters

\* What main validates before it renders a document.
Accepted(a, release) ==
  /\ validateManifest(a.manifest)
  /\ \A file \in DOMAIN a.baselines : validateBaseline(a.baselines[file], a.manifest)
  /\ validatePublicApi(a.api)
  /\ validatePublicClasses(a.classes)
  /\ validateMapping(a.rows, a.api, a.classes, a.evidence, release)
  /\ validateExtensions(a.extensions, a.rows, a.evidence, release)
  /\ validateRuntimeNormalization(a.normalization, a.classes)
  /\ release => a.manifest.parity_status = "complete"
=============================================================================
