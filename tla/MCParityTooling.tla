---------------------------- MODULE MCParityTooling ----------------------------
(***************************************************************************)
(* A package of four public symbols (a class, a function, a web class and  *)
(* its alias) with a complete mapping, every artifact in each state, and   *)
(* authorities with one edit that an author could make, or with a second   *)
(* one after an edit that only a release refuses.                          *)
(***************************************************************************)
EXTENDS ParityTooling

MCCamelNames == [read_value |-> "readValue", parse_value |-> "parseValue",
                 read_web |-> "readWeb"]
MCClientParameters == <<"host">>
MCFixtures == <<"public-api">>
MCDocuments == <<"API-PARITY", "BASELINE">>

NoOverrides == [n \in {} |-> n]

Symbol(name, kind, group, boundary) ==
  [name |-> name, python_kind |-> kind, source_group |-> group,
   export_boundary |-> boundary]

MCPinnedApi ==
  [symbols |-> <<Symbol("Client", "class", "client", "."),
                 Symbol("parse_value", "function", "registers", "."),
                 Symbol("Web", "class", "web", "./web"),
                 Symbol("WebAlias", "class", "web", "./web")>>,
   aliases |-> <<[name |-> "WebAlias", target |-> "Web"]>>]

MCPinnedClasses ==
  <<[python_name |-> "PyClient", public_names |-> <<"Client">>, boundaries |-> 1,
     leaks |-> FALSE, parameters |-> <<"host">>, members |-> <<"read_value", "close">>],
    [python_name |-> "PyWeb", public_names |-> <<"Web", "WebAlias">>, boundaries |-> 1,
     leaks |-> FALSE, parameters |-> <<>>, members |-> <<"read_web">>]>>

ClassRow(name, boundary, phase, python) ==
  [python_symbol |-> name, typescript_symbol |-> name, export_path |-> boundary,
   kind |-> "class", owner_phase |-> phase, status |-> "complete", rationale |-> "none",
   contract_test |-> "kept", normalizations |-> {"snake_case_to_camelCase"},
   form |-> "class", validation |-> "python_fixture", alias_of |-> "none",
   python_class |-> python, member_naming |-> "snake_case_to_camelCase",
   member_overrides |-> NoOverrides, has_partial_class |-> FALSE,
   implemented |-> <<>>, omitted |-> <<>>]

BaseRows ==
  <<ClassRow("Client", ".", 2, "PyClient"),
    [ClassRow("parse_value", ".", 2, "none") EXCEPT
       !.typescript_symbol = "parseValue", !.kind = "function", !.form = "function",
       !.validation = "function_fixture", !.member_naming = "none"],
    ClassRow("Web", "./web", 4, "PyWeb"),
    [ClassRow("WebAlias", "./web", 4, "PyWeb") EXCEPT
       !.form = "alias", !.alias_of = "Web",
       !.normalizations = @ \cup {"python_alias_to_typescript_alias"}]>>

BaseExtension ==
  [typescript_symbol |-> "Options", export_path |-> ".", status |-> "complete",
   rationale |-> "reviewed", contract_test |-> "kept"]

Base ==
  [manifest |-> [identity |-> "pinned", verified_on |-> "real",
                parity_status |-> "complete"],
   baselines |-> [api |-> "pinned", classes |-> "pinned", mapping |-> "pinned"],
   api |-> MCPinnedApi, classes |-> MCPinnedClasses, rows |-> BaseRows,
   extensions |-> <<BaseExtension>>, normalization |-> "reviewed",
   evidence |-> [kept |-> <<"directory", "directory", "file">>,
                 lost |-> <<"directory", "missing">>,
                 linked |-> <<"directory", "symlink", "file">>,
                 unsafe |-> <<"directory", "file">>]]

RowEdits(r) ==
  {[r EXCEPT !.status = s] : s \in Statuses}
    \cup {[r EXCEPT !.status = "not_applicable", !.rationale = "reviewed"],
          [r EXCEPT !.rationale = "reviewed"]}
    \cup {[r EXCEPT !.contract_test = p] : p \in {"lost", "linked", "unsafe"}}
    \cup {[r EXCEPT !.typescript_symbol = n] :
            n \in {"Client", "Options", "parse_value", "parseValue", "Web", "not a name"}}
    \cup {[r EXCEPT !.export_path = b] : b \in {".", "./web"}}
    \cup {[r EXCEPT !.owner_phase = p] : p \in {0, 3, 4}}
    \cup {[r EXCEPT !.normalizations = {}], [r EXCEPT !.form = "alias"],
          [r EXCEPT !.alias_of = "Client"], [r EXCEPT !.python_symbol = "Web"],
          [r EXCEPT !.python_class = "PyWeb"], [r EXCEPT !.has_partial_class = TRUE]}

Drop(s, i) == SubSeq(s, 1, i - 1) \o SubSeq(s, i + 1, Len(s))

Edits(a) ==
  UNION {{[a EXCEPT !.rows[i] = r] : r \in RowEdits(a.rows[i])} : i \in DOMAIN a.rows}
    \cup {[a EXCEPT !.rows = Drop(@, i)] : i \in DOMAIN a.rows}
    \cup {[a EXCEPT !.extensions = Append(@, [BaseExtension EXCEPT
             !.typescript_symbol = n, !.export_path = b])] :
            n \in {"Options", "Client", "parseValue", "parse_value"}, b \in {".", "./web"}}
    \cup {[a EXCEPT !.extensions[1].status = "planned"],
          [a EXCEPT !.extensions[1].contract_test = "lost"],
          [a EXCEPT !.manifest.parity_status = "partial"],
          [a EXCEPT !.manifest.identity = "other"],
          [a EXCEPT !.manifest.identity = "malformed"],
          [a EXCEPT !.manifest.identity = "other",
             !.baselines = [file \in DOMAIN @ |-> "other"]],
          [a EXCEPT !.manifest.verified_on = "unreal"],
          [a EXCEPT !.baselines.mapping = "other"],
          [a EXCEPT !.baselines.api = "other"],
          [a EXCEPT !.normalization = "edited"],
          [a EXCEPT !.api.aliases = <<>>],
          [a EXCEPT !.api.symbols[2].export_boundary = "./web"],
          [a EXCEPT !.classes[1].parameters = <<"host", "port">>],
          [a EXCEPT !.classes[1].public_names = <<"Client", "Web">>]}

Lists == UNION {[1..n -> {"readValue", "close", "other"}] : n \in 0..2}

\* Every pair of lists of members for a partial class, with and without renamed members.
Partials ==
  {[Base EXCEPT !.rows[1] = [@ EXCEPT
      !.status = "partial", !.has_partial_class = TRUE, !.implemented = i,
      !.omitted = o, !.member_overrides = v]] :
     i \in Lists, o \in Lists,
     v \in {NoOverrides, [read_value |-> "close"], [read_value |-> "other"],
            [close |-> "not a name"], [ghost |-> "other"]}}

\* Edits that only a release refuses: a second edit can undo or spoil them.
Unreleased == {a \in Edits(Base) : Accepted(a, FALSE) /\ ~Accepted(a, TRUE)}

Tree(a, f) == [authorities |-> a, files |-> f]

MCWorkTrees ==
  {Tree(Base, f) : f \in [Paths -> {"new", "old", "empty", "absent"}]}
    \cup {Tree(a, [p \in Paths |-> "old"]) :
            a \in UNION {Edits(b) : b \in {Base} \cup Unreleased} \cup Partials}
=============================================================================
