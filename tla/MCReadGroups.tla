---------------------------- MODULE MCReadGroups ----------------------------
(***************************************************************************)
(* groupRegisters on every short selection of a small register map: two    *)
(* types, adjacent, overlapping and distant registers of one to three      *)
(* words.  A register is named by its position in the selection.           *)
(***************************************************************************)
EXTENDS ReadGroups

CONSTANTS Addresses, Sizes, Types, MaxRegisters, MaxSpan

ASSUME DefinitionsAssumption ==
  Types \subseteq {"holding", "input"} /\ Addresses \subseteq Nat /\ Sizes \subseteq Nat \ {0}

VARIABLES selection, maxSize, grouped, requests

groupVars == <<selection, maxSize, grouped, requests>>

Definitions == [type : Types, address : Addresses, size : Sizes]

Named(definitions) ==
  [i \in DOMAIN definitions |->
     [name |-> i, type |-> definitions[i].type,
      address |-> definitions[i].address, size |-> definitions[i].size]]

NothingToGroup ==
  selection = <<>> /\ maxSize = MaxSpan /\ grouped = FALSE /\ requests = <<>>

AnySelection ==
  /\ \E definitions \in BoundedSeq(Definitions, MaxRegisters) : selection = Named(definitions)
  /\ maxSize \in 1..MaxSpan
  /\ grouped = FALSE
  /\ requests = <<>>

Group ==
  /\ ~ grouped
  /\ grouped' = TRUE
  /\ requests' = GroupRegisters(selection, maxSize)
  /\ UNCHANGED <<selection, maxSize>>

-----------------------------------------------------------------------------
(* Properties *)

\* Every register given is in one group, reading the groups in turn visits the
\* registers by type and address, equals as given, and every group can be read
\* with one request whose words are told apart by the registers' own addresses
\* and sizes, overlapping ranges included; and there is no request more than
\* needed: a group never ends where the next register could still have been
\* read with it (read-groups.ts:27-55).
GroupsAreReadableAndMaximal ==
  grouped =>
    LET all == FlattenSeq(requests) IN
    /\ Len(all) = Len(selection) /\ ToSet(all) = ToSet(selection)
    /\ IsSorted(all, LAMBDA x, y : ComesBefore(x, y) \/ (~ ComesBefore(y, x) /\ x.name < y.name))
    /\ \A i \in DOMAIN requests : ReadableAtOnce(requests[i], maxSize)
    /\ \A i \in 1..(Len(requests) - 1) : ~ Joinable(requests, i, maxSize)
=============================================================================
