----------------------------- MODULE ReadGroups -----------------------------
(***************************************************************************)
(* groupRegisters (client/read-groups.ts): a batch of register definitions *)
(* is sorted and cut into groups that are read with one request each.  The *)
(* loop over the sorted definitions is a function of how many it has seen: *)
(* the groups so far, of which the last is still open.                     *)
(*                                                                         *)
(* A register has a type, a first word (address) and a number of words     *)
(* (size); the ranges of different registers may overlap.                  *)
(***************************************************************************)
EXTENDS Integers, Sequences, FiniteSets, SequencesExt

TypeRank(type) == IF type = "holding" THEN 0 ELSE 1

\* The comparison of the sort, which is stable.
ComesBefore(x, y) ==
  \/ TypeRank(x.type) < TypeRank(y.type)
  \/ x.type = y.type /\ x.address < y.address

Precedes(registers, i, j) ==
  \/ ComesBefore(registers[i], registers[j])
  \/ ~ ComesBefore(registers[j], registers[i]) /\ i < j

\* As many definitions are in front of each as precede it.
SortRegisters(registers) ==
  LET rank(i) == Cardinality({j \in DOMAIN registers : Precedes(registers, j, i)}) + 1
  IN [k \in DOMAIN registers |->
        registers[CHOOSE i \in DOMAIN registers : rank(i) = k]]

\* Faulty variant: a definition that starts inside the previous one is merged.
CanMergeOverlapping(current, register, maxGroupSize) ==
  /\ register.type = Head(current).type
  /\ register.address <= Last(current).address + Last(current).size
  /\ register.address + register.size - Head(current).address <= maxGroupSize

\* The definition continues the open group without gap or overlap, and the
\* whole span stays within the limit.
CanMerge(current, register, maxGroupSize) ==
  /\ register.type = Head(current).type
  /\ register.address = Last(current).address + Last(current).size
  /\ register.address + register.size - Head(current).address <= maxGroupSize

\* A definition joins the open group, which is the last, or opens one.
AddToGroups(groups, register, maxGroupSize) ==
  IF groups # <<>> /\ CanMerge(Last(groups), register, maxGroupSize)
  THEN Append(Front(groups), Append(Last(groups), register))
  ELSE Append(groups, <<register>>)

GroupRegisters(registers, maxGroupSize) ==
  LET sorted == SortRegisters(registers)
      groupsOf[n \in 0..Len(registers)] ==
        IF n = 0 THEN <<>> ELSE AddToGroups(groupsOf[n - 1], sorted[n], maxGroupSize)
  IN groupsOf[Len(registers)]

-----------------------------------------------------------------------------
(* Reference definitions, over the words that the registers occupy *)

Words(register) == register.address .. (register.address + register.size - 1)
GroupWords(group) == Head(group).address .. (Last(group).address + Last(group).size - 1)

\* One request can read the group: every register of it has the same type,
\* every word of the span belongs to exactly one of them, and the span is
\* within the limit unless a single register exceeds it by itself.
ReadableAtOnce(group, maxGroupSize) ==
  /\ \A i \in DOMAIN group : group[i].type = Head(group).type
  /\ \A w \in GroupWords(group) :
       \E i \in DOMAIN group :
         w \in Words(group[i]) /\ \A j \in DOMAIN group \ {i} : w \notin Words(group[j])
  /\ Len(group) = 1 \/ Last(group).address + Last(group).size - Head(group).address <= maxGroupSize

\* Joining group i + 1 to group i leaves a group that one request can read.
Joinable(groups, i, maxGroupSize) ==
  ReadableAtOnce(groups[i] \o <<Head(groups[i + 1])>>, maxGroupSize)
=============================================================================
