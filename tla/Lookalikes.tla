----------------------------- MODULE Lookalikes -----------------------------
(***************************************************************************)
(* Which names pass for a protected domain (app/reports/domains.py): the   *)
(* name of a protected domain is written down with slips of the pen, a     *)
(* part glued on or another suffix, one change at a time, and looked up.   *)
(*                                                                         *)
(* A domain is its label, a sequence of characters, and its suffix, which  *)
(* may have several levels (registrable); front are the labels before it.  *)
(***************************************************************************)
EXTENDS Integers, FiniteSets, FiniteSetsExt, Sequences, SequencesExt

CONSTANTS
  Alphabet,     \* the characters that are written
  Confusables,  \* _CONFUSABLES, in their order: <<characters, character>>
  Endings,
  Guarded,      \* the protected domains: [label, suffix]
  MaxSlips      \* bound on the slips

ASSUME LookalikeConstants ==
  /\ MaxSlips \in Nat /\ "-" \notin Alphabet
  /\ \A p \in Guarded : p.label \in Seq(Alphabet) /\ p.suffix \in Endings

VARIABLES
  name,   \* what was written: [front, label, suffix]; front is a protected domain or <<>>
  model,  \* the protected domain it was written after
  slips,  \* characters inserted, left out or replaced
  swaps,  \* neighbours swapped
  glued   \* a token was added

LookalikeVars == <<name, model, slips, swaps, glued>>

LookalikeInit == \E p \in Guarded :
  /\ model = p /\ name = [front |-> <<>>, label |-> p.label, suffix |-> p.suffix]
  /\ slips = 0 /\ swaps = 0 /\ glued = FALSE

Label == name.label

Insert == \E i \in 1..Len(Label) + 1, c \in Alphabet :
  /\ name' = [name EXCEPT !.label = InsertAt(@, i, c)]

Omit == \E i \in 1..Len(Label) : name' = [name EXCEPT !.label = RemoveAt(@, i)]

Replace == \E i \in 1..Len(Label), c \in Alphabet : name' = [name EXCEPT !.label[i] = c]

Slip ==
  /\ slips + swaps < MaxSlips /\ ~glued
  /\ Insert \/ Omit \/ Replace
  /\ slips' = slips + 1 /\ UNCHANGED <<model, swaps, glued>>

Swap == \E i \in 1..Len(Label) - 1 :
  /\ slips + swaps < MaxSlips /\ ~glued
  /\ name' = [name EXCEPT !.label[i] = Label[i + 1], !.label[i + 1] = Label[i]]
  /\ swaps' = swaps + 1 /\ UNCHANGED <<model, slips, glued>>

\* "acme-a", "a-acme"
Glue == \E c \in Alphabet :
  /\ ~glued /\ slips + swaps = 0
  /\ glued' = TRUE
  /\ \/ name' = [name EXCEPT !.label = @ \o <<"-", c>>]
     \/ name' = [name EXCEPT !.label = <<c, "-">> \o @]
     \/ name' = [name EXCEPT !.front = <<model>>, !.label = <<c>>]
  /\ UNCHANGED <<model, slips, swaps>>

ChangeSuffix == \E s \in Endings :
  /\ name' = [name EXCEPT !.suffix = s]
  /\ UNCHANGED <<model, slips, swaps, glued>>

LookalikeNext == Slip \/ Swap \/ Glue \/ ChangeSuffix

-----------------------------------------------------------------------------
(* find_lookalike *)

\* str.replace: from the left, without overlap
Substitute(label, from, to) ==
  LET n == Len(from)
      Step(acc, i) ==
        IF i < acc.next THEN acc
        ELSE IF i + n - 1 <= Len(label) /\ SubSeq(label, i, i + n - 1) = from
             THEN [out |-> Append(acc.out, to), next |-> i + n]
             ELSE [out |-> Append(acc.out, label[i]), next |-> i + 1]
  IN FoldLeft(Step, [out |-> <<>>, next |-> 1], [i \in 1..Len(label) |-> i]).out

Skeleton(label) ==
  LET plain == FoldLeft(LAMBDA s, pair : Substitute(s, pair[1], pair[2]), label, Confusables)
  IN SelectSeq(plain, LAMBDA c : c # "-")

\* One row of the table after another; above and before are the two rows before it
EditDistance(a, b, limit) ==
  LET Row(acc, i) ==
        LET Cell(cur, j) ==
              LET cost == IF a[i] = b[j] THEN 0 ELSE 1
                  plain == Min({acc.above[j + 1] + 1, cur[j] + 1, acc.above[j] + cost})
                  swapped == i > 1 /\ j > 1 /\ a[i] = b[j - 1] /\ a[i - 1] = b[j]
              IN Append(cur, IF swapped THEN Min({plain, acc.before[j - 1] + 1}) ELSE plain)
        IN [before |-> acc.above, above |-> FoldLeft(Cell, <<i>>, [j \in 1..Len(b) |-> j])]
      first == [before |-> <<>>, above |-> [j \in 1..Len(b) + 1 |-> j - 1]]
  IN IF Len(a) - Len(b) > limit \/ Len(b) - Len(a) > limit THEN limit + 1
     ELSE FoldLeft(Row, first, [i \in 1..Len(a) |-> i]).above[Len(b) + 1]

Limit(label) == IF Len(label) <= 6 THEN 1 ELSE 2

\* Mutant: a swap of neighbours counts as two changes
IsPlainTypo(c, p) ==
  /\ Len(p.label) >= 5
  /\ Len(c.label) = Len(p.label)
  /\ Cardinality({i \in 1..Len(c.label) : c.label[i] # p.label[i]}) \in 1..Limit(p.label)

IsTypo(c, p) ==
  /\ Len(p.label) >= 5
  /\ EditDistance(c.label, p.label, Limit(p.label)) \in 1..Limit(p.label)

Tokens(label) ==
  LET bars == {0, Len(label) + 1} \union {i \in 1..Len(label) : label[i] = "-"}
  IN {SubSeq(label, i + 1, j - 1) : <<i, j>> \in
        {q \in bars \X bars : q[1] < q[2] /\ \A k \in bars : ~(q[1] < k /\ k < q[2])}}

IsCombo(c, p) ==
  /\ Len(p.label) >= 4 /\ c.label # p.label
  /\ \/ p.label \in Tokens(c.label)
     \/ Len(p.label) >= 5 /\ (IsPrefix(p.label, c.label) \/ IsSuffix(p.label, c.label))

Reg(c) == [label |-> c.label, suffix |-> c.suffix]

Resembling(c, p) ==
  /\ Len(p.label) >= 3
  /\ \/ c.front = <<p>>
     \/ c.label = p.label /\ c.suffix # p.suffix
     \/ c.label # p.label /\ Skeleton(c.label) = Skeleton(p.label)
     \/ IsTypo(c, p)
     \/ IsCombo(c, p)

FindLookalike(c) ==
  IF Reg(c) \in Guarded THEN {} ELSE {p \in Guarded : Resembling(c, p)}

-----------------------------------------------------------------------------

\* domains.py:22: whatever is written instead of a protected name is found, up to
\* one slip in a name of five or six letters and two in a longer one, a swap of
\* neighbours counting as one slip when it is the only one; with another suffix, a
\* token glued on or the whole name in front, from four letters on.
ImitationsAreFound ==
  LET near == slips + swaps <= Limit(model.label) /\ (swaps = 0 \/ slips + swaps = 1)
      long == Len(model.label)
  IN /\ name.label # <<>> /\ Reg(name) \notin Guarded
     /\ \/ long >= 5 /\ near
        \/ long >= 4 /\ slips + swaps = 0
     => model \in FindLookalike(name)
=============================================================================
