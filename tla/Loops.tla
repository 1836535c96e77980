------------------------------- MODULE Loops -------------------------------
(***************************************************************************)
(* Counted loops: the state Body leaves after it was applied for           *)
(* k = 1 .. n.  FoldLeft of SequencesExt over 1 .. n, written as one       *)
(* recursive function, which TLC evaluates in n steps.                     *)
(***************************************************************************)
EXTENDS Naturals, Sequences

Loop(Body(_, _), start, n) ==
  LET after[k \in 0 .. n] == IF k = 0 THEN start ELSE Body(after[k - 1], k)
  IN  after[n]

\* The same over the elements of a sequence.
Each(Body(_, _), start, s) ==
  LET after[k \in 0 .. Len(s)] ==
        IF k = 0 THEN start ELSE Body(after[k - 1], s[k])
  IN  after[Len(s)]
=============================================================================
