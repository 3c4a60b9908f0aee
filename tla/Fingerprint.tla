------------------------------- MODULE Fingerprint -----------------------------
(***************************************************************************)
(* fingerprintEditSet (src/safety/fingerprint.ts): two edit sets that the  *)
(* oscillation check is to take for the same one have the same preimage.   *)
(* SHA-256 is taken to be injective, so the preimage is the fingerprint.   *)
(*                                                                         *)
(* A line is [text, comment, spaced]: what it says, a number in the order  *)
(* of the code units, 0 for nothing; whether a comment trails it; whether  *)
(* its white space is out of the ordinary.  A string literal that quotes a *)
(* comment marker is text: stripComments copies it.                        *)
(***************************************************************************)
EXTENDS Naturals, Sequences, SequencesExt, Sorting

Line == [text : Nat, comment : BOOLEAN, spaced : BOOLEAN]
Blank == [text |-> 0, comment |-> FALSE, spaced |-> FALSE]

(* The options: whether a comment syntax is declared, and the texts that   *)
(* the pattern of a sortable list matches, when its glob matches the path. *)
(* A pattern or a glob that does not compile matches nothing.              *)
StripComments(file, declared) ==
  [i \in DOMAIN file |-> [text |-> file[i].text, comment |-> file[i].comment /\ ~declared,
                          spaced |-> file[i].spaced]]

CollapseSpace(file) ==
  [i \in DOMAIN file |-> [text |-> file[i].text, comment |-> file[i].comment, spaced |-> FALSE]]

(* A comment that is kept is part of what its line says.                   *)
Precedes(l, m) == l.text < m.text \/ (l.text = m.text /\ ~l.comment /\ m.comment)
InLineOrder(file, places) ==
  LET lines == {file[i] : i \in places} IN {p \in lines \X lines : Precedes(p[1], p[2])}

(* Mutant: the sortable lines are sorted as if nothing stood between them. *)
SortMatchingRunsAcross(file, matched) ==
  LET run == {i \in DOMAIN file : file[i].text \in matched} IN
  [i \in DOMAIN file |->
     IF i \in run
     THEN StableSort(file, run, InLineOrder(file, run))[Cardinality({j \in run : j <= i})]
     ELSE file[i]]

(* Every maximal run of adjacent matching lines is sorted in its place.    *)
RunOf(file, i, matched) ==
  {j \in DOMAIN file : \A k \in (i..j) \union (j..i) : file[k].text \in matched}
SortMatchingRuns(file, matched) ==
  [i \in DOMAIN file |->
     LET run == RunOf(file, i, matched) IN
     IF file[i].text \in matched
     THEN StableSort(file, run, InLineOrder(file, run))[Cardinality({j \in run : j <= i})]
     ELSE file[i]]

(* In this order: a line that only a comment filled still parts two runs,  *)
(* and is dropped after the sorting.                                       *)
Collapsed(file, declared) == CollapseSpace(StripComments(file, declared))
NormalizeFileContent(file, declared, matched) ==
  LET lines == SortMatchingRuns(Collapsed(file, declared), matched) IN
  Keep(lines, {i \in DOMAIN lines : lines[i] # Blank})

(* editSet: sequence of [path, content].  Of two entries with one path the *)
(* later is kept, and the files are put in the order of their paths, which *)
(* a function of them stands for; an entry whose path is a forbidden key   *)
(* goes to a list of its own, in which both are kept.                      *)
FingerprintEditSet(editSet, forbidden, declared, matched) ==
  LET normal == [i \in DOMAIN editSet |-> NormalizeFileContent(editSet[i].content, declared, matched)]
      of(path) == {i \in DOMAIN editSet : editSet[i].path = path}
      last(path) == CHOOSE i \in of(path) : \A j \in of(path) : j <= i
      paths == {editSet[i].path : i \in DOMAIN editSet}
  IN
  [files |-> [path \in paths \ forbidden |-> normal[last(path)]],
   forbiddenKeyedFiles |-> [path \in paths \intersect forbidden |-> Keep(normal, of(path))]]

-------------------------------------------------------------------------------
IsFile(file) == file \in Seq(Line)

(* Properties *)

(* The edits of cosmetic churn: a comment, white space or a blank line more*)
(* or less, or two neighbours of a sortable list swapped.                  *)
Spaced(l) == [text |-> l.text, comment |-> l.comment, spaced |-> ~l.spaced]
Commented(l) == [text |-> l.text, comment |-> ~l.comment, spaced |-> l.spaced]
Swapped(file, i) ==
  [j \in DOMAIN file |-> IF j = i THEN file[i + 1] ELSE IF j = i + 1 THEN file[i] ELSE file[j]]
Respelled(file, declared, matched) ==
  {[file EXCEPT ![i] = Spaced(file[i])] : i \in DOMAIN file}
    \union {[file EXCEPT ![i] = Commented(file[i])] : i \in IF declared THEN DOMAIN file ELSE {}}
    \union {Swapped(file, i) : i \in {j \in DOMAIN file : /\ j + 1 \in DOMAIN file
                                                          /\ file[j].text \in matched
                                                          /\ file[j + 1].text \in matched}}
    \union {Append(file, Blank)}

(* What is left of a file when the order inside its sortable lists and all *)
(* churn is forgotten: the sequence of its fixed lines, and how often each *)
(* sortable line stands after so many of them.                             *)
FixedLines(lines, matched) ==
  {i \in DOMAIN lines : lines[i] # Blank /\ lines[i].text \notin matched}
GapOf(lines, i, matched) == Cardinality({j \in FixedLines(lines, matched) : j < i})
LinesInGap(lines, gap, text, comment, matched) ==
  {i \in DOMAIN lines : /\ lines[i] # Blank /\ GapOf(lines, i, matched) = gap
                        /\ lines[i].text = text /\ lines[i].comment = comment}
Essence(lines, matched) ==
  LET fixed == FixedLines(lines, matched) IN
  [fixed |-> Keep(lines, fixed),
   lists |-> [key \in (0..Cardinality(fixed)) \X matched \X BOOLEAN |->
                Cardinality(LinesInGap(lines, key[1], key[2], key[3], matched))]]

(* Churn does not hide a repeated edit, and two edits that differ in more  *)
(* than the order inside their sortable lists are never taken for one: a   *)
(* thrash halts the run, real work does not.  What a file held before its  *)
(* last write in the same attempt makes no difference.                     *)
SameForChurn(file, others, declared, matched) ==
  LET write(f) == [path |-> "src", content |-> f]
      print(writes) == FingerprintEditSet(writes, {"__proto__"}, declared, matched)
      mine == print(<<write(file)>>)
  IN
  /\ \A f \in Respelled(file, declared, matched) : print(<<write(f)>>) = mine
  /\ \A f \in others :
       /\ print(<<write(f)>>) = mine
            => Essence(Collapsed(f, declared), matched) = Essence(Collapsed(file, declared), matched)
       /\ print(<<write(f), write(file)>>) = mine
===============================================================================
