----------------------------- MODULE EvaluatorPlan -----------------------------
(***************************************************************************)
(* The plan that the evaluator works from (src/agents/evaluator-core): a   *)
(* pure function of the resolved configuration, the files that the sprint  *)
(* has touched and the files of the worktree.                              *)
(*                                                                         *)
(* A stack is [name, scope, secretsGlob, commands, security, documentation]*)
(* where commands gives each kind of command that it declares; a surface   *)
(* [id, scope, keywords].  Names, ids, file names and extensions are       *)
(* numbers, in the order in which the code sorts them.  A glob is the set  *)
(* of files that it matches; of a file's contents only the keywords count. *)
(* Of a text only its segments between dots count: spelled gives those of  *)
(* the names and ids, and 0 is the empty segment ("a." is <<a, 0>>).       *)
(***************************************************************************)
EXTENDS Naturals, Sequences, SequencesExt, Sorting

(* The items in the set kept, ascending, duplicates too.                   *)
LocaleSort(items, kept) ==
  StableSort(items, {i \in DOMAIN items : items[i] \in kept}, {p \in kept \X kept : p[1] < p[2]})

FilterByGlobs(candidates, patterns) ==
  LocaleSort(candidates, ToSet(candidates) \intersect UNION patterns)

(* By the fields, the first that differs first.                            *)
Before(r, s, fields) ==
  \E i \in DOMAIN fields : /\ r[fields[i]] < s[fields[i]]
                           /\ \A j \in 1..(i-1) : r[fields[j]] = s[fields[j]]
Sorted(rows, fields) == Enumerate(rows, {p \in rows \X rows : Before(p[1], p[2], fields)})

(* A file of which no contents are given has no keyword.                   *)
KeywordHits(surface, files, contents) ==
  {h \in files \X surface.keywords : h[1] \in DOMAIN contents /\ h[2] \in contents[h[1]]}

(* instantiateSurface of the nth surface: no row, or the one with the      *)
(* evidence for it.                                                        *)
InstantiateSurface(stack, nth, surface, touched, contents) ==
  LET candidates == IF surface.scope = {} THEN touched ELSE FilterByGlobs(touched, surface.scope)
      hits == KeywordHits(surface, ToSet(candidates), contents)
      matched == IF surface.keywords = {} THEN candidates ELSE Ascending({h[1] : h \in hits})
  IN IF matched = <<>> THEN {}
     ELSE {[stack |-> stack.name, id |-> surface.id, nth |-> nth, files |-> matched,
            keywords |-> {h[2] : h \in hits}]}

(* Mutant: the triggers are tried on every file that the sprint touched.   *)
RowsForAnyFile(stack, kind, affected, contents) ==
  UNION {InstantiateSurface(stack, i, stack[kind][i], LocaleSort(affected, ToSet(affected)),
                            contents) : i \in DOMAIN stack[kind]}

(* Of a stack, only the files in its scope count.                          *)
RowsOfStack(stack, kind, affected, contents) ==
  UNION {InstantiateSurface(stack, i, stack[kind][i], FilterByGlobs(affected, stack.scope),
                            contents) : i \in DOMAIN stack[kind]}

(* Two rows of one stack and id stay in the order of its surfaces.         *)
InstantiateSurfaces(stacks, kind, affected, contents) ==
  Sorted(UNION {RowsOfStack(stack, kind, affected, contents) : stack \in ToSet(stacks)},
         <<"stack", "id", "nth">>)

SecuritySurfacesInstantiated(stacks, affected, contents) ==
  InstantiateSurfaces(stacks, "security", affected, contents)

DocumentationSurfacesInstantiated(stacks, affected, contents) ==
  InstantiateSurfaces(stacks, "documentation", affected, contents)

EmptyText == <<0>>
QualifiedId(name, id) == name \o id

(* isKnownSurfaceId: what is before the first dot names the stack, what is *)
(* after it the surface, of either kind; neither may be empty.             *)
IsKnownSurfaceId(stacks, spelled, qualifiedId) ==
  LET stackName == <<Head(qualifiedId)>>
      bareId == Tail(qualifiedId)
  IN /\ Len(qualifiedId) > 1 /\ stackName # EmptyText /\ bareId # EmptyText
     /\ \E stack \in ToSet(stacks) :
          /\ spelled[stack.name] = stackName
          /\ \E surface \in ToSet(stack.security) \union ToSet(stack.documentation) :
               spelled[surface.id] = bareId

(* One row for each extension, even of no file, of a stack in scope.       *)
SecretsRows(stack, files, extensionOf) ==
  LET inScope == FilterByGlobs(files, stack.scope)
      with(extension) == {f \in ToSet(inScope) : extensionOf[f] = extension}
  IN IF inScope = <<>> THEN {}
     ELSE {[stack |-> stack.name, extension |-> stack.secretsGlob[i], nth |-> i,
            files |-> LocaleSort(inScope, with(stack.secretsGlob[i]))] :
             i \in DOMAIN stack.secretsGlob}

BuildSecretsScans(stacks, files, extensionOf) ==
  Sorted(UNION {SecretsRows(stack, files, extensionOf) : stack \in ToSet(stacks)},
         <<"stack", "extension", "nth">>)

(* auditCommands and docLintInvocations: the stacks that declare one.      *)
Declaring(stacks, kind) ==
  Sorted({[stack |-> stack.name, command |-> stack.commands[kind]] :
            stack \in {s \in ToSet(stacks) : kind \in DOMAIN s.commands}}, <<"stack">>)

(* The first stack by name that has one gives the whole plan its command.  *)
FirstOf(stacks, kind) ==
  LET rows == Declaring(stacks, kind) IN IF rows = <<>> THEN <<>> ELSE <<rows[1].command>>

BuildBuildTestLint(stacks) ==
  [kind \in {"buildCmd", "testCmd", "lintCmd"} |-> FirstOf(stacks, kind)]

BuildEvaluatorPlan(stacks, affected, files, extensionOf, contents) ==
  [activeStacks |-> Sorted({[name |-> stack.name] : stack \in ToSet(stacks)}, <<"name">>),
   secretsScans |-> BuildSecretsScans(stacks, files, extensionOf),
   auditCommands |-> Declaring(stacks, "auditCmd"),
   docLintInvocations |-> Declaring(stacks, "docLintCmd"),
   buildTestLint |-> BuildBuildTestLint(stacks),
   security |-> SecuritySurfacesInstantiated(stacks, affected, contents),
   documentation |-> DocumentationSurfacesInstantiated(stacks, affected, contents)]

-------------------------------------------------------------------------------
(* Active stacks are told apart by their names (detection.ts skips          *)
(* duplicates); ids and extensions may be repeated.  The schema of a stack *)
(* has no empty id; a name is what precedes ".md" in a file's name.        *)
IsSequence(s) == s \in Seq(ToSet(s))
StacksFit(stacks) ==
  /\ IsSequence(stacks)
  /\ \A i, j \in DOMAIN stacks : stacks[i].name = stacks[j].name => i = j
  /\ \A stack \in ToSet(stacks) :
       /\ stack.name \in Nat /\ stack.secretsGlob \in Seq(Nat)
       /\ \A kind \in {"security", "documentation"} :
            IsSequence(stack[kind]) /\ \A surface \in ToSet(stack[kind]) : surface.id \in Nat

PlanInputFits(input) ==
  /\ input.affected \in Seq(Nat) /\ input.more \in Seq(Nat) /\ input.files \in Seq(Nat)
  /\ StacksFit(input.stacks)
  /\ \A stack \in ToSet(input.stacks) :
       /\ input.spelled[stack.name] \in Seq(Nat)
       /\ \A surface \in ToSet(stack.security) \union ToSet(stack.documentation) :
            /\ input.spelled[surface.id] \in Seq(Nat)
            /\ input.spelled[surface.id] \notin {<<>>, EmptyText}

-------------------------------------------------------------------------------
(* Properties *)

PlanOf(input) ==
  BuildEvaluatorPlan(input.stacks, input.affected, input.files, input.extensionOf, input.contents)
Reversed(input) ==
  [stacks |-> Reverse(input.stacks), affected |-> Reverse(input.affected), more |-> input.more,
   files |-> Reverse(input.files), extensionOf |-> input.extensionOf, contents |-> input.contents,
   spelled |-> input.spelled]
Enlarged(input) ==
  [stacks |-> input.stacks, affected |-> input.affected \o input.more, more |-> input.more,
   files |-> input.files, extensionOf |-> input.extensionOf, contents |-> input.contents,
   spelled |-> input.spelled]
SurfaceRows(plan) == ToSet(plan.security) \union ToSet(plan.documentation)

Known(row, input) ==
  IsKnownSurfaceId(input.stacks, input.spelled,
                   QualifiedId(input.spelled[row.stack], input.spelled[row.id]))
WithoutDot(text) == Len(text) = 1 /\ text # EmptyText

(* A row is the stack's own, and for what has been touched; it is known by *)
(* its qualified id unless the stack's name has a dot, or is empty.        *)
OfItsStack(row, input) ==
  LET stack == CHOOSE s \in ToSet(input.stacks) : s.name = row.stack IN
  /\ row.files # <<>>
  /\ ToSet(row.files) \subseteq ToSet(input.affected) \intersect UNION stack.scope
  /\ WithoutDot(input.spelled[row.stack]) => Known(row, input)

Grown(row, in) ==
  \E grown \in in : /\ grown.stack = row.stack /\ grown.id = row.id
                    /\ ToSet(row.files) \subseteq ToSet(grown.files)
                    /\ row.keywords \subseteq grown.keywords

Scanned(f, stack, extension, scans) ==
  \E row \in ToSet(scans) : /\ row.stack = stack.name /\ row.extension = extension
                            /\ f \in ToSet(row.files)

(* Two evaluators that are given the same stacks and files in another order*)
(* work from one plan ("callers need not" sort, types.ts); a sprint that   *)
(* touches more never gets fewer surfaces, or less evidence for one; what a*)
(* surface is applied to is the stack's own and has been touched; split at *)
(* its first dot, its qualified id is one that isKnownSurfaceId knows,     *)
(* however many dots the surface's own id has, if the stack's name has     *)
(* none; and no file in the scope of a stack that has its extension        *)
(* scanned for secrets escapes the scan.                                   *)
PlanFits(input) ==
  LET plan == PlanOf(input) IN
  /\ plan = PlanOf(Reversed(input))
  /\ \A row \in SurfaceRows(plan) :
       Grown(row, SurfaceRows(PlanOf(Enlarged(input)))) /\ OfItsStack(row, input)
  /\ \A stack \in ToSet(input.stacks), f \in ToSet(input.files) :
       f \in UNION stack.scope /\ input.extensionOf[f] \in ToSet(stack.secretsGlob) =>
         Scanned(f, stack, input.extensionOf[f], plan.secretsScans)
===============================================================================
