------------------------------- MODULE StackFiles -------------------------------
(***************************************************************************)
(* The files of one stack: `gan stacks customize`, `new` and `reset`, and  *)
(* the stack mutations of the config server with `gan stack update`        *)
(* (src/cli/commands, tools/writes.ts, resolution/stack-resolution.ts).    *)
(* Every tool looks first and writes later, by path; a file is replaced in *)
(* one step.  Dropping the server's own resolved configuration after a     *)
(* mutation is ConfigServer's.                                             *)
(***************************************************************************)
EXTENDS Naturals, Sequences, FiniteSets

CONSTANTS
  Tools,            (* processes: a gan command, or a config server        *)
  Values,           (* entries of a list field of the stack                *)
  Unfit,            (* those that the stack schema refuses                 *)
  MaxStackCalls,    (* bound: calls of the tools                           *)
  MaxStackEdits     (* bound: edits by hand                                *)

ASSUME UnfitAssumption == Unfit \subseteq Values

VARIABLES
  file,             (* place -> the stack's file there: [is, list]         *)
  toolAt, toolCall, (* tool -> its step; [kind, place, force, value, base] *)
  stackCalls, stackEdits,
  (* History, read by no guard: *)
  behind,           (* tools that have looked where a file changed since   *)
  overlapped,       (* places such a tool has written or removed           *)
  given,            (* <<place, value>> acknowledged, and still wanted     *)
  cleared,          (* places that were reset and not filled again         *)
  strays            (* places written though another file is in force, or  *)
                    (* a file was there that was not to be replaced        *)

stackVars == <<file, toolAt, toolCall, stackCalls, stackEdits,
               behind, overlapped, given, cleared, strays>>
stackHistory == <<behind, overlapped, given, cleared, strays>>

(* In the order of resolveStackFile.                                       *)
StackPlaces == <<"project", "user", "package">>
OwnPlaces == {"project", "user"}
AllPlaces == OwnPlaces \union {"package"}

(* A file may not parse; the field may hold what is no list.               *)
NoStack == [is |-> "missing", list |-> {}]
BrokenStack == [is |-> "broken", list |-> {}]
Scalar == [is |-> "scalar", list |-> {}]
List(values) == [is |-> "list", list |-> values]
Scaffold == List({})

NoToolCall == [kind |-> "none", place |-> "none", force |-> FALSE, value |-> "none",
               base |-> NoStack]

(* resolveStackFile, over files that stay.                                 *)
InForce(files) ==
  CHOOSE place \in AllPlaces :
    \E i \in DOMAIN StackPlaces :
      /\ StackPlaces[i] = place
      /\ files[place] # NoStack \/ i = Len(StackPlaces)
      /\ \A j \in 1..(i - 1) : files[StackPlaces[j]] = NoStack

StackInit ==
  /\ file \in [AllPlaces -> {NoStack, List({})}]
  /\ file["user"] = NoStack
  /\ toolAt = [t \in Tools |-> "idle"]
  /\ toolCall = [t \in Tools |-> NoToolCall]
  /\ stackCalls = 0
  /\ stackEdits = 0
  /\ behind = {}
  /\ overlapped = {}
  /\ given = {}
  /\ cleared = {}
  /\ strays = {}

ToolGoes(t, step) == toolAt' = [toolAt EXCEPT ![t] = step]
Finds(t, field, value) == toolCall' = [toolCall EXCEPT ![t] = [@ EXCEPT ![field] = value]]
Done(t) ==
  /\ ToolGoes(t, "idle")
  /\ toolCall' = [toolCall EXCEPT ![t] = NoToolCall]

(* Tools that have looked at the place, or past it for a file in force.    *)
Lookers(place) ==
  {t \in Tools :
     \/ toolAt[t] \in {"read built-in", "write", "unlink", "read"} /\ toolCall[t].place = place
     \/ /\ toolAt[t] \in {"resolve", "read", "write"}
        /\ toolCall[t].kind \in {"updateStackField", "appendToStackField", "removeFromStackField"}
        /\ \E i, j \in DOMAIN StackPlaces :
             StackPlaces[i] = place /\ StackPlaces[j] = toolCall[t].place /\ i < j}

(* The file of t's place is replaced or removed by t.                      *)
Puts(t, contents) ==
  LET place == toolCall[t].place IN
  /\ file' = [file EXCEPT ![place] = contents]
  /\ behind' = (behind \union Lookers(place)) \ {t}
  /\ Done(t)

-------------------------------------------------------------------------------
(* Calls                                                                   *)

CustomizeCalls ==
  [kind : {"customize"}, place : OwnPlaces, force : BOOLEAN, value : {"none"}, base : {NoStack}]
NewCalls ==
  [kind : {"new"}, place : OwnPlaces, force : {FALSE}, value : {"none"}, base : {Scaffold}]
ResetCalls ==
  [kind : {"reset"}, place : OwnPlaces, force : {FALSE}, value : {"none"}, base : {NoStack}]
StackMutations == {"updateStackField", "appendToStackField", "removeFromStackField"}
MutationCalls ==
  [kind : StackMutations, place : {StackPlaces[1]}, force : {FALSE}, value : Values,
   base : {NoStack}]

StartTool(t) ==
  /\ toolAt[t] = "idle"
  /\ stackCalls < MaxStackCalls
  /\ stackCalls' = stackCalls + 1
  /\ \E c \in CustomizeCalls \union NewCalls \union ResetCalls \union MutationCalls :
       /\ toolCall' = [toolCall EXCEPT ![t] = c]
       /\ ToolGoes(t, CASE c.kind = "customize"         -> "find built-in"
                        [] c.kind \in {"new", "reset"} -> "look"
                        [] c.kind \in StackMutations   -> "resolve")
  /\ behind' = behind \ {t}
  /\ UNCHANGED <<file, stackEdits, overlapped, given, cleared, strays>>

-------------------------------------------------------------------------------
(* customize, new, reset                                                   *)

FindBuiltin(t) ==
  /\ toolAt[t] = "find built-in"
  /\ IF file["package"] = NoStack THEN Done(t) ELSE ToolGoes(t, "look") /\ UNCHANGED toolCall
  /\ UNCHANGED <<file, stackCalls, stackEdits, stackHistory>>

(* Mutant: the flag decides, and the file is not asked for.                *)
LookBeforeCustomizeForced(t) ==
  /\ toolAt[t] = "look" /\ toolCall[t].kind = "customize"
  /\ ToolGoes(t, "read built-in") /\ UNCHANGED toolCall
  /\ UNCHANGED <<file, stackCalls, stackEdits, stackHistory>>

(* It refuses to overwrite, unless it is forced.                           *)
LookBeforeCustomize(t) ==
  /\ toolAt[t] = "look" /\ toolCall[t].kind = "customize"
  /\ IF file[toolCall[t].place] # NoStack /\ ~toolCall[t].force
     THEN Done(t) ELSE ToolGoes(t, "read built-in") /\ UNCHANGED toolCall
  /\ UNCHANGED <<file, stackCalls, stackEdits, stackHistory>>

(* The copy is of the text, which need not parse.                          *)
ReadBuiltin(t) ==
  /\ toolAt[t] = "read built-in"
  /\ IF file["package"] = NoStack THEN Done(t)
     ELSE ToolGoes(t, "write") /\ Finds(t, "base", file["package"])
  /\ UNCHANGED <<file, stackCalls, stackEdits, stackHistory>>

LookBeforeNew(t) ==
  /\ toolAt[t] = "look" /\ toolCall[t].kind = "new"
  /\ IF file[toolCall[t].place] # NoStack
     THEN Done(t) ELSE ToolGoes(t, "write") /\ UNCHANGED toolCall
  /\ UNCHANGED <<file, stackCalls, stackEdits, stackHistory>>

(* A whole new file: what was there before is not wanted any more if the   *)
(* operator said so, and must not have been there otherwise.               *)
WriteWholeFile(t) ==
  LET c == toolCall[t]
      late == t \in behind
      replaces == file[c.place] # NoStack
  IN
  /\ toolAt[t] = "write" /\ c.kind \in {"customize", "new"}
  /\ Puts(t, c.base)
  /\ overlapped' = IF c.force THEN overlapped \ {c.place}
                   ELSE IF late THEN overlapped \union {c.place} ELSE overlapped
  /\ strays' = IF c.force THEN strays \ {c.place}
               ELSE IF replaces THEN strays \union {c.place} ELSE strays
  /\ given' = IF c.force THEN {g \in given : g[1] # c.place} ELSE given
  /\ cleared' = cleared \ {c.place}
  /\ UNCHANGED <<stackCalls, stackEdits>>

(* Without a customization there is nothing to reset.                      *)
LookBeforeReset(t) ==
  /\ toolAt[t] = "look" /\ toolCall[t].kind = "reset"
  /\ IF file[toolCall[t].place] = NoStack
     THEN Done(t) ELSE ToolGoes(t, "unlink") /\ UNCHANGED toolCall
  /\ UNCHANGED <<file, stackCalls, stackEdits, stackHistory>>

(* unlink fails on a file that has gone; what is there by now goes.        *)
Unlink(t) ==
  LET place == toolCall[t].place IN
  /\ toolAt[t] = "unlink"
  /\ \/ /\ file[place] = NoStack
        /\ Done(t) /\ UNCHANGED <<file, stackHistory>>
     \/ /\ file[place] # NoStack
        /\ Puts(t, NoStack)
        /\ overlapped' = overlapped \ {place}
        /\ strays' = strays \ {place}
        /\ given' = {g \in given : g[1] # place}
        /\ cleared' = cleared \union {place}
  /\ UNCHANGED <<stackCalls, stackEdits>>

-------------------------------------------------------------------------------
(* updateStackField, appendToStackField, removeFromStackField              *)

(* resolveStackFile: place after place, until one has the file.            *)
ResolveStackFile(t) ==
  /\ toolAt[t] = "resolve"
  /\ LET i == CHOOSE i \in DOMAIN StackPlaces : StackPlaces[i] = toolCall[t].place IN
     CASE file[toolCall[t].place] # NoStack -> ToolGoes(t, "read") /\ UNCHANGED toolCall
       [] file[toolCall[t].place] = NoStack /\ i < Len(StackPlaces) ->
            Finds(t, "place", StackPlaces[i + 1]) /\ UNCHANGED toolAt
       [] OTHER -> Done(t)
  /\ UNCHANGED <<file, stackCalls, stackEdits, stackHistory>>

ReadStack(t) ==
  /\ toolAt[t] = "read"
  /\ LET contents == file[toolCall[t].place] IN
     IF contents.is \in {"missing", "broken"} THEN Done(t)
     ELSE ToolGoes(t, "write") /\ Finds(t, "base", contents)
  /\ UNCHANGED <<file, stackCalls, stackEdits, stackHistory>>

(* What apply leaves of the data; appending to what is no list throws, and *)
(* nothing is removed from it.                                             *)
Applied(c) ==
  CASE c.kind = "updateStackField"     -> List({c.value})
    [] c.kind = "appendToStackField"   -> List(c.base.list \union {c.value})
    [] c.kind = "removeFromStackField" -> [c.base EXCEPT !.list = @ \ {c.value}]
Throws(c) == c.kind = "appendToStackField" /\ c.base.is = "scalar"
SchemaIssues(contents) == contents.list \intersect Unfit # {}

PersistStack(t) ==
  LET c == toolCall[t]
      late == t \in behind
      at(values) == {<<c.place, v>> : v \in values}
  IN
  /\ toolAt[t] = "write" /\ c.kind \in StackMutations
  /\ \/ /\ Throws(c) \/ SchemaIssues(Applied(c))
        /\ Done(t) /\ UNCHANGED <<file, stackHistory>>
     \/ /\ ~Throws(c) /\ ~SchemaIssues(Applied(c))
        /\ Puts(t, Applied(c))
        /\ overlapped' = IF late THEN overlapped \union {c.place} ELSE overlapped
        /\ strays' = IF InForce(file) # c.place THEN strays \union {c.place} ELSE strays
        /\ given' = CASE c.kind = "updateStackField" ->
                           {g \in given : g[1] # c.place} \union at({c.value})
                      [] c.kind = "appendToStackField"   -> given \union at({c.value})
                      [] c.kind = "removeFromStackField" -> given \ at({c.value})
        /\ UNCHANGED cleared
  /\ UNCHANGED <<stackCalls, stackEdits>>

-------------------------------------------------------------------------------
(* A system call fails, or the process is killed before it.                *)
ToolStops(t) ==
  /\ toolAt[t] # "idle"
  /\ Done(t)
  /\ UNCHANGED <<file, stackCalls, stackEdits, stackHistory>>

(* The user writes or removes a file of a tier of theirs.                  *)
EditStack ==
  /\ stackEdits < MaxStackEdits
  /\ stackEdits' = stackEdits + 1
  /\ \E place \in OwnPlaces, contents \in {NoStack, BrokenStack, Scalar, List(Unfit)} :
       /\ file' = [file EXCEPT ![place] = contents]
       /\ behind' = behind \union Lookers(place)
       /\ given' = {g \in given : g[1] # place}
       /\ cleared' = cleared \ {place}
  /\ UNCHANGED <<toolAt, toolCall, stackCalls, overlapped, strays>>

StackNext ==
  \/ \E t \in Tools :
       \/ StartTool(t) \/ FindBuiltin(t) \/ LookBeforeCustomize(t) \/ ReadBuiltin(t)
       \/ LookBeforeNew(t) \/ WriteWholeFile(t) \/ LookBeforeReset(t) \/ Unlink(t)
       \/ ResolveStackFile(t) \/ ReadStack(t) \/ PersistStack(t) \/ ToolStops(t)
  \/ EditStack

-------------------------------------------------------------------------------
(* Properties *)

(* Unless a tool has acted on what it saw before somebody else's write: no *)
(* file is replaced that the operator did not give up, an edit goes to the *)
(* file that is in force, an entry that was acknowledged is there until it *)
(* is removed, and a customization that was reset does not come back.  That*)
(* excuse lasts until the file is next reset, or replaced by force.        *)
StackFilesHold ==
  /\ strays \subseteq overlapped
  /\ \A g \in given : g[1] \in overlapped \/ g[2] \in file[g[1]].list
  /\ \A place \in cleared \ overlapped : file[place] = NoStack
===============================================================================
