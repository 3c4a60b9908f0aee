------------------------------- MODULE ModuleState ------------------------------
(***************************************************************************)
(* The module-state tools of the config servers (tools/writes.ts,          *)
(* storage/module-loader.ts): one state file of one module, which the      *)
(* tools of every server read whole and replace whole.                     *)
(*                                                                         *)
(* JSON is an array, an object or a leaf; the entries that are appended    *)
(* are atoms, some of which have a key of their own, and into which no     *)
(* path leads.                                                             *)
(***************************************************************************)
EXTENDS ConfigServer

CONSTANTS
  ModuleCalls,      (* [kind, declared, ...]: see Mutated                  *)
  KeyOf             (* entry -> its key, NoKey for an entry without one    *)

VARIABLES
  state,            (* what the module's state file holds                  *)
  registered,       (* servers that have cached the registrations          *)
  (* History, read by no guard: *)
  owed,             (* <<path, entry>> appended, acknowledged, not dropped *)
  repeats           (* a call has been free to put an entry in twice       *)

moduleVars == <<state, registered, owed, repeats>>

NoKey == "no key"
NoFile == [kind |-> "no file"]
Leaf == [kind |-> "leaf"]
Arr(items) == [kind |-> "array", items |-> items]
Obj(of) == [kind |-> "object", of |-> of]
Empty == Obj(<< >>)
IsObject(value) == value.kind = "object"

(* The value at a key of an object, or none.                               *)
Undefined == [kind |-> "undefined"]
Member(object, key) == IF key \in DOMAIN object.of THEN object.of[key] ELSE Undefined
Put(object, key, value) ==
  Obj([k \in DOMAIN object.of \union {key} |-> IF k = key THEN value ELSE object.of[k]])

-------------------------------------------------------------------------------
(* What an append leaves at its last segment; Undefined if it throws or is *)
(* refused as a duplicate, which error and skip treat alike.               *)
EntryValue(e) == [kind |-> "entry", entry |-> e]
Appended(current, e, policy) ==
  CASE current = Undefined -> Arr(<<e>>)
    [] current.kind = "array" ->
         IF e \in Range(current.items) /\ policy # "allow" THEN Undefined
         ELSE Arr(Append(current.items, e))
    [] current.kind = "object" ->
         IF KeyOf[e] = NoKey \/ (KeyOf[e] \in DOMAIN current.of /\ policy # "allow")
         THEN Undefined ELSE Put(current, KeyOf[e], EntryValue(e))
    [] OTHER -> Undefined

(* Mutant: every parent is made anew.                                      *)
NavigateToParentAnew(data, segment) == Empty

(* On the way, what is no object gives way to an empty one.                *)
NavigateToParent(data, segment) ==
  IF IsObject(Member(data, segment)) THEN Member(data, segment) ELSE Empty

(* Paths have one segment or two.                                          *)
AppendAt(data, path, e, policy) ==
  LET first == Head(path)
      parent == IF Len(path) = 1 THEN data ELSE NavigateToParent(data, first)
      new == Appended(Member(parent, Last(path)), e, policy)
  IN CASE new = Undefined -> Undefined
       [] new # Undefined /\ Len(path) = 1 -> Put(data, first, new)
       [] OTHER -> Put(data, first, Put(parent, Last(path), new))

(* An array, like a leaf or no file, is read as an empty object.           *)
ReadModuleStateOrEmpty(read) == IF IsObject(read) THEN read ELSE Empty

(* Removal sees the top level only: the first entry of an array with this  *)
(* key, or the member of an object.                                        *)
RemoveFrom(read, key) ==
  CASE read.kind = "array" /\ key \in {KeyOf[e] : e \in Range(read.items)} ->
         Arr(RemoveAt(read.items, SelectInSeq(read.items, LAMBDA e : KeyOf[e] = key)))
    [] read.kind = "object" /\ key \in DOMAIN read.of ->
         Obj(Restrict(read.of, DOMAIN read.of \ {key}))
    [] OTHER -> Undefined

(* What the call writes, given what it has read; Undefined for nothing.    *)
Mutated(read, c) ==
  CASE c.kind = "setModuleState"        -> c.value
    [] c.kind = "appendToModuleState"   ->
         AppendAt(ReadModuleStateOrEmpty(read), c.path, c.entry, c.policy)
    [] c.kind = "removeFromModuleState" -> RemoveFrom(read, c.key)

-------------------------------------------------------------------------------
ModuleInit ==
  /\ state = NoFile
  /\ registered = {}
  /\ owed = {}
  /\ repeats = FALSE

filesOfServers == <<overlay, trustCache, cache, now, edits, tallies, disturbed, exposed>>

(* assertStateKeyAllowed: the registrations of all modules are loaded,     *)
(* their prerequisites run, unless an earlier call has cached them; if a   *)
(* prerequisite fails (a daemon is down), the call does.  Then the key has *)
(* to be declared.                                                         *)
StartModuleCall(p) ==
  /\ at[p] = "idle"
  /\ calls < MaxCalls
  /\ calls' = calls + 1
  /\ \/ p \notin registered /\ UNCHANGED <<at, call, registered>>
     \/ /\ registered' = registered \union {p}
        /\ \E c \in ModuleCalls :
             \/ ~c.declared /\ UNCHANGED <<at, call>>
             \/ /\ c.declared
                /\ call' = [call EXCEPT ![p] = c]
                /\ Goes(p, IF c.kind = "setModuleState" THEN "write state" ELSE "read state")
  /\ UNCHANGED <<filesOfServers, seen, state, owed, repeats>>

ReadState(p) ==
  /\ at[p] = "read state"
  /\ \/ Mutated(state, call[p]) = Undefined /\ Returns(p)
     \/ /\ Mutated(state, call[p]) # Undefined
        /\ Remembers(p, [read |-> state])
        /\ Goes(p, "write state")
        /\ UNCHANGED call
  /\ UNCHANGED <<filesOfServers, calls, moduleVars>>

(* The entries of a list or of a map of entries at a path.                 *)
EntriesOf(value) ==
  CASE value.kind = "array"  -> Range(value.items)
    [] value.kind = "object" ->
         {value.of[k].entry : k \in {j \in DOMAIN value.of : value.of[j].kind = "entry"}}
    [] OTHER -> {}
ValueAt(value, path) ==
  LET first == IF IsObject(value) THEN Member(value, Head(path)) ELSE Undefined IN
  CASE Len(path) = 1 -> first
    [] Len(path) = 2 /\ IsObject(first) -> Member(first, path[2])
    [] OTHER -> Undefined
EntriesAt(value, path) == EntriesOf(ValueAt(value, path))

(* The paths of appends.  An array they lead to is a list; and no entry is *)
(* in it twice, where nothing repeats.                                     *)
AppendPaths == {c.path : c \in {d \in ModuleCalls : d.kind = "appendToModuleState"}}
ListsAtPaths(value) ==
  \A path \in AppendPaths :
    LET list == ValueAt(value, path) IN list.kind = "array" => IsList(list.items)
NoRepeats(value) ==
  \A path \in AppendPaths :
    LET list == ValueAt(value, path) IN list.kind = "array" => IsInjective(list.items)

ModuleMutations == {"setModuleState", "appendToModuleState", "removeFromModuleState"}
ASSUME ModuleCallsAssumption ==
  /\ \A c \in ModuleCalls :
       /\ c.kind \in ModuleMutations
       /\ c.kind = "setModuleState" => ListsAtPaths(c.value)
       /\ c.kind = "appendToModuleState" => c.entry \in DOMAIN KeyOf
  /\ \A path \in AppendPaths :
       \/ path = <<path[1]>>
       \/ path = <<path[1], path[2]>> /\ path[2] \notin Range(KeyOf)

(* The entry of a map that is in the way of another one with its key.      *)
Occupies(value, key, e) ==
  /\ IsObject(value) /\ key \in DOMAIN value.of
  /\ value.of[key].kind = "entry" /\ value.of[key].entry = e

(* What a call may drop of what was acknowledged: everything, if it sets   *)
(* the state; what is under the member it removes; a list that it passes   *)
(* through as if it were a parent; the entry whose key it is allowed to    *)
(* use again; and what was written since the call read.                    *)
MayDrop(c, read, item) ==
  \/ c.kind = "setModuleState"
  \/ c.kind = "removeFromModuleState" /\ Head(item[1]) = c.key
  \/ /\ c.kind = "appendToModuleState"
     /\ \/ IsStrictPrefix(item[1], c.path) /\ ~IsObject(ValueAt(read, item[1]))
        \/ c.policy = "allow" /\ item[1] = c.path
           /\ Occupies(ValueAt(read, c.path), KeyOf[c.entry], item[2])
  \/ item[2] \notin EntriesAt(read, item[1])

(* Replace the file, and drop this server's resolved configuration.        *)
WriteState(p) ==
  /\ at[p] = "write state"
  /\ LET c == call[p]
         read == IF c.kind = "setModuleState" THEN NoFile ELSE seen[p].read
     IN
     /\ state' = Mutated(read, c)
     /\ owed' = {item \in owed : ~MayDrop(c, read, item)}
                  \union IF c.kind = "appendToModuleState" THEN {<<c.path, c.entry>>} ELSE {}
     /\ repeats' = \/ repeats
                   \/ c.kind = "appendToModuleState" /\ c.policy = "allow"
                   \/ c.kind = "setModuleState" /\ ~NoRepeats(c.value)
  /\ cache' = [cache EXCEPT ![p] = NoEntry]
  /\ Returns(p)
  /\ UNCHANGED <<disk, now, edits, tallies, disturbed, exposed, calls, registered>>

(* A server is killed; its replacement has cached nothing.                 *)
KillModuleServer(p) ==
  /\ Kill(p)
  /\ registered' = registered \ {p}
  /\ UNCHANGED <<state, owed, repeats>>

(* The tools of both modules, in the same servers.                         *)
ModuleNext ==
  \/ \E p \in Servers :
       \/ StartModuleCall(p) \/ ReadState(p) \/ WriteState(p) \/ KillModuleServer(p)
       \/ ServerStep(p) /\ UNCHANGED moduleVars
  \/ UserStep /\ UNCHANGED moduleVars

-------------------------------------------------------------------------------
(* An entry that appendToModuleState acknowledged stays at its path until  *)
(* a call drops it for one of the reasons of MayDrop, the last of which is *)
(* the race between two servers: an append disturbs no list but its own,   *)
(* and a removal no field but the one it names.  Without the policy allow  *)
(* or a state set with an entry in it twice, no interleaving of appends    *)
(* puts an entry into a list twice.                                        *)
AppendedStays ==
  /\ \A item \in owed : item[2] \in EntriesAt(state, item[1])
  /\ ~repeats => NoRepeats(state)
===============================================================================
