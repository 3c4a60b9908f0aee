--------------------------------- MODULE Cascade -------------------------------
(***************************************************************************)
(* cascadeOverlays (src/config-server/resolution/cascade.ts): one overlay  *)
(* out of the default, the user and the project tier, splice point by      *)
(* splice point.                                                           *)
(*                                                                         *)
(* An overlay maps the blocks it has to [discards, fields]; fields maps the*)
(* fields it has to [form, discards, says], says being <<v>>, or <<>> where*)
(* a wrapper gives no value.  A list rule reads a value of another type as *)
(* the empty list and skips entries of another type; such values are left  *)
(* out, and so is a keyed entry that has no key.                           *)
(***************************************************************************)
EXTENDS Naturals, Sequences, FiniteSets, Functions, SequencesExt

(* SPLICE_POINTS: what is not in this table has no place in the merge.     *)
StringLists ==
  {<<"stack", "override">>, <<"proposer", "suppressSurfaces">>,
   <<"proposer", "additionalContext">>, <<"planner", "additionalContext">>,
   <<"generator", "additionalRules">>}
KeyedLists == {<<"proposer", "additionalCriteria">>, <<"evaluator", "additionalChecks">>}
Scalars ==
  {<<"runner", "thresholdOverride">>, <<"safety", "sprintBudget">>,
   <<"safety", "oscillationDetection">>, <<"clarifier", "draftTimeoutSeconds">>}
CacheEnvs == {<<"stack", "cacheEnvOverride">>}
RoleMaps == {<<"safety", "attemptCeilings">>}

SPLICE_POINTS ==
  [point \in StringLists \union KeyedLists \union Scalars \union CacheEnvs \union RoleMaps |->
     CASE point \in StringLists -> "list-union-by-string"
       [] point = <<"proposer", "additionalCriteria">> -> "list-union-by-key-name"
       [] point = <<"evaluator", "additionalChecks">> -> "list-union-by-key-command"
       [] point \in Scalars     -> "scalar-override"
       [] point \in CacheEnvs   -> "deep-merge-cache-env"
       [] point \in RoleMaps    -> "merge-role-map"]

OverlayTiers == <<"default", "user", "project">>
Prototypes == {"__proto__", "constructor", "prototype"}

-------------------------------------------------------------------------------
(* The merge rules.  lower: what the tiers below have come to.             *)

KeysOf(list) == {list[i].key : i \in DOMAIN list}

(* Each entry of more whose key is not in the list yet is appended.        *)
AppendFresh(list, more, key) ==
  FoldLeft(LAMBDA out, e : IF key[e] \in {key[x] : x \in Range(out)} THEN out ELSE Append(out, e),
           list, more)

MergeStringList(lower, higher) ==
  LET itself == [s \in Range(lower) \union Range(higher) |-> s]
  IN AppendFresh(AppendFresh(<<>>, lower, itself), higher, itself)

(* An inherited entry is replaced where it stands, by the last entry of its*)
(* key; of several new entries with one key the first is appended.         *)
LastOfKey(list, key) ==
  list[CHOOSE i \in DOMAIN list : /\ list[i].key = key
                                  /\ \A j \in DOMAIN list : list[j].key = key => j <= i]
MergeKeyedList(lower, higher) ==
  LET kept == [i \in DOMAIN lower |-> IF lower[i].key \in KeysOf(higher)
                                      THEN LastOfKey(higher, lower[i].key) ELSE lower[i]]
  IN AppendFresh(kept, higher, [e \in Range(kept) \union Range(higher) |-> e.key])

(* Both maps, the higher one's values where they meet.                     *)
Over(higher, lower) ==
  [x \in DOMAIN higher \union DOMAIN lower |-> IF x \in DOMAIN higher THEN higher[x] ELSE lower[x]]

(* NotAnInteger stands for every value that is not one.                    *)
NotAnInteger == 999
IntegerRoles(map) == {role \in DOMAIN map \ Prototypes : map[role] # NotAnInteger}
MergeRoleMap(lower, higher) == Over([role \in IntegerRoles(higher) |-> higher[role]], lower)

DeepMergeCacheEnv(lower, higher) ==
  Over([stack \in DOMAIN higher |->
          IF stack \in DOMAIN lower THEN Over(higher[stack], lower[stack]) ELSE higher[stack]],
       lower)

ApplyMerge(rule, lower, higher) ==
  CASE rule = "scalar-override"           -> higher
    [] rule = "list-union-by-string"      -> MergeStringList(lower, higher)
    [] rule \in {"list-union-by-key-name", "list-union-by-key-command"}
                                          -> MergeKeyedList(lower, higher)
    [] rule = "deep-merge-cache-env"      -> DeepMergeCacheEnv(lower, higher)
    [] rule = "merge-role-map"            -> MergeRoleMap(lower, higher)

(* <<>> is the empty list, and the empty map.                              *)
BareDefault(rule) == IF rule = "scalar-override" THEN <<>> ELSE << <<>> >>

-------------------------------------------------------------------------------
(* One splice point                                                        *)

NoField == [form |-> "bare", discards |-> FALSE, says |-> <<>>]
ReadField(overlay, point) ==
  IF point[1] \in DOMAIN overlay /\ point[2] \in DOMAIN overlay[point[1]].fields
  THEN overlay[point[1]].fields[point[2]]
  ELSE NoField
BlockDiscards(overlay, block) == block \in DOMAIN overlay /\ overlay[block].discards

(* Mutant: a block that discards does so over the field's own wrapper.     *)
DropUpstreamEither(overlay, point) ==
  \/ BlockDiscards(overlay, point[1])
  \/ ReadField(overlay, point).form = "wrapped" /\ ReadField(overlay, point).discards

(* A wrapper decides for its field; a bare or missing field follows the    *)
(* discardInherited of its block.                                          *)
DropUpstream(overlay, point) ==
  LET field == ReadField(overlay, point) IN
  IF field.form = "wrapped" THEN field.discards ELSE BlockDiscards(overlay, point[1])

(* What one tier makes of what the tiers below have come to.               *)
Contribute(below, overlay, point) ==
  LET rule == SPLICE_POINTS[point]
      says == ReadField(overlay, point).says
      base == IF DropUpstream(overlay, point)
              THEN [acc |-> BareDefault(rule), defined |-> FALSE, discarded |-> TRUE]
              ELSE below
  IN IF says = <<>> THEN base
     ELSE [acc |-> <<ApplyMerge(rule, IF base.acc = <<>> THEN <<>> ELSE base.acc[1], says[1])>>,
           defined |-> TRUE, discarded |-> base.discarded]

ResolveSplicePoint(overlays, point) ==
  LET tier(t, below) == Contribute(below, overlays[OverlayTiers[t]], point)
  IN tier(3, tier(2, tier(1, [acc |-> BareDefault(SPLICE_POINTS[point]),
                              defined |-> FALSE, discarded |-> FALSE])))

(* A wrapper with a property of its own anywhere empties the whole merge.  *)
UnknownWrappers(overlays) ==
  \E tier \in Range(OverlayTiers), point \in DOMAIN SPLICE_POINTS :
    ReadField(overlays[tier], point).form = "unknown"

(* A point that no tier defines or discards is not in the merged overlay.  *)
MergedFrom(resolved) ==
  LET discarded == {point \in DOMAIN resolved : resolved[point].discarded}
      points == {point \in DOMAIN resolved : resolved[point].acc # <<>>
                                               /\ (resolved[point].defined \/ point \in discarded)}
  IN [merged |-> [point \in points |-> resolved[point].acc[1]],
      discarded |-> discarded, issues |-> FALSE]

CascadeOverlays(overlays) ==
  IF UnknownWrappers(overlays)
  THEN [merged |-> << >>, discarded |-> {}, issues |-> TRUE]
  ELSE MergedFrom([point \in DOMAIN SPLICE_POINTS |-> ResolveSplicePoint(overlays, point)])

-------------------------------------------------------------------------------
(* Properties *)

(* said: what each tier that counts says, in the order of the tiers.       *)
StringsFit(said, value) ==
  LET first(s) == Min({t \in DOMAIN said : s \in Range(said[t])}) IN
  /\ IsInjective(value)
  /\ Range(value) = UNION {Range(said[t]) : t \in DOMAIN said}
  /\ \A i, j \in DOMAIN value : i < j => first(value[i]) <= first(value[j])

KeyedFit(said, value) ==
  LET withKey(k) == {t \in DOMAIN said : k \in KeysOf(said[t])} IN
  /\ \A i, j \in DOMAIN value :
       i < j => /\ value[i].key # value[j].key
                /\ Min(withKey(value[i].key)) <= Min(withKey(value[j].key))
  /\ KeysOf(value) = UNION {KeysOf(said[t]) : t \in DOMAIN said}
  /\ \A e \in Range(value) : e \in Range(said[Max(withKey(e.key))])

RolesFit(said, value) ==
  LET withRole(r) == {t \in DOMAIN said : r \in IntegerRoles(said[t])} IN
  value = [r \in UNION {IntegerRoles(said[t]) : t \in DOMAIN said} |-> said[Max(withRole(r))][r]]

CachesFit(said, value) ==
  LET withCache(s) == {t \in DOMAIN said : s \in DOMAIN said[t]}
      withVariable(s, v) == {t \in withCache(s) : v \in DOMAIN said[t][s]}
  IN
  value = [s \in UNION {DOMAIN said[t] : t \in DOMAIN said} |->
             [v \in UNION {DOMAIN said[t][s] : t \in withCache(s)} |->
                said[Max(withVariable(s, v))][s][v]]]

RuleFits(rule, said, value) ==
  CASE rule = "scalar-override"      -> value = said[Max(DOMAIN said)]
    [] rule = "list-union-by-string" -> StringsFit(said, value)
    [] rule \in {"list-union-by-key-name", "list-union-by-key-command"} -> KeyedFit(said, value)
    [] rule = "merge-role-map"       -> RolesFit(said, value)
    [] rule = "deep-merge-cache-env" -> CachesFit(said, value)

(* cut: an upstream is discarded.                                          *)
MergeFits(point, said, cut, result) ==
  LET rule == SPLICE_POINTS[point] IN
  /\ (point \in result.discarded) = cut
  /\ (point \in DOMAIN result.merged) = (DOMAIN said # {} \/ (rule # "scalar-override" /\ cut))
  /\ point \in DOMAIN result.merged => RuleFits(rule, said, result.merged[point])

(* Whatever the rule, a merged value is made of what the tiers from the    *)
(* last discarding one on have said and of nothing else: a list holds each *)
(* string or key once, inherited ones first; an entry, a role's ceiling and*)
(* a variable of a cache are the highest tier's that gives one.  A field   *)
(* with a wrapper does not follow its block; a tier that says nothing still*)
(* discards; a malformed wrapper leaves no tier's settings in force.       *)
MadeByTier(overlays, point) ==
  LET overlay(t) == overlays[OverlayTiers[t]]
      field(t) == ReadField(overlay(t), point)
      cuts == {t \in 1..3 : IF field(t).form = "wrapped" THEN field(t).discards
                            ELSE point[1] \in DOMAIN overlay(t) /\ overlay(t)[point[1]].discards}
      voters == {t \in 1..3 : field(t).says # <<>> /\ \A c \in cuts : c <= t}
  IN
  IF \E t \in 1..3, p \in DOMAIN SPLICE_POINTS : ReadField(overlay(t), p).form = "unknown"
  THEN LET result == CascadeOverlays(overlays) IN result.issues /\ result.merged = << >>
  ELSE MergeFits(point, [t \in voters |-> field(t).says[1]], cuts # {}, CascadeOverlays(overlays))

(* What an overlay that passes its schema has at a splice point: a list    *)
(* where a rule merges lists, a map of maps for the caches.                *)
SaysFit(rule, value) ==
  /\ rule \in {"list-union-by-string", "list-union-by-key-name", "list-union-by-key-command"} =>
       value \in Seq(Range(value))
  /\ rule = "deep-merge-cache-env" =>
       \A s \in DOMAIN value : value[s] = [v \in DOMAIN value[s] |-> value[s][v]]

FieldsFit(overlay) ==
  \A point \in DOMAIN SPLICE_POINTS :
    LET field == ReadField(overlay, point) IN
    /\ field.discards \in BOOLEAN /\ BlockDiscards(overlay, point[1]) \in BOOLEAN
    /\ field.says # <<>> =>
         field.says = <<field.says[1]>> /\ SaysFit(SPLICE_POINTS[point], field.says[1])
===============================================================================
