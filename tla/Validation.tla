------------------------------- MODULE Validation ------------------------------
(***************************************************************************)
(* Which stacks are active, where each is loaded from, and what validateAll*)
(* reports (src/config-server: resolution/detection.ts, resolution/        *)
(* stack-resolution.ts, resolution/overlay-warnings.ts, tools/validate.ts, *)
(* validation and invariants).  Two readers of the same files: the checks  *)
(* go file by file, the composition takes what the cascade leaves.         *)
(*                                                                         *)
(* A stack file is [place, name, parses, detection, cacheEnv, pairsWith,   *)
(* versioned, banner]: detection is <<>> without a block, or <<entries>>;  *)
(* cacheEnv maps variables to templates; pairsWith is "" where there is    *)
(* none; versioned stands for everything the schema asks.  An overlay is   *)
(* [broken, versioned, blocks], blocks being what Cascade takes.           *)
(***************************************************************************)
EXTENDS Cascade

Places == <<"project", "user", "package", "fixture">>
TierOf(place) == IF place \in {"package", "fixture"} THEN "builtin" ELSE place
Generic == "generic"

FileAt(files, place, name) == {f \in files : f.place = place /\ f.name = name}

(* resolveStackFile: the first place that has the file, in this order.     *)
ResolveStackFile(files, name) ==
  LET has == {i \in DOMAIN Places : FileAt(files, Places[i], name) # {}} IN
  IF has = {} THEN {} ELSE FileAt(files, Places[Min(has)], name)

StackExists(files, name) == \E f \in files : f.name = name

-------------------------------------------------------------------------------
(* Detection                                                               *)

(* A block is a table of entries, the first the block itself: its entries  *)
(* are alternatives.  An entry is [kind, says, of]: a glob or a file that  *)
(* must contain a text says "matched", "unmatched" or "malformed"; allOf   *)
(* and anyOf ask the entries of the table that they name, from left to     *)
(* right, and stop at the first that decides.                              *)
EvaluateDetectionEntry(entries) ==
  LET verdict[i \in DOMAIN entries] ==
        LET entry == entries[i]
            first(undecided) ==
              LET stops == {k \in DOMAIN entry.of : verdict[entry.of[k]] # undecided} IN
              IF stops = {} THEN undecided ELSE verdict[entry.of[Min(stops)]]
        IN
        CASE entry.kind = "leaf"  -> entry.says
          [] entry.kind = "allOf" -> IF entry.of = <<>> THEN "unmatched" ELSE first("matched")
          [] entry.kind = "anyOf" -> first("unmatched")
  IN verdict

(* Of two built-in files with one name the one whose path sorts first.     *)
IndexBuiltin(files, fixtureFirst, name) ==
  LET fixture == FileAt(files, "fixture", name)
      package == FileAt(files, "package", name)
  IN
  IF (fixtureFirst /\ fixture # {}) \/ package = {} THEN fixture ELSE package

DetectionOf(file) ==
  IF ~file.parses \/ file.detection = <<>> THEN "unmatched"
  ELSE EvaluateDetectionEntry(file.detection[1])[1]

Names(files) == {f.name : f \in files}

(* An override that names anything replaces detection; what it names and no*)
(* tier has is reported.  What user and project files say is not detected. *)
DetectActiveStacks(files, fixtureFirst, override) ==
  LET named == Range(override)
      detected(outcome) == {name \in Names(files) :
                              \E f \in IndexBuiltin(files, fixtureFirst, name) :
                                DetectionOf(f) = outcome}
      found == detected("matched")
  IN
  IF named # {}
  THEN [active |-> {name \in named : StackExists(files, name)},
        issues |-> {<<"MissingFile", name>> : name \in {n \in named : ~StackExists(files, n)}}]
  ELSE [active |-> IF found = {} /\ StackExists(files, Generic) THEN {Generic} ELSE found,
        issues |-> {<<"MalformedInput", name>> : name \in detected("malformed")}]

(* computeOverlayWarnings: the two ways an override can shrink the set.    *)
ShrinkageWarning(overrideSet, detectionSet) ==
  IF overrideSet = {} THEN {}
  ELSE IF Generic \in detectionSet /\ Generic \notin overrideSet THEN {Generic}
  ELSE IF Cardinality(overrideSet) < Cardinality(detectionSet) THEN detectionSet \ overrideSet
  ELSE {}

-------------------------------------------------------------------------------
(* validateAll.  world: [files, fixtureFirst, overlays, modules, inside,   *)
(* existing]: the context paths inside the project root and those that are *)
(* files; modules: set of [name, pairsWith].                               *)

Override == <<"stack", "override">>
ContextPoints == {<<"planner", "additionalContext">>, <<"proposer", "additionalContext">>}
ForbiddenAtUserTierPoints == ContextPoints \union {Override, <<"stack", "cacheEnvOverride">>}
TimeoutPoint == <<"clarifier", "draftTimeoutSeconds">>

(* An overlay whose file does not parse is then left out.               *)
Loaded(world) == [tier \in Range(OverlayTiers) |->
                    IF world.overlays[tier].broken THEN << >> ELSE world.overlays[tier].blocks]

(* Mutant: only a bare list is looked at, not one in a wrapper.            *)
ExtractNamesBare(overlay, point) ==
  LET field == ReadField(overlay, point) IN
  IF field.form # "bare" \/ field.says = <<>> THEN {} ELSE Range(field.says[1])

ExtractNames(overlay, point) ==
  LET field == ReadField(overlay, point) IN
  IF field.says = <<>> THEN {} ELSE Range(field.says[1])

OverlayNames(world, points) ==
  UNION {ExtractNames(Loaded(world)[tier], point) : tier \in Range(OverlayTiers), point \in points}

CheckStackOverrideReferences(world) ==
  {<<"MissingFile", name>> : name \in
     {n \in OverlayNames(world, {Override}) : ResolveStackFile(world.files, n) = {}}}

CheckUserOverlayForbiddenFields(world) ==
  LET user == Loaded(world)["user"] IN
  {<<"MalformedInput", p[1], p[2]>> : p \in
     {p \in ForbiddenAtUserTierPoints : p[1] \in DOMAIN user /\ p[2] \in DOMAIN user[p[1]].fields}}

(* An overlay is refused if it does not parse or the schema does not take  *)
(* it; the schema takes no wrapper with a property of its own.             *)
CheckOverlays(world) ==
  {<<"SchemaMismatch", tier>> : tier \in
     {t \in Range(OverlayTiers) :
        \/ world.overlays[t].broken \/ ~world.overlays[t].versioned
        \/ \E point \in DOMAIN SPLICE_POINTS : ReadField(Loaded(world)[t], point).form = "unknown"}}

(* A timeout is "inRange", "outOfRange" or, for the schema, something else.*)
CheckClarifierTimeoutRange(world) ==
  {<<"InvalidTimeoutValue", tier>> : tier \in
     {t \in Range(OverlayTiers) : ReadField(Loaded(world)[t], TimeoutPoint).says = <<"outOfRange">>}}

CheckPathEscape(world) ==
  {<<"PathEscape", path>> : path \in OverlayNames(world, ContextPoints) \ world.inside}

(* A warning; a path that escapes is left to the check above.              *)
CheckAdditionalContextPathResolves(world) ==
  {<<"InvariantViolation", path>> : path \in
     (OverlayNames(world, ContextPoints) \intersect world.inside) \ world.existing}

(* Every file of every tier is asked, active or not; each against the first*)
(* that declares the variable.                                             *)
CheckCacheEnvNoConflict(world) ==
  LET declares(v) == {f \in world.files : f.parses /\ v \in DOMAIN f.cacheEnv} IN
  {<<"InvariantViolation", v>> : v \in
     {v \in UNION {DOMAIN f.cacheEnv : f \in world.files} :
        \E f, g \in declares(v) : f.cacheEnv[v] # g.cacheEnv[v]}}

(* What one invariant says of the files that break it.                     *)
ReportOn(kind, files) == {<<kind, f.place, f.name>> : f \in files}
Parsed(world) == {f \in world.files : f.parses}

CheckDetectionTier3Only(world) ==
  ReportOn("InvariantViolation",
         {f \in Parsed(world) : TierOf(f.place) # "builtin" /\ f.detection # <<>>})
CheckStackNoDraftBanner(world) ==
  ReportOn("InvariantViolation", {f \in Parsed(world) : f.banner})
CheckStackVersion(world) ==
  ReportOn("InvariantViolation", {f \in Parsed(world) : ~f.versioned})
CheckStackParses(world) == ReportOn("MalformedInput", world.files \ Parsed(world))

(* A project file may not lose the pairing of the built-in one it shadows; *)
(* a stack and a module that name each other's partner have to agree.      *)
LastOf(files, places, name) ==
  LET has == {i \in DOMAIN places : FileAt(files, places[i], name) # {}} IN
  IF has = {} THEN {} ELSE FileAt(files, places[Max(has)], name)

PairsWith(files) == {f.pairsWith : f \in {g \in files : g.parses}} \ {""}

CheckPairsWithConsistency(world) ==
  LET pairing(places, name) == PairsWith(LastOf(world.files, places, name))
      effective(name) == pairing(<<"package", "fixture", "user", "project">>, name)
      names == Names(world.files)
      shadowed == {name \in names : /\ FileAt(world.files, "project", name) # {}
                                    /\ pairing(<<"package", "fixture">>, name) # {}
                                    /\ pairing(<<"project">>, name) = {}}
      disagree == {m.pairsWith : m \in {m \in world.modules :
                                        effective(m.pairsWith) \ {m.name} # {}}}
      missing == {name \in names : effective(name) \ {m.name : m \in world.modules} # {}}
  IN {<<"InvariantViolation", "pairsWith", name>> : name \in shadowed \union disagree \union missing}

MergedList(overlay, point) == IF point \in DOMAIN overlay THEN overlay[point] ELSE <<>>

SuppressedBy(world, override) ==
  LET run(names) == DetectActiveStacks(world.files, world.fixtureFirst, names).active IN
  IF override = <<>> THEN {} ELSE ShrinkageWarning(run(override), run(<<>>))

(* Phases 1 to 3; trust is ConfigServer's.                                 *)
ValidateAll(world) ==
  [errors |->
     CheckOverlays(world)
       \union CheckStackOverrideReferences(world) \union CheckUserOverlayForbiddenFields(world)
       \union CheckClarifierTimeoutRange(world) \union CheckStackParses(world)
       \union CheckStackVersion(world) \union CheckCacheEnvNoConflict(world)
       \union CheckDetectionTier3Only(world) \union CheckPairsWithConsistency(world)
       \union CheckPathEscape(world) \union CheckStackNoDraftBanner(world),
   warnings |-> CheckAdditionalContextPathResolves(world),
   suppressed |-> SuppressedBy(world, MergedList(CascadeOverlays(Loaded(world)).merged, Override))]

-------------------------------------------------------------------------------
(* composeResolvedConfig, from the same files, with its trust and its cache*)
(* left to ConfigServer.                                                   *)
Composed(world, cascade, detection, validation) ==
  [overlay |-> cascade.merged,
   active |-> detection.active,
   byName |-> [name \in {n \in detection.active : ResolveStackFile(world.files, n) # {}} |->
                 CHOOSE f \in ResolveStackFile(world.files, name) : TRUE],
   context |-> {<<path, path \in world.existing>> : path \in
                  UNION {Range(MergedList(cascade.merged, point)) : point \in ContextPoints}},
   errors |-> validation.errors \union detection.issues
                \union IF cascade.issues THEN {<<"MalformedInput", "cascade", "wrapper">>} ELSE {},
   warnings |-> validation.warnings,
   suppressed |-> validation.suppressed]

ComposeResolvedConfig(world) ==
  LET cascade == CascadeOverlays(Loaded(world)) IN
  Composed(world, cascade,
           DetectActiveStacks(world.files, world.fixtureFirst, MergedList(cascade.merged, Override)),
           ValidateAll(world))

-------------------------------------------------------------------------------
(* Properties *)

Usable(world, config) ==
  LET override == Range(MergedList(config.overlay, Override))
      detected == DetectActiveStacks(world.files, world.fixtureFirst, <<>>).active
      stack(name) == config.byName[name]
      of(tier) == ExtractNames(Loaded(world)[tier], Override)
  IN
  /\ override # {} => config.active = override
  /\ override \subseteq of("default") \union of("project")
  /\ \A name \in config.active :
       /\ name \in DOMAIN config.byName
       /\ stack(name).parses /\ stack(name).versioned /\ ~stack(name).banner
       /\ \A other \in config.active :
            \A v \in DOMAIN stack(name).cacheEnv \intersect DOMAIN stack(other).cacheEnv :
              stack(name).cacheEnv[v] = stack(other).cacheEnv[v]
  /\ \A row \in config.context :
       row[1] \in world.inside /\ (row[2] \/ <<"InvariantViolation", row[1]>> \in config.warnings)
  /\ Cardinality(config.active) < Cardinality(detected) => config.suppressed # {}
  /\ config.active = {} => ~StackExists(world.files, Generic)

(* A configuration that comes out without an error can be worked with: each*)
(* override of the project is in force and each active stack is a file that*)
(* was read and accepted, those that share a cache variable agree on it, no*)
(* context path leads out of the project and a missing one has its warning,*)
(* detected stacks are not silently cut to fewer, and nobody is left       *)
(* without a stack while the generic one is there.                         *)
UsableIfValid(world) ==
  \A config \in {ComposeResolvedConfig(world)} : config.errors = {} => Usable(world, config)

(* What a world is: some files, each at one of the places, and overlays as *)
(* their schema has them.                                                  *)
WorldFits(world) ==
  /\ IsFiniteSet(world.files)
  /\ \A f \in world.files : f.place \in Range(Places)
  /\ \A tier \in Range(OverlayTiers) : FieldsFit(world.overlays[tier].blocks)
===============================================================================
