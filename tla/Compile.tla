-------------------------------- MODULE Compile --------------------------------
(***************************************************************************)
(* How local Angel sources become Versions.  The command line client       *)
(* compiles ANGEL.yaml files into an artifact (packages/core/src/domain.ts *)
(* and adapter-derive.ts), Management accepts the artifact or refuses it   *)
(* (artifact-validate.ts, management.ts), a deployment binds Connections   *)
(* to what it requires, and the gates accept the bindings or throw in the  *)
(* middle of that deployment (gate.ts).  Four pieces of code have to agree *)
(* about one artifact; the registry of adapters they consult is that of    *)
(* the release each side runs.                                             *)
(*                                                                         *)
(* A digest stands for the content it is of, a request template for the    *)
(* adapter revision that derived it, and a list that is sorted for a set.  *)
(***************************************************************************)
EXTENDS Naturals, Sequences, FiniteSets, SequencesExt

CONSTANTS
  LocalAngels,   \* the folders under angels/
  Operations, ProviderOf, Folded,  \* operations, their namespaces, their names in upper case
  Sources,       \* what each folder's ANGEL.yaml may say
  Registries,    \* the registry of adapters, release by release
  BoundConnections

(* A release of the registry has a request and a pin for every operation,  *)
(* and a ranking of scopes for its provider.                               *)
Complete(registry) ==
  \A t \in DOMAIN registry.scopes :
    /\ t \in Operations /\ t \in DOMAIN registry.request
    /\ ProviderOf[t] \in DOMAIN registry.pin
    /\ registry.ranking[ProviderOf[t]] \in Seq(ToSet(registry.ranking[ProviderOf[t]]))

(* No name of a folder is that of a requirement of one of two providers:   *)
(* a name has no colon.                                                    *)
ASSUME CompileAssumption ==
  /\ IsFiniteSet(LocalAngels) /\ IsFiniteSet(Operations)
  /\ DOMAIN ProviderOf = Operations /\ DOMAIN Folded = Operations
  /\ DOMAIN Sources = LocalAngels
  /\ \A n \in LocalAngels, o \in Operations : <<n, ProviderOf[o]>> \notin LocalAngels
  /\ \A n \in LocalAngels : \A source \in Sources[n] :
       /\ source.tools \in Seq(ToSet(source.tools))
       /\ source.angels \in Seq(LocalAngels)
  /\ Registries \in Seq(ToSet(Registries)) /\ Registries # <<>>
  /\ \A registry \in ToSet(Registries) : Complete(registry)

(* An exception, or what is not there: no file and no artifact is without  *)
(* a field.                                                                *)
Failed == <<>>

VARIABLES
  files,      \* the ANGEL.yaml of each folder
  release,    \* the registry the client and the hosted side were built with
  published   \* a Version that was accepted

compileVars == <<files, release, published>>

-----------------------------------------------------------------------------
(* The least consent that covers a set of tools of one provider.           *)

Rank(ranking, scope) == CHOOSE i \in DOMAIN ranking : ranking[i] = scope

Alternatives(registry, tool) ==
  registry.scopes[tool] \cap ToSet(registry.ranking[ProviderOf[tool]])

Covers(registry, tools) ==
  {S \in SUBSET UNION {Alternatives(registry, t) : t \in tools} :
     \A t \in tools : S \cap Alternatives(registry, t) # {}}

(* The ranks of a subset, broadest first.                                  *)
Vector(ranking, S) ==
  LET ranks      == {Rank(ranking, s) : s \in S}
      broader(r) == {q \in ranks : q > r}
  IN  [i \in 1 .. Cardinality(ranks) |->
         CHOOSE r \in ranks : Cardinality(broader(r)) = i - 1]

(* Mutant: the fewest scopes are asked for.                                *)
BroadestFirst_Fewest(left, right) ==
  \/ Len(left) < Len(right)
  \/ Len(left) = Len(right) /\ \E i \in DOMAIN left : left[i] < right[i]

BroadestFirst(left, right) ==
  \/ \E i \in DOMAIN left \cap DOMAIN right :
       /\ left[i] < right[i]
       /\ \A j \in 1 .. i - 1 : left[j] = right[j]
  \/ IsStrictPrefix(left, right)

(* A tool without a ranked scope is an exception, which the empty set      *)
(* stands for: it covers no tool.                                          *)
SelectRequiredScopes(registry, tools) ==
  LET ranking == registry.ranking[ProviderOf[CHOOSE t \in tools : TRUE]]
      covers  == Covers(registry, tools)
  IN  IF \E t \in tools : Alternatives(registry, t) = {} THEN {}
      ELSE CHOOSE S \in covers :
             \A T \in covers \ {S} : BroadestFirst(Vector(ranking, S), Vector(ranking, T))

-----------------------------------------------------------------------------
(* Compiling.                                                              *)

(* No field twice, and none of the ones the hosted side adds.              *)
ValidGuards(guards) ==
  /\ IsInjective([i \in DOMAIN guards |-> guards[i].field])
  /\ \A i \in DOMAIN guards : guards[i].field # "angel_connection"

DirectTools(entries, registry) ==
  /\ \A i \in DOMAIN entries :
       entries[i].tool \in DOMAIN registry.scopes /\ ValidGuards(entries[i].guards)
  /\ IsInjective([i \in DOMAIN entries |-> Folded[entries[i].tool]])

SourceTool(entry, registry) ==
  [name     |-> entry.tool,
   provider |-> ProviderOf[entry.tool],
   guards   |-> ToSet(entry.guards),
   request  |-> registry.request[entry.tool]]

ProvidersOf(tools) == {t.provider : t \in tools}

ProvidersFor(tools, registry) == [p \in ProvidersOf(tools) |-> registry.pin[p]]

RequirementsFor(source, tools, registry) ==
  {LET names == {t.name : t \in {u \in tools : u.provider = p}}
   IN  [id |-> p, source |-> source, provider |-> p, tools |-> names,
        requiredScopes |-> SelectRequiredScopes(registry, names)]
     : p \in ProvidersOf(tools)}

(* Mutant: a composite asks for its children's requirements as they are.   *)
RebaseComposedRequirements_Kept(requirements) == requirements

(* A composite names the leaf a requirement comes from, and the provider   *)
(* where the leaf has more than one.                                       *)
RebaseComposedRequirements(requirements) ==
  {LET providers == {s.provider : s \in {u \in requirements : u.source = r.source}}
   IN  [r EXCEPT !.id = IF Cardinality(providers) = 1 THEN r.source
                        ELSE <<r.source, r.provider>>]
     : r \in requirements}

Artifact(name, children, tools, requirements, registry) ==
  IF \E r \in requirements : r.requiredScopes = {} THEN Failed
  ELSE [name |-> name, children |-> children, tools |-> tools,
        providers |-> ProvidersFor(tools, registry), requirements |-> requirements]

Leaf(source, registry) ==
  IF ~DirectTools(source.tools, registry) THEN Failed
  ELSE LET tools == {SourceTool(source.tools[i], registry) : i \in DOMAIN source.tools}
       IN  Artifact(source.name, {}, tools,
                    RequirementsFor(source.name, tools, registry), registry)

(* No tool comes from two children.                                        *)
FlattenTools(children) ==
  \A c, d \in children : c # d =>
    \A t \in c.tools, u \in d.tools : Folded[t.name] # Folded[u.name]

Composite(source, children, registry) ==
  IF ~FlattenTools(children) THEN Failed
  ELSE LET requirements == RebaseComposedRequirements(UNION {c.requirements : c \in children})
           tools        == UNION {c.tools : c \in children}
       IN  IF \E r, s \in requirements : r.id = s.id /\ r # s THEN Failed
           ELSE Artifact(source.name, children, tools, requirements, registry)

(* A path is the folders from the root to the one that is compiled.        *)
Paths == Seq(LocalAngels) \ {<<>>}

CompileSource(repository, registry) ==
  LET compiled[path \in Paths] ==
        LET source    == repository[Last(path)]
            ancestors == {repository[n].name : n \in ToSet(Front(path))}
            child(n)  == compiled[Append(path, n)]
            names     == ToSet(source.angels)
        IN  IF source = Failed THEN Failed
            ELSE IF (source.tools = <<>>) = (source.angels = <<>>) THEN Failed
            ELSE IF source.tools # <<>> THEN Leaf(source, registry)
            ELSE IF source.name \in ancestors \/ ~IsInjective(source.angels) THEN Failed
            ELSE IF \E n \in names : child(n) = Failed THEN Failed
            ELSE IF \E n \in names : child(n).name # n THEN Failed
            ELSE Composite(source, {child(n) : n \in names}, registry)
  IN  compiled

Build(repository, registry, n) ==
  LET artifact == CompileSource(repository, registry)[<<n>>]
  IN  IF artifact # Failed /\ artifact.name = n THEN artifact ELSE Failed

-----------------------------------------------------------------------------
(* Publishing.                                                             *)

ValidProviders(artifact, registry) ==
  /\ DOMAIN artifact.providers = ProvidersOf(artifact.tools)
  /\ \A p \in DOMAIN artifact.providers :
       p \in DOMAIN registry.pin /\ artifact.providers[p] = registry.pin[p]

ValidTools(artifact, registry) ==
  \A t \in artifact.tools :
    /\ t.provider = ProviderOf[t.name]
    /\ \A u \in artifact.tools \ {t} : Folded[u.name] # Folded[t.name]
    /\ t.name \in DOMAIN registry.request
    /\ t.request = registry.request[t.name]

(* Mutant: a tool that no requirement lists is let through.                *)
Claimed_AtMostOnce(artifact) ==
  \A r, s \in artifact.requirements : r # s => r.tools \cap s.tools = {}

(* Every tool is listed by exactly one requirement.                        *)
Claimed(artifact) ==
  /\ \A r, s \in artifact.requirements : r # s => r.tools \cap s.tools = {}
  /\ \A t \in artifact.tools : \E r \in artifact.requirements : t.name \in r.tools

ValidRequirements(artifact, registry) ==
  /\ \A r, s \in artifact.requirements : r.id = s.id => r = s
  /\ \A r \in artifact.requirements :
       /\ r.tools # {}
       /\ \A name \in r.tools :
            \E t \in artifact.tools : t.name = name /\ t.provider = r.provider
       /\ r.requiredScopes # {}
       /\ r.requiredScopes = SelectRequiredScopes(registry, r.tools)
  /\ Claimed(artifact)

AssertArtifact(artifact, slug, registry) ==
  /\ artifact.name = slug
  /\ artifact.tools # {}
  /\ ValidProviders(artifact, registry)
  /\ ValidTools(artifact, registry)
  /\ ValidRequirements(artifact, registry)

-----------------------------------------------------------------------------
(* Deploying.                                                              *)

(* The tools of a requirement that a grant does not cover, and those the   *)
(* registry no longer has.                                                 *)
BindingOperationGaps(registry, tools, granted) ==
  [unknown   |-> tools \ DOMAIN registry.scopes,
   uncovered |-> {t \in tools \cap DOMAIN registry.scopes :
                    registry.scopes[t] \cap granted = {}}]

(* Each Connection gets one ref of its own, whatever it is bound for.      *)
RuntimeBindingsFor(artifact, bindings) ==
  UNION {{[requirement |-> r.id, tool |-> t, connection |-> c, provider |-> r.provider]
            : t \in r.tools, c \in bindings[r.id]} : r \in artifact.requirements}

(* What an install throws on: an unknown tool, another provider, a tool    *)
(* and Connection twice, a tool without a Connection.                      *)
AssertBindings(artifact, bindings) ==
  /\ \A b \in bindings :
       \E t \in artifact.tools : Folded[t.name] = Folded[b.tool] /\ t.provider = b.provider
  /\ \A b, c \in bindings : b # c =>
       <<Folded[b.tool], b.connection>> # <<Folded[c.tool], c.connection>>
  /\ \A t \in artifact.tools : \E b \in bindings : Folded[b.tool] = Folded[t.name]

-----------------------------------------------------------------------------

CompileInit ==
  /\ files = [n \in LocalAngels |-> Failed]
  /\ release \in [{"client", "hosted"} -> {1}]
  /\ published = Failed

(* A Version does not depend on the files any more: one is looked at       *)
(* before they are edited again.                                           *)
Edit(n, source) ==
  /\ published = Failed
  /\ files' = [files EXCEPT ![n] = source]
  /\ UNCHANGED <<release, published>>

Upgrade(side) ==
  /\ release[side] < Len(Registries)
  /\ release' = [release EXCEPT ![side] = @ + 1]
  /\ UNCHANGED <<files, published>>

Reviewed(side) == Registries[release[side]]

(* What other clients of the API may send for an artifact: requirements    *)
(* that are fewer, grouped otherwise or named otherwise, with the consent  *)
(* derived for them or another.                                            *)
Regrouped(artifact) ==
  LET requirements == artifact.requirements
      known(p)     == {t.name : t \in {u \in artifact.tools : u.provider = p}}
                        \cap DOMAIN Reviewed("hosted").scopes
      with(r, s)   == [artifact EXCEPT !.requirements = (@ \ {r}) \cup {s}]
  IN  {[artifact EXCEPT !.requirements = @ \ {r}] : r \in requirements}
      \cup UNION {{with(r, [r EXCEPT !.tools = T,
                      !.requiredScopes = SelectRequiredScopes(Reviewed("hosted"), T)])
                     : T \in (SUBSET known(r.provider)) \ {{}}} : r \in requirements}
      \cup {with(r, [r EXCEPT !.id = s.id]) : r, s \in requirements}
      \cup {with(r, [r EXCEPT !.requiredScopes = s.requiredScopes]) : r, s \in requirements}

PublishArtifact(n) ==
  LET built == Build(files, Reviewed("client"), n)
  IN  /\ published = Failed
      /\ built # Failed
      /\ \E artifact \in {built} \cup Regrouped(built) :
           /\ AssertArtifact(artifact, n, Reviewed("hosted"))
           /\ published' = artifact
      /\ UNCHANGED <<files, release>>

(* The Angel is deleted, and its Versions with it.                         *)
DropVersions ==
  /\ published # Failed
  /\ published' = Failed
  /\ UNCHANGED <<files, release>>

CompileNext ==
  \/ \E n \in LocalAngels : (\E source \in Sources[n] : Edit(n, source)) \/ PublishArtifact(n)
  \/ \E side \in {"client", "hosted"} : Upgrade(side)
  \/ DropVersions

CompileSpec == CompileInit /\ [][CompileNext]_compileVars

-----------------------------------------------------------------------------
(* Properties.                                                             *)

(* The folder composes Angels that build and that share no tool.           *)
Composable(n) ==
  LET builds(m) == Build(files, Reviewed("client"), m)
      angels    == files[n].angels
  IN  /\ files[n] # Failed /\ files[n].name = n
      /\ files[n].tools = <<>> /\ angels # <<>> /\ IsInjective(angels)
      /\ \A i \in DOMAIN angels : builds(angels[i]) # Failed
      /\ \A i, j \in DOMAIN angels : i # j =>
           \A t \in builds(angels[i]).tools, u \in builds(angels[j]).tools :
             Folded[t.name] # Folded[u.name]

(* Angels that build compose, and what a client of the hosted side's       *)
(* release builds the hosted side publishes, and the consent it asks for   *)
(* is enough to be deployed: the compiler, the validator and the deploy    *)
(* floor agree, whatever is composed from what.                            *)
BuildIsAccepted ==
  \A n \in LocalAngels :
    LET artifact == Build(files, Reviewed("client"), n)
    IN  /\ Composable(n) => artifact # Failed
        /\ release["client"] = release["hosted"] /\ artifact # Failed =>
             /\ AssertArtifact(artifact, n, Reviewed("hosted"))
             /\ \A r \in artifact.requirements :
                  BindingOperationGaps(Reviewed("hosted"), r.tools, r.requiredScopes)
                    = [unknown |-> {}, uncovered |-> {}]

(* A Version that was accepted, from whichever client, can be installed:   *)
(* no gate throws on the bindings Management makes for it, with every      *)
(* choice of Connections, so that no deployment of it stops for good.      *)
AcceptedIsInstallable ==
  published # Failed =>
    \A bindings \in [{r.id : r \in published.requirements} -> (SUBSET BoundConnections) \ {{}}] :
      AssertBindings(published, RuntimeBindingsFor(published, bindings))

(* No other consent that covers the tools is narrower: where the two       *)
(* differ, the broadest scope is one that the other asks for, and nothing  *)
(* outside the ranking is asked for.                                       *)
LeastAuthority ==
  \A n \in LocalAngels :
    LET registry == Reviewed("client")
        artifact == Build(files, registry, n)
    IN  artifact # Failed =>
          \A r \in artifact.requirements :
            LET ranking == registry.ranking[r.provider]
                S       == r.requiredScopes
            IN  /\ S \subseteq ToSet(ranking)
                /\ \A T \in (SUBSET ToSet(ranking)) \ {S} :
                     (\A t \in r.tools : T \cap registry.scopes[t] # {}) =>
                       \E s \in T \ S : \A u \in S \ T : Rank(ranking, u) < Rank(ranking, s)
===============================================================================
